CONSTANTS
    defaultMaxFrameSize = 2
    Count = 2
    Payload = 2
    Requests <- MCRequests
SPECIFICATION Spec
INVARIANTS
    DecodesBack
    EchoIsBody
