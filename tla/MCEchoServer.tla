---------------------------- MODULE MCEchoServer ----------------------------
(* Instances of EchoServer for TLC. *)
EXTENDS EchoServer

Repeated(byte, length) == [i \in 1..length |-> byte]

\* A body of three frames, one of one frame whose client does not state its length, and no body;
\* names of 126, 127 and 300 bytes are around and past what seven bits hold.
MCRequests ==
    {[method |-> "POST", authority |-> Repeated(97, 126), path |-> Repeated(47, 1),
      body |-> <<11, 12, 13, 14, 15>>, hasBody |-> TRUE, declared |-> TRUE],
     [method |-> "POST", authority |-> Repeated(98, 127), path |-> Repeated(47, 300),
      body |-> <<21, 22>>, hasBody |-> TRUE, declared |-> FALSE],
     [method |-> "POST", authority |-> Repeated(98, 5), path |-> Repeated(47, 5),
      body |-> <<31, 32, 33>>, hasBody |-> TRUE, declared |-> FALSE],
     [method |-> "GET", authority |-> Repeated(99, 128), path |-> Repeated(47, 5),
      body |-> <<>>, hasBody |-> FALSE, declared |-> TRUE]}
=============================================================================
