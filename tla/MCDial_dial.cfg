SPECIFICATION DialLiveSpec
CONSTANT DialTimeout = 3
INVARIANTS ServedAndSet NothingLeftOpen 
PROPERTY DialReturns
