CONSTANTS
    Null = Null
    Requests = {r1, r2, r3}
    MaxConns = 2
    Drain = 2
    Deadline = 3
SPECIFICATION FairSpec
CHECK_DEADLOCK FALSE
INVARIANTS GracefulMeansDrained PoolOutlivesRequests
           PoolNeverStuck TransactionsClosed
PROPERTY ExitsAfterSignal
