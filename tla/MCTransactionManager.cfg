\* Two handler threads and the tick thread, a pool of one connection that may grow to
\* two, two transactions.
SPECIFICATION Spec
CONSTANTS
    Workers = {w1, w2}
    Tick = tick
    Conns = {1, 2, 3}
    None = none
    PoolSize = 1
    MaxPool = 2
    Txs = {1, 2}
INVARIANTS
    PoolBounded
    OnePlace
    Separate
    CommitMeansAll
