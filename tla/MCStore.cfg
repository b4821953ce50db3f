\* Two threads of the pool beside the runner, four events, three failures.
CONSTANTS
    r1 = r1
    r2 = r2
    Readers <- Pool
    MaxEvents = 4
    MaxFaults = 3
SPECIFICATION Spec
INVARIANTS FileReadable CacheIsFile NoSeqConflict
PROPERTY LogImplemented
