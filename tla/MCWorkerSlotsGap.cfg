SPECIFICATION Spec
CONSTANTS
    MaxWorkers = 2
    MaxSpawn = 3
    MaxEmit = 1
INVARIANT NoMisrouting
