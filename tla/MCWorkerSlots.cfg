SPECIFICATION LiveSpec
CONSTANTS
    MaxWorkers = 2
    MaxSpawn = 3
    MaxEmit = 1
INVARIANTS WorkersAreJoined LinkedAreNotMisrouted
PROPERTIES ParentCallsReturn TerminateIsOwn
