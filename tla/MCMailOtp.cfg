SPECIFICATION Spec
CONSTANTS
    Step = 2
    Window = 2
    Workers = {w1, w2}
    MaxTime = 9
    MaxJobs = 3
INVARIANTS
    TypeOK
    LiveKeyVerifies
    LiveKeyIsAccountedFor
PROPERTIES
    QueueDrains
CHECK_DEADLOCK FALSE
