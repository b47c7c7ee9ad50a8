SPECIFICATION Spec
CONSTANTS
    s1 = s1
    s2 = s2
    r1 = r1
    a1 = a1
    driver = driver
    protocol = protocol
    NoTask = NoTask
    NoRequest = NoRequest
    Tasks <- MCTasks
    Syncs <- MCSyncs
    Preempting <- MCPreempting
    Applies <- MCApplies
    Driver = driver
    Capacity = 2
INVARIANT PreemptorNotKeptWaiting
