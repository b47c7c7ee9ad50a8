SPECIFICATION Spec
CONSTANTS
    d1 = d1
    d2 = d2
    app = app
    p1 = p1
    c1 = c1
    c2 = c2
    NoTask = NoTask
    NoDriver = NoDriver
    Tasks <- MCTasks
    Drivers <- MCDrivers
    App = app
    Steps <- MCSteps
    Cancels <- MCCancels
    Capacity = 1
    MaxEffects = 1
INVARIANT PassHasSession
