SPECIFICATION FairSpec
CONSTANTS
    d1 = d1
    d2 = d2
    app = app
    p1 = p1
    c1 = c1
    c2 = c2
    NoTask = NoTask
    NoDriver = NoDriver
    Tasks <- MCServerTasks
    Drivers <- MCServer
    App = app
    Steps <- MCSteps
    Cancels <- MCTwoCancels
    Capacity = 2
    MaxEffects = 1
INVARIANTS
    AnswerIsFresh
PROPERTIES
    BusyIsRetried
    EveryCallAnswered
