SPECIFICATION Spec
CONSTANTS
    co = co
    m1 = m1
    m2 = m2
    NoMessage = NoMessage
    Participants <- Group
    Coordinator = co
    Agreed <- SigningSet
    T = 2
    Restarters = {co}
    MaxNonces = 2
    MaxFaults = 1
INVARIANTS
    TypeOK
    ShareAnswersCoordinator
    OneMessageEach
    OneShareEver
PROPERTIES
    SessionEnds
    Completes
CHECK_DEADLOCK FALSE
