CONSTANTS
    x = x
    y = y
    alice = alice
    bob = bob
    playing = playing
    cleared = cleared
    NoUser = NoUser
    NoPresence = NoPresence
    Anyone = Anyone
    Threaded = FALSE
    Paths = {x}
    Slots = {1}
    Users = {alice}
    Presences = {playing}
    MessageQueueSize = 1
    JoinQueueSize = 1
    HandlerSets <- TellingSets
    Vanishing = {x}
    Incoming = {}
    Calls = {"Initialize", "RunCallbacks"}
    CallbackCalls = {}
SPECIFICATION Spec
INVARIANTS BeliefMatches
