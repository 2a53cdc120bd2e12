CONSTANTS
    x = x
    y = y
    alice = alice
    bob = bob
    playing = playing
    cleared = cleared
    NoUser = NoUser
    NoPresence = NoPresence
    Anyone = Anyone
    Threaded = FALSE
    Paths = {x, y}
    Slots = {1}
    Users = {}
    Presences = {playing}
    MessageQueueSize = 1
    JoinQueueSize = 2
    HandlerSets <- FullSets
    Vanishing = {}
    Incoming = {"joinGame", "joinRequest"}
    Calls = {"Initialize", "RunCallbacks"}
    CallbackCalls = {"Respond"}
SPECIFICATION Spec
INVARIANTS TypeOK BeliefMatches BookEnded
PROPERTIES EventuallyTold CallbacksEnd
