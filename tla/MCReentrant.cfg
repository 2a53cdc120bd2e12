CONSTANTS
    x = x
    y = y
    alice = alice
    bob = bob
    playing = playing
    cleared = cleared
    NoUser = NoUser
    NoPresence = NoPresence
    Anyone = Anyone
    Threaded = TRUE
    Paths = {x}
    Slots = {1}
    Users = {alice}
    Presences = {playing}
    MessageQueueSize = 1
    JoinQueueSize = 1
    HandlerSets <- TellingSets
    Vanishing = {}
    Incoming = {}
    Calls = {"Initialize", "RunCallbacks"}
    CallbackCalls = {"Shutdown"}
SPECIFICATION Spec
INVARIANTS CallbacksMayCallBack
