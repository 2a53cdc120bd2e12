CONSTANTS
    x = x
    y = y
    alice = alice
    bob = bob
    playing = playing
    cleared = cleared
    NoUser = NoUser
    NoPresence = NoPresence
    Anyone = Anyone
    Threaded = TRUE
    Paths = {x}
    Slots = {1}
    Users = {}
    Presences = {playing}
    MessageQueueSize = 1
    JoinQueueSize = 1
    HandlerSets <- JoiningSets
    Vanishing = {}
    Incoming = {}
    Calls = {"Initialize", "RunCallbacks", "Shutdown", "Respond", "UpdateHandlers", "UpdatePresence"}
    CallbackCalls = {"Respond"}
SPECIFICATION CountingSpec
INVARIANTS NothingRunsAfterShutdown SendQueueBound
PROPERTIES ShutdownReturns FullQueueGetsRoom AreSessions
