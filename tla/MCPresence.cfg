CONSTANTS
    x = x
    y = y
    alice = alice
    bob = bob
    playing = playing
    cleared = cleared
    NoUser = NoUser
    NoPresence = NoPresence
    Anyone = Anyone
    Threaded = TRUE
    Paths = {x}
    Slots = {1}
    Users = {alice, bob}
    Presences = {playing}
    MessageQueueSize = 1
    JoinQueueSize = 1
    HandlerSets <- TellingSets
    Vanishing = {x}
    Incoming = {}
    Calls = {"Initialize", "UpdatePresence", "UpdatePresenceForUser", "ClearHandlers", "UpdateHandlers", "Shutdown"}
    CallbackCalls = {}
SPECIFICATION Spec
INVARIANTS OpenOrPresent NoLostPresence
PROPERTIES PresenceReachesClient
