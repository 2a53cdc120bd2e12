CONSTANTS
    a = a
    b = b
    app = app
    io = io
    QueueSize = 3
    Wrap = 6
    Data = {a, b}
    Torn = Torn
    Producers = {app}
    Consumer = io
SPECIFICATION Spec
INVARIANTS TypeOK NoSharedSlot
PROPERTIES IsFifo IsServed
