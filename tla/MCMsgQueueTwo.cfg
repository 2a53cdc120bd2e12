CONSTANTS
    a = a
    b = b
    app = app
    io = io
    QueueSize = 2
    Wrap = 4
    Data = {a}
    Torn = Torn
    Producers = {app, io}
    Consumer = io
SPECIFICATION Spec
INVARIANT NoSharedSlot
