SPECIFICATION MCSpec
CONSTANTS
    HeaderSize = 3
    BodySize <- MCBodySize
    SplitsHeaders = {"windows"}
    MaxFrames = 3
    Presences <- MCPresences
    Ids = {0, 20}
    Escape = 5
    MaxMessageSize = 16384
    Width = 8
    Sizes = {0, 1, 2, 3}
    MaxBlocks = 4
INVARIANTS TypeOK TornIsLast
    MessagesAreWhole PartsAreNotEmpty NumbersReadBack CopiesFit BlocksFit
PROPERTIES IsRpcConnection GoneIsNoticed
