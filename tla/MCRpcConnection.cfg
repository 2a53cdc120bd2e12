CONSTANT MaxInbox = 3
SPECIFICATION Spec
INVARIANTS TypeOK SessionMatchesPipe
PROPERTIES IsSession GoneIsNoticed ReadyIsHeard
