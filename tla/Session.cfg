CONSTANT MaxData = 2
SPECIFICATION FairSpec
INVARIANTS EveryPacketDecrypts OnlyKnownRemotes
PROPERTIES BothOpen
CHECK_DEADLOCK FALSE
