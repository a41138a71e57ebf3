CONSTANTS
  Pages = {p1}
  p1 = p1
  notifyBufferSize = 2
  writeTimeout = 1
  listenerBlockedTimeout = 3
  MaxVersion = 2
SPECIFICATION FairSpec
INVARIANTS IdlePageIsCurrent
PROPERTIES PagesCatchUp BusyPageIsKept DeadPagesGo
