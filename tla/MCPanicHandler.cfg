SPECIFICATION FairSpec
CONSTANTS
  t1 = t1
  t2 = t2
  SIGABRT = SIGABRT
  SIGSEGV = SIGSEGV
  None = None
  Threads <- MCThreads
  Main = t1
  InstallOrder <- MCInstallOrder
  BACKTRACE_LIMIT = 2
  Walks <- MCWalks
  MaxSent = 1
INVARIANTS
  TypeOK
  HandlerOnce
  ReportWellFormed
  MarksLikelyFrame
PROPERTIES
  ImplementsCrashReport
  FaultKills
