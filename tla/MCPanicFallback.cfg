SPECIFICATION Spec
CONSTANTS
  t1 = t1
  t2 = t2
  SIGABRT = SIGABRT
  SIGSEGV = SIGSEGV
  None = None
  Threads <- MCThread
  Main = t1
  InstallOrder <- MCInstallOrder
  BACKTRACE_LIMIT = 2
  Walks <- MCHighWalks
  MaxSent = 1
INVARIANT FallbackUsesFirst
