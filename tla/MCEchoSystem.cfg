SPECIFICATION FairSpec
CONSTANTS
  NumJobs = 2
  Signals = {"SIGABRT"}
  BUFFER_SIZE = 2
  Capacity = 1
  Backlog = 1
INVARIANTS
  TypeOK
  ReportNotCut
  ServedRunSucceeds
PROPERTIES
  InjectionHappens
  EchoFlows
  CrashEndsRun
  NoOrphanServer
