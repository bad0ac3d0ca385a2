SPECIFICATION Spec
CONSTANTS
  t1 = t1
  t2 = t2
  Threads = {t1, t2}
  Preemptive = TRUE
  Shared = FALSE
  Names <- Asked
  Tree <- Disk
  LowerCase <- Lower
  Length <- Bytes
  Size <- Sizes
  Offsets <- Targets
  Counts = {2}
  MaxOpens = 2
INVARIANTS StreamsAccounted NamesResolve
PROPERTIES ImplementsOpenFiles
SYMMETRY Twins
