SPECIFICATION Spec
CONSTANTS
  t1 = t1
  t2 = t2
  Threads = {t1, t2}
  Preemptive = FALSE
  Page = 2
  Granule = 4
  Arena = 4
  Gap = 4
  Base <- BaseOf
  Top <- TopOf
  Requests = {1, 3}
  ChosenBases = {25}
  Slots = {0}
  MaxCalls = 3
INVARIANTS BlocksDisjoint FreedReadsAsZero SlotsHeldOnce
PROPERTIES DecommitIsExact
SYMMETRY Twins
