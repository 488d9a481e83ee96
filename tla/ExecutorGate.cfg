SPECIFICATION PromptSpec
CONSTANTS
  Calls = {c1, c2}
  Ops = {o1, o2, a1}
  Awaitables = {a1}
  None = None
INVARIANTS DrainIsQuiet CloseReachesAll WaitersAreResumable
PROPERTIES ImplementsBarrier DrainEnds
CHECK_DEADLOCK FALSE
