SPECIFICATION Spec
CONSTANTS
  left = left
  right = right
  join = join
  approval = approval
  Jobs = {left, right, join}
  Gates = {}
  Tickers = {t1, t2}
  Operators = {}
  MayPanic = {}
  Unregistered = {}
  MaxOps = 0
  HistoryCap = 1
  MaxExecutions = 2
  U64Max = 8
  MaxShift = 3
  Unbounded = Unbounded
  Envelopes <- MCEnvelopes
  EnvelopesOf <- MCEnvelopesOf
  Cap <- MCCap
  Preds <- MCPreds
  Waves <- JoinWaves
  Policy <- BriefPolicy
  GatesOf <- MCGatesOf
INVARIANTS DagOrder CountersCoverRunning CapRespected
PROPERTIES ImplementsWorkGraph
