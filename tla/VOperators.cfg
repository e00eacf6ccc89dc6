SPECIFICATION FairSpec
CONSTANTS
  left = left
  right = right
  join = join
  approval = approval
  Jobs = {left}
  Gates = {}
  Tickers = {t1}
  Operators = {o1, o2}
  MayPanic = {}
  Unregistered = {}
  MaxOps = 2
  HistoryCap = 1
  MaxExecutions = 2
  U64Max = 8
  MaxShift = 3
  Unbounded = Unbounded
  Envelopes <- MCEnvelopes
  EnvelopesOf <- MCEnvelopesOf
  Cap <- MCCap
  Preds <- MCPreds
  Waves <- OneWave
  Policy <- BriefPolicy
  GatesOf <- MCGatesOf
PROPERTIES PhaseChangesAdvance
