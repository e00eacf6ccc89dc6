SPECIFICATION RSpec
CONSTANTS
  left = left
  right = right
  join = join
  approval = approval
  Jobs = {left, right}
  Gates = {}
  Tickers = {t1}
  Operators = {}
  MayPanic = {}
  Unregistered = {}
  MaxOps = 0
  HistoryCap = 1
  MaxExecutions = 2
  U64Max = 8
  MaxShift = 3
  MaxCrashes = 1
  Saver = Saver
  Files = {f1, f2}
  NoFile = NoFile
  Unparseable = Unparseable
  Unbounded = Unbounded
  Envelopes <- MCEnvelopes
  EnvelopesOf <- MCEnvelopesOf
  Cap <- MCCap
  Preds <- MCPreds
  Waves <- PairWaves
  Policy <- BriefPolicy
  GatesOf <- MCGatesOf
INVARIANTS CapRespected
