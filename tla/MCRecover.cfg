SPECIFICATION FairRSpec
CONSTANTS
  left = left
  right = right
  join = join
  approval = approval
  Jobs = {left, join}
  Gates = {}
  Tickers = {t1}
  Operators = {}
  MayPanic = {}
  Unregistered = {}
  MaxOps = 0
  HistoryCap = 1
  MaxExecutions = 3
  U64Max = 8
  MaxShift = 3
  MaxCrashes = 1
  Saver = Saver
  Files = {f1, f2}
  NoFile = NoFile
  Unparseable = Unparseable
  Unbounded = Unbounded
  Envelopes <- MCEnvelopes
  EnvelopesOf <- MCEnvelopesOf
  Cap <- MCCap
  Preds <- MCPreds
  Waves <- ChainWaves
  Policy <- BriefPolicy
  GatesOf <- MCGatesOf
INVARIANTS RTypeOK StoredSuccessStays RestoredAccount DagOrder ReexecutedOnlyByRestart FileParses
PROPERTIES SavesAtomically AllSettle
