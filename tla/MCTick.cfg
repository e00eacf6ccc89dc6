SPECIFICATION Spec
CONSTANTS
  left = left
  right = right
  join = join
  approval = approval
  Jobs = {left, right, join}
  Gates = {approval}
  Tickers = {t1}
  Operators = {o1}
  MayPanic = {right}
  Unregistered = {left}
  MaxOps = 1
  HistoryCap = 2
  MaxExecutions = 2
  U64Max = 8
  MaxShift = 3
  Unbounded = Unbounded
  Envelopes <- MCEnvelopes
  EnvelopesOf <- MCEnvelopesOf
  Cap <- MCCap
  Preds <- MCPreds
  Waves <- JoinWaves
  Policy <- MCPolicy
  GatesOf <- MCGatesOf
INVARIANTS TypeOK BudgetExact RetryAccount TickNeverFails HistoryMatches
PROPERTIES BackoffRespected IdleIsQuiet
