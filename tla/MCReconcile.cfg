SPECIFICATION FairSpec
CONSTANTS
  throttled = throttled
  denied = denied
  pager = pager
  Phrases = {throttled, denied}
  DECLARATIVE_PATTERNS = {denied}
  Routes = {pager}
  Unset = Unset
  NoLayer = NoLayer
  U64Max = 8
  MaxShift = 3
  Slots = {1, 2, 3}
  Limit = 2
  Defaults <- MCDefaults
  LayerChoices <- MCLayerChoices
  RetryWith <- MCRetryWith
  Picks <- MCPicks
  Errors = {{throttled}, {denied}}
  Classify <- MCClassify
  Rules <- MCRules
  Window = 1
  Period = 2
  MaxAge = 2
  MaxAttempts = 2
INVARIANTS TypeOK PoolWithinBounds SuccessIsRecorded DeclarativeStops AcceptedByQuickcheck
PROPERTIES Settles
