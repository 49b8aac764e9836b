SPECIFICATION ProcessorSpec
CONSTANTS
  Mode = {manual, auto}
  label = label
  remote = remote
  Reason = {label, remote}
  None = None
  MAX_CONNECTION_HISTORY = 4
  MAX_MODE_TRANSITIONS = 2
  HistoryLimit = 3
  HISTORY_DISPLAY_LIMIT = 2
  ParseResult <- MCParseResult
  MaxBatch = 2
  MaxRecords = 4
  MaxNow = 1
SYMMETRY Modes
CHECK_DEADLOCK FALSE
INVARIANTS ConnectionsAlternate DurationsTile TransitionsChain TransitionsTold EmergenciesTold PanelsTellNow
