SPECIFICATION ParserSpec
CONSTANTS
  None = None
  OPERATIONAL_DATA_LENGTH = 6
  MaxParses = 2
  Damage = {1, 128}
  Frame <- MCFrame
  Modes = {0, 5}
  Authorities = {0, 3}
  Drivings = {2}
  SourceSets = {{}, {0, 9}, {4}}
  Stamps = {127}
  Devices = {693}
  Pads = {0, 1}
  Codes = {1, 2}
INVARIANTS DecodesWhatWasSent DamageIsNoticed CountersAddUp
