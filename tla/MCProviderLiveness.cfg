SPECIFICATION ProviderSpec
CONSTANTS
  None = None
  TIMEOUT = 1
  Poller = {p}
  User = {u}
  Button = {"toggle", "direction", "clear"}
  MaxSniffers = 2
  MaxLate = 1
  QueueSize = 2
  StoreReads = 2
  Kind = {"sound"}
PROPERTIES QueueIsDrained SilenceIsNoticed
