SPECIFICATION ProviderSpec
CONSTANTS
  None = None
  TIMEOUT = 1
  Poller = {p}
  User = {u}
  Button = {"toggle", "direction", "clear"}
  MaxSniffers = 2
  MaxLate = 2
  QueueSize = 2
  StoreReads = 2
  Kind = {"damaged"}
INVARIANTS ResponseIsOneState  
PROPERTIES OffIsShown IsChannel
