SPECIFICATION ProviderSpec
CONSTANTS
  None = None
  TIMEOUT = 1
  Poller = {p}
  User = {u}
  Button = {"direction"}
  MaxSniffers = 2
  MaxLate = 2
  QueueSize = 2
  StoreReads = 2
  Kind = {"sound"}
INVARIANT MeasuredWithinDirection
