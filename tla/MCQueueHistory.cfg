SPECIFICATION HistorySpec
CONSTANTS
  Raw = {a, b, c}
  NoPacket = NoPacket
  MaxSize = 2
  MaxPuts = 5
  Time <- MCTime
INVARIANT NoRepeatInQueue
PROPERTY ImplementsLossyFifo
