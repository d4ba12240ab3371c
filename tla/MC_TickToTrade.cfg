SPECIFICATION ToolSpec
CONSTANTS
  Mtu = 2
  PriceScale = 10
  SizeScale = 1
  Transports <- AllTransports
  Live = 1
  Warmup = 1
  Room = 2
  MaxSeq <- PacketsSent
INVARIANTS RoundTripsAreReal LossesShow
PROPERTY ThreadsGetThrough
CHECK_DEADLOCK FALSE
