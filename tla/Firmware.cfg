SPECIFICATION MCSpec
CONSTANTS
  Phones = {phone1}
  IPs = {ip1, ip2}
  NoIp = none
  NoPhone = none
  c = c
  d = d
  Caller <- TwoCallers
  TimerThread = timer_thread
  None = no_one
  Steps <- ThreeShapes
  Uses <- UsesAll
  Alone = TRUE
  MaxLen = 4
  Char = {"O", "K", "c"}
  Ack <- MCAck
  TxSize = 8
  Frames = {1, 3}
INVARIANTS
  ConnectedListens
  MostUrgentActive
  RunningGoesOn
  AckIsFresh
  BatchIsTimed
  PendingIsSent
PROPERTIES
  SilenceNoticed
  PairedIsConnected
  ReconnectAnswered
