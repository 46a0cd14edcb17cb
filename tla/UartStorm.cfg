SPECIFICATION LinkTxSpec
CONSTANTS
  Phones = {phone1}
  IPs = {ip1}
  NoIp = none
  NoPhone = none
  TxSize = 4
  Frames = {2}
PROPERTIES
  UdpIpSet
\* The storm of the transmit interrupt stops everything.
CHECK_DEADLOCK FALSE
