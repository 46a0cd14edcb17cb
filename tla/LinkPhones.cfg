SPECIFICATION Spec
CONSTANTS
  Phones = {phone1, phone2}
  IPs = {ip1}
  NoIp = none
  NoPhone = none
PROPERTIES
  FirstPhoneKept
