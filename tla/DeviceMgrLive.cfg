\* One card and one USB drive, with fair scheduling.
CONSTANTS
  DeviceCount = 2
  MaxUsb = 1
  UsbIds = {a}
  NoUsb = NoUsb
  Card = Card
  Faults = {"io"}
SPECIFICATION LiveSpec
PROPERTIES
  CardFollowsSlot
  UsbIsUnmounted
