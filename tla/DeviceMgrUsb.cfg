\* Three USB drives, two handles and one device id for them, with every fault.
CONSTANTS
  DeviceCount = 2
  MaxUsb = 2
  UsbIds = {a, b, c}
  NoUsb = NoUsb
  Card = Card
  Faults = {"io", "late", "usb"}
SPECIFICATION Spec
SYMMETRY Symmetry
INVARIANTS
  TypeOK
  ToldIsMounted
  HandlesMatchList
  HandleOwnsDevice
  ServedHasHandle
  HandleIsFree
  LogIsOnCard
PROPERTIES
  ErrorSticks
