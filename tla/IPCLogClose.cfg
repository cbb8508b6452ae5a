\* Close while IOS logs.  The link rests when the events are used up.
CONSTANTS
  Services = {FS, DI, ES}
  FS = FS
  DevMgr = DevMgr
  Sys = Sys
  Events = {insert, remove}
  Insertions = {insert}
  HandlerCap = 1
  MaxEvents = 0
  NoEvent = NoEvent
  Nobody = Nobody
SPECIFICATION LiveSpec
PROPERTIES
  CloseFinishes
CHECK_DEADLOCK FALSE
