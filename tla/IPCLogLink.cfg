\* Boot, device events and Close, with one event more than the handler and its queue hold.
\* The link rests when the events are used up.
CONSTANTS
  Services = {FS, DI, ES}
  FS = FS
  DevMgr = DevMgr
  Sys = Sys
  Events = {insert, remove}
  Insertions = {insert}
  HandlerCap = 2
  MaxEvents = 4
  NoEvent = NoEvent
  Nobody = Nobody
SPECIFICATION LiveSpec
INVARIANTS
  TypeOK
  HookIsSingle
  StartedMeansReady
  CloseIsLast
PROPERTIES
  EventsInOrder
  BootCompletes
  WaitsEnd
  EventsHandled
CHECK_DEADLOCK FALSE
