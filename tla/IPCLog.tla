------------------------------- MODULE IPCLog ------------------------------
(***************************************************************************)
(* The link between the IOS module and the channel on the PowerPC:         *)
(* /dev/saoirse (src/ios/IOS/IPCLog.cpp), the log that goes through it     *)
(* (src/common/Debug/Log.cpp), and its other end in the channel            *)
(* (IOSBoot::IPCLog, src/channel/Main/IOSBoot.cpp).                        *)
(*                                                                         *)
(* IOS cannot call the PowerPC, so a thread of the channel keeps one ioctl *)
(* pending, the print hook, and registers it anew when it has dealt with   *)
(* the reply.  Whoever has something to say in IOS waits for the hook and  *)
(* replies to it: a line of the log (with logMutex held), the notice that  *)
(* a service is ready, the insertion or removal of a device.  The channel  *)
(* counts the notices to know when the game's IOS has started, and passes  *)
(* the device events on to its handler thread, whose handlers call EmuFS,  *)
(* which logs every request.                                               *)
(*                                                                         *)
(* Time starts when the channel has opened /dev/saoirse, set the clock and *)
(* started its threads.  Several lines of the log in a row count as one,   *)
(* as do the requests of one call of a handler; the copy of the log on the *)
(* card is left out.                                                       *)
(*                                                                         *)
(* An operator named M_... is a variant, with a plausible mistake in it,   *)
(* of the definition it stands before; no action uses it (README.md).      *)
(***************************************************************************)
EXTENDS Integers, FiniteSets, Sequences

CONSTANTS
  Services,    \* the threads that notify: EmuFS, EmuDI and EmuES
  FS,          \* EmuFS, which the device handlers call
  DevMgr,      \* DeviceMgr's thread
  Sys,         \* SystemThreadEntry's thread, which starts the services
  Events,      \* device events: insertions and removals of device ids
  Insertions,  \* the insertions among them
  HandlerCap,  \* size of m_handlerQueue (8)
  MaxEvents,   \* bound: DeviceMgr notifies this many events
  NoEvent, Nobody

Threads == Services \cup {DevMgr, Sys}

ASSUME LinkAssumption ==
  /\ IsFiniteSet(Services) /\ FS \in Services
  /\ DevMgr \notin Services /\ Sys \notin Services /\ DevMgr # Sys
  /\ Nobody \notin Threads
  /\ Insertions \subseteq Events /\ NoEvent \notin Events
  /\ HandlerCap \in Nat \ {0} /\ MaxEvents \in Nat

VARIABLES
  (* in IOS *)
  at,         \* where a thread is: "off", "start", "idle", waiting for logMutex
              \*   ("lock") or for the hook ("print", "notify"), or "done"
  notified,   \* services that are registered and have notified
  logMutex,   \* who holds Log::logMutex
  enabled,    \* Log::ipcLogEnabled
  ipcQueue,   \* m_ipcQueue: the channel's requests
  server,     \* IPCLog::Run: "idle" or "closing"
  hook,       \* the hook is in m_responseQueue
  startQueue, \* a start request is in m_startRequestQueue
  event,      \* the event DeviceMgr is about to notify
  (* in the channel *)
  main,       \* the main thread: "boot", "ioctl", "wait", "started", "game",
              \*   "close", "closed"
  logAt,      \* the log thread: "register", "wait", "reply" or "stopped"
  reply,      \* the IPCLogReply it got, while in "reply",
  buffer,     \*   and logBuffer
  eventCount, trigger,  \* m_eventCount, m_triggerEventCount
  released,   \* iosSyncMutex was released
  handlerQueue,
  handler,    \* the handler thread: "idle", "sync", or at its request to EmuFS:
              \*   "request", "busy", "answered"
  current,    \* the event it is handling
  (* history *)
  sent,       \* the events notified
  handled     \* the events the handlers were called with

iosVars == <<at, notified, logMutex, enabled, event>>
serverVars == <<ipcQueue, server, hook, startQueue>>
logVars == <<logAt, reply, buffer>>
countVars == <<eventCount, trigger>>
handlerVars == <<handlerQueue, handler, current, handled>>
vars == <<iosVars, serverVars, main, logVars, countVars, released, handlerVars, sent>>

Init ==
  /\ at = [t \in Threads |-> IF t \in Services THEN "off" ELSE "idle"]
  /\ notified = {} /\ logMutex = Nobody /\ enabled = TRUE
  /\ ipcQueue = <<>> /\ server = "idle" /\ hook = FALSE /\ startQueue = FALSE
  /\ event = NoEvent
  /\ main = "boot"
  /\ logAt = "register" /\ reply = "Print" /\ buffer = NoEvent
  /\ eventCount = 0 /\ trigger = -1
  /\ released = FALSE
  /\ handlerQueue = <<>> /\ handler = "idle" /\ current = NoEvent
  /\ sent = <<>> /\ handled = <<>>

-----------------------------------------------------------------------------
(* The threads of IOS that log and notify.                                   *)

\* Where a thread goes on after its line of the log.
AfterPrint(t) ==
  IF t = Sys THEN [s \in Threads |-> IF s \in Services THEN "start" ELSE
                                     IF s = Sys THEN "done" ELSE at[s]]
  ELSE IF t \in notified THEN [at EXCEPT ![t] = "idle"]
  ELSE [at EXCEPT ![t] = "notify"]

\* EmuFS has logged the request of a device handler, and answers it.
Answers(t) == t = FS /\ t \in notified
Answered(t) == handler' = IF Answers(t) THEN "answered" ELSE handler

\* Log::VPrint is entered: it returns at once when the log is disabled.
Log(t) ==
  IF enabled
    THEN at' = [at EXCEPT ![t] = "lock"] /\ UNCHANGED handler
    ELSE at' = AfterPrint(t) /\ Answered(t)

\* A new service's first line.
StartService(t) ==
  /\ t \in Services /\ at[t] = "start"
  /\ Log(t)
  /\ UNCHANGED <<notified, logMutex, enabled, event, serverVars, main, logVars, countVars,
                 released, handlerQueue, current, handled, sent>>

\* WaitForStartRequest returns.
GetStart ==
  /\ at[Sys] = "idle" /\ startQueue
  /\ startQueue' = FALSE
  /\ Log(Sys)
  /\ UNCHANGED <<notified, logMutex, enabled, event, ipcQueue, server, hook, main, logVars,
                 countVars, released, handlerQueue, current, handled, sent>>

\* DeviceMgr mounted or unmounted a volume.
DeviceChange(e) ==
  /\ at[DevMgr] = "idle" /\ Len(sent) < MaxEvents
  /\ event' = e
  /\ Log(DevMgr)
  /\ UNCHANGED <<notified, logMutex, enabled, serverVars, main, logVars, countVars,
                 released, handlerQueue, current, handled, sent>>

\* EmuFS gets the request of a device handler.
GetRequest ==
  /\ at[FS] = "idle" /\ handler = "request"
  /\ IF enabled
       THEN at' = [at EXCEPT ![FS] = "lock"] /\ handler' = "busy"
       ELSE at' = at /\ handler' = "answered"
  /\ UNCHANGED <<notified, logMutex, enabled, event, serverVars, main, logVars, countVars,
                 released, handlerQueue, current, handled, sent>>

\* logMutex is locked, and ipcLogEnabled looked at again.
Lock(t) ==
  /\ at[t] = "lock" /\ logMutex = Nobody
  /\ IF enabled
       THEN logMutex' = t /\ at' = [at EXCEPT ![t] = "print"] /\ UNCHANGED handler
       ELSE logMutex' = logMutex /\ at' = AfterPrint(t) /\ Answered(t)
  /\ UNCHANGED <<notified, enabled, event, serverVars, main, logVars, countVars,
                 released, handlerQueue, current, handled, sent>>

\* The hook is taken from m_responseQueue and replied to.
M_PeekHook == hook /\ UNCHANGED hook
TakeHook == hook /\ hook' = FALSE
Reply(kind, data) == TakeHook /\ logAt' = "reply" /\ reply' = kind /\ buffer' = data

\* IPCLog::Print.
PrintLine(t) ==
  /\ at[t] = "print"
  /\ Reply("Print", NoEvent)
  /\ logMutex' = Nobody
  /\ at' = AfterPrint(t) /\ Answered(t)
  /\ UNCHANGED <<notified, enabled, event, ipcQueue, server, startQueue, main, countVars,
                 released, handlerQueue, current, handled, sent>>

\* IPCLog::Notify, the last thing a service does before it serves.
Notify(t) ==
  /\ t \in Services /\ at[t] = "notify"
  /\ Reply("Notice", NoEvent)
  /\ at' = [at EXCEPT ![t] = "idle"]
  /\ notified' = notified \cup {t}
  /\ UNCHANGED <<logMutex, enabled, event, ipcQueue, server, startQueue, main, countVars,
                 released, handlerVars, sent>>

\* IPCLog::NotifyDeviceInsertion, IPCLog::NotifyDeviceRemoval.
NotifyDevice ==
  /\ at[DevMgr] = "notify"
  /\ Reply("Device", event)
  /\ at' = [at EXCEPT ![DevMgr] = "idle"]
  /\ sent' = Append(sent, event)
  /\ event' = NoEvent
  /\ UNCHANGED <<notified, logMutex, enabled, ipcQueue, server, startQueue, main, countVars,
                 released, handlerVars>>

-----------------------------------------------------------------------------
(* IPCLog::Run.                                                              *)

Serve(request) == server = "idle" /\ ipcQueue # <<>> /\ Head(ipcQueue) = request /\ ipcQueue' = Tail(ipcQueue)

\* RegisterPrintHook: m_responseQueue holds one.
RegisterPrintHook ==
  /\ Serve("hook") /\ ~hook
  /\ hook' = TRUE
  /\ UNCHANGED <<iosVars, server, startQueue, main, logVars, countVars, released, handlerVars, sent>>

StartGameEvent ==
  /\ Serve("start") /\ ~startQueue
  /\ startQueue' = TRUE
  /\ main' = "wait"
  /\ UNCHANGED <<iosVars, server, hook, logVars, countVars, released, handlerVars, sent>>

\* Close: no more lines from here on.
Close ==
  /\ Serve("close")
  /\ enabled' = FALSE
  /\ server' = "closing"
  /\ UNCHANGED <<at, notified, logMutex, event, hook, startQueue, main, logVars, countVars,
                 released, handlerVars, sent>>

\* After 10 ms the hook is taken, whenever it is there.
M_CloseAtOnce ==
  /\ server = "closing"
  /\ server' = "idle"
  /\ main' = "closed"
  /\ UNCHANGED <<iosVars, ipcQueue, hook, startQueue, logVars, countVars, released, handlerVars, sent>>
CloseDone ==
  /\ server = "closing"
  /\ Reply("Close", NoEvent)
  /\ server' = "idle"
  /\ main' = "closed"
  /\ UNCHANGED <<iosVars, ipcQueue, startQueue, countVars, released, handlerVars, sent>>

-----------------------------------------------------------------------------
(* The channel's main thread.                                                *)

M_TriggerLess == Cardinality(Services) - 1
Trigger == Cardinality(Services)   \* 3

\* startGameIOS up to the ioctl's return.
StartGameIOS ==
  /\ main = "boot"
  /\ eventCount' = 0 /\ trigger' = Trigger
  /\ ipcQueue' = Append(ipcQueue, "start")
  /\ main' = "ioctl"
  /\ UNCHANGED <<iosVars, server, hook, startQueue, logVars, released, handlerVars, sent>>

\* The wait for the services ends.
M_StartedLocked ==
  /\ main = "started"
  /\ main' = "game"
  /\ UNCHANGED <<iosVars, serverVars, logVars, countVars, released, handlerVars, sent>>
Started ==
  /\ main = "started"
  /\ released' = TRUE
  /\ main' = "game"
  /\ UNCHANGED <<iosVars, serverVars, logVars, countVars, handlerVars, sent>>

\* delete IPCLog::s_instance, which closes /dev/saoirse.
CloseLink ==
  /\ main = "game"
  /\ ipcQueue' = Append(ipcQueue, "close")
  /\ main' = "close"
  /\ UNCHANGED <<iosVars, server, hook, startQueue, logVars, countVars, released, handlerVars, sent>>

-----------------------------------------------------------------------------
(* The channel's log thread.                                                 *)

Register ==
  /\ logAt = "register"
  /\ ipcQueue' = Append(ipcQueue, "hook")
  /\ logAt' = "wait"
  /\ UNCHANGED <<iosVars, server, hook, startQueue, main, reply, buffer, countVars, released,
                 handlerVars, sent>>

GetReply(kind) == logAt = "reply" /\ reply = kind
KeepsLogging == logAt' = "register" /\ UNCHANGED <<reply, buffer>>

HandlePrint ==
  /\ GetReply("Print") /\ KeepsLogging
  /\ UNCHANGED <<iosVars, serverVars, main, countVars, released, handlerVars, sent>>

\* m_eventCount reaches the count that startGameIOS waits for.
HandleNotice ==
  /\ GetReply("Notice") /\ KeepsLogging
  /\ eventCount' = eventCount + 1
  /\ IF eventCount' = trigger
       THEN trigger' = -1 /\ main' = "started"
       ELSE UNCHANGED <<trigger, main>>
  /\ UNCHANGED <<iosVars, serverVars, released, handlerVars, sent>>

M_EnqueueFront(e) == Len(handlerQueue) < HandlerCap /\ handlerQueue' = <<e>> \o handlerQueue
M_EnqueueFull(e) == Len(handlerQueue) <= HandlerCap /\ handlerQueue' = Append(handlerQueue, e)
M_EnqueueShort(e) == Len(handlerQueue) < HandlerCap - 1 /\ handlerQueue' = Append(handlerQueue, e)
Enqueue(e) == Len(handlerQueue) < HandlerCap /\ handlerQueue' = Append(handlerQueue, e)

HandleDevice ==
  /\ GetReply("Device") /\ KeepsLogging
  /\ Enqueue(buffer)
  /\ UNCHANGED <<iosVars, serverVars, main, countVars, released, handler, current, handled, sent>>

HandleClose ==
  /\ GetReply("Close")
  /\ logAt' = "stopped"
  /\ UNCHANGED <<iosVars, serverVars, main, reply, buffer, countVars, released, handlerVars, sent>>

-----------------------------------------------------------------------------
(* The channel's handler thread, with Riivolution's handlers.                *)

Dequeue ==
  /\ handler = "idle" /\ handlerQueue # <<>>
  /\ current' = Head(handlerQueue) /\ handlerQueue' = Tail(handlerQueue)
  /\ handled' = Append(handled, current')
  /\ handler' = IF current' \in Insertions THEN "sync" ELSE "answered"
  /\ UNCHANGED <<iosVars, serverVars, main, logVars, countVars, released, sent>>

\* WaitForIOS, then the request to EmuFS.
WaitForIOS ==
  /\ handler = "sync" /\ released
  /\ handler' = "request"
  /\ UNCHANGED <<iosVars, serverVars, main, logVars, countVars, released, handlerQueue, current,
                 handled, sent>>

HandlerDone ==
  /\ handler = "answered"
  /\ handler' = "idle" /\ current' = NoEvent
  /\ UNCHANGED <<iosVars, serverVars, main, logVars, countVars, released, handlerQueue, handled, sent>>

-----------------------------------------------------------------------------
IosThread(t) == StartService(t) \/ Lock(t) \/ PrintLine(t) \/ Notify(t)

Server == RegisterPrintHook \/ StartGameEvent \/ Close \/ CloseDone

LogThread == Register \/ HandlePrint \/ HandleNotice \/ HandleDevice \/ HandleClose

HandlerThread == Dequeue \/ WaitForIOS \/ HandlerDone

Next ==
  \/ \E t \in Threads : IosThread(t)
  \/ GetStart \/ GetRequest \/ NotifyDevice
  \/ \E e \in Events : DeviceChange(e)
  \/ Server \/ LogThread \/ HandlerThread
  \/ StartGameIOS \/ Started \/ CloseLink

Spec == Init /\ [][Next]_vars

\* Every thread goes on when it can; only devices need not change.
LiveSpec ==
  /\ Spec
  /\ \A t \in Threads : WF_vars(IosThread(t))
  /\ WF_vars(GetStart) /\ WF_vars(GetRequest) /\ WF_vars(NotifyDevice)
  /\ WF_vars(Server) /\ WF_vars(LogThread) /\ WF_vars(HandlerThread)
  /\ WF_vars(StartGameIOS) /\ WF_vars(Started)

-----------------------------------------------------------------------------
(* Properties.                                                               *)

\* Every variable stays in its range.
TypeOK ==
  /\ at \in [Threads -> {"off", "start", "idle", "lock", "print", "notify", "done"}]
  /\ notified \in SUBSET Services
  /\ logMutex \in Threads \cup {Nobody}
  /\ enabled \in BOOLEAN
  /\ ipcQueue \in Seq({"hook", "start", "close"})
  /\ server \in {"idle", "closing"}
  /\ hook \in BOOLEAN
  /\ startQueue \in BOOLEAN
  /\ event \in Events \cup {NoEvent}
  /\ main \in {"boot", "ioctl", "wait", "started", "game", "close", "closed"}
  /\ logAt \in {"register", "wait", "reply", "stopped"}
  /\ reply \in {"Print", "Notice", "Device", "Close"}
  /\ buffer \in Events \cup {NoEvent}
  /\ eventCount \in Nat
  /\ trigger \in Nat \cup {-1}
  /\ released \in BOOLEAN
  /\ handlerQueue \in Seq(Events) /\ Len(handlerQueue) <= HandlerCap
  /\ handler \in {"idle", "sync", "request", "busy", "answered"}
  /\ current \in Events \cup {NoEvent}
  /\ sent \in Seq(Events)
  /\ handled \in Seq(Events)

HooksQueued == {n \in DOMAIN ipcQueue : ipcQueue[n] = "hook"}

\* There is one hook: while the log thread waits it is in one of the two queues,
\* and else in neither.  So m_responseQueue is never full for the thread that
\* serves the channel, and nobody writes to logBuffer while it is being read.
HookIsSingle ==
  /\ \A m, n \in HooksQueued : m = n
  /\ ~(hook /\ HooksQueued # {})
  /\ logAt = "wait" <=> hook \/ HooksQueued # {}

\* "The channel will count the number of resources to make sure everything is
\* started": startGameIOS returns, and the device handlers that wait for it go
\* on, only when every service is registered.
StartedMeansReady == main \in {"started", "game", "close", "closed"} \/ released => notified = Services

\* When the object of the channel's end is deleted, its log thread has had the
\* last reply and does not use it any more.
CloseIsLast == main = "closed" => logAt = "stopped" \/ (logAt = "reply" /\ reply = "Close")

\* The device events reach the handlers as the abstract channel says.
Channel == INSTANCE EventChannel WITH sent <- sent, handled <- handled
EventsInOrder == Channel!Spec

\* The events DeviceMgr has notified and the handlers are not done with.
Outstanding == Len(sent) - Len(handled) + (IF current = NoEvent THEN 0 ELSE 1)

\* The handler thread and its queue have room for every event that is outstanding.
\* Nothing in the code sees to that.  One event more is held by the log thread (at
\* Enqueue), which then registers no hook: if the handler waits for the boot, or for
\* EmuFS and EmuFS for its line of the log, all wait for ever (README.md).
RoomForEvents == Outstanding <= HandlerCap + 1

Unclosed == main \notin {"close", "closed"}

\* While there is room for the events, the services get started.
BootCompletes == []RoomForEvents => <>released

\* While there is room for the events and the link is not closed, nobody in IOS
\* waits for logMutex or the hook for ever, however many events have come before:
\* the log thread does not wait for a handler that waits for a service that waits
\* for the log.
WaitsEnd ==
  [](Unclosed /\ RoomForEvents) =>
    \A t \in Threads : [](at[t] \in {"lock", "print", "notify"} => <>(at[t] \in {"idle", "done"}))

\* Under the same condition every event that was notified is handled.
EventsHandled ==
  [](Unclosed /\ RoomForEvents) =>
    \A n \in 1 .. MaxEvents : [](Len(sent) >= n => <>(Len(handled) >= n))

-----------------------------------------------------------------------------
(* What a comment says, and the code does not keep.                          *)

\* "Wait for any ongoing requests to finish": the Close is answered then.
CloseFinishes == main = "close" ~> main = "closed"

=============================================================================
