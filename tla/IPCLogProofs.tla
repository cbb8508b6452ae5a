---------------------------- MODULE IPCLogProofs ---------------------------
(***************************************************************************)
(* Proofs about IPCLog, for every set of services, every choice of events, *)
(* every size of the handler queue and every number of events.             *)
(***************************************************************************)
EXTENDS IPCLog, FiniteSetTheorems, TLAPS

\* The places of the hook in a queue of requests.
Hooks(q) == {n \in DOMAIN q : q[n] = "hook"}
Requests == {"hook", "start", "close"}

\* A request that is sent comes last, and one that is served was first.
LEMMA HooksAppend ==
  ASSUME NEW q \in Seq(Requests), NEW r \in Requests
  PROVE  Hooks(Append(q, r)) = Hooks(q) \cup (IF r = "hook" THEN {Len(q) + 1} ELSE {})
BY DEF Hooks

LEMMA HooksTail ==
  ASSUME NEW q \in Seq(Requests), q # <<>>
  PROVE  \A n : n \in Hooks(Tail(q)) <=> n \in 1 .. Len(q) - 1 /\ n + 1 \in Hooks(q)
BY DEF Hooks

-----------------------------------------------------------------------------
(* Types.                                                                    *)

\* DeviceMgr has an event while it logs and notifies, and a reply of that kind
\* carries one.
EventInv ==
  /\ at[DevMgr] \in {"lock", "print", "notify"} => event \in Events
  /\ logAt = "reply" /\ reply = "Device" => buffer \in Events

TypeInv == TypeOK /\ EventInv

LEMMA AfterPrintType ==
  ASSUME TypeOK, NEW t \in Threads
  PROVE  /\ AfterPrint(t) \in [Threads -> {"off", "start", "idle", "lock", "print", "notify", "done"}]
         /\ t = DevMgr => AfterPrint(t)[DevMgr] = "notify"
         /\ t # DevMgr => AfterPrint(t)[DevMgr] = at[DevMgr]
<1>1. CASE t = Sys
  BY <1>1, LinkAssumption DEF TypeOK, AfterPrint, Threads
<1>2. CASE t # Sys
  BY <1>2, LinkAssumption DEF TypeOK, AfterPrint, Threads
<1> QED BY <1>1, <1>2

LEMMA TypeInit == Init => TypeInv
<1> SUFFICES ASSUME Init PROVE TypeInv
  OBVIOUS
<1>1. at \in [Threads -> {"off", "start", "idle", "lock", "print", "notify", "done"}]
  BY DEF Init
<1>2. at[DevMgr] = "idle"
  BY LinkAssumption DEF Init, Threads
<1>3. ipcQueue \in Seq(Requests) /\ handlerQueue \in Seq(Events) /\ Len(handlerQueue) <= HandlerCap
  BY LinkAssumption DEF Init
<1> QED BY <1>1, <1>2, <1>3 DEF Init, TypeInv, TypeOK, EventInv, Requests

\* Entering and leaving the log keeps the ranges of at and handler, and where
\* DeviceMgr's thread has an event.
LogTypeOK ==
  /\ at \in [Threads -> {"off", "start", "idle", "lock", "print", "notify", "done"}]
  /\ handler \in {"idle", "sync", "request", "busy", "answered"}

LEMMA LogType ==
  ASSUME TypeInv, NEW t \in Threads,
         Log(t) \/ (at' = AfterPrint(t) /\ Answered(t))
  PROVE  LogTypeOK' /\ (t # DevMgr => at'[DevMgr] = at[DevMgr])
<1>1. CASE Log(t) /\ enabled
  BY <1>1, LinkAssumption DEF TypeInv, TypeOK, Log, LogTypeOK, Threads
<1>2. CASE at' = AfterPrint(t) /\ Answered(t)
  BY <1>2, AfterPrintType DEF TypeInv, TypeOK, LogTypeOK, Answered
<1> QED BY <1>1, <1>2 DEF Log

\* A reply to the hook, and the requests the server takes, are in their ranges.
ReplyTypeOK ==
  /\ hook \in BOOLEAN
  /\ logAt \in {"register", "wait", "reply", "stopped"}
  /\ reply \in {"Print", "Notice", "Device", "Close"}
  /\ buffer \in Events \cup {NoEvent}

LEMMA ReplyType ==
  ASSUME NEW k \in {"Print", "Notice", "Device", "Close"}, NEW e \in Events \cup {NoEvent}, Reply(k, e)
  PROVE  ReplyTypeOK' /\ reply' = k /\ buffer' = e
BY DEF Reply, TakeHook, ReplyTypeOK

LEMMA ServeType ==
  ASSUME TypeOK, NEW r \in Requests, Serve(r)
  PROVE  ipcQueue' \in Seq(Requests)
BY DEF Serve, TypeOK, Requests

\* No step of a thread takes a variable out of its range.
LEMMA TypeStep == TypeInv /\ [Next]_vars => TypeInv'
<1> SUFFICES ASSUME TypeInv, [Next]_vars PROVE TypeInv'
  OBVIOUS
<1>0. TypeOK /\ EventInv /\ DevMgr \in Threads /\ Sys \in Threads /\ FS \in Threads /\ DevMgr # Sys
  BY LinkAssumption DEF TypeInv, Threads
<1> USE DEF TypeOK, iosVars, serverVars, logVars, countVars, handlerVars
<1>1. ASSUME NEW t \in Threads, StartService(t) PROVE TypeInv'
  <2>1. t # DevMgr
    BY <1>1, LinkAssumption DEF StartService
  <2> QED BY <1>0, <1>1, <2>1, LogType DEF StartService, LogTypeOK, TypeInv, EventInv
<1>2. ASSUME NEW t \in Threads, Lock(t) PROVE TypeInv'
  <2>1. CASE enabled
    <3>1. /\ at' \in [Threads -> {"off", "start", "idle", "lock", "print", "notify", "done"}]
          /\ logMutex' \in Threads \cup {Nobody}
          /\ at'[DevMgr] \in {"lock", "print", "notify"} => at[DevMgr] \in {"lock", "print", "notify"}
      BY <1>0, <1>2, <2>1 DEF Lock
    <3> QED BY <1>0, <1>2, <2>1, <3>1 DEF Lock, TypeInv, EventInv
  <2>2. CASE ~enabled
    <3>1. LogTypeOK' /\ (at'[DevMgr] \in {"lock", "print", "notify"} => at[DevMgr] \in {"lock", "print", "notify"})
      BY <1>0, <1>2, <2>2, LogType DEF Lock
    <3> QED BY <1>0, <1>2, <2>2, <3>1 DEF Lock, LogTypeOK, TypeInv, EventInv
  <2> QED BY <2>1, <2>2
<1>3. ASSUME NEW t \in Threads, PrintLine(t) PROVE TypeInv'
  <2>1. LogTypeOK' /\ (at'[DevMgr] \in {"lock", "print", "notify"} => at[DevMgr] \in {"lock", "print", "notify"})
    BY <1>0, <1>3, LogType DEF PrintLine
  <2> QED BY ZenonT(60), <1>0, <1>3, <2>1 DEF PrintLine, Reply, TakeHook, LogTypeOK, TypeInv, EventInv
<1>4. ASSUME NEW t \in Threads, Notify(t) PROVE TypeInv'
  <2>1. t # DevMgr
    BY <1>4, LinkAssumption DEF Notify
  <2>2. /\ at' \in [Threads -> {"off", "start", "idle", "lock", "print", "notify", "done"}]
        /\ at'[DevMgr] = at[DevMgr]
    BY <1>0, <1>4, <2>1 DEF Notify
  <2>3. ReplyTypeOK' /\ reply' = "Notice" /\ notified' \in SUBSET Services
    BY <1>0, <1>4, ReplyType DEF Notify
  <2>4. TypeOK'
    BY <1>0, <1>4, <2>2, <2>3 DEF Notify, ReplyTypeOK
  <2>5. EventInv'
    BY <1>0, <1>4, <2>2, <2>3 DEF Notify, EventInv
  <2> QED BY <2>4, <2>5 DEF TypeInv
<1>5. CASE GetStart
  <2>1. LogTypeOK' /\ at'[DevMgr] = at[DevMgr]
    BY <1>0, <1>5, LogType DEF GetStart
  <2>2. TypeOK'
    <3>1. startQueue' \in BOOLEAN
      BY <1>5 DEF GetStart
    <3> QED BY <1>0, <1>5, <2>1, <3>1 DEF GetStart, LogTypeOK
  <2>3. EventInv'
    BY <1>0, <1>5, <2>1 DEF GetStart, EventInv
  <2> QED BY <2>2, <2>3 DEF TypeInv
<1>6. ASSUME NEW e \in Events, DeviceChange(e) PROVE TypeInv'
  BY <1>0, <1>6, LogType DEF DeviceChange, LogTypeOK, TypeInv, EventInv
<1>7. CASE GetRequest
  <2>1. LogTypeOK' /\ at'[DevMgr] = at[DevMgr]
    BY <1>0, <1>7, LinkAssumption DEF GetRequest, LogTypeOK
  <2> QED BY <1>0, <1>7, <2>1 DEF GetRequest, LogTypeOK, TypeInv, EventInv
<1>8. CASE NotifyDevice
  <2>1. /\ at' \in [Threads -> {"off", "start", "idle", "lock", "print", "notify", "done"}]
        /\ at'[DevMgr] = "idle"
    BY <1>0, <1>8 DEF NotifyDevice
  <2>2. event \in Events /\ sent' \in Seq(Events)
    BY <1>0, <1>8 DEF NotifyDevice, EventInv
  <2>3. ReplyTypeOK' /\ buffer' = event
    BY <1>0, <1>8, ReplyType DEF NotifyDevice
  <2> QED BY <1>0, <1>8, <2>1, <2>2, <2>3 DEF NotifyDevice, ReplyTypeOK, TypeInv, EventInv
<1>9. CASE RegisterPrintHook
  <2>1. ipcQueue' \in Seq(Requests)
    BY <1>0, <1>9, ServeType DEF RegisterPrintHook, Requests
  <2> QED BY <1>0, <1>9, <2>1 DEF RegisterPrintHook, Requests, TypeInv, EventInv
<1>10. CASE StartGameEvent
  <2>1. ipcQueue' \in Seq(Requests)
    BY <1>0, <1>10, ServeType DEF StartGameEvent, Requests
  <2> QED BY <1>0, <1>10, <2>1 DEF StartGameEvent, Requests, TypeInv, EventInv
<1>11. CASE Close
  <2>1. ipcQueue' \in Seq(Requests)
    BY <1>0, <1>11, ServeType DEF Close, Requests
  <2>2. TypeOK'
    <3>1. ipcQueue' \in Seq({"hook", "start", "close"})
      BY <2>1 DEF Requests
    <3>2. enabled' \in BOOLEAN /\ server' \in {"idle", "closing"}
      BY <1>11 DEF Close
    <3> QED BY <1>0, <1>11, <3>1, <3>2 DEF Close
  <2>3. EventInv'
    BY <1>0, <1>11 DEF Close, EventInv
  <2> QED BY <2>2, <2>3 DEF TypeInv
<1>12. CASE CloseDone
  BY ZenonT(60), <1>0, <1>12 DEF CloseDone, Reply, TakeHook, TypeInv, EventInv
<1>13. CASE Register
  BY <1>0, <1>13 DEF Register, TypeInv, EventInv
<1>14. CASE HandlePrint
  BY <1>0, <1>14 DEF HandlePrint, KeepsLogging, TypeInv, EventInv
<1>15. CASE HandleNotice
  BY <1>0, <1>15 DEF HandleNotice, KeepsLogging, TypeInv, EventInv
<1>16. CASE HandleDevice
  <2>1. handlerQueue' \in Seq(Events) /\ Len(handlerQueue') <= HandlerCap
    BY <1>0, <1>16, LinkAssumption DEF HandleDevice, GetReply, Enqueue, EventInv
  <2> QED BY <1>0, <1>16, <2>1 DEF HandleDevice, KeepsLogging, TypeInv, EventInv
<1>17. CASE HandleClose
  BY <1>0, <1>17 DEF HandleClose, TypeInv, EventInv
<1>18. CASE Dequeue
  <2>1. /\ handlerQueue' \in Seq(Events) /\ Len(handlerQueue') <= HandlerCap
        /\ current' \in Events /\ handled' \in Seq(Events)
    BY <1>0, <1>18, LinkAssumption DEF Dequeue
  <2> QED BY <1>0, <1>18, <2>1 DEF Dequeue, TypeInv, EventInv
<1>19. CASE WaitForIOS
  BY <1>0, <1>19 DEF WaitForIOS, TypeInv, EventInv
<1>20. CASE HandlerDone
  BY <1>0, <1>20 DEF HandlerDone, TypeInv, EventInv
<1>21. CASE StartGameIOS
  <2>1. Trigger \in Nat
    BY LinkAssumption, FS_CardinalityType DEF Trigger
  <2> QED BY <1>0, <1>21, <2>1 DEF StartGameIOS, TypeInv, EventInv
<1>22. CASE Started
  BY <1>0, <1>22 DEF Started, TypeInv, EventInv
<1>23. CASE CloseLink
  BY <1>0, <1>23 DEF CloseLink, TypeInv, EventInv
<1>24. CASE UNCHANGED vars
  BY <1>0, <1>24 DEF vars, TypeInv, EventInv
<1> QED
  BY <1>1, <1>2, <1>3, <1>4, <1>5, <1>6, <1>7, <1>8, <1>9, <1>10, <1>11, <1>12, <1>13, <1>14, <1>15,
     <1>16, <1>17, <1>18, <1>19, <1>20, <1>21, <1>22, <1>23, <1>24
  DEF Next, IosThread, Server, LogThread, HandlerThread

\* Every variable stays in its range, and DeviceMgr's event is there when it is used.
LEMMA TypeInvariant == Spec => []TypeInv
BY TypeInit, TypeStep, PTL DEF Spec

\* The same without the events.
THEOREM TypeCorrect == Spec => []TypeOK
BY TypeInvariant, PTL DEF TypeInv

-----------------------------------------------------------------------------
(* The hook.                                                                 *)

LEMMA HooksQueuedIs == HooksQueued = Hooks(ipcQueue)
BY DEF HooksQueued, Hooks

LEMMA HookInit == Init => HookIsSingle
BY DEF Init, HookIsSingle, HooksQueued

\* What leaves the queue, the hook and the log thread alone leaves the invariant.
LEMMA HookFrame ==
  ASSUME HookIsSingle, UNCHANGED <<ipcQueue, hook, logAt>>
  PROVE  HookIsSingle'
BY DEF HookIsSingle, HooksQueued

\* A reply takes the one hook.
LEMMA HookReply ==
  ASSUME HookIsSingle, NEW k, NEW e, Reply(k, e), UNCHANGED ipcQueue
  PROVE  HookIsSingle' /\ logAt = "wait"
BY DEF HookIsSingle, HooksQueued, Reply, TakeHook

\* Requests that are not the hook come and go.
LEMMA HookOther ==
  ASSUME TypeOK, HookIsSingle, UNCHANGED <<hook, logAt>>,
         NEW r \in {"start", "close"},
         ipcQueue' = Append(ipcQueue, r) \/ Serve(r)
  PROVE  HookIsSingle'
<1>0. ipcQueue \in Seq(Requests)
  BY DEF TypeOK, Requests
<1>1. CASE ipcQueue' = Append(ipcQueue, r)
  <2>1. Hooks(ipcQueue') = Hooks(ipcQueue)
    BY <1>0, <1>1, HooksAppend DEF Requests
  <2> QED BY <2>1, HooksQueuedIs DEF HookIsSingle, HooksQueued, Hooks
<1>2. CASE Serve(r)
  <2>1. ipcQueue # <<>> /\ ipcQueue[1] = r /\ ipcQueue' = Tail(ipcQueue)
    BY <1>0, <1>2 DEF Serve
  <2>2. \A n : n \in Hooks(ipcQueue') <=> n \in 1 .. Len(ipcQueue) - 1 /\ n + 1 \in Hooks(ipcQueue)
    BY <1>0, <2>1, HooksTail
  <2>3. \A n \in Hooks(ipcQueue) : n \in 2 .. Len(ipcQueue)
    BY <1>0, <2>1 DEF Hooks
  <2>4. Hooks(ipcQueue') = {} <=> Hooks(ipcQueue) = {}
    <3>1. ASSUME NEW n \in Hooks(ipcQueue) PROVE n - 1 \in Hooks(ipcQueue')
      <4>1. n - 1 \in 1 .. Len(ipcQueue) - 1 /\ (n - 1) + 1 = n
        BY <1>0, <2>3
      <4> QED BY <2>2, <4>1, <3>1
    <3> QED BY <2>2, <3>1
  <2>5. \A m, n \in Hooks(ipcQueue') : m = n
    <3>1. \A m, n \in Hooks(ipcQueue) : m = n
      BY DEF HookIsSingle, HooksQueued, Hooks
    <3> QED BY <2>2, <3>1
  <2> QED BY <2>4, <2>5 DEF HookIsSingle, HooksQueued, Hooks
<1> QED BY <1>1, <1>2

LEMMA HookStep == TypeOK /\ HookIsSingle /\ [Next]_vars => HookIsSingle'
<1> SUFFICES ASSUME TypeOK, HookIsSingle, [Next]_vars PROVE HookIsSingle'
  OBVIOUS
<1>0. ipcQueue \in Seq(Requests)
  BY DEF TypeOK, Requests
<1>1. CASE Register
  <2>1. Hooks(ipcQueue') = Hooks(ipcQueue) \cup {Len(ipcQueue) + 1}
    BY <1>0, <1>1, HooksAppend DEF Register, Requests
  <2>2. Hooks(ipcQueue) = {} /\ ~hook
    BY <1>1 DEF Register, HookIsSingle, HooksQueued, Hooks
  <2>3. Hooks(ipcQueue') = {Len(ipcQueue) + 1} /\ hook' = hook /\ logAt' = "wait"
    BY <1>1, <2>1, <2>2 DEF Register
  <2> QED BY <2>2, <2>3 DEF HookIsSingle, HooksQueued, Hooks
<1>2. CASE RegisterPrintHook
  <2>1. ipcQueue # <<>> /\ ipcQueue[1] = "hook" /\ ipcQueue' = Tail(ipcQueue)
    BY <1>0, <1>2 DEF RegisterPrintHook, Serve
  <2>2. Hooks(ipcQueue) = {1}
    <3>1. 1 \in Hooks(ipcQueue)
      BY <1>0, <2>1 DEF Hooks
    <3> QED BY <3>1 DEF HookIsSingle, HooksQueued, Hooks
  <2>3. Hooks(ipcQueue') = {}
    <3>1. ASSUME NEW n \in Hooks(ipcQueue') PROVE FALSE
      <4>1. n \in 1 .. Len(ipcQueue) - 1 /\ n + 1 = 1
        BY <1>0, <2>1, <2>2, <3>1, HooksTail
      <4> QED BY <1>0, <4>1
    <3> QED BY <3>1
  <2>4. logAt' = "wait" /\ hook'
    BY <1>2, <2>2 DEF RegisterPrintHook, logVars, HookIsSingle, HooksQueued, Hooks
  <2> QED BY <2>3, <2>4 DEF HookIsSingle, HooksQueued, Hooks
<1>3. ASSUME NEW t \in Threads, PrintLine(t) \/ Notify(t) PROVE HookIsSingle'
  BY <1>3, HookReply DEF PrintLine, Notify
<1>4. CASE NotifyDevice \/ CloseDone
  BY <1>4, HookReply DEF NotifyDevice, CloseDone
<1>5. CASE StartGameEvent \/ Close \/ StartGameIOS \/ CloseLink
  BY <1>5, HookOther DEF StartGameEvent, Close, StartGameIOS, CloseLink, logVars
<1>6. CASE HandlePrint \/ HandleNotice \/ HandleDevice \/ HandleClose
  BY <1>6 DEF HandlePrint, HandleNotice, HandleDevice, HandleClose, GetReply, KeepsLogging,
              serverVars, HookIsSingle, HooksQueued
<1>7. CASE UNCHANGED <<ipcQueue, hook, logAt>>
  BY <1>7, HookFrame
<1> QED
  BY <1>1, <1>2, <1>3, <1>4, <1>5, <1>6, <1>7
  DEF Next, IosThread, Server, LogThread, HandlerThread, StartService, Lock, GetStart, GetRequest,
      DeviceChange, Dequeue, WaitForIOS, HandlerDone, Started, vars, serverVars, logVars

\* Neither end ever waits on m_responseQueue for room, and a reply never overwrites
\* one that is not handled yet.
THEOREM OneHook == Spec => []HookIsSingle
BY HookInit, HookStep, TypeCorrect, PTL DEF Spec

-----------------------------------------------------------------------------
(* The order of the device events.                                           *)

InFlight == logAt = "reply" /\ reply = "Device"

\* The events notified are those handled, then those in the handler queue, then
\* the one in the reply.
OrderInv ==
  /\ InFlight => Len(sent) = Len(handled) + Len(handlerQueue) + 1 /\ sent[Len(sent)] = buffer
  /\ ~InFlight => Len(sent) = Len(handled) + Len(handlerQueue)
  /\ \A n \in 1 .. Len(handled) : handled[n] = sent[n]
  /\ \A n \in 1 .. Len(handlerQueue) : handlerQueue[n] = sent[Len(handled) + n]

ChannelNext == [Channel!Next]_<<sent, handled>>

\* What appending and taking the first change of the elements of a sequence.
LEMMA Appended ==
  ASSUME NEW S, NEW q \in Seq(S), NEW e \in S
  PROVE  /\ Append(q, e) \in Seq(S) /\ Len(q) \in Nat
         /\ Len(Append(q, e)) = Len(q) + 1
         /\ Append(q, e)[Len(q) + 1] = e
         /\ \A n \in 1 .. Len(q) : Append(q, e)[n] = q[n]
OBVIOUS

LEMMA FirstTaken ==
  ASSUME NEW S, NEW q \in Seq(S), q # <<>>
  PROVE  /\ Tail(q) \in Seq(S) /\ Len(q) \in Nat /\ Len(q) >= 1
         /\ Len(Tail(q)) = Len(q) - 1 /\ Head(q) = q[1] /\ Head(q) \in S
         /\ \A n \in 1 .. Len(q) - 1 : Tail(q)[n] = q[n + 1]
OBVIOUS

LEMMA OrderInit == Init => OrderInv
BY DEF Init, OrderInv, InFlight

\* Each step keeps the order, and is one of the abstract channel or none.
LEMMA OrderStep ==
  TypeInv /\ HookIsSingle /\ OrderInv /\ [Next]_vars => OrderInv' /\ ChannelNext
<1> SUFFICES ASSUME TypeInv, HookIsSingle, OrderInv, [Next]_vars PROVE OrderInv' /\ ChannelNext
  OBVIOUS
<1>0. /\ sent \in Seq(Events) /\ handled \in Seq(Events) /\ handlerQueue \in Seq(Events)
      /\ TypeOK /\ EventInv
  BY DEF TypeInv, TypeOK
<1>1. CASE NotifyDevice
  <2>1. event \in Events
    BY <1>0, <1>1 DEF NotifyDevice, EventInv
  <2>2. ~InFlight /\ InFlight' /\ buffer' = event /\ sent' = Append(sent, event)
    BY <1>1, HookReply DEF NotifyDevice, Reply, InFlight
  <2>3. UNCHANGED <<handled, handlerQueue>>
    BY <1>1 DEF NotifyDevice, handlerVars
  <2>4. /\ Len(sent') = Len(sent) + 1 /\ sent'[Len(sent) + 1] = event
        /\ \A n \in 1 .. Len(sent) : sent'[n] = sent[n]
    BY <1>0, <2>1, <2>2, Appended
  <2>5. /\ Len(sent) = Len(handled) + Len(handlerQueue)
        /\ Len(sent) \in Nat /\ Len(handled) \in Nat /\ Len(handlerQueue) \in Nat
    BY <1>0, <2>2 DEF OrderInv
  <2>6. \A n \in 1 .. Len(handled) : handled'[n] = sent'[n]
    BY <2>3, <2>4, <2>5 DEF OrderInv
  <2>7. \A n \in 1 .. Len(handlerQueue) : handlerQueue'[n] = sent'[Len(handled) + n]
    <3>1. ASSUME NEW n \in 1 .. Len(handlerQueue)
          PROVE  handlerQueue[n] = sent[Len(handled) + n] /\ Len(handled) + n \in 1 .. Len(sent)
      BY <2>5 DEF OrderInv
    <3> QED BY <2>3, <2>4, <3>1
  <2>8. OrderInv'
    BY <2>2, <2>3, <2>4, <2>5, <2>6, <2>7 DEF OrderInv
  <2> QED BY <2>1, <2>2, <2>3, <2>8 DEF ChannelNext, Channel!Next, Channel!Notify
<1>2. CASE HandleDevice
  <2>1. InFlight /\ ~InFlight' /\ handlerQueue' = Append(handlerQueue, buffer)
    BY <1>2 DEF HandleDevice, GetReply, KeepsLogging, Enqueue, InFlight
  <2>2. UNCHANGED <<sent, handled>> /\ buffer \in Events
    BY <1>0, <1>2, <2>1 DEF HandleDevice, EventInv, InFlight
  <2>3. /\ Len(handlerQueue') = Len(handlerQueue) + 1 /\ handlerQueue'[Len(handlerQueue) + 1] = buffer
        /\ \A n \in 1 .. Len(handlerQueue) : handlerQueue'[n] = handlerQueue[n]
    BY <1>0, <2>1, <2>2, Appended
  <2>4. /\ Len(sent) = Len(handled) + Len(handlerQueue) + 1 /\ sent[Len(sent)] = buffer
        /\ Len(handled) \in Nat /\ Len(handlerQueue) \in Nat
    BY <1>0, <2>1 DEF OrderInv
  <2>5. ASSUME NEW n \in 1 .. Len(handlerQueue) + 1
        PROVE  handlerQueue'[n] = sent[Len(handled) + n]
    <3>1. CASE n \in 1 .. Len(handlerQueue)
      BY <2>3, <3>1 DEF OrderInv
    <3>2. CASE n = Len(handlerQueue) + 1
      <4>1. Len(handled) + n = Len(sent)
        BY <2>4, <3>2
      <4> QED BY <2>3, <2>4, <3>2, <4>1
    <3> QED BY <2>4, <3>1, <3>2
  <2>6. OrderInv'
    BY <2>1, <2>2, <2>3, <2>4, <2>5 DEF OrderInv
  <2> QED BY <2>2, <2>6 DEF ChannelNext
<1>3. CASE Dequeue
  <2>1. /\ handlerQueue # <<>> /\ handlerQueue' = Tail(handlerQueue)
        /\ handled' = Append(handled, Head(handlerQueue))
        /\ UNCHANGED <<sent, logAt, reply, buffer>>
    BY <1>3 DEF Dequeue, logVars
  <2>2. Len(handlerQueue) >= 1 /\ Head(handlerQueue) = sent[Len(handled) + 1] /\ Len(handled) < Len(sent)
    BY <1>0, <2>1 DEF OrderInv
  <2>3. OrderInv'
    <3>1. /\ Len(handled') = Len(handled) + 1 /\ handled'[Len(handled) + 1] = Head(handlerQueue)
          /\ \A n \in 1 .. Len(handled) : handled'[n] = handled[n]
          /\ Len(handled) \in Nat
      BY <1>0, <2>1, Appended, FirstTaken
    <3>2. /\ Len(handlerQueue') = Len(handlerQueue) - 1 /\ Len(handlerQueue) \in Nat
          /\ \A n \in 1 .. Len(handlerQueue) - 1 : handlerQueue'[n] = handlerQueue[n + 1]
      BY <1>0, <2>1, FirstTaken
    <3>3. ASSUME NEW n \in 1 .. Len(handled) + 1 PROVE handled'[n] = sent[n]
      <4>1. CASE n \in 1 .. Len(handled)
        BY <3>1, <4>1 DEF OrderInv
      <4>2. CASE n = Len(handled) + 1
        BY <2>2, <3>1, <4>2
      <4> QED BY <3>1, <4>1, <4>2
    <3>4. ASSUME NEW n \in 1 .. Len(handlerQueue) - 1 PROVE handlerQueue'[n] = sent[Len(handled) + 1 + n]
      <4>1. n + 1 \in 1 .. Len(handlerQueue) /\ Len(handled) + (n + 1) = Len(handled) + 1 + n
        BY <3>1, <3>2
      <4> QED BY <3>2, <4>1 DEF OrderInv
    <3>5. Len(handled') + Len(handlerQueue') = Len(handled) + Len(handlerQueue)
      BY <3>1, <3>2
    <3> QED BY <2>1, <3>1, <3>2, <3>3, <3>4, <3>5 DEF OrderInv, InFlight
  <2> QED BY <2>1, <2>2, <2>3 DEF ChannelNext, Channel!Next, Channel!Handle
<1>4. ASSUME NEW t \in Threads, PrintLine(t) \/ Notify(t) PROVE OrderInv' /\ ChannelNext
  <2>1. ~InFlight /\ ~InFlight' /\ UNCHANGED <<sent, handled, handlerQueue>>
    BY <1>4, HookReply DEF PrintLine, Notify, Reply, InFlight, handlerVars
  <2> QED BY <2>1 DEF OrderInv, ChannelNext
<1>5. CASE CloseDone
  <2>1. ~InFlight /\ ~InFlight' /\ UNCHANGED <<sent, handled, handlerQueue>>
    BY <1>5, HookReply DEF CloseDone, Reply, InFlight, handlerVars
  <2> QED BY <2>1 DEF OrderInv, ChannelNext
<1>6. CASE ~InFlight /\ ~InFlight' /\ UNCHANGED <<sent, handled, handlerQueue>>
  BY <1>6 DEF OrderInv, ChannelNext
<1>7. CASE UNCHANGED <<sent, handled, handlerQueue, logAt, reply, buffer>>
  BY <1>7 DEF OrderInv, ChannelNext, InFlight
<1>8. CASE Register \/ HandlePrint \/ HandleNotice \/ HandleClose
  BY <1>6, <1>8 DEF Register, HandlePrint, HandleNotice, HandleClose, GetReply, KeepsLogging, InFlight, handlerVars
<1> QED
  BY <1>1, <1>2, <1>3, <1>4, <1>5, <1>7, <1>8
  DEF Next, IosThread, Server, LogThread, HandlerThread, StartService, Lock, GetStart, GetRequest,
      DeviceChange, RegisterPrintHook, StartGameEvent, Close, WaitForIOS, HandlerDone,
      StartGameIOS, Started, CloseLink, vars, logVars, handlerVars

\* The link is a channel that passes every device event on, in order.
THEOREM LinkIsChannel == Spec => EventsInOrder
<1>1. Init => Channel!Init
  BY DEF Init, Channel!Init
<1>2. Spec => [](TypeInv /\ HookIsSingle /\ OrderInv)
  BY OrderInit, OrderStep, TypeInvariant, OneHook, PTL DEF Spec
<1>3. TypeInv /\ HookIsSingle /\ OrderInv /\ [Next]_vars => [Channel!Next]_<<sent, handled>>
  BY OrderStep DEF ChannelNext
<1> QED BY <1>1, <1>2, <1>3, PTL DEF Spec, EventsInOrder, Channel!Spec

-----------------------------------------------------------------------------
(* The end of the link.                                                      *)

\* Close ends the log thread: no hook is left that anybody could reply to.
LEMMA CloseStep == HookIsSingle /\ CloseIsLast /\ [Next]_vars => CloseIsLast'
<1> SUFFICES ASSUME HookIsSingle, CloseIsLast, [Next]_vars PROVE CloseIsLast'
  OBVIOUS
<1>1. ASSUME NEW t \in Threads, PrintLine(t) \/ Notify(t) PROVE CloseIsLast'
  BY <1>1, HookReply DEF PrintLine, Notify, CloseIsLast
<1>2. CASE NotifyDevice
  BY <1>2, HookReply DEF NotifyDevice, CloseIsLast
<1>3. CASE CloseDone
  BY <1>3 DEF CloseDone, Reply, CloseIsLast
<1>4. CASE Register \/ HandlePrint \/ HandleNotice \/ HandleDevice \/ HandleClose
  BY <1>4 DEF Register, HandlePrint, HandleNotice, HandleDevice, HandleClose, GetReply, CloseIsLast
<1>5. CASE StartGameEvent \/ StartGameIOS \/ Started \/ CloseLink
  BY <1>5 DEF StartGameEvent, StartGameIOS, Started, CloseLink, CloseIsLast
<1>6. CASE UNCHANGED <<main, logAt, reply>>
  BY <1>6 DEF CloseIsLast
<1> QED
  BY <1>1, <1>2, <1>3, <1>4, <1>5, <1>6
  DEF Next, IosThread, Server, LogThread, HandlerThread, StartService, Lock, GetStart, GetRequest,
      DeviceChange, RegisterPrintHook, Close, Dequeue, WaitForIOS, HandlerDone, vars, logVars

\* The log thread has done with the object when main deletes it.
THEOREM DeleteFollowsClose == Spec => []CloseIsLast
<1>1. Init => CloseIsLast
  BY DEF Init, CloseIsLast
<1> QED BY <1>1, CloseStep, OneHook, PTL DEF Spec

-----------------------------------------------------------------------------
(* The start of the services.                                                *)

NoticeInFlight == logAt = "reply" /\ reply = "Notice"

\* Main's requests are in the queue once and only while main waits for them.
RequestInv ==
  /\ \A n \in DOMAIN ipcQueue :
       /\ ipcQueue[n] = "start" => main = "ioctl"
       /\ ipcQueue[n] = "close" => main = "close" /\ server = "idle"
  /\ \A m, n \in DOMAIN ipcQueue : ipcQueue[m] = ipcQueue[n] /\ ipcQueue[n] \in {"start", "close"} => m = n
  /\ server = "closing" => main = "close"

\* Nothing starts before the start request is served, and the services only after
\* SystemThreadEntry logged that.
StartInv ==
  /\ main \in {"boot", "ioctl"} =>
       /\ notified = {} /\ ~startQueue /\ at[Sys] = "idle"
       /\ ~NoticeInFlight /\ eventCount = 0
  /\ at[Sys] # "done" => \A s \in Services : at[s] = "off"

\* The notices counted and the one in the reply are those of the services that
\* have notified; the count that is waited for is that of the services.
CountInv ==
  /\ \A s \in Services : at[s] \in {"off", "start", "notify"} => s \notin notified
  /\ NoticeInFlight => eventCount + 1 = Cardinality(notified)
  /\ ~NoticeInFlight => eventCount = Cardinality(notified)
  /\ trigger = (IF main \in {"ioctl", "wait"} THEN Cardinality(Services) ELSE -1)
  /\ main \in {"started", "game", "close", "closed"} => notified = Services
  /\ released => main \in {"game", "close", "closed"}

LEMMA ServedElements ==
  ASSUME TypeOK, NEW r, Serve(r)
  PROVE  /\ 1 \in DOMAIN ipcQueue /\ ipcQueue[1] = r
         /\ \A n \in DOMAIN ipcQueue' : n \in Nat \ {0} /\ n + 1 \in DOMAIN ipcQueue /\ ipcQueue'[n] = ipcQueue[n + 1]
<1>1. ipcQueue \in Seq(Requests) /\ ipcQueue # <<>> /\ ipcQueue' = Tail(ipcQueue) /\ Head(ipcQueue) = r
  BY DEF TypeOK, Serve, Requests
<1>2. /\ Len(ipcQueue) \in Nat /\ Len(ipcQueue) >= 1 /\ Len(ipcQueue') = Len(ipcQueue) - 1
      /\ ipcQueue' \in Seq(Requests) /\ ipcQueue[1] = r
      /\ \A n \in 1 .. Len(ipcQueue) - 1 : ipcQueue'[n] = ipcQueue[n + 1]
  BY <1>1, FirstTaken
<1> QED BY <1>1, <1>2

LEMMA SentElements ==
  ASSUME TypeOK, NEW r \in Requests, ipcQueue' = Append(ipcQueue, r)
  PROVE  \A n \in DOMAIN ipcQueue' :
           \/ n \in DOMAIN ipcQueue /\ ipcQueue'[n] = ipcQueue[n]
           \/ n = Len(ipcQueue) + 1 /\ ipcQueue'[n] = r
<1>1. ipcQueue \in Seq(Requests)
  BY DEF TypeOK, Requests
<1>2. /\ ipcQueue' \in Seq(Requests) /\ Len(ipcQueue) \in Nat
      /\ Len(ipcQueue') = Len(ipcQueue) + 1 /\ ipcQueue'[Len(ipcQueue) + 1] = r
      /\ \A n \in 1 .. Len(ipcQueue) : ipcQueue'[n] = ipcQueue[n]
  BY <1>1, Appended
<1> QED BY <1>1, <1>2

\* Main's requests stay where they belong.
LEMMA RequestStep == TypeOK /\ RequestInv /\ StartInv /\ CountInv /\ [Next]_vars => RequestInv'
<1> SUFFICES ASSUME TypeOK, RequestInv, StartInv, CountInv, [Next]_vars PROVE RequestInv'
  OBVIOUS
<1>1. CASE RegisterPrintHook
  <2>1. UNCHANGED <<main, server>>
    BY <1>1 DEF RegisterPrintHook
  <2> QED BY <1>1, <2>1, ServedElements DEF RegisterPrintHook, RequestInv
<1>2. CASE StartGameEvent
  <2>1. main' = "wait" /\ UNCHANGED server /\ Serve("start")
    BY <1>2 DEF StartGameEvent
  <2>2. main = "ioctl" /\ server # "closing"
    BY <2>1, ServedElements DEF RequestInv
  <2>3. \A n \in DOMAIN ipcQueue' : ipcQueue'[n] \notin {"start", "close"}
    <3>1. ASSUME NEW n \in DOMAIN ipcQueue', ipcQueue'[n] \in {"start", "close"} PROVE FALSE
      <4>1. n + 1 \in DOMAIN ipcQueue /\ ipcQueue'[n] = ipcQueue[n + 1] /\ n + 1 # 1
        BY <2>1, ServedElements
      <4>2. ipcQueue[n + 1] # "close"
        BY <2>2, <4>1 DEF RequestInv
      <4>3. 1 \in DOMAIN ipcQueue /\ ipcQueue[1] = "start"
        BY <2>1, ServedElements
      <4> QED BY <3>1, <4>1, <4>2, <4>3 DEF RequestInv
    <3> QED BY <3>1
  <2> QED BY <2>1, <2>2, <2>3 DEF RequestInv
<1>3. CASE Close
  <2>1. server' = "closing" /\ UNCHANGED main /\ Serve("close")
    BY <1>3 DEF Close
  <2>2. main = "close"
    BY <2>1, ServedElements DEF RequestInv
  <2>3. \A n \in DOMAIN ipcQueue' : ipcQueue'[n] \notin {"start", "close"}
    <3>1. ASSUME NEW n \in DOMAIN ipcQueue', ipcQueue'[n] \in {"start", "close"} PROVE FALSE
      <4>1. n + 1 \in DOMAIN ipcQueue /\ ipcQueue'[n] = ipcQueue[n + 1] /\ n + 1 # 1
        BY <2>1, ServedElements
      <4>2. ipcQueue[n + 1] # "start"
        BY <2>2, <4>1 DEF RequestInv
      <4>3. 1 \in DOMAIN ipcQueue /\ ipcQueue[1] = "close"
        BY <2>1, ServedElements
      <4> QED BY <3>1, <4>1, <4>2, <4>3 DEF RequestInv
    <3> QED BY <3>1
  <2> QED BY <2>1, <2>2, <2>3 DEF RequestInv
<1>4. CASE CloseDone
  <2>1. server = "closing" /\ main' = "closed" /\ server' = "idle" /\ UNCHANGED ipcQueue
    BY <1>4 DEF CloseDone
  <2>2. \A n \in DOMAIN ipcQueue : ipcQueue[n] \notin {"start", "close"}
    BY <2>1 DEF RequestInv
  <2> QED BY <2>1, <2>2 DEF RequestInv
<1>5. CASE Register
  <2>1. UNCHANGED <<main, server>> /\ ipcQueue' = Append(ipcQueue, "hook")
    BY <1>5 DEF Register
  <2> QED BY <2>1, SentElements DEF RequestInv, Requests
<1>6. CASE StartGameIOS
  <2>1. main = "boot" /\ main' = "ioctl" /\ UNCHANGED server /\ ipcQueue' = Append(ipcQueue, "start")
    BY <1>6 DEF StartGameIOS
  <2>2. \A n \in DOMAIN ipcQueue : ipcQueue[n] \notin {"start", "close"}
    BY <2>1 DEF RequestInv
  <2> QED BY <2>1, <2>2, SentElements DEF RequestInv, Requests
<1>7. CASE CloseLink
  <2>1. main = "game" /\ main' = "close" /\ UNCHANGED server /\ ipcQueue' = Append(ipcQueue, "close")
    BY <1>7 DEF CloseLink
  <2>2. \A n \in DOMAIN ipcQueue : ipcQueue[n] \notin {"start", "close"}
    BY <2>1 DEF RequestInv
  <2>3. server = "idle"
    BY <2>1 DEF RequestInv, TypeOK
  <2> QED BY <2>1, <2>2, <2>3, SentElements DEF RequestInv, Requests
<1>8. CASE Started
  BY <1>8 DEF Started, RequestInv, serverVars
<1>9. CASE HandleNotice
  <2>1. UNCHANGED <<ipcQueue, server>> /\ (main' = main \/ (main' = "started" /\ trigger # -1))
    <3>1. eventCount' # -1
      BY <1>9 DEF HandleNotice, TypeOK
    <3> QED BY <1>9, <3>1 DEF HandleNotice, serverVars
  <2>2. CASE main' = main
    BY <2>1, <2>2 DEF RequestInv
  <2>3. CASE main' = "started" /\ trigger # -1
    <3>1. main = "wait"
      BY <1>9, <2>3 DEF HandleNotice, GetReply, NoticeInFlight, CountInv, StartInv
    <3>2. server # "closing" /\ \A n \in DOMAIN ipcQueue : ipcQueue[n] \notin {"start", "close"}
      BY <3>1 DEF RequestInv
    <3> QED BY <2>1, <2>3, <3>2 DEF RequestInv
  <2> QED BY <2>1, <2>2, <2>3
<1>10. CASE UNCHANGED <<ipcQueue, server, main>>
  BY <1>10 DEF RequestInv
<1> QED
  BY <1>1, <1>2, <1>3, <1>4, <1>5, <1>6, <1>7, <1>8, <1>9, <1>10
  DEF Next, IosThread, Server, LogThread, HandlerThread, StartService, Lock, PrintLine, Notify,
      GetStart, GetRequest, DeviceChange, NotifyDevice, HandlePrint, HandleDevice, HandleClose,
      Dequeue, WaitForIOS, HandlerDone, vars, serverVars

\* Where the log takes a thread.
LEMMA LogMoves ==
  ASSUME TypeOK, NEW t \in Threads, NEW where \in {"lock", "print"},
         at' = [at EXCEPT ![t] = where] \/ at' = AfterPrint(t)
  PROVE  \/ at'[t] = where /\ \A u \in Threads \ {t} : at'[u] = at[u]
         \/ t = Sys /\ at'[Sys] = "done" /\ \A s \in Services : at'[s] = "start"
         \/ /\ t # Sys /\ \A u \in Threads \ {t} : at'[u] = at[u]
            /\ at'[t] = IF t \in notified THEN "idle" ELSE "notify"
<1>0. at \in [Threads -> {"off", "start", "idle", "lock", "print", "notify", "done"}]
  BY DEF TypeOK
<1>1. CASE at' = [at EXCEPT ![t] = where]
  BY <1>0, <1>1
<1>2. CASE at' = AfterPrint(t) /\ t = Sys
  BY <1>2, LinkAssumption DEF AfterPrint, Threads
<1>3. CASE at' = AfterPrint(t) /\ t # Sys
  BY <1>0, <1>3 DEF AfterPrint
<1> QED BY <1>1, <1>2, <1>3

\* A step of a thread into, in, or out of the log.
LogStep(t) ==
  /\ at[t] \notin {"off", "done"}
  /\ \/ at' = [at EXCEPT ![t] = "lock"] \/ at' = [at EXCEPT ![t] = "print"]
     \/ at' = AfterPrint(t)
  /\ t = Sys /\ at[Sys] = "idle" => startQueue
  /\ startQueue' => startQueue
  /\ UNCHANGED <<notified, main, countVars, released>>
  /\ NoticeInFlight' = NoticeInFlight

LEMMA LogStepStart ==
  ASSUME TypeOK, StartInv, CountInv, NEW t \in Threads, LogStep(t)
  PROVE  StartInv' /\ (\A s \in Services : at'[s] \in {"off", "start", "notify"} => s \notin notified)
<1>0. at \in [Threads -> {"off", "start", "idle", "lock", "print", "notify", "done"}]
  BY DEF TypeOK
<1>1. Services \subseteq Threads /\ Sys \in Threads /\ Sys \notin Services
  BY LinkAssumption DEF Threads
<1>2. \/ at'[t] \in {"lock", "print"} /\ \A u \in Threads \ {t} : at'[u] = at[u]
      \/ t = Sys /\ at'[Sys] = "done" /\ \A s \in Services : at'[s] = "start"
      \/ /\ t # Sys /\ \A u \in Threads \ {t} : at'[u] = at[u]
         /\ at'[t] = IF t \in notified THEN "idle" ELSE "notify"
  BY <1>0, LogMoves DEF LogStep
<1>3. at[t] # "off" /\ at[t] # "done"
  BY DEF LogStep
<1>4. at[Sys] # "done" => t \notin Services
  BY <1>3 DEF StartInv
<1>5. main \in {"boot", "ioctl"} => t # Sys
  BY DEF LogStep, StartInv
<1>6. StartInv'
  BY <1>0, <1>1, <1>2, <1>4, <1>5 DEF StartInv, LogStep, countVars
<1>7. ASSUME NEW s \in Services, at'[s] \in {"off", "start", "notify"} PROVE s \notin notified
  <2>1. CASE at'[s] = at[s]
    BY <1>7, <2>1 DEF CountInv
  <2>2. CASE t = Sys /\ at'[s] = "start"
    BY <1>3, <2>2 DEF StartInv, CountInv
  <2>3. CASE t = s
    BY <1>1, <1>2, <1>7, <2>3
  <2> QED BY <1>1, <1>2, <1>7, <2>1, <2>2, <2>3
<1> QED BY <1>6, <1>7

LEMMA CountKept ==
  ASSUME CountInv, NoticeInFlight' = NoticeInFlight, UNCHANGED <<notified, main, countVars, released>>,
         \A s \in Services : at'[s] \in {"off", "start", "notify"} => s \notin notified
  PROVE  CountInv'
BY DEF CountInv, countVars

Inv == TypeInv /\ HookIsSingle /\ RequestInv /\ StartInv /\ CountInv

LEMMA CountLogStep ==
  ASSUME Inv, NEW t \in Threads, LogStep(t)
  PROVE  StartInv' /\ CountInv'
<1>1. StartInv' /\ (\A s \in Services : at'[s] \in {"off", "start", "notify"} => s \notin notified)
  BY LogStepStart DEF Inv, TypeInv
<1> QED BY <1>1, CountKept DEF Inv, LogStep

\* A service that notifies is counted once.
LEMMA CountNotify ==
  ASSUME Inv, NEW t \in Threads, Notify(t)
  PROVE  StartInv' /\ CountInv'
<1>0. /\ at \in [Threads -> {"off", "start", "idle", "lock", "print", "notify", "done"}]
      /\ Services \subseteq Threads /\ Sys \in Threads /\ Sys \notin Services
      /\ notified \subseteq Services /\ IsFiniteSet(notified) /\ eventCount \in Nat
  BY LinkAssumption, FS_Subset DEF Inv, TypeInv, TypeOK, Threads
<1>1. /\ t \in Services /\ at[t] = "notify" /\ at' = [at EXCEPT ![t] = "idle"]
      /\ notified' = notified \cup {t} /\ UNCHANGED <<main, eventCount, trigger, released, startQueue>>
  BY DEF Notify, countVars
<1>2. ~NoticeInFlight /\ NoticeInFlight'
  BY HookReply DEF Notify, Reply, NoticeInFlight, Inv
<1>3. t \notin notified
  BY <1>1 DEF Inv, CountInv
<1>4. Cardinality(notified') = Cardinality(notified) + 1
  BY <1>0, <1>1, <1>3, FS_AddElement
<1>5. at[Sys] = "done" /\ main \notin {"boot", "ioctl", "started", "game", "close", "closed"}
  BY <1>1, <1>3 DEF Inv, StartInv, CountInv
<1>6. StartInv'
  BY <1>0, <1>1, <1>5 DEF StartInv
<1>7. CountInv'
  BY <1>0, <1>1, <1>2, <1>4, <1>5 DEF Inv, CountInv
<1> QED BY <1>6, <1>7

\* The last notice counted is that of the last service.
LEMMA CountNotice ==
  ASSUME Inv, HandleNotice
  PROVE  StartInv' /\ CountInv'
<1>0. /\ notified \subseteq Services /\ IsFiniteSet(notified) /\ eventCount \in Nat
      /\ Cardinality(Services) \in Nat /\ main \in {"boot", "ioctl", "wait", "started", "game", "close", "closed"}
  BY LinkAssumption, FS_Subset, FS_CardinalityType DEF Inv, TypeInv, TypeOK
<1>1. /\ NoticeInFlight /\ ~NoticeInFlight' /\ eventCount' = eventCount + 1
      /\ UNCHANGED <<at, notified, released, startQueue>>
  BY DEF HandleNotice, GetReply, KeepsLogging, NoticeInFlight, iosVars, serverVars
<1>2. eventCount' = Cardinality(notified) /\ eventCount' # -1 /\ main \notin {"boot", "ioctl"}
  BY <1>0, <1>1 DEF Inv, CountInv, StartInv
<1>3. CASE eventCount' = trigger
  <2>1. main = "wait" /\ Cardinality(notified) = Cardinality(Services) /\ main' = "started" /\ trigger' = -1
    BY <1>0, <1>2, <1>3 DEF HandleNotice, Inv, CountInv
  <2>2. notified = Services
    BY <1>0, <2>1, LinkAssumption, FS_Subset
  <2> QED BY <1>1, <1>2, <2>1, <2>2 DEF Inv, StartInv, CountInv
<1>4. CASE eventCount' # trigger
  BY <1>0, <1>1, <1>2, <1>4 DEF HandleNotice, Inv, StartInv, CountInv
<1> QED BY <1>3, <1>4

LEMMA CountStep == Inv /\ [Next]_vars => StartInv' /\ CountInv'
<1> SUFFICES ASSUME Inv, [Next]_vars PROVE StartInv' /\ CountInv'
  OBVIOUS
<1> USE DEF iosVars, serverVars, logVars, countVars, handlerVars
<1>0. /\ at \in [Threads -> {"off", "start", "idle", "lock", "print", "notify", "done"}]
      /\ TypeOK /\ DevMgr \in Threads /\ Sys \in Threads /\ FS \in Threads
      /\ DevMgr \notin Services /\ DevMgr # Sys /\ Sys \notin Services /\ FS \in Services
      /\ main \in {"boot", "ioctl", "wait", "started", "game", "close", "closed"}
      /\ eventCount \in Nat
  BY LinkAssumption DEF Inv, TypeInv, TypeOK, Threads
<1>1. ASSUME NEW t \in Threads, StartService(t) PROVE LogStep(t)
  BY <1>0, <1>1 DEF StartService, Log, LogStep, NoticeInFlight
<1>2. ASSUME NEW t \in Threads, Lock(t) PROVE LogStep(t)
  BY <1>0, <1>2 DEF Lock, LogStep, NoticeInFlight
<1>3. ASSUME NEW t \in Threads, PrintLine(t) PROVE LogStep(t)
  <2>1. NoticeInFlight' = NoticeInFlight
    BY <1>3, HookReply DEF PrintLine, Reply, NoticeInFlight, Inv
  <2> QED BY <1>0, <1>3, <2>1 DEF PrintLine, LogStep
<1>4. CASE GetStart
  <2>1. LogStep(Sys)
    BY <1>0, <1>4 DEF GetStart, Log, LogStep, NoticeInFlight
  <2> QED BY <1>0, <2>1, CountLogStep
<1>5. ASSUME NEW e \in Events, DeviceChange(e) PROVE LogStep(DevMgr)
  BY <1>0, <1>5 DEF DeviceChange, Log, LogStep, NoticeInFlight
<1>6. CASE GetRequest
  <2>1. CASE enabled
    <3>1. LogStep(FS)
      BY <1>0, <1>6, <2>1 DEF GetRequest, LogStep, NoticeInFlight
    <3> QED BY <1>0, <3>1, CountLogStep
  <2>2. CASE ~enabled
    BY <1>6, <2>2 DEF GetRequest, Inv, StartInv, CountInv, NoticeInFlight
  <2> QED BY <2>1, <2>2
<1>7. CASE NotifyDevice
  <2>1. ~NoticeInFlight /\ ~NoticeInFlight'
    BY <1>7, HookReply DEF NotifyDevice, Reply, NoticeInFlight, Inv
  <2>2. at'[Sys] = at[Sys] /\ \A s \in Services : at'[s] = at[s]
    BY <1>0, <1>7, LinkAssumption DEF NotifyDevice, Threads
  <2> QED BY <1>7, <2>1, <2>2 DEF NotifyDevice, Inv, StartInv, CountInv
<1>8. CASE StartGameEvent
  <2>1. main = "ioctl" /\ main' = "wait"
    BY <1>0, <1>8, ServedElements DEF StartGameEvent, Inv, RequestInv
  <2>2. UNCHANGED <<at, notified, logAt, reply, eventCount, trigger, released>>
    BY <1>8 DEF StartGameEvent
  <2> QED BY <2>1, <2>2 DEF Inv, StartInv, CountInv, NoticeInFlight
<1>9. CASE CloseDone
  <2>1. ~NoticeInFlight /\ ~NoticeInFlight'
    BY <1>9, HookReply DEF CloseDone, Reply, NoticeInFlight, Inv
  <2>2. main = "close" /\ main' = "closed" /\ UNCHANGED <<at, notified, eventCount, trigger, released>>
    BY <1>9 DEF CloseDone, Inv, RequestInv
  <2> QED BY <2>1, <2>2 DEF Inv, StartInv, CountInv
<1>10. CASE StartGameIOS
  <2>1. /\ main = "boot" /\ main' = "ioctl" /\ eventCount' = 0 /\ trigger' = Cardinality(Services)
        /\ UNCHANGED <<at, notified, logAt, reply, released, startQueue>>
    BY <1>10 DEF StartGameIOS, Trigger
  <2>2. ~NoticeInFlight /\ ~NoticeInFlight' /\ eventCount = 0
    BY <2>1 DEF Inv, StartInv, NoticeInFlight
  <2> QED BY <2>1, <2>2 DEF Inv, StartInv, CountInv
<1>11. CASE Started \/ CloseLink
  BY <1>11 DEF Started, CloseLink, Inv, StartInv, CountInv, NoticeInFlight
<1>12. CASE Register \/ HandlePrint \/ HandleDevice \/ HandleClose
  <2>1. NoticeInFlight' = NoticeInFlight /\ UNCHANGED <<at, notified, main, eventCount, trigger, released, startQueue>>
    BY <1>12 DEF Register, HandlePrint, HandleDevice, HandleClose, GetReply, KeepsLogging, NoticeInFlight
  <2> QED BY <2>1 DEF Inv, StartInv, CountInv
<1>13. CASE UNCHANGED <<at, notified, main, eventCount, trigger, released, startQueue, logAt, reply>>
  BY <1>13 DEF Inv, StartInv, CountInv, NoticeInFlight
<1>14. ASSUME NEW t \in Threads, LogStep(t) \/ Notify(t) PROVE StartInv' /\ CountInv'
  BY <1>14, CountLogStep, CountNotify
<1>15. CASE HandleNotice
  BY <1>15, CountNotice
<1> QED
  BY <1>0, <1>1, <1>2, <1>3, <1>4, <1>5, <1>6, <1>7, <1>8, <1>9, <1>10, <1>11, <1>12, <1>13, <1>14, <1>15
  DEF Next, IosThread, Server, LogThread, HandlerThread, RegisterPrintHook, Close, Dequeue,
      WaitForIOS, HandlerDone, vars

LEMMA StartInit == Init => RequestInv /\ StartInv /\ CountInv
<1> SUFFICES ASSUME Init PROVE RequestInv /\ StartInv /\ CountInv
  OBVIOUS
<1>1. at[Sys] = "idle" /\ \A s \in Services : at[s] = "off"
  BY LinkAssumption DEF Init, Threads
<1> QED BY <1>1, FS_EmptySet DEF Init, RequestInv, StartInv, CountInv, NoticeInFlight

\* startGameIOS returns, and the handlers that wait for it go on, only when all
\* services are registered.
THEOREM GameIosIsReady == Spec => []StartedMeansReady
<1>1. Init => Inv
  BY TypeInit, HookInit, StartInit DEF Inv
<1>2. Inv /\ [Next]_vars => Inv'
  BY TypeStep, HookStep, RequestStep, CountStep DEF Inv, TypeInv
<1>3. Inv => StartedMeansReady
  BY DEF Inv, CountInv, StartedMeansReady
<1> QED BY <1>1, <1>2, <1>3, PTL DEF Spec

=============================================================================
