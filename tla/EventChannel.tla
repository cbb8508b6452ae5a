---------------------------- MODULE EventChannel ---------------------------
(***************************************************************************)
(* What the device events of the storage manager promise the channel's     *)
(* device handlers: the handlers are called with every event in the order  *)
(* the manager notified them in, none twice, none that was not notified;   *)
(* some of the last ones may not have been handled yet.                    *)
(***************************************************************************)
EXTENDS Naturals, Sequences

CONSTANT Events

VARIABLES
  sent,     \* the events notified so far
  handled   \* the events the handlers were called with so far

Init == sent = <<>> /\ handled = <<>>

Notify(e) == sent' = Append(sent, e) /\ UNCHANGED handled

Handle ==
  /\ Len(handled) < Len(sent)
  /\ handled' = Append(handled, sent[Len(handled) + 1])
  /\ UNCHANGED sent

Next == Handle \/ \E e \in Events : Notify(e)

Spec == Init /\ [][Next]_<<sent, handled>>

=============================================================================
