---------------------------- MODULE ResourcePool ----------------------------
(***************************************************************************)
(* What SrsResourceManager promises: an address is free, then holds an     *)
(* open connection, then a closing one, and is free again.  A connection   *)
(* that asked to be removed is reclaimed, exactly once and in the end.     *)
(***************************************************************************)
CONSTANT Addr

VARIABLE slot      \* slot[a]: "free", "open" or "closing"

Init == slot = [a \in Addr |-> "free"]

Open(a) == slot[a] = "free" /\ slot' = [slot EXCEPT ![a] = "open"]

Close(a) == slot[a] = "open" /\ slot' = [slot EXCEPT ![a] = "closing"]

Reclaim(a) == slot[a] = "closing" /\ slot' = [slot EXCEPT ![a] = "free"]

Next == \E a \in Addr : Open(a) \/ Close(a) \/ Reclaim(a)

(* What may happen. *)
Safety == Init /\ [][Next]_slot

(* A closing connection does not stay. *)
Spec == Safety /\ \A a \in Addr : WF_slot(Reclaim(a))
=============================================================================
