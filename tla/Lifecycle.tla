----------------------------- MODULE Lifecycle ------------------------------
(***************************************************************************)
(* What a coroutine object promises its owner, without flags or threads.   *)
(*                                                                         *)
(* An object is new, then live while its handler runs, then exited, and is *)
(* stopped once stop() has returned; only a stopped object is freed.  The  *)
(* answer of pull() starts as "no error" and turns into an error for good: *)
(* a handler that exits with an error has turned it, and so has stop(),    *)
(* except after a handler that had already exited without one.             *)
(***************************************************************************)
VARIABLES
    phase,      \* "new", "live", "exited", "stopped" or "freed"
    failed      \* does pull() report an error?

vars == <<phase, failed>>

Init == phase = "new" /\ failed = FALSE

(* The handler starts to run. *)
Begin == phase = "new" /\ phase' = "live" /\ UNCHANGED failed

(* The handler returns; an error of its own is reported in the same step. *)
Exit == phase = "live" /\ phase' = "exited" /\ (failed => failed')

(* stop() returns: the handler never ran, or it has returned. *)
Stopped ==
    /\ \/ phase = "new" /\ failed' = TRUE
       \/ phase = "exited" /\ (failed => failed')
    /\ phase' = "stopped"

Free == phase = "stopped" /\ phase' = "freed" /\ UNCHANGED failed

(* interrupt(), a refused start() or a thread that could not be created. *)
Fail == phase # "freed" /\ failed' = TRUE /\ UNCHANGED phase

Next == Begin \/ Exit \/ Stopped \/ Free \/ Fail

Spec == Init /\ [][Next]_vars
=============================================================================
