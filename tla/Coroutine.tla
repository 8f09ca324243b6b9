----------------------------- MODULE Coroutine ------------------------------
(***************************************************************************)
(* SrsFastCoroutine (app/srs_app_st.cpp) on top of the State Threads       *)
(* scheduler (3rdparty/st-srs/sched.c): one coroutine object, the worker   *)
(* thread it creates, the one coroutine that owns it (starts it, stops it  *)
(* and deletes it) and any number of coroutines that interrupt it.         *)
(*                                                                         *)
(* State Threads is cooperative: nobody else runs while the worker is      *)
(* RUNNING, so every step of another coroutine is guarded by CpuFree and   *)
(* is as long as the code runs without a blocking call.  The one blocking  *)
(* call of the object itself is st_thread_join in stop().                  *)
(*                                                                         *)
(* The handler is any code that keeps the contract of                      *)
(* ISrsCoroutineHandler::cycle: "If the cycle has its own loop, it must    *)
(* check the thread pull".                                                 *)
(***************************************************************************)
EXTENDS Naturals

VARIABLES
    started, interrupted, disposed, cycle_done,   \* the flags of the object
    stopping_,                                    \* stop() waits in the join
    trd_err,    \* the error pull() copies
    freed,      \* the destructor has returned
    trd,        \* state of the State Threads thread
    at,         \* where the worker goes on when it runs
    intr,       \* the thread's _ST_FL_INTERRUPT flag
    ret         \* value the thread exited with

objVars == <<started, interrupted, disposed, cycle_done, stopping_, trd_err, freed>>
stVars  == <<trd, at, intr, ret>>
vars    == <<objVars, stVars>>

success == "success"

(***************************************************************************)
(* "worker" is the pointer the worker returned; two errors are equal here  *)
(* exactly when the pointers srs_assert compares are.                      *)
(***************************************************************************)
Error == {success, "worker", "interrupted", "terminated", "disposed", "started", "create"}

(***************************************************************************)
(* "null" before the thread exists, "joined" once st_thread_join has taken *)
(* its value and put it back on the run queue, "released" once it freed    *)
(* its stack, and the thread descriptor with it.                           *)
(***************************************************************************)
ThreadState == {"null", "runnable", "running", "blocked", "zombie", "joined", "released"}

Alive    == {"runnable", "running", "blocked"}
Dangling == {"joined", "released"}

(***************************************************************************)
(* The type invariant: every field holds a value the code can store in it. *)
(***************************************************************************)
TypeOK ==
    /\ started \in BOOLEAN /\ interrupted \in BOOLEAN /\ disposed \in BOOLEAN
    /\ cycle_done \in BOOLEAN /\ stopping_ \in BOOLEAN /\ freed \in BOOLEAN
    /\ intr \in BOOLEAN
    /\ trd_err \in Error
    /\ trd \in ThreadState
    /\ at \in {"head", "work", "io"}
    /\ ret \in {success, "worker"}

Init ==
    /\ started = FALSE /\ interrupted = FALSE /\ disposed = FALSE
    /\ cycle_done = FALSE /\ stopping_ = FALSE /\ freed = FALSE
    /\ trd_err = success
    /\ trd = "null" /\ at = "head" /\ intr = FALSE /\ ret = success

CpuFree == trd # "running"

(* The first error wins: later ones are dropped. *)
KeepError(e) == IF trd_err = success THEN e ELSE trd_err

-----------------------------------------------------------------------------
(* The State Threads thread. *)

(* st_thread_create puts the thread on the run queue; it does not run yet. *)
st_thread_create == trd' = "runnable" /\ UNCHANGED <<at, intr, ret>>

(* Mutant: the flag is raised but a blocked thread is not woken. *)
Bug_InterruptNoWake == intr' = (intr \/ trd # "zombie") /\ UNCHANGED <<trd, at, ret>>

(* A zombie is left alone; a thread in a blocking call becomes runnable. *)
st_thread_interrupt ==
    /\ intr' = (intr \/ trd # "zombie")
    /\ trd' = IF trd = "blocked" THEN "runnable" ELSE trd
    /\ UNCHANGED <<at, ret>>

(***************************************************************************)
(* The scheduler picks the worker.  Coming back from a blocking call with  *)
(* the flag up, the call fails with EINTR even when its event is there,    *)
(* the flag is cleared, and the handler goes back to its pull.             *)
(***************************************************************************)
Dispatch ==
    /\ trd = "runnable"
    /\ trd' = "running"
    /\ at' = IF at = "io" /\ ~intr THEN "work" ELSE "head"
    /\ intr' = (intr /\ at # "io")
    /\ UNCHANGED <<objVars, ret>>

(* The descriptor or the condition the worker waits for fires, or times out. *)
Ready == trd = "blocked" /\ trd' = "runnable" /\ UNCHANGED <<objVars, at, intr, ret>>

(* The joined thread runs a last time and frees its own stack. *)
Release == trd = "joined" /\ trd' = "released" /\ UNCHANGED <<objVars, at, intr, ret>>

-----------------------------------------------------------------------------
(* The handler of the worker. *)

(* pull() answers success, so the handler's loop goes round. *)
Pull ==
    /\ trd = "running" /\ at = "head"
    /\ trd_err = success
    /\ at' = "work"
    /\ UNCHANGED <<objVars, trd, intr, ret>>

(* The body of the loop is over. *)
Loop ==
    /\ trd = "running" /\ at = "work"
    /\ at' = "head"
    /\ UNCHANGED <<objVars, trd, intr, ret>>

(* A blocking call (read, write, connect, accept, cond_wait, usleep). *)
Block ==
    /\ trd = "running" /\ at = "work"
    /\ trd' = "blocked" /\ at' = "io"
    /\ UNCHANGED <<objVars, intr, ret>>

(* Mutants: what pfn() could do with the value of cycle(). *)
Bug_ReturnFirstErrorWins(err) ==
    /\ trd = "running" /\ at \in {"head", "work"}
    /\ cycle_done' = (err = success) /\ trd_err' = KeepError(err)
    /\ ret' = err /\ trd' = "zombie"
    /\ UNCHANGED <<started, interrupted, disposed, stopping_, freed, at, intr>>

Bug_ReturnAlwaysStores(err) ==
    /\ trd = "running" /\ at \in {"head", "work"}
    /\ cycle_done' = (err = success) /\ trd_err' = err
    /\ ret' = err /\ trd' = "zombie"
    /\ UNCHANGED <<started, interrupted, disposed, stopping_, freed, at, intr>>

(* cycle(), then pfn(), then st_thread_exit(): the thread becomes a zombie. *)
Return(err) ==
    /\ trd = "running" /\ at \in {"head", "work"}
    /\ cycle_done' = (err = success)
    /\ trd_err' = IF err # success THEN err ELSE trd_err
    /\ ret' = err
    /\ trd' = "zombie"
    /\ UNCHANGED <<started, interrupted, disposed, stopping_, freed, at, intr>>

(* Every way the handler's running can go on. *)
HandlerStep == Pull \/ Loop \/ Block \/ \E err \in {success, "worker"} : Return(err)

-----------------------------------------------------------------------------
(* Calls on the object.  The owner is busy while stop() waits in the join. *)

OwnerFree == CpuFree /\ ~freed /\ ~stopping_

(* start() on an object that may be started; the thread is created. *)
Start ==
    /\ OwnerFree /\ ~started /\ ~disposed
    /\ st_thread_create
    /\ started' = TRUE
    /\ UNCHANGED <<interrupted, disposed, cycle_done, stopping_, trd_err, freed>>

(* st_thread_create returned NULL: the error replaces what was there. *)
StartCreateFails ==
    /\ OwnerFree /\ ~started /\ ~disposed
    /\ trd_err' = "create"
    /\ UNCHANGED <<started, interrupted, disposed, cycle_done, stopping_, freed, stVars>>

(* start() on a started or disposed object is refused. *)
StartRefused ==
    /\ OwnerFree /\ (started \/ disposed)
    /\ trd_err' = KeepError(IF disposed THEN "disposed" ELSE "started")
    /\ UNCHANGED <<started, interrupted, disposed, cycle_done, stopping_, freed, stVars>>

(* Does interrupt() do anything at all? *)
MayInterrupt == started /\ ~interrupted /\ ~cycle_done

(* Mutant: interrupt() forgets that it has run. *)
Bug_InterruptNotRecorded ==
    IF MayInterrupt
    THEN trd_err' = KeepError("interrupted") /\ st_thread_interrupt /\ UNCHANGED interrupted
    ELSE UNCHANGED <<interrupted, trd_err, stVars>>

(* The body of interrupt(), which stop() runs too. *)
interrupt ==
    IF MayInterrupt
    THEN /\ interrupted' = TRUE
         /\ trd_err' = KeepError("interrupted")
         /\ st_thread_interrupt
    ELSE UNCHANGED <<interrupted, trd_err, stVars>>

(* Anybody calls interrupt(), also while the owner waits in the join. *)
Interrupt ==
    /\ CpuFree /\ ~freed
    /\ interrupt
    /\ UNCHANGED <<started, disposed, cycle_done, stopping_, freed>>

(* Mutant: the error of an object stopped early is not set. *)
Bug_NotTerminated(e) == e

(* No error of the worker to report: the object was stopped before its end. *)
Terminated(e) == IF e = success /\ ~cycle_done THEN "terminated" ELSE e

(* stop() of an object that was never started has no thread to join. *)
StopUnstarted ==
    /\ OwnerFree /\ ~disposed /\ trd = "null"
    /\ disposed' = TRUE
    /\ trd_err' = Terminated(trd_err)
    /\ UNCHANGED <<started, interrupted, cycle_done, stopping_, freed, stVars>>

(* Mutant: stop() notifies the worker and returns without joining it. *)
Bug_StopNoJoin ==
    /\ OwnerFree /\ ~disposed /\ trd # "null"
    /\ disposed' = TRUE
    /\ interrupt
    /\ UNCHANGED <<started, cycle_done, stopping_, freed>>

(* stop() up to the join. *)
StopBegin ==
    /\ OwnerFree /\ ~disposed /\ trd # "null"
    /\ disposed' = TRUE /\ stopping_' = TRUE
    /\ interrupt
    /\ UNCHANGED <<started, cycle_done, freed>>

(* The join returns with the worker's value, and so does stop().  It cannot *)
(* fail, which stop() asserts: the thread is joinable, joined once and not  *)
(* by itself, and who stops, the manager's coroutine or the first thread,   *)
(* is itself never interrupted.                                             *)
StopJoined ==
    /\ stopping_ /\ CpuFree /\ trd = "zombie"
    /\ trd' = "joined"
    /\ trd_err' = Terminated(trd_err)
    /\ stopping_' = FALSE
    /\ UNCHANGED <<started, interrupted, disposed, cycle_done, freed, at, intr, ret>>

(***************************************************************************)
(* The destructor runs stop() first, which the steps above are; a second   *)
(* stop() of a stopped object returns at once.                             *)
(***************************************************************************)
Destroy ==
    /\ OwnerFree /\ disposed
    /\ freed' = TRUE
    /\ UNCHANGED <<started, interrupted, disposed, cycle_done, stopping_, trd_err, stVars>>

-----------------------------------------------------------------------------
Next ==
    \/ Dispatch \/ Ready \/ Release
    \/ HandlerStep
    \/ Start \/ StartCreateFails \/ StartRefused
    \/ Interrupt
    \/ StopUnstarted \/ StopBegin \/ StopJoined
    \/ Destroy

(***************************************************************************)
(* The run queue is FIFO, so a runnable thread runs; a running handler     *)
(* goes on.  Events of the outside world (Ready) and the calls of the      *)
(* owner need not happen.                                                  *)
(***************************************************************************)
Fairness ==
    /\ WF_vars(Dispatch)
    /\ WF_vars(HandlerStep)
    /\ WF_vars(StopJoined)

Spec == Init /\ [][Next]_vars /\ Fairness

-----------------------------------------------------------------------------
(* Properties *)

(***************************************************************************)
(* The assertion "trd_err should be equal to err_res" of stop(): whatever  *)
(* start(), interrupt() and stop() did to trd_err before, between or after *)
(* the steps of the worker, an exited worker's own error is what pull()    *)
(* reports, for as long as the object exists.                              *)
(***************************************************************************)
WorkerErrorKept ==
    trd \in {"zombie"} \cup Dangling /\ ret # success => trd_err = ret

(***************************************************************************)
(* trd is not reset after the join and the thread frees its descriptor, so *)
(* the guard of interrupt() must be closed by then: destructors call       *)
(* interrupt() before they delete the coroutine, whatever came before.     *)
(***************************************************************************)
NoDanglingInterrupt == trd \in Dangling => ~MayInterrupt

(***************************************************************************)
(* The destructor's "We must assert the cycle is done": when the object is *)
(* freed, no thread is left that would still run the handler or store its  *)
(* result into the object.                                                 *)
(***************************************************************************)
FreedIsQuiet == freed => trd \notin Alive \cup {"zombie"}

(***************************************************************************)
(* stop() "Interrupt the thread then wait to terminated": the wait ends,   *)
(* in whatever state the worker was when stop() was called, without help   *)
(* from the event the worker waits for.                                    *)
(***************************************************************************)
StopReturns == stopping_ ~> ~stopping_

(* The life of the object as its owner sees it. *)
phaseView ==
    CASE freed -> "freed"
      [] ~freed /\ disposed /\ ~stopping_ -> "stopped"
      [] ~(disposed /\ ~stopping_) /\ trd = "zombie" -> "exited"
      [] ~(disposed /\ ~stopping_) /\ trd \in Alive -> "live"
      [] OTHER -> "new"

Abstract == INSTANCE Lifecycle WITH phase <- phaseView, failed <- (trd_err # success)

(***************************************************************************)
(* The object implements Lifecycle: the flags, the error field and the     *)
(* thread's states together amount to one orderly life, and stop() leaves  *)
(* an error behind unless the handler had returned without one.            *)
(***************************************************************************)
ImplementsLifecycle == Abstract!Spec
=============================================================================
