-------------------------- MODULE CoroutineProofs ---------------------------
(***************************************************************************)
(* Proofs about Coroutine.  The flags of the object and the state of the   *)
(* State Threads thread are kept by different code, and none of the safety *)
(* properties is inductive alone; Inv states how the two sides agree.      *)
(***************************************************************************)
EXTENDS Coroutine, TLAPS

Exited == {"zombie"} \cup Dangling

(***************************************************************************)
(* How the object's flags and its thread agree, for every interleaving:    *)
(* a thread exists exactly when the object is started; cycle_done is only  *)
(* set by a worker that is gone; a disposed object can no longer interrupt *)
(* its thread; outside the join, a disposed object has no thread or a      *)
(* joined one; and an exited worker's error is the one pull() reports.     *)
(***************************************************************************)
Inv ==
    /\ TypeOK
    /\ started <=> trd # "null"
    /\ cycle_done => trd \in Exited /\ ret = success
    /\ disposed => ~MayInterrupt
    /\ stopping_ => disposed /\ trd \in Alive \cup {"zombie"}
    /\ disposed /\ ~stopping_ => trd \in {"null"} \cup Dangling
    /\ trd \in Dangling => disposed /\ ~stopping_
    /\ freed => disposed /\ ~stopping_
    /\ WorkerErrorKept

USE DEF success, Error, ThreadState, Alive, Dangling, Exited

(* The constructor establishes the agreement. *)
LEMMA InitInv == Init => Inv
BY DEF Init, Inv, TypeOK, WorkerErrorKept, MayInterrupt

(* Every step of the worker, the scheduler and the callers keeps it. *)
LEMMA NextInv == Inv /\ [Next]_vars => Inv'
<1> SUFFICES ASSUME Inv, [Next]_vars PROVE Inv'
  OBVIOUS
<1> USE DEF Inv, TypeOK, WorkerErrorKept, MayInterrupt, objVars, stVars
<1>1. CASE Dispatch
  BY <1>1 DEF Dispatch
<1>2. CASE Ready \/ Release
  BY <1>2 DEF Ready, Release
<1>3. CASE Pull \/ Loop \/ Block
  BY <1>3 DEF Pull, Loop, Block
<1>4. ASSUME NEW err \in {success, "worker"}, Return(err) PROVE Inv'
  BY <1>4 DEF Return
<1>5. CASE Start
  BY <1>5 DEF Start, OwnerFree, CpuFree, st_thread_create
<1>13. CASE StartCreateFails
  BY <1>13 DEF StartCreateFails, OwnerFree, CpuFree
<1>6. CASE StartRefused
  BY <1>6 DEF StartRefused, OwnerFree, CpuFree, KeepError
<1>7. CASE Interrupt
  BY <1>7 DEF Interrupt, interrupt, CpuFree, KeepError, st_thread_interrupt
<1>8. CASE StopUnstarted
  BY <1>8 DEF StopUnstarted, OwnerFree, CpuFree, Terminated
<1>9. CASE StopBegin
  BY <1>9 DEF StopBegin, OwnerFree, CpuFree, interrupt, KeepError, st_thread_interrupt
<1>10. CASE StopJoined
  BY <1>10 DEF StopJoined, CpuFree, Terminated
<1>11. CASE Destroy
  BY <1>11 DEF Destroy, OwnerFree, CpuFree
<1>12. CASE UNCHANGED vars
  BY <1>12 DEF vars
<1> QED
  BY <1>1, <1>2, <1>3, <1>4, <1>5, <1>6, <1>7, <1>8, <1>9, <1>10, <1>11, <1>12, <1>13
     DEF Next, HandlerStep

(***************************************************************************)
(* The agreement holds in every reachable state of SrsFastCoroutine.       *)
(***************************************************************************)
THEOREM Invariance == Spec => []Inv
BY InitInv, NextInv, PTL DEF Spec

(* The fields of the object always hold values of their types. *)
THEOREM TypeCorrect == Spec => []TypeOK
<1>1. Inv => TypeOK
  BY DEF Inv
<1> QED
  BY <1>1, Invariance, PTL

(***************************************************************************)
(* The assertion of stop() on the worker's value never fails, and an       *)
(* exited worker's error is what pull() reports from then on.              *)
(***************************************************************************)
THEOREM WorkerErrorIsKept == Spec => []WorkerErrorKept
<1>1. Inv => WorkerErrorKept
  BY DEF Inv
<1> QED
  BY <1>1, Invariance, PTL

(***************************************************************************)
(* interrupt() never reaches st_thread_interrupt with the descriptor of a  *)
(* joined thread, which frees itself.                                      *)
(***************************************************************************)
THEOREM InterruptIsSafe == Spec => []NoDanglingInterrupt
<1>1. Inv => NoDanglingInterrupt
  BY DEF Inv, NoDanglingInterrupt
<1> QED
  BY <1>1, Invariance, PTL

(***************************************************************************)
(* When the destructor of SrsFastCoroutine returns, no thread can touch    *)
(* the object any more.                                                    *)
(***************************************************************************)
THEOREM DestroyIsSafe == Spec => []FreedIsQuiet
<1>1. Inv => FreedIsQuiet
  BY DEF Inv, FreedIsQuiet, TypeOK
<1> QED
  BY <1>1, Invariance, PTL

(***************************************************************************)
(* An error seen by pull() never turns back into success: a handler that   *)
(* missed one pull still sees at the next that it has to end.              *)
(***************************************************************************)
ErrorSticky == [][trd_err # success => trd_err' # success]_vars

(***************************************************************************)
(* pull() never goes back from an error to success, which is also a part   *)
(* of what Lifecycle promises.                                             *)
(***************************************************************************)
THEOREM ErrorsStick == Spec => ErrorSticky
<1>1. [Next]_vars => [trd_err # success => trd_err' # success]_vars
  <2> SUFFICES ASSUME [Next]_vars, trd_err # success, ~UNCHANGED vars
               PROVE  trd_err' # success
    OBVIOUS
  <2> USE DEF objVars, stVars, vars
  <2>1. CASE Dispatch \/ Ready \/ Release \/ Pull \/ Loop \/ Block
    BY <2>1 DEF Dispatch, Ready, Release, Pull, Loop, Block
  <2>2. ASSUME NEW err \in {success, "worker"}, Return(err) PROVE trd_err' # success
    BY <2>2 DEF Return
  <2>3. CASE Start \/ StartCreateFails \/ StartRefused
    BY <2>3 DEF Start, StartCreateFails, StartRefused, KeepError
  <2>4. CASE Interrupt \/ StopBegin
    BY <2>4 DEF Interrupt, StopBegin, interrupt, KeepError
  <2>5. CASE StopUnstarted \/ StopJoined \/ Destroy
    BY <2>5 DEF StopUnstarted, StopJoined, Destroy, Terminated
  <2> QED
    BY <2>1, <2>2, <2>3, <2>4, <2>5 DEF Next, HandlerStep
<1> QED
  BY <1>1, PTL DEF Spec, ErrorSticky

-----------------------------------------------------------------------------
(* Refinement of Lifecycle *)

(* The constructed object is a new one. *)
LEMMA InitRefines == Init => Abstract!Init
BY DEF Init, Abstract!Init, phaseView

(* Each step is a step of Lifecycle or changes nothing its owner sees. *)
LEMMA NextRefines == Inv /\ [Next]_vars => [Abstract!Next]_(Abstract!vars)
<1> SUFFICES ASSUME Inv, [Next]_vars PROVE [Abstract!Next]_(Abstract!vars)
  OBVIOUS
<1> USE DEF Inv, TypeOK, WorkerErrorKept, MayInterrupt, objVars, stVars, phaseView, Abstract!vars
<1>1. CASE Dispatch
  BY <1>1 DEF Dispatch
<1>2. CASE Ready \/ Release
  BY <1>2 DEF Ready, Release
<1>3. CASE Pull \/ Loop \/ Block
  BY <1>3 DEF Pull, Loop, Block
<1>4. ASSUME NEW err \in {success, "worker"}, Return(err) PROVE Abstract!Exit
  BY <1>4 DEF Return, Abstract!Exit
<1>5. CASE Start
  BY <1>5 DEF Start, OwnerFree, CpuFree, st_thread_create, Abstract!Next, Abstract!Begin
<1>6. CASE StartCreateFails
  BY <1>6 DEF StartCreateFails, OwnerFree, CpuFree, Abstract!Next, Abstract!Fail
<1>7. CASE StartRefused
  BY <1>7 DEF StartRefused, OwnerFree, CpuFree, KeepError, Abstract!Next, Abstract!Fail
<1>8. CASE Interrupt
  BY <1>8 DEF Interrupt, interrupt, CpuFree, KeepError, st_thread_interrupt,
              Abstract!Next, Abstract!Fail
<1>9. CASE StopUnstarted
  BY <1>9 DEF StopUnstarted, OwnerFree, CpuFree, Terminated, Abstract!Next, Abstract!Stopped
<1>10. CASE StopBegin
  BY <1>10 DEF StopBegin, OwnerFree, CpuFree, interrupt, KeepError, st_thread_interrupt,
               Abstract!Next, Abstract!Fail
<1>11. CASE StopJoined
  BY <1>11 DEF StopJoined, CpuFree, Terminated, Abstract!Next, Abstract!Stopped
<1>12. CASE Destroy
  BY <1>12 DEF Destroy, OwnerFree, CpuFree, Abstract!Next, Abstract!Free
<1>13. CASE UNCHANGED vars
  BY <1>13 DEF vars
<1> QED
  BY <1>1, <1>2, <1>3, <1>4, <1>5, <1>6, <1>7, <1>8, <1>9, <1>10, <1>11, <1>12, <1>13
     DEF Next, HandlerStep, Abstract!Next

(***************************************************************************)
(* SrsFastCoroutine implements Lifecycle: start, interrupt, stop and       *)
(* delete, in any order and at any moment of the worker, amount to one     *)
(* orderly life of the object.                                             *)
(***************************************************************************)
THEOREM CoroutineImplementsLifecycle == Spec => ImplementsLifecycle
BY InitRefines, NextRefines, Invariance, PTL DEF Spec, ImplementsLifecycle, Abstract!Spec
=============================================================================
