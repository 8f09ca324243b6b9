------------------------ MODULE ConnLifecycleProofs -------------------------
(***************************************************************************)
(* Proofs about ConnLifecycle, for any number of addresses and listeners.  *)
(***************************************************************************)
EXTENDS ConnLifecycle, TLAPS

(* A removed connection is still running to its end, or has exited. *)
Leaving == {"running", "zombie"}

(***************************************************************************)
(* An object exists exactly as long as something refers to it, and asked   *)
(* to be removed exactly when it is queued.                                *)
(***************************************************************************)
ObjectInv ==
    \A a \in Addr :
        /\ heap[a] = "free" => trd[a] = "none" /\ a \notin conns_
        /\ a \in Pending <=> heap[a] = "used" /\ done[a]
        /\ a \in Pending => trd[a] \in Leaving
        /\ heap[a] = "used" /\ trd[a] \notin Leaving => ~done[a]
        /\ trd[a] = "zombie" => done[a]

(***************************************************************************)
(* The manager's coroutine: while it runs nobody else does; the pointer    *)
(* p_disposing_ and the local vector exist only inside do_clear; and what  *)
(* has been disposed of is out of conns_ before it is freed.               *)
(***************************************************************************)
ManagerInv ==
    /\ ManagerRunning => \A a \in Addr : trd[a] # "running"
    /\ mgr \notin {"dispose", "free"} => copy = <<>>
    /\ mgr # "dispose" => p_disposing_ = {}
    /\ mgr = "dispose" => \A j \in 1..Len(copy) : j < i => copy[j] \notin conns_
    /\ mgr = "free" => \A j \in 1..Len(copy) : copy[j] \notin conns_
    /\ ZombiesNotStranded

(***************************************************************************)
(* The inductive invariant: neither side of it is inductive without the    *)
(* other, because a removal runs inside the object that is removed.        *)
(***************************************************************************)
Inv == TypeOK /\ ObjectInv /\ ManagerInv /\ QueuedOnce

-----------------------------------------------------------------------------
(* Lemmas on the elements of a vector *)

(* An element appended is an element, and the others stay. *)
LEMMA FromAppend ==
    ASSUME NEW S, NEW s \in Seq(S), NEW e \in S
    PROVE  From(Append(s, e), 1) = From(s, 1) \cup {e}
BY DEF From

(* The first element of the rest, and the others. *)
LEMMA FromStep ==
    ASSUME NEW S, NEW s \in Seq(S), NEW k \in Nat \ {0}, k <= Len(s)
    PROVE  From(s, k) = {s[k]} \cup From(s, k + 1)
BY DEF From

(* Nothing is left behind the end. *)
LEMMA FromEnd ==
    ASSUME NEW S, NEW s \in Seq(S), NEW k \in Nat \ {0}, k > Len(s)
    PROVE  From(s, k) = {}
BY DEF From

(* An empty vector has no elements. *)
LEMMA FromEmpty == From(<<>>, 1) = {}
BY DEF From

-----------------------------------------------------------------------------
(* SrsServer::listen leaves the manager with nothing to do. *)
LEMMA InitInv == Init => Inv
<1> SUFFICES ASSUME Init PROVE Inv
  OBVIOUS
<1>1. TypeOK
  BY StartFailuresAssumption DEF Init, TypeOK, ThreadState, ManagerState
<1>2. Pending = {}
  BY FromEmpty DEF Init, Pending
<1>3. ObjectInv
  BY <1>2 DEF Init, ObjectInv, Leaving
<1>4. ManagerInv /\ QueuedOnce
  BY FromEmpty DEF Init, ManagerInv, QueuedOnce, ManagerRunning, ZombiesNotStranded
<1> QED
  BY <1>1, <1>3, <1>4 DEF Inv

(* A listener's step touches at most a free address. *)
LEMMA ListenerInv ==
    ASSUME Inv, NEW l \in Listeners,
           \/ ClientArrives(l) \/ AcceptBlocks(l) \/ ListenerExits(l)
           \/ \E a \in Addr, ok \in BOOLEAN : accept_client(l, a, ok)
    PROVE  Inv'
<1> USE DEF Inv, connVars, mgrVars
<1>1. CASE ClientArrives(l) \/ AcceptBlocks(l) \/ ListenerExits(l)
  <2>1. TypeOK' /\ UNCHANGED <<connVars, mgrVars>>
    BY <1>1 DEF ClientArrives, AcceptBlocks, ListenerExits, TypeOK
  <2>2. Pending' = Pending
    BY <2>1 DEF Pending, From
  <2>3. ObjectInv'
    BY <2>1, <2>2 DEF ObjectInv
  <2>4. ManagerInv' /\ QueuedOnce'
    BY <2>1 DEF ManagerInv, QueuedOnce, ZombiesNotStranded, ManagerRunning, From
  <2> QED
    BY <2>1, <2>3, <2>4
<1>2. ASSUME NEW a \in Addr, NEW ok \in BOOLEAN, accept_client(l, a, ok) PROVE Inv'
  <2> USE <1>2 DEF accept_client
  <2>1. TypeOK'
    BY StartFailuresAssumption DEF TypeOK, ThreadState
  <2>2. Pending' = Pending
    BY DEF Pending, From
  <2>3. ObjectInv'
    BY <2>2 DEF ObjectInv, Leaving, TypeOK
  <2>4. ManagerInv'
    BY DEF ManagerInv, CpuFree, ManagerRunning, ZombiesNotStranded, TypeOK, ManagerState
  <2>5. QueuedOnce'
    BY DEF QueuedOnce, From
  <2> QED
    BY <2>1, <2>3, <2>4, <2>5
<1> QED
  BY <1>1, <1>2

(* A connection's step, remove() from inside itself included. *)
LEMMA ConnInv ==
    ASSUME Inv, NEW a \in Addr, ConnStep(a) \/ ConnReady(a)
    PROVE  Inv'
<1> USE DEF Inv
<1>1. CASE ConnDispatch(a) \/ ConnBlocks(a) \/ ConnReady(a) \/ ConnExits(a)
  <2> USE <1>1 DEF ConnDispatch, ConnBlocks, ConnReady, ConnExits, mgrVars
  <2>1. TypeOK'
    BY DEF TypeOK, ThreadState
  <2>2. Pending' = Pending
    BY DEF Pending, From
  <2>3. ObjectInv'
    BY <2>2 DEF ObjectInv, Leaving, TypeOK
  <2>4. ManagerInv'
    BY DEF ManagerInv, CpuFree, ManagerRunning, ZombiesNotStranded, TypeOK
  <2>5. QueuedOnce'
    BY DEF QueuedOnce, From
  <2> QED
    BY <2>1, <2>3, <2>4, <2>5
<1>2. CASE on_conn_done(a)
  <2> USE <1>2 DEF on_conn_done
  <2>1. ~ManagerRunning /\ copy = <<>> /\ p_disposing_ = {}
    BY DEF ManagerInv, ManagerRunning
  <2>2. Pending = From(zombies_, 1)
    BY <2>1, FromEmpty DEF Pending, ManagerRunning
  <2>3. a \notin Pending /\ heap[a] = "used"
    BY DEF ObjectInv, TypeOK, Leaving
  <2>4. zombies_' = Append(zombies_, a) /\ mgr' = "runnable"
    BY <2>1, <2>2, <2>3 DEF do_remove, check_remove, srs_cond_signal, ManagerRunning,
                            TypeOK, ManagerState
  <2>5. TypeOK'
    BY <2>4 DEF TypeOK, ManagerState
  <2>6. Pending' = Pending \cup {a}
    BY <2>1, <2>2, <2>4, FromAppend, FromEmpty DEF Pending, TypeOK
  <2>7. ObjectInv'
    BY <2>3, <2>6 DEF ObjectInv, Leaving, TypeOK
  <2>8. ManagerInv'
    BY <2>1, <2>4 DEF ManagerInv, ManagerRunning, ZombiesNotStranded
  <2>9. QueuedOnce'
    <3>1. \A j \in 1..Len(zombies_) : zombies_[j] # a
      BY <2>2, <2>3 DEF From
    <3>2. \A j, k \in 1..Len(zombies_') : zombies_'[j] = zombies_'[k] => j = k
      BY <2>4, <3>1 DEF QueuedOnce, TypeOK
    <3> QED
      BY <3>2, <2>1, <2>4, FromEmpty DEF QueuedOnce
  <2> QED
    BY <2>5, <2>7, <2>8, <2>9
<1> QED
  BY <1>1, <1>2 DEF ConnStep

(* The manager's coroutine: two loops over what it took from zombies_. *)
LEMMA ManagerStepInv ==
    ASSUME Inv, ManagerStep
    PROVE  Inv'
<1> USE DEF Inv, connVars
<1>1. CASE ManagerDispatch
  <2> USE <1>1 DEF ManagerDispatch
  <2>1. TypeOK' /\ Pending' = Pending
    BY DEF TypeOK, ManagerState, Pending, From
  <2>2. ObjectInv'
    BY <2>1 DEF ObjectInv
  <2>3. ManagerInv' /\ QueuedOnce'
    BY DEF ManagerInv, CpuFree, ManagerRunning, ZombiesNotStranded, QueuedOnce, From
  <2> QED
    BY <2>1, <2>2, <2>3
<1>2. CASE ManagerWaits
  <2> USE <1>2 DEF ManagerWaits
  <2>1. TypeOK' /\ Pending' = Pending
    BY DEF TypeOK, ManagerState, Pending, From
  <2>2. ObjectInv'
    BY <2>1 DEF ObjectInv
  <2>3. ManagerInv' /\ QueuedOnce'
    BY DEF ManagerInv, ManagerRunning, ZombiesNotStranded, QueuedOnce, From
  <2> QED
    BY <2>1, <2>2, <2>3
<1>3. CASE ClearBegins
  <2> USE <1>3 DEF ClearBegins
  <2>1. copy = <<>> /\ From(copy, 1) = {}
    BY FromEmpty DEF ManagerInv
  <2>2. TypeOK'
    BY DEF TypeOK, ManagerState, From
  <2>3. Pending' = Pending
    BY <2>1, FromEmpty DEF Pending, From
  <2>4. ObjectInv'
    BY <2>3 DEF ObjectInv
  <2>5. ManagerInv'
    BY DEF ManagerInv, ManagerRunning, ZombiesNotStranded
  <2>6. QueuedOnce'
    BY FromEmpty DEF QueuedOnce, From
  <2> QED
    BY <2>2, <2>4, <2>5, <2>6
<1>4. CASE dispose
  <2> USE <1>4 DEF dispose
  <2>1. TypeOK' /\ Pending' = Pending
    BY DEF TypeOK, Pending, From
  <2>2. ObjectInv'
    BY <2>1 DEF ObjectInv
  <2>3. ManagerInv'
    BY DEF ManagerInv, ManagerRunning, ZombiesNotStranded, TypeOK
  <2>4. QueuedOnce'
    BY DEF QueuedOnce, From
  <2> QED
    BY <2>1, <2>2, <2>3, <2>4
<1>5. CASE DisposeEnds
  <2> USE <1>5 DEF DisposeEnds
  <2>1. TypeOK' /\ Pending' = Pending
    BY DEF TypeOK, ManagerState, Pending, From
  <2>2. ObjectInv'
    BY <2>1 DEF ObjectInv
  <2>3. ManagerInv'
    BY DEF ManagerInv, ManagerRunning, ZombiesNotStranded, TypeOK
  <2>4. QueuedOnce'
    BY DEF QueuedOnce, From
  <2> QED
    BY <2>1, <2>2, <2>3, <2>4
<1>6. CASE srs_freep
  <2> DEFINE a == copy[i]
  <2> USE <1>6 DEF srs_freep
  <2>1. a \in Addr /\ i \in 1..Len(copy)
    BY DEF TypeOK
  <2>2. From(copy, i) = {a} \cup From(copy, i + 1) /\ a \notin From(copy, i + 1)
    <3>1. From(copy, i) = {a} \cup From(copy, i + 1)
      BY <2>1, FromStep DEF TypeOK
    <3>2. a \notin From(copy, i + 1)
      BY <2>1 DEF QueuedOnce, From, TypeOK
    <3> QED
      BY <3>1, <3>2
  <2>3. a \notin From(zombies_, 1)
    BY <2>2 DEF QueuedOnce
  <2>4. Pending = From(zombies_, 1) \cup From(copy, i)
    BY DEF Pending
  <2>5. Pending' = From(zombies_, 1) \cup From(copy, i + 1)
    BY DEF Pending, From
  <2>6. TypeOK'
    BY <2>1 DEF TypeOK, ThreadState
  <2>7. ObjectInv'
    <3>1. Pending' = Pending \ {a}
      BY <2>2, <2>3, <2>4, <2>5
    <3>2. a \notin conns_
      BY <2>1 DEF ManagerInv
    <3> QED
      BY <2>1, <3>1, <3>2 DEF ObjectInv, Leaving, TypeOK
  <2>8. ManagerInv'
    BY <2>1 DEF ManagerInv, ManagerRunning, ZombiesNotStranded, TypeOK
  <2>9. QueuedOnce'
    <3>1. From(zombies_, 1) \cap From(copy, i + 1) = {}
      BY <2>2 DEF QueuedOnce
    <3> QED
      BY <3>1 DEF QueuedOnce
  <2> QED
    BY <2>6, <2>7, <2>8, <2>9
<1>7. CASE ClearEnds
  <2> USE <1>7 DEF ClearEnds
  <2>1. From(copy, i) = {} /\ From(copy', 1) = {}
    BY FromEnd, FromEmpty DEF TypeOK
  <2>2. TypeOK'
    BY DEF TypeOK, ManagerState
  <2>3. Pending' = Pending
    BY <2>1 DEF Pending, From
  <2>4. ObjectInv'
    BY <2>3 DEF ObjectInv
  <2>5. ManagerInv'
    BY DEF ManagerInv, ManagerRunning, ZombiesNotStranded
  <2>6. QueuedOnce'
    BY <2>1 DEF QueuedOnce, From
  <2> QED
    BY <2>2, <2>4, <2>5, <2>6
<1> QED
  BY <1>1, <1>2, <1>3, <1>4, <1>5, <1>6, <1>7 DEF ManagerStep

(* Every step of the system keeps the invariant. *)
LEMMA NextInv == Inv /\ [Next]_vars => Inv'
<1> SUFFICES ASSUME Inv, [Next]_vars PROVE Inv'
  OBVIOUS
<1>1. CASE UNCHANGED vars
  <2> USE <1>1 DEF vars, connVars, mgrVars, Inv
  <2>1. TypeOK' /\ Pending' = Pending
    BY DEF TypeOK, Pending, From
  <2>2. ObjectInv'
    BY <2>1 DEF ObjectInv
  <2>3. ManagerInv' /\ QueuedOnce'
    BY DEF ManagerInv, QueuedOnce, ZombiesNotStranded, ManagerRunning, From
  <2> QED
    BY <2>1, <2>2, <2>3
<1>2. CASE Next
  BY <1>2, ListenerInv, ConnInv, ManagerStepInv DEF Next
<1> QED
  BY <1>1, <1>2

(***************************************************************************)
(* The invariant holds in every reachable state, for any number of         *)
(* connections, listeners and failures to create a coroutine.              *)
(***************************************************************************)
THEOREM Invariance == Spec => []Inv
BY InitInv, NextInv, PTL DEF Spec

(* The manager's vectors and the coroutines' states stay well typed. *)
THEOREM TypeCorrect == Spec => []TypeOK
<1>1. Inv => TypeOK
  BY DEF Inv
<1> QED
  BY <1>1, Invariance, PTL

(***************************************************************************)
(* SrsResourceManager deletes no object that anything still refers to, and *)
(* no coroutine runs in a deleted one.                                     *)
(***************************************************************************)
THEOREM NoUseAfterFreeHolds == Spec => []NoUseAfterFree
<1>1. Inv => NoUseAfterFree
  BY DEF Inv, ObjectInv, NoUseAfterFree
<1> QED
  BY <1>1, Invariance, PTL

(* No object is queued for deletion twice, so none is deleted twice. *)
THEOREM QueuedOnceHolds == Spec => []QueuedOnce
<1>1. Inv => QueuedOnce
  BY DEF Inv
<1> QED
  BY <1>1, Invariance, PTL

(***************************************************************************)
(* do_remove never mistakes a connection for an earlier one at the same    *)
(* address: what asked to be removed is queued until it is deleted.        *)
(***************************************************************************)
THEOREM NoLostRemoveHolds == Spec => []NoLostRemove
<1>1. Inv => NoLostRemove
  BY DEF Inv, ObjectInv, NoLostRemove
<1> QED
  BY <1>1, Invariance, PTL

(***************************************************************************)
(* The destructors called by do_clear find the connection's coroutine      *)
(* exited: the manager's coroutine is not switched away inside do_clear.   *)
(***************************************************************************)
THEOREM JoinNeverBlocksHolds == Spec => []JoinNeverBlocks
<1>1. Inv => JoinNeverBlocks
  <2> SUFFICES ASSUME Inv, mgr = "free", NEW a \in Pending PROVE trd[a] = "zombie"
    BY DEF JoinNeverBlocks
  <2>1. a \in Addr
    BY DEF Inv, TypeOK, Pending, From
  <2> QED
    BY <2>1 DEF Inv, ObjectInv, ManagerInv, ManagerRunning, Leaving
<1> QED
  BY <1>1, Invariance, PTL

(***************************************************************************)
(* The manager never waits for a signal while a connection is queued.      *)
(***************************************************************************)
THEOREM ZombiesNotStrandedHolds == Spec => []ZombiesNotStranded
<1>1. Inv => ZombiesNotStranded
  BY DEF Inv, ManagerInv
<1> QED
  BY <1>1, Invariance, PTL

-----------------------------------------------------------------------------
(* Refinement of the safety part of ResourcePool *)

(* Every step moves at most one address along its cycle. *)
LEMMA NextRefines == Inv /\ [Next]_vars => [Pool!Next]_slotView
<1> SUFFICES ASSUME Inv, [Next]_vars PROVE [Pool!Next]_slotView
  OBVIOUS
<1> USE DEF Inv, TypeOK, connVars
<1>1. ASSUME UNCHANGED <<heap, done>> PROVE UNCHANGED slotView
  BY <1>1 DEF slotView
<1>2. ASSUME NEW l \in Listeners, NEW a \in Addr, NEW ok \in BOOLEAN, accept_client(l, a, ok)
      PROVE  Pool!Open(a)
  BY <1>2 DEF accept_client, Pool!Open, slotView
<1>3. ASSUME NEW a \in Addr, on_conn_done(a) PROVE Pool!Close(a)
  <2>1. heap[a] = "used"
    BY <1>3 DEF on_conn_done, ObjectInv
  <2> QED
    BY <1>3, <2>1 DEF on_conn_done, Pool!Close, slotView
<1>4. ASSUME srs_freep PROVE Pool!Next
  <2>1. copy[i] \in Addr /\ copy[i] \in Pending
    BY <1>4 DEF srs_freep, Pending, From
  <2>2. heap[copy[i]] = "used" /\ done[copy[i]]
    BY <2>1 DEF ObjectInv
  <2>3. Pool!Reclaim(copy[i])
    BY <1>4, <2>1, <2>2 DEF srs_freep, Pool!Reclaim, slotView
  <2> QED
    BY <2>1, <2>3 DEF Pool!Next
<1>5. CASE UNCHANGED vars
  BY <1>1, <1>5 DEF vars
<1>6. ASSUME NEW l \in Listeners, ClientArrives(l) \/ AcceptBlocks(l) \/ ListenerExits(l)
      PROVE  UNCHANGED slotView
  BY <1>1, <1>6 DEF ClientArrives, AcceptBlocks, ListenerExits
<1>7. ASSUME NEW a \in Addr, ConnDispatch(a) \/ ConnBlocks(a) \/ ConnReady(a) \/ ConnExits(a)
      PROVE  UNCHANGED slotView
  BY <1>1, <1>7 DEF ConnDispatch, ConnBlocks, ConnReady, ConnExits
<1>8. CASE ManagerDispatch \/ ManagerWaits \/ ClearBegins \/ dispose \/ DisposeEnds \/ ClearEnds
  BY <1>1, <1>8 DEF ManagerDispatch, ManagerWaits, ClearBegins, dispose, DisposeEnds, ClearEnds
<1> QED
  BY <1>2, <1>3, <1>4, <1>5, <1>6, <1>7, <1>8 DEF Next, ConnStep, ManagerStep, Pool!Next

(***************************************************************************)
(* Listeners, connections and manager implement the safety part of         *)
(* ResourcePool: an address is handed out again only after the connection  *)
(* in it asked to be removed and was deleted.                              *)
(***************************************************************************)
THEOREM ConnLifecycleImplementsPool == Spec => Pool!Safety
<1>1. Init => Pool!Init
  BY DEF Init, Pool!Init, slotView
<1> QED
  BY <1>1, NextRefines, Invariance, PTL DEF Spec, Pool!Safety
=============================================================================
