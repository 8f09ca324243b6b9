--------------------------- MODULE ConnLifecycle ----------------------------
(***************************************************************************)
(* The life of a client connection: SrsTcpListener accepts it, SrsServer   *)
(* allocates a connection object, enqueues it in SrsResourceManager and    *)
(* starts its coroutine; the coroutine serves the client, asks the manager *)
(* to remove the object it is running in, and exits; the manager's own     *)
(* coroutine disposes of the object and frees it.                          *)
(*                                                                         *)
(* Addr is the set of addresses the allocator hands out, so that a freed   *)
(* object's address is reused by a later one.  State Threads switches only *)
(* in blocking calls: the state below says who holds the CPU (Running),    *)
(* and a coroutine keeps it until an action gives it up.                   *)
(***************************************************************************)
EXTENDS Naturals, Sequences

CONSTANTS
    Addr,               \* addresses of connection objects
    Listeners,          \* http api, https api and http proxy listeners
    MaxStartFailures    \* bound: how often a coroutine cannot be created

ASSUME StartFailuresAssumption == MaxStartFailures \in Nat

VARIABLES
    heap,           \* heap[a]: "free" or "used"
    trd,            \* trd[a]: state of the connection's coroutine
    done,           \* done[a]: the connection has called manager->remove
    lsn,            \* lsn[l]: state of the listener's coroutine
    startFailures,  \* connection coroutines that could not be created
    conns_,         \* the manager's resources
    zombies_,       \* removed, not yet taken by the manager's coroutine
    p_disposing_,   \* what check_remove finds through the pointer; {} is NULL
    copy,           \* do_clear's local vector
    i,              \* do_clear's loop counter
    mgr             \* where the manager's coroutine is

connVars == <<heap, trd, done>>
mgrVars  == <<conns_, zombies_, p_disposing_, copy, i, mgr>>
vars     == <<connVars, lsn, startFailures, mgrVars>>

ThreadState == {"none", "runnable", "running", "blocked", "zombie"}

(***************************************************************************)
(* "waiting" is srs_cond_wait in cycle(); "check" the loop on zombies_;    *)
(* "dispose" and "free" the two loops of do_clear.                         *)
(***************************************************************************)
ManagerState == {"runnable", "check", "dispose", "free", "waiting"}

(***************************************************************************)
(* The type invariant: addresses, states and vectors of addresses.         *)
(***************************************************************************)
TypeOK ==
    /\ heap \in [Addr -> {"free", "used"}]
    /\ trd \in [Addr -> ThreadState]
    /\ done \in [Addr -> BOOLEAN]
    /\ lsn \in [Listeners -> {"runnable", "blocked", "dead"}]
    /\ startFailures \in 0..MaxStartFailures
    /\ conns_ \in SUBSET Addr
    /\ zombies_ \in Seq(Addr)
    /\ p_disposing_ \in SUBSET Addr
    /\ copy \in Seq(Addr)
    /\ i \in Nat \ {0}
    /\ mgr \in ManagerState

(* SrsServer::listen has started the listeners and then the manager. *)
Init ==
    /\ heap = [a \in Addr |-> "free"]
    /\ trd = [a \in Addr |-> "none"]
    /\ done = [a \in Addr |-> FALSE]
    /\ lsn = [l \in Listeners |-> "runnable"]
    /\ startFailures = 0
    /\ conns_ = {} /\ zombies_ = <<>> /\ p_disposing_ = {}
    /\ copy = <<>> /\ i = 1
    /\ mgr = "runnable"

(* The elements of a vector, from position k on. *)
From(s, k) == {s[j] : j \in k..Len(s)}

ManagerRunning == mgr \in {"check", "dispose", "free"}

(* Nobody holds the CPU: the scheduler may pick a runnable coroutine. *)
CpuFree == ~ManagerRunning /\ \A a \in Addr : trd[a] # "running"

-----------------------------------------------------------------------------
(* The listeners: SrsTcpListener::cycle and SrsServer::accept_client. *)

(* A client connects, or accept() is about to fail. *)
ClientArrives(l) ==
    /\ lsn[l] = "blocked"
    /\ lsn' = [lsn EXCEPT ![l] = "runnable"]
    /\ UNCHANGED <<connVars, startFailures, mgrVars>>

(* No client yet: srs_accept blocks. *)
AcceptBlocks(l) ==
    /\ CpuFree /\ lsn[l] = "runnable"
    /\ lsn' = [lsn EXCEPT ![l] = "blocked"]
    /\ UNCHANGED <<connVars, startFailures, mgrVars>>

(***************************************************************************)
(* accept_client enqueues the resource, then starts it.  When the          *)
(* coroutine cannot be created the error is logged by on_tcp_client and    *)
(* the resource stays where it is.                                         *)
(***************************************************************************)
accept_client(l, a, ok) ==
    /\ CpuFree /\ lsn[l] = "runnable"
    /\ heap[a] = "free"
    /\ heap' = [heap EXCEPT ![a] = "used"]
    /\ conns_' = conns_ \cup {a}
    /\ done' = [done EXCEPT ![a] = FALSE]
    /\ IF ok THEN trd' = [trd EXCEPT ![a] = "runnable"] /\ UNCHANGED startFailures
             ELSE /\ startFailures < MaxStartFailures
                  /\ startFailures' = startFailures + 1
                  /\ UNCHANGED trd
    /\ UNCHANGED <<lsn, zombies_, p_disposing_, copy, i, mgr>>

(***************************************************************************)
(* accept() or fcntl() fails: cycle returns and the listener's coroutine   *)
(* is gone.  Nobody pulls it, so nothing restarts it.                      *)
(***************************************************************************)
ListenerExits(l) ==
    /\ CpuFree /\ lsn[l] = "runnable"
    /\ lsn' = [lsn EXCEPT ![l] = "dead"]
    /\ UNCHANGED <<connVars, startFailures, mgrVars>>

-----------------------------------------------------------------------------
(* The connections: SrsHttpConn::cycle and SrsHttpxProxyConn::cycle. *)

ConnDispatch(a) ==
    /\ CpuFree /\ trd[a] = "runnable"
    /\ trd' = [trd EXCEPT ![a] = "running"]
    /\ UNCHANGED <<heap, done, lsn, startFailures, mgrVars>>

(* A blocking call inside do_cycle. *)
ConnBlocks(a) ==
    /\ trd[a] = "running" /\ ~done[a]
    /\ trd' = [trd EXCEPT ![a] = "blocked"]
    /\ UNCHANGED <<heap, done, lsn, startFailures, mgrVars>>

(* What the connection waits for arrives, or the wait times out. *)
ConnReady(a) ==
    /\ trd[a] = "blocked"
    /\ trd' = [trd EXCEPT ![a] = "runnable"]
    /\ UNCHANGED <<heap, done, lsn, startFailures, mgrVars>>

check_remove(a) == a \in From(zombies_, 1) \/ a \in p_disposing_

(* Mutant: the manager is not told. *)
Bug_NoSignal == UNCHANGED mgr

(* Waking the manager is lost on a manager that is not waiting. *)
srs_cond_signal == mgr' = IF mgr = "waiting" THEN "runnable" ELSE mgr

do_remove(a) ==
    IF check_remove(a)
    THEN UNCHANGED <<zombies_, mgr>>
    ELSE zombies_' = Append(zombies_, a) /\ srs_cond_signal

(* Mutant: a blocking call between remove() and the end of cycle. *)
Bug_BlocksAfterRemove(a) ==
    /\ trd[a] = "running" /\ ~done[a]
    /\ done' = [done EXCEPT ![a] = TRUE]
    /\ do_remove(a)
    /\ trd' = [trd EXCEPT ![a] = "blocked"]
    /\ UNCHANGED <<heap, lsn, startFailures, conns_, p_disposing_, copy, i>>

(* do_cycle has returned: on_conn_done hands the running object over. *)
on_conn_done(a) ==
    /\ trd[a] = "running" /\ ~done[a]
    /\ done' = [done EXCEPT ![a] = TRUE]
    /\ do_remove(a)
    /\ UNCHANGED <<heap, trd, lsn, startFailures, conns_, p_disposing_, copy, i>>

(* The rest of cycle, still inside the object, then st_thread_exit. *)
ConnExits(a) ==
    /\ trd[a] = "running" /\ done[a]
    /\ trd' = [trd EXCEPT ![a] = "zombie"]
    /\ UNCHANGED <<heap, done, lsn, startFailures, mgrVars>>

-----------------------------------------------------------------------------
(* The manager's coroutine: SrsResourceManager::cycle, clear and do_clear. *)

ManagerDispatch ==
    /\ CpuFree /\ mgr = "runnable"
    /\ mgr' = "check"
    /\ UNCHANGED <<connVars, lsn, startFailures, conns_, zombies_, p_disposing_, copy, i>>

(* Mutants of the head of do_clear: zombies_ copied, not swapped; i from 0. *)
Bug_CopyNotSwap ==
    /\ mgr = "check" /\ zombies_ # <<>>
    /\ copy' = zombies_ /\ p_disposing_' = From(zombies_, 1)
    /\ i' = 1 /\ mgr' = "dispose"
    /\ UNCHANGED <<connVars, lsn, startFailures, conns_, zombies_>>

(* do_clear takes all zombies at once. *)
ClearBegins ==
    /\ mgr = "check" /\ zombies_ # <<>>
    /\ copy' = zombies_ /\ zombies_' = <<>>
    /\ p_disposing_' = From(zombies_, 1)
    /\ i' = 1 /\ mgr' = "dispose"
    /\ UNCHANGED <<connVars, lsn, startFailures, conns_>>

(* Mutant: the resource is not erased from conns_. *)
Bug_DisposeKeeps ==
    /\ mgr = "dispose" /\ i <= Len(copy)
    /\ i' = i + 1
    /\ UNCHANGED <<connVars, lsn, startFailures, conns_, zombies_, p_disposing_, copy, mgr>>

(* One resource leaves the manager's list. *)
dispose ==
    /\ mgr = "dispose" /\ i <= Len(copy)
    /\ conns_' = conns_ \ {copy[i]}
    /\ i' = i + 1
    /\ UNCHANGED <<connVars, lsn, startFailures, zombies_, p_disposing_, copy, mgr>>

(* Mutant: the pointer to the local vector is left behind. *)
Bug_DisposingNotReset ==
    /\ mgr = "dispose" /\ i > Len(copy)
    /\ i' = 1 /\ mgr' = "free"
    /\ UNCHANGED <<connVars, lsn, startFailures, conns_, zombies_, p_disposing_, copy>>

(* All are disposed of; the pointer to the local vector is reset. *)
DisposeEnds ==
    /\ mgr = "dispose" /\ i > Len(copy)
    /\ p_disposing_' = {}
    /\ i' = 1 /\ mgr' = "free"
    /\ UNCHANGED <<connVars, lsn, startFailures, conns_, zombies_, copy>>

(***************************************************************************)
(* The destructor stops and joins the connection's coroutine; the join     *)
(* returns at once because the coroutine is a zombie (JoinNeverBlocks).    *)
(***************************************************************************)
srs_freep ==
    /\ mgr = "free" /\ i <= Len(copy)
    /\ trd[copy[i]] = "zombie"
    /\ trd' = [trd EXCEPT ![copy[i]] = "none"]
    /\ heap' = [heap EXCEPT ![copy[i]] = "free"]
    /\ i' = i + 1
    /\ UNCHANGED <<done, lsn, startFailures, conns_, zombies_, p_disposing_, copy, mgr>>

(* Mutant: the loop that frees ends one element early. *)
Bug_FreesAllButLast ==
    /\ mgr = "free" /\ i >= Len(copy)
    /\ copy' = <<>> /\ i' = 1 /\ mgr' = "check"
    /\ UNCHANGED <<connVars, lsn, startFailures, conns_, zombies_, p_disposing_>>

(* do_clear returns to the loop of cycle. *)
ClearEnds ==
    /\ mgr = "free" /\ i > Len(copy)
    /\ copy' = <<>> /\ i' = 1 /\ mgr' = "check"
    /\ UNCHANGED <<connVars, lsn, startFailures, conns_, zombies_, p_disposing_>>

ManagerWaits ==
    /\ mgr = "check" /\ zombies_ = <<>>
    /\ mgr' = "waiting"
    /\ UNCHANGED <<connVars, lsn, startFailures, conns_, zombies_, p_disposing_, copy, i>>

ManagerStep ==
    \/ ManagerDispatch \/ ManagerWaits
    \/ ClearBegins \/ dispose \/ DisposeEnds \/ srs_freep \/ ClearEnds

(* What a connection's coroutine does without waiting for the outside. *)
ConnStep(a) == ConnDispatch(a) \/ ConnBlocks(a) \/ on_conn_done(a) \/ ConnExits(a)

Next ==
    \/ \E l \in Listeners :
          \/ ClientArrives(l) \/ AcceptBlocks(l) \/ ListenerExits(l)
          \/ \E a \in Addr, ok \in BOOLEAN : accept_client(l, a, ok)
    \/ \E a \in Addr : ConnStep(a) \/ ConnReady(a)
    \/ ManagerStep

(***************************************************************************)
(* Runnable coroutines are on a FIFO run queue, and a coroutine that holds *)
(* the CPU goes on.  Strong fairness for the dispatches: the CPU is taken  *)
(* and given up again and again by others.  Nothing is assumed of clients. *)
(***************************************************************************)
Fairness ==
    /\ WF_vars(ManagerStep) /\ SF_vars(ManagerDispatch)
    /\ \A a \in Addr : WF_vars(ConnStep(a)) /\ SF_vars(ConnDispatch(a))

Spec == Init /\ [][Next]_vars /\ Fairness

-----------------------------------------------------------------------------
(* Properties *)

(* What the manager still has to free: new zombies and the rest of copy. *)
Pending == From(zombies_, 1) \cup From(copy, IF mgr = "free" THEN i ELSE 1)

(***************************************************************************)
(* No use after free: nothing of the manager or the scheduler refers to an *)
(* address whose object has been deleted, in particular no coroutine still *)
(* runs in it and no entry of conns_, zombies_ or do_clear's copy names it.*)
(***************************************************************************)
NoUseAfterFree ==
    \A a \in Addr : heap[a] = "free" =>
        trd[a] = "none" /\ a \notin conns_ /\ a \notin Pending

(***************************************************************************)
(* No double free: a connection is queued for deletion at most once, over  *)
(* zombies_ and do_clear's copy together.                                  *)
(***************************************************************************)
QueuedOnce ==
    /\ \A j, k \in 1..Len(zombies_) : zombies_[j] = zombies_[k] => j = k
    /\ \A j, k \in 1..Len(copy) : copy[j] = copy[k] => j = k
    /\ From(zombies_, 1) \cap From(copy, IF mgr = "free" THEN i ELSE 1) = {}

(***************************************************************************)
(* "We must set the disposing to NULL to avoid reusing address": a removal *)
(* is never taken for one of an earlier object at the same address, so     *)
(* every connection that asked to be removed is queued until it is freed.  *)
(***************************************************************************)
NoLostRemove ==
    \A a \in Addr : heap[a] = "used" /\ done[a] => a \in Pending

(***************************************************************************)
(* A connection deletes itself through the manager while it is still       *)
(* running.  By the time the manager's destructor call joins it, it has    *)
(* exited: the manager never blocks in do_clear, so that nobody runs       *)
(* between the disposal of a resource and its deletion.                    *)
(***************************************************************************)
JoinNeverBlocks ==
    mgr = "free" => \A a \in Pending : trd[a] = "zombie"

(***************************************************************************)
(* "we may switch context and lost signal": the manager never goes to wait *)
(* for a signal that was sent before it waited.                            *)
(***************************************************************************)
ZombiesNotStranded == mgr = "waiting" => zombies_ = <<>>

(* What an address holds, as ResourcePool sees it. *)
slotView == [a \in Addr |-> IF heap[a] = "free" THEN "free"
                            ELSE IF done[a] THEN "closing" ELSE "open"]

Pool == INSTANCE ResourcePool WITH slot <- slotView

(***************************************************************************)
(* Listeners, connections and manager together implement ResourcePool: an  *)
(* object is deleted only after it asked for it, and is deleted then,      *)
(* whatever the clients do.                                                *)
(***************************************************************************)
ImplementsPool == Pool!Spec
=============================================================================
