--------------------------- MODULE ServiceProofs ----------------------------
(***************************************************************************)
(* Theorems about Startup and Service: any number of processes, started    *)
(* with any configurations, killed at any moment, and the answers of an    *)
(* API connection to any number of requests.                               *)
(***************************************************************************)
EXTENDS Service, ApiConnProofs, TLAPS

-----------------------------------------------------------------------------
(* The inductive invariant *)

Process ==
    [conf: Confs, main: {"down", "pid", "execute", "run"},
     hybrid: {None, "thread", "initialize", "HttpApi", "HttpsApi", "HttpProxy", "manager", "handle",
              "start", "run", "wait", "ended"},
     reuse_api_over_server_: BOOLEAN, listener: [Listeners -> {None, "accepting", "deaf"}],
     backlog: [Listeners -> Nat], conn_manager: BOOLEAN, http_api_mux: SUBSET Patterns,
     trd_: BOOLEAN, nn_: Nat, failed: SUBSET Listeners]

(* What the processes and the locks are. *)
StartTypeOK == proc \in [Procs -> Process] /\ pid_lock \in [PidFiles -> Procs \cup {None}]

(***************************************************************************)
(* Past acquire_pid_file a process has the lock of its own pid file; only  *)
(* then does it have a hybrid thread, and only that thread binds sockets.  *)
(***************************************************************************)
LockHeld(p) ==
    /\ proc[p].main \in {"execute", "run"} => pid_lock[Files[proc[p].conf].pid_file] = p
    /\ proc[p].hybrid # None => proc[p].main = "run"
    /\ Bound(p) => proc[p].hybrid # None

(***************************************************************************)
(* What the main coroutine has done by the stage it is at, and what keeps  *)
(* it from coming back from the wait group.                                *)
(***************************************************************************)
Whole_(p) ==
    /\ proc[p].hybrid \in {"handle", "start", "run", "wait"} => proc[p].conn_manager
    /\ proc[p].hybrid \in {"start", "run", "wait"} =>
          proc[p].http_api_mux = Patterns \/ proc[p].reuse_api_over_server_
    /\ proc[p].hybrid = "run" => proc[p].nn_ > 0
    /\ proc[p].trd_ => proc[p].hybrid \in {"run", "wait"}

StartInv == StartTypeOK /\ \A p \in Procs : LockHeld(p) /\ Whole_(p)

-----------------------------------------------------------------------------
(* Processes that are not there *)

(* A process that is down has nothing. *)
LEMMA DownFacts ==
    ASSUME NEW c \in Confs
    PROVE  /\ Down(c) \in Process
           /\ Down(c).conf = c /\ Down(c).main = "down" /\ Down(c).hybrid = None
           /\ ~Down(c).trd_ /\ \A t \in Listeners : Down(c).listener[t] = None
BY DEF Down, Process, Patterns

LEMMA StartInitInv == StartInit => StartInv
<1> SUFFICES ASSUME StartInit PROVE StartInv
  OBVIOUS
<1> DEFINE c == CHOOSE x \in Confs : TRUE
<1>1. c \in Confs
  BY FilesAssumption DEF Confs
<1>2. \A p \in Procs : proc[p] = Down(c)
  BY DEF StartInit
<1>3. StartTypeOK
  BY <1>1, DownFacts DEF StartInit, StartTypeOK
<1> HIDE DEF c
<1>4. ASSUME NEW p \in Procs PROVE LockHeld(p) /\ Whole_(p)
  BY <1>1, <1>2, DownFacts DEF LockHeld, Whole_, Bound, None
<1> QED
  BY <1>3, <1>4 DEF StartInv

(* A step that changes one process only, to one that is in order. *)
LEMMA OneProcess ==
    ASSUME StartInv, NEW p \in Procs, NEW new \in Process,
           proc' = [proc EXCEPT ![p] = new], pid_lock' = pid_lock,
           LockHeld(p)', Whole_(p)'
    PROVE  StartInv'
<1>1. StartTypeOK'
  BY DEF StartInv, StartTypeOK
<1>2. ASSUME NEW q \in Procs, q # p PROVE LockHeld(q)' /\ Whole_(q)'
  <2>1. proc'[q] = proc[q] /\ LockHeld(q) /\ Whole_(q)
    BY <1>2 DEF StartInv, StartTypeOK
  <2> QED
    BY <2>1 DEF LockHeld, Whole_, Bound
<1> QED
  BY <1>1, <1>2 DEF StartInv

(* The end of a process releases its own locks and no others. *)
LEMMA GoneInv == ASSUME StartInv, NEW p \in Procs, Gone(p) PROVE StartInv'
<1> DEFINE new == Down(proc[p].conf)
<1>1. proc[p].conf \in Confs
  BY DEF StartInv, StartTypeOK, Process
<1>2. new \in Process /\ new.main = "down" /\ new.hybrid = None
      /\ ~new.trd_ /\ \A t \in Listeners : new.listener[t] = None
  BY <1>1, DownFacts
<1>3. proc' = [proc EXCEPT ![p] = new]
  BY DEF Gone
<1> HIDE DEF new
<1>4. StartTypeOK'
  BY <1>2, <1>3 DEF StartInv, StartTypeOK, Gone
<1>5. LockHeld(p)' /\ Whole_(p)'
  <2>1. proc'[p] = new
    BY <1>3 DEF StartInv, StartTypeOK
  <2> QED
    BY <1>2, <2>1 DEF LockHeld, Whole_, Bound, None
<1>6. ASSUME NEW q \in Procs, q # p PROVE LockHeld(q)' /\ Whole_(q)'
  <2>1. proc'[q] = proc[q] /\ LockHeld(q) /\ Whole_(q)
    BY <1>3, <1>6 DEF StartInv, StartTypeOK
  <2>2. Files[proc[q].conf].pid_file \in PidFiles
    BY DEF StartInv, StartTypeOK, Process, PidFiles
  <2> QED
    BY <1>6, <2>1, <2>2 DEF LockHeld, Whole_, Bound, Gone
<1> QED
  BY <1>4, <1>5, <1>6 DEF StartInv

-----------------------------------------------------------------------------
(* The primordial thread *)

LEMMA MainInv ==
    ASSUME StartInv, NEW p \in Procs, do_main(p) \/ acquire_pid_file(p) \/ execute(p) \/ Killed(p)
    PROVE  StartInv'
<1>1. proc[p] \in Process /\ LockHeld(p) /\ Whole_(p)
  BY DEF StartInv, StartTypeOK
<1>2. CASE do_main(p)
  <2>1. PICK c \in Confs : proc' = [proc EXCEPT ![p] = [Down(c) EXCEPT !.main = "pid"]]
    BY <1>2 DEF do_main
  <2> DEFINE new == [Down(c) EXCEPT !.main = "pid"]
  <2>2. new \in Process /\ new.main = "pid" /\ new.hybrid = None
        /\ ~new.trd_ /\ \A t \in Listeners : new.listener[t] = None
    BY DEF Down, Process, Patterns
  <2>3. proc' = [proc EXCEPT ![p] = new] /\ pid_lock' = pid_lock
    BY <1>2, <2>1 DEF do_main
  <2> HIDE DEF new
  <2>4. proc'[p] = new
    BY <2>3 DEF StartInv, StartTypeOK
  <2>5. LockHeld(p)' /\ Whole_(p)'
    BY <2>2, <2>4 DEF LockHeld, Whole_, Bound, None
  <2> QED
    BY <2>2, <2>3, <2>5, OneProcess
<1>3. CASE acquire_pid_file(p) /\ ~Gone(p)
  <2> DEFINE f == Files[proc[p].conf].pid_file
             new == [proc[p] EXCEPT !.main = "execute"]
  <2>1. /\ proc[p].main = "pid" /\ pid_lock[f] = None
        /\ pid_lock' = [pid_lock EXCEPT ![f] = p] /\ proc' = [proc EXCEPT ![p] = new]
    BY <1>3 DEF acquire_pid_file
  <2>2. /\ new \in Process /\ new.main = "execute" /\ new.conf = proc[p].conf /\ new.hybrid = proc[p].hybrid
        /\ new.trd_ = proc[p].trd_ /\ new.listener = proc[p].listener
    BY <1>1 DEF Process
  <2>3. f \in PidFiles
    BY <1>1 DEF Process, PidFiles
  <2> HIDE DEF new
  <2>4. StartTypeOK'
    BY <2>1, <2>2, <2>3 DEF StartInv, StartTypeOK
  <2>5. proc'[p] = new
    BY <2>1 DEF StartInv, StartTypeOK
  <2>6. proc[p].hybrid = None /\ ~Bound(p) /\ ~proc[p].trd_
    BY <1>1, <2>1 DEF LockHeld, Whole_, None
  <2>7. LockHeld(p)' /\ Whole_(p)'
    <3>1. pid_lock'[f] = p
      BY <2>1, <2>3 DEF StartInv, StartTypeOK
    <3> QED
      BY <2>2, <2>5, <2>6, <3>1 DEF LockHeld, Whole_, Bound, None
  <2>8. ASSUME NEW q \in Procs, q # p PROVE LockHeld(q)' /\ Whole_(q)'
    <3>1. proc'[q] = proc[q] /\ LockHeld(q) /\ Whole_(q)
      BY <2>1, <2>8 DEF StartInv, StartTypeOK
    <3>2. \A g \in PidFiles : pid_lock[g] = q => pid_lock'[g] = q
      BY <2>1, ProcsAssumption DEF StartInv, StartTypeOK
    <3>3. Files[proc[q].conf].pid_file \in PidFiles
      BY DEF StartInv, StartTypeOK, Process, PidFiles
    <3> QED
      BY <3>1, <3>2, <3>3 DEF LockHeld, Whole_, Bound
  <2> QED
    BY <2>4, <2>7, <2>8 DEF StartInv
<1>4. CASE execute(p) /\ ~Gone(p)
  <2> DEFINE new == [proc[p] EXCEPT !.main = "run", !.hybrid = "thread"]
  <2>1. proc[p].main = "execute" /\ proc' = [proc EXCEPT ![p] = new] /\ pid_lock' = pid_lock
    BY <1>1, <1>4 DEF execute, StartInv, StartTypeOK
  <2>2. /\ new \in Process /\ new.main = "run" /\ new.hybrid = "thread" /\ new.conf = proc[p].conf
        /\ new.trd_ = proc[p].trd_
    BY <1>1 DEF Process
  <2> HIDE DEF new
  <2>3. proc'[p] = new
    BY <2>1 DEF StartInv, StartTypeOK
  <2>4. ~proc[p].trd_
    BY <1>1, <2>1 DEF LockHeld, Whole_, None
  <2>5. LockHeld(p)' /\ Whole_(p)'
    BY <1>1, <2>1, <2>2, <2>3, <2>4 DEF LockHeld, Whole_, None
  <2> QED
    BY <2>1, <2>2, <2>5, OneProcess
<1>5. CASE Gone(p)
  BY <1>5, GoneInv
<1> QED
  BY <1>2, <1>3, <1>4, <1>5 DEF Killed

-----------------------------------------------------------------------------
(* The hybrid thread *)

(***************************************************************************)
(* A step of the hybrid thread of p: it goes on from a stage it is at, and *)
(* neither the other processes nor the locks are touched.                  *)
(***************************************************************************)
LEMMA ThreadInv ==
    ASSUME StartInv, NEW p \in Procs, NEW new \in Process,
           proc' = [proc EXCEPT ![p] = new], pid_lock' = pid_lock,
           proc[p].hybrid # None, new.hybrid # None,
           new.conf = proc[p].conf, new.main = proc[p].main,
           /\ new.hybrid \in {"handle", "start", "run", "wait"} => new.conn_manager
           /\ new.hybrid \in {"start", "run", "wait"} =>
                 new.http_api_mux = Patterns \/ new.reuse_api_over_server_
           /\ new.hybrid = "run" => new.nn_ > 0
           /\ new.trd_ => new.hybrid \in {"run", "wait"}
    PROVE  StartInv'
<1>1. proc'[p] = new /\ LockHeld(p)
  BY DEF StartInv, StartTypeOK
<1>2. LockHeld(p)' /\ Whole_(p)'
  BY <1>1 DEF LockHeld, Whole_
<1> QED
  BY <1>2, OneProcess

(* The calls of the main coroutine up to its first yield. *)
LEMMA CallsInv ==
    ASSUME StartInv, NEW p \in Procs,
           \/ start(p) \/ initialize(p) \/ (\E t \in Listeners : listen(p, t))
           \/ manager_start(p) \/ http_handle(p) \/ server_start(p) \/ wait(p)
    PROVE  StartInv'
<1>1. proc[p] \in Process /\ LockHeld(p) /\ Whole_(p)
  BY DEF StartInv, StartTypeOK
<1>2. CASE start(p)
  <2> DEFINE new == [proc[p] EXCEPT !.hybrid = "initialize"]
  <2>1. proc[p].hybrid = "thread" /\ proc' = [proc EXCEPT ![p] = new] /\ pid_lock' = pid_lock
    BY <1>2 DEF start, Call
  <2>2. /\ new \in Process /\ new.hybrid = "initialize" /\ new.conf = proc[p].conf /\ new.main = proc[p].main
        /\ new.trd_ = proc[p].trd_
    BY <1>1 DEF Process
  <2> QED
    BY <1>1, <2>1, <2>2, ThreadInv DEF Whole_, None
<1>3. CASE initialize(p)
  <2> DEFINE new == [proc[p] EXCEPT !.hybrid = "HttpApi", !.reuse_api_over_server_ = Reuse[proc[p].conf]]
  <2>1. proc[p].hybrid = "initialize" /\ proc' = [proc EXCEPT ![p] = new] /\ pid_lock' = pid_lock
    BY <1>3 DEF initialize, Call
  <2>2. \A c \in Confs : Reuse[c] \in BOOLEAN
    BY DEF Reuse
  <2>3. /\ new \in Process /\ new.hybrid = "HttpApi" /\ new.conf = proc[p].conf /\ new.main = proc[p].main
        /\ new.trd_ = proc[p].trd_
    BY <1>1, <2>2 DEF Process
  <2> QED
    BY <1>1, <2>1, <2>3, ThreadInv DEF Whole_, None
<1>4. ASSUME NEW t \in Listeners, listen(p, t) PROVE StartInv'
  <2> DEFINE new == [proc[p] EXCEPT !.hybrid = After_(t),
                                    !.listener[t] = IF Wanted(p, t) THEN "accepting" ELSE @]
  <2>1. proc[p].hybrid = t /\ proc' = [proc EXCEPT ![p] = new] /\ pid_lock' = pid_lock
    BY <1>4 DEF listen, Call
  <2>2. t \in {"HttpApi", "HttpsApi", "HttpProxy"} /\ After_(t) \in {"HttpsApi", "HttpProxy", "manager"}
    BY DEF Listeners, After_
  <2>3. /\ new \in Process /\ new.hybrid = After_(t) /\ new.conf = proc[p].conf /\ new.main = proc[p].main
        /\ new.trd_ = proc[p].trd_
    BY <1>1, <2>2 DEF Process
  <2> QED
    BY <1>1, <2>1, <2>2, <2>3, ThreadInv DEF Whole_, None
<1>5. CASE manager_start(p)
  <2> DEFINE new == [proc[p] EXCEPT !.hybrid = "handle", !.conn_manager = TRUE]
  <2>1. proc[p].hybrid = "manager" /\ proc' = [proc EXCEPT ![p] = new] /\ pid_lock' = pid_lock
    BY <1>5 DEF manager_start, Call
  <2>2. /\ new \in Process /\ new.hybrid = "handle" /\ new.conf = proc[p].conf /\ new.main = proc[p].main
        /\ new.trd_ = proc[p].trd_ /\ new.conn_manager
    BY <1>1 DEF Process
  <2> QED
    BY <1>1, <2>1, <2>2, ThreadInv DEF Whole_, None
<1>6. CASE http_handle(p)
  <2> DEFINE new == [proc[p] EXCEPT !.hybrid = "start",
                                    !.http_api_mux = IF proc[p].reuse_api_over_server_ THEN {} ELSE Patterns]
  <2>1. proc[p].hybrid = "handle" /\ proc' = [proc EXCEPT ![p] = new] /\ pid_lock' = pid_lock
    BY <1>6 DEF http_handle, Call
  <2>2. /\ new \in Process /\ new.hybrid = "start" /\ new.conf = proc[p].conf /\ new.main = proc[p].main
        /\ new.trd_ = proc[p].trd_ /\ new.conn_manager = proc[p].conn_manager
        /\ (new.http_api_mux = Patterns \/ new.reuse_api_over_server_)
    BY <1>1 DEF Process
  <2> QED
    BY <1>1, <2>1, <2>2, ThreadInv DEF Whole_, None
<1>7. CASE server_start(p)
  <2>1. PICK m \in Nat : m = proc[p].nn_ + 1 /\ m > 0
    <3>1. proc[p].nn_ \in Nat
      BY <1>1 DEF Process
    <3> QED
      BY <3>1
  <2> DEFINE new == [proc[p] EXCEPT !.hybrid = "run", !.trd_ = TRUE, !.nn_ = m]
  <2>2. proc[p].hybrid = "start" /\ proc' = [proc EXCEPT ![p] = new] /\ pid_lock' = pid_lock
    BY <1>7, <2>1 DEF server_start, Call
  <2>3. /\ new \in Process /\ new.hybrid = "run" /\ new.conf = proc[p].conf /\ new.main = proc[p].main
        /\ new.conn_manager = proc[p].conn_manager /\ new.http_api_mux = proc[p].http_api_mux
        /\ new.reuse_api_over_server_ = proc[p].reuse_api_over_server_ /\ new.nn_ = m
    BY <1>1 DEF Process
  <2> QED
    BY <1>1, <2>1, <2>2, <2>3, ThreadInv DEF Whole_, None
<1>8. CASE wait(p)
  <2> DEFINE new == [proc[p] EXCEPT !.hybrid = IF proc[p].nn_ > 0 THEN "wait" ELSE "ended"]
  <2>1. proc[p].hybrid = "run" /\ proc' = [proc EXCEPT ![p] = new] /\ pid_lock' = pid_lock
    BY <1>8 DEF wait, Call
  <2>2. proc[p].nn_ > 0
    BY <1>1, <2>1 DEF Whole_
  <2>3. /\ new \in Process /\ new.hybrid = "wait" /\ new.conf = proc[p].conf /\ new.main = proc[p].main
        /\ new.conn_manager = proc[p].conn_manager /\ new.http_api_mux = proc[p].http_api_mux
        /\ new.reuse_api_over_server_ = proc[p].reuse_api_over_server_
    BY <1>1, <2>2 DEF Process
  <2> QED
    BY <1>1, <2>1, <2>3, ThreadInv DEF Whole_, None
<1> QED
  BY <1>2, <1>3, <1>4, <1>5, <1>6, <1>7, <1>8

(* A call that fails ends the thread before its coroutine of the server is started. *)
LEMMA FailsInv == ASSUME StartInv, NEW p \in Procs, Fails(p) PROVE StartInv'
<1>1. proc[p] \in Process /\ LockHeld(p) /\ Whole_(p)
  BY DEF StartInv, StartTypeOK
<1>2. PICK new \in Process :
        /\ proc' = [proc EXCEPT ![p] = new] /\ pid_lock' = pid_lock
        /\ new.hybrid = "ended" /\ new.conf = proc[p].conf /\ new.main = proc[p].main
        /\ new.trd_ = proc[p].trd_
        /\ proc[p].hybrid \in {"thread", "initialize", "manager", "start"} \cup Listeners
  <2>1. CASE /\ proc[p].hybrid \in {"thread", "initialize", "manager", "start"}
             /\ proc' = [proc EXCEPT ![p].hybrid = "ended"]
    <3> DEFINE n == [proc[p] EXCEPT !.hybrid = "ended"]
    <3>1. /\ n \in Process /\ n.hybrid = "ended" /\ n.conf = proc[p].conf /\ n.main = proc[p].main
          /\ n.trd_ = proc[p].trd_
      BY <1>1 DEF Process
    <3>2. proc' = [proc EXCEPT ![p] = n] /\ pid_lock' = pid_lock
      BY <2>1 DEF Fails
    <3> QED
      BY <2>1, <3>1, <3>2
  <2>2. CASE \E t \in Listeners, l \in {None, "deaf"} :
                /\ proc[p].hybrid = t
                /\ proc' = [proc EXCEPT ![p].hybrid = "ended", ![p].listener[t] = l]
    <3>1. PICK t \in Listeners, l \in {None, "deaf"} :
                /\ proc[p].hybrid = t
                /\ proc' = [proc EXCEPT ![p].hybrid = "ended", ![p].listener[t] = l]
      BY <2>2
    <3> DEFINE n == [proc[p] EXCEPT !.hybrid = "ended", !.listener[t] = l]
    <3>2. /\ n \in Process /\ n.hybrid = "ended" /\ n.conf = proc[p].conf /\ n.main = proc[p].main
          /\ n.trd_ = proc[p].trd_
      BY <1>1 DEF Process
    <3>3. proc' = [proc EXCEPT ![p] = n] /\ pid_lock' = pid_lock
      BY <3>1 DEF Fails, StartInv, StartTypeOK
    <3> QED
      BY <3>1, <3>2, <3>3
  <2> QED
    BY <2>1, <2>2 DEF Fails
<1>3. ~new.trd_
  BY <1>1, <1>2 DEF Whole_, Listeners
<1> QED
  BY <1>1, <1>2, <1>3, ThreadInv DEF Listeners, None

-----------------------------------------------------------------------------
(* Clients *)

LEMMA ClientsInv ==
    ASSUME StartInv, NEW p \in Procs, NEW t \in Listeners,
           Connect(p, t) \/ Accept(p, t) \/ AcceptFails(p, t)
    PROVE  StartInv'
<1>1. proc[p] \in Process /\ LockHeld(p) /\ Whole_(p)
  BY DEF StartInv, StartTypeOK
<1>2. PICK new \in Process :
        /\ proc' = [proc EXCEPT ![p] = new] /\ pid_lock' = pid_lock
        /\ new.hybrid = proc[p].hybrid /\ new.conf = proc[p].conf /\ new.main = proc[p].main
        /\ new.trd_ = proc[p].trd_ /\ new.conn_manager = proc[p].conn_manager /\ new.nn_ = proc[p].nn_
        /\ new.http_api_mux = proc[p].http_api_mux
        /\ new.reuse_api_over_server_ = proc[p].reuse_api_over_server_
  <2>1. proc[p].backlog[t] \in Nat /\ proc[p].backlog[t] + 1 \in Nat
        /\ (proc[p].backlog[t] > 0 => proc[p].backlog[t] - 1 \in Nat)
    <3>1. proc[p].backlog \in [Listeners -> Nat]
      BY <1>1 DEF Process
    <3> QED
      BY <3>1
  <2>2. ASSUME NEW m \in Nat, proc' = [proc EXCEPT ![p].backlog[t] = m], pid_lock' = pid_lock
        PROVE  \E new \in Process :
                  /\ proc' = [proc EXCEPT ![p] = new] /\ pid_lock' = pid_lock
                  /\ new.hybrid = proc[p].hybrid /\ new.conf = proc[p].conf /\ new.main = proc[p].main
                  /\ new.trd_ = proc[p].trd_ /\ new.conn_manager = proc[p].conn_manager
                  /\ new.nn_ = proc[p].nn_ /\ new.http_api_mux = proc[p].http_api_mux
                  /\ new.reuse_api_over_server_ = proc[p].reuse_api_over_server_
    <3> DEFINE n == [proc[p] EXCEPT !.backlog[t] = m]
    <3>1. /\ n \in Process /\ n.hybrid = proc[p].hybrid /\ n.conf = proc[p].conf /\ n.main = proc[p].main
          /\ n.trd_ = proc[p].trd_ /\ n.conn_manager = proc[p].conn_manager
          /\ n.nn_ = proc[p].nn_ /\ n.http_api_mux = proc[p].http_api_mux
          /\ n.reuse_api_over_server_ = proc[p].reuse_api_over_server_
      BY <1>1 DEF Process
    <3>2. proc' = [proc EXCEPT ![p] = n]
      BY <2>2
    <3> QED
      BY <2>2, <3>1, <3>2
  <2>3. CASE Connect(p, t)
    <3>1. proc' = [proc EXCEPT ![p].backlog[t] = proc[p].backlog[t] + 1] /\ pid_lock' = pid_lock
      BY <2>3 DEF Connect
    <3> QED
      BY <2>1, <2>2, <3>1
  <2>4. CASE Accept(p, t)
    <3>1. proc' = [proc EXCEPT ![p].backlog[t] = proc[p].backlog[t] - 1] /\ pid_lock' = pid_lock
          /\ proc[p].backlog[t] > 0
      BY <2>4 DEF Accept, on_tcp_client, CanAccept
    <3> QED
      BY <2>1, <2>2, <3>1
  <2>5. CASE AcceptFails(p, t)
    <3> DEFINE n == [proc[p] EXCEPT !.listener[t] = "deaf", !.failed = @ \union {t}]
    <3>1. /\ n \in Process /\ n.hybrid = proc[p].hybrid /\ n.conf = proc[p].conf /\ n.main = proc[p].main
          /\ n.trd_ = proc[p].trd_ /\ n.conn_manager = proc[p].conn_manager
          /\ n.nn_ = proc[p].nn_ /\ n.http_api_mux = proc[p].http_api_mux
          /\ n.reuse_api_over_server_ = proc[p].reuse_api_over_server_
      BY <1>1 DEF Process
    <3>2. proc' = [proc EXCEPT ![p] = n] /\ pid_lock' = pid_lock
      BY <2>5 DEF AcceptFails, StartInv, StartTypeOK
    <3> QED
      BY <3>1, <3>2
  <2> QED
    BY <2>3, <2>4, <2>5
<1>3. proc[p].hybrid # None
  <2>1. CASE Connect(p, t)
    BY <1>1, <2>1 DEF Connect, LockHeld, Bound
  <2>2. CASE Accept(p, t) \/ AcceptFails(p, t)
    BY <2>2 DEF Accept, AcceptFails, CanAccept, MayRun, None
  <2> QED
    BY <2>1, <2>2
<1> QED
  BY <1>1, <1>2, <1>3, ThreadInv DEF Whole_

-----------------------------------------------------------------------------
(* The composed specification *)

(* Every step of Service is a step of a process, or leaves all of them alone. *)
LEMMA NextInv == StartInv /\ [Next]_vars => StartInv'
<1> SUFFICES ASSUME StartInv, [Next]_vars PROVE StartInv'
  OBVIOUS
<1>1. CASE UNCHANGED startVars
  BY <1>1 DEF startVars, StartInv, StartTypeOK, LockHeld, Whole_, Bound
<1>2. CASE Next
  <2>1. PICK p \in Procs :
        \/ Turn(p)
        \/ Serve(p)
        \/ (do_main(p) \/ Fails(p)) /\ KeepConn
        \/ Killed(p) /\ CloseWith(p)
        \/ \E t \in Listeners :
              \/ accept_client(p, t)
              \/ (Connect(p, t) \/ AcceptFails(p, t)) /\ KeepConn
    BY <1>2 DEF Next
  <2>2. CASE Turn(p)
    BY <2>2, MainInv, CallsInv DEF Turn, StartStep
  <2>3. CASE Serve(p)
    <3>1. Gone(p) \/ UNCHANGED startVars
      BY <2>3 DEF Serve, ParseFails, process_requests, NullObject
    <3> QED
      BY <1>1, <3>1, GoneInv
  <2>4. CASE do_main(p) \/ Fails(p) \/ Killed(p)
    BY <2>4, MainInv, FailsInv
  <2>5. ASSUME NEW t \in Listeners, accept_client(p, t) \/ Connect(p, t) \/ AcceptFails(p, t)
        PROVE  StartInv'
    BY <2>5, ClientsInv DEF accept_client
  <2> QED
    BY <2>1, <2>2, <2>3, <2>4, <2>5
<1> QED
  BY <1>1, <1>2 DEF vars

(***************************************************************************)
(* The inductive invariant of the start-up, in the composed specification. *)
(***************************************************************************)
THEOREM StartInvariance == Spec => []StartInv
<1>1. Init => StartInv
  BY StartInitInv DEF Init
<1> QED
  BY <1>1, NextInv, PTL DEF Spec

(***************************************************************************)
(* acquire_pid_file: of any number of processes started with the same pid  *)
(* file at most one ever has a listening socket.                           *)
(***************************************************************************)
THEOREM PidFileExcludes == Spec => []OnePerPidFile
<1>1. StartInv => OnePerPidFile
  <2> SUFFICES ASSUME StartInv, NEW p \in Procs, NEW q \in Procs, Bound(p), Bound(q),
                      Files[proc[p].conf].pid_file = Files[proc[q].conf].pid_file
               PROVE  p = q
    BY DEF OnePerPidFile
  <2>1. \A x \in {p, q} : LockHeld(x)
    BY DEF StartInv
  <2>2. \A x \in {p, q} : pid_lock[Files[proc[x].conf].pid_file] = x
    BY <2>1 DEF LockHeld
  <2> QED
    BY <2>2
<1> QED
  BY <1>1, StartInvariance, PTL

(***************************************************************************)
(* SrsServerAdapter::run and SrsWaitGroup: no client is accepted before    *)
(* the manager runs and the handlers are registered, and the thread of a   *)
(* server that was started never comes back from the wait group.           *)
(***************************************************************************)
THEOREM ServedByWholeServers == Spec => []ServesOnlyWhole
<1>1. StartInv => ServesOnlyWhole
  BY DEF StartInv, Whole_, ServesOnlyWhole, CanAccept, MayRun
<1> QED
  BY <1>1, StartInvariance, PTL

-----------------------------------------------------------------------------
(* One request *)

(* What the client got for r: all of an answer, or less if a write failed. *)
AnswerOf(out, r, err) ==
    /\ out \in Seq(Item)
    /\ \/ out = <<>> /\ (Silent(r) \/ err)
       \/ /\ ~Silent(r)
          /\ \E s, L \in Nat : \E m \in 0..L :
                <<s, L>> \in AnswersTo(r) /\ out = Resp(s, L, m) /\ (m = L \/ err)

LEMMA AnswerWritten ==
    ASSUME NEW r, ~Silent(r), NEW s \in Nat, NEW L \in Nat, <<s, L>> \in AnswersTo(r),
           NEW w, Wrote(w, s, L, L)
    PROVE  AnswerOf(w.out, r, w.err)
<1>1. w.out \in Seq(Item) /\ w.err \in BOOLEAN
  BY DEF Wrote, Writer
<1>2. CASE ~w.err
  <2>1. w.out = Resp(s, L, L) /\ L \in 0..L
    BY <1>2 DEF Wrote
  <2> QED
    BY <1>1, <2>1 DEF AnswerOf
<1>3. CASE w.err
  <2>1. Partial(w.out, s, L)
    BY DEF Wrote
  <2> QED
    BY <1>1, <1>3, <2>1 DEF AnswerOf, Partial
<1> QED
  BY <1>2, <1>3

LEMMA RequestFields ==
    ASSUME NEW r \in Requests
    PROVE  /\ r.options \in BOOLEAN /\ r.keep \in BOOLEAN
           /\ r.body \in {"none", "junk", "other", "object"} /\ r.jsonp \in {"no", "bare", "named"}
BY RequestsAssumption DEF Request

(* The length of the answer of a handler that gives one. *)
LEMMA OwnAnswer ==
    ASSUME NEW r, r.jsonp \in {"no", "bare", "named"}, ~r.options, Owner(r.path) # <<>>,
           NEW d, d = IF Owner(r.path) = Stats THEN 2 ELSE 1
    PROVE  <<200, d + Extra(r)>> \in AnswersTo(r)
<1>1. CASE r.jsonp = "no"
  BY <1>1 DEF AnswersTo, Extra
<1>2. CASE r.jsonp = "bare"
  BY <1>2 DEF AnswersTo, Extra
<1>3. CASE r.jsonp = "named"
  BY <1>3 DEF AnswersTo, Extra
<1> QED
  BY <1>1, <1>2, <1>3

(* A request that is served with the handlers of the server gets its answer. *)
LEMMA Answered ==
    ASSUME NEW r \in Requests, NEW left \in Nat, NEW enabled,
           ~(ReadsBody(r, Patterns) /\ r.body = "other"),
           NEW w, w = CorsServe(SrsHttpResponseWriter(left), r, Patterns, enabled)
    PROVE  AnswerOf(w.out, r, w.err)
<1>1. /\ r.options \in BOOLEAN /\ r.body \in {"none", "junk", "other", "object"}
      /\ r.jsonp \in {"no", "bare", "named"}
  BY RequestFields
<1>2. PICK n : n = SrsHttpResponseWriter(left)
  OBVIOUS
<1>3. <<>> \in Seq(Item) /\ n.out = <<>> /\ n.err = FALSE
  BY <1>2 DEF SrsHttpResponseWriter
<1>4. CASE r.options
  <2>1. PICK s \in {200, 405} : s = IF enabled THEN 200 ELSE 405
    OBVIOUS
  <2>2. Wrote(w, s, 0, 0)
    BY <1>4, <2>1, OptionsAnswer DEF CorsServe
  <2>3. ~Silent(r) /\ <<s, 0>> \in AnswersTo(r)
    BY <1>4, <2>1 DEF Silent, AnswersTo
  <2> QED
    BY <2>2, <2>3, AnswerWritten
<1>5. CASE ~r.options /\ Contains(r.path, "..")
  <2>1. w = [n EXCEPT !.err = TRUE]
    BY ONLY <1>2, <1>5, w = CorsServe(SrsHttpResponseWriter(left), r, Patterns, enabled) DEF CorsServe, serve_http
  <2>2. w.out = <<>> /\ w.err
    BY <1>2, <2>1 DEF SrsHttpResponseWriter
  <2> QED
    BY <1>3, <2>2 DEF AnswerOf
<1>6. CASE ~r.options /\ ~Contains(r.path, "..")
  <2>1. PICK p : p = match(Patterns, r.path)
    OBVIOUS
  <2>2. p = Owner(r.path) /\ p \in {<<>>, Api, Mytest, Stats}
    BY <2>1, MatchOwner DEF Owner
  <2>3. /\ Api # <<>> /\ Mytest # <<>> /\ Stats # <<>>
        /\ Api # Mytest /\ Api # Stats /\ Mytest # Stats
    <3>1. Api # <<>> /\ Mytest # <<>> /\ Stats # <<>>
      BY ONLY DEF Api, Mytest, Stats
    <3>2. Len(Api) = 3 /\ Len(Mytest) = 4 /\ Len(Stats) = 6
      BY ONLY DEF Api, Mytest, Stats
    <3>3. Api # Mytest /\ Api # Stats /\ Mytest # Stats
      BY ONLY <3>2
    <3> QED
      BY ONLY <3>1, <3>3, Zenon
  <2>4. w = serve_http(n, r, Patterns)
    BY ONLY <1>2, <1>6, w = CorsServe(SrsHttpResponseWriter(left), r, Patterns, enabled) DEF CorsServe
  <2>5. Extra(r) \in Nat
    BY <1>1 DEF Extra
  <2>6. CASE p = <<>>
    <3>1. w = SrsHttpNotFoundHandler(n)
      BY ONLY <1>6, <2>1, <2>3, <2>4, <2>6 DEF serve_http
    <3>2. ~Silent(r) /\ <<404, 1>> \in AnswersTo(r)
      BY <1>6, <2>2, <2>3, <2>6 DEF Silent, AnswersTo
    <3>3. Wrote(w, 404, 1, 1)
      BY <1>2, <3>1, NotFoundAnswer
    <3> QED
      BY <3>2, <3>3, AnswerWritten
  <2>7. CASE p = Api
    <3>1. w = SrsGoApiApi(n, r)
      BY ONLY <1>6, <2>1, <2>3, <2>4, <2>7 DEF serve_http
    <3>2. r.body # "other"
      BY <1>6, <2>1, <2>7 DEF ReadsBody
    <3>3. CASE r.body = "object"
      <4>1. ~Silent(r)
        BY <3>3 DEF Silent
      <4>2. <<200, 1 + Extra(r)>> \in AnswersTo(r)
        <5>1. /\ r.jsonp \in {"no", "bare", "named"} /\ ~r.options /\ Owner(r.path) # <<>>
              /\ 1 = IF Owner(r.path) = Stats THEN 2 ELSE 1
          BY <1>1, <1>6, <2>2, <2>3, <2>7
        <5> QED
          BY ONLY <5>1, OwnAnswer
      <4>3. w = srs_api_response(n, r, 1)
        BY ONLY <3>1, <3>3 DEF SrsGoApiApi
      <4>4. Wrote(w, 200, 1 + Extra(r), 1 + Extra(r)) /\ 1 + Extra(r) \in Nat
        BY <1>1, <1>2, <2>5, <4>3, ApiAnswer
      <4> QED
        BY <4>1, <4>2, <4>4, AnswerWritten
    <3>4. CASE r.body \in {"none", "junk"}
      <4>1. Silent(r) /\ w = n
        BY <1>6, <2>2, <2>7, <3>1, <3>4 DEF Silent, SrsGoApiApi
      <4> QED
        BY <1>3, <4>1 DEF AnswerOf
    <3> QED
      BY <1>1, <3>2, <3>3, <3>4
  <2>8. CASE p = Mytest
    <3>1. w = SrsMytest(n, r)
      BY ONLY <1>6, <2>1, <2>3, <2>4, <2>8 DEF serve_http
    <3>2. ~Silent(r) /\ <<200, 1 + Extra(r)>> \in AnswersTo(r)
      <4>1. ~Silent(r)
        BY <2>2, <2>3, <2>8 DEF Silent
      <4>2. <<200, 1 + Extra(r)>> \in AnswersTo(r)
        <5>1. /\ r.jsonp \in {"no", "bare", "named"} /\ ~r.options /\ Owner(r.path) # <<>>
              /\ 1 = IF Owner(r.path) = Stats THEN 2 ELSE 1
          BY <1>1, <1>6, <2>2, <2>3, <2>8
        <5> QED
          BY ONLY <5>1, OwnAnswer
      <4> QED
        BY <4>1, <4>2
    <3>3. Wrote(w, 200, 1 + Extra(r), 1 + Extra(r)) /\ 1 + Extra(r) \in Nat
      BY <1>1, <1>2, <2>5, <3>1, ApiAnswer DEF SrsMytest
    <3> QED
      BY <3>2, <3>3, AnswerWritten
  <2>9. CASE p = Stats
    <3>1. w = SrsGoApiSelfProcStats(n, r)
      BY ONLY <1>6, <2>1, <2>3, <2>4, <2>9 DEF serve_http
    <3>2. ~Silent(r) /\ <<200, 2 + Extra(r)>> \in AnswersTo(r)
      <4>1. ~Silent(r)
        BY <2>2, <2>3, <2>9 DEF Silent
      <4>2. <<200, 2 + Extra(r)>> \in AnswersTo(r)
        <5>1. /\ r.jsonp \in {"no", "bare", "named"} /\ ~r.options /\ Owner(r.path) # <<>>
              /\ 2 = IF Owner(r.path) = Stats THEN 2 ELSE 1
          BY <1>1, <1>6, <2>2, <2>3, <2>9
        <5> QED
          BY ONLY <5>1, OwnAnswer
      <4> QED
        BY <4>1, <4>2
    <3>3. Wrote(w, 200, 2 + Extra(r), 2 + Extra(r)) /\ 2 + Extra(r) \in Nat
      BY <1>1, <1>2, <2>5, <3>1, ApiAnswer DEF SrsGoApiSelfProcStats
    <3> QED
      BY <3>2, <3>3, AnswerWritten
  <2> QED
    BY <2>2, <2>6, <2>7, <2>8, <2>9
<1> QED
  BY <1>1, <1>4, <1>5, <1>6

-----------------------------------------------------------------------------
(* Answers one behind the other *)

(* An answer stays where it is when more is sent. *)
LEMMA AnswerStays ==
    ASSUME NEW out, NEW all, NEW l \in Nat, \A u \in 1..l : all[u] = out[u],
           NEW i \in 0..l, NEW j \in 0..l, NEW r, NEW c, AnswerIn(out, r, i, j, c)
    PROVE  AnswerIn(all, r, i, j, c)
<1>1. CASE i = j /\ (Silent(r) \/ c)
  BY <1>1 DEF AnswerIn
<1>2. CASE i < j /\ ~Silent(r)
  <2>1. PICK a \in AnswersTo(r) :
           /\ out[i + 1] = <<"head", a[1], a[2]>>
           /\ \A u \in (i + 2)..j : out[u] = <<"data">>
           /\ j - i - 1 = a[2] \/ (c /\ j - i - 1 <= a[2])
    BY <1>2 DEF AnswerIn
  <2>2. i + 1 \in 1..l /\ \A u \in (i + 2)..j : u \in 1..l
    BY <1>2
  <2>3. all[i + 1] = <<"head", a[1], a[2]>> /\ \A u \in (i + 2)..j : all[u] = <<"data">>
    BY ONLY <2>1, <2>2, \A u \in 1..l : all[u] = out[u]
  <2> QED
    BY ONLY <1>2, <2>1, <2>3 DEF AnswerIn
<1> QED
  BY <1>1, <1>2 DEF AnswerIn

(* What was written for r is the last of the answers. *)
LEMMA AnswerLast ==
    ASSUME NEW out \in Seq(Item), NEW o, NEW all, all = out \o o,
           NEW r, NEW err \in BOOLEAN, NEW closed \in BOOLEAN, err => closed, AnswerOf(o, r, err)
    PROVE  /\ AnswerIn(all, r, Len(out), Len(all), closed)
           /\ o # <<>> => Len(out) + 1 \in 1..Len(all) /\ all[Len(out) + 1][1] = "head"
<1>1. o \in Seq(Item)
  BY DEF AnswerOf
<1>2. PICK l \in Nat : l = Len(out)
  BY LenProperties
<1>3. /\ all \in Seq(Item) /\ Len(all) = l + Len(o)
      /\ \A i \in 1..Len(o) : all[l + i] = o[i]
  BY <1>1, <1>2, Glued
<1>4. CASE o = <<>>
  <2>1. Len(o) = 0
    BY ONLY <1>4
  <2>2. Len(all) = l
    BY ONLY <1>2, <1>3, <2>1
  <2>3. Silent(r) \/ err \/ \E s, L \in Nat : \E m \in 0..L : o = Resp(s, L, m)
    BY DEF AnswerOf
  <2>4. \A s, L \in Nat : \A m \in 0..L : o # Resp(s, L, m)
    <3> SUFFICES ASSUME NEW s \in Nat, NEW L \in Nat, NEW m \in 0..L PROVE o # Resp(s, L, m)
      OBVIOUS
    <3>1. m \in Nat /\ m + 1 # 0
      OBVIOUS
    <3>2. Len(Resp(s, L, m)) = m + 1
      BY <3>1, RespType
    <3> QED
      BY ONLY <2>1, <3>1, <3>2
  <2>5. Silent(r) \/ closed
    BY <2>3, <2>4
  <2> QED
    BY ONLY <1>2, <1>4, <2>2, <2>5 DEF AnswerIn
<1>5. CASE o # <<>>
  <2>1. /\ ~Silent(r)
        /\ \E s, L \in Nat : \E m \in 0..L :
              <<s, L>> \in AnswersTo(r) /\ o = Resp(s, L, m) /\ (m = L \/ err)
    BY ONLY <1>5, AnswerOf(o, r, err) DEF AnswerOf
  <2>2. PICK s \in Nat, L \in Nat : \E m \in 0..L :
              <<s, L>> \in AnswersTo(r) /\ o = Resp(s, L, m) /\ (m = L \/ err)
    BY <2>1
  <2>3. PICK m \in 0..L : <<s, L>> \in AnswersTo(r) /\ o = Resp(s, L, m) /\ (m = L \/ err)
    BY <2>2
  <2>4. m \in Nat /\ m <= L
    OBVIOUS
  <2>5. /\ Len(o) = m + 1 /\ o[1] = <<"head", s, L>>
        /\ \A i \in 2..(m + 1) : o[i] = <<"data">>
    <3>1. /\ Len(Resp(s, L, m)) = m + 1 /\ Resp(s, L, m)[1] = <<"head", s, L>>
          /\ \A i \in 2..(m + 1) : Resp(s, L, m)[i] = <<"data">>
      BY <2>4, RespType
    <3> QED
      BY ONLY <2>3, <3>1
  <2>6. Len(all) = l + m + 1 /\ 1 \in 1..Len(o) /\ \A i \in 2..(m + 1) : i \in 1..Len(o)
    BY ONLY <1>2, <1>3, <2>4, <2>5
  <2>7. all[l + 1] = <<"head", s, L>> /\ \A i \in 2..(m + 1) : all[l + i] = <<"data">>
    BY ONLY <1>3, <2>5, <2>6
  <2>8. \A u \in (l + 2)..Len(all) : all[u] = <<"data">>
    <3> SUFFICES ASSUME NEW u \in (l + 2)..Len(all) PROVE all[u] = <<"data">>
      OBVIOUS
    <3>1. u - l \in 2..(m + 1) /\ l + (u - l) = u
      BY ONLY <1>2, <2>4, <2>6, u \in (l + 2)..Len(all)
    <3> QED
      BY ONLY <2>7, <3>1
  <2>9. l < Len(all) /\ Len(all) - l - 1 = m /\ l + 1 \in 1..Len(all)
    BY ONLY <1>2, <2>4, <2>6
  <2>10. PICK a : a = <<s, L>>
    OBVIOUS
  <2>11. /\ a \in AnswersTo(r) /\ all[l + 1] = <<"head", a[1], a[2]>>
         /\ Len(all) - l - 1 = a[2] \/ (closed /\ Len(all) - l - 1 <= a[2])
    BY <2>3, <2>4, <2>7, <2>9, <2>10
  <2>12. AnswerIn(all, r, l, Len(all), closed)
    BY ONLY <2>1, <2>8, <2>9, <2>11 DEF AnswerIn
  <2>13. all[l + 1][1] = "head"
    BY <2>7
  <2> QED
    BY ONLY <1>2, <2>9, <2>12, <2>13
<1> QED
  BY <1>4, <1>5

(* Where answers may be cut. *)
LEMMA CutsWithin ==
    ASSUME NEW out \in Seq(Item)
    PROVE  Cuts(out) \subseteq 0..Len(out) /\ Len(out) \in Nat
<1>1. Len(out) \in Nat /\ DOMAIN out = 1..Len(out)
  BY LenProperties
<1> QED
  BY <1>1 DEF Cuts, Headers

LEMMA CutsStay ==
    ASSUME NEW out \in Seq(Item), NEW all \in Seq(Item), Len(out) <= Len(all),
           \A u \in 1..Len(out) : all[u] = out[u],
           Len(out) = Len(all) \/ (Len(out) + 1 \in 1..Len(all) /\ all[Len(out) + 1][1] = "head")
    PROVE  Cuts(out) \subseteq Cuts(all)
<1>1. /\ Len(out) \in Nat /\ DOMAIN out = 1..Len(out)
      /\ Len(all) \in Nat /\ DOMAIN all = 1..Len(all)
  BY LenProperties
<1>2. Headers(out) \subseteq Headers(all)
  <2> SUFFICES ASSUME NEW i \in Headers(out) PROVE i \in Headers(all)
    OBVIOUS
  <2>1. i \in 1..Len(out) /\ out[i][1] = "head"
    BY <1>1 DEF Headers
  <2>2. i \in 1..Len(all)
    BY ONLY <1>1, <2>1, Len(out) <= Len(all)
  <2>3. all[i] = out[i]
    BY ONLY <2>1, \A u \in 1..Len(out) : all[u] = out[u]
  <2> QED
    BY ONLY <1>1, <2>1, <2>2, <2>3 DEF Headers
<1>3. Len(out) \in Cuts(all)
  <2>1. CASE Len(out) = Len(all)
    BY <2>1 DEF Cuts
  <2>2. CASE Len(out) + 1 \in 1..Len(all) /\ all[Len(out) + 1][1] = "head"
    <3>1. Len(out) + 1 \in Headers(all)
      BY ONLY <1>1, <2>2 DEF Headers
    <3>2. Len(out) = (Len(out) + 1) - 1
      BY ONLY <1>1
    <3> QED
      BY ONLY <3>1, <3>2 DEF Cuts
  <2> QED
    BY <2>1, <2>2
<1> QED
  BY <1>2, <1>3 DEF Cuts

(* One more request and its answer. *)
LEMMA FramedGrows ==
    ASSUME NEW served \in Seq(Requests), NEW out \in Seq(Item), Framed(served, out, FALSE),
           NEW r \in Requests, NEW o, NEW err \in BOOLEAN, NEW closed \in BOOLEAN, err => closed,
           AnswerOf(o, r, err),
           NEW ser, ser = Append(served, r), NEW all, all = out \o o
    PROVE  Framed(ser, all, closed)
<1>1. PICK n \in Nat : n = Len(served)
  BY LenProperties
<1>2. PICK end \in [0..n -> Cuts(out)] :
        /\ end[0] = 0
        /\ end[n] = Len(out)
        /\ \A k \in 1..n : AnswerIn(out, served[k], end[k - 1], end[k], k = n /\ FALSE)
  BY <1>1 DEF Framed
<1>3. o \in Seq(Item) /\ Len(o) \in Nat
  BY LenProperties DEF AnswerOf
<1>4. Len(out) \in Nat /\ Cuts(out) \subseteq 0..Len(out)
  BY CutsWithin
<1>5. all \in Seq(Item) /\ Len(all) = Len(out) + Len(o) /\ \A u \in 1..Len(out) : all[u] = out[u]
  BY <1>3, Glued
<1>6. /\ Len(ser) = n + 1 /\ ser[n + 1] = r /\ \A k \in 1..n : ser[k] = served[k]
  BY <1>1, Appended
<1>7. /\ AnswerIn(all, r, Len(out), Len(all), closed)
      /\ o # <<>> => Len(out) + 1 \in 1..Len(all) /\ all[Len(out) + 1][1] = "head"
  BY ONLY AnswerLast, out \in Seq(Item), all = out \o o, err \in BOOLEAN, closed \in BOOLEAN,
          err => closed, AnswerOf(o, r, err)
<1>8. Cuts(out) \subseteq Cuts(all)
  <2>1. o = <<>> => Len(out) = Len(all)
    BY <1>4, <1>5
  <2>2. Len(out) <= Len(all)
    BY <1>3, <1>4, <1>5
  <2> QED
    BY <1>5, <1>7, <2>1, <2>2, CutsStay
<1>9. Len(all) \in Cuts(all)
  BY DEF Cuts
<1> DEFINE fin == [k \in 0..(n + 1) |-> IF k = n + 1 THEN Len(all) ELSE end[k]]
<1>10. \A k \in 0..n : fin[k] = end[k] /\ end[k] \in Cuts(out)
  BY <1>2
<1>11. fin \in [0..(n + 1) -> Cuts(all)]
  <2> SUFFICES ASSUME NEW k \in 0..(n + 1) PROVE fin[k] \in Cuts(all)
    OBVIOUS
  <2>1. CASE k = n + 1
    BY <1>9, <2>1
  <2>2. CASE k # n + 1
    <3>1. k \in 0..n
      BY <2>2
    <3> QED
      BY <1>8, <1>10, <3>1
  <2> QED
    BY <2>1, <2>2
<1>12. fin[0] = 0 /\ fin[n] = Len(out) /\ fin[n + 1] = Len(all)
  BY <1>2, <1>10
<1> HIDE DEF fin
<1>13. ASSUME NEW k \in 1..(n + 1)
       PROVE  AnswerIn(all, ser[k], fin[k - 1], fin[k], k = n + 1 /\ closed)
  <2>1. CASE k = n + 1
    <3>1. k - 1 = n /\ (k = n + 1 /\ closed) = closed
      BY <2>1
    <3> QED
      BY ONLY <1>6, <1>7, <1>12, <2>1, <3>1
  <2>2. CASE k # n + 1
    <3>1. k \in 1..n /\ k \in 0..n /\ k - 1 \in 0..n
      BY <2>2
    <3>2. fin[k] = end[k] /\ fin[k - 1] = end[k - 1] /\ ser[k] = served[k]
      BY <1>6, <1>10, <3>1
    <3>3. end[k] \in 0..Len(out) /\ end[k - 1] \in 0..Len(out)
      BY <1>4, <1>10, <3>1
    <3>4. PICK i \in 0..Len(out), j \in 0..Len(out) : i = end[k - 1] /\ j = end[k]
      BY <3>3
    <3>5. AnswerIn(out, served[k], i, j, FALSE)
      BY ONLY <1>2, <3>1, <3>4
    <3>6. AnswerIn(all, served[k], i, j, FALSE)
      <4>1. PICK l \in Nat : l = Len(out)
        BY <1>4
      <4>2. i \in 0..l /\ j \in 0..l /\ \A u \in 1..l : all[u] = out[u]
        BY ONLY <1>5, <3>4, <4>1
      <4> QED
        BY ONLY <3>5, <4>2, l \in Nat, AnswerStays
    <3>7. (k = n + 1 /\ closed) = FALSE
      BY <2>2
    <3> QED
      BY ONLY <3>2, <3>4, <3>6, <3>7
  <2> QED
    BY <2>1, <2>2
<1> QED
  BY ONLY <1>6, <1>11, <1>12, <1>13 DEF Framed

(* A connection that is closed asks no more of its last answer. *)
LEMMA FramedClosed ==
    ASSUME NEW served, NEW out, Framed(served, out, FALSE)
    PROVE  Framed(served, out, TRUE)
<1>1. \A r, i, j, c : AnswerIn(out, r, i, j, FALSE) => AnswerIn(out, r, i, j, c)
  BY DEF AnswerIn
<1> QED
  BY <1>1 DEF Framed

-----------------------------------------------------------------------------
(* The process behind a connection *)

(***************************************************************************)
(* A process that listens for the API does not share the ports of the      *)
(* stream server: what it found in initialize kept it from opening the     *)
(* listeners otherwise.                                                    *)
(***************************************************************************)
Heard(x) ==
    \A t \in {"HttpApi", "HttpsApi"} :
        x.listener[t] # None => ~x.reuse_api_over_server_ /\ x.hybrid \notin {None, "thread", "initialize"}

(* x becomes y: it may listen for the API only as above, and once its main
   coroutine waits the handlers are not touched any more. *)
Becomes(x, y) == Heard(y) /\ (x.hybrid = "wait" => y.hybrid = "wait" /\ y.http_api_mux = x.http_api_mux)

LEMMA MainBecomes ==
    ASSUME StartInv, NEW p \in Procs, Heard(proc[p]), acquire_pid_file(p) \/ execute(p) \/ do_main(p)
    PROVE  \E new : proc' = [proc EXCEPT ![p] = new] /\ Becomes(proc[p], new)
<1>1. proc[p] \in Process /\ LockHeld(p)
  BY DEF StartInv, StartTypeOK
<1>2. proc[p].main # "run"
  BY DEF acquire_pid_file, execute, do_main
<1>3. proc[p].hybrid = None /\ proc[p].hybrid # "wait" /\ \A t \in Listeners : proc[p].listener[t] = None
  BY <1>1, <1>2 DEF LockHeld, Bound, None
<1>4. ASSUME NEW new, proc' = [proc EXCEPT ![p] = new], \A t \in Listeners : new.listener[t] = None
      PROVE  \E y : proc' = [proc EXCEPT ![p] = y] /\ Becomes(proc[p], y)
  BY <1>3, <1>4 DEF Becomes, Heard, Listeners
<1>5. CASE Gone(p)
  <2>1. proc[p].conf \in Confs
    BY <1>1 DEF Process
  <2>2. proc' = [proc EXCEPT ![p] = Down(proc[p].conf)]
    BY <1>5 DEF Gone
  <2>3. \A t \in Listeners : Down(proc[p].conf).listener[t] = None
    BY <2>1, DownFacts
  <2> QED
    BY ONLY <1>4, <2>2, <2>3
<1>6. CASE do_main(p)
  <2>1. PICK c \in Confs : proc' = [proc EXCEPT ![p] = [Down(c) EXCEPT !.main = "pid"]]
    BY <1>6 DEF do_main
  <2>2. \A t \in Listeners : [Down(c) EXCEPT !.main = "pid"].listener[t] = None
    BY DEF Down
  <2> QED
    BY <1>4, <2>1, <2>2
<1>7. CASE proc' = [proc EXCEPT ![p].main = "execute"]
  <2> DEFINE new == [proc[p] EXCEPT !.main = "execute"]
  <2>1. new.listener = proc[p].listener
    BY <1>1 DEF Process
  <2>2. proc' = [proc EXCEPT ![p] = new]
    BY <1>7
  <2> QED
    BY <1>3, <1>4, <2>1, <2>2
<1>8. CASE proc' = [proc EXCEPT ![p].main = "run", ![p].hybrid = "thread"]
  <2> DEFINE new == [proc[p] EXCEPT !.main = "run", !.hybrid = "thread"]
  <2>1. new.listener = proc[p].listener
    BY <1>1 DEF Process
  <2>2. proc' = [proc EXCEPT ![p] = new]
    BY <1>8 DEF StartInv, StartTypeOK
  <2> QED
    BY <1>3, <1>4, <2>1, <2>2
<1> QED
  BY <1>5, <1>6, <1>7, <1>8 DEF acquire_pid_file, execute

LEMMA ThreadBecomes ==
    ASSUME StartInv, NEW p \in Procs, Heard(proc[p]),
           \/ start(p) \/ initialize(p) \/ (\E t \in Listeners : listen(p, t))
           \/ manager_start(p) \/ http_handle(p) \/ server_start(p) \/ wait(p) \/ Fails(p)
    PROVE  \E new : proc' = [proc EXCEPT ![p] = new] /\ Becomes(proc[p], new)
<1>1. proc[p] \in Process
  BY DEF StartInv, StartTypeOK
<1>2. ASSUME NEW new, proc' = [proc EXCEPT ![p] = new], proc[p].hybrid # "wait",
             new.listener = proc[p].listener, new.hybrid \notin {None, "thread", "initialize"},
             new.reuse_api_over_server_ = proc[p].reuse_api_over_server_
      PROVE  \E y : proc' = [proc EXCEPT ![p] = y] /\ Becomes(proc[p], y)
  BY <1>2 DEF Becomes, Heard
<1>3. CASE start(p) \/ initialize(p)
  <2>1. PICK new : /\ proc' = [proc EXCEPT ![p] = new] /\ new.listener = proc[p].listener
                   /\ proc[p].hybrid \in {"thread", "initialize"}
    <3>1. CASE start(p)
      <4> DEFINE n == [proc[p] EXCEPT !.hybrid = "initialize"]
      <4>1. n.listener = proc[p].listener
        BY <1>1 DEF Process
      <4> QED
        BY <3>1, <4>1 DEF start, Call
    <3>2. CASE initialize(p)
      <4> DEFINE n == [proc[p] EXCEPT !.hybrid = "HttpApi", !.reuse_api_over_server_ = Reuse[proc[p].conf]]
      <4>1. n.listener = proc[p].listener
        BY <1>1 DEF Process
      <4> QED
        BY <3>2, <4>1 DEF initialize, Call
    <3> QED
      BY <1>3, <3>1, <3>2
  <2>2. \A t \in {"HttpApi", "HttpsApi"} : proc[p].listener[t] = None
    BY <2>1 DEF Heard
  <2> QED
    BY <2>1, <2>2 DEF Becomes, Heard
<1>4. ASSUME NEW t \in Listeners, NEW l, NEW s, s \notin {None, "thread", "initialize"}, proc[p].hybrid # "wait",
             t # "HttpProxy" => ~proc[p].reuse_api_over_server_ \/ l = proc[p].listener[t],
             proc' = [proc EXCEPT ![p] = [proc[p] EXCEPT !.hybrid = s, !.listener[t] = l]]
      PROVE  \E y : proc' = [proc EXCEPT ![p] = y] /\ Becomes(proc[p], y)
  <2> DEFINE new == [proc[p] EXCEPT !.hybrid = s, !.listener[t] = l]
  <2>1. /\ new.hybrid = s /\ new.reuse_api_over_server_ = proc[p].reuse_api_over_server_
        /\ new.listener = [proc[p].listener EXCEPT ![t] = l] /\ DOMAIN proc[p].listener = Listeners
    BY <1>1 DEF Process
  <2> HIDE DEF new
  <2>2. Heard(new)
    <3> SUFFICES ASSUME NEW u \in {"HttpApi", "HttpsApi"}, new.listener[u] # None
                 PROVE  ~new.reuse_api_over_server_ /\ new.hybrid \notin {None, "thread", "initialize"}
      BY DEF Heard
    <3>1. CASE u = t
      BY <1>4, <2>1, <3>1 DEF Heard
    <3>2. CASE u # t
      BY <1>4, <2>1, <3>2 DEF Heard, Listeners
    <3> QED
      BY <3>1, <3>2
  <2> QED
    BY <1>4, <2>2 DEF Becomes, new
<1>5. ASSUME NEW t \in Listeners, listen(p, t)
      PROVE  \E y : proc' = [proc EXCEPT ![p] = y] /\ Becomes(proc[p], y)
  <2>1. PICK l : l = IF Wanted(p, t) THEN "accepting" ELSE proc[p].listener[t]
    OBVIOUS
  <2>2. After_(t) \in {"HttpsApi", "HttpProxy", "manager"} /\ t # "wait"
    BY DEF Listeners, After_
  <2>3. proc[p].hybrid = t /\ proc' = [proc EXCEPT ![p] = [proc[p] EXCEPT !.hybrid = After_(t), !.listener[t] = l]]
    BY <1>5, <2>1 DEF listen, Call
  <2>4. t # "HttpProxy" => ~proc[p].reuse_api_over_server_ \/ l = proc[p].listener[t]
    BY <2>1 DEF Wanted
  <2> QED
    BY <1>4, <2>2, <2>3, <2>4 DEF None
<1>6. CASE Fails(p)
  <2>1. CASE /\ proc[p].hybrid \in {"thread", "initialize", "manager", "start"}
             /\ proc' = [proc EXCEPT ![p].hybrid = "ended"]
    <3> DEFINE new == [proc[p] EXCEPT !.hybrid = "ended"]
    <3>1. /\ new.listener = proc[p].listener /\ new.hybrid = "ended"
          /\ new.reuse_api_over_server_ = proc[p].reuse_api_over_server_
      BY <1>1 DEF Process
    <3>2. proc' = [proc EXCEPT ![p] = new]
      BY <2>1
    <3> QED
      BY <1>2, <2>1, <3>1, <3>2 DEF None
  <2>2. ASSUME NEW t \in Listeners, NEW l \in {None, "deaf"}, proc[p].hybrid = t, Wanted(p, t),
               proc' = [proc EXCEPT ![p].hybrid = "ended", ![p].listener[t] = l]
        PROVE  \E y : proc' = [proc EXCEPT ![p] = y] /\ Becomes(proc[p], y)
    <3>1. proc' = [proc EXCEPT ![p] = [proc[p] EXCEPT !.hybrid = "ended", !.listener[t] = l]]
      BY <2>2 DEF StartInv, StartTypeOK
    <3>2. t # "wait" /\ (t # "HttpProxy" => ~proc[p].reuse_api_over_server_)
      BY <2>2 DEF Wanted, Listeners
    <3>3. /\ "ended" \notin {None, "thread", "initialize"} /\ proc[p].hybrid # "wait"
          /\ (t # "HttpProxy" => ~proc[p].reuse_api_over_server_ \/ l = proc[p].listener[t])
      BY <2>2, <3>2 DEF None
    <3> QED
      BY ONLY <1>4, <3>1, <3>3, t \in Listeners
  <2> QED
    BY <1>6, <2>1, <2>2 DEF Fails
<1>7. CASE manager_start(p)
  <2> DEFINE new == [proc[p] EXCEPT !.hybrid = "handle", !.conn_manager = TRUE]
  <2>1. /\ new.listener = proc[p].listener /\ new.hybrid = "handle"
        /\ new.reuse_api_over_server_ = proc[p].reuse_api_over_server_
    BY <1>1 DEF Process
  <2>2. proc[p].hybrid # "wait" /\ proc' = [proc EXCEPT ![p] = new]
    BY <1>7 DEF manager_start, Call
  <2> QED
    BY <1>2, <2>1, <2>2 DEF None
<1>8. CASE http_handle(p)
  <2> DEFINE new == [proc[p] EXCEPT !.hybrid = "start",
                                    !.http_api_mux = IF proc[p].reuse_api_over_server_ THEN {} ELSE Patterns]
  <2>1. /\ new.listener = proc[p].listener /\ new.hybrid = "start"
        /\ new.reuse_api_over_server_ = proc[p].reuse_api_over_server_
    BY <1>1 DEF Process
  <2>2. proc[p].hybrid # "wait" /\ proc' = [proc EXCEPT ![p] = new]
    BY <1>8 DEF http_handle, Call
  <2> QED
    BY <1>2, <2>1, <2>2 DEF None
<1>9. CASE server_start(p)
  <2> DEFINE new == [proc[p] EXCEPT !.hybrid = "run", !.trd_ = TRUE, !.nn_ = @ + 1]
  <2>1. /\ new.listener = proc[p].listener /\ new.hybrid = "run"
        /\ new.reuse_api_over_server_ = proc[p].reuse_api_over_server_
    BY <1>1 DEF Process
  <2>2. proc[p].hybrid # "wait" /\ proc' = [proc EXCEPT ![p] = new]
    BY <1>9 DEF server_start, Call
  <2> QED
    BY <1>2, <2>1, <2>2 DEF None
<1>10. CASE wait(p)
  <2> DEFINE new == [proc[p] EXCEPT !.hybrid = IF proc[p].nn_ > 0 THEN "wait" ELSE "ended"]
  <2>1. /\ new.listener = proc[p].listener /\ new.hybrid \in {"wait", "ended"}
        /\ new.reuse_api_over_server_ = proc[p].reuse_api_over_server_
    BY <1>1 DEF Process
  <2>2. proc[p].hybrid # "wait" /\ proc' = [proc EXCEPT ![p] = new]
    BY <1>10 DEF wait, Call
  <2> QED
    BY <1>2, <2>1, <2>2 DEF None
<1> QED
  BY <1>3, <1>5, <1>6, <1>7, <1>8, <1>9, <1>10

LEMMA ClientBecomes ==
    ASSUME StartInv, NEW p \in Procs, Heard(proc[p]), NEW t \in Listeners,
           Connect(p, t) \/ Accept(p, t) \/ AcceptFails(p, t)
    PROVE  \E new : proc' = [proc EXCEPT ![p] = new] /\ Becomes(proc[p], new)
<1>1. proc[p] \in Process /\ DOMAIN proc[p].listener = Listeners
  BY DEF StartInv, StartTypeOK, Process
<1>2. ASSUME NEW m, proc' = [proc EXCEPT ![p].backlog[t] = m]
      PROVE  \E new : proc' = [proc EXCEPT ![p] = new] /\ Becomes(proc[p], new)
  <2> DEFINE new == [proc[p] EXCEPT !.backlog[t] = m]
  <2>1. /\ new.listener = proc[p].listener /\ new.hybrid = proc[p].hybrid
        /\ new.reuse_api_over_server_ = proc[p].reuse_api_over_server_
        /\ new.http_api_mux = proc[p].http_api_mux
    BY <1>1 DEF Process
  <2>2. proc' = [proc EXCEPT ![p] = new]
    BY <1>2
  <2> HIDE DEF new
  <2> QED
    BY <2>1, <2>2 DEF Becomes, Heard
<1>3. CASE AcceptFails(p, t)
  <2> DEFINE new == [proc[p] EXCEPT !.listener[t] = "deaf", !.failed = @ \union {t}]
  <2>1. /\ new.listener = [proc[p].listener EXCEPT ![t] = "deaf"] /\ new.hybrid = proc[p].hybrid
        /\ new.reuse_api_over_server_ = proc[p].reuse_api_over_server_
        /\ new.http_api_mux = proc[p].http_api_mux
    BY <1>1 DEF Process
  <2>2. proc' = [proc EXCEPT ![p] = new] /\ proc[p].listener[t] = "accepting"
    BY <1>3 DEF AcceptFails, CanAccept, StartInv, StartTypeOK
  <2> HIDE DEF new
  <2>3. \A u \in {"HttpApi", "HttpsApi"} : new.listener[u] # None => proc[p].listener[u] # None
    BY <1>1, <2>1, <2>2 DEF Listeners, None
  <2>4. Heard(new)
    BY <2>1, <2>3 DEF Heard
  <2> QED
    BY <2>1, <2>2, <2>4 DEF Becomes
<1>4. CASE Connect(p, t) \/ Accept(p, t)
  BY <1>2, <1>4 DEF Connect, Accept, on_tcp_client
<1> QED
  BY <1>3, <1>4

-----------------------------------------------------------------------------
(* The inductive invariant of a connection *)

Conn == [proc: Procs \cup {None}, unread: BOOLEAN, served: Seq(Requests), strays: SUBSET Nat, out: Seq(Item)]

ConnTypeOK == conn \in Conn

(* The process that serves the connection waits, with all of its handlers. *)
ServerKept(p) == proc[p].hybrid = "wait" /\ proc[p].http_api_mux = Patterns

(* What is next in the buffer of n served messages, the last one left. *)
Behind(unread, served, strays) ==
    LET n == Len(served)
    IN  /\ unread => n # 0 /\ (n \in strays \/ LeavesBody(served[n]))
        /\ n # 0 /\ LeavesBody(served[n]) => unread

UnreadInv == conn.proc # None => Behind(conn.unread, conn.served, conn.strays)

ConnInv ==
    /\ \A p \in Procs : Heard(proc[p])
    /\ ConnTypeOK
    /\ conn.proc # None => ServerKept(conn.proc)
    /\ UnreadInv
    /\ AnswersFramed

(* A connection that has served nothing. *)
LEMMA NothingServed ==
    ASSUME NEW p \in Procs \cup {None}, NEW c, c = [NoConn EXCEPT !.proc = p]
    PROVE  /\ c \in Conn
           /\ c.proc = p /\ Framed(c.served, c.out, c.proc = None) /\ \A k \in 1..Len(c.served) : FALSE
           /\ StraysExplained(c.served, c.strays) /\ Behind(c.unread, c.served, c.strays)
<1>1. c = [proc |-> p, unread |-> FALSE, served |-> <<>>, strays |-> {}, out |-> <<>>]
  BY DEF NoConn
<1>2. <<>> \in Seq(Requests) /\ <<>> \in Seq(Item) /\ FALSE \in BOOLEAN /\ {} \in SUBSET Nat
  OBVIOUS
<1>3. c \in Conn
  BY ONLY <1>1, <1>2, p \in Procs \cup {None} DEF Conn
<1>4. c.proc = p /\ c.served = <<>> /\ c.out = <<>> /\ c.strays = {} /\ c.unread = FALSE
  BY ONLY <1>1
<1>5. Len(c.served) = 0 /\ Len(c.out) = 0
  BY ONLY <1>4
<1>6. 0 \in Cuts(c.out)
  BY <1>5 DEF Cuts
<1>7. PICK e : e = [k \in 0..0 |-> 0]
  OBVIOUS
<1>8. e \in [0..0 -> Cuts(c.out)] /\ e[0] = 0
  BY ONLY <1>6, <1>7
<1>9. \A k \in 1..0 : FALSE
  OBVIOUS
<1>10. Framed(c.served, c.out, c.proc = None)
  BY ONLY <1>5, <1>8, <1>9 DEF Framed
<1>11. StraysExplained(c.served, c.strays)
  <2>1. \A k \in 2..0 : FALSE
    OBVIOUS
  <2> QED
    BY ONLY <1>4, <1>5, <2>1 DEF StraysExplained
<1>12. Behind(c.unread, c.served, c.strays)
  BY ONLY <1>4, <1>5 DEF Behind
<1> QED
  BY ONLY <1>3, <1>4, <1>5, <1>9, <1>10, <1>11, <1>12

LEMMA NewConn ==
    ASSUME NEW p \in Procs \cup {None}, conn' = [NoConn EXCEPT !.proc = p]
    PROVE  ConnTypeOK' /\ AnswersFramed' /\ UnreadInv' /\ conn'.proc = p
BY NothingServed DEF ConnTypeOK, AnswersFramed, UnreadInv

LEMMA ForgottenConn == [NoConn EXCEPT !.proc = None] = NoConn
<1>1. PICK c : c = [NoConn EXCEPT !.proc = None]
  OBVIOUS
<1>2. c = [proc |-> None, unread |-> FALSE, served |-> <<>>, strays |-> {}, out |-> <<>>]
  BY <1>1 DEF NoConn
<1>3. NoConn = [proc |-> None, unread |-> FALSE, served |-> <<>>, strays |-> {}, out |-> <<>>]
  BY ONLY DEF NoConn
<1> QED
  BY ONLY <1>1, <1>2, <1>3

(* A connection that is closed, if it was not. *)
LEMMA ConnCloses ==
    ASSUME ConnTypeOK, AnswersFramed, conn' = [conn EXCEPT !.proc = None]
    PROVE  ConnTypeOK' /\ AnswersFramed' /\ UnreadInv' /\ conn'.proc = None
<1>1. /\ conn'.proc = None /\ conn'.served = conn.served /\ conn'.out = conn.out
      /\ conn'.strays = conn.strays /\ ConnTypeOK'
  BY DEF ConnTypeOK, Conn
<1>2. Framed(conn.served, conn.out, TRUE)
  <2>1. CASE conn.proc = None
    BY <2>1 DEF AnswersFramed
  <2>2. CASE conn.proc # None
    <3>1. Framed(conn.served, conn.out, FALSE)
      BY <2>2 DEF AnswersFramed
    <3> QED
      BY <3>1, FramedClosed
  <2> QED
    BY <2>1, <2>2
<1>3. \A k \in 1..Len(conn.served) : ~conn.served[k].keep => k = Len(conn.served)
  BY DEF AnswersFramed
<1> QED
  BY <1>1, <1>2, <1>3 DEF AnswersFramed, UnreadInv

(* One more message: taken from a body exactly when one was left behind. *)
LEMMA StraysGrow ==
    ASSUME NEW served \in Seq(Requests), NEW strays \in SUBSET Nat, StraysExplained(served, strays),
           NEW r \in Requests, NEW ser, ser = Append(served, r), NEW st,
           \A k \in strays : k \in st,
           \A k \in st : k \notin strays =>
               /\ k = Len(served) + 1 /\ Len(served) # 0
               /\ (Len(served) \in strays \/ LeavesBody(served[Len(served)])),
           Len(served) # 0 => (LeavesBody(served[Len(served)]) => Len(served) + 1 \in st)
    PROVE  StraysExplained(ser, st)
<1>1. PICK n : n = Len(served)
  OBVIOUS
<1>2. /\ n \in Nat /\ Len(ser) = n + 1
      /\ \A i \in 1..Len(ser) : i # Len(ser) => i \in 1..n /\ ser[i] = served[i]
  BY ONLY <1>1, served \in Seq(Requests), r \in Requests, ser = Append(served, r), Appended
<1>3. /\ \A k \in strays : k \in 2..n /\ (k - 1 \in strays \/ LeavesBody(served[k - 1]))
      /\ \A k \in 2..n : LeavesBody(served[k - 1]) => k \in strays
  BY ONLY <1>1, StraysExplained(served, strays) DEF StraysExplained
<1>4. ASSUME NEW k \in 2..(n + 1)
      PROVE  k - 1 \in 1..n /\ ser[k - 1] = served[k - 1] /\ (k \in 2..n \/ k = n + 1)
  <2>1. k - 1 \in 1..n /\ (k \in 2..n \/ k = n + 1)
    BY ONLY <1>2, <1>4
  <2>2. k - 1 \in 1..(n + 1) /\ k - 1 # n + 1
    BY ONLY <1>2, <2>1
  <2> QED
    BY ONLY <1>2, <2>1, <2>2
<1>5. ASSUME NEW k \in st
      PROVE  k \in 2..(n + 1) /\ (k - 1 \in st \/ LeavesBody(ser[k - 1]))
  <2>1. CASE k \in strays
    <3>1. k \in 2..n /\ (k - 1 \in strays \/ LeavesBody(served[k - 1])) /\ k \in 2..(n + 1)
      BY ONLY <1>2, <1>3, <2>1
    <3>2. ser[k - 1] = served[k - 1]
      BY ONLY <1>4, <3>1
    <3> QED
      BY <3>1, <3>2
  <2>2. CASE k \notin strays
    <3>1. k = n + 1 /\ n # 0 /\ (n \in strays \/ LeavesBody(served[n]))
      BY <1>1, <1>5, <2>2
    <3>2. k \in 2..(n + 1) /\ k - 1 = n
      BY ONLY <1>2, <3>1
    <3>3. ser[k - 1] = served[n]
      BY ONLY <1>4, <3>2
    <3> QED
      BY <3>1, <3>2, <3>3
  <2> QED
    BY ONLY <2>1, <2>2
<1>6. ASSUME NEW k \in 2..(n + 1), LeavesBody(ser[k - 1]) PROVE k \in st
  <2>1. LeavesBody(served[k - 1]) /\ (k \in 2..n \/ k = n + 1)
    BY ONLY <1>4, <1>6
  <2>2. CASE k \in 2..n
    BY <1>3, <2>1, <2>2
  <2>3. CASE k = n + 1
    <3>1. k - 1 = n /\ n # 0
      BY ONLY <1>2, <1>6, <2>3
    <3> QED
      BY <1>1, <2>1, <2>3, <3>1
  <2> QED
    BY ONLY <2>1, <2>2, <2>3
<1> QED
  BY ONLY <1>2, <1>5, <1>6 DEF StraysExplained

(* A handler that returns success has left the body, unless it is SrsGoApiApi. *)
LEMMA BodyLeft ==
    ASSUME NEW r \in Requests, NEW n, NEW enabled, NEW w, w = CorsServe(n, r, Patterns, enabled),
           n.err = FALSE, [n EXCEPT !.err = TRUE].err = TRUE, ~w.err
    PROVE  LeavesBody(r) <=> r.body # "none" /\ ~ReadsBody(r, Patterns)
<1>1. CASE r.options
  BY ONLY <1>1 DEF LeavesBody, ReadsBody
<1>2. CASE ~r.options
  <2>1. ~Contains(r.path, "..")
    <3>1. ASSUME Contains(r.path, "..") PROVE FALSE
      <4>1. w = [n EXCEPT !.err = TRUE]
        BY ONLY <1>2, <3>1, w = CorsServe(n, r, Patterns, enabled) DEF CorsServe, serve_http
      <4> QED
        BY ONLY <4>1, [n EXCEPT !.err = TRUE].err = TRUE, ~w.err
    <3> QED
      BY ONLY <3>1
  <2>2. match(Patterns, r.path) = Owner(r.path)
    BY MatchOwner, RequestFields DEF Owner
  <2> QED
    BY ONLY <1>2, <2>1, <2>2 DEF LeavesBody, ReadsBody
<1> QED
  BY ONLY <1>1, <1>2

(* A turn of process_requests. *)
LEMMA ConnServes ==
    ASSUME ConnInv, StartInv, NEW p \in Procs, NEW r \in Requests, process_requests(p, r)
    PROVE  ConnTypeOK' /\ AnswersFramed' /\ UnreadInv' /\ conn'.proc \in {p, None}
<1>1. /\ conn.proc = p /\ p # None /\ ConnTypeOK /\ ServerKept(p) /\ AnswersFramed /\ UnreadInv
  BY ProcsAssumption DEF ConnInv, process_requests, Parses
<1>2. PICK left \in 0..MaxWrites, more \in {FALSE, conn.unread} :
        LET mux == proc[p].http_api_mux
            w == CorsServe(SrsHttpResponseWriter(left), r, mux, Files[proc[p].conf].crossdomain)
            c == [conn EXCEPT !.unread = more \/ (r.body # "none" /\ ~ReadsBody(r, mux)),
                              !.strays = IF conn.unread THEN @ \cup {Len(conn.served) + 1} ELSE @,
                              !.served = Append(@, r), !.out = @ \o w.out]
        IN  conn' = IF w.err \/ ~is_keep_alive(r) THEN on_conn_done(c) ELSE c
  BY DEF process_requests
<1>3. left \in Nat
  BY RequestsAssumption
<1>4. PICK w : w = CorsServe(SrsHttpResponseWriter(left), r, Patterns, Files[proc[p].conf].crossdomain)
  OBVIOUS
<1>5. PICK u \in BOOLEAN : u = (more \/ (r.body # "none" /\ ~ReadsBody(r, Patterns)))
  OBVIOUS
<1>6. PICK ser : ser = Append(conn.served, r)
  OBVIOUS
<1>7. PICK all : all = conn.out \o w.out
  OBVIOUS
<1>25. PICK st : st = IF conn.unread THEN conn.strays \cup {Len(conn.served) + 1} ELSE conn.strays
  OBVIOUS
<1>8. PICK c : c = [conn EXCEPT !.unread = u, !.strays = st, !.served = ser, !.out = all]
  OBVIOUS
<1>9. conn' = IF w.err \/ ~r.keep THEN [c EXCEPT !.proc = None] ELSE c
  BY ONLY <1>1, <1>2, <1>4, <1>5, <1>6, <1>7, <1>25, <1>8 DEF ServerKept, is_keep_alive, on_conn_done
<1>10. ~(ReadsBody(r, Patterns) /\ r.body = "other")
  BY <1>1 DEF process_requests, ServerKept
<1>11. AnswerOf(w.out, r, w.err)
  BY ONLY <1>3, <1>4, <1>10, r \in Requests, Answered
<1>12. conn.served \in Seq(Requests) /\ conn.out \in Seq(Item) /\ w.out \in Seq(Item)
  BY <1>1, <1>11 DEF ConnTypeOK, Conn, AnswerOf
<1>13. /\ ser \in Seq(Requests) /\ Len(conn.served) \in Nat /\ Len(ser) = Len(conn.served) + 1
       /\ ser[Len(ser)] = r
       /\ \A i \in 1..Len(ser) : i # Len(ser) => i \in 1..Len(conn.served) /\ ser[i] = conn.served[i]
  BY ONLY <1>6, <1>12, r \in Requests, Appended
<1>14. all \in Seq(Item)
  BY ONLY <1>7, <1>12, Glued
<1>15. PICK err \in BOOLEAN : err <=> w.err
  OBVIOUS
<1>16. PICK closed \in BOOLEAN : closed <=> w.err \/ ~r.keep
  OBVIOUS
<1>17. AnswerOf(w.out, r, err)
  BY <1>11, <1>15 DEF AnswerOf
<1>18. Framed(conn.served, conn.out, FALSE)
  BY <1>1 DEF AnswersFramed
<1>19. Framed(ser, all, closed)
  BY ONLY <1>6, <1>7, <1>12, <1>15, <1>16, <1>17, <1>18, r \in Requests, FramedGrows
<1>26. conn.unread \in BOOLEAN /\ conn.strays \in SUBSET Nat
  BY <1>1 DEF ConnTypeOK, Conn
<1>27. StraysExplained(conn.served, conn.strays) /\ Behind(conn.unread, conn.served, conn.strays)
  BY <1>1 DEF AnswersFramed, UnreadInv
<1>28. st \in SUBSET Nat /\ StraysExplained(ser, st) /\ (conn.unread => Len(ser) \in st)
  <2>1. PICK s : s = conn.served
    OBVIOUS
  <2>2. PICK strays : strays = conn.strays
    OBVIOUS
  <2>3. PICK n : n = Len(s)
    OBVIOUS
  <2>4. /\ s \in Seq(Requests) /\ strays \in SUBSET Nat /\ StraysExplained(s, strays)
        /\ ser = Append(s, r)
    BY ONLY <1>6, <1>12, <1>26, <1>27, <2>1, <2>2
  <2>5. /\ \A k \in strays : k \in st
        /\ \A k \in st : k \notin strays => /\ k = n + 1 /\ n # 0
                                          /\ (n \in strays \/ LeavesBody(s[n]))
        /\ n # 0 => (LeavesBody(s[n]) => n + 1 \in st)
    BY ONLY <1>25, <1>27, <2>1, <2>2, <2>3 DEF Behind
  <2>6. StraysExplained(ser, st)
    BY ONLY <2>3, <2>4, <2>5, r \in Requests, StraysGrow
  <2> QED
    BY ONLY <1>13, <1>25, <1>26, <2>6
<1>20. c.proc = p /\ c.served = ser /\ c.out = all /\ c.unread = u /\ c.strays = st
  BY ONLY <1>1, <1>8 DEF ConnTypeOK, Conn
<1>21. /\ conn'.proc = IF closed THEN None ELSE p
       /\ conn'.served = ser /\ conn'.out = all /\ conn'.strays = st /\ conn'.unread = u /\ ConnTypeOK'
  <2>1. c \in Conn
    BY ONLY <1>1, <1>5, <1>8, <1>13, <1>14, <1>28 DEF ConnTypeOK, Conn
  <2> QED
    BY ONLY <1>9, <1>16, <1>20, <2>1 DEF ConnTypeOK, Conn
<1>22. conn'.proc = None <=> closed
  BY <1>1, <1>21
<1>23. ASSUME NEW k \in 1..Len(ser), ~ser[k].keep PROVE k = Len(ser) /\ closed
  <2>1. CASE k = Len(ser)
    BY <1>13, <1>16, <1>23, <2>1
  <2>2. CASE k # Len(ser)
    <3>1. k \in 1..Len(conn.served) /\ ~conn.served[k].keep
      BY <1>13, <1>23, <2>2
    <3> QED
      BY <1>1, <3>1 DEF AnswersFramed
  <2> QED
    BY <2>1, <2>2
<1>24. Framed(conn'.served, conn'.out, conn'.proc = None)
  BY <1>19, <1>21, <1>22
<1>29. ASSUME ~closed PROVE Behind(u, ser, st)
  <2>1. PICK n : n = SrsHttpResponseWriter(left)
    OBVIOUS
  <2>2. n.err = FALSE /\ [n EXCEPT !.err = TRUE].err = TRUE
    BY ONLY <2>1 DEF SrsHttpResponseWriter
  <2>3. LeavesBody(r) <=> r.body # "none" /\ ~ReadsBody(r, Patterns)
    BY ONLY <1>4, <1>16, <1>29, <2>1, <2>2, r \in Requests, BodyLeft
  <2>4. Len(ser) # 0 /\ ser[Len(ser)] = r
    BY ONLY <1>13
  <2>5. more => conn.unread
    BY ONLY <1>2
  <2> QED
    BY ONLY <1>5, <1>28, <2>3, <2>4, <2>5 DEF Behind
<1>30. UnreadInv'
  BY <1>21, <1>22, <1>29 DEF UnreadInv
<1> QED
  BY <1>21, <1>22, <1>23, <1>24, <1>28, <1>30 DEF AnswersFramed

(* A step of another kind leaves the connection alone, and its process too. *)
LEMMA ConnKept ==
    ASSUME StartInv, ConnInv, NEW p \in Procs, NEW new, proc' = [proc EXCEPT ![p] = new],
           Becomes(proc[p], new), KeepConn
    PROVE  ConnInv'
<1>1. \A q \in Procs : proc'[q] = IF q = p THEN new ELSE proc[q]
  BY DEF StartInv, StartTypeOK
<1>2. \A q \in Procs : Heard(proc'[q]) /\ (ServerKept(q) => ServerKept(q)')
  BY <1>1 DEF Becomes, ConnInv, ServerKept
<1>3. CASE conn.proc = None
  <2>1. conn' = [NoConn EXCEPT !.proc = None]
    BY <1>3, ForgottenConn DEF KeepConn
  <2>2. ConnTypeOK' /\ AnswersFramed' /\ UnreadInv' /\ conn'.proc = None
    BY <2>1, NewConn
  <2> QED
    BY <1>2, <2>1, <2>2 DEF ConnInv
<1>4. CASE conn.proc # None
  <2>1. conn' = conn /\ conn.proc \in Procs
    BY <1>4 DEF KeepConn, ConnInv, ConnTypeOK, Conn
  <2>2. ConnTypeOK' /\ AnswersFramed' /\ UnreadInv'
    BY <2>1 DEF ConnInv, ConnTypeOK, AnswersFramed, UnreadInv
  <2> QED
    BY <1>2, <1>4, <2>1, <2>2 DEF ConnInv
<1> QED
  BY <1>3, <1>4

(* A client of the API is accepted: its process is whole. *)
LEMMA ConnAccepted ==
    ASSUME StartInv, ConnInv, NEW p \in Procs, NEW t \in Listeners, accept_client(p, t)
    PROVE  ConnInv'
<1>1. Accept(p, t) /\ Heard(proc[p]) /\ Whole_(p)
  BY DEF accept_client, ConnInv, StartInv
<1>2. PICK new : proc' = [proc EXCEPT ![p] = new] /\ Becomes(proc[p], new)
  BY <1>1, ClientBecomes
<1>3. CASE KeepConn
  BY <1>2, <1>3, ConnKept
<1>4. CASE t # "HttpProxy" /\ conn' = [NoConn EXCEPT !.proc = p]
  <2>1. proc[p].hybrid = "wait" /\ proc[p].listener[t] = "accepting"
    BY <1>1 DEF Accept, CanAccept, MayRun
  <2>2. proc[p].http_api_mux = Patterns
    BY <1>1, <1>4, <2>1 DEF Heard, Listeners, Whole_, None
  <2>3. \A q \in Procs : proc'[q] = IF q = p THEN new ELSE proc[q]
    BY <1>2 DEF StartInv, StartTypeOK
  <2>4. ServerKept(p)' /\ \A q \in Procs : Heard(proc'[q])
    BY <1>2, <2>1, <2>2, <2>3 DEF Becomes, ConnInv, ServerKept
  <2>5. ConnTypeOK' /\ AnswersFramed' /\ UnreadInv' /\ conn'.proc = p
    BY <1>4, NewConn
  <2> QED
    BY <2>4, <2>5 DEF ConnInv
<1> QED
  BY <1>3, <1>4 DEF accept_client

(* A process ends, and with it the connection it serves. *)
LEMMA ConnGone ==
    ASSUME StartInv, ConnInv, NEW p \in Procs, Gone(p), CloseWith(p)
    PROVE  ConnInv'
<1>1. proc[p].conf \in Confs
  BY DEF StartInv, StartTypeOK, Process
<1>2. PICK new : new = Down(proc[p].conf)
  OBVIOUS
<1>3. Heard(new)
  BY <1>1, <1>2, DownFacts DEF Heard, Listeners
<1>4. \A q \in Procs : proc'[q] = IF q = p THEN new ELSE proc[q]
  BY <1>2 DEF Gone, StartInv, StartTypeOK
<1>5. \A q \in Procs : Heard(proc'[q])
  BY <1>3, <1>4 DEF ConnInv
<1>6. CASE conn.proc = p
  <2>1. conn' = [conn EXCEPT !.proc = None]
    BY <1>6 DEF CloseWith
  <2>2. ConnTypeOK' /\ AnswersFramed' /\ UnreadInv' /\ conn'.proc = None
    BY <2>1, ConnCloses DEF ConnInv
  <2> QED
    BY <1>5, <2>2 DEF ConnInv
<1>7. CASE conn.proc = None /\ conn.proc # p
  <2>1. conn' = [NoConn EXCEPT !.proc = None]
    BY <1>7, ForgottenConn DEF CloseWith
  <2>2. ConnTypeOK' /\ AnswersFramed' /\ UnreadInv' /\ conn'.proc = None
    BY <2>1, NewConn
  <2> QED
    BY <1>5, <2>1, <2>2 DEF ConnInv
<1>8. CASE conn.proc # None /\ conn.proc # p
  <2>1. conn' = conn /\ conn.proc \in Procs
    BY <1>8 DEF CloseWith, ConnInv, ConnTypeOK, Conn
  <2>2. ConnTypeOK' /\ AnswersFramed' /\ UnreadInv'
    BY <2>1 DEF ConnInv, ConnTypeOK, AnswersFramed, UnreadInv
  <2>3. ServerKept(conn.proc)'
    BY <1>4, <1>8, <2>1 DEF ConnInv, ServerKept
  <2> QED
    BY <1>5, <2>1, <2>2, <2>3 DEF ConnInv
<1> QED
  BY <1>6, <1>7, <1>8

LEMMA ConnNext == StartInv /\ ConnInv /\ [Next]_vars => ConnInv'
<1> SUFFICES ASSUME StartInv, ConnInv, [Next]_vars PROVE ConnInv'
  OBVIOUS
<1>1. CASE UNCHANGED vars
  BY <1>1 DEF vars, startVars, ConnInv, ConnTypeOK, ServerKept, UnreadInv, AnswersFramed
<1>2. CASE Next
  <2>1. PICK p \in Procs :
        \/ Turn(p)
        \/ Serve(p)
        \/ (do_main(p) \/ Fails(p)) /\ KeepConn
        \/ Killed(p) /\ CloseWith(p)
        \/ \E t \in Listeners :
              \/ accept_client(p, t)
              \/ (Connect(p, t) \/ AcceptFails(p, t)) /\ KeepConn
    BY <1>2 DEF Next
  <2>2. Heard(proc[p])
    BY DEF ConnInv
  <2>3. CASE Turn(p) \/ ((do_main(p) \/ Fails(p)) /\ KeepConn)
    <3>1. \E new : proc' = [proc EXCEPT ![p] = new] /\ Becomes(proc[p], new)
      BY <2>2, <2>3, MainBecomes, ThreadBecomes DEF Turn, StartStep
    <3> QED
      BY <2>3, <3>1, ConnKept DEF Turn
  <2>4. ASSUME NEW t \in Listeners,
               accept_client(p, t) \/ ((Connect(p, t) \/ AcceptFails(p, t)) /\ KeepConn)
        PROVE  ConnInv'
    <3>1. CASE accept_client(p, t)
      BY <3>1, ConnAccepted
    <3>2. CASE (Connect(p, t) \/ AcceptFails(p, t)) /\ KeepConn
      BY <2>2, <3>2, ClientBecomes, ConnKept
    <3> QED
      BY <2>4, <3>1, <3>2
  <2>5. CASE Killed(p) /\ CloseWith(p)
    BY <2>5, ConnGone DEF Killed
  <2>6. CASE ParseFails(p)
    <3>1. conn' = [conn EXCEPT !.proc = None] /\ UNCHANGED proc
      BY <2>6 DEF ParseFails, on_conn_done, startVars
    <3>2. ConnTypeOK' /\ AnswersFramed' /\ UnreadInv' /\ conn'.proc = None
      BY <3>1, ConnCloses DEF ConnInv
    <3> QED
      BY <3>1, <3>2 DEF ConnInv
  <2>7. ASSUME NEW r \in Requests, process_requests(p, r) PROVE ConnInv'
    <3>1. ConnTypeOK' /\ AnswersFramed' /\ UnreadInv' /\ conn'.proc \in {p, None}
      BY <2>7, ConnServes
    <3>2. conn.proc = p /\ p # None /\ UNCHANGED proc
      BY <2>7, ProcsAssumption DEF process_requests, Parses, startVars
    <3> QED
      BY <3>1, <3>2 DEF ConnInv, ServerKept
  <2>8. ASSUME NEW r \in Requests, NullObject(p, r) PROVE ConnInv'
    <3>1. Gone(p) /\ CloseWith(p)
      BY <2>8 DEF NullObject, Parses, on_conn_done, CloseWith
    <3> QED
      BY <3>1, ConnGone
  <2> QED
    BY <2>1, <2>3, <2>4, <2>5, <2>6, <2>7, <2>8 DEF Serve
<1> QED
  BY <1>1, <1>2

LEMMA ConnInit == Init => ConnInv
<1> SUFFICES ASSUME Init PROVE ConnInv
  OBVIOUS
<1> DEFINE c == CHOOSE x \in Confs : TRUE
<1>1. c \in Confs
  BY FilesAssumption DEF Confs
<1>2. \A p \in Procs : proc[p] = Down(c)
  BY DEF Init, StartInit
<1> HIDE DEF c
<1>3. \A p \in Procs : Heard(proc[p])
  BY <1>1, <1>2, DownFacts DEF Heard, Listeners
<1>4. conn = [NoConn EXCEPT !.proc = None]
  BY ForgottenConn DEF Init
<1>5. ConnTypeOK /\ AnswersFramed /\ UnreadInv /\ conn.proc = None
  BY <1>4, NothingServed DEF ConnTypeOK, AnswersFramed, UnreadInv
<1> QED
  BY <1>3, <1>5 DEF ConnInv

(***************************************************************************)
(* process_requests, SrsHttpServeMux and SrsHttpResponseWriter: for any    *)
(* number of requests on a connection, any processes behind it and a       *)
(* socket that fails at any write, the client can cut what it receives at  *)
(* the headers into the answers to the messages that were served, in order *)
(* and whole; only the last may be incomplete, and only on a connection    *)
(* that is closed; and a message that is not the client's own request only *)
(* follows on a body that its handler left unread.                         *)
(***************************************************************************)
THEOREM AnswersKeepTheirFrames == Spec => []AnswersFramed
<1>1. Init => StartInv /\ ConnInv
  BY StartInitInv, ConnInit DEF Init
<1>2. StartInv /\ ConnInv /\ [Next]_vars => (StartInv /\ ConnInv)'
  BY NextInv, ConnNext
<1>3. StartInv /\ ConnInv => AnswersFramed
  BY DEF ConnInv
<1> QED
  BY <1>1, <1>2, <1>3, PTL DEF Spec
=============================================================================
