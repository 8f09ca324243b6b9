------------------------------ MODULE Startup -------------------------------
(***************************************************************************)
(* How the program comes up: main and SrsThreadPool (the pid file, the     *)
(* hybrid thread), SrsHybridServer, SrsServerAdapter::run with the         *)
(* listeners of SrsServer, the wait group, and the accept loops.           *)
(*                                                                         *)
(* A process has two threads.  The primordial one ends in                  *)
(* SrsThreadPool::run, a loop that never looks at the other.  The hybrid   *)
(* thread runs its coroutines: until its main coroutine waits in the wait  *)
(* group it does not yield, so a listener that is already bound collects   *)
(* clients in the kernel's backlog and nobody accepts them before.         *)
(*                                                                         *)
(* The signal manager is initialised and never started (its start is       *)
(* commented out in SrsServerAdapter::run), so no reload and no graceful   *)
(* end ever reaches the server's coroutine: it ends with the process.      *)
(***************************************************************************)
EXTENDS Config, FiniteSets, ApiConn

CONSTANTS
    Procs,          \* the processes
    Files,          \* Files[c]: the configuration in the file c: [root, pid_file, crossdomain]
    MaxLaunches,    \* bound: how often processes are started
    MaxClients      \* bound: how many clients connect

None == "none"

ASSUME ProcsAssumption == None \notin Procs
ASSUME FilesAssumption == DOMAIN Files # {}

Listeners == {"HttpApi", "HttpsApi", "HttpProxy"}

(***************************************************************************)
(* proc[p]: conf, the file it was configured with; main and hybrid, where  *)
(* the primordial thread and the main coroutine of the hybrid thread are;  *)
(* reuse_api_over_server_; listener[t], "accepting", or "deaf" when its    *)
(* socket is open and its coroutine is not there; backlog[t], the clients  *)
(* the kernel holds for it; conn_manager, whether that coroutine runs;     *)
(* http_api_mux, the patterns registered; trd_, whether the coroutine of   *)
(* SrsServer is started; nn_, the count of the wait group; failed, the     *)
(* listeners whose accept failed.                                          *)
(***************************************************************************)
VARIABLES
    proc,
    pid_lock,       \* pid_lock[f]: the process that has locked the pid file f
    launches, clients

startVars == <<proc, pid_lock, launches, clients>>

Confs == DOMAIN Files
PidFiles == {Files[c].pid_file : c \in Confs}

(* A process that is not there: what it had the kernel has taken back. *)
Down(c) ==
    [conf |-> c, main |-> "down", hybrid |-> None, reuse_api_over_server_ |-> FALSE,
     listener |-> [t \in Listeners |-> None], backlog |-> [t \in Listeners |-> 0],
     conn_manager |-> FALSE, http_api_mux |-> {}, trd_ |-> FALSE, nn_ |-> 0, failed |-> {}]

StartInit ==
    /\ proc = [p \in Procs |-> Down(CHOOSE c \in Confs : TRUE)]
    /\ pid_lock = [f \in PidFiles |-> None]
    /\ launches = 0
    /\ clients = 0

-----------------------------------------------------------------------------
(* The primordial thread *)

Gone(p) ==
    /\ proc' = [proc EXCEPT ![p] = Down(@.conf)]
    /\ pid_lock' = [f \in PidFiles |-> IF pid_lock[f] = p THEN None ELSE pid_lock[f]]
    /\ UNCHANGED <<launches, clients>>

(* do_main up to run_in_thread_pool; a daemon is the grandchild. *)
do_main(p) ==
    /\ proc[p].main = "down"
    /\ launches < MaxLaunches
    /\ launches' = launches + 1
    /\ \E c \in Confs : proc' = [proc EXCEPT ![p] = [Down(c) EXCEPT !.main = "pid"]]
    /\ UNCHANGED <<pid_lock, clients>>

(* Mutant: the file is opened and the lock is not asked for. *)
Bug_NoLock(p) ==
    /\ proc[p].main = "pid"
    /\ proc' = [proc EXCEPT ![p].main = "execute"]
    /\ UNCHANGED <<pid_lock, launches, clients>>

(***************************************************************************)
(* acquire_pid_file.  The descriptor is dropped and never closed (the      *)
(* assignment to pid_fd is commented out), which keeps the lock until the  *)
(* process ends.  When another process has it, or the file cannot be       *)
(* opened, main returns the error.                                         *)
(***************************************************************************)
acquire_pid_file(p) ==
    LET f == Files[proc[p].conf].pid_file
    IN  /\ proc[p].main = "pid"
        /\ \/ /\ pid_lock[f] = None
              /\ pid_lock' = [pid_lock EXCEPT ![f] = p]
              /\ proc' = [proc EXCEPT ![p].main = "execute"]
              /\ UNCHANGED <<launches, clients>>
           \/ Gone(p)

(* execute("hybrid", run_hybrid_server), or the thread cannot be created. *)
execute(p) ==
    /\ proc[p].main = "execute"
    /\ \/ /\ proc' = [proc EXCEPT ![p].main = "run", ![p].hybrid = "thread"]
          /\ UNCHANGED <<pid_lock, launches, clients>>
       \/ Gone(p)

(* The process is killed: no signal is caught. *)
Killed(p) == proc[p].main # "down" /\ Gone(p)

-----------------------------------------------------------------------------
(* The hybrid thread, up to its first yield *)

(* A call of the main coroutine at one stage, which takes it to the next. *)
Call(p, stage, done) ==
    /\ proc[p].hybrid = stage
    /\ proc' = [proc EXCEPT ![p] = done]
    /\ UNCHANGED <<pid_lock, launches, clients>>

(* SrsThreadPool::start, SrsHybridServer::initialize, the breaker. *)
start(p) == Call(p, "thread", [proc[p] EXCEPT !.hybrid = "initialize"])

(* SrsServer::initialize: whether the API shares the ports of the stream server. *)
Reuse == [c \in Confs |->
    LET root == Files[c].root
    IN  /\ get_http_stream_enabled(root)
        /\ get_http_api_enabled(root)
        /\ get_http_api_listen(root) = get_http_stream_listen(root)
        /\ get_https_api_listen(root) = get_https_stream_listen(root)]

(* SrsServer::initialize, initialize_st and initialize_signal. *)
initialize(p) ==
    Call(p, "initialize",
         [proc[p] EXCEPT !.hybrid = "HttpApi", !.reuse_api_over_server_ = Reuse[proc[p].conf]])

(* Which of the three listen_ calls opens a socket. *)
Enabled == [c \in Confs |->
    [HttpApi |-> get_http_api_enabled(Files[c].root), HttpsApi |-> get_https_api_enabled(Files[c].root),
     HttpProxy |-> get_http_proxy_enabled(Files[c].root)]]
Wanted(p, t) ==
    /\ Enabled[proc[p].conf][t]
    /\ t # "HttpProxy" => ~proc[p].reuse_api_over_server_

(* listen_http_api, listen_https_api and listen_http_proxy, in that order. *)
After_(t) == CASE t = "HttpApi" -> "HttpsApi" [] t = "HttpsApi" -> "HttpProxy" [] t = "HttpProxy" -> "manager"
listen(p, t) ==
    Call(p, t, [proc[p] EXCEPT !.hybrid = After_(t),
                               !.listener[t] = IF Wanted(p, t) THEN "accepting" ELSE @])

(* conn_manager->start, the end of SrsServer::listen. *)
manager_start(p) == Call(p, "manager", [proc[p] EXCEPT !.hybrid = "handle", !.conn_manager = TRUE])

(* http_handle; with reuse the multiplexer is SrsHttpServer, which keeps nothing. *)
http_handle(p) ==
    Call(p, "handle", [proc[p] EXCEPT !.hybrid = "start",
                                      !.http_api_mux = IF proc[p].reuse_api_over_server_ THEN {} ELSE Patterns])

(* Mutant: the coroutine adds itself to the group when it runs. *)
Bug_AddsLate(p) == Call(p, "start", [proc[p] EXCEPT !.hybrid = "run", !.trd_ = TRUE])

(* SrsServer::start: the coroutine first, then wg->add(1). *)
server_start(p) == Call(p, "start", [proc[p] EXCEPT !.hybrid = "run", !.trd_ = TRUE, !.nn_ = @ + 1])

(* wg.wait() at the end of SrsHybridServer::run: the first yield. *)
wait(p) == Call(p, "run", [proc[p] EXCEPT !.hybrid = IF proc[p].nn_ > 0 THEN "wait" ELSE "ended"])

(***************************************************************************)
(* A call fails and the thread ends with the error in its entry, which     *)
(* nobody reads.  What was bound stays bound; a listen that fails after    *)
(* its bind leaves a socket without a coroutine.                           *)
(***************************************************************************)
Fails(p) ==
    /\ \/ /\ proc[p].hybrid \in {"thread", "initialize", "manager", "start"}
          /\ proc' = [proc EXCEPT ![p].hybrid = "ended"]
       \/ \E t \in Listeners, l \in {None, "deaf"} :
             /\ proc[p].hybrid = t
             /\ Wanted(p, t)
             /\ proc' = [proc EXCEPT ![p].hybrid = "ended", ![p].listener[t] = l]
    /\ UNCHANGED <<pid_lock, launches, clients>>

-----------------------------------------------------------------------------
(* Clients, and SrsTcpListener::cycle *)

Connect(p, t) ==
    /\ proc[p].listener[t] # None
    /\ clients < MaxClients
    /\ clients' = clients + 1
    /\ proc' = [proc EXCEPT ![p].backlog[t] = @ + 1]
    /\ UNCHANGED <<pid_lock, launches>>

(* The other coroutines of a thread run while its main coroutine waits. *)
MayRun(p) == proc[p].hybrid = "wait"

(* Mutant: an error of accept_client leaves the loop. *)
Bug_ClientEndsLoop(p, t) ==
    \E l \in {"accepting", "deaf"} :
        proc' = [proc EXCEPT ![p].backlog[t] = @ - 1, ![p].listener[t] = l]

(* on_tcp_client: whatever becomes of the client, the loop goes on. *)
on_tcp_client(p, t) == proc' = [proc EXCEPT ![p].backlog[t] = @ - 1]

(* A turn of the loop that accepts a client. *)
CanAccept(p, t) == MayRun(p) /\ proc[p].listener[t] = "accepting" /\ proc[p].backlog[t] > 0
Accept(p, t) ==
    /\ CanAccept(p, t)
    /\ on_tcp_client(p, t)
    /\ UNCHANGED <<pid_lock, launches, clients>>

(* accept fails, for want of descriptors say: the loop is left for good. *)
AcceptFails(p, t) ==
    /\ CanAccept(p, t)
    /\ proc' = [proc EXCEPT ![p].listener[t] = "deaf", ![p].failed = @ \union {t}]
    /\ UNCHANGED <<pid_lock, launches, clients>>

StartStep(p) ==
    \/ acquire_pid_file(p) \/ execute(p)
    \/ start(p) \/ initialize(p) \/ (\E t \in Listeners : listen(p, t))
    \/ manager_start(p) \/ http_handle(p) \/ server_start(p) \/ wait(p)

-----------------------------------------------------------------------------
(* Properties *)

(* One server per pid file: of the processes that share a pid file at most
   one has a listening socket, whatever starts, fails and is killed in
   between (acquire_pid_file). *)
Bound(p) == \E t \in Listeners : proc[p].listener[t] # None
OnePerPidFile ==
    \A p, q \in Procs : Bound(p) /\ Bound(q) /\ Files[proc[p].conf].pid_file = Files[proc[q].conf].pid_file => p = q

(* No client before the server is whole: when a listener's coroutine can
   accept a client, everything the connection will use is there (the manager
   that frees it, the handlers it is served by), and once the coroutine of
   the server is started its thread does not end (SrsServerAdapter::run,
   SrsWaitGroup). *)
ServesOnlyWhole ==
    \A p \in Procs :
        /\ (\E t \in Listeners : CanAccept(p, t)) =>
              /\ proc[p].conn_manager
              /\ proc[p].http_api_mux = Patterns \/ proc[p].reuse_api_over_server_
        /\ proc[p].trd_ => proc[p].hybrid \in {"run", "wait"}

(* Clients are accepted: no client stays in the backlog of a listener, unless
   the hybrid thread failed during the start-up or accept itself failed
   (SrsTcpListener::cycle, SrsBufferListener::on_tcp_client). *)
Waits(p, t) == proc[p].backlog[t] > 0 /\ proc[p].hybrid # "ended" /\ t \notin proc[p].failed
ClientsAccepted ==
    (\E p \in Procs, t \in Listeners : Waits(p, t)) ~> (\A p \in Procs, t \in Listeners : ~Waits(p, t))
=============================================================================
