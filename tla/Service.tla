------------------------------ MODULE Service -------------------------------
(***************************************************************************)
(* The program from its start to the answers of its API: the processes of  *)
(* Startup, and one API connection (SrsHttpConn under SrsHttpxConn) that   *)
(* an API listener accepts, served with the multiplexer of its process.    *)
(***************************************************************************)
EXTENDS Startup

CONSTANTS
    Requests,       \* the requests an API client sends
    MaxRequests,    \* bound: how many of them on its connection
    MaxWrites       \* bound: how many writes its socket takes

Request ==
    [path: Seq(STRING), options: BOOLEAN, body: {"none", "junk", "other", "object"},
     jsonp: {"no", "bare", "named"}, keep: BOOLEAN]

ASSUME RequestsAssumption == Requests \subseteq Request /\ MaxWrites \in Nat

(***************************************************************************)
(* conn: the process that serves the connection, or None; unread, whether  *)
(* the next bytes are of a body that a handler left in the buffer; served, *)
(* the requests that were handled; strays, the places in served of those   *)
(* taken from such a body; out, what the client received.                  *)
(***************************************************************************)
VARIABLE conn
vars == <<startVars, conn>>

NoConn == [proc |-> None, unread |-> FALSE, served |-> <<>>, strays |-> {}, out |-> <<>>]

Init == StartInit /\ conn = NoConn

(* A connection is closed with its process, and forgotten once closed. *)
KeepConn     == conn' = IF conn.proc = None THEN NoConn ELSE conn
CloseWith(p) == conn' = IF conn.proc = p THEN [conn EXCEPT !.proc = None] ELSE IF conn.proc = None THEN NoConn ELSE conn

-----------------------------------------------------------------------------
(* SrsHttpxConn and SrsHttpConn *)

(* A client is accepted; one of the API clients is followed.  The handshake
   of the HTTPS API may fail. *)
accept_client(p, t) ==
    /\ Accept(p, t)
    /\ \/ /\ t # "HttpProxy"
          /\ conn.proc = None
          /\ conn' = [NoConn EXCEPT !.proc = p]
       \/ KeepConn

(* The connection ends: on_conn_done hands it to the manager. *)
on_conn_done(c) == [c EXCEPT !.proc = None]

is_keep_alive(r) == r.keep

(* The connection waits in parse_message of process p. *)
Parses(p) == conn.proc = p /\ MayRun(p)

(***************************************************************************)
(* A turn of process_requests: a request is parsed, served through the     *)
(* CORS multiplexer, and the connection kept or ended.  An error, that of  *)
(* a write included, ends it.  A body its handler did not read stays in    *)
(* the buffer, and is parsed next: when it is a request it is served, and  *)
(* the body may hold more.  (process_request and do_cycle return nothing   *)
(* on success; the build does not optimise, and what they leave in the     *)
(* register is the success of the call before.)                            *)
(***************************************************************************)
process_requests(p, r) ==
    LET mux == proc[p].http_api_mux
    IN  /\ Parses(p)
        /\ Len(conn.served) < MaxRequests
        /\ ~(ReadsBody(r, mux) /\ r.body = "other")
        /\ \E left \in 0..MaxWrites, more \in {FALSE, conn.unread} :
              LET w == CorsServe(SrsHttpResponseWriter(left), r, mux, Files[proc[p].conf].crossdomain)
                  c == [conn EXCEPT !.unread = more \/ (r.body # "none" /\ ~ReadsBody(r, mux)),
                                    !.strays = IF conn.unread THEN @ \cup {Len(conn.served) + 1} ELSE @,
                                    !.served = Append(@, r), !.out = @ \o w.out]
              IN  conn' = IF w.err \/ ~is_keep_alive(r) THEN on_conn_done(c) ELSE c
        /\ UNCHANGED startVars

(* SrsGoApiApi uses JSON that is no object through a null pointer: the
   process ends. *)
NullObject(p, r) ==
    /\ Parses(p)
    /\ Len(conn.served) < MaxRequests
    /\ ReadsBody(r, proc[p].http_api_mux)
    /\ r.body = "other"
    /\ Gone(p)
    /\ conn' = on_conn_done(conn)

(* parse_message fails: the client closes, the read times out, or what is
   in the buffer, the body of the last request perhaps, is no request. *)
ParseFails(p) ==
    /\ Parses(p)
    /\ conn' = on_conn_done(conn)
    /\ UNCHANGED startVars

-----------------------------------------------------------------------------

Turn(p) == StartStep(p) /\ KeepConn
Serve(p) == ParseFails(p) \/ \E r \in Requests : process_requests(p, r) \/ NullObject(p, r)

Next ==
    \E p \in Procs :
        \/ Turn(p)
        \/ Serve(p)
        \/ (do_main(p) \/ Fails(p)) /\ KeepConn
        \/ Killed(p) /\ CloseWith(p)
        \/ \E t \in Listeners :
              \/ accept_client(p, t)
              \/ (Connect(p, t) \/ AcceptFails(p, t)) /\ KeepConn

(* As long as a start-up or a listener can go on, one of them does. *)
Step == \E p \in Procs : Turn(p) \/ \E t \in Listeners : accept_client(p, t)
Spec == Init /\ [][Next]_vars /\ WF_vars(Step)

-----------------------------------------------------------------------------
(* Properties *)

(* Whose a path is: a handler's own, or anything else below /api/. *)
Owner(path) ==
    IF path \in {Mytest, Stats} THEN path ELSE IF IsPrefix(Api, path) THEN Api ELSE <<>>

(* The request that gets no answer: its body is not JSON, or is empty. *)
Silent(r) == ~r.options /\ Owner(r.path) = Api /\ r.body \in {"none", "junk"}

(* The answers a request may have, as status and length. *)
AnswersTo(r) ==
    LET data == IF Owner(r.path) = Stats THEN 2 ELSE 1
        frame == CASE r.jsonp = "no" -> 0 [] r.jsonp = "bare" -> 2 [] r.jsonp = "named" -> 3
    IN  CASE r.options -> {<<200, 0>>, <<405, 0>>}
          [] ~r.options /\ Owner(r.path) = <<>> -> {<<404, 1>>}
          [] OTHER -> {<<200, data + frame>>}

(* Where an answer may begin or end, for the client: at a header or at the
   end of what it received. *)
Headers(out) == {i \in DOMAIN out : out[i][1] = "head"}
Cuts(out) == {i - 1 : i \in Headers(out)} \union {Len(out)}

(* From i to j, out is the answer to r: a header and as many units as it
   announces, or nothing for a request that gets no answer; less of it when
   the connection was cut. *)
AnswerIn(out, r, i, j, cut) ==
    \/ i = j /\ (Silent(r) \/ cut)
    \/ /\ i < j /\ ~Silent(r)
       /\ \E a \in AnswersTo(r) :
             /\ out[i + 1] = <<"head", a[1], a[2]>>
             /\ \A u \in (i + 2)..j : out[u] = <<"data">>
             /\ j - i - 1 = a[2] \/ (cut /\ j - i - 1 <= a[2])

(* What the client receives can be cut into the answers to served. *)
Framed(served, out, closed) ==
    LET n == Len(served)
    IN  \E end \in [0..n -> Cuts(out)] :
            /\ end[0] = 0
            /\ end[n] = Len(out)
            /\ \A k \in 1..n : AnswerIn(out, served[k], end[k - 1], end[k], k = n /\ closed)

(* The requests whose handler leaves the body in the buffer. *)
LeavesBody(r) == r.body # "none" /\ (r.options \/ Owner(r.path) # Api)

(* A message is taken from a body, and not one that the client sent, exactly
   when the handler of the message before left a body behind, or when that
   message was taken from a body which held more. *)
StraysExplained(served, strays) ==
    /\ \A k \in strays : /\ k \in 2..Len(served)
                         /\ k - 1 \in strays \/ LeavesBody(served[k - 1])
    /\ \A k \in 2..Len(served) : LeavesBody(served[k - 1]) => k \in strays

(* Answers on an API connection: what the client receives can be cut at its
   headers into one answer for each message that was served, in order, with
   the status and the length of its own handler's answer and every unit of
   it, apart from the requests SrsGoApiApi leaves unanswered; only the last
   may be incomplete, and only once the connection is closed; nothing is
   served after a request that asked for the connection to be closed; and
   the messages are the client's own requests as long as it sends bodies to
   the handler that reads them (SrsHttpConn, SrsHttpServeMux,
   SrsHttpResponseWriter). *)
AnswersFramed ==
    /\ Framed(conn.served, conn.out, conn.proc = None)
    /\ \A k \in 1..Len(conn.served) :
          ~conn.served[k].keep => k = Len(conn.served) /\ conn.proc = None
    /\ StraysExplained(conn.served, conn.strays)
=============================================================================
