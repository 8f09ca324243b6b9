----------------------------- MODULE ProxyConn ------------------------------
(***************************************************************************)
(* One client connection of the proxy: SrsHttpxProxyConn                   *)
(* (app/srs_app_http_conn.cpp), from the peek that tells http from https   *)
(* to the end of its coroutine, together with the client that sends        *)
(* requests and the server, or next hop, it talks to.                      *)
(*                                                                         *)
(* A request is its number, its destination and what the code looks at; a  *)
(* response names the request it answers.  The http loop and the loop of a *)
(* decrypted https connection run the same steps after the request is      *)
(* parsed; is_https tells them apart.                                      *)
(*                                                                         *)
(* One read may bring several messages.  What it brings beyond the message *)
(* that is handed over stays in the parser's buffer, which outlives the    *)
(* server connection it was filled from.                                   *)
(***************************************************************************)
EXTENDS Naturals, Sequences

CONSTANTS
    Hosts,              \* destination domains
    BlackList,          \* policy: black_list
    TunnelDomains,      \* policy: tunnel_domain
    HttpsDescrypt,      \* policy: https_descrypt
    Statuses,           \* responses servers give: "final", "interim" (1xx), "switch" (101)
    Bodies,             \* response bodies: "none", "length", "chunked", "unframed"
    Burst,              \* bound: requests one read from the client may bring
    MaxRequests         \* bound: requests of one client connection

ASSUME HostsAssumption == Hosts # {}
ASSUME PolicyAssumption == BlackList \subseteq Hosts /\ TunnelDomains \subseteq Hosts
ASSUME ConfigAssumption == HttpsDescrypt \in BOOLEAN
ASSUME ServerAssumption ==
    /\ Statuses \subseteq {"final", "interim", "switch"}
    /\ Bodies \subseteq {"none", "length", "chunked", "unframed"}
    /\ MaxRequests \in Nat \ {0} /\ Burst \in Nat \ {0}

VARIABLES
    pc,             \* where the coroutine is
    connect,        \* the client's first request is a CONNECT
    is_https,       \* what check_http_or_https made of it
    next_hip,       \* config: next_hip_proxy enabled
    gone,           \* the client has gone: every further write to it fails
    req,            \* client_http_req, or client_connect_req before the first
    resp,           \* server_http_resp
    svr_skt,        \* the server connection; to = "null" when there is none
    inbox, outbox,  \* requests at the server and responses on their way
    svrBuf,         \* responses read ahead into server_parser->buffer
    nreq,           \* requests the client has sent
    forwarded,      \* requests given to a server, with the server's name
    toClient,       \* responses given to the client
    log,            \* numbers of the requests in the access log
    outcome         \* how the coroutine ended: "running", "done" or "error"

connVars == <<connect, is_https, next_hip, gone>>
svrVars  == <<svr_skt, inbox, outbox, svrBuf>>
ghosts   == <<forwarded, toClient, log>>
vars     == <<pc, connVars, req, resp, svrVars, nreq, ghosts, outcome>>

Request  == [id: 0..MaxRequests, host: Hosts, keep: BOOLEAN, body: {"whole", "continued", "cut"}]
Response == [re: 0..MaxRequests, status: Statuses \cup {"own"}, keep: BOOLEAN,
             body: Bodies \cup {"none"}]
Answered == [re: 0..MaxRequests, to: 0..MaxRequests, status: Statuses \cup {"own"},
             body: Bodies \cup {"none"}, whole: BOOLEAN]
Server   == [to: Hosts \cup {"null", "next_hip"}, up: BOOLEAN]

(***************************************************************************)
(* The type invariant of the connection and of what its peers have seen.   *)
(***************************************************************************)
TypeOK ==
    /\ pc \in {"peek", "parse_http", "parse_connect", "connect", "hop_reply", "established",
               "svr_handshake", "clt_handshake", "parse_https", "forward", "response",
               "relay", "finish", "tunnel", "closed"}
    /\ {connect, is_https, next_hip, gone} \subseteq BOOLEAN
    /\ req \in Request
    /\ resp \in Response
    /\ svr_skt \in Server
    /\ inbox \in Seq(Request) /\ outbox \in Seq(Response) /\ svrBuf \in Seq(Response)
    /\ nreq \in 0..MaxRequests
    /\ forwarded \subseteq [id: 1..MaxRequests, host: Hosts, to: Hosts \cup {"next_hip"}]
    /\ toClient \in Seq(Answered)
    /\ log \in Seq(1..MaxRequests)
    /\ outcome \in {"running", "done", "error"}

NoServer == [to |-> "null", up |-> FALSE]

(* A response the proxy makes itself: the 403 page, the 200 for a CONNECT. *)
Own(id) == [re |-> id, status |-> "own", keep |-> FALSE, body |-> "none"]

(***************************************************************************)
(* The header of response r is written to the client, as the answer to     *)
(* request id; what the write returns is ignored.  An answer is whole once *)
(* every write of it has succeeded.                                        *)
(***************************************************************************)
Given(r, id) ==
    toClient' = Append(toClient, [re |-> r.re, to |-> id, status |-> r.status, body |-> r.body,
                                  whole |-> r.body = "none" /\ ~gone])

(* The constructor; req and resp hold nothing the code reads before setting. *)
Init ==
    /\ pc = "peek" /\ connect \in BOOLEAN /\ is_https = FALSE /\ next_hip \in BOOLEAN
    /\ gone = FALSE
    /\ req = [id |-> 0, host |-> CHOOSE h \in Hosts : TRUE, keep |-> TRUE, body |-> "whole"]
    /\ resp = Own(0)
    /\ svr_skt = NoServer /\ inbox = <<>> /\ outbox = <<>> /\ svrBuf = <<>>
    /\ nreq = 0 /\ forwarded = {} /\ toClient = <<>> /\ log = <<>>
    /\ outcome = "running"

(* The coroutine's cycle is over; destructors close both sockets. *)
End(how) == pc' = "closed" /\ outcome' = how

(***************************************************************************)
(* The next requests of the client: any destination, possibly cut short.   *)
(* parse_message hands over the last of those that one read brought (see   *)
(* HandedOver); the others are lost.                                       *)
(***************************************************************************)
ClientSends(r) ==
    /\ nreq < r.id /\ r.id <= nreq + Burst
    /\ nreq' = r.id
    /\ r \in [id: 1..MaxRequests, host: Hosts, keep: BOOLEAN, body: {"whole", "cut"}]

-----------------------------------------------------------------------------
(* The start of the connection *)

(***************************************************************************)
(* peek returns what the first segment brought.  With fewer than seven     *)
(* bytes of a CONNECT, strcasecmp also compares bytes of buf that nothing  *)
(* was written to.  The other methods differ in their first byte.          *)
(***************************************************************************)
check_http_or_https(whole) ==
    /\ pc = "peek"
    /\ is_https' \in IF ~connect THEN {FALSE} ELSE IF whole THEN {TRUE} ELSE BOOLEAN
    /\ pc' = IF is_https' THEN "parse_connect" ELSE "parse_http"
    /\ UNCHANGED <<connect, next_hip, gone, req, resp, svrVars, nreq, ghosts, outcome>>

(* The client closes, times out or sends what is not http: cycle ends. *)
ClientFails ==
    /\ pc \in {"peek", "parse_http", "parse_connect", "parse_https", "clt_handshake"}
    /\ End("error")
    /\ UNCHANGED <<connVars, req, resp, svrVars, nreq, ghosts>>

(* The client resets the connection; requests it has sent may still be read. *)
ClientGoes ==
    /\ pc # "closed" /\ ~gone
    /\ gone' = TRUE
    /\ UNCHANGED <<pc, connect, is_https, next_hip, req, resp, svrVars, nreq, ghosts, outcome>>

-----------------------------------------------------------------------------
(* The server connection: SrsTcpClient *)

(***************************************************************************)
(* new SrsTcpClient: the next hop gets a new one for every request, an     *)
(* origin server only when there is none yet.                              *)
(***************************************************************************)
PrepareServer(r) ==
    svr_skt' = [to |-> IF next_hip THEN "next_hip"
                       ELSE IF svr_skt.to = "null" THEN r.host ELSE svr_skt.to,
                up |-> ~next_hip /\ svr_skt.up]

(***************************************************************************)
(* SrsTcpClient::connect dials, and on success closes the previous         *)
(* connection and replaces the io object.  The recv timeout was set on the *)
(* one it replaces: a wait for the server's answer has no timeout.         *)
(***************************************************************************)
Connect ==
    /\ pc = "connect"
    /\ svr_skt' = [svr_skt EXCEPT !.up = TRUE]
    /\ inbox' = <<>> /\ outbox' = <<>>
    /\ pc' = IF ~is_https THEN "forward" ELSE IF next_hip THEN "hop_reply" ELSE "established"
    /\ UNCHANGED <<connVars, req, resp, svrBuf, nreq, ghosts, outcome>>

ConnectFails ==
    /\ pc = "connect"
    /\ End("error")
    /\ UNCHANGED <<connVars, req, resp, svrVars, nreq, ghosts>>

-----------------------------------------------------------------------------
(* Requests *)

(* The 403 page: the connection ends after it. *)
prepare403block(r) ==
    /\ Given(Own(r.id), r.id)
    /\ End("done")
    /\ UNCHANGED <<svr_skt, log, forwarded>>

(* The head of the http loop. *)
ParseHttp(r) ==
    /\ pc = "parse_http"
    /\ ClientSends(r)
    /\ req' = r
    /\ IF r.host \in BlackList
       THEN prepare403block(r)
       ELSE PrepareServer(r) /\ pc' = "connect" /\ UNCHANGED <<outcome, ghosts>>
    /\ UNCHANGED <<connVars, resp, inbox, outbox, svrBuf>>

(* Mutant: the black list is not looked up for decrypted requests. *)
Bug_HttpsNotFiltered(r) ==
    /\ pc = "parse_https"
    /\ ClientSends(r)
    /\ req' = r
    /\ pc' = "forward" /\ UNCHANGED <<svr_skt, outcome, ghosts>>
    /\ UNCHANGED <<connVars, resp, inbox, outbox, svrBuf>>

(* The head of the loop on decrypted requests; the server stays. *)
ParseHttps(r) ==
    /\ pc = "parse_https"
    /\ ClientSends(r)
    /\ req' = r
    /\ IF r.host \in BlackList
       THEN prepare403block(r)
       ELSE pc' = "forward" /\ UNCHANGED <<svr_skt, outcome, ghosts>>
    /\ UNCHANGED <<connVars, resp, inbox, outbox, svrBuf>>

(***************************************************************************)
(* The header is written, the body read from the client and written: what  *)
(* the writes and body_read_all return is ignored, so a body cut short is  *)
(* passed on as far as it came.                                            *)
(***************************************************************************)
ForwardRequest ==
    /\ pc = "forward"
    /\ inbox' = IF svr_skt.up THEN Append(inbox, req) ELSE inbox
    /\ forwarded' = forwarded \cup {[id |-> req.id, host |-> req.host, to |-> svr_skt.to]}
    /\ pc' = "response"
    /\ UNCHANGED <<connVars, req, resp, svr_skt, outbox, svrBuf, nreq, toClient, log, outcome>>

-----------------------------------------------------------------------------
(* Responses *)

(***************************************************************************)
(* http_parser_execute runs over the whole buffer, from one message to the *)
(* next, and every complete header replaces the one before.  It stops      *)
(* early only at a 101 or in a body that ends with the connection.         *)
(***************************************************************************)
HandedOver(buf) ==
    LET stops == {k \in 1..Len(buf) : \/ k = Len(buf)
                                      \/ buf[k].status = "switch"
                                      \/ buf[k].body = "unframed"}
    IN  CHOOSE k \in stops : \A j \in stops : k <= j

(* Mutant: the message is not consumed from the buffer. *)
Bug_NotConsumed(n) ==
    LET buf == svrBuf \o SubSeq(outbox, 1, n)
    IN  /\ pc = "response"
        /\ n \in IF svrBuf # <<>> THEN {0} ELSE 1..Len(outbox)
        /\ resp' = buf[HandedOver(buf)]
        /\ svrBuf' = buf
        /\ outbox' = SubSeq(outbox, n + 1, Len(outbox))
        /\ Given(resp', req.id)
        /\ pc' = IF resp'.body \in {"length", "chunked"} THEN "relay" ELSE "finish"
        /\ UNCHANGED <<connVars, req, svr_skt, inbox, nreq, forwarded, log, outcome>>

(***************************************************************************)
(* parse_message works on what is in the buffer, and reads one or more of  *)
(* the responses that have arrived when there is nothing.  The header of   *)
(* the one it hands over goes to the client.                               *)
(***************************************************************************)
ParseResponse(n) ==
    LET buf == svrBuf \o SubSeq(outbox, 1, n)
    IN  /\ pc = "response"
        /\ n \in IF svrBuf # <<>> THEN {0} ELSE 1..Len(outbox)
        /\ resp' = buf[HandedOver(buf)]
        /\ svrBuf' = SubSeq(buf, HandedOver(buf) + 1, Len(buf))
        /\ outbox' = SubSeq(outbox, n + 1, Len(outbox))
        /\ Given(resp', req.id)
        /\ pc' = IF resp'.body \in {"length", "chunked"} THEN "relay" ELSE "finish"
        /\ UNCHANGED <<connVars, req, svr_skt, inbox, nreq, forwarded, log, outcome>>

(* Mutant: a failed read is tried again. *)
Bug_ReadRetried ==
    /\ pc = "response" /\ svrBuf = <<>> /\ outbox = <<>> /\ ~svr_skt.up
    /\ UNCHANGED vars

(* Mutant: the error of parse_message is not returned. *)
Bug_ErrorSwallowed ==
    /\ pc = "response" /\ svrBuf = <<>> /\ outbox = <<>> /\ ~svr_skt.up
    /\ End("done")
    /\ UNCHANGED <<connVars, req, resp, svrVars, nreq, ghosts>>

(* The server has closed before a header is there. *)
ResponseFails ==
    /\ pc = "response" /\ svrBuf = <<>> /\ outbox = <<>> /\ ~svr_skt.up
    /\ End("error")
    /\ UNCHANGED <<connVars, req, resp, svrVars, nreq, ghosts>>

(* Mutant: the loop is left before the last part is written. *)
Bug_LastPartDropped(n) ==
    /\ pc = "relay"
    /\ svrBuf' = svrBuf \o SubSeq(outbox, 1, n)
    /\ outbox' = SubSeq(outbox, n + 1, Len(outbox))
    /\ pc' = "finish"
    /\ UNCHANGED <<connVars, req, resp, svr_skt, inbox, nreq, ghosts, outcome>>

(* Mutant: the http loop ignores what its writes return, too. *)
Bug_WritesIgnored(n) ==
    /\ pc = "relay"
    /\ svrBuf' = svrBuf \o SubSeq(outbox, 1, n)
    /\ outbox' = SubSeq(outbox, n + 1, Len(outbox))
    /\ toClient' = [toClient EXCEPT ![Len(toClient)].whole = ~gone]
    /\ pc' = "finish"
    /\ UNCHANGED <<connVars, req, resp, svr_skt, inbox, nreq, forwarded, log, outcome>>

(***************************************************************************)
(* body_read_part and the writes to the client, to the end of the body.    *)
(* The reads may bring n responses that follow, too.  To a client that has *)
(* gone the https loop writes on, and ignores every failure; the http loop *)
(* ignores only that of the end of a chunked body, which is all there is   *)
(* to write when the body is empty.  A client that goes while the body is  *)
(* relayed is one that went before: the answer is not whole.               *)
(***************************************************************************)
RelayBody(n) ==
    /\ pc = "relay"
    /\ gone => is_https \/ resp.body = "chunked"
    /\ svrBuf' = svrBuf \o SubSeq(outbox, 1, n)
    /\ outbox' = SubSeq(outbox, n + 1, Len(outbox))
    /\ toClient' = [toClient EXCEPT ![Len(toClient)].whole = ~gone]
    /\ pc' = "finish"
    /\ UNCHANGED <<connVars, req, resp, svr_skt, inbox, nreq, forwarded, log, outcome>>

(* The body ends early, or the http loop sees a write to the client fail. *)
RelayFails ==
    /\ pc = "relay"
    /\ End("error")
    /\ UNCHANGED <<connVars, req, resp, svrVars, nreq, ghosts>>

write_access_log == log' = Append(log, req.id)

NextRequest == pc' = IF is_https THEN "parse_https" ELSE "parse_http"

(* Mutant: a websocket is logged when it starts, and again when it ends. *)
Bug_SwitchLogged ==
    /\ pc = "finish"
    /\ IF ~req.keep \/ ~resp.keep THEN End("done") /\ UNCHANGED log
       ELSE /\ write_access_log /\ UNCHANGED outcome
            /\ IF resp.status = "switch" THEN pc' = "tunnel" ELSE NextRequest
    /\ UNCHANGED <<connVars, req, resp, svrVars, nreq, forwarded, toClient>>

(* The end of a transaction: close, tunnel a websocket, or go round. *)
FinishTransaction ==
    /\ pc = "finish"
    /\ \/ /\ ~req.keep \/ ~resp.keep
          /\ End("done")
          /\ UNCHANGED log
       \/ /\ req.keep /\ resp.keep /\ resp.status = "switch"
          /\ pc' = "tunnel"
          /\ UNCHANGED <<log, outcome>>
       \/ /\ req.keep /\ resp.keep /\ resp.status # "switch"
          /\ write_access_log /\ NextRequest
          /\ UNCHANGED outcome
    /\ UNCHANGED <<connVars, req, resp, svrVars, nreq, forwarded, toClient>>

-----------------------------------------------------------------------------
(* https *)

(* The CONNECT request: to the next hop, or directly to the destination. *)
ParseConnect(h) ==
    /\ pc = "parse_connect"
    /\ req' = [req EXCEPT !.host = h]
    /\ PrepareServer(req')
    /\ pc' = "connect"
    /\ UNCHANGED <<connVars, resp, inbox, outbox, svrBuf, nreq, ghosts, outcome>>

(* The next hop answers the forwarded CONNECT; the status is not looked at. *)
HopReplies ==
    /\ pc = "hop_reply"
    /\ pc' = "established"
    /\ UNCHANGED <<connVars, req, resp, svrVars, nreq, ghosts, outcome>>

HopFails ==
    /\ pc = "hop_reply"
    /\ End("error")
    /\ UNCHANGED <<connVars, req, resp, svrVars, nreq, ghosts>>

(* To tunnel or to decrypt.  A tunnel answers the CONNECT at once. *)
Tunnelled == ~HttpsDescrypt \/ req.host \in TunnelDomains

Established ==
    /\ pc = "established"
    /\ IF Tunnelled
       THEN /\ Given(Own(0), 0)
            /\ pc' = "tunnel"
       ELSE pc' = "svr_handshake" /\ UNCHANGED toClient
    /\ UNCHANGED <<connVars, req, resp, svrVars, nreq, forwarded, log, outcome>>

(* TLS with the server, the resigned certificate, and 200 for the client. *)
ServerHandshake ==
    /\ pc = "svr_handshake" /\ svr_skt.up
    /\ Given(Own(0), 0)
    /\ pc' = "clt_handshake"
    /\ UNCHANGED <<connVars, req, resp, svrVars, nreq, forwarded, log, outcome>>

ServerHandshakeFails ==
    /\ pc = "svr_handshake"
    /\ End("error")
    /\ UNCHANGED <<connVars, req, resp, svrVars, nreq, ghosts>>

ClientHandshake ==
    /\ pc = "clt_handshake" /\ ~gone
    /\ pc' = "parse_https"
    /\ UNCHANGED <<connVars, req, resp, svrVars, nreq, ghosts, outcome>>

(***************************************************************************)
(* processHttpsTunnel returns when either side has closed: the end of a    *)
(* tunnelled CONNECT; a websocket's loop logs it and goes round.           *)
(***************************************************************************)
TunnelEnds ==
    /\ pc = "tunnel"
    /\ IF req.id = 0
       THEN End("done") /\ UNCHANGED log
       ELSE write_access_log /\ NextRequest /\ UNCHANGED outcome
    /\ UNCHANGED <<connVars, req, resp, svrVars, nreq, forwarded, toClient>>

-----------------------------------------------------------------------------
(***************************************************************************)
(* The server (external): answers whole requests in order, or closes, as   *)
(* it does after a response that says so.                                  *)
(***************************************************************************)

Answer(status, keep, body) ==
    [re |-> Head(inbox).id, status |-> status, keep |-> keep, body |-> body]

ServerReplies(status, keep, body) ==
    /\ svr_skt.up /\ inbox # <<>> /\ Head(inbox).body # "cut"
    /\ \/ /\ status = "interim" /\ Head(inbox).body = "whole" /\ keep /\ body = "none"
          /\ inbox' = [inbox EXCEPT ![1].body = "continued"]
       \/ /\ status = "final" /\ (body = "unframed" => ~keep)
          /\ inbox' = Tail(inbox)
       \/ /\ status = "switch" /\ keep /\ body = "none"
          /\ inbox' = Tail(inbox)
    /\ outbox' = Append(outbox, Answer(status, keep, body))
    /\ svr_skt' = [svr_skt EXCEPT !.up = keep]
    /\ UNCHANGED <<pc, connVars, req, resp, svrBuf, nreq, ghosts, outcome>>

ServerCloses ==
    /\ svr_skt.up /\ pc # "closed"
    /\ svr_skt' = [svr_skt EXCEPT !.up = FALSE]
    /\ UNCHANGED <<pc, connVars, req, resp, inbox, outbox, svrBuf, nreq, ghosts, outcome>>

-----------------------------------------------------------------------------
ProxyStep ==
    \/ \E whole \in BOOLEAN : check_http_or_https(whole)
    \/ Connect \/ ConnectFails
    \/ ForwardRequest
    \/ \E n \in 0..Len(outbox) : ParseResponse(n) \/ RelayBody(n)
    \/ ResponseFails \/ RelayFails \/ FinishTransaction
    \/ HopReplies \/ HopFails \/ Established
    \/ ServerHandshake \/ ServerHandshakeFails \/ ClientHandshake
    \/ TunnelEnds

ClientStep ==
    \/ ClientFails
    \/ \E h \in Hosts : ParseConnect(h)
    \/ \E id \in 1..MaxRequests, h \in Hosts, keep \in BOOLEAN, body \in {"whole", "cut"} :
          LET r == [id |-> id, host |-> h, keep |-> keep, body |-> body]
          IN  ParseHttp(r) \/ ParseHttps(r)

ServerStep ==
    \/ \E status \in Statuses, keep \in BOOLEAN, body \in Bodies :
          ServerReplies(status, keep, body)
    \/ ServerCloses

Next == ProxyStep \/ ClientStep \/ ClientGoes \/ ServerStep

(***************************************************************************)
(* The coroutine runs on; the client's socket has a recv timeout, so that  *)
(* waiting for the client ends; a server answers or closes in the end.  A  *)
(* client may go, and need not.                                            *)
(***************************************************************************)
Fairness == WF_vars(ProxyStep) /\ WF_vars(ClientStep) /\ WF_vars(ServerStep)

Spec == Init /\ [][Next]_vars /\ Fairness

-----------------------------------------------------------------------------
(* Properties *)

(***************************************************************************)
(* A request the proxy can read is never given to a server when its        *)
(* destination is on the black list, on whatever turn of the http or the   *)
(* decrypted https loop it comes and whatever server is connected by then. *)
(***************************************************************************)
BlockedNotForwarded == \A f \in forwarded : f.host \notin BlackList

(***************************************************************************)
(* What reaches the client answers its requests, one answer for each and   *)
(* in their order, although server_parser keeps its buffer while server    *)
(* connections come and go.  Only an interim response that arrives alone   *)
(* is taken for the answer, and from then on nothing is promised.          *)
(***************************************************************************)
AnswersMatchRequests ==
    /\ \A j, k \in 1..Len(toClient) : j < k => toClient[j].to < toClient[k].to
    /\ \A k \in 1..Len(toClient) :
          \/ toClient[k].re = toClient[k].to
          \/ \E j \in 1..(k - 1) : toClient[j].status = "interim"

(***************************************************************************)
(* "support http/1.1 protocol" (doc/features.md): a connection that ends   *)
(* without an error has written an answer to every request that            *)
(* parse_message handed over.  The others came in one read with a later    *)
(* one.                                                                    *)
(***************************************************************************)
RequestsAnswered ==
    outcome = "done" =>
        \A id \in 1..nreq : \/ \E k \in 1..Len(toClient) : toClient[k].to = id
                            \/ id < nreq /\ \A f \in forwarded : f.id # id

(* The whole answer is written, unless the client has gone and the loop goes
   on regardless: in https always, in http for what it writes unchecked. *)
Settled(a) == a.whole \/ (gone /\ (is_https \/ a.body # "length"))

(***************************************************************************)
(* A connection that ends without an error has written the whole of every  *)
(* answer to a client that is still there, except for a body that has      *)
(* neither a length nor chunks, which is not read.  Once a write has       *)
(* failed, the http loop takes no body of a known length for relayed; the  *)
(* https loop does, and ends without an error all the same.  A client that *)
(* lacks part of an answer gets no later one whole.                        *)
(***************************************************************************)
BodiesRelayed ==
    /\ \A j, k \in 1..Len(toClient) :
          j < k /\ toClient[k].whole => toClient[j].whole \/ toClient[j].body = "unframed"
    /\ outcome = "done" =>
          \A k \in 1..Len(toClient) : Settled(toClient[k]) \/ toClient[k].body = "unframed"

(***************************************************************************)
(* An access log entry stands for one transaction, logged once: a request  *)
(* that was forwarded and whose whole answer was written, unless the       *)
(* client has gone.  No transaction is missing, except the last: the loop  *)
(* may be left before the log is written.                                  *)
(***************************************************************************)
LogMatchesTraffic ==
    /\ \A j, k \in 1..Len(log) : j < k => log[j] < log[k]
    /\ \A j \in 1..Len(log) :
          /\ \E f \in forwarded : f.id = log[j]
          /\ \E k \in 1..Len(toClient) : toClient[k].to = log[j] /\ Settled(toClient[k])
    /\ \A k \in 1..(Len(toClient) - 1) :
          toClient[k].to = 0 \/ \E j \in 1..Len(log) : log[j] = toClient[k].to

(***************************************************************************)
(* The coroutine never hangs on its own: with a client that sends or times *)
(* out and a server that answers or closes, every connection ends, which   *)
(* is when on_conn_done has it removed.                                    *)
(***************************************************************************)
ConnectionEnds == <>(pc = "closed")

(***************************************************************************)
(* "support forward http/https traffic", "support http keepalive": a plain *)
(* http request goes to the host it names.  svr_skt is made for the first  *)
(* request of the connection and dialled again for the others.             *)
(***************************************************************************)
RequestReachesItsHost ==
    ~is_https /\ ~next_hip => \A f \in forwarded : f.to = f.host
=============================================================================
