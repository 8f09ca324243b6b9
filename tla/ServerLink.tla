----------------------------- MODULE ServerLink -----------------------------
(***************************************************************************)
(* The bytes behind one CONNECT: process_https_connection of               *)
(* SrsHttpxProxyConn (app/srs_app_http_conn.cpp) with the name lookup and  *)
(* the dialling of SrsTcpClient (protocol/srs_protocol_async_dns.cpp,      *)
(* srs_protocol_st.cpp), the two TLS engines over memory BIOs              *)
(* (SrsSslConnection and SrsSslClient, app/srs_app_conn.cpp) and the       *)
(* tunnel (pass, processHttpsTunnel).  ProxyConn says which messages go    *)
(* where; this module says what happens to the bytes that carry them.      *)
(*                                                                         *)
(* A peer's bytes are cells numbered from 1.  Through a tunnel a cell is a *)
(* piece of data.  Under TLS every Parts cells are one flight: the first   *)
(* two are the handshake, the others carry one http message each.  TCP     *)
(* keeps the cells in order; how many a read brings is any number.         *)
(***************************************************************************)
EXTENDS Naturals, Sequences

CONSTANTS
    Cells,      \* bound: cells a peer sends through a tunnel
    Flights,    \* bound: flights a peer sends under TLS
    Parts,      \* cells of a flight
    Window,     \* cells a socket buffers in each direction
    IOBUFSIZE   \* cells one pass() moves

ASSUME BoundsAssumption ==
    /\ Cells \in Nat \ {0} /\ Flights \in Nat \ {0, 1} /\ Parts \in Nat \ {0}
    /\ Window \in Nat \ {0} /\ IOBUFSIZE \in Nat \ {0}

VARIABLES
    plan,           \* is the domain decrypted, is there a next hop, does the server answer 101
    pc,             \* where the coroutine is
    channels,       \* open c-ares channels
    dns,            \* SrsAsyncDns: pds.fd is set; the answer that was stored
    fds,            \* open descriptors towards the server
    stfd_,          \* svr_skt holds one of them
    rtm,            \* the peer's socket has a recv timeout
    in, out,        \* cells in the sockets, towards the proxy and towards the peer
    up,             \* the peer: "open", "half" (sent its FIN) or "gone"
    parser,         \* cells a parser read together with the CONNECT or its answer
    bio,            \* bio_in of the TLS engine facing the peer
    eaten,          \* cells that engine has decrypted
    ready,          \* sockets the last poll reported
    buf,            \* the write in progress: to whom, what, and where it returns to
    told,           \* the client was told that the connection is established
    hop,            \* the next hop's answer to the CONNECT
    sent, got       \* what the peers sent and received

setup == <<channels, dns, fds, stfd_, rtm>>
tls   == <<bio, eaten>>
peers == <<sent, got, up>>
vars  == <<plan, pc, setup, in, out, parser, tls, ready, buf, told, hop, peers>>

Peers == {"clt", "svr"}
Other(p) == IF p = "clt" THEN "svr" ELSE "clt"
Both(v) == [p \in Peers |-> v]

(* A cell on its way to a peer: a record of its own TLS session, or raw. *)
Cell == {"tls", "raw"} \X Nat

(* The read each place of the coroutine waits in. *)
FromClient == {"parse_connect", "clt_hello", "clt_done", "request"}
FromServer == {"hop_reply", "svr_hello", "svr_done", "response"}
Waiting == IF pc \in FromClient THEN "clt" ELSE "svr"

(***************************************************************************)
(* The type invariant.                                                     *)
(***************************************************************************)
TypeOK ==
    /\ plan \in [decrypt: BOOLEAN, hop: BOOLEAN, upgrade: BOOLEAN]
    /\ pc \in FromClient \cup FromServer
              \cup {"ask", "resolving", "connecting", "established", "poll", "pass", "write",
                    "closed", "freed"}
    /\ channels \in 0..2 /\ dns \in [fd: BOOLEAN, addr: BOOLEAN]
    /\ fds \in 0..1 /\ stfd_ \in BOOLEAN /\ rtm \in [Peers -> BOOLEAN]
    /\ in \in [Peers -> Seq(Nat)] /\ parser \in [Peers -> Seq(Nat)] /\ bio \in [Peers -> Seq(Nat)]
    /\ out \in [Peers -> Seq(Cell)] /\ got \in [Peers -> Seq(Cell)]
    /\ up \in [Peers -> {"open", "half", "gone"}]
    /\ eaten \in [Peers -> Nat] /\ sent \in [Peers -> Nat]
    /\ buf \in [to: Peers, cells: Seq(Cell),
                then: FromClient \cup FromServer \cup {"poll", "pass", "closed"}]
    /\ ready \subseteq Peers /\ told \in BOOLEAN /\ hop \in {"none", "200", "refused"}

NoWrite == [to |-> "svr", cells |-> <<>>, then |-> "closed"]

Init ==
    /\ plan \in {q \in [decrypt: BOOLEAN, hop: BOOLEAN, upgrade: BOOLEAN] : q.upgrade => q.decrypt}
    /\ pc = "parse_connect"
    /\ channels = 0 /\ dns = [fd |-> FALSE, addr |-> FALSE] /\ fds = 0 /\ stfd_ = FALSE
    /\ rtm = [p \in Peers |-> p = "clt"]
    /\ in = Both(<<>>) /\ out = Both(<<>>) /\ parser = Both(<<>>) /\ bio = Both(<<>>)
    /\ up = Both("open") /\ eaten = Both(0) /\ sent = Both(0) /\ got = Both(<<>>)
    /\ ready = {} /\ buf = NoWrite
    /\ told = FALSE /\ hop = "none"

(* A read takes the first n of the cells that are there. *)
Took(p, n) == in' = [in EXCEPT ![p] = SubSeq(@, n + 1, Len(@))]

(* A write starts: st_write blocks until the socket took everything. *)
Write(p, cells, then) ==
    /\ buf' = [to |-> p, cells |-> cells, then |-> then]
    /\ pc' = "write"

-----------------------------------------------------------------------------
(* The CONNECT request and the connection to the server *)

(***************************************************************************)
(* parse_message returns at the end of the header; what the same read      *)
(* brought beyond it is left in the parser's buffer.                       *)
(***************************************************************************)
ParseConnect ==
    /\ pc = "parse_connect"
    /\ \E n \in 0..Len(in.clt) :
           /\ parser' = [parser EXCEPT !.clt = SubSeq(in.clt, 1, n)]
           /\ Took("clt", n)
    /\ pc' = "ask"
    /\ UNCHANGED <<plan, setup, out, tls, ready, buf, told, hop, peers>>

(***************************************************************************)
(* new SrsTcpClient, set_recv_timeout, connect: SrsAsyncDns opens a        *)
(* channel, do_resolve a second one, and asks.  The answer for an address  *)
(* literal comes at once, and then no descriptor is to be polled.          *)
(***************************************************************************)
do_resolve ==
    /\ pc = "ask"
    /\ channels' = 2
    /\ \E literal \in BOOLEAN : dns' = [fd |-> ~literal, addr |-> literal]
    /\ rtm' = [rtm EXCEPT !.svr = TRUE]
    /\ pc' = "resolving"
    /\ UNCHANGED <<plan, fds, stfd_, in, out, parser, tls, ready, buf, told, hop, peers>>

(***************************************************************************)
(* The resolver's answer: ares_process_fd runs dns_callback, which stores  *)
(* an address when there is one, and srs_sock_state_cb, which clears fd.   *)
(***************************************************************************)
dns_callback ==
    /\ pc = "resolving" /\ dns.fd
    /\ \E found \in BOOLEAN : dns' = [fd |-> FALSE, addr |-> found]
    /\ UNCHANGED <<plan, pc, channels, fds, stfd_, rtm, in, out, parser, tls, ready, buf, told,
                   hop, peers>>

(***************************************************************************)
(* The loop ends when no descriptor is left, or when the poll of one       *)
(* second expires; c-ares would wait two seconds and ask again.  The       *)
(* second channel is destroyed, which drops the question.  Without an      *)
(* address srs_tcp_connect fails, and its SrsAsyncDns goes with it.        *)
(***************************************************************************)
Resolved ==
    /\ pc = "resolving"
    /\ IF dns.addr THEN pc' = "connecting" /\ channels' = channels - 1 /\ fds' = fds + 1
                   ELSE pc' = "closed" /\ channels' = 0 /\ UNCHANGED fds
    /\ UNCHANGED <<plan, dns, stfd_, rtm, in, out, parser, tls, ready, buf, told, hop, peers>>

(* Mutant of ConnectFails: the descriptor is left open. *)
Bug_DialLeaks ==
    /\ pc = "connecting"
    /\ channels' = 0 /\ pc' = "closed"
    /\ UNCHANGED <<plan, dns, fds, stfd_, rtm, in, out, parser, tls, ready, buf, told, hop, peers>>

(* st_connect is refused or times out after five seconds: srs_close_stfd. *)
ConnectFails ==
    /\ pc = "connecting"
    /\ fds' = fds - 1
    /\ channels' = 0 /\ pc' = "closed"
    /\ UNCHANGED <<plan, dns, stfd_, rtm, in, out, parser, tls, ready, buf, told, hop, peers>>

(* Mutant of Connected: the client gets its 200 before the next hop has answered. *)
Bug_ToldEarly ==
    /\ pc = "connecting"
    /\ stfd_' = TRUE /\ told' = TRUE
    /\ rtm' = [rtm EXCEPT !.svr = FALSE]
    /\ channels' = 0
    /\ pc' = IF plan.hop THEN "hop_reply" ELSE "established"
    /\ UNCHANGED <<plan, dns, fds, in, out, parser, tls, ready, buf, hop, peers>>

(***************************************************************************)
(* st_connect succeeds.  SrsTcpClient::connect replaces its io object: the *)
(* recv timeout, set on the one it frees, is gone.  A next hop gets the    *)
(* CONNECT as it came.                                                     *)
(***************************************************************************)
Connected ==
    /\ pc = "connecting"
    /\ stfd_' = TRUE
    /\ rtm' = [rtm EXCEPT !.svr = FALSE]
    /\ channels' = 0
    /\ pc' = IF plan.hop THEN "hop_reply" ELSE "established"
    /\ UNCHANGED <<plan, dns, fds, in, out, parser, tls, ready, buf, told, hop, peers>>

(***************************************************************************)
(* The next hop's answer is parsed and dropped, whatever its status.  The  *)
(* read may bring cells of the server that the hop is already relaying.    *)
(***************************************************************************)
HopReply ==
    /\ pc = "hop_reply" /\ hop # "none"
    /\ \E n \in 0..Len(in.svr) :
           /\ parser' = [parser EXCEPT !.svr = SubSeq(in.svr, 1, n)]
           /\ Took("svr", n)
    /\ pc' = "established"
    /\ UNCHANGED <<plan, setup, out, tls, ready, buf, told, hop, peers>>

(***************************************************************************)
(* The domain is tunnelled: the client gets its 200 and the tunnel starts. *)
(* It is decrypted: the handshake with the server starts with ClientHello, *)
(* and the client gets its 200 when that handshake is over.                *)
(***************************************************************************)
Established ==
    /\ pc = "established"
    /\ IF plan.decrypt THEN Write("svr", <<<<"tls", 1>>>>, "svr_hello") /\ UNCHANGED told
                       ELSE told' = TRUE /\ pc' = "poll" /\ UNCHANGED buf
    /\ UNCHANGED <<plan, setup, in, out, parser, tls, ready, hop, peers>>

-----------------------------------------------------------------------------
(* The TLS engines *)

Whole(b) == Len(b) >= Parts
Intact(p, b) == \A i \in 1..Parts : b[i] = eaten[p] + i
Flight(p) == eaten[p] \div Parts + 1

(* Mutant of KeptInBio: bio_in is reset after the second flight as well. *)
Bug_ResetTwice(b) ==
    IF pc \in {"svr_hello", "clt_hello", "svr_done", "clt_done"} THEN <<>>
    ELSE SubSeq(b, Parts + 1, Len(b))

(***************************************************************************)
(* What bio_in holds after a flight was taken from it: the code resets it  *)
(* after the first flight of a handshake, and never after.                 *)
(***************************************************************************)
KeptInBio(b) ==
    IF pc \in {"svr_hello", "clt_hello"} THEN <<>> ELSE SubSeq(b, Parts + 1, Len(b))

(***************************************************************************)
(* What the proxy does when the engine facing p has its next flight.  In a *)
(* handshake it sends its own next flight, if it has one.  A request goes  *)
(* to the server and its response to the client.  After the response the   *)
(* connection is closed, or the next request is read, or, for a 101, the   *)
(* tunnel starts on the TCP sockets under the TLS engines.                 *)
(***************************************************************************)
React(p) ==
    CASE pc = "svr_hello" -> Write("svr", <<<<"tls", 2>>>>, "svr_done") /\ UNCHANGED told
      [] pc = "svr_done"  -> told' = TRUE /\ pc' = "clt_hello" /\ UNCHANGED buf
      [] pc = "clt_hello" -> Write("clt", <<<<"tls", 1>>>>, "clt_done") /\ UNCHANGED told
      [] pc = "clt_done"  -> Write("clt", <<<<"tls", 2>>>>, "request") /\ UNCHANGED told
      [] pc = "request"   -> Write("svr", <<<<"tls", Flight(p)>>>>, "response") /\ UNCHANGED told
      [] pc = "response"  ->
           /\ \E then \in {"closed", IF plan.upgrade THEN "poll" ELSE "request"} :
                  Write("clt", <<<<"tls", Flight(p)>>>>, then)
           /\ UNCHANGED told

(* SSL_do_handshake or SSL_read on what bio_in holds; a damaged record is an error. *)
Engine(p, b) ==
    IF ~Whole(b) THEN bio' = [bio EXCEPT ![p] = b] /\ UNCHANGED <<eaten, pc, buf, told>>
    ELSE IF ~Intact(p, b) THEN pc' = "closed" /\ UNCHANGED <<tls, buf, told>>
    ELSE /\ bio' = [bio EXCEPT ![p] = KeptInBio(b)]
         /\ eaten' = [eaten EXCEPT ![p] = @ + Parts]
         /\ React(p)

TlsReads == {"svr_hello", "svr_done", "clt_hello", "clt_done", "request", "response"}
RecordHeld == pc \in {"request", "response"} /\ Whole(bio[Waiting])

(***************************************************************************)
(* The handshake loops read first and then try; SSL_read tries what bio_in *)
(* still holds before it reads.                                            *)
(***************************************************************************)
EngineReads ==
    /\ pc \in TlsReads /\ ~RecordHeld
    /\ \E n \in 1..Len(in[Waiting]) :
           /\ Took(Waiting, n)
           /\ Engine(Waiting, bio[Waiting] \o SubSeq(in[Waiting], 1, n))
    /\ UNCHANGED <<plan, setup, out, parser, ready, hop, peers>>

EngineHolds ==
    /\ RecordHeld
    /\ Engine(Waiting, bio[Waiting])
    /\ UNCHANGED <<plan, setup, in, out, parser, ready, hop, peers>>

(* The read meets the peer's end, or waits longer than the recv timeout. *)
ReadFails ==
    /\ pc \in FromClient \cup FromServer /\ in[Waiting] = <<>>
    /\ ~RecordHeld /\ ~(pc = "hop_reply" /\ hop # "none")
    /\ up[Waiting] # "open" \/ rtm[Waiting]
    /\ pc' = "closed"
    /\ UNCHANGED <<plan, setup, in, out, parser, tls, ready, buf, told, hop, peers>>

-----------------------------------------------------------------------------
(* The tunnel *)

Readable(p) == in[p] # <<>> \/ up[p] # "open"

(* srs_poll without a timeout *)
Poll ==
    /\ pc = "poll"
    /\ \E p \in Peers : Readable(p)
    /\ ready' = {p \in Peers : Readable(p)}
    /\ pc' = "pass"
    /\ UNCHANGED <<plan, setup, in, out, parser, tls, buf, told, hop, peers>>

(* Mutant of StreamEnds: the end of a stream is not the end of the tunnel. *)
Bug_EndIgnored(p) == FALSE

(* Mutant of StreamEnds: the tunnel ends as soon as the peer's FIN is seen. *)
Bug_EndsEarly(p) == up[p] # "open"

(* The read of pass returns nothing. *)
StreamEnds(p) == in[p] = <<>>

(***************************************************************************)
(* The client's socket first, then the server's: pass reads once and       *)
(* writes what it read to the other side.  The end of either stream ends   *)
(* the tunnel; under TLS the next request is then read from the engine.    *)
(***************************************************************************)
pass ==
    /\ pc = "pass"
    /\ LET p == IF "clt" \in ready THEN "clt" ELSE "svr"
           n == IF Len(in[p]) < IOBUFSIZE THEN Len(in[p]) ELSE IOBUFSIZE
       IN  /\ ready' = ready \ {p}
           /\ IF StreamEnds(p)
              THEN pc' = (IF plan.decrypt THEN "request" ELSE "closed") /\ UNCHANGED <<in, buf>>
              ELSE /\ Took(p, n)
                   /\ Write(Other(p), [i \in 1..n |-> <<"raw", in[p][i]>>],
                            IF ready' = {} THEN "poll" ELSE "pass")
    /\ UNCHANGED <<plan, setup, out, parser, tls, told, hop, peers>>

(***************************************************************************)
(* A write goes on while the socket has room.  A write to a peer that is   *)
(* gone fails: a handshake ends with it, everyone else ignores the error.  *)
(***************************************************************************)
Flush ==
    /\ pc = "write"
    /\ LET room == Window - Len(out[buf.to])
           n == IF room < Len(buf.cells) THEN room ELSE Len(buf.cells)
       IN  IF up[buf.to] # "gone"
           THEN /\ n > 0 \/ buf.cells = <<>>
                /\ out' = [out EXCEPT ![buf.to] = @ \o SubSeq(buf.cells, 1, n)]
                /\ IF n = Len(buf.cells)
                   THEN pc' = buf.then /\ buf' = NoWrite
                   ELSE pc' = "write" /\ buf' = [buf EXCEPT !.cells = SubSeq(@, n + 1, Len(@))]
           ELSE /\ pc' = IF {<<"tls", 1>>, <<"tls", 2>>} \cap {buf.cells[i] : i \in DOMAIN buf.cells} # {}
                         THEN "closed" ELSE buf.then
                /\ buf' = NoWrite /\ UNCHANGED out
    /\ UNCHANGED <<plan, setup, in, parser, tls, ready, told, hop, peers>>

(* The coroutine is over and the manager frees the connection: both sockets close. *)
Free ==
    /\ pc = "closed"
    /\ pc' = "freed"
    /\ fds' = IF stfd_ THEN fds - 1 ELSE fds
    /\ stfd_' = FALSE
    /\ UNCHANGED <<plan, channels, dns, rtm, in, out, parser, tls, ready, buf, told, hop, peers>>

-----------------------------------------------------------------------------
(* The peers *)

Reachable(p) == pc # "freed" /\ (p = "svr" => stfd_)

(***************************************************************************)
(* When a peer may send its flight f.  The client may say hello before it  *)
(* was told that the connection is established, and may send its request   *)
(* with the last flight of its handshake (false start).  After a 101 both  *)
(* talk freely.                                                            *)
(***************************************************************************)
MaySend(p, f) ==
    \/ f > 3 /\ plan.upgrade /\ Len(got[p]) >= 3
    \/ p = "clt" /\ f = 1
    \/ p = "clt" /\ f \in {2, 3} /\ Len(got.clt) >= 1
    \/ p = "clt" /\ f > 3 /\ Len(got.clt) >= f - 1
    \/ p = "svr" /\ Len(got.svr) >= f

(* An eager client sends one piece before it hears of its connection. *)
PeerSend(p) ==
    /\ Reachable(p) /\ up[p] = "open"
    /\ p = "svr" /\ plan.hop => hop = "200"
    /\ p = "clt" /\ ~told => sent.clt = 0
    /\ LET f == sent[p] \div Parts + 1
           k == IF plan.decrypt THEN Parts ELSE 1
       IN  /\ IF plan.decrypt THEN f <= Flights /\ MaySend(p, f)
                              ELSE sent[p] < Cells /\ Len(in[p]) < Window
           /\ sent' = [sent EXCEPT ![p] = @ + k]
           /\ in' = [in EXCEPT ![p] = @ \o [i \in 1..k |-> sent[p] + i]]
    /\ UNCHANGED <<plan, pc, setup, out, parser, tls, ready, buf, told, hop, got, up>>

(* The next hop connects to the server, or refuses and closes. *)
HopAnswers ==
    /\ pc = "hop_reply" /\ hop = "none" /\ up.svr = "open"
    /\ \/ hop' = "200" /\ UNCHANGED up
       \/ hop' = "refused" /\ up' = [up EXCEPT !.svr = "half"]
    /\ UNCHANGED <<plan, pc, setup, in, out, parser, tls, ready, buf, told, sent, got>>

(* Bytes that are no record of the peer's own TLS session make it give up. *)
PeerReceive(p) ==
    /\ out[p] # <<>> /\ up[p] # "gone"
    /\ got' = [got EXCEPT ![p] = Append(@, Head(out[p]))]
    /\ out' = [out EXCEPT ![p] = Tail(@)]
    /\ up' = IF plan.decrypt /\ Head(out[p])[1] = "raw" THEN [up EXCEPT ![p] = "gone"] ELSE up
    /\ UNCHANGED <<plan, pc, setup, in, parser, tls, ready, buf, told, hop, sent>>

PeerCloses(p) ==
    /\ Reachable(p) /\ up[p] = "open"
    /\ up' \in {[up EXCEPT ![p] = s] : s \in {"half", "gone"}}
    /\ UNCHANGED <<plan, pc, setup, in, out, parser, tls, ready, buf, told, hop, sent, got>>

-----------------------------------------------------------------------------
ProxyStep ==
    \/ ParseConnect \/ do_resolve \/ Resolved \/ ConnectFails \/ Connected \/ HopReply \/ Established
    \/ EngineReads \/ EngineHolds \/ ReadFails
    \/ Poll \/ pass \/ Flush \/ Free

ServerAnswers == HopAnswers \/ PeerSend("svr")

Next ==
    \/ ProxyStep \/ dns_callback \/ HopAnswers
    \/ \E p \in Peers : PeerSend(p) \/ PeerReceive(p) \/ PeerCloses(p)

(***************************************************************************)
(* Fairness.  The scheduler runs a coroutine whose descriptor is ready or  *)
(* whose timer expired.  The peers read what is sent to them; clients and  *)
(* the resolver may stay silent for ever.  Spec has servers that answer;   *)
(* SilentSpec has servers that may stay silent as well.                    *)
(***************************************************************************)
SilentSpec ==
    /\ Init /\ [][Next]_vars /\ WF_vars(ProxyStep) /\ \A p \in Peers : WF_vars(PeerReceive(p))

Spec == SilentSpec /\ WF_vars(ServerAnswers)

-----------------------------------------------------------------------------
(***************************************************************************)
(* The pipe between client and server.  Through a tunnel its pieces are    *)
(* the cells, without those a parser kept.  In a decrypted connection they *)
(* are the http messages, the flights behind the two of each handshake.    *)
(* With plan.upgrade there is no pipe: after a 101 the raw bytes of one    *)
(* TLS session are moved into the other one.                               *)
(***************************************************************************)
Handshake == IF plan.decrypt THEN 2 ELSE 0
Units(n) == IF plan.decrypt THEN n \div Parts ELSE n
Pieces(n) == IF plan.upgrade \/ n <= Handshake THEN 0 ELSE n - Handshake
Renumbered(g) == [i \in 1..Pieces(Len(g)) |-> g[i + Handshake][2] - Handshake]

PipeSent == [p \in Peers |-> Pieces(Units(sent[p]))]
PipeLost == [p \in Peers |-> IF plan.decrypt THEN 0 ELSE Len(parser[p])]
PipeGot  == [p \in Peers |-> Renumbered(got[p])]

Pipe == INSTANCE Pipe WITH sent <- PipeSent, lost <- PipeLost, open <- told, got <- PipeGot

-----------------------------------------------------------------------------
(* Properties *)

(***************************************************************************)
(* Nothing is lost, doubled or reordered on the way: what a peer received  *)
(* through a tunnel is what the other one sent, from its first cell on,    *)
(* and a TLS engine never meets a gap in its peer's stream, however the    *)
(* flights were cut into reads.  The exceptions are the code's: cells that *)
(* came with the CONNECT or with the hop's answer stay in a parser, and a  *)
(* 101 under TLS moves the raw bytes of one TLS session into the other.    *)
(***************************************************************************)
StreamsIntact ==
    ~plan.upgrade =>
        \A p \in Peers : parser[p] = <<>> =>
            /\ \A i \in 1..Len(got[Other(p)]) :
                   got[Other(p)][i] = <<IF plan.decrypt THEN "tls" ELSE "raw", i>>
            /\ \A i \in 1..Len(bio[p]) : bio[p][i] = eaten[p] + i
            /\ \A i \in 1..Len(in[p]) : in[p][i] = sent[p] - Len(in[p]) + i
            /\ plan.decrypt => sent[p] = eaten[p] + Len(bio[p]) + Len(in[p])
                               \/ up[p] # "open" \/ pc \in {"closed", "freed"}

(***************************************************************************)
(* However the link ends (no address, refused, timed out, a handshake that *)
(* failed half way, a tunnel that was closed), the descriptor and the two  *)
(* resolver channels are gone with the connection.                         *)
(***************************************************************************)
NothingLeft == pc = "freed" => fds = 0 /\ channels = 0

(***************************************************************************)
(* The link is a pipe: what a peer receives through a tunnel, from the     *)
(* first cell no parser kept, and through the two TLS sessions, from the   *)
(* first http message, is what the other one sent, in order and not before *)
(* it was sent; cells are lost only before the client has its 200.         *)
(***************************************************************************)
ImplementsPipe == Pipe!Spec

(***************************************************************************)
(* A tunnel is given up only when one of its streams is over: its peer has *)
(* closed, and everything it sent is in the other one's socket, unless     *)
(* that one is gone.  What the other direction still carries is dropped.   *)
(***************************************************************************)
EndsDrained ==
    ~plan.decrypt /\ told /\ pc \in {"closed", "freed"} =>
        \E p \in Peers :
            /\ up[p] # "open"
            /\ \/ Len(parser[p]) + Len(got[Other(p)]) + Len(out[Other(p)]) = sent[p]
               \/ up[Other(p)] = "gone"

(***************************************************************************)
(* A cell that was sent into an open tunnel arrives, unless the peer it is *)
(* for closes first: a full socket or the other direction never stops it.  *)
(***************************************************************************)
Delivered ==
    \A p \in Peers : \A i \in 1..Cells :
        (~plan.decrypt /\ pc = "poll" /\ parser[p] = <<>> /\ i <= sent[p])
            ~> (i <= Len(got[Other(p)]) \/ up[Other(p)] # "open")

(***************************************************************************)
(* Once either peer has closed, the connection is freed, wherever the      *)
(* coroutine was: servers that answer are assumed, clients that do are not.*)
(***************************************************************************)
LinkEnds == (\E p \in Peers : up[p] # "open") ~> pc = "freed"

(***************************************************************************)
(* set_recv_timeout is called on the server's socket so that no wait for   *)
(* the server lasts for ever.                                              *)
(***************************************************************************)
ServerWaitsEnd == \A w \in FromServer : (pc = w) ~> (pc # w)

(***************************************************************************)
(* The client is told that its connection is established only if the next  *)
(* hop established it.                                                     *)
(***************************************************************************)
ToldTheTruth == told /\ plan.hop => hop = "200"
=============================================================================
