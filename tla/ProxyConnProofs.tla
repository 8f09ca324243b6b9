-------------------------- MODULE ProxyConnProofs ---------------------------
(***************************************************************************)
(* Theorems about ProxyConn, for every policy, configuration, client and   *)
(* server and any number of requests.                                      *)
(***************************************************************************)
EXTENDS ProxyConn, SequenceLemmas, WellFoundedInduction

-----------------------------------------------------------------------------
(* Lemmas about the operators *)

(* A set of numbers that is not empty has a least one. *)
LEMMA Least == ASSUME NEW S, S \subseteq Nat, S # {} PROVE \E k \in S : \A j \in S : k <= j
<1>1. PICK k \in S : \A j \in S : ~(<<j, k>> \in OpToRel(<, Nat))
  BY NatLessThanWellFounded, WFMin, Zenon
<1>2. \A j \in S : ~(j < k)
  BY <1>1 DEF OpToRel
<1> QED
  BY <1>2

(* parse_message hands over one of the messages it has read. *)
LEMMA HandedOverIn ==
    ASSUME NEW buf \in Seq(Response), buf # <<>>
    PROVE  /\ HandedOver(buf) \in 1..Len(buf)
           /\ (\A i \in 1..Len(buf) : i # Len(buf) => buf[i].status = "interim" /\ buf[i].body = "none")
                 => HandedOver(buf) = Len(buf)
<1> DEFINE stops == {k \in 1..Len(buf) : \/ k = Len(buf)
                                         \/ buf[k].status = "switch"
                                         \/ buf[k].body = "unframed"}
<1>1. Len(buf) \in Nat \ {0}
  BY EmptySeq
<1>2. Len(buf) \in stops /\ stops \subseteq Nat
  BY <1>1
<1>3. \E k \in stops : \A j \in stops : k <= j
  BY <1>2, Least
<1>4. HandedOver(buf) = CHOOSE k \in stops : \A j \in stops : k <= j
  BY DEF HandedOver
<1> HIDE DEF stops
<1>5. HandedOver(buf) \in stops
  BY <1>3, <1>4
<1> QED
  BY <1>5 DEF stops

-----------------------------------------------------------------------------
(* Types *)

(* Past the first request there is a server to talk to. *)
Dialled ==
    pc \in {"connect", "hop_reply", "established", "svr_handshake", "clt_handshake",
            "parse_https", "forward", "response", "relay", "finish", "tunnel"}

(* A request of the client is being served: read, and not answered yet. *)
Asked == pc \in {"forward", "response"} \/ (pc = "connect" /\ ~is_https)

(* The header of its answer has gone to the client. *)
Replied == pc \in {"relay", "finish"} \/ (pc = "tunnel" /\ req.id # 0)

(* The connection is still at its CONNECT. *)
Connecting ==
    \/ pc \in {"peek", "parse_connect", "hop_reply", "established", "svr_handshake"}
    \/ pc = "connect" /\ is_https

(***************************************************************************)
(* Where the coroutine is says what it has read, whether there is a server *)
(* and whether the destination was looked up.                              *)
(***************************************************************************)
PhaseInv ==
    /\ pc \in {"parse_connect", "hop_reply", "established", "svr_handshake",
               "clt_handshake", "parse_https"} => is_https
    /\ pc \in {"peek", "parse_http"} => ~is_https
    /\ pc = "closed" <=> outcome # "running"
    /\ Asked \/ Replied => req.id = nreq /\ nreq > 0
    /\ Connecting \/ pc = "clt_handshake" \/ (pc = "tunnel" /\ req.id = 0) => nreq = 0 /\ req.id = 0
    /\ Connecting => toClient = <<>>
    /\ Asked => req.host \notin BlackList
    /\ Dialled => svr_skt.to \in Hosts \cup {"next_hip"}

LEMMA InitType == Init => TypeOK /\ PhaseInv
<1> SUFFICES ASSUME Init PROVE TypeOK /\ PhaseInv
  OBVIOUS
<1>1. req \in Request
  <2>1. (CHOOSE h \in Hosts : TRUE) \in Hosts
    BY HostsAssumption
  <2> QED
    BY <2>1, ServerAssumption DEF Init, Request
<1>2. resp \in Response
  BY ServerAssumption DEF Init, Response, Own
<1>3. svr_skt \in Server
  BY DEF Init, Server, NoServer
<1>4. /\ inbox \in Seq(Request) /\ outbox \in Seq(Response) /\ svrBuf \in Seq(Response)
      /\ toClient \in Seq(Answered) /\ log \in Seq(1..MaxRequests)
  BY DEF Init
<1>5. nreq \in 0..MaxRequests
  BY ServerAssumption DEF Init
<1>6. /\ {connect, is_https, next_hip, gone} \subseteq BOOLEAN
      /\ forwarded \subseteq [id: 1..MaxRequests, host: Hosts, to: Hosts \cup {"next_hip"}]
  BY Zenon DEF Init
<1>7. TypeOK
  BY <1>1, <1>2, <1>3, <1>4, <1>5, <1>6 DEF Init, TypeOK
<1> QED
  BY <1>7 DEF Init, PhaseInv, Asked, Replied, Connecting, Dialled

(* What goes to the client: one answer more. *)
LEMMA GivenType ==
    ASSUME TypeOK, NEW r \in Response, NEW id \in 0..MaxRequests, Given(r, id),
           NEW l, l = Len(toClient)
    PROVE  /\ toClient' \in Seq(Answered)
           /\ l \in Nat /\ Len(toClient') = l + 1
           /\ toClient'[l + 1] = [re |-> r.re, to |-> id, status |-> r.status,
                                  body |-> r.body, whole |-> r.body = "none" /\ ~gone]
           /\ \A i \in 1..l : toClient'[i] = toClient[i]
           /\ \A i \in 1..(l + 1) : i \in 1..l \/ i = l + 1
<1> DEFINE e == [re |-> r.re, to |-> id, status |-> r.status, body |-> r.body,
                 whole |-> r.body = "none" /\ ~gone]
<1>1. e \in Answered
  BY DEF Response, Answered
<1>2. toClient \in Seq(Answered)
  BY DEF TypeOK
<1>3. toClient' = Append(toClient, e)
  BY DEF Given
<1> HIDE DEF e
<1>5. /\ toClient' \in Seq(Answered) /\ l \in Nat /\ Len(toClient') = l + 1
      /\ toClient'[l + 1] = e
      /\ \A i \in 1..l : toClient'[i] = toClient[i]
  BY <1>1, <1>2, <1>3, Appended
<1>6. \A i \in 1..(l + 1) : i \in 1..l \/ i = l + 1
  BY <1>5
<1> QED
  BY <1>5, <1>6 DEF e

LEMMA OwnType ==
    ASSUME NEW id \in 0..MaxRequests
    PROVE  Own(id) \in Response /\ Own(id).re = id /\ Own(id).status = "own" /\ Own(id).body = "none"
BY DEF Own, Response

(* The end of the coroutine, and the steps that move it on and read nothing. *)
LEMMA MoveType ==
    ASSUME TypeOK, PhaseInv,
           \/ \E whole \in BOOLEAN : check_http_or_https(whole)
           \/ ClientFails \/ ConnectFails \/ ResponseFails \/ RelayFails \/ HopReplies \/ HopFails
           \/ ServerHandshakeFails \/ ClientHandshake \/ ClientGoes
    PROVE  TypeOK' /\ PhaseInv'
<1>1. CASE \E whole \in BOOLEAN : check_http_or_https(whole)
  <2>1. is_https' \in BOOLEAN
    BY <1>1 DEF check_http_or_https
  <2> QED
    BY <1>1, <2>1 DEF check_http_or_https, TypeOK, PhaseInv, Asked, Replied, Connecting, Dialled,
                      svrVars, ghosts
<1>2. CASE ClientFails \/ ConnectFails \/ ResponseFails \/ RelayFails \/ HopReplies \/ HopFails
           \/ ServerHandshakeFails \/ ClientHandshake
  BY <1>2 DEF ClientFails, ConnectFails, ResponseFails, RelayFails, HopReplies, HopFails,
              ServerHandshakeFails, ClientHandshake, End, TypeOK, PhaseInv, Asked, Replied, Connecting,
              Dialled, connVars, svrVars, ghosts
<1>3. CASE ClientGoes
  BY <1>3 DEF ClientGoes, TypeOK, PhaseInv, Asked, Replied, Connecting, Dialled, svrVars, ghosts
<1> QED
  BY <1>1, <1>2, <1>3

(* The heads of the two loops. *)
LEMMA ParseType ==
    ASSUME TypeOK, PhaseInv, NEW r, ParseHttp(r) \/ ParseHttps(r)
    PROVE  TypeOK' /\ PhaseInv'
<1>1. r \in Request /\ r.id \in 1..MaxRequests /\ r.host \in Hosts /\ nreq' = r.id /\ req' = r
  BY DEF ParseHttp, ParseHttps, ClientSends, Request
<1>2. r.id \in 0..MaxRequests /\ r.id > 0
  BY <1>1, ServerAssumption
<1>3. CASE r.host \in BlackList
  <2>1. Own(r.id) \in Response
    BY <1>2, OwnType
  <2>2. Given(Own(r.id), r.id) /\ pc' = "closed" /\ outcome' = "done"
        /\ UNCHANGED <<connVars, resp, svrVars, log, forwarded>>
    BY <1>3 DEF ParseHttp, ParseHttps, prepare403block, End, svrVars
  <2>3. toClient' \in Seq(Answered)
    BY <1>2, <2>1, <2>2, GivenType
  <2>4. TypeOK'
    BY <1>1, <1>2, <2>2, <2>3 DEF TypeOK, connVars, svrVars
  <2> QED
    BY <2>2, <2>4 DEF PhaseInv, Asked, Replied, Connecting, Dialled
<1>4. CASE r.host \notin BlackList
  <2>1. /\ UNCHANGED <<connVars, resp, inbox, outbox, svrBuf, outcome, ghosts>>
        /\ \/ pc = "parse_http" /\ pc' = "connect" /\ PrepareServer(r)
           \/ pc = "parse_https" /\ pc' = "forward" /\ UNCHANGED svr_skt
    BY <1>4 DEF ParseHttp, ParseHttps
  <2>2. svr_skt' \in Server /\ svr_skt'.to \in Hosts \cup {"next_hip"}
    <3>1. svr_skt \in Server /\ next_hip \in BOOLEAN
      BY DEF TypeOK
    <3>2. CASE pc = "parse_http"
      <4>1. /\ svr_skt.to \in Hosts \cup {"null", "next_hip"} /\ svr_skt.up \in BOOLEAN
            /\ PrepareServer(r)
        BY <2>1, <3>1, <3>2 DEF Server
      <4> QED
        BY <1>1, <3>1, <4>1 DEF PrepareServer, Server
    <3>3. CASE pc = "parse_https"
      BY <2>1, <3>1, <3>3 DEF PhaseInv, Dialled
    <3> QED
      BY <2>1, <3>2, <3>3
  <2>3. TypeOK'
    BY <1>1, <1>2, <2>1, <2>2 DEF TypeOK, connVars, ghosts
  <2> QED
    BY <1>1, <1>2, <1>4, <2>1, <2>2, <2>3
       DEF PhaseInv, Asked, Replied, Connecting, Dialled, connVars, ghosts, TypeOK
<1> QED
  BY <1>3, <1>4

(* Towards the server: the CONNECT, the dial, the handshake and the request. *)
LEMMA DialType ==
    ASSUME TypeOK, PhaseInv,
           \/ \E h \in Hosts : ParseConnect(h)
           \/ Connect \/ Established \/ ServerHandshake \/ ForwardRequest
    PROVE  TypeOK' /\ PhaseInv'
<1>1. ASSUME NEW h \in Hosts, ParseConnect(h) PROVE TypeOK' /\ PhaseInv'
  <2>1. req' \in Request /\ req'.id = req.id /\ req'.host = h
    BY <1>1 DEF ParseConnect, TypeOK, Request
  <2>2. svr_skt' \in Server /\ svr_skt'.to \in Hosts \cup {"next_hip"}
    <3>1. svr_skt \in Server /\ next_hip \in BOOLEAN
      BY DEF TypeOK
    <3> QED
      BY <1>1, <2>1, <3>1 DEF ParseConnect, PrepareServer, Server
  <2> QED
    BY <1>1, <2>1, <2>2 DEF ParseConnect, TypeOK, PhaseInv, Asked, Replied, Connecting, Dialled,
                            connVars, ghosts
<1>2. CASE Connect
  <2>1. svr_skt' \in Server /\ svr_skt'.to = svr_skt.to
    BY <1>2 DEF Connect, TypeOK, Server
  <2> QED
    BY <1>2, <2>1 DEF Connect, TypeOK, PhaseInv, Asked, Replied, Connecting, Dialled, connVars, ghosts
<1>3. CASE Established \/ ServerHandshake
  <2>1. toClient' \in Seq(Answered)
    <3>1. 0 \in 0..MaxRequests
      BY ServerAssumption
    <3>2. CASE Given(Own(0), 0)
      BY <3>1, <3>2, OwnType, GivenType
    <3>3. CASE UNCHANGED toClient
      BY <3>3 DEF TypeOK
    <3> QED
      BY <1>3, <3>2, <3>3 DEF Established, ServerHandshake
  <2>2. CASE Established
    BY <2>1, <2>2 DEF Established, TypeOK, PhaseInv, Asked, Replied, Connecting,
                      Dialled, connVars, svrVars
  <2>3. CASE ServerHandshake
    BY <2>1, <2>3 DEF ServerHandshake, TypeOK, PhaseInv, Asked, Replied, Connecting,
                      Dialled, connVars, svrVars
  <2> QED
    BY <1>3, <2>2, <2>3
<1>4. CASE ForwardRequest
  <2>1. inbox' \in Seq(Request)
    BY <1>4 DEF ForwardRequest, TypeOK
  <2>2. [id |-> req.id, host |-> req.host, to |-> svr_skt.to]
           \in [id: 1..MaxRequests, host: Hosts, to: Hosts \cup {"next_hip"}]
    BY <1>4 DEF ForwardRequest, TypeOK, Request, PhaseInv, Asked, Dialled
  <2> QED
    BY <1>4, <2>1, <2>2 DEF ForwardRequest, TypeOK, PhaseInv, Asked, Replied, Connecting, Dialled,
                            connVars
<1> QED
  BY <1>1, <1>2, <1>3, <1>4

(* What parse_message makes of the n responses it reads. *)
LEMMA ParsedType ==
    ASSUME TypeOK, NEW n \in 0..Len(outbox), ParseResponse(n), NEW buf,
           buf = svrBuf \o SubSeq(outbox, 1, n)
    PROVE  /\ buf \in Seq(Response) /\ buf # <<>>
           /\ HandedOver(buf) \in 1..Len(buf)
           /\ resp' \in Response /\ resp' = buf[HandedOver(buf)]
           /\ svrBuf' \in Seq(Response) /\ outbox' \in Seq(Response)
<1>1. svrBuf \in Seq(Response) /\ outbox \in Seq(Response) /\ Len(outbox) \in Nat
  BY LenProperties DEF TypeOK
<1>2. SubSeq(outbox, 1, n) \in Seq(Response) /\ Len(SubSeq(outbox, 1, n)) = n
  BY <1>1, Cut
<1>3. outbox' \in Seq(Response)
  BY <1>1, Cut DEF ParseResponse
<1>4. buf \in Seq(Response)
  BY <1>1, <1>2, Joined
<1>5. Len(buf) = Len(svrBuf) + n /\ Len(svrBuf) \in Nat
  BY <1>1, <1>2, ConcatProperties, LenProperties
<1>6. svrBuf # <<>> => Len(svrBuf) > 0
  BY <1>1, <1>5, EmptySeq
<1>7. buf # <<>>
  <2>1. n \in IF svrBuf # <<>> THEN {0} ELSE 1..Len(outbox)
    BY DEF ParseResponse
  <2>2. Len(buf) > 0
    BY <1>1, <1>5, <1>6, <2>1
  <2> QED
    BY <2>2
<1>8. HandedOver(buf) \in 1..Len(buf)
  BY <1>4, <1>7, HandedOverIn
<1>9. resp' = buf[HandedOver(buf)] /\ svrBuf' = SubSeq(buf, HandedOver(buf) + 1, Len(buf))
  BY DEF ParseResponse
<1>10. resp' \in Response
  BY <1>4, <1>8, <1>9, ElementOfSeq
<1>11. svrBuf' \in Seq(Response)
  BY <1>4, <1>8, <1>9, Cut, LenProperties
<1> QED
  BY <1>3, <1>4, <1>7, <1>8, <1>9, <1>10, <1>11

LEMMA ResponseType ==
    ASSUME TypeOK, PhaseInv, NEW n \in 0..Len(outbox), ParseResponse(n) \/ RelayBody(n)
    PROVE  TypeOK' /\ PhaseInv'
<1>1. CASE ParseResponse(n)
  <2>1. /\ resp' \in Response
        /\ svrBuf' \in Seq(Response) /\ outbox' \in Seq(Response)
    BY <1>1, ParsedType
  <2>2. toClient' \in Seq(Answered)
    <3>1. req.id \in 0..MaxRequests
      BY DEF TypeOK, Request
    <3> QED
      BY <1>1, <2>1, <3>1, GivenType DEF ParseResponse
  <2> QED
    BY <1>1, <2>1, <2>2 DEF ParseResponse, TypeOK, PhaseInv, Asked, Replied, Connecting, Dialled, connVars
<1>2. CASE RelayBody(n)
  <2>1. svrBuf \in Seq(Response) /\ outbox \in Seq(Response)
    BY DEF TypeOK
  <2>2. svrBuf' \in Seq(Response) /\ outbox' \in Seq(Response)
    BY <1>2, <2>1, Cut, Joined DEF RelayBody
  <2>3. toClient' \in Seq(Answered)
    <3> DEFINE i == Len(toClient)
               e == [toClient[i] EXCEPT !.whole = ~gone]
    <3>1. toClient \in Seq(Answered)
      BY DEF TypeOK
    <3>2. i \in 1..Len(toClient) => e \in Answered
      <4>1. \A a \in Answered : [a EXCEPT !.whole = ~gone] \in Answered
        BY DEF Answered
      <4> QED
        BY <3>1, <4>1, ElementOfSeq
    <3>3. toClient' = [toClient EXCEPT ![i] = e]
      BY <1>2 DEF RelayBody
    <3> HIDE DEF e
    <3> QED
      BY <3>1, <3>2, <3>3, Replaced
  <2> QED
    BY <1>2, <2>2, <2>3 DEF RelayBody, TypeOK, PhaseInv, Asked, Replied, Connecting, Dialled, connVars
<1> QED
  BY <1>1, <1>2

(* The ends of a transaction and of a tunnel. *)
LEMMA FinishType ==
    ASSUME TypeOK, PhaseInv, FinishTransaction \/ TunnelEnds
    PROVE  TypeOK' /\ PhaseInv'
<1>1. log' \in Seq(1..MaxRequests)
  <2>1. CASE UNCHANGED log
    BY <2>1 DEF TypeOK
  <2>2. CASE log' = Append(log, req.id) /\ Replied
    <3>1. req.id \in 1..MaxRequests
      BY <2>2 DEF TypeOK, Request, PhaseInv
    <3> QED
      BY <2>2, <3>1 DEF TypeOK
  <2> QED
    BY <2>1, <2>2 DEF FinishTransaction, TunnelEnds, write_access_log, Replied
<1>2. CASE FinishTransaction
  BY <1>1, <1>2 DEF FinishTransaction, End, NextRequest, TypeOK, PhaseInv, Asked, Replied, Connecting,
                    Dialled, connVars, svrVars
<1>3. CASE TunnelEnds
  BY <1>1, <1>3 DEF TunnelEnds, End, NextRequest, TypeOK, PhaseInv, Asked, Replied, Connecting,
                    Dialled, connVars, svrVars
<1> QED
  BY <1>2, <1>3

(* The server answers the request at the head of its queue. *)
LEMMA ServerType ==
    ASSUME TypeOK, PhaseInv, ServerStep
    PROVE  TypeOK' /\ PhaseInv'
<1>1. ASSUME NEW status \in Statuses, NEW keep \in BOOLEAN, NEW body \in Bodies,
             ServerReplies(status, keep, body)
      PROVE  TypeOK' /\ PhaseInv'
  <2>1. inbox \in Seq(Request) /\ inbox # <<>> /\ outbox \in Seq(Response)
    BY <1>1 DEF TypeOK, ServerReplies
  <2>2. Head(inbox) \in Request /\ Tail(inbox) \in Seq(Request)
    BY <2>1, HeadTailProperties
  <2>3. Answer(status, keep, body) \in Response
    BY <2>2 DEF Answer, Request, Response
  <2>4. outbox' \in Seq(Response)
    BY <1>1, <2>1, <2>3 DEF ServerReplies
  <2>5. inbox' \in Seq(Request)
    <3>1. [inbox EXCEPT ![1].body = "continued"] \in Seq(Request)
      <4> DEFINE e == [inbox[1] EXCEPT !.body = "continued"]
      <4>1. e \in Request
        BY <2>1, <2>2, HeadTailProperties DEF Request
      <4>2. [inbox EXCEPT ![1].body = "continued"] = [inbox EXCEPT ![1] = e]
        OBVIOUS
      <4> QED
        BY <2>1, <4>1, <4>2, Replaced
    <3> QED
      BY <1>1, <2>2, <3>1 DEF ServerReplies
  <2>6. svr_skt' \in Server /\ svr_skt'.to = svr_skt.to
    BY <1>1 DEF ServerReplies, TypeOK, Server
  <2> QED
    BY <1>1, <2>4, <2>5, <2>6 DEF ServerReplies, TypeOK, PhaseInv, Asked, Replied, Connecting,
                                  Dialled, connVars, ghosts
<1>2. CASE ServerCloses
  <2>1. svr_skt' \in Server /\ svr_skt'.to = svr_skt.to
    BY <1>2 DEF ServerCloses, TypeOK, Server
  <2> QED
    BY <1>2, <2>1 DEF ServerCloses, TypeOK, PhaseInv, Asked, Replied, Connecting, Dialled,
                      connVars, ghosts
<1> QED
  BY <1>1, <1>2 DEF ServerStep

LEMMA TypeStep == TypeOK /\ PhaseInv /\ [Next]_vars => TypeOK' /\ PhaseInv'
<1> SUFFICES ASSUME TypeOK, PhaseInv, [Next]_vars PROVE TypeOK' /\ PhaseInv'
  OBVIOUS
<1>1. CASE ProxyStep
  BY <1>1, MoveType, DialType, ResponseType, FinishType DEF ProxyStep
<1>2. CASE ClientStep
  BY <1>2, MoveType, DialType, ParseType DEF ClientStep
<1>3. CASE ServerStep
  BY <1>3, ServerType
<1>4. CASE UNCHANGED vars
  BY <1>4 DEF vars, connVars, svrVars, ghosts, TypeOK, PhaseInv, Asked, Replied, Connecting, Dialled
<1>5. CASE ClientGoes
  BY <1>5, MoveType
<1> QED
  BY <1>1, <1>2, <1>3, <1>4, <1>5 DEF Next

(***************************************************************************)
(* TypeOK: the coroutine, its buffers and what its peers have seen always  *)
(* hold values the code can store, and the phase of the coroutine says     *)
(* which request it is at.                                                 *)
(***************************************************************************)
THEOREM TypeCorrect == Spec => [](TypeOK /\ PhaseInv)
<1>1. Init => TypeOK /\ PhaseInv
  BY InitType
<1>2. TypeOK /\ PhaseInv /\ [Next]_vars => (TypeOK /\ PhaseInv)'
  BY TypeStep
<1> QED
  BY <1>1, <1>2, PTL DEF Spec

-----------------------------------------------------------------------------
(* The kinds of steps *)

queues == <<inbox, outbox, svrBuf>>

(* The coroutine moves on, fails, the client goes, or something happens at the server. *)
Moves ==
    /\ UNCHANGED <<nreq, ghosts, resp>> /\ req'.id = req.id
    /\ gone => gone'
    /\ is_https' = is_https \/ toClient = <<>>
    /\ Asked' => Asked
    /\ Replied' => Replied
    /\ \/ pc' = pc /\ outcome' = outcome
       \/ outcome' = "error" /\ pc' = "closed" /\ outcome = "running"
       \/ /\ outcome' = outcome
          /\ {pc, pc'} \cap {"response", "relay", "finish", "tunnel", "closed"} = {}

(* A request is read that is not on the black list. *)
Reads ==
    /\ pc \in {"parse_http", "parse_https"} /\ pc' \in {"connect", "forward"} /\ Asked'
    /\ nreq < nreq' /\ nreq' = req'.id
    /\ UNCHANGED <<connVars, ghosts, resp, queues, outcome>>

(* A request is read that is. *)
Blocks ==
    /\ pc \in {"parse_http", "parse_https"} /\ pc' = "closed" /\ outcome' = "done"
    /\ nreq < nreq' /\ nreq' = req'.id /\ req'.id \in 0..MaxRequests
    /\ Given(Own(req'.id), req'.id)
    /\ UNCHANGED <<connVars, forwarded, log, resp, queues>>

(* The CONNECT is answered. *)
Accepts ==
    /\ pc \in {"established", "svr_handshake"} /\ pc' \in {"tunnel", "clt_handshake"}
    /\ nreq = 0 /\ req.id = 0 /\ toClient = <<>>
    /\ Given(Own(0), 0)
    /\ UNCHANGED <<connVars, nreq, req, forwarded, log, resp, queues, outcome>>

LEMMA StepKinds ==
    ASSUME TypeOK, PhaseInv, [Next]_vars
    PROVE  \/ Moves /\ UNCHANGED queues
           \/ Moves /\ Connect
           \/ Moves /\ \E status \in Statuses, keep \in BOOLEAN, body \in Bodies :
                          ServerReplies(status, keep, body)
           \/ Reads \/ Blocks \/ Accepts \/ ForwardRequest
           \/ \E n \in 0..Len(outbox) : ParseResponse(n) \/ RelayBody(n)
           \/ FinishTransaction \/ TunnelEnds
<1>1. CASE \E whole \in BOOLEAN : check_http_or_https(whole)
  BY <1>1 DEF check_http_or_https, Moves, Asked, Replied, Connecting, svrVars, queues, PhaseInv
<1>2. CASE ClientFails \/ ConnectFails \/ ResponseFails \/ RelayFails \/ HopReplies \/ HopFails
           \/ ServerHandshakeFails \/ ClientHandshake
  BY <1>2 DEF ClientFails, ConnectFails, ResponseFails, RelayFails, HopReplies, HopFails,
              ServerHandshakeFails, ClientHandshake, End, Moves, Asked, Replied, connVars, svrVars,
              queues, PhaseInv, TypeOK
<1>3. CASE Connect
  BY <1>3 DEF Connect, Moves, Asked, Replied, connVars, PhaseInv
<1>4. CASE Established \/ ServerHandshake
  BY <1>4 DEF Established, ServerHandshake, Moves, Accepts, Asked, Replied, Connecting, connVars,
              svrVars, queues, PhaseInv, ghosts
<1>5. ASSUME NEW h \in Hosts, ParseConnect(h)
      PROVE  Moves /\ UNCHANGED queues
  <2>1. req'.id = req.id
    BY <1>5 DEF ParseConnect, TypeOK, Request
  <2> QED
    BY <1>5, <2>1 DEF ParseConnect, Moves, Asked, Replied, connVars, queues, PhaseInv
<1>6. ASSUME NEW r, ParseHttp(r) \/ ParseHttps(r)
      PROVE  Reads \/ Blocks
  <2>1. nreq < nreq' /\ nreq' = req'.id /\ req' = r /\ r.id \in 0..MaxRequests
    <3>1. r.id \in 1..MaxRequests
      BY <1>6 DEF ParseHttp, ParseHttps, ClientSends
    <3> QED
      BY <1>6, <3>1, ServerAssumption DEF ParseHttp, ParseHttps, ClientSends
  <2>2. CASE r.host \in BlackList
    BY <1>6, <2>1, <2>2 DEF ParseHttp, ParseHttps, prepare403block, End, Blocks, connVars, queues
  <2>3. CASE r.host \notin BlackList
    BY <1>6, <2>1, <2>3 DEF ParseHttp, ParseHttps, Reads, Asked, connVars, queues, PhaseInv
  <2> QED
    BY <2>2, <2>3
<1>7. CASE ServerStep
  <2>1. CASE ServerCloses
    BY <2>1 DEF ServerCloses, Moves, Asked, Replied, connVars, queues
  <2>2. ASSUME NEW status \in Statuses, NEW keep \in BOOLEAN, NEW body \in Bodies,
               ServerReplies(status, keep, body)
        PROVE  Moves
    BY <2>2 DEF ServerReplies, Moves, Asked, Replied, connVars
  <2> QED
    BY <1>7, <2>1, <2>2 DEF ServerStep
<1>8. CASE UNCHANGED vars
  BY <1>8 DEF vars, connVars, svrVars, Moves, Asked, Replied, queues
<1>9. CASE ProxyStep
  BY <1>1, <1>2, <1>3, <1>4, <1>9 DEF ProxyStep
<1>10. CASE ClientStep
  BY <1>2, <1>5, <1>6, <1>10 DEF ClientStep
<1>11. CASE ClientGoes
  BY <1>11 DEF ClientGoes, Moves, Asked, Replied, svrVars, queues
<1> QED
  BY <1>7, <1>8, <1>9, <1>10, <1>11 DEF Next

(* Relaying a body settles the last answer and leaves the others alone. *)
LEMMA Relayed ==
    ASSUME TypeOK, NEW n, RelayBody(n)
    PROVE  /\ Len(toClient') = Len(toClient) /\ Len(toClient) \in Nat
           /\ \A i \in 1..Len(toClient) :
                 /\ toClient'[i].re = toClient[i].re /\ toClient'[i].to = toClient[i].to
                 /\ toClient'[i].status = toClient[i].status /\ toClient'[i].body = toClient[i].body
                 /\ i = Len(toClient) => toClient'[i].whole = ~gone
                 /\ i # Len(toClient) => toClient'[i] = toClient[i]
<1> DEFINE l == Len(toClient)
           e == [toClient[l] EXCEPT !.whole = ~gone]
<1>1. toClient \in Seq(Answered) /\ l \in Nat
  BY LenProperties DEF TypeOK
<1>2. \A a \in Answered :
         LET b == [a EXCEPT !.whole = ~gone]
         IN  /\ b \in Answered /\ b.re = a.re /\ b.to = a.to /\ b.status = a.status
             /\ b.body = a.body /\ b.whole = ~gone
  BY DEF Answered
<1>3. \A i \in 1..l : toClient[i] \in Answered
  BY <1>1, ElementOfSeq
<1>4. toClient' = [toClient EXCEPT ![l] = e]
  BY DEF RelayBody
<1>5. l \in 1..l => e \in Answered /\ e.re = toClient[l].re /\ e.to = toClient[l].to
                    /\ e.status = toClient[l].status /\ e.body = toClient[l].body
                    /\ e.whole = ~gone
  BY <1>2, <1>3
<1> HIDE DEF e
<1>6. Len(toClient') = l /\ \A j \in 1..l : toClient'[j] = IF j = l THEN e ELSE toClient[j]
  BY <1>1, <1>4, <1>5, Replaced
<1> QED
  BY <1>1, <1>5, <1>6

(* The steps that give the client an answer, and what it says. *)
LEMMA Grown ==
    ASSUME TypeOK, PhaseInv, [Next]_vars, NEW n \in 0..Len(outbox),
           Blocks \/ Accepts \/ ParseResponse(n), NEW l, l = Len(toClient)
    PROVE  /\ l \in Nat /\ Len(toClient') = l + 1
           /\ \A i \in 1..l : toClient'[i] = toClient[i]
           /\ \A i \in 1..(l + 1) : i \in 1..l \/ i = l + 1
           /\ toClient'[l + 1].to = req'.id
           /\ Blocks \/ Accepts => /\ toClient'[l + 1].re = req'.id
                                   /\ toClient'[l + 1].status = "own" /\ toClient'[l + 1].body = "none"
                                   /\ toClient'[l + 1].whole = ~gone
           /\ ParseResponse(n) => /\ toClient'[l + 1].re = resp'.re
                                  /\ toClient'[l + 1].status = resp'.status
                                  /\ toClient'[l + 1].body = resp'.body
                                  /\ toClient'[l + 1].whole = (resp'.body = "none" /\ ~gone)
<1>1. req'.id \in 0..MaxRequests
  BY TypeStep DEF TypeOK, Request
<1>2. CASE Blocks \/ Accepts
  <2>1. Given(Own(req'.id), req'.id) /\ pc # "response"
    BY <1>2 DEF Blocks, Accepts
  <2>2. Own(req'.id) \in Response /\ Own(req'.id).re = req'.id /\ Own(req'.id).status = "own"
        /\ Own(req'.id).body = "none"
    BY <1>1, OwnType
  <2> HIDE DEF Own
  <2> PICK r : r = Own(req'.id)
    OBVIOUS
  <2>3. /\ l \in Nat /\ Len(toClient') = l + 1
        /\ toClient'[l + 1] = [re |-> r.re, to |-> req'.id, status |-> r.status,
                               body |-> r.body, whole |-> r.body = "none" /\ ~gone]
        /\ \A i \in 1..l : toClient'[i] = toClient[i]
        /\ \A i \in 1..(l + 1) : i \in 1..l \/ i = l + 1
    BY <1>1, <2>1, <2>2, GivenType
  <2>4. r.re = req'.id /\ r.status = "own" /\ r.body = "none" /\ ~ParseResponse(n)
    BY <2>1, <2>2 DEF ParseResponse
  <2>5. /\ toClient'[l + 1].re = r.re /\ toClient'[l + 1].to = req'.id
        /\ toClient'[l + 1].status = r.status /\ toClient'[l + 1].body = r.body
    BY <2>3
  <2>6. toClient'[l + 1].whole = (r.body = "none" /\ ~gone)
    BY <2>3
  <2>7. toClient'[l + 1].whole = ~gone
    BY <2>4, <2>6, Zenon
  <2> QED
    BY <2>3, <2>4, <2>5, <2>7
<1>3. CASE ParseResponse(n)
  <2>1. resp' \in Response
    BY <1>3, ParsedType
  <2>2. Given(resp', req.id) /\ pc = "response" /\ req' = req /\ req.id \in 0..MaxRequests
    BY <1>1, <1>3 DEF ParseResponse
  <2>3. /\ l \in Nat /\ Len(toClient') = l + 1
        /\ toClient'[l + 1] = [re |-> resp'.re, to |-> req.id, status |-> resp'.status,
                               body |-> resp'.body, whole |-> resp'.body = "none" /\ ~gone]
        /\ \A i \in 1..l : toClient'[i] = toClient[i]
        /\ \A i \in 1..(l + 1) : i \in 1..l \/ i = l + 1
    BY <2>1, <2>2, GivenType
  <2> QED
    BY <2>2, <2>3 DEF Blocks, Accepts
<1> QED
  BY <1>2, <1>3

-----------------------------------------------------------------------------
(* The black list *)

LEMMA FilterStep == TypeOK /\ PhaseInv /\ BlockedNotForwarded /\ [Next]_vars => BlockedNotForwarded'
<1> SUFFICES ASSUME TypeOK, PhaseInv, BlockedNotForwarded, [Next]_vars PROVE BlockedNotForwarded'
  OBVIOUS
<1>1. CASE ForwardRequest
  BY <1>1 DEF ForwardRequest, BlockedNotForwarded, PhaseInv, Asked
<1>2. CASE UNCHANGED forwarded
  BY <1>2 DEF BlockedNotForwarded
<1> QED
  BY <1>1, <1>2, StepKinds DEF Moves, Reads, Blocks, Accepts, ParseResponse, RelayBody,
                               FinishTransaction, TunnelEnds, ghosts

(***************************************************************************)
(* No request the proxy reads reaches a server when its destination is on  *)
(* the black list, in either loop and whatever server is connected.        *)
(***************************************************************************)
THEOREM BlackListHolds == Spec => []BlockedNotForwarded
<1>1. Init => BlockedNotForwarded
  BY DEF Init, BlockedNotForwarded
<1>2. TypeOK /\ PhaseInv /\ BlockedNotForwarded /\ [Next]_vars => BlockedNotForwarded'
  BY FilterStep
<1> QED
  BY <1>1, <1>2, TypeCorrect, PTL DEF Spec

-----------------------------------------------------------------------------
(* The order of the answers *)

(***************************************************************************)
(* Answers go out in the order of the requests, and the request at hand is *)
(* younger than every answer until its own is the last one.                *)
(***************************************************************************)
OrderInv ==
    /\ \A j, k \in 1..Len(toClient) : j < k => toClient[j].to < toClient[k].to
    /\ \A k \in 1..Len(toClient) : toClient[k].to <= nreq
    /\ Asked => \A k \in 1..Len(toClient) : toClient[k].to < nreq
    /\ Replied => toClient # <<>> /\ toClient[Len(toClient)].to = req.id

LEMMA OrderStep == TypeOK /\ PhaseInv /\ OrderInv /\ [Next]_vars => OrderInv'
<1> SUFFICES ASSUME TypeOK, PhaseInv, OrderInv, [Next]_vars PROVE OrderInv'
  OBVIOUS
<1> PICK l : l = Len(toClient)
  OBVIOUS
<1>0. 0 \in 0..Len(outbox)
  BY LenProperties DEF TypeOK
<1>1. toClient \in Seq(Answered) /\ l \in Nat /\ nreq \in Nat /\ req.id \in 0..MaxRequests
  BY LenProperties DEF TypeOK, Request
<1>2. \A k \in 1..l : toClient[k].to \in Nat
  <2>1. \A a \in Answered : a.to \in Nat
    BY DEF Answered
  <2> QED
    BY <1>1, <2>1, ElementOfSeq
<1>3. CASE Moves
  BY <1>3 DEF Moves, OrderInv, ghosts, Replied
<1>4. CASE Reads
  <2>1. UNCHANGED toClient /\ nreq < nreq' /\ ~Replied' /\ nreq' \in Nat
    BY <1>4, TypeStep DEF Reads, ghosts, Replied, TypeOK
  <2> QED
    BY <1>1, <1>2, <2>1 DEF OrderInv
<1>5. CASE Blocks
  <2>1. /\ Len(toClient') = l + 1 /\ toClient'[l + 1].to = req'.id /\ req'.id = nreq'
        /\ \A i \in 1..l : toClient'[i] = toClient[i]
        /\ \A i \in 1..(l + 1) : i \in 1..l \/ i = l + 1
    BY <1>0, <1>5, Grown DEF Blocks
  <2>2. nreq < nreq' /\ ~Replied' /\ ~Asked' /\ nreq' \in Nat
    BY <1>5, TypeStep DEF Blocks, Replied, Asked, TypeOK
  <2>3. \A k \in 1..l : toClient'[k].to < nreq'
    BY <1>1, <1>2, <2>1, <2>2 DEF OrderInv
  <2>4. \A k \in 1..Len(toClient') : toClient'[k].to <= nreq'
    BY <1>1, <1>2, <2>1, <2>2, <2>3
  <2>5. \A j, k \in 1..Len(toClient') : j < k => toClient'[j].to < toClient'[k].to
    <3> SUFFICES ASSUME NEW j \in 1..(l + 1), NEW k \in 1..(l + 1), j < k
                 PROVE  toClient'[j].to < toClient'[k].to
      BY <2>1
    <3>1. j \in 1..l
      BY <1>1
    <3>2. CASE k = l + 1
      BY <2>1, <2>3, <3>1, <3>2
    <3>3. CASE k \in 1..l
      BY <2>1, <3>1, <3>3 DEF OrderInv
    <3> QED
      BY <2>1, <3>2, <3>3
  <2> QED
    BY <2>2, <2>4, <2>5 DEF OrderInv
<1>6. CASE Accepts
  <2>1. l = 0 /\ nreq' = 0 /\ req'.id = 0 /\ ~Asked' /\ ~Replied'
    BY <1>6, EmptySeq DEF Accepts, Asked, Replied
  <2>2. Len(toClient') = l + 1 /\ toClient'[l + 1].to = req'.id
    BY <1>0, <1>6, Grown
  <2> QED
    BY <2>1, <2>2 DEF OrderInv
<1>7. CASE ForwardRequest
  BY <1>7 DEF ForwardRequest, OrderInv, Asked, Replied
<1>8. ASSUME NEW n \in 0..Len(outbox), ParseResponse(n) PROVE OrderInv'
  <2>1. nreq' = nreq /\ req' = req
    BY <1>8 DEF ParseResponse
  <2>2. /\ Len(toClient') = l + 1 /\ toClient'[l + 1].to = req'.id
        /\ \A i \in 1..l : toClient'[i] = toClient[i]
        /\ \A i \in 1..(l + 1) : i \in 1..l \/ i = l + 1
    BY <1>8, Grown
  <2>3. req.id = nreq /\ ~Asked' /\ \A k \in 1..Len(toClient) : toClient[k].to < nreq
    BY <1>8 DEF ParseResponse, PhaseInv, Asked, OrderInv
  <2> QED
    BY <1>1, <1>2, <2>1, <2>2, <2>3 DEF OrderInv
<1>9. ASSUME NEW n \in 0..Len(outbox), RelayBody(n) PROVE OrderInv'
  <2>1. /\ Len(toClient') = Len(toClient)
        /\ \A i \in 1..Len(toClient) : toClient'[i].to = toClient[i].to
    BY <1>9, Relayed
  <2>2. Replied /\ ~Asked' /\ nreq' = nreq /\ req' = req
    BY <1>9 DEF RelayBody, Replied, Asked
  <2>3. Len(toClient) > 0 /\ toClient[Len(toClient)].to = req.id
    BY <1>1, <2>2, EmptySeq DEF OrderInv
  <2> QED
    BY <1>1, <2>1, <2>2, <2>3 DEF OrderInv
<1>10. CASE FinishTransaction \/ TunnelEnds
  BY <1>10 DEF FinishTransaction, TunnelEnds, End, NextRequest, OrderInv, Asked, Replied
<1> QED
  BY <1>3, <1>4, <1>5, <1>6, <1>7, <1>8, <1>9, <1>10, StepKinds

-----------------------------------------------------------------------------
(* Each answer is that of the request it is given to *)

(* An interim response has been taken for an answer. *)
Tainted == \E j \in 1..Len(toClient) : toClient[j].status = "interim"

(***************************************************************************)
(* Until then what is at the server and on its way back belongs to the     *)
(* request at hand, a response that is not interim is the last, and        *)
(* nothing is there, and nothing is read ahead, between transactions.      *)
(***************************************************************************)
BufferInv ==
    ~Tainted /\ pc # "closed" =>
        /\ svrBuf = <<>>
        /\ pc # "response" => inbox = <<>> /\ outbox = <<>>
        /\ Len(inbox) <= 1
        /\ \A i \in 1..Len(inbox) : inbox[i].id = req.id
        /\ \A i \in 1..Len(outbox) :
              /\ outbox[i].re = req.id
              /\ outbox[i].status # "interim" => i = Len(outbox) /\ inbox = <<>>
              /\ outbox[i].status = "interim" => outbox[i].body = "none"

(* Interim answers are never taken back. *)
LEMMA TaintStays ==
    ASSUME TypeOK, PhaseInv, [Next]_vars, Tainted
    PROVE  Tainted'
<1>1. PICK j \in 1..Len(toClient) : toClient[j].status = "interim"
  BY DEF Tainted
<1>2. Len(toClient) \in Nat
  BY LenProperties DEF TypeOK
<1>3. CASE UNCHANGED toClient
  BY <1>1, <1>3 DEF Tainted
<1>4. ASSUME NEW n \in 0..Len(outbox), Blocks \/ Accepts \/ ParseResponse(n) PROVE Tainted'
  <2>1. Len(toClient') = Len(toClient) + 1 /\ \A i \in 1..Len(toClient) : toClient'[i] = toClient[i]
    BY <1>4, Grown
  <2> QED
    BY <1>1, <1>2, <2>1 DEF Tainted
<1>5. ASSUME NEW n \in 0..Len(outbox), RelayBody(n) PROVE Tainted'
  BY <1>1, <1>5, Relayed DEF Tainted
<1>6. 0 \in 0..Len(outbox)
  BY LenProperties DEF TypeOK
<1> QED
  BY <1>3, <1>4, <1>5, <1>6, StepKinds DEF Moves, Reads, ForwardRequest, FinishTransaction, TunnelEnds, ghosts

(* What parse_message hands over while nothing is tainted. *)
LEMMA ParsedClean ==
    ASSUME TypeOK, BufferInv, ~Tainted, NEW n \in 0..Len(outbox), ParseResponse(n)
    PROVE  /\ resp'.re = req.id
           /\ resp'.status # "interim" => inbox = <<>> /\ outbox' = <<>> /\ svrBuf' = <<>>
<1> PICK buf : buf = SubSeq(outbox, 1, n)
  OBVIOUS
<1>1. /\ svrBuf = <<>>
      /\ \A i \in 1..Len(outbox) :
            /\ outbox[i].re = req.id
            /\ outbox[i].status # "interim" => i = Len(outbox) /\ inbox = <<>>
            /\ outbox[i].status = "interim" => outbox[i].body = "none"
  BY DEF BufferInv, ParseResponse
<1>2. outbox \in Seq(Response) /\ Len(outbox) \in Nat /\ n \in 1..Len(outbox)
  BY <1>1, LenProperties DEF TypeOK, ParseResponse
<1>3. buf \in Seq(Response) /\ Len(buf) = n /\ \A i \in 1..n : buf[i] = outbox[i]
  BY <1>2, Cut
<1>4. svrBuf \o SubSeq(outbox, 1, n) = buf
  BY <1>1, <1>3, ConcatEmptySeq
<1>5. HandedOver(buf) = n
  <2>1. buf # <<>>
    BY <1>2, <1>3
  <2>2. \A i \in 1..Len(buf) : i # Len(buf) => buf[i].status = "interim" /\ buf[i].body = "none"
    BY <1>1, <1>2, <1>3
  <2> QED
    BY <1>3, <2>1, <2>2, HandedOverIn
<1>6. /\ resp' = buf[n] /\ svrBuf' = SubSeq(buf, n + 1, Len(buf))
      /\ outbox' = SubSeq(outbox, n + 1, Len(outbox))
  BY <1>4, <1>5 DEF ParseResponse
<1>7. resp' = outbox[n]
  BY <1>2, <1>3, <1>6
<1>8. svrBuf' = <<>>
  <2>1. svrBuf' \in Seq(Response) /\ Len(svrBuf') = 0
    BY <1>2, <1>3, <1>6, Cut
  <2> QED
    BY <2>1, EmptySeq
<1>9. ASSUME n = Len(outbox) PROVE outbox' = <<>>
  <2>1. outbox' \in Seq(Response) /\ Len(outbox') = 0
    BY <1>2, <1>6, <1>9, Cut
  <2> QED
    BY <2>1, EmptySeq
<1> QED
  BY <1>1, <1>2, <1>7, <1>8, <1>9

(* The server answers the request at hand. *)
LEMMA ServerBuffer ==
    ASSUME TypeOK, BufferInv, ~Tainted, pc # "closed", Moves, NEW status \in Statuses,
           NEW keep \in BOOLEAN, NEW body \in Bodies, ServerReplies(status, keep, body)
    PROVE  BufferInv'
<1>1. /\ inbox \in Seq(Request) /\ inbox # <<>> /\ outbox \in Seq(Response)
      /\ UNCHANGED <<pc, req, svrBuf>>
  BY DEF TypeOK, ServerReplies
<1>2. pc = "response" /\ svrBuf = <<>> /\ Len(inbox) <= 1
  BY <1>1 DEF BufferInv
<1>3. Len(inbox) = 1 /\ Head(inbox) = inbox[1] /\ inbox[1] \in Request /\ inbox[1].id = req.id
      /\ Tail(inbox) \in Seq(Request) /\ Len(Tail(inbox)) = 0
  <2>1. Len(inbox) \in Nat \ {0}
    BY <1>1, EmptySeq
  <2>2. Len(inbox) = 1
    <3>1. \A k \in Nat \ {0} : k <= 1 => k = 1
      OBVIOUS
    <3> QED
      BY <1>2, <2>1, <3>1
  <2>3. Head(inbox) = inbox[1] /\ Head(inbox) \in Request /\ Tail(inbox) \in Seq(Request)
        /\ Len(Tail(inbox)) = Len(inbox) - 1
    BY <1>1, HeadTailProperties
  <2>4. inbox[1].id = req.id
    BY <2>2 DEF BufferInv
  <2> QED
    BY <2>2, <2>3, <2>4
<1>4. Tail(inbox) = <<>>
  BY <1>3, EmptySeq
<1>5. \A i \in 1..Len(outbox) : outbox[i].re = req.id /\ outbox[i].status = "interim"
                                /\ outbox[i].body = "none"
  BY <1>1 DEF BufferInv
<1> PICK a : a = Answer(status, keep, body)
  OBVIOUS
<1>6. a \in Response /\ a.re = req.id /\ a.status = status /\ a.body = body
  BY <1>3 DEF Answer, Response, Request
<1>7. /\ Len(outbox) \in Nat /\ Len(outbox') = Len(outbox) + 1
      /\ outbox'[Len(outbox')] = a
      /\ \A i \in 1..Len(outbox) : outbox'[i] = outbox[i]
      /\ \A i \in 1..Len(outbox') : i # Len(outbox') => i \in 1..Len(outbox)
  <2>1. outbox' = Append(outbox, a)
    BY DEF ServerReplies
  <2> QED
    BY <1>1, <1>6, <2>1, Appended
<1>8. CASE status = "interim" /\ body = "none" /\ inbox' = [inbox EXCEPT ![1].body = "continued"]
  <2>1. Len(inbox') = 1 /\ inbox'[1].id = req.id
    <3> DEFINE e == [inbox[1] EXCEPT !.body = "continued"]
    <3>1. e \in Request /\ e.id = inbox[1].id
      BY <1>3 DEF Request
    <3>2. inbox' = [inbox EXCEPT ![1] = e]
      BY <1>8
    <3> HIDE DEF e
    <3>3. Len(inbox') = Len(inbox) /\ \A j \in 1..Len(inbox) : inbox'[j] = IF j = 1 THEN e ELSE inbox[j]
      BY <1>1, <3>1, <3>2, Replaced
    <3> QED
      BY <1>3, <3>1, <3>3
  <2>2. \A i \in 1..Len(outbox') : outbox'[i].re = req.id /\ outbox'[i].status = "interim"
                                   /\ outbox'[i].body = "none"
    BY <1>5, <1>6, <1>7, <1>8
  <2> QED
    BY <1>1, <1>2, <2>1, <2>2 DEF BufferInv
<1>9. CASE status # "interim" /\ inbox' = Tail(inbox)
  <2>1. inbox' = <<>> /\ Len(inbox') = 0
    BY <1>3, <1>4, <1>9
  <2>2. \A i \in 1..Len(outbox') :
           /\ outbox'[i].re = req.id
           /\ outbox'[i].status # "interim" => i = Len(outbox')
           /\ outbox'[i].status = "interim" => outbox'[i].body = "none"
    BY <1>5, <1>6, <1>7, <1>9
  <2> QED
    BY <1>1, <1>2, <2>1, <2>2 DEF BufferInv
<1> QED
  BY <1>8, <1>9 DEF ServerReplies

LEMMA BufferStep == TypeOK /\ PhaseInv /\ BufferInv /\ [Next]_vars => BufferInv'
<1> SUFFICES ASSUME TypeOK, PhaseInv, BufferInv, [Next]_vars, ~Tainted', pc' # "closed"
             PROVE  BufferInv'
  BY DEF BufferInv
<1>1. ~Tainted
  BY TaintStays
<1>2. CASE pc = "closed"
  BY <1>2, StepKinds DEF Moves, Connect, ServerReplies, Reads, Blocks, Accepts, ForwardRequest,
                         ParseResponse, RelayBody, FinishTransaction, TunnelEnds
<1> SUFFICES ASSUME pc # "closed" PROVE BufferInv'
  BY <1>2
<1>3. /\ svrBuf = <<>> /\ Len(inbox) <= 1
      /\ pc # "response" => inbox = <<>> /\ outbox = <<>>
  BY <1>1 DEF BufferInv
<1>4. Len(<<>>) = 0
  BY EmptySeq
<1>5. ASSUME UNCHANGED svrBuf, inbox' = <<>>, outbox' = <<>> PROVE BufferInv'
  BY <1>3, <1>4, <1>5 DEF BufferInv
<1>6. CASE Moves /\ UNCHANGED queues
  <2>1. CASE pc # "response"
    BY <1>3, <1>5, <1>6, <2>1 DEF queues
  <2>2. CASE pc = "response"
    BY <1>1, <1>6, <2>2 DEF BufferInv, Moves, queues, ghosts
  <2> QED
    BY <2>1, <2>2
<1>7. CASE Connect
  BY <1>5, <1>7 DEF Connect
<1>8. CASE Moves /\ \E status \in Statuses, keep \in BOOLEAN, body \in Bodies :
                       ServerReplies(status, keep, body)
  BY <1>1, <1>8, ServerBuffer
<1>9. CASE Reads \/ Blocks \/ Accepts \/ FinishTransaction \/ TunnelEnds
  BY <1>3, <1>5, <1>9 DEF Reads, Blocks, Accepts, FinishTransaction, TunnelEnds, queues, svrVars
<1>10. CASE ForwardRequest
  <2>1. req \in Request /\ inbox = <<>> /\ outbox' = <<>> /\ svrBuf' = <<>> /\ req' = req
        /\ pc' = "response"
    BY <1>3, <1>10 DEF ForwardRequest, TypeOK
  <2>2. CASE inbox' = inbox
    BY <1>3, <1>4, <1>5, <1>10, <2>1, <2>2
  <2>3. CASE inbox' = Append(inbox, req)
    <3>1. Len(inbox') = 1 /\ inbox'[1] = req
      BY <2>1, <2>3
    <3> QED
      BY <1>4, <2>1, <3>1 DEF BufferInv
  <2> QED
    BY <1>10, <2>2, <2>3 DEF ForwardRequest
<1>11. ASSUME NEW n \in 0..Len(outbox), ParseResponse(n) PROVE BufferInv'
  <2>1. resp'.status # "interim"
    <3>1. PICK l : l = Len(toClient)
      OBVIOUS
    <3>2. l \in Nat /\ Len(toClient') = l + 1 /\ toClient'[l + 1].status = resp'.status
      BY <1>11, <3>1, Grown
    <3> QED
      BY <3>2 DEF Tainted
  <2>2. inbox = <<>> /\ outbox' = <<>> /\ svrBuf' = <<>>
    BY <1>1, <1>11, <2>1, ParsedClean
  <2> QED
    BY <1>3, <1>5, <1>11, <2>2 DEF ParseResponse
<1>12. ASSUME NEW n \in 0..Len(outbox), RelayBody(n) PROVE BufferInv'
  <2>1. outbox = <<>> /\ inbox = <<>> /\ n = 0
    BY <1>3, <1>4, <1>12 DEF RelayBody
  <2>2. outbox' = <<>> /\ svrBuf' = <<>>
    <3>1. outbox \in Seq(Response) /\ Len(outbox) = 0
      BY <1>4, <2>1 DEF TypeOK
    <3>2. SubSeq(outbox, 1, 0) \in Seq(Response) /\ Len(SubSeq(outbox, 1, 0)) = 0
          /\ SubSeq(outbox, 0 + 1, Len(outbox)) \in Seq(Response)
          /\ Len(SubSeq(outbox, 0 + 1, Len(outbox))) = Len(outbox) - 0
      BY <3>1, Cut
    <3>3. SubSeq(outbox, 1, 0) = <<>> /\ SubSeq(outbox, 0 + 1, Len(outbox)) = <<>>
      BY <3>1, <3>2, EmptySeq
    <3>4. <<>> \o <<>> = <<>>
      BY EmptySeq, ConcatEmptySeq
    <3> QED
      BY <1>3, <1>12, <2>1, <3>3, <3>4 DEF RelayBody
  <2> QED
    BY <1>3, <1>5, <1>12, <2>1, <2>2 DEF RelayBody
<1> QED
  BY <1>6, <1>7, <1>8, <1>9, <1>10, <1>11, <1>12, StepKinds

MatchInv ==
    \A k \in 1..Len(toClient) : \/ toClient[k].re = toClient[k].to
                                \/ \E j \in 1..(k - 1) : toClient[j].status = "interim"

LEMMA MatchStep == TypeOK /\ PhaseInv /\ BufferInv /\ MatchInv /\ [Next]_vars => MatchInv'
<1> SUFFICES ASSUME TypeOK, PhaseInv, BufferInv, MatchInv, [Next]_vars PROVE MatchInv'
  OBVIOUS
<1>0. 0 \in 0..Len(outbox) /\ Len(toClient) \in Nat
  BY LenProperties DEF TypeOK
<1> PICK l : l = Len(toClient)
  OBVIOUS
<1>1. CASE UNCHANGED toClient
  BY <1>1 DEF MatchInv
<1>2. ASSUME NEW n \in 0..Len(outbox), Blocks \/ Accepts \/ ParseResponse(n) PROVE MatchInv'
  <2>1. /\ Len(toClient') = l + 1 /\ toClient'[l + 1].to = req'.id
        /\ \A i \in 1..l : toClient'[i] = toClient[i]
        /\ \A i \in 1..(l + 1) : i \in 1..l \/ i = l + 1
    BY <1>2, Grown
  <2>2. \/ toClient'[l + 1].re = req'.id
        \/ \E j \in 1..l : toClient[j].status = "interim"
    <3>1. CASE Blocks \/ Accepts
      BY <1>2, <3>1, Grown
    <3>2. CASE ParseResponse(n) /\ ~Tainted
      <4>1. toClient'[l + 1].re = resp'.re /\ req' = req
        BY <1>2, <3>2, Grown DEF ParseResponse
      <4>2. resp'.re = req.id
        BY <3>2, ParsedClean
      <4> QED
        BY <4>1, <4>2
    <3>3. CASE Tainted
      BY <3>3 DEF Tainted
    <3> QED
      BY <1>2, <3>1, <3>2, <3>3
  <2>3. ASSUME NEW k \in 1..l
        PROVE  \/ toClient'[k].re = toClient'[k].to
               \/ \E j \in 1..(k - 1) : toClient'[j].status = "interim"
    <3>1. \A j \in 1..(k - 1) : toClient'[j] = toClient[j]
      BY <1>0, <2>1
    <3> QED
      BY <2>1, <3>1 DEF MatchInv
  <2>4. \/ toClient'[l + 1].re = toClient'[l + 1].to
        \/ \E j \in 1..(l + 1 - 1) : toClient'[j].status = "interim"
    BY <1>0, <2>1, <2>2
  <2> QED
    BY <2>1, <2>3, <2>4 DEF MatchInv
<1>3. ASSUME NEW n \in 0..Len(outbox), RelayBody(n) PROVE MatchInv'
  <2>1. /\ Len(toClient') = l
        /\ \A i \in 1..l : toClient'[i].re = toClient[i].re /\ toClient'[i].to = toClient[i].to
                           /\ toClient'[i].status = toClient[i].status
    BY <1>3, Relayed
  <2>2. \A k \in 1..l : \A j \in 1..(k - 1) : toClient'[j].status = toClient[j].status
    BY <1>0, <2>1
  <2> QED
    BY <2>1, <2>2 DEF MatchInv
<1> QED
  BY <1>0, <1>1, <1>2, <1>3, StepKinds
     DEF Moves, Reads, ForwardRequest, FinishTransaction, TunnelEnds, ghosts

(***************************************************************************)
(* What reaches the client answers its requests, each once and in order,   *)
(* although parse_message keeps its buffer from one server connection to   *)
(* the next; a wrong answer needs an interim response taken for a final    *)
(* one before it.                                                          *)
(***************************************************************************)
THEOREM AnswersMatch == Spec => []AnswersMatchRequests
<1> DEFINE I == TypeOK /\ PhaseInv /\ OrderInv /\ BufferInv /\ MatchInv
<1>1. Init => I
  <2> SUFFICES ASSUME Init PROVE OrderInv /\ BufferInv /\ MatchInv
    BY InitType
  <2>1. Len(<<>>) = 0
    BY EmptySeq
  <2> QED
    BY <2>1 DEF Init, OrderInv, BufferInv, MatchInv, Asked, Replied
<1>2. I /\ [Next]_vars => I'
  BY TypeStep, OrderStep, BufferStep, MatchStep
<1>3. I => AnswersMatchRequests
  BY DEF OrderInv, MatchInv, AnswersMatchRequests
<1> QED
  BY <1>1, <1>2, <1>3, PTL DEF Spec

-----------------------------------------------------------------------------
(* No request is left without its answer *)

HasAnswer(id) == \E k \in 1..Len(toClient) : toClient[k].to = id

(***************************************************************************)
(* A forwarded request is answered, or it is the last and waited for, or   *)
(* the connection has failed.                                              *)
(***************************************************************************)
AnsweredInv ==
    /\ \A f \in forwarded : \/ HasAnswer(f.id)
                            \/ f.id = nreq /\ (pc = "response" \/ outcome = "error")
    /\ outcome = "done" => nreq = 0 \/ HasAnswer(nreq)
    /\ pc = "response" \/ Replied => \E f \in forwarded : f.id = req.id

LEMMA AnswerStays ==
    ASSUME TypeOK, PhaseInv, [Next]_vars, NEW id, HasAnswer(id)
    PROVE  HasAnswer(id)'
<1>1. PICK k \in 1..Len(toClient) : toClient[k].to = id
  BY DEF HasAnswer
<1>2. Len(toClient) \in Nat /\ 0 \in 0..Len(outbox)
  BY LenProperties DEF TypeOK
<1>3. CASE UNCHANGED toClient
  BY <1>1, <1>3 DEF HasAnswer
<1>4. ASSUME NEW n \in 0..Len(outbox), Blocks \/ Accepts \/ ParseResponse(n) PROVE HasAnswer(id)'
  <2>1. Len(toClient') = Len(toClient) + 1 /\ \A i \in 1..Len(toClient) : toClient'[i] = toClient[i]
    BY <1>4, Grown
  <2> QED
    BY <1>1, <1>2, <2>1 DEF HasAnswer
<1>5. ASSUME NEW n \in 0..Len(outbox), RelayBody(n) PROVE HasAnswer(id)'
  BY <1>1, <1>5, Relayed DEF HasAnswer
<1> QED
  BY <1>2, <1>3, <1>4, <1>5, StepKinds
     DEF Moves, Reads, ForwardRequest, FinishTransaction, TunnelEnds, ghosts

LEMMA AnsweredStep == TypeOK /\ PhaseInv /\ OrderInv /\ AnsweredInv /\ [Next]_vars => AnsweredInv'
<1> SUFFICES ASSUME TypeOK, PhaseInv, OrderInv, AnsweredInv, [Next]_vars PROVE AnsweredInv'
  OBVIOUS
<1>0. 0 \in 0..Len(outbox) /\ Len(toClient) \in Nat
  BY LenProperties DEF TypeOK
<1>1. \A f \in forwarded : HasAnswer(f.id) => HasAnswer(f.id)'
  BY AnswerStays
<1>2. ASSUME pc \notin {"response", "closed"} PROVE \A f \in forwarded : HasAnswer(f.id)'
  <2>1. outcome # "error"
    BY <1>2 DEF PhaseInv
  <2> QED
    BY <1>1, <1>2, <2>1 DEF AnsweredInv
<1>3. CASE Moves
  <2>1. UNCHANGED <<nreq, toClient, forwarded>> /\ req'.id = req.id
    BY <1>3 DEF Moves, ghosts
  <2>2. HasAnswer(nreq) => HasAnswer(nreq)'
    BY <2>1 DEF HasAnswer
  <2>3. pc = "response" => pc' = "response" \/ outcome' = "error"
    BY <1>3 DEF Moves
  <2>4. outcome = "error" => outcome' = "error"
    BY <1>3 DEF Moves
  <2>5. (outcome' = "done" => outcome = "done") /\ (pc' = "response" => pc = "response")
        /\ (Replied' => Replied)
    BY <1>3 DEF Moves
  <2> QED
    BY <1>1, <2>1, <2>2, <2>3, <2>4, <2>5 DEF AnsweredInv
<1>4. CASE Reads
  <2>1. /\ pc \notin {"response", "closed"} /\ pc' # "response" /\ ~Replied' /\ outcome' # "done"
        /\ UNCHANGED forwarded
    BY <1>4 DEF Reads, Replied, PhaseInv, ghosts
  <2> QED
    BY <1>2, <2>1 DEF AnsweredInv
<1>5. CASE Blocks
  <2>1. /\ pc \notin {"response", "closed"} /\ pc' # "response" /\ ~Replied' /\ UNCHANGED forwarded
        /\ nreq' = req'.id
    BY <1>5 DEF Blocks, Replied
  <2>2. HasAnswer(nreq)'
    <3>1. Len(toClient') = Len(toClient) + 1 /\ toClient'[Len(toClient) + 1].to = req'.id
      BY <1>0, <1>5, Grown
    <3> QED
      BY <1>0, <2>1, <3>1 DEF HasAnswer
  <2> QED
    BY <1>2, <2>1, <2>2 DEF AnsweredInv
<1>6. CASE Accepts
  <2>1. /\ pc \notin {"response", "closed"} /\ pc' # "response" /\ ~Replied' /\ UNCHANGED forwarded
        /\ outcome' # "done"
    BY <1>6 DEF Accepts, Replied, PhaseInv
  <2> QED
    BY <1>2, <2>1 DEF AnsweredInv
<1>7. CASE ForwardRequest
  <2>1. pc = "forward" /\ req.id = nreq /\ outcome = "running"
    BY <1>7 DEF ForwardRequest, PhaseInv, Asked
  <2>2. /\ forwarded' = forwarded \cup {[id |-> req.id, host |-> req.host, to |-> svr_skt.to]}
        /\ pc' = "response" /\ UNCHANGED <<req, nreq, outcome>>
    BY <1>7 DEF ForwardRequest
  <2>3. \A f \in forwarded' : HasAnswer(f.id)' \/ f.id = nreq
    BY <1>2, <2>1, <2>2
  <2>4. \E f \in forwarded' : f.id = req.id
    <3>1. PICK f : f = [id |-> req.id, host |-> req.host, to |-> svr_skt.to]
      OBVIOUS
    <3>2. f.id = req.id /\ f \in forwarded'
      BY <2>2, <3>1
    <3> QED
      BY <3>2
  <2> QED
    BY <2>1, <2>2, <2>3, <2>4 DEF AnsweredInv
<1>8. ASSUME NEW n \in 0..Len(outbox), ParseResponse(n) PROVE AnsweredInv'
  <2>1. /\ pc = "response" /\ pc' # "response" /\ req.id = nreq /\ outcome' # "done"
        /\ UNCHANGED <<req, nreq, forwarded>>
    BY <1>8 DEF ParseResponse, PhaseInv, Asked
  <2>2. HasAnswer(nreq)'
    <3>1. Len(toClient') = Len(toClient) + 1 /\ toClient'[Len(toClient) + 1].to = req'.id
      BY <1>8, Grown
    <3> QED
      BY <1>0, <2>1, <3>1 DEF HasAnswer
  <2>3. \A f \in forwarded : HasAnswer(f.id)'
    <3> SUFFICES ASSUME NEW f \in forwarded PROVE HasAnswer(f.id)'
      OBVIOUS
    <3>1. CASE f.id = nreq
      BY <2>2, <3>1, <2>1 DEF HasAnswer
    <3>2. CASE HasAnswer(f.id)
      BY <1>1, <3>2
    <3> QED
      BY <3>1, <3>2 DEF AnsweredInv
  <2> QED
    BY <2>1, <2>3 DEF AnsweredInv
<1>9. CASE \E n \in 0..Len(outbox) : RelayBody(n)
  <2>1. /\ pc = "relay" /\ pc' = "finish" /\ outcome' # "done" /\ UNCHANGED <<req, forwarded>>
    BY <1>9 DEF RelayBody, PhaseInv
  <2> QED
    BY <1>2, <2>1 DEF AnsweredInv, Replied
<1>10. CASE FinishTransaction \/ TunnelEnds
  <2>1. /\ pc \notin {"response", "closed"} /\ pc' # "response" /\ (Replied' => Replied)
        /\ UNCHANGED <<req, nreq, forwarded, toClient>>
    BY <1>10 DEF FinishTransaction, TunnelEnds, End, NextRequest, Replied
  <2>2. Replied => HasAnswer(nreq)'
    <3>1. Replied => toClient # <<>> /\ toClient[Len(toClient)].to = nreq
      BY DEF OrderInv, PhaseInv
    <3>2. toClient # <<>> => Len(toClient) \in 1..Len(toClient)
      <4>1. toClient # <<>> => Len(toClient) \in Nat \ {0}
        BY EmptySeq DEF TypeOK
      <4> QED
        BY <4>1
    <3> QED
      BY <2>1, <3>1, <3>2 DEF HasAnswer
  <2>3. outcome' = "done" => nreq = 0 \/ Replied
    BY <1>10 DEF FinishTransaction, TunnelEnds, End, Replied, PhaseInv
  <2> QED
    BY <1>2, <2>1, <2>2, <2>3 DEF AnsweredInv
<1> QED
  BY <1>3, <1>4, <1>5, <1>6, <1>7, <1>8, <1>9, <1>10, StepKinds

(***************************************************************************)
(* A connection that ends without an error has answered every request that *)
(* parse_message handed over.                                              *)
(***************************************************************************)
THEOREM AllAnswered == Spec => []RequestsAnswered
<1> DEFINE I == TypeOK /\ PhaseInv /\ OrderInv /\ AnsweredInv
<1>1. Init => I
  <2> SUFFICES ASSUME Init PROVE OrderInv /\ AnsweredInv
    BY InitType
  <2>1. Len(<<>>) = 0
    BY EmptySeq
  <2> QED
    BY <2>1 DEF Init, OrderInv, AnsweredInv, Asked, Replied
<1>2. I /\ [Next]_vars => I'
  BY TypeStep, OrderStep, AnsweredStep
<1>3. I => RequestsAnswered
  <2> SUFFICES ASSUME I, outcome = "done", NEW id \in 1..nreq
               PROVE  HasAnswer(id) \/ (id < nreq /\ \A f \in forwarded : f.id # id)
    BY DEF RequestsAnswered, HasAnswer
  <2>1. id = nreq \/ id < nreq
    BY DEF TypeOK
  <2> QED
    BY <2>1 DEF AnsweredInv, PhaseInv
<1> QED
  BY <1>1, <1>2, <1>3, PTL DEF Spec

-----------------------------------------------------------------------------
(* Bodies *)

(* The last answer is the one that resp holds. *)
RespInv == pc \in {"relay", "finish"} => toClient[Len(toClient)].body = resp.body

LEMMA RespStep == TypeOK /\ PhaseInv /\ OrderInv /\ RespInv /\ [Next]_vars => RespInv'
<1> SUFFICES ASSUME TypeOK, PhaseInv, OrderInv, RespInv, [Next]_vars PROVE RespInv'
  OBVIOUS
<1>1. CASE Moves
  <2>1. UNCHANGED <<toClient, resp>> /\ (pc' \in {"relay", "finish"} => pc' = pc)
    BY <1>1 DEF Moves, ghosts
  <2> QED
    BY <2>1 DEF RespInv
<1>2. ASSUME NEW n \in 0..Len(outbox), ParseResponse(n) PROVE RespInv'
  <2>1. Len(toClient') = Len(toClient) + 1 /\ toClient'[Len(toClient) + 1].body = resp'.body
    BY <1>2, Grown
  <2> QED
    BY <2>1 DEF RespInv
<1>3. ASSUME NEW n \in 0..Len(outbox), RelayBody(n) PROVE RespInv'
  <2>1. /\ pc = "relay" /\ pc' = "finish" /\ UNCHANGED resp
        /\ Len(toClient') = Len(toClient) /\ Len(toClient) \in Nat
        /\ \A i \in 1..Len(toClient) : toClient'[i].body = toClient[i].body
    BY <1>3, Relayed DEF RelayBody
  <2>2. Len(toClient) \in 1..Len(toClient)
    <3>1. toClient # <<>>
      BY <2>1 DEF OrderInv, Replied
    <3>2. Len(toClient) \in Nat \ {0}
      BY <3>1, EmptySeq DEF TypeOK
    <3> QED
      BY <3>2
  <2> QED
    BY <2>1, <2>2 DEF RespInv
<1>4. CASE Reads \/ Blocks \/ Accepts \/ ForwardRequest \/ FinishTransaction \/ TunnelEnds
  BY <1>4 DEF Reads, Blocks, Accepts, ForwardRequest, FinishTransaction, TunnelEnds, End, NextRequest, RespInv
<1> QED
  BY <1>1, <1>2, <1>3, <1>4, StepKinds

(* An answer that is settled stays so: a client that has gone does not come back. *)
LEMMA SettledStays ==
    ASSUME TypeOK, PhaseInv, RespInv, [Next]_vars, NEW k \in 1..Len(toClient), Settled(toClient[k])
    PROVE  k \in 1..Len(toClient') /\ toClient'[k].to = toClient[k].to /\ Settled(toClient[k])'
<1>1. Len(toClient) \in Nat /\ 0 \in 0..Len(outbox) /\ toClient # <<>>
  BY LenProperties, EmptySeq DEF TypeOK
<1>2. CASE UNCHANGED toClient /\ (gone => gone') /\ is_https' = is_https
  BY <1>2 DEF Settled
<1>3. ASSUME NEW n \in 0..Len(outbox), Blocks \/ Accepts \/ ParseResponse(n)
      PROVE  k \in 1..Len(toClient') /\ toClient'[k].to = toClient[k].to /\ Settled(toClient[k])'
  <2>1. Len(toClient') = Len(toClient) + 1 /\ \A i \in 1..Len(toClient) : toClient'[i] = toClient[i]
    BY <1>3, Grown
  <2>2. UNCHANGED <<gone, is_https>>
    BY <1>3 DEF Blocks, Accepts, ParseResponse, connVars
  <2> QED
    BY <1>1, <2>1, <2>2 DEF Settled
<1>4. ASSUME NEW n \in 0..Len(outbox), RelayBody(n)
      PROVE  k \in 1..Len(toClient') /\ toClient'[k].to = toClient[k].to /\ Settled(toClient[k])'
  <2>1. /\ Len(toClient') = Len(toClient)
        /\ toClient'[k].to = toClient[k].to /\ toClient'[k].body = toClient[k].body
        /\ k = Len(toClient) => toClient'[k].whole = ~gone
        /\ k # Len(toClient) => toClient'[k] = toClient[k]
    BY <1>4, Relayed
  <2>2. /\ UNCHANGED <<gone, is_https>> /\ (gone => is_https \/ resp.body = "chunked")
        /\ toClient[Len(toClient)].body = resp.body
    BY <1>4 DEF RelayBody, connVars, RespInv
  <2>3. CASE k = Len(toClient)
    BY <2>1, <2>2, <2>3 DEF Settled
  <2>4. CASE k # Len(toClient)
    BY <2>1, <2>2, <2>4 DEF Settled
  <2> QED
    BY <2>1, <2>3, <2>4
<1>5. Moves \/ Reads \/ ForwardRequest \/ FinishTransaction \/ TunnelEnds
      => UNCHANGED toClient /\ (gone => gone') /\ is_https' = is_https
  BY <1>1 DEF Moves, Reads, ForwardRequest, FinishTransaction, TunnelEnds, ghosts, connVars
<1> QED
  BY <1>1, <1>2, <1>3, <1>4, <1>5, StepKinds

(***************************************************************************)
(* Only the last answer may be unsettled, while it is relayed, and an      *)
(* answer is whole only when those before it are.                          *)
(***************************************************************************)
BodyInv ==
    /\ \A k \in 1..Len(toClient) :
          \/ Settled(toClient[k]) \/ toClient[k].body = "unframed"
          \/ k = Len(toClient) /\ (pc = "relay" \/ outcome = "error")
    /\ \A j, k \in 1..Len(toClient) :
          j < k /\ toClient[k].whole => toClient[j].whole \/ toClient[j].body = "unframed"

LEMMA BodyStep == TypeOK /\ PhaseInv /\ RespInv /\ BodyInv /\ [Next]_vars => BodyInv'
<1> SUFFICES ASSUME TypeOK, PhaseInv, RespInv, BodyInv, [Next]_vars PROVE BodyInv'
  OBVIOUS
<1> PICK l : l = Len(toClient)
  OBVIOUS
<1>0. 0 \in 0..Len(outbox) /\ l \in Nat
  BY LenProperties DEF TypeOK
<1>1. CASE UNCHANGED toClient /\ (pc = "relay" => pc' = "relay" \/ outcome' = "error")
           /\ (outcome = "error" => outcome' = "error")
  <2>1. \A k \in 1..Len(toClient') :
           \/ Settled(toClient[k])' \/ toClient'[k].body = "unframed"
           \/ k = Len(toClient') /\ (pc' = "relay" \/ outcome' = "error")
    <3> SUFFICES ASSUME NEW k \in 1..Len(toClient)
                 PROVE  \/ Settled(toClient[k])' \/ toClient[k].body = "unframed"
                        \/ k = Len(toClient) /\ (pc' = "relay" \/ outcome' = "error")
      BY <1>1
    <3>1. CASE Settled(toClient[k])
      BY <3>1, SettledStays
    <3> QED
      BY <1>1, <3>1 DEF BodyInv
  <2> QED
    BY <1>1, <2>1 DEF BodyInv
<1>2. ASSUME pc \notin {"relay", "closed"}
      PROVE  \A k \in 1..l : Settled(toClient[k]) \/ toClient[k].body = "unframed"
  BY <1>2 DEF BodyInv, PhaseInv
<1>3. ASSUME NEW n \in 0..Len(outbox), Blocks \/ Accepts \/ ParseResponse(n) PROVE BodyInv'
  <2>1. /\ Len(toClient') = l + 1
        /\ \A i \in 1..l : toClient'[i] = toClient[i]
        /\ \A i \in 1..(l + 1) : i \in 1..l \/ i = l + 1
    BY <1>3, Grown
  <2>2. pc \notin {"relay", "closed"} /\ UNCHANGED <<gone, is_https>>
    BY <1>3 DEF Blocks, Accepts, ParseResponse, connVars
  <2>3. /\ toClient'[l + 1].whole => ~gone
        /\ Settled(toClient[l + 1])' \/ toClient'[l + 1].body = "unframed" \/ pc' = "relay"
    <3>1. CASE Blocks \/ Accepts
      <4>1. toClient'[l + 1].body = "none" /\ toClient'[l + 1].whole = ~gone
        BY <1>3, <3>1, Grown
      <4> QED
        BY <2>2, <4>1 DEF Settled
    <3>2. CASE ParseResponse(n)
      <4>1. resp'.body \in {"none", "length", "chunked", "unframed"}
        BY <3>2, ParsedType, ServerAssumption DEF Response
      <4>2. /\ toClient'[l + 1].body = resp'.body
            /\ toClient'[l + 1].whole = (resp'.body = "none" /\ ~gone)
        BY <1>3, <3>2, Grown
      <4>3. resp'.body \in {"length", "chunked"} => pc' = "relay"
        BY <3>2 DEF ParseResponse
      <4>4. resp'.body = "none" => Settled(toClient[l + 1])'
        BY <2>2, <4>2 DEF Settled
      <4> QED
        BY <4>1, <4>2, <4>3, <4>4
    <3> QED
      BY <1>3, <3>1, <3>2
  <2>4. \A k \in 1..l : Settled(toClient[k])' \/ toClient'[k].body = "unframed"
    BY <1>2, <2>1, <2>2 DEF Settled
  <2>5. \A k \in 1..Len(toClient') :
           \/ Settled(toClient[k])' \/ toClient'[k].body = "unframed"
           \/ k = Len(toClient') /\ (pc' = "relay" \/ outcome' = "error")
    BY <2>1, <2>3, <2>4
  <2>6. ~gone => \A j \in 1..l : toClient'[j].whole \/ toClient'[j].body = "unframed"
    BY <1>2, <2>1, <2>2 DEF Settled
  <2>7. \A j, k \in 1..Len(toClient') :
           j < k /\ toClient'[k].whole => toClient'[j].whole \/ toClient'[j].body = "unframed"
    <3> SUFFICES ASSUME NEW j \in 1..(l + 1), NEW k \in 1..(l + 1), j < k, toClient'[k].whole
                 PROVE  toClient'[j].whole \/ toClient'[j].body = "unframed"
      BY <2>1
    <3>1. j \in 1..l
      BY <1>0
    <3>2. CASE k = l + 1
      BY <2>3, <2>6, <3>1, <3>2
    <3>3. CASE k \in 1..l
      BY <2>1, <3>1, <3>3 DEF BodyInv
    <3> QED
      BY <2>1, <3>2, <3>3
  <2> QED
    BY <2>5, <2>7 DEF BodyInv
<1>4. ASSUME NEW n \in 0..Len(outbox), RelayBody(n) PROVE BodyInv'
  <2>1. /\ Len(toClient') = l
        /\ \A i \in 1..l : /\ toClient'[i].body = toClient[i].body
                           /\ i = l => toClient'[i].whole = ~gone
                           /\ i # l => toClient'[i] = toClient[i]
    BY <1>4, Relayed
  <2>2. /\ pc = "relay" /\ outcome # "error" /\ UNCHANGED <<gone, is_https>>
        /\ gone => is_https \/ resp.body = "chunked"
        /\ toClient[l].body = resp.body
    BY <1>4 DEF RelayBody, connVars, RespInv, PhaseInv
  <2>3. \A k \in 1..l : k # l => Settled(toClient[k]) \/ toClient[k].body = "unframed"
    BY DEF BodyInv
  <2>4. \A k \in 1..l : Settled(toClient[k])' \/ toClient'[k].body = "unframed"
    <3> SUFFICES ASSUME NEW k \in 1..l PROVE Settled(toClient[k])' \/ toClient'[k].body = "unframed"
      OBVIOUS
    <3>1. CASE k = l
      BY <2>1, <2>2, <3>1 DEF Settled
    <3>2. CASE k # l
      BY <2>1, <2>2, <2>3, <3>2 DEF Settled
    <3> QED
      BY <3>1, <3>2
  <2>5. \A j, k \in 1..Len(toClient') :
           j < k /\ toClient'[k].whole => toClient'[j].whole \/ toClient'[j].body = "unframed"
    <3> SUFFICES ASSUME NEW j \in 1..l, NEW k \in 1..l, j < k, toClient'[k].whole
                 PROVE  toClient'[j].whole \/ toClient'[j].body = "unframed"
      BY <2>1
    <3>1. j # l /\ toClient'[j] = toClient[j]
      BY <1>0, <2>1
    <3>2. CASE k = l
      <4>1. ~gone
        BY <2>1, <3>2
      <4> QED
        BY <2>3, <3>1, <4>1 DEF Settled
    <3>3. CASE k # l
      BY <2>1, <3>1, <3>3 DEF BodyInv
    <3> QED
      BY <3>2, <3>3
  <2> QED
    BY <2>1, <2>4, <2>5 DEF BodyInv
<1>5. Moves \/ Reads \/ ForwardRequest \/ FinishTransaction \/ TunnelEnds
      => /\ UNCHANGED toClient /\ (pc = "relay" => pc' = "relay" \/ outcome' = "error")
         /\ (outcome = "error" => outcome' = "error")
  BY DEF Moves, Reads, ForwardRequest, FinishTransaction, TunnelEnds, ghosts, PhaseInv
<1> QED
  BY <1>0, <1>1, <1>3, <1>4, <1>5, StepKinds

(***************************************************************************)
(* A connection that ends without an error has written every body it could *)
(* tell the end of, as long as the client is there; what it gets whole has *)
(* no gap; and no body of a known length is given up in http.              *)
(***************************************************************************)
THEOREM BodiesWhole == Spec => []BodiesRelayed
<1> DEFINE I == TypeOK /\ PhaseInv /\ OrderInv /\ RespInv /\ BodyInv
<1>1. Init => I
  <2>1. Len(<<>>) = 0
    BY EmptySeq
  <2> QED
    BY <2>1, InitType DEF Init, OrderInv, RespInv, BodyInv, Asked, Replied
<1>2. I /\ [Next]_vars => I'
  BY TypeStep, OrderStep, RespStep, BodyStep
<1>3. I => BodiesRelayed
  BY DEF BodyInv, PhaseInv, BodiesRelayed
<1> QED
  BY <1>1, <1>2, <1>3, PTL DEF Spec

-----------------------------------------------------------------------------
(* The access log *)

(* A body that ends with the connection comes with a response that says so. *)
Framed(r) == r.body = "unframed" => ~r.keep

FramingInv ==
    /\ \A i \in 1..Len(outbox) : Framed(outbox[i])
    /\ \A i \in 1..Len(svrBuf) : Framed(svrBuf[i])
    /\ Framed(resp)

LEMMA FramedJoined ==
    ASSUME TypeOK, FramingInv, NEW n \in 0..Len(outbox), NEW buf,
           buf = svrBuf \o SubSeq(outbox, 1, n)
    PROVE  /\ buf \in Seq(Response)
           /\ \A i \in 1..Len(buf) : Framed(buf[i])
           /\ \A i \in 1..Len(SubSeq(outbox, n + 1, Len(outbox))) :
                 Framed(SubSeq(outbox, n + 1, Len(outbox))[i])
<1> PICK s : s = SubSeq(outbox, 1, n)
  OBVIOUS
<1> PICK t : t = SubSeq(outbox, n + 1, Len(outbox))
  OBVIOUS
<1>1. outbox \in Seq(Response) /\ svrBuf \in Seq(Response) /\ Len(outbox) \in Nat /\ Len(svrBuf) \in Nat
  BY LenProperties DEF TypeOK
<1>2. /\ s \in Seq(Response) /\ Len(s) = n /\ \A i \in 1..n : s[i] = outbox[i]
      /\ t \in Seq(Response) /\ Len(t) = Len(outbox) - n
      /\ \A i \in 1..(Len(outbox) - n) : t[i] = outbox[n + i]
  BY <1>1, Cut
<1>3. /\ buf \in Seq(Response) /\ Len(buf) = Len(svrBuf) + Len(s)
      /\ \A i \in 1..(Len(svrBuf) + Len(s)) : buf[i] = IF i <= Len(svrBuf) THEN svrBuf[i] ELSE s[i - Len(svrBuf)]
  BY <1>1, <1>2, ConcatProperties
<1>4. \A i \in 1..n : Framed(s[i])
  BY <1>1, <1>2 DEF FramingInv
<1>5. \A i \in 1..Len(buf) : Framed(buf[i])
  <2> SUFFICES ASSUME NEW i \in 1..Len(buf) PROVE Framed(buf[i])
    OBVIOUS
  <2>1. CASE i <= Len(svrBuf)
    BY <1>1, <1>2, <1>3, <2>1 DEF FramingInv
  <2>2. CASE ~(i <= Len(svrBuf))
    <3>1. i - Len(svrBuf) \in 1..n /\ buf[i] = s[i - Len(svrBuf)]
      BY <1>1, <1>2, <1>3, <2>2
    <3> QED
      BY <1>4, <3>1
  <2> QED
    BY <2>1, <2>2
<1>6. \A i \in 1..Len(t) : Framed(t[i])
  BY <1>1, <1>2 DEF FramingInv
<1> QED
  BY <1>3, <1>5, <1>6

LEMMA FramingStep == TypeOK /\ PhaseInv /\ FramingInv /\ [Next]_vars => FramingInv'
<1> SUFFICES ASSUME TypeOK, PhaseInv, FramingInv, [Next]_vars PROVE FramingInv'
  OBVIOUS
<1>1. CASE UNCHANGED <<queues, resp>>
  BY <1>1 DEF FramingInv, queues
<1>2. CASE Connect
  BY <1>2, EmptySeq DEF Connect, FramingInv
<1>3. ASSUME NEW status \in Statuses, NEW keep \in BOOLEAN, NEW body \in Bodies,
             ServerReplies(status, keep, body)
      PROVE  FramingInv'
  <2> PICK a : a = Answer(status, keep, body)
    OBVIOUS
  <2>1. a \in Response /\ Framed(a)
    <3>1. Head(inbox) \in Request
      BY <1>3, HeadTailProperties DEF ServerReplies, TypeOK
    <3>2. a \in Response /\ a.body = body /\ a.keep = keep
      BY <3>1 DEF Answer, Response, Request
    <3> QED
      BY <1>3, <3>2 DEF ServerReplies, Framed
  <2>2. outbox' = Append(outbox, a) /\ UNCHANGED <<svrBuf, resp>>
    BY <1>3 DEF ServerReplies
  <2>3. outbox \in Seq(Response)
    BY DEF TypeOK
  <2>4. /\ outbox'[Len(outbox')] = a
        /\ \A i \in 1..Len(outbox) : outbox'[i] = outbox[i]
        /\ \A i \in 1..Len(outbox') : i # Len(outbox') => i \in 1..Len(outbox)
    BY <2>1, <2>2, <2>3, Appended
  <2>5. \A i \in 1..Len(outbox') : Framed(outbox'[i])
    BY <2>1, <2>4 DEF FramingInv
  <2> QED
    BY <2>2, <2>5 DEF FramingInv
<1>4. ASSUME NEW n \in 0..Len(outbox), ParseResponse(n) PROVE FramingInv'
  <2> PICK buf : buf = svrBuf \o SubSeq(outbox, 1, n)
    OBVIOUS
  <2>1. /\ buf \in Seq(Response) /\ \A i \in 1..Len(buf) : Framed(buf[i])
        /\ outbox' = SubSeq(outbox, n + 1, Len(outbox))
        /\ \A i \in 1..Len(outbox') : Framed(outbox'[i])
    BY <1>4, FramedJoined DEF ParseResponse
  <2>2. HandedOver(buf) \in 1..Len(buf) /\ resp' = buf[HandedOver(buf)]
    BY <1>4, ParsedType
  <2> PICK h : h = HandedOver(buf)
    OBVIOUS
  <2>3. svrBuf' = SubSeq(buf, h + 1, Len(buf)) /\ Len(buf) \in Nat /\ h \in 0..Len(buf)
    BY <1>4, <2>1, <2>2, LenProperties DEF ParseResponse
  <2>4. Len(svrBuf') = Len(buf) - h /\ \A i \in 1..(Len(buf) - h) : svrBuf'[i] = buf[h + i]
    BY <2>1, <2>3, Cut
  <2>5. \A i \in 1..Len(svrBuf') : Framed(svrBuf'[i])
    <3> SUFFICES ASSUME NEW i \in 1..(Len(buf) - h) PROVE Framed(svrBuf'[i])
      BY <2>4
    <3>1. \A m \in Nat : \A g \in 0..m : \A d \in 1..(m - g) : g + d \in 1..m
      OBVIOUS
    <3>2. h + i \in 1..Len(buf) /\ svrBuf'[i] = buf[h + i]
      BY <2>3, <2>4, <3>1
    <3> QED
      BY <2>1, <3>2
  <2> QED
    BY <2>1, <2>2, <2>5 DEF FramingInv
<1>5. ASSUME NEW n \in 0..Len(outbox), RelayBody(n) PROVE FramingInv'
  <2> PICK buf, t : buf = svrBuf \o SubSeq(outbox, 1, n) /\ t = SubSeq(outbox, n + 1, Len(outbox))
    OBVIOUS
  <2>1. svrBuf' = buf /\ UNCHANGED resp /\ outbox' = t
    BY <1>5 DEF RelayBody
  <2>2. (\A i \in 1..Len(buf) : Framed(buf[i])) /\ \A i \in 1..Len(t) : Framed(t[i])
    BY FramedJoined
  <2> QED
    BY <2>1, <2>2 DEF FramingInv
<1>6. CASE ForwardRequest \/ FinishTransaction \/ TunnelEnds
  BY <1>6 DEF ForwardRequest, FinishTransaction, TunnelEnds, FramingInv, svrVars
<1> QED
  BY <1>1, <1>2, <1>3, <1>4, <1>5, <1>6, StepKinds DEF Moves, Reads, Blocks, Accepts

(* The answer that starts a websocket is settled. *)
LastInv == pc = "tunnel" /\ req.id # 0 => Settled(toClient[Len(toClient)])

Logged(id) == \E j \in 1..Len(log) : log[j] = id

HasSettled(id) == \E k \in 1..Len(toClient) : toClient[k].to = id /\ Settled(toClient[k])

(***************************************************************************)
(* The log grows in the order of the requests and never ahead of the       *)
(* answers, and falls behind them by the one at hand only.                 *)
(***************************************************************************)
LogInv ==
    /\ \A j, k \in 1..Len(log) : j < k => log[j] < log[k]
    /\ \A j \in 1..Len(log) : log[j] <= nreq /\ (Asked \/ Replied => log[j] < nreq)
    /\ \A j \in 1..Len(log) : (\E f \in forwarded : f.id = log[j]) /\ HasSettled(log[j])
    /\ \A k \in 1..Len(toClient) :
          \/ toClient[k].to = 0 \/ Logged(toClient[k].to)
          \/ k = Len(toClient) /\ (Replied \/ pc = "closed")

(* The answer of the transaction that ends is there, and settled if the loop goes on. *)
LEMMA LastAnswer ==
    ASSUME TypeOK, PhaseInv, OrderInv, RespInv, BodyInv, FramingInv, LastInv, NEW l, l = Len(toClient),
           pc = "finish" \/ (pc = "tunnel" /\ req.id # 0)
    PROVE  /\ l \in 1..Len(toClient) /\ toClient[l].to = req.id /\ req.id = nreq /\ nreq # 0
           /\ pc = "tunnel" \/ resp.keep => Settled(toClient[l])
<1>1. Replied
  BY DEF Replied
<1>2. toClient # <<>> /\ toClient[l].to = req.id /\ req.id = nreq /\ nreq # 0
  BY <1>1 DEF OrderInv, PhaseInv, TypeOK
<1>3. l \in 1..Len(toClient)
  <2>1. Len(toClient) \in Nat \ {0}
    BY <1>2, EmptySeq DEF TypeOK
  <2> QED
    BY <2>1
<1>4. CASE pc = "tunnel"
  BY <1>2, <1>3, <1>4 DEF LastInv
<1>5. CASE pc = "finish"
  <2>1. Settled(toClient[l]) \/ toClient[l].body = "unframed"
    BY <1>3, <1>5 DEF BodyInv, PhaseInv
  <2>2. toClient[l].body = "unframed" => ~resp.keep
    BY <1>5 DEF RespInv, FramingInv, Framed
  <2> QED
    BY <1>2, <1>3, <1>5, <2>1, <2>2
<1> QED
  BY <1>4, <1>5

LEMMA LastStep ==
    TypeOK /\ PhaseInv /\ OrderInv /\ RespInv /\ BodyInv /\ FramingInv /\ LastInv /\ [Next]_vars => LastInv'
<1> SUFFICES ASSUME TypeOK, PhaseInv, OrderInv, RespInv, BodyInv, FramingInv, LastInv, [Next]_vars PROVE LastInv'
  OBVIOUS
<1>1. CASE Moves
  <2>1. /\ UNCHANGED toClient /\ req'.id = req.id /\ (pc' = "tunnel" => pc' = pc)
        /\ gone => gone'
        /\ is_https' = is_https \/ toClient = <<>>
    BY <1>1 DEF Moves, ghosts
  <2>2. pc = "tunnel" /\ req.id # 0 => toClient # <<>>
    BY DEF OrderInv, Replied
  <2> QED
    BY <2>1, <2>2 DEF LastInv, Settled
<1>2. ASSUME NEW n \in 0..Len(outbox), ParseResponse(n) \/ RelayBody(n) PROVE LastInv'
  BY <1>2 DEF ParseResponse, RelayBody, LastInv
<1>3. CASE FinishTransaction
  <2>1. UNCHANGED <<toClient, gone, is_https>> /\ (pc' = "tunnel" => resp.keep) /\ pc = "finish"
    BY <1>3 DEF FinishTransaction, End, NextRequest, connVars
  <2>2. resp.keep => Settled(toClient[Len(toClient)])
    BY <2>1, LastAnswer
  <2> QED
    BY <2>1, <2>2 DEF LastInv, Settled
<1>4. CASE Reads \/ Blocks \/ Accepts \/ ForwardRequest \/ TunnelEnds
  BY <1>4 DEF Reads, Blocks, Accepts, ForwardRequest, TunnelEnds, End, NextRequest, LastInv
<1> QED
  BY <1>1, <1>2, <1>3, <1>4, StepKinds

(* What is settled for a request stays so. *)
LEMMA KeptSettled ==
    ASSUME TypeOK, PhaseInv, RespInv, [Next]_vars, NEW id, HasSettled(id)
    PROVE  HasSettled(id)'
<1>1. PICK k \in 1..Len(toClient) : toClient[k].to = id /\ Settled(toClient[k])
  BY DEF HasSettled
<1>2. k \in 1..Len(toClient') /\ toClient'[k].to = id /\ Settled(toClient[k])'
  BY <1>1, SettledStays
<1> QED
  BY <1>2 DEF HasSettled

(* The transaction is logged. *)
LEMMA LogWritten ==
    ASSUME TypeOK, PhaseInv, OrderInv, AnsweredInv, RespInv, BodyInv, FramingInv, LastInv, LogInv, [Next]_vars,
           (pc = "finish" /\ resp.keep) \/ (pc = "tunnel" /\ req.id # 0),
           write_access_log, pc' \in {"parse_http", "parse_https"},
           UNCHANGED <<nreq, req, toClient, forwarded, gone, is_https>>
    PROVE  LogInv'
<1> PICK l : l = Len(toClient)
  OBVIOUS
<1>1. /\ l \in 1..Len(toClient) /\ toClient[l].to = req.id /\ req.id = nreq /\ nreq # 0
      /\ Settled(toClient[l])
  BY LastAnswer
<1>2. req.id \in 1..MaxRequests /\ log \in Seq(1..MaxRequests) /\ nreq \in Nat
  BY <1>1 DEF TypeOK
<1>3. log' = Append(log, req.id)
  BY DEF write_access_log
<1>4. /\ Len(log) \in Nat /\ Len(log') = Len(log) + 1 /\ log'[Len(log')] = req.id
      /\ \A i \in 1..Len(log) : i \in 1..Len(log') /\ log'[i] = log[i]
      /\ \A i \in 1..Len(log') : i # Len(log') => i \in 1..Len(log)
  BY <1>2, <1>3, Appended
<1>5. Replied /\ ~Replied' /\ ~Asked' /\ pc' # "closed"
  BY DEF Replied, Asked
<1>6. \A i \in 1..Len(log) : log[i] < req.id
  BY <1>1, <1>5 DEF LogInv
<1>7. \A j, k \in 1..Len(log') : j < k => log'[j] < log'[k]
  <2> SUFFICES ASSUME NEW j \in 1..Len(log'), NEW k \in 1..Len(log'), j < k PROVE log'[j] < log'[k]
    OBVIOUS
  <2>1. j \in 1..Len(log) /\ log'[j] = log[j]
    BY <1>4
  <2>2. CASE k = Len(log')
    BY <1>4, <1>6, <2>1, <2>2
  <2>3. CASE k # Len(log')
    BY <1>4, <2>1, <2>3 DEF LogInv
  <2> QED
    BY <2>2, <2>3
<1>8. \A j \in 1..Len(log') : log'[j] <= nreq'
  <2> SUFFICES ASSUME NEW j \in 1..Len(log') PROVE log'[j] <= nreq
    OBVIOUS
  <2>1. CASE j = Len(log')
    BY <1>1, <1>2, <1>4, <2>1
  <2>2. CASE j # Len(log')
    BY <1>4, <2>2 DEF LogInv
  <2> QED
    BY <2>1, <2>2
<1>9. \A j \in 1..Len(log') : (\E f \in forwarded' : f.id = log'[j]) /\ HasSettled(log[j])'
  <2> SUFFICES ASSUME NEW j \in 1..Len(log')
               PROVE  (\E f \in forwarded : f.id = log'[j]) /\ HasSettled(log'[j])
    BY DEF HasSettled, Settled
  <2>1. CASE j = Len(log')
    BY <1>1, <1>4, <1>5, <2>1 DEF AnsweredInv, HasSettled
  <2>2. CASE j # Len(log')
    BY <1>4, <2>2 DEF LogInv
  <2> QED
    BY <2>1, <2>2
<1>10. \A k \in 1..Len(toClient) : toClient[k].to = 0 \/ Logged(toClient[k].to)'
  <2> SUFFICES ASSUME NEW k \in 1..Len(toClient), toClient[k].to # 0
               PROVE  \E j \in 1..Len(log') : log'[j] = toClient[k].to
    BY DEF Logged
  <2>1. CASE k = l
    <3>1. Len(log') \in 1..Len(log')
      BY <1>4
    <3> QED
      BY <1>1, <1>4, <2>1, <3>1
  <2>2. CASE k # l
    BY <1>4, <2>2 DEF LogInv, Logged
  <2> QED
    BY <2>1, <2>2
<1> QED
  BY <1>5, <1>7, <1>8, <1>9, <1>10 DEF LogInv

LEMMA LogStep ==
    /\ TypeOK /\ PhaseInv /\ OrderInv /\ AnsweredInv /\ RespInv /\ BodyInv /\ FramingInv /\ LastInv /\ LogInv
    /\ [Next]_vars
    => LogInv'
<1> SUFFICES ASSUME TypeOK, PhaseInv, OrderInv, AnsweredInv, RespInv, BodyInv, FramingInv, LastInv, LogInv,
                    [Next]_vars
             PROVE  LogInv'
  OBVIOUS
<1> PICK l : l = Len(toClient)
  OBVIOUS
<1>0. /\ 0 \in 0..Len(outbox) /\ l \in Nat /\ nreq \in Nat /\ nreq' \in Nat
      /\ \A j \in 1..Len(log) : log[j] \in Nat
  <2>1. 0 \in 0..Len(outbox) /\ l \in Nat /\ nreq \in Nat /\ log \in Seq(1..MaxRequests)
    BY LenProperties DEF TypeOK
  <2>2. nreq' \in Nat
    BY TypeStep DEF TypeOK
  <2>3. \A j \in 1..Len(log) : log[j] \in 1..MaxRequests
    BY <2>1, ElementOfSeq
  <2> QED
    BY <2>1, <2>2, <2>3
<1>1. \A j \in 1..Len(log) : HasSettled(log[j])
  BY DEF LogInv
<1>2. forwarded \subseteq forwarded'
  BY StepKinds DEF Moves, Reads, Blocks, Accepts, ForwardRequest, ParseResponse, RelayBody,
                   FinishTransaction, TunnelEnds, ghosts
<1>3. ASSUME UNCHANGED log
      PROVE  \A j \in 1..Len(log') : (\E f \in forwarded' : f.id = log'[j]) /\ HasSettled(log[j])'
  <2> SUFFICES ASSUME NEW j \in 1..Len(log) PROVE (\E f \in forwarded : f.id = log[j]) /\ HasSettled(log[j])'
    BY <1>2, <1>3
  <2> PICK id : id = log[j]
    OBVIOUS
  <2>1. (\E f \in forwarded : f.id = id) /\ HasSettled(id)
    BY DEF LogInv
  <2>2. HasSettled(id)'
    BY <2>1, KeptSettled
  <2> QED
    BY <1>3, <2>1, <2>2 DEF HasSettled
<1>4. ASSUME ~Replied, pc # "closed"
      PROVE  \A k \in 1..l : toClient[k].to = 0 \/ Logged(toClient[k].to)
  BY <1>4 DEF LogInv
<1>5. CASE Moves
  <2>1. UNCHANGED <<toClient, log, nreq>> /\ (Asked' => Asked) /\ (Replied' => Replied)
    BY <1>5 DEF Moves, ghosts
  <2>2. Replied => Replied' \/ pc' = "closed"
    BY <1>5 DEF Moves, Replied
  <2>3. pc = "closed" => pc' = "closed"
    BY <1>5 DEF Moves
  <2>4. \A k \in 1..Len(toClient') :
           \/ toClient'[k].to = 0 \/ Logged(toClient[k].to)'
           \/ k = Len(toClient') /\ (Replied' \/ pc' = "closed")
    BY <2>1, <2>2, <2>3 DEF LogInv, Logged
  <2> QED
    BY <1>3, <2>1, <2>4 DEF LogInv
<1>6. CASE Reads
  <2>1. UNCHANGED <<toClient, log>> /\ nreq < nreq' /\ ~Replied /\ pc # "closed"
    BY <1>6 DEF Reads, ghosts, Replied
  <2>2. \A j \in 1..Len(log') : log'[j] <= nreq' /\ log'[j] < nreq'
    BY <1>0, <2>1 DEF LogInv
  <2>3. \A k \in 1..Len(toClient') : toClient'[k].to = 0 \/ Logged(toClient[k].to)'
    BY <1>4, <2>1 DEF Logged
  <2> QED
    BY <1>3, <2>1, <2>2, <2>3 DEF LogInv
<1>7. ASSUME NEW n \in 0..Len(outbox), Blocks \/ Accepts \/ ParseResponse(n) PROVE LogInv'
  <2>1. /\ Len(toClient') = l + 1 /\ toClient'[l + 1].to = req'.id
        /\ \A i \in 1..l : toClient'[i] = toClient[i]
        /\ \A i \in 1..(l + 1) : i \in 1..l \/ i = l + 1
    BY <1>7, Grown
  <2>2. ~Replied /\ pc # "closed" /\ UNCHANGED log
    BY <1>7 DEF Blocks, Accepts, ParseResponse, Replied
  <2>3. \A j \in 1..Len(log') : log'[j] <= nreq' /\ (Asked' \/ Replied' => log'[j] < nreq')
    <3>1. CASE Blocks
      BY <1>0, <2>2, <3>1 DEF Blocks, Asked, Replied, LogInv
    <3>2. CASE Accepts
      BY <2>2, <3>2 DEF Accepts, Asked, Replied, LogInv
    <3>3. CASE ParseResponse(n)
      <4>1. Asked /\ nreq' = nreq
        BY <3>3 DEF ParseResponse, Asked
      <4> QED
        BY <2>2, <4>1 DEF LogInv
    <3> QED
      BY <1>7, <3>1, <3>2, <3>3
  <2>4. toClient'[l + 1].to = 0 \/ Replied' \/ pc' = "closed"
    BY <1>7, <2>1 DEF Blocks, Accepts, ParseResponse, Replied
  <2>5. \A k \in 1..l : toClient'[k].to = 0 \/ Logged(toClient[k].to)'
    BY <1>4, <2>1, <2>2 DEF Logged
  <2> QED
    BY <1>3, <2>1, <2>2, <2>3, <2>4, <2>5 DEF LogInv
<1>8. CASE ForwardRequest
  <2>1. UNCHANGED <<toClient, log, nreq>> /\ Asked /\ ~Replied /\ pc # "closed"
    BY <1>8 DEF ForwardRequest, Asked, Replied
  <2>2. \A k \in 1..Len(toClient') : toClient'[k].to = 0 \/ Logged(toClient[k].to)'
    BY <1>4, <2>1 DEF Logged
  <2> QED
    BY <1>3, <2>1, <2>2 DEF LogInv
<1>9. ASSUME NEW n \in 0..Len(outbox), RelayBody(n) PROVE LogInv'
  <2>1. UNCHANGED <<log, nreq>> /\ Replied /\ Replied'
    BY <1>9 DEF RelayBody, Replied
  <2>2. Len(toClient') = l /\ \A i \in 1..l : toClient'[i].to = toClient[i].to
    BY <1>9, Relayed
  <2>3. \A k \in 1..l : \/ toClient'[k].to = 0 \/ Logged(toClient[k].to)'
                        \/ k = l
    <3>1. \A k \in 1..l : toClient[k].to = 0 \/ Logged(toClient[k].to) \/ k = l
      BY DEF LogInv
    <3>2. \A k \in 1..l : Logged(toClient[k].to) => Logged(toClient[k].to)'
      BY <2>1, <2>2 DEF Logged
    <3> QED
      BY <2>2, <3>1, <3>2
  <2> QED
    BY <1>3, <2>1, <2>2, <2>3 DEF LogInv
<1>10. CASE FinishTransaction \/ TunnelEnds
  <2>1. UNCHANGED <<nreq, req, toClient, forwarded, gone, is_https>>
    BY <1>10 DEF FinishTransaction, TunnelEnds, connVars
  <2>2. CASE write_access_log /\ NextRequest
    <3>1. pc' \in {"parse_http", "parse_https"}
      BY <2>2 DEF NextRequest
    <3>2. (pc = "finish" /\ resp.keep) \/ (pc = "tunnel" /\ req.id # 0)
      BY <1>10, <3>1 DEF FinishTransaction, TunnelEnds, End
    <3> QED
      BY <2>1, <2>2, <3>1, <3>2, LogWritten
  <2>3. CASE UNCHANGED log /\ (pc' = "closed" \/ (Replied /\ Replied'))
    <3>1. \A k \in 1..l : toClient'[k].to = 0 \/ Logged(toClient[k].to)' \/ k = l
      BY <2>1, <2>3 DEF LogInv, Logged
    <3>2. \A j \in 1..Len(log') : log'[j] <= nreq' /\ (Asked' \/ Replied' => log'[j] < nreq')
      BY <2>1, <2>3 DEF LogInv, Asked, Replied
    <3> QED
      BY <1>3, <2>1, <2>3, <3>1, <3>2 DEF LogInv
  <2>4. Replied => req.id # 0
    BY DEF PhaseInv, TypeOK
  <2>5. CASE FinishTransaction
    <3>1. pc = "finish" /\ Replied
      BY <2>5 DEF FinishTransaction, Replied
    <3>2. pc' = "tunnel" => Replied'
      BY <2>1, <2>4, <3>1 DEF Replied
    <3> QED
      BY <2>2, <2>3, <2>5, <3>1, <3>2 DEF FinishTransaction, End
  <2>6. CASE TunnelEnds
    BY <2>2, <2>3, <2>6 DEF TunnelEnds, End
  <2> QED
    BY <1>10, <2>5, <2>6
<1> QED
  BY <1>0, <1>5, <1>6, <1>7, <1>8, <1>9, <1>10, StepKinds

(***************************************************************************)
(* An access log entry stands for one forwarded request whose whole answer *)
(* the client has, each is written once and in order, and only the last    *)
(* transaction may be missing.                                             *)
(***************************************************************************)
THEOREM LogIsTrue == Spec => []LogMatchesTraffic
<1> DEFINE I == TypeOK /\ PhaseInv /\ OrderInv /\ AnsweredInv /\ RespInv /\ BodyInv /\ FramingInv /\ LastInv /\ LogInv
<1>1. Init => I
  <2> SUFFICES ASSUME Init PROVE OrderInv /\ AnsweredInv /\ RespInv /\ BodyInv /\ FramingInv /\ LastInv /\ LogInv
    BY InitType
  <2>1. Len(<<>>) = 0
    BY EmptySeq
  <2>2. Framed(resp)
    BY DEF Init, Framed, Own
  <2> QED
    BY <2>1, <2>2 DEF Init, OrderInv, AnsweredInv, RespInv, BodyInv, FramingInv, LastInv, LogInv, Asked, Replied
<1>2. I /\ [Next]_vars => I'
  BY TypeStep, OrderStep, AnsweredStep, RespStep, BodyStep, FramingStep, LastStep, LogStep
<1>3. I => LogMatchesTraffic
  <2> SUFFICES ASSUME I PROVE LogMatchesTraffic
    OBVIOUS
  <2>1. Len(toClient) \in Nat
    BY LenProperties DEF TypeOK
  <2>2. \A k \in 1..(Len(toClient) - 1) : k \in 1..Len(toClient) /\ k # Len(toClient)
    BY <2>1
  <2> QED
    BY <2>2 DEF LogInv, LogMatchesTraffic, Logged, HasSettled
<1> QED
  BY <1>1, <1>2, <1>3, PTL DEF Spec
=============================================================================
