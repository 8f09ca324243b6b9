-------------------------- MODULE ServerLinkProofs --------------------------
(***************************************************************************)
(* Theorems about ServerLink, for flights and buffers of any size and any  *)
(* number of cells.                                                        *)
(***************************************************************************)
EXTENDS ServerLink, SequenceLemmas

-----------------------------------------------------------------------------
(* Arithmetic of flights *)

LEMMA FlightArith ==
    /\ Parts \in Nat /\ Parts > 0
    /\ \A e \in Nat : e \div Parts \in Nat
    /\ \A k \in Nat : (Parts * k) \div Parts = k
    /\ \A k \in Nat : Parts * k + Parts = Parts * (k + 1) /\ Parts * k \in Nat
    /\ 0 \div Parts = 0 /\ Parts \div Parts = 1 /\ Parts * 0 = 0
BY BoundsAssumption

LEMMA OtherPeer ==
    /\ Other("clt") = "svr" /\ Other("svr") = "clt"
    /\ \A p \in Peers : Other(p) \in Peers /\ Other(p) # p /\ Other(Other(p)) = p
BY DEF Other, Peers

-----------------------------------------------------------------------------
(* Pieces of a stream: consecutive cells, the first of them after cell b *)

Numbered(s, b) == \A i \in 1..Len(s) : s[i] = b + i
Marked(s, mark, b) == \A i \in 1..Len(s) : s[i] = <<mark, b + i>>

LEMMA NumberedCut ==
    ASSUME NEW s, Len(s) \in Nat, NEW b \in Int, Numbered(s, b), NEW n \in 0..Len(s),
           NEW t, Len(t) = Len(s) - n, \A i \in 1..(Len(s) - n) : t[i] = s[n + i]
    PROVE  Numbered(t, b + n)
<1> SUFFICES ASSUME NEW i \in 1..(Len(s) - n) PROVE t[i] = b + n + i
  BY DEF Numbered
<1>1. n + i \in 1..Len(s) /\ b + (n + i) = b + n + i
  OBVIOUS
<1> QED
  BY <1>1 DEF Numbered

LEMMA NumberedJoin ==
    ASSUME NEW s, Len(s) \in Nat, NEW b \in Int, Numbered(s, b), NEW k \in Nat,
           NEW u, Len(u) = Len(s) + k, \A i \in 1..Len(s) : u[i] = s[i],
           \A i \in 1..k : u[Len(s) + i] = b + Len(s) + i
    PROVE  Numbered(u, b)
<1> SUFFICES ASSUME NEW i \in 1..(Len(s) + k) PROVE u[i] = b + i
  BY DEF Numbered
<1>1. CASE i <= Len(s)
  BY <1>1 DEF Numbered
<1>2. CASE i > Len(s)
  <2>1. i - Len(s) \in 1..k /\ Len(s) + (i - Len(s)) = i /\ b + Len(s) + (i - Len(s)) = b + i
    BY <1>2
  <2> QED
    BY <2>1
<1> QED
  BY <1>1, <1>2

LEMMA MarkedCut ==
    ASSUME NEW s, Len(s) \in Nat, NEW b \in Int, NEW m, Marked(s, m, b), NEW n \in 0..Len(s),
           NEW t, Len(t) = Len(s) - n, \A i \in 1..(Len(s) - n) : t[i] = s[n + i]
    PROVE  Marked(t, m, b + n)
<1> SUFFICES ASSUME NEW i \in 1..(Len(s) - n) PROVE t[i] = <<m, b + n + i>>
  BY DEF Marked
<1>1. n + i \in 1..Len(s) /\ b + (n + i) = b + n + i
  OBVIOUS
<1> QED
  BY <1>1 DEF Marked

LEMMA MarkedJoin ==
    ASSUME NEW s, Len(s) \in Nat, NEW b \in Int, NEW m, Marked(s, m, b), NEW r, Len(r) \in Nat,
           Marked(r, m, b + Len(s)), NEW u, Len(u) = Len(s) + Len(r),
           \A i \in 1..Len(s) : u[i] = s[i], \A i \in 1..Len(r) : u[Len(s) + i] = r[i]
    PROVE  Marked(u, m, b)
<1> SUFFICES ASSUME NEW i \in 1..(Len(s) + Len(r)) PROVE u[i] = <<m, b + i>>
  BY DEF Marked
<1>1. CASE i <= Len(s)
  BY <1>1 DEF Marked
<1>2. CASE i > Len(s)
  <2>1. i - Len(s) \in 1..Len(r) /\ Len(s) + (i - Len(s)) = i /\ b + Len(s) + (i - Len(s)) = b + i
    BY <1>2
  <2>2. u[i] = r[i - Len(s)] /\ r[i - Len(s)] = <<m, b + Len(s) + (i - Len(s))>>
    BY <2>1 DEF Marked
  <2> QED
    BY <2>1, <2>2
<1> QED
  BY <1>1, <1>2

-----------------------------------------------------------------------------
(* Types and descriptors *)

Linked == {"hop_reply", "established", "poll", "pass", "write"} \cup TlsReads

(***************************************************************************)
(* Where the coroutine is says which resolver channels are open and        *)
(* whether the descriptor towards the server is, and who holds it; a write *)
(* has something to write and a place to return to.                        *)
(***************************************************************************)
HeldInv ==
    /\ pc \in {"parse_connect", "ask", "freed"} => channels = 0 /\ fds = 0 /\ ~stfd_
    /\ pc = "resolving" => channels = 2 /\ fds = 0 /\ ~stfd_
    /\ pc = "connecting" => channels = 1 /\ fds = 1 /\ ~stfd_
    /\ pc = "closed" => channels = 0 /\ fds = IF stfd_ THEN 1 ELSE 0
    /\ pc \in Linked => channels = 0 /\ fds = 1 /\ stfd_
    /\ pc = "write" => buf.then \in TlsReads \cup {"poll", "pass", "closed"} /\ Len(buf.cells) > 0

USE DEF Peers

LEMMA InitType == Init => TypeOK /\ HeldInv
<1> SUFFICES ASSUME Init PROVE TypeOK /\ HeldInv
  OBVIOUS
<1>1. /\ in \in [Peers -> Seq(Nat)] /\ parser \in [Peers -> Seq(Nat)] /\ bio \in [Peers -> Seq(Nat)]
      /\ out \in [Peers -> Seq(Cell)] /\ got \in [Peers -> Seq(Cell)]
  <2>1. Both(<<>>) \in [Peers -> Seq(Nat)] /\ Both(<<>>) \in [Peers -> Seq(Cell)]
    BY DEF Both
  <2> QED
    BY <2>1 DEF Init
<1>2. rtm \in [Peers -> BOOLEAN]
  BY DEF Init
<1>3. up \in [Peers -> {"open", "half", "gone"}] /\ eaten \in [Peers -> Nat] /\ sent \in [Peers -> Nat]
  BY DEF Init, Both
<1>4. buf \in [to: Peers, cells: Seq(Cell), then: FromClient \cup FromServer \cup {"poll", "pass", "closed"}]
  BY DEF Init, NoWrite
<1>5. plan \in [decrypt: BOOLEAN, hop: BOOLEAN, upgrade: BOOLEAN] /\ dns \in [fd: BOOLEAN, addr: BOOLEAN]
  BY DEF Init
<1>6. /\ pc \in FromClient /\ channels = 0 /\ fds = 0 /\ stfd_ = FALSE /\ ready = {} /\ told = FALSE
      /\ hop = "none" /\ pc = "parse_connect"
  BY DEF Init, FromClient
<1>7. TypeOK
  <2>1. channels \in 0..2 /\ fds \in 0..1
    BY <1>6
  <2>2. stfd_ \in BOOLEAN /\ told \in BOOLEAN /\ ready \subseteq Peers /\ hop \in {"none", "200", "refused"}
    BY <1>6
  <2> QED
    BY <1>1, <1>2, <1>3, <1>4, <1>5, <1>6, <2>1, <2>2, Zenon DEF TypeOK
<1>8. HeldInv
  BY <1>6 DEF HeldInv, Linked, TlsReads
<1> QED
  BY <1>7, <1>8

(* A read of n cells cuts them from the socket. *)
LEMMA TookType ==
    ASSUME TypeOK, NEW p \in Peers, NEW n \in 0..Len(in[p]), Took(p, n)
    PROVE  /\ in[p] \in Seq(Nat) /\ Len(in[p]) \in Nat
           /\ SubSeq(in[p], 1, n) \in Seq(Nat) /\ Len(SubSeq(in[p], 1, n)) = n
           /\ \A i \in 1..n : SubSeq(in[p], 1, n)[i] = in[p][i]
           /\ in' \in [Peers -> Seq(Nat)] /\ in'[Other(p)] = in[Other(p)]
           /\ Len(in'[p]) = Len(in[p]) - n
           /\ \A i \in 1..(Len(in[p]) - n) : in'[p][i] = in[p][n + i]
<1> PICK s : s = in[p]
  OBVIOUS
<1> PICK r : r = SubSeq(s, n + 1, Len(s))
  OBVIOUS
<1>1. in \in [Peers -> Seq(Nat)] /\ s \in Seq(Nat) /\ Len(s) \in Nat /\ n \in 0..Len(s)
  BY LenProperties DEF TypeOK
<1>2. in' = [in EXCEPT ![p] = r]
  BY <1>1 DEF Took
<1>3. /\ SubSeq(s, 1, n) \in Seq(Nat) /\ Len(SubSeq(s, 1, n)) = n
      /\ \A i \in 1..n : SubSeq(s, 1, n)[i] = s[i]
      /\ SubSeq(s, n + 1, Len(s)) \in Seq(Nat) /\ Len(SubSeq(s, n + 1, Len(s))) = Len(s) - n
      /\ \A i \in 1..(Len(s) - n) : SubSeq(s, n + 1, Len(s))[i] = s[n + i]
  <2>1. s \in Seq(Nat) /\ n \in 0..Len(s)
    BY <1>1
  <2> HIDE DEF Peers
  <2>2. SubSeq(s, 1, n) \in Seq(Nat)
    BY <2>1, Cut
  <2>3. Len(SubSeq(s, 1, n)) = n
    BY <2>1, Cut
  <2>4. \A i \in 1..n : SubSeq(s, 1, n)[i] = s[i]
    BY <2>1, Cut
  <2>5. SubSeq(s, n + 1, Len(s)) \in Seq(Nat) /\ Len(SubSeq(s, n + 1, Len(s))) = Len(s) - n
    BY <2>1, Cut
  <2>6. \A i \in 1..(Len(s) - n) : SubSeq(s, n + 1, Len(s))[i] = s[n + i]
    BY <2>1, Cut
  <2> QED
    BY <2>2, <2>3, <2>4, <2>5, <2>6
<1>4. in' \in [Peers -> Seq(Nat)] /\ in'[Other(p)] = in[Other(p)] /\ in'[p] = r
  <2>1. in' \in [Peers -> Seq(Nat)] /\ \A q \in Peers : in'[q] = IF q = p THEN r ELSE in[q]
    BY <1>1, <1>2, <1>3
  <2> QED
    BY <2>1, OtherPeer
<1> QED
  BY <1>1, <1>3, <1>4

(* The way to the server, and the steps that only move on or end. *)
LEMMA SetupType ==
    ASSUME TypeOK, HeldInv,
           \/ do_resolve \/ dns_callback \/ Resolved \/ ConnectFails \/ Connected
           \/ ReadFails \/ Poll \/ Free \/ HopAnswers \/ \E p \in Peers : PeerCloses(p)
    PROVE  TypeOK' /\ HeldInv'
<1> USE DEF Linked, TlsReads, FromClient, FromServer
<1>1. CASE do_resolve
  <2>1. rtm' \in [Peers -> BOOLEAN]
    BY <1>1 DEF do_resolve, TypeOK
  <2>2. dns' \in [fd: BOOLEAN, addr: BOOLEAN]
    BY <1>1 DEF do_resolve
  <2> QED
    BY <1>1, <2>1, <2>2 DEF do_resolve, TypeOK, HeldInv, tls, peers
<1>2. CASE dns_callback
  <2>1. dns' \in [fd: BOOLEAN, addr: BOOLEAN]
    BY <1>2 DEF dns_callback
  <2> QED
    BY <1>2, <2>1 DEF dns_callback, TypeOK, HeldInv, tls, peers
<1>3. CASE Resolved
  BY <1>3 DEF Resolved, TypeOK, HeldInv, tls, peers
<1>4. CASE ConnectFails
  BY <1>4 DEF ConnectFails, TypeOK, HeldInv, tls, peers
<1>5. CASE Connected
  <2>1. rtm' \in [Peers -> BOOLEAN]
    BY <1>5 DEF Connected, TypeOK
  <2> QED
    BY <1>5, <2>1 DEF Connected, TypeOK, HeldInv, tls, peers
<1>6. CASE ReadFails
  <2>1. /\ pc \in FromClient \cup FromServer /\ pc' = "closed"
        /\ UNCHANGED <<plan, setup, in, out, parser, tls, ready, buf, told, hop, peers>>
    BY <1>6 DEF ReadFails
  <2> QED
    BY <2>1 DEF TypeOK, HeldInv, setup, tls, peers
<1>7. CASE Poll
  BY <1>7 DEF Poll, TypeOK, HeldInv, setup, tls, peers
<1>8. CASE Free
  <2>1. channels' = 0 /\ fds' = 0 /\ stfd_' = FALSE /\ pc' = "freed"
    BY <1>8 DEF Free, HeldInv, TypeOK
  <2>2. HeldInv'
    BY <2>1 DEF HeldInv
  <2>3. pc' \in {"freed"} /\ channels' \in 0..2 /\ fds' \in 0..1
    BY <2>1
  <2>4. stfd_' \in BOOLEAN
    BY <2>1, Zenon
  <2> QED
    BY <1>8, <2>2, <2>3, <2>4 DEF Free, TypeOK, tls, peers
<1>9. CASE HopAnswers
  BY <1>9 DEF HopAnswers, TypeOK, HeldInv, setup, tls
<1>10. ASSUME NEW p \in Peers, PeerCloses(p) PROVE TypeOK' /\ HeldInv'
  BY <1>10 DEF PeerCloses, TypeOK, HeldInv, setup, tls
<1> QED
  BY <1>1, <1>2, <1>3, <1>4, <1>5, <1>6, <1>7, <1>8, <1>9, <1>10

(* The parsers, and the start of the tunnel or the handshake. *)
LEMMA ParserType ==
    ASSUME TypeOK, HeldInv, ParseConnect \/ HopReply \/ Established
    PROVE  TypeOK' /\ HeldInv'
<1> USE DEF Linked, TlsReads, FromClient, FromServer
<1>1. ASSUME NEW p \in Peers, NEW n \in 0..Len(in[p]), Took(p, n),
             parser' = [parser EXCEPT ![p] = SubSeq(in[p], 1, n)]
      PROVE  in' \in [Peers -> Seq(Nat)] /\ parser' \in [Peers -> Seq(Nat)]
  <2>1. SubSeq(in[p], 1, n) \in Seq(Nat) /\ in' \in [Peers -> Seq(Nat)]
    BY <1>1, TookType
  <2> QED
    BY <1>1, <2>1 DEF TypeOK
<1>2. CASE ParseConnect
  <2>1. in' \in [Peers -> Seq(Nat)] /\ parser' \in [Peers -> Seq(Nat)]
    BY <1>1, <1>2 DEF ParseConnect
  <2> QED
    BY <1>2, <2>1 DEF ParseConnect, TypeOK, HeldInv, setup, tls, peers
<1>3. CASE HopReply
  <2>1. in' \in [Peers -> Seq(Nat)] /\ parser' \in [Peers -> Seq(Nat)]
    BY <1>1, <1>3 DEF HopReply
  <2> QED
    BY <1>3, <2>1 DEF HopReply, TypeOK, HeldInv, setup, tls, peers
<1>4. CASE Established /\ plan.decrypt
  <2>1. <<<<"tls", 1>>>> \in Seq(Cell)
    BY DEF Cell
  <2>2. buf' \in [to: Peers, cells: Seq(Cell), then: FromClient \cup FromServer \cup {"poll", "pass", "closed"}]
        /\ buf'.then = "svr_hello" /\ pc' = "write" /\ told' = told /\ Len(buf'.cells) > 0
    BY <1>4, <2>1 DEF Established, Write
  <2> QED
    BY <1>4, <2>2 DEF Established, TypeOK, HeldInv, setup, tls, peers
<1>5. CASE Established /\ ~plan.decrypt
  BY <1>5 DEF Established, TypeOK, HeldInv, setup, tls, peers
<1> QED
  BY <1>2, <1>3, <1>4, <1>5

(* The peers. *)
LEMMA PeerType ==
    ASSUME TypeOK, HeldInv, NEW p \in Peers, PeerSend(p) \/ PeerReceive(p)
    PROVE  TypeOK' /\ HeldInv'
<1>1. CASE PeerSend(p)
  <2> PICK k : k = IF plan.decrypt THEN Parts ELSE 1
    OBVIOUS
  <2> DEFINE more == [i \in 1..k |-> sent[p] + i]
  <2>1. k \in Nat /\ sent[p] \in Nat /\ in[p] \in Seq(Nat)
    BY FlightArith DEF TypeOK
  <2>2. more \in [1..k -> Nat]
    BY <2>1
  <2>3. sent' = [sent EXCEPT ![p] = @ + k] /\ in' = [in EXCEPT ![p] = @ \o more]
    BY <1>1 DEF PeerSend
  <2> HIDE DEF more
  <2>4. more \in Seq(Nat)
    BY <2>1, <2>2, Listed
  <2>5. in[p] \o more \in Seq(Nat)
    BY <2>1, <2>4, Joined
  <2>6. sent' \in [Peers -> Nat]
    <3>1. sent[p] + k \in Nat
      BY <2>1
    <3> HIDE DEF Peers
    <3> QED
      BY <2>3, <3>1 DEF TypeOK
  <2>7. in' \in [Peers -> Seq(Nat)]
    BY <2>3, <2>5 DEF TypeOK
  <2>8. UNCHANGED <<plan, pc, channels, dns, fds, stfd_, rtm, out, parser, bio, eaten, ready, buf, told,
                    hop, got, up>>
    BY <1>1 DEF PeerSend, setup, tls
  <2> QED
    BY <2>6, <2>7, <2>8 DEF TypeOK, HeldInv
<1>2. CASE PeerReceive(p)
  <2> PICK s : s = out[p]
    OBVIOUS
  <2>1. s \in Seq(Cell) /\ s # <<>> /\ got[p] \in Seq(Cell)
    BY <1>2 DEF TypeOK, PeerReceive
  <2>2. Head(s) \in Cell /\ Tail(s) \in Seq(Cell)
    BY <2>1, HeadTailProperties
  <2>3. Append(got[p], Head(s)) \in Seq(Cell)
    BY <2>1, <2>2, AppendProperties
  <2>4. got' \in [Peers -> Seq(Cell)] /\ out' \in [Peers -> Seq(Cell)]
    BY <1>2, <2>2, <2>3 DEF PeerReceive, TypeOK
  <2>5. up' \in [Peers -> {"open", "half", "gone"}]
    BY <1>2 DEF PeerReceive, TypeOK
  <2>6. UNCHANGED <<plan, pc, channels, dns, fds, stfd_, rtm, in, parser, bio, eaten, ready, buf, told,
                    hop, sent>>
    BY <1>2 DEF PeerReceive, setup, tls
  <2> QED
    BY <2>4, <2>5, <2>6 DEF TypeOK, HeldInv
<1> QED
  BY <1>1, <1>2

(* One pass through the tunnel: what it reads is what it writes. *)
LEMMA PassType ==
    ASSUME TypeOK, HeldInv, pass
    PROVE  TypeOK' /\ HeldInv'
<1> USE DEF Linked, TlsReads, FromClient, FromServer
<1> PICK p, n : /\ p = IF "clt" \in ready THEN "clt" ELSE "svr"
                /\ n = IF Len(in[p]) < IOBUFSIZE THEN Len(in[p]) ELSE IOBUFSIZE
  OBVIOUS
<1>1. p \in Peers /\ in[p] \in Seq(Nat)
  BY DEF TypeOK
<1>2. n \in 0..Len(in[p])
  <2>1. Len(in[p]) \in Nat /\ IOBUFSIZE \in Nat
    BY <1>1, LenProperties, BoundsAssumption
  <2> QED
    BY <2>1
<1>3. ready' = ready \ {p}
  BY DEF pass
<1>4. CASE StreamEnds(p)
  BY <1>3, <1>4 DEF pass, TypeOK, HeldInv, setup, tls, peers
<1>5. CASE ~StreamEnds(p)
  <2> DEFINE cells == [i \in 1..n |-> <<"raw", in[p][i]>>]
  <2>1. Took(p, n) /\ pc' = "write"
        /\ buf' = [to |-> Other(p), cells |-> cells, then |-> IF ready' = {} THEN "poll" ELSE "pass"]
    BY <1>5 DEF pass, Write
  <2>2. cells \in [1..n -> Cell]
    <3>1. \A i \in 1..n : in[p][i] \in Nat
      BY <1>1, <1>2, ElementOfSeq, LenProperties
    <3> QED
      BY <3>1 DEF Cell
  <2> HIDE DEF cells
  <2>3. cells \in Seq(Cell) /\ Len(cells) > 0
    <3>1. n \in Nat /\ n > 0
      <4>1. Len(in[p]) \in Nat /\ Len(in[p]) > 0
        BY <1>1, <1>5, EmptySeq, LenProperties DEF StreamEnds
      <4> QED
        BY <4>1, BoundsAssumption
    <3> QED
      BY <2>2, <3>1, Listed
  <2>4. buf' \in [to: Peers, cells: Seq(Cell), then: FromClient \cup FromServer \cup {"poll", "pass", "closed"}]
        /\ buf'.then \in {"poll", "pass"} /\ Len(buf'.cells) > 0
    BY <1>1, <2>1, <2>3, OtherPeer
  <2>5. in' \in [Peers -> Seq(Nat)]
    BY <1>1, <1>2, <2>1, TookType
  <2> QED
    BY <1>3, <2>1, <2>4, <2>5 DEF pass, TypeOK, HeldInv, setup, tls, peers
<1> QED
  BY <1>4, <1>5

(* What a write does: n more cells leave, or the peer is gone and none does. *)
LEMMA FlushCases ==
    ASSUME TypeOK, HeldInv, Flush, NEW o, o = buf.to, NEW cells, cells = buf.cells
    PROVE  /\ o \in Peers /\ cells \in Seq(Cell) /\ Len(cells) \in Nat
           /\ UNCHANGED <<plan, channels, dns, fds, stfd_, rtm, in, parser, bio, eaten, ready, told, hop,
                          sent, got, up>>
           /\ \/ /\ up[o] = "gone" /\ pc' \in {"closed", buf.then} /\ buf' = NoWrite
                 /\ UNCHANGED out
              \/ /\ up[o] # "gone" /\ pc' = buf.then /\ buf' = NoWrite
                 /\ out' = [out EXCEPT ![o] = @ \o cells]
              \/ \E n \in 1..(Len(cells) - 1) :
                    /\ up[o] # "gone" /\ pc' = "write"
                    /\ buf' = [buf EXCEPT !.cells = SubSeq(cells, n + 1, Len(cells))]
                    /\ out' = [out EXCEPT ![o] = @ \o SubSeq(cells, 1, n)]
<1>1. o \in Peers /\ cells \in Seq(Cell) /\ Len(cells) \in Nat /\ Len(cells) > 0 /\ cells # <<>>
  BY LenProperties, EmptySeq DEF TypeOK, Flush, HeldInv
<1>2. UNCHANGED <<plan, channels, dns, fds, stfd_, rtm, in, parser, bio, eaten, ready, told, hop,
                  sent, got, up>>
  BY DEF Flush, setup, tls, peers
<1>3. CASE up[o] = "gone"
  BY <1>1, <1>2, <1>3 DEF Flush
<1>4. CASE up[o] # "gone"
  <2> PICK n : n = IF Window - Len(out[o]) < Len(cells) THEN Window - Len(out[o]) ELSE Len(cells)
    OBVIOUS
  <2>1. /\ n > 0
        /\ out' = [out EXCEPT ![o] = @ \o SubSeq(cells, 1, n)]
        /\ IF n = Len(cells) THEN pc' = buf.then /\ buf' = NoWrite
           ELSE pc' = "write" /\ buf' = [buf EXCEPT !.cells = SubSeq(cells, n + 1, Len(cells))]
    BY <1>1, <1>4 DEF Flush
  <2>2. n \in 1..Len(cells)
    <3>1. Len(out[o]) \in Nat /\ Window \in Nat
      BY <1>1, LenProperties, BoundsAssumption DEF TypeOK
    <3> QED
      BY <1>1, <2>1, <3>1
  <2>3. CASE n = Len(cells)
    <3>1. SubSeq(cells, 1, n) = cells
      BY <1>1, <2>3, SubSeqFull
    <3> QED
      BY <1>1, <1>2, <1>4, <2>1, <2>3, <3>1
  <2>4. CASE n # Len(cells)
    <3>1. n \in 1..(Len(cells) - 1)
      BY <1>1, <2>2, <2>4
    <3> QED
      BY <1>1, <1>2, <1>4, <2>1, <2>4, <3>1
  <2> QED
    BY <2>3, <2>4
<1> QED
  BY <1>3, <1>4

LEMMA FlushType ==
    ASSUME TypeOK, HeldInv, Flush
    PROVE  TypeOK' /\ HeldInv'
<1> USE DEF Linked, TlsReads, FromClient, FromServer
<1> PICK o, cells : o = buf.to /\ cells = buf.cells
  OBVIOUS
<1> DEFINE BufType == [to: Peers, cells: Seq(Cell), then: FromClient \cup FromServer \cup {"poll", "pass", "closed"}]
<1>1. /\ o \in Peers /\ cells \in Seq(Cell) /\ Len(cells) \in Nat /\ pc = "write" /\ buf \in BufType
      /\ out \in [Peers -> Seq(Cell)] /\ buf.then \in TlsReads \cup {"poll", "pass", "closed"}
      /\ channels = 0 /\ fds = 1 /\ stfd_
  <2>1. o \in Peers /\ cells \in Seq(Cell) /\ Len(cells) \in Nat
    BY FlushCases
  <2>2. pc = "write"
    BY DEF Flush
  <2> QED
    BY <2>1, <2>2 DEF TypeOK, HeldInv
<1>2. UNCHANGED <<plan, channels, dns, fds, stfd_, rtm, in, parser, bio, eaten, ready, told, hop,
                  sent, got, up>>
  BY FlushCases
<1>3. /\ out' \in [Peers -> Seq(Cell)] /\ buf' \in BufType
      /\ pc' \in {"write", "closed", buf.then} /\ (pc' = "write" => buf'.then = buf.then /\ Len(buf'.cells) > 0)
  <2>0. NoWrite \in BufType /\ NoWrite.then = "closed"
    BY DEF NoWrite
  <2>1. CASE up[o] = "gone" /\ pc' \in {"closed", buf.then} /\ buf' = NoWrite /\ UNCHANGED out
    BY <1>1, <2>0, <2>1
  <2>2. CASE pc' = buf.then /\ buf' = NoWrite /\ out' = [out EXCEPT ![o] = @ \o cells]
    <3>1. out[o] \o cells \in Seq(Cell)
      BY <1>1, Joined
    <3> QED
      BY <1>1, <2>0, <2>2, <3>1
  <2>3. ASSUME NEW n \in 1..(Len(cells) - 1), pc' = "write",
               buf' = [buf EXCEPT !.cells = SubSeq(cells, n + 1, Len(cells))],
               out' = [out EXCEPT ![o] = @ \o SubSeq(cells, 1, n)]
        PROVE  out' \in [Peers -> Seq(Cell)] /\ buf' \in BufType /\ buf'.then = buf.then /\ Len(buf'.cells) > 0
    <3>1. n \in 0..Len(cells) /\ Len(cells) - n > 0
      BY <1>1
    <3>2. SubSeq(cells, 1, n) \in Seq(Cell)
      BY <1>1, <3>1, Cut
    <3>3. SubSeq(cells, n + 1, Len(cells)) \in Seq(Cell) /\ Len(SubSeq(cells, n + 1, Len(cells))) > 0
      BY <1>1, <3>1, Cut
    <3>4. out[o] \o SubSeq(cells, 1, n) \in Seq(Cell)
      BY <1>1, <3>2, Joined
    <3>5. out' \in [Peers -> Seq(Cell)]
      BY <1>1, <2>3, <3>4
    <3>6. buf' \in BufType /\ buf'.then = buf.then /\ Len(buf'.cells) > 0
      BY <1>1, <2>3, <3>3
    <3> QED
      BY <3>5, <3>6
  <2> QED
    BY <1>1, <2>1, <2>2, <2>3, FlushCases
<1>4. pc' \in {"write", "closed"} \cup (Linked \ {"write"})
  BY <1>1, <1>3
<1>5. HeldInv'
  BY <1>1, <1>2, <1>3, <1>4 DEF HeldInv
<1>6. TypeOK'
  <2>1. pc' \in FromClient \cup FromServer
                \cup {"ask", "resolving", "connecting", "established", "poll", "pass", "write",
                      "closed", "freed"}
    BY <1>4
  <2>2. buf' \in BufType /\ out' \in [Peers -> Seq(Cell)]
    BY <1>3
  <2> HIDE DEF FromClient, FromServer, Peers
  <2> QED
    BY <1>2, <2>1, <2>2 DEF TypeOK
<1> QED
  BY <1>5, <1>6

(* What the engine tries: what bio_in held and what the read brought, in this order. *)
LEMMA EngineCases ==
    ASSUME TypeOK, EngineReads \/ EngineHolds, NEW p, p = Waiting
    PROVE  /\ p \in Peers /\ pc \in TlsReads
           /\ UNCHANGED <<plan, channels, dns, fds, stfd_, rtm, out, parser, ready, hop, sent, got, up>>
           /\ \E n \in 0..Len(in[p]), b \in Seq(Nat) :
                 /\ Engine(p, b)
                 /\ Len(b) = Len(bio[p]) + n
                 /\ \A i \in 1..Len(bio[p]) : b[i] = bio[p][i]
                 /\ \A i \in 1..n : b[Len(bio[p]) + i] = in[p][i]
                 /\ in' \in [Peers -> Seq(Nat)] /\ in'[Other(p)] = in[Other(p)]
                 /\ Len(in'[p]) = Len(in[p]) - n
                 /\ \A i \in 1..(Len(in[p]) - n) : in'[p][i] = in[p][n + i]
<1> PICK s : s = bio[p]
  OBVIOUS
<1>1. p \in Peers /\ s \in Seq(Nat) /\ Len(s) \in Nat /\ in[p] \in Seq(Nat) /\ Len(in[p]) \in Nat
  BY LenProperties DEF TypeOK, Waiting
<1>2. CASE EngineReads
  <2> PICK n \in 1..Len(in[p]) : Took(p, n) /\ Engine(p, s \o SubSeq(in[p], 1, n))
    BY <1>2 DEF EngineReads
  <2>1. n \in 0..Len(in[p])
    BY <1>1
  <2> PICK r : r = SubSeq(in[p], 1, n)
    OBVIOUS
  <2>2. r \in Seq(Nat) /\ Len(r) = n /\ \A i \in 1..n : r[i] = in[p][i]
    BY <1>1, <2>1, TookType
  <2>3. /\ in' \in [Peers -> Seq(Nat)] /\ in'[Other(p)] = in[Other(p)]
        /\ Len(in'[p]) = Len(in[p]) - n
        /\ \A i \in 1..(Len(in[p]) - n) : in'[p][i] = in[p][n + i]
    BY <1>1, <2>1, TookType
  <2> PICK b : b = s \o r
    OBVIOUS
  <2>4. /\ b \in Seq(Nat) /\ Len(b) = Len(s) + n
        /\ \A i \in 1..Len(s) : b[i] = s[i]
        /\ \A i \in 1..n : b[Len(s) + i] = r[i]
    BY <1>1, <2>2, Glued
  <2>5. Engine(p, b)
    OBVIOUS
  <2>6. \A i \in 1..n : b[Len(s) + i] = in[p][i]
    BY <2>2, <2>4
  <2>7. pc \in TlsReads
        /\ UNCHANGED <<plan, channels, dns, fds, stfd_, rtm, out, parser, ready, hop, sent, got, up>>
    BY <1>2 DEF EngineReads, setup, peers
  <2> QED
    BY <1>1, <2>1, <2>3, <2>4, <2>5, <2>6, <2>7
<1>3. CASE EngineHolds
  <2>1. Engine(p, s) /\ in' = in
        /\ UNCHANGED <<plan, channels, dns, fds, stfd_, rtm, out, parser, ready, hop, sent, got, up>>
    BY <1>3 DEF EngineHolds, setup, peers
  <2>2. pc \in TlsReads
    BY <1>3 DEF EngineHolds, RecordHeld, TlsReads
  <2>3. in' \in [Peers -> Seq(Nat)] /\ in'[Other(p)] = in[Other(p)] /\ Len(in'[p]) = Len(in[p]) - 0
        /\ \A i \in 1..(Len(in[p]) - 0) : in'[p][i] = in[p][0 + i]
    BY <1>1, <2>1 DEF TypeOK
  <2>4. 0 \in 0..Len(in[p]) /\ Len(s) = Len(s) + 0 /\ \A i \in 1..0 : s[Len(s) + i] = in[p][i]
    BY <1>1
  <2> QED
    BY <1>1, <2>1, <2>2, <2>3, <2>4
<1> QED
  BY <1>2, <1>3

(* The proxy's own next flight f goes to o, and the coroutine goes on at then. *)
Answer(o, f, then) ==
    /\ buf' = [to |-> o, cells |-> <<<<"tls", f>>>>, then |-> then]
    /\ pc' = "write" /\ told' = told

LEMMA ReactCases ==
    ASSUME NEW p, pc \in TlsReads, React(p)
    PROVE  \/ pc = "svr_hello" /\ Answer("svr", 2, "svr_done")
           \/ pc = "svr_done" /\ told' = TRUE /\ pc' = "clt_hello" /\ buf' = buf
           \/ pc = "clt_hello" /\ Answer("clt", 1, "clt_done")
           \/ pc = "clt_done" /\ Answer("clt", 2, "request")
           \/ pc = "request" /\ Answer("svr", Flight(p), "response")
           \/ /\ pc = "response"
              /\ \E then \in {"closed", IF plan.upgrade THEN "poll" ELSE "request"} :
                    Answer("clt", Flight(p), then)
<1>1. CASE pc = "svr_hello"
  BY <1>1 DEF React, Write, Answer
<1>2. CASE pc = "svr_done"
  BY <1>2 DEF React
<1>3. CASE pc = "clt_hello"
  BY <1>3 DEF React, Write, Answer
<1>4. CASE pc = "clt_done"
  BY <1>4 DEF React, Write, Answer
<1>5. CASE pc = "request"
  BY <1>5 DEF React, Write, Answer
<1>6. CASE pc = "response"
  BY <1>6 DEF React, Write, Answer
<1> QED
  BY <1>1, <1>2, <1>3, <1>4, <1>5, <1>6 DEF TlsReads

LEMMA EngineType ==
    ASSUME TypeOK, HeldInv, EngineReads \/ EngineHolds
    PROVE  TypeOK' /\ HeldInv'
<1> USE DEF Linked, TlsReads, FromClient, FromServer
<1> DEFINE BufType == [to: Peers, cells: Seq(Cell), then: FromClient \cup FromServer \cup {"poll", "pass", "closed"}]
<1> PICK p : p = Waiting
  OBVIOUS
<1>1. /\ p \in Peers /\ pc \in TlsReads
      /\ UNCHANGED <<plan, channels, dns, fds, stfd_, rtm, out, parser, ready, hop, sent, got, up>>
  BY EngineCases
<1> PICK n \in 0..Len(in[p]), b \in Seq(Nat) : Engine(p, b) /\ in' \in [Peers -> Seq(Nat)]
  BY EngineCases
<1>2. bio \in [Peers -> Seq(Nat)] /\ eaten \in [Peers -> Nat] /\ buf \in BufType /\ Len(b) \in Nat
  BY LenProperties DEF TypeOK
<1>3. CASE ~Whole(b)
  <2>1. bio' \in [Peers -> Seq(Nat)] /\ UNCHANGED <<eaten, pc, buf, told>>
    BY <1>2, <1>3 DEF Engine
  <2>2. TypeOK'
    <3> HIDE DEF FromClient, FromServer, Peers, Linked, TlsReads
    <3>1. in' \in [Peers -> Seq(Nat)] /\ bio' \in [Peers -> Seq(Nat)] /\ eaten' \in [Peers -> Nat]
          /\ buf' \in BufType
      BY <1>2, <2>1
    <3>2. pc' \in FromClient \cup FromServer
                  \cup {"ask", "resolving", "connecting", "established", "poll", "pass", "write",
                        "closed", "freed"}
      BY <2>1 DEF TypeOK
    <3>3. told' = told
      BY <2>1
    <3> QED
      BY <1>1, <3>1, <3>2, <3>3 DEF TypeOK
  <2>3. HeldInv'
    BY <1>1, <2>1 DEF HeldInv
  <2> QED
    BY <2>2, <2>3
<1>4. CASE Whole(b) /\ ~Intact(p, b)
  <2>1. pc' = "closed" /\ UNCHANGED <<bio, eaten, buf, told>>
    BY <1>4 DEF Engine, tls
  <2>2. TypeOK'
    <3> HIDE DEF FromClient, FromServer, Peers, Linked, TlsReads
    <3> QED
      BY <1>1, <2>1 DEF TypeOK
  <2>3. HeldInv'
    BY <1>1, <2>1 DEF HeldInv
  <2> QED
    BY <2>2, <2>3
<1>5. CASE Whole(b) /\ Intact(p, b)
  <2>1. bio' = [bio EXCEPT ![p] = KeptInBio(b)] /\ eaten' = [eaten EXCEPT ![p] = @ + Parts] /\ React(p)
    BY <1>5 DEF Engine
  <2>2. KeptInBio(b) \in Seq(Nat)
    <3>1. Parts \in 0..Len(b)
      BY <1>2, <1>5, FlightArith DEF Whole
    <3>2. SubSeq(b, Parts + 1, Len(b)) \in Seq(Nat)
      BY <3>1, Cut
    <3> QED
      BY <3>2 DEF KeptInBio
  <2>3. bio' \in [Peers -> Seq(Nat)] /\ eaten' \in [Peers -> Nat]
    <3>1. eaten[p] + Parts \in Nat
      BY <1>1, <1>2, FlightArith
    <3> QED
      BY <1>2, <2>1, <2>2, <3>1
  <2>4. Flight(p) \in Nat
    <3>1. eaten[p] \in Nat
      BY <1>1, <1>2
    <3>2. eaten[p] \div Parts \in Nat
      BY <3>1, FlightArith
    <3> QED
      BY <3>2 DEF Flight
  <2>5. ASSUME NEW o \in Peers, NEW f \in Nat, NEW then \in TlsReads \cup {"poll", "closed"},
               Answer(o, f, then)
        PROVE  buf' \in BufType /\ pc' = "write" /\ buf'.then = then /\ Len(buf'.cells) > 0 /\ told' = told
    <3>1. <<<<"tls", f>>>> \in Seq(Cell) /\ Len(<<<<"tls", f>>>>) = 1
      BY DEF Cell
    <3> QED
      BY <2>5, <3>1 DEF Answer
  <2>6. \/ pc' = "clt_hello" /\ buf' = buf /\ told' = TRUE
        \/ /\ buf' \in BufType /\ pc' = "write" /\ Len(buf'.cells) > 0 /\ told' = told
           /\ buf'.then \in TlsReads \cup {"poll", "pass", "closed"}
    <3> DEFINE Goal == /\ buf' \in BufType /\ pc' = "write" /\ Len(buf'.cells) > 0 /\ told' = told
                       /\ buf'.then \in TlsReads \cup {"poll", "pass", "closed"}
    <3>1. ASSUME NEW o \in Peers, NEW f \in Nat, NEW then, Answer(o, f, then),
                 then \in {"svr_done", "clt_done", "request", "response", "poll", "closed"}
          PROVE  Goal
      BY <2>5, <3>1
    <3> HIDE DEF Goal
    <3>2. \/ pc' = "clt_hello" /\ buf' = buf /\ told' = TRUE
          \/ Answer("svr", 2, "svr_done") \/ Answer("clt", 1, "clt_done") \/ Answer("clt", 2, "request")
          \/ Answer("svr", Flight(p), "response") \/ Answer("clt", Flight(p), "closed")
          \/ Answer("clt", Flight(p), "poll") \/ Answer("clt", Flight(p), "request")
      <4>1. \/ pc = "svr_hello" /\ Answer("svr", 2, "svr_done")
            \/ pc = "svr_done" /\ told' = TRUE /\ pc' = "clt_hello" /\ buf' = buf
            \/ pc = "clt_hello" /\ Answer("clt", 1, "clt_done")
            \/ pc = "clt_done" /\ Answer("clt", 2, "request")
            \/ pc = "request" /\ Answer("svr", Flight(p), "response")
            \/ /\ pc = "response"
               /\ \E then \in {"closed", IF plan.upgrade THEN "poll" ELSE "request"} :
                     Answer("clt", Flight(p), then)
        <5>1. pc \in TlsReads /\ React(p)
          BY <1>1, <2>1
        <5> HIDE DEF TlsReads
        <5> QED
          BY <5>1, ReactCases, Zenon
      <4> QED
        BY <4>1
    <3>3. Goal \/ (pc' = "clt_hello" /\ buf' = buf /\ told' = TRUE)
      <4>1. "svr" \in Peers /\ "clt" \in Peers /\ 1 \in Nat /\ 2 \in Nat
        OBVIOUS
      <4>2. Answer("svr", 2, "svr_done") => Goal
        BY <3>1, <4>1
      <4>3. Answer("clt", 1, "clt_done") => Goal
        BY <3>1, <4>1
      <4>4. Answer("clt", 2, "request") => Goal
        BY <3>1, <4>1
      <4>5. Answer("svr", Flight(p), "response") => Goal
        BY <2>4, <3>1, <4>1
      <4>6. \A then \in {"closed", "poll", "request"} : Answer("clt", Flight(p), then) => Goal
        BY <2>4, <3>1, <4>1
      <4> QED
        BY <3>2, <4>2, <4>3, <4>4, <4>5, <4>6
    <3> QED
      BY <3>3 DEF Goal
  <2>7. pc' \in FromClient \cup FromServer
                \cup {"ask", "resolving", "connecting", "established", "poll", "pass", "write",
                      "closed", "freed"}
    BY <2>6
  <2>8. buf' \in BufType
    BY <1>2, <2>6
  <2>9. told' \in BOOLEAN
    BY <2>6, Zenon DEF TypeOK
  <2>10. TypeOK'
    <3> HIDE DEF FromClient, FromServer, Peers, Linked, TlsReads
    <3> QED
      BY <1>1, <2>3, <2>7, <2>8, <2>9 DEF TypeOK
  <2>11. HeldInv'
    BY <1>1, <2>6 DEF HeldInv
  <2> QED
    BY <2>10, <2>11
<1> QED
  BY <1>3, <1>4, <1>5

LEMMA TypeStep ==
    ASSUME TypeOK, HeldInv, [Next]_vars
    PROVE  TypeOK' /\ HeldInv'
<1>1. CASE UNCHANGED vars
  BY <1>1 DEF vars, setup, tls, peers, TypeOK, HeldInv
<1>2. CASE Next
  BY <1>2, SetupType, ParserType, PeerType, PassType, FlushType, EngineType
     DEF Next, ProxyStep
<1> QED
  BY <1>1, <1>2

(***************************************************************************)
(* Every state has its type, and the place of the coroutine says which     *)
(* channels and descriptors are open (process_https_connection,            *)
(* SrsTcpClient, SrsAsyncDns).                                             *)
(***************************************************************************)
THEOREM TypeCorrect == Spec => [](TypeOK /\ HeldInv)
<1>1. Init => TypeOK /\ HeldInv
  BY InitType
<1>2. (TypeOK /\ HeldInv) /\ [Next]_vars => (TypeOK /\ HeldInv)'
  BY TypeStep
<1> QED
  BY <1>1, <1>2, PTL DEF Spec, SilentSpec

(***************************************************************************)
(* NothingLeft for all constants: every way out of                         *)
(* process_https_connection closes the descriptor towards the server and   *)
(* both resolver channels.  HeldInv is the invariant: on every path the    *)
(* descriptor is either not opened yet, held by svr_skt, or closed.        *)
(***************************************************************************)
THEOREM LinkLeavesNothing == Spec => []NothingLeft
<1>1. HeldInv => NothingLeft
  BY DEF HeldInv, NothingLeft
<1> QED
  BY <1>1, TypeCorrect, PTL

-----------------------------------------------------------------------------
(* The kinds of steps, by what they do to the streams *)

(* The coroutine has not started the tunnel or the handshake. *)
Before == {"parse_connect", "ask", "resolving", "connecting", "hop_reply", "established"}

Stays ==
    /\ UNCHANGED <<plan, pc, in, out, parser, bio, eaten, buf, sent, got>>
    /\ \A p \in Peers : up[p] = "gone" => up'[p] = "gone"

Moves ==
    /\ UNCHANGED <<plan, in, out, parser, bio, eaten, buf, sent, got, up>> /\ pc # "write"
    /\ \/ pc' = "closed"
       \/ pc = "closed" /\ pc' = "freed"
       \/ pc \in {"ask", "resolving", "connecting"} /\ pc' \in Before \ {"parse_connect"}
       \/ pc = "established" /\ ~plan.decrypt /\ pc' = "poll"
       \/ pc = "poll" /\ pc' = "pass"
       \/ pc = "pass" /\ plan.decrypt /\ pc' = "request"

Parses(p) ==
    /\ \E n \in 0..Len(in[p]) : Took(p, n) /\ parser' = [parser EXCEPT ![p] = SubSeq(in[p], 1, n)]
    /\ IF p = "clt" THEN pc = "parse_connect" /\ pc' = "ask" ELSE pc = "hop_reply" /\ pc' = "established"
    /\ UNCHANGED <<plan, out, bio, eaten, buf, sent, got, up>>

Begins ==
    /\ pc = "established" /\ plan.decrypt /\ Answer("svr", 1, "svr_hello")
    /\ UNCHANGED <<plan, in, out, parser, bio, eaten, sent, got, up>>

Relays(p) ==
    /\ pc = "pass" /\ pc' = "write"
    /\ \E n \in 1..Len(in[p]), then \in {"poll", "pass"} :
          /\ Took(p, n)
          /\ buf' = [to |-> Other(p), cells |-> [i \in 1..n |-> <<"raw", in[p][i]>>], then |-> then]
    /\ UNCHANGED <<plan, out, parser, bio, eaten, sent, got, up>>

LEMMA StreamKinds ==
    ASSUME TypeOK, HeldInv, [Next]_vars
    PROVE  \/ Stays \/ Moves \/ Begins \/ Flush \/ EngineReads \/ EngineHolds
           \/ \E p \in Peers : Parses(p) \/ Relays(p) \/ PeerSend(p) \/ PeerReceive(p)
<1>1. ASSUME UNCHANGED vars PROVE Stays
  BY <1>1 DEF vars, tls, peers, Stays
<1>2. ASSUME dns_callback PROVE Stays
  BY <1>2 DEF dns_callback, Stays, tls, peers
<1>3. ASSUME HopAnswers PROVE Stays
  <2>1. UNCHANGED <<plan, pc, in, out, parser, bio, eaten, buf, sent, got>>
    BY <1>3 DEF HopAnswers, tls
  <2>2. up' = up \/ (up.svr = "open" /\ up' = [up EXCEPT !.svr = "half"])
    BY <1>3 DEF HopAnswers
  <2>3. up \in [Peers -> {"open", "half", "gone"}]
    BY DEF TypeOK
  <2> QED
    BY <2>1, <2>2, <2>3 DEF Stays
<1>4. ASSUME NEW p \in Peers, PeerCloses(p) PROVE Stays
  <2>1. UNCHANGED <<plan, pc, in, out, parser, bio, eaten, buf, sent, got>>
    BY <1>4 DEF PeerCloses, tls
  <2>2. up[p] = "open" /\ \E s \in {"half", "gone"} : up' = [up EXCEPT ![p] = s]
    BY <1>4 DEF PeerCloses
  <2>3. up \in [Peers -> {"open", "half", "gone"}]
    BY DEF TypeOK
  <2> QED
    BY <2>1, <2>2, <2>3 DEF Stays
<1>5. ASSUME do_resolve \/ Resolved \/ ConnectFails \/ Connected PROVE Moves
  BY <1>5 DEF do_resolve, Resolved, ConnectFails, Connected, Moves, Before, tls, peers
<1>6. ASSUME Poll \/ Free PROVE Moves
  BY <1>6 DEF Poll, Free, Moves, tls, peers
<1>7. ASSUME ReadFails PROVE Moves
  <2>1. /\ pc \in FromClient \cup FromServer /\ pc' = "closed"
        /\ UNCHANGED <<plan, in, out, parser, bio, eaten, buf, sent, got, up>>
    BY <1>7 DEF ReadFails, tls, peers
  <2> QED
    BY <2>1 DEF Moves, FromClient, FromServer
<1>8. ASSUME Established PROVE Moves \/ Begins
  BY <1>8 DEF Established, Write, Moves, Begins, Answer, tls, peers
<1>9. ASSUME ParseConnect PROVE Parses("clt")
  <2>1. /\ \E n \in 0..Len(in.clt) : Took("clt", n) /\ parser' = [parser EXCEPT !.clt = SubSeq(in.clt, 1, n)]
        /\ pc = "parse_connect" /\ pc' = "ask"
        /\ UNCHANGED <<plan, out, bio, eaten, buf, sent, got, up>>
    BY <1>9 DEF ParseConnect, tls, peers
  <2> QED
    BY <2>1 DEF Parses
<1>10. ASSUME HopReply PROVE Parses("svr")
  BY <1>10 DEF HopReply, Parses, tls, peers
<1>11. ASSUME pass PROVE Moves \/ \E p \in Peers : Relays(p)
  <2> PICK p, n : /\ p = IF "clt" \in ready THEN "clt" ELSE "svr"
                  /\ n = IF Len(in[p]) < IOBUFSIZE THEN Len(in[p]) ELSE IOBUFSIZE
    OBVIOUS
  <2>1. p \in Peers /\ in[p] \in Seq(Nat) /\ pc = "pass"
    <3>1. p \in Peers /\ pc = "pass"
      BY <1>11 DEF pass
    <3> QED
      BY <3>1 DEF TypeOK
  <2>2. UNCHANGED <<plan, out, parser, bio, eaten, sent, got, up>>
    BY <1>11 DEF pass, tls, peers
  <2>3. CASE StreamEnds(p)
    <3>1. pc' = (IF plan.decrypt THEN "request" ELSE "closed") /\ UNCHANGED <<in, buf>>
      BY <1>11, <2>3 DEF pass
    <3> QED
      BY <2>1, <2>2, <3>1 DEF Moves
  <2>4. CASE ~StreamEnds(p)
    <3> DEFINE cells == [i \in 1..n |-> <<"raw", in[p][i]>>]
    <3>1. Took(p, n) /\ pc' = "write"
          /\ buf' = [to |-> Other(p), cells |-> cells, then |-> IF ready' = {} THEN "poll" ELSE "pass"]
      BY <1>11, <2>4 DEF pass, Write
    <3>2. n \in 1..Len(in[p])
      <4>1. Len(in[p]) \in Nat /\ Len(in[p]) > 0
        BY <2>1, <2>4, EmptySeq, LenProperties DEF StreamEnds
      <4> QED
        BY <4>1, BoundsAssumption
    <3>3. \E then \in {"poll", "pass"} : buf' = [to |-> Other(p), cells |-> cells, then |-> then]
      BY <3>1
    <3> QED
      <4> PICK then \in {"poll", "pass"} : buf' = [to |-> Other(p), cells |-> cells, then |-> then]
        BY <3>3
      <4> HIDE DEF Peers
      <4>1. Relays(p)
        BY <2>1, <2>2, <3>1, <3>2 DEF Relays
      <4> QED
        BY <2>1, <4>1
  <2> QED
    BY <2>3, <2>4
<1> QED
  BY <1>1, <1>2, <1>3, <1>4, <1>5, <1>6, <1>7, <1>8, <1>9, <1>10, <1>11 DEF Next, ProxyStep

-----------------------------------------------------------------------------
(* What is in the sockets *)

(* A socket holds the last cells its peer sent, in order. *)
InInv ==
    \A p \in Peers : Len(in[p]) <= sent[p] /\ Numbered(in[p], sent[p] - Len(in[p]))

(* Until it has read its message a parser holds nothing. *)
ParserInv ==
    /\ pc = "parse_connect" => parser["clt"] = <<>>
    /\ pc \in Before \ {"established"} => parser["svr"] = <<>>

(* What PeerSend puts into the socket. *)
LEMMA SendEffect ==
    ASSUME TypeOK, NEW p \in Peers, PeerSend(p),
           NEW k, k = IF plan.decrypt THEN Parts ELSE 1
    PROVE  /\ k \in Nat /\ sent[p] \in Nat /\ Len(in[p]) \in Nat
           /\ sent'[p] = sent[p] + k /\ sent'[Other(p)] = sent[Other(p)]
           /\ Len(in'[p]) = Len(in[p]) + k /\ in'[Other(p)] = in[Other(p)]
           /\ \A i \in 1..Len(in[p]) : in'[p][i] = in[p][i]
           /\ \A i \in 1..k : in'[p][Len(in[p]) + i] = sent[p] + i
           /\ UNCHANGED <<plan, pc, out, parser, bio, eaten, buf, got, up>>
<1> DEFINE more == [i \in 1..k |-> sent[p] + i]
<1> PICK s : s = in[p]
  OBVIOUS
<1>1. k \in Nat /\ sent[p] \in Nat /\ s \in Seq(Nat) /\ Len(s) \in Nat
  BY FlightArith, LenProperties DEF TypeOK
<1>2. more \in [1..k -> Nat] /\ \A i \in 1..k : more[i] = sent[p] + i
  BY <1>1
<1>3. sent' = [sent EXCEPT ![p] = @ + k] /\ in' = [in EXCEPT ![p] = @ \o more]
      /\ UNCHANGED <<plan, pc, out, parser, bio, eaten, buf, got, up>>
  BY DEF PeerSend, tls
<1> HIDE DEF more
<1>4. more \in Seq(Nat) /\ Len(more) = k
  BY <1>1, <1>2, Listed
<1> PICK u : u = s \o more
  OBVIOUS
<1>5. Len(u) = Len(s) + k /\ (\A i \in 1..Len(s) : u[i] = s[i]) /\ \A i \in 1..k : u[Len(s) + i] = more[i]
  <2>1. s \in Seq(Nat) /\ more \in Seq(Nat) /\ u = s \o more
    BY <1>1, <1>4
  <2>2. Len(u) = Len(s) + Len(more) /\ (\A i \in 1..Len(s) : u[i] = s[i])
        /\ \A i \in 1..Len(more) : u[Len(s) + i] = more[i]
    BY ONLY <2>1, Glued
  <2> QED
    BY <1>4, <2>2
<1>6. in'[p] = u /\ in'[Other(p)] = in[Other(p)]
  BY <1>3, OtherPeer DEF TypeOK
<1>7. sent'[p] = sent[p] + k /\ sent'[Other(p)] = sent[Other(p)]
  BY <1>3, OtherPeer DEF TypeOK
<1> QED
  BY <1>1, <1>2, <1>3, <1>5, <1>6, <1>7

LEMMA CutIn ==
    ASSUME TypeOK, InInv, NEW p \in Peers, NEW n \in 0..Len(in[p]), UNCHANGED sent,
           in'[Other(p)] = in[Other(p)], Len(in'[p]) = Len(in[p]) - n,
           \A i \in 1..(Len(in[p]) - n) : in'[p][i] = in[p][n + i]
    PROVE  InInv'
<1> PICK s, t, u : s = in[p] /\ t = sent[p] /\ u = in'[p]
  OBVIOUS
<1>1. Len(s) \in Nat /\ t \in Nat /\ Len(s) <= t /\ Numbered(s, t - Len(s)) /\ n \in 0..Len(s)
  BY LenProperties DEF TypeOK, InInv
<1>2. Numbered(u, (t - Len(s)) + n)
  <2>1. t - Len(s) \in Int
    BY <1>1
  <2> QED
    BY <1>1, <2>1, NumberedCut
<1>3. Len(u) <= t /\ (t - Len(s)) + n = t - Len(u)
  <2>1. Len(u) = Len(s) - n
    OBVIOUS
  <2> QED
    BY ONLY <1>1, <2>1
<1>4. \A q \in Peers : q = p \/ q = Other(p)
  BY DEF Other
<1> SUFFICES ASSUME NEW q \in Peers
             PROVE  Len(in'[q]) <= sent'[q] /\ Numbered(in'[q], sent'[q] - Len(in'[q]))
  BY DEF InInv
<1>5. CASE q = p
  BY <1>2, <1>3, <1>5
<1>6. CASE q = Other(p)
  BY <1>6 DEF InInv
<1> QED
  BY <1>4, <1>5, <1>6

LEMMA InStep ==
    ASSUME TypeOK, HeldInv, InInv, ParserInv, [Next]_vars
    PROVE  InInv' /\ ParserInv'
<1>1. ASSUME UNCHANGED <<in, sent>> PROVE InInv'
  BY <1>1 DEF InInv
<1>2. ASSUME UNCHANGED <<pc, parser>> PROVE ParserInv'
  BY <1>2 DEF ParserInv
<1>3. CASE Stays
  BY <1>1, <1>2, <1>3 DEF Stays
<1>4. CASE Moves
  BY <1>1, <1>4 DEF Moves, ParserInv, Before
<1>5. CASE Begins
  BY <1>1, <1>5 DEF Begins, Answer, ParserInv, Before
<1>6. CASE Flush
  <2>1. /\ UNCHANGED <<in, sent, parser>> /\ pc' \notin Before \ {"established"}
    <3>1. UNCHANGED <<in, sent, parser>> /\ pc = "write"
      BY <1>6 DEF Flush, peers
    <3>2. pc' \in {"write", "closed", buf.then}
      BY <1>6, FlushCases
    <3>3. buf.then \in TlsReads \cup {"poll", "pass", "closed"}
      BY <3>1 DEF HeldInv
    <3> QED
      BY <3>1, <3>2, <3>3 DEF Before, TlsReads
  <2> QED
    BY <1>1, <2>1 DEF ParserInv, Before
<1>7. CASE EngineReads \/ EngineHolds
  <2> PICK p : p = Waiting
    OBVIOUS
  <2>1. p \in Peers /\ pc \in TlsReads /\ UNCHANGED <<sent, parser>>
    BY <1>7, EngineCases
  <2>2. InInv'
    <3> PICK n \in 0..Len(in[p]) : /\ in'[Other(p)] = in[Other(p)] /\ Len(in'[p]) = Len(in[p]) - n
                                   /\ \A i \in 1..(Len(in[p]) - n) : in'[p][i] = in[p][n + i]
      BY <1>7, EngineCases
    <3> QED
      BY <2>1, CutIn
  <2>3. ParserInv'
    <3>1. pc' \in {pc, "closed", "write", "clt_hello"}
      <4> PICK n \in 0..Len(in[p]), b \in Seq(Nat) : Engine(p, b)
        BY <1>7, EngineCases
      <4>1. CASE Whole(b) /\ Intact(p, b)
        <5>1. React(p)
          BY <4>1 DEF Engine
        <5> QED
          BY <2>1, <5>1, ReactCases, Zenon DEF Answer
      <4> QED
        BY <4>1 DEF Engine
    <3> QED
      BY <2>1, <3>1 DEF ParserInv, TlsReads, Before
  <2> QED
    BY <2>2, <2>3
<1>8. ASSUME NEW p \in Peers, Parses(p) PROVE InInv' /\ ParserInv'
  <2> PICK n \in 0..Len(in[p]) : Took(p, n) /\ parser' = [parser EXCEPT ![p] = SubSeq(in[p], 1, n)]
    BY <1>8 DEF Parses
  <2>1. InInv'
    <3>1. sent' = sent
      BY <1>8 DEF Parses
    <3> QED
      BY <3>1, TookType, CutIn
  <2>2. ParserInv'
    BY <1>8 DEF Parses, ParserInv, Before, TypeOK
  <2> QED
    BY <2>1, <2>2
<1>9. ASSUME NEW p \in Peers, Relays(p) PROVE InInv' /\ ParserInv'
  <2>1. UNCHANGED <<sent, parser>> /\ pc' = "write"
    BY <1>9 DEF Relays
  <2>2. PICK n \in 1..Len(in[p]) : Took(p, n)
    BY <1>9 DEF Relays
  <2>3. n \in 0..Len(in[p])
    OBVIOUS
  <2>4. InInv'
    BY <2>1, <2>2, <2>3, TookType, CutIn
  <2> QED
    BY <2>1, <2>4 DEF ParserInv, Before
<1>10. ASSUME NEW p \in Peers, PeerSend(p) PROVE InInv'
  <2> PICK k : k = IF plan.decrypt THEN Parts ELSE 1
    OBVIOUS
  <2> PICK s, t, u : s = in[p] /\ t = sent[p] /\ u = in'[p]
    OBVIOUS
  <2>1. /\ k \in Nat /\ t \in Nat /\ Len(s) \in Nat
        /\ sent'[p] = t + k /\ sent'[Other(p)] = sent[Other(p)]
        /\ Len(u) = Len(s) + k /\ in'[Other(p)] = in[Other(p)]
        /\ \A i \in 1..Len(s) : u[i] = s[i]
        /\ \A i \in 1..k : u[Len(s) + i] = t + i
    <3>1. /\ k \in Nat /\ sent[p] \in Nat /\ Len(in[p]) \in Nat
          /\ sent'[p] = sent[p] + k /\ sent'[Other(p)] = sent[Other(p)]
          /\ Len(in'[p]) = Len(in[p]) + k /\ in'[Other(p)] = in[Other(p)]
          /\ \A i \in 1..Len(in[p]) : in'[p][i] = in[p][i]
          /\ \A i \in 1..k : in'[p][Len(in[p]) + i] = sent[p] + i
      BY <1>10, SendEffect, Zenon
    <3> QED
      BY <3>1, Zenon
  <2>2. Len(s) <= t /\ Numbered(s, t - Len(s)) /\ t - Len(s) \in Int /\ (t - Len(s)) + Len(s) = t
    BY <2>1 DEF InInv
  <2>3. Numbered(u, t - Len(s))
    <3>1. Len(s) \in Nat /\ t - Len(s) \in Int /\ Numbered(s, t - Len(s)) /\ k \in Nat /\ Len(u) = Len(s) + k
      BY <2>1, <2>2
    <3>2. \A i \in 1..Len(s) : u[i] = s[i]
      BY <2>1
    <3>3. \A i \in 1..k : u[Len(s) + i] = (t - Len(s)) + Len(s) + i
      BY <2>1, <2>2
    <3> QED
      BY ONLY <3>1, <3>2, <3>3, NumberedJoin
  <2>4. \A q \in Peers : q = p \/ q = Other(p)
    BY DEF Other
  <2>5. Len(in'[p]) <= sent'[p] /\ Numbered(in'[p], sent'[p] - Len(in'[p]))
    <3>1. t \in Nat /\ k \in Nat /\ Len(s) \in Nat /\ Len(s) <= t /\ Len(u) = Len(s) + k
      BY <2>1, <2>2
    <3>2. Len(u) <= t + k /\ t - Len(s) = (t + k) - Len(u)
      BY ONLY <3>1
    <3> QED
      BY <2>1, <2>3, <3>2
  <2>6. LET q == Other(p) IN Len(in'[q]) <= sent'[q] /\ Numbered(in'[q], sent'[q] - Len(in'[q]))
    BY <2>1, OtherPeer DEF InInv
  <2> QED
    BY <2>4, <2>5, <2>6 DEF InInv
<1>11. ASSUME NEW p \in Peers, PeerSend(p) PROVE ParserInv'
  BY <1>2, <1>11 DEF PeerSend
<1>12. ASSUME NEW p \in Peers, PeerReceive(p) PROVE InInv' /\ ParserInv'
  BY <1>1, <1>2, <1>12 DEF PeerReceive
<1> QED
  BY <1>3, <1>4, <1>5, <1>6, <1>7, <1>8, <1>9, <1>10, <1>11, <1>12, StreamKinds

-----------------------------------------------------------------------------
(* Cells on their way to a peer *)

(* The write in progress towards o, if there is one. *)
Pend(o) == IF pc = "write" /\ buf.to = o THEN buf.cells ELSE <<>>

(* What o received and what is in its socket are one piece of a stream, from after cell b. *)
Contig(o, mark, b) == Marked(got[o], mark, b) /\ Marked(out[o], mark, b + Len(got[o]))

(* The peer takes the first cell of its socket. *)
LEMMA ReceiveRun ==
    ASSUME NEW g \in Seq(Cell), NEW w \in Seq(Cell), w # <<>>, NEW m, NEW b \in Nat,
           Marked(g, m, b), Marked(w, m, b + Len(g))
    PROVE  LET g2 == Append(g, Head(w))
               w2 == Tail(w)
           IN  /\ Marked(g2, m, b) /\ Marked(w2, m, b + Len(g2))
               /\ Len(g) \in Nat /\ Len(w) \in Nat /\ Len(g2) = Len(g) + 1 /\ Len(w2) = Len(w) - 1
<1> PICK g2, w2 : g2 = Append(g, Head(w)) /\ w2 = Tail(w)
  OBVIOUS
<1>1. Len(g) \in Nat /\ Len(w) \in Nat /\ Len(w) > 0
  BY LenProperties, EmptySeq
<1>2. Head(w) \in Cell /\ Head(w) = w[1] /\ Len(w2) = Len(w) - 1 /\ \A i \in 1..(Len(w) - 1) : w2[i] = w[i + 1]
  BY <1>1, HeadTailProperties
<1>3. /\ Len(g2) = Len(g) + 1 /\ g2[Len(g2)] = Head(w)
      /\ \A i \in 1..Len(g) : g2[i] = g[i]
      /\ \A i \in 1..Len(g2) : i # Len(g2) => i \in 1..Len(g)
  BY <1>2, Appended
<1>4. w[1] = <<m, b + Len(g) + 1>>
  BY <1>1 DEF Marked
<1>5. Marked(g2, m, b)
  <2> SUFFICES ASSUME NEW i \in 1..Len(g2) PROVE g2[i] = <<m, b + i>>
    BY DEF Marked
  <2>1. CASE i = Len(g2)
    <3>1. b + Len(g) + 1 = b + i
      BY <1>1, <1>3, <2>1
    <3> QED
      BY <1>2, <1>3, <1>4, <2>1, <3>1
  <2>2. CASE i # Len(g2)
    BY <1>3, <2>2 DEF Marked
  <2> QED
    BY <2>1, <2>2
<1>6. Marked(w2, m, b + Len(g2))
  <2> SUFFICES ASSUME NEW i \in 1..(Len(w) - 1) PROVE w2[i] = <<m, b + Len(g2) + i>>
    BY <1>2 DEF Marked
  <2>1. i + 1 \in 1..Len(w) /\ b + Len(g) + (i + 1) = b + Len(g2) + i
    BY <1>1, <1>3
  <2>2. w2[i] = w[i + 1] /\ w[i + 1] = <<m, b + Len(g) + (i + 1)>>
    BY <1>2, <2>1 DEF Marked
  <2> QED
    BY <2>1, <2>2
<1> QED
  BY <1>1, <1>2, <1>3, <1>5, <1>6

(* The first n cells of a write enter the socket. *)
LEMMA FlushRun ==
    ASSUME NEW w \in Seq(Cell), NEW c \in Seq(Cell), NEW m, NEW b \in Nat, NEW n \in 0..Len(c),
           Marked(w, m, b), Marked(c, m, b + Len(w))
    PROVE  LET w2 == w \o SubSeq(c, 1, n)
               c2 == SubSeq(c, n + 1, Len(c))
           IN  /\ Marked(w2, m, b) /\ Marked(c2, m, b + Len(w2))
               /\ Len(w) \in Nat /\ Len(c) \in Nat /\ Len(w2) = Len(w) + n /\ Len(c2) = Len(c) - n
<1> PICK c1 : c1 = SubSeq(c, 1, n)
  OBVIOUS
<1> PICK w2, c2 : w2 = w \o c1 /\ c2 = SubSeq(c, n + 1, Len(c))
  OBVIOUS
<1>1. Len(w) \in Nat /\ Len(c) \in Nat
  BY LenProperties
<1>2. /\ c1 \in Seq(Cell) /\ Len(c1) = n /\ \A i \in 1..n : c1[i] = c[i]
  BY Cut
<1>3. c2 \in Seq(Cell) /\ Len(c2) = Len(c) - n /\ \A i \in 1..(Len(c) - n) : c2[i] = c[n + i]
  BY Cut
<1>4. /\ Len(w2) = Len(w) + Len(c1)
      /\ \A i \in 1..Len(w) : w2[i] = w[i]
      /\ \A i \in 1..Len(c1) : w2[Len(w) + i] = c1[i]
  BY <1>2, Glued
<1>5. Marked(c1, m, b + Len(w))
  <2>1. \A i \in 1..n : i \in 1..Len(c)
    BY <1>1
  <2> QED
    BY <1>2, <2>1 DEF Marked
<1>6. Marked(w2, m, b)
  <2>1. Len(c1) \in Nat /\ b \in Int /\ Marked(w, m, b)
    BY <1>1, <1>2
  <2> QED
    BY ONLY <1>1, <1>4, <1>5, <2>1, MarkedJoin
<1>7. Marked(c2, m, b + Len(w2))
  <2>1. Marked(c2, m, (b + Len(w)) + n)
    <3>1. b + Len(w) \in Int
      BY <1>1
    <3> QED
      BY <1>1, <1>3, <3>1, MarkedCut
  <2>2. (b + Len(w)) + n = b + Len(w2)
    <3>1. b \in Nat /\ Len(w) \in Nat /\ n \in Int /\ Len(w2) = Len(w) + n
      BY <1>1, <1>2, <1>4
    <3> QED
      BY ONLY <3>1
  <2> QED
    BY <2>1, <2>2
<1> QED
  BY <1>1, <1>2, <1>3, <1>4, <1>6, <1>7

(* What PeerReceive and Flush do to the run of cells towards q. *)
LEMMA ReceiveEffect ==
    ASSUME TypeOK, NEW q \in Peers, PeerReceive(q), NEW m, NEW b \in Nat, Contig(q, m, b)
    PROVE  /\ Contig(q, m, b)'
           /\ Len(got[q]) \in Nat /\ Len(out[q]) \in Nat
           /\ Len(got'[q]) = Len(got[q]) + 1 /\ Len(out'[q]) = Len(out[q]) - 1
<1> PICK g, w : g = got[q] /\ w = out[q]
  OBVIOUS
<1>1. g \in Seq(Cell) /\ w \in Seq(Cell) /\ w # <<>> /\ Marked(g, m, b) /\ Marked(w, m, b + Len(g))
  <2>1. out[q] # <<>>
    BY DEF PeerReceive
  <2> QED
    BY <2>1 DEF TypeOK, Contig
<1> PICK g2, w2 : g2 = Append(g, Head(w)) /\ w2 = Tail(w)
  OBVIOUS
<1>2. got'[q] = g2 /\ out'[q] = w2
  <2>1. got' = [got EXCEPT ![q] = g2] /\ out' = [out EXCEPT ![q] = w2]
    BY DEF PeerReceive
  <2> QED
    BY <2>1 DEF TypeOK
<1>3. /\ Marked(g2, m, b) /\ Marked(w2, m, b + Len(g2))
      /\ Len(g) \in Nat /\ Len(w) \in Nat /\ Len(g2) = Len(g) + 1 /\ Len(w2) = Len(w) - 1
  <2>1. g2 = Append(g, Head(w)) /\ w2 = Tail(w) /\ b \in Nat
    OBVIOUS
  <2> QED
    BY ONLY <1>1, <2>1, ReceiveRun
<1> QED
  BY <1>2, <1>3 DEF Contig

LEMMA ReceiveOther ==
    ASSUME TypeOK, NEW q \in Peers, PeerReceive(q)
    PROVE  /\ got'[Other(q)] = got[Other(q)] /\ out'[Other(q)] = out[Other(q)]
           /\ UNCHANGED <<plan, pc, in, parser, bio, eaten, buf, sent>>
           /\ \A p \in Peers : up[p] = "gone" => up'[p] = "gone"
<1>1. UNCHANGED <<plan, pc, in, parser, bio, eaten, buf, sent>>
  BY DEF PeerReceive, tls
<1>2. got'[Other(q)] = got[Other(q)] /\ out'[Other(q)] = out[Other(q)]
  <2>1. /\ \E g : got' = [got EXCEPT ![q] = g]
        /\ \E w : out' = [out EXCEPT ![q] = w]
    BY DEF PeerReceive
  <2> QED
    BY <2>1, OtherPeer DEF TypeOK
<1>3. \A p \in Peers : up[p] = "gone" => up'[p] = "gone"
  <2>1. up' \in {up, [up EXCEPT ![q] = "gone"]}
    BY DEF PeerReceive
  <2> QED
    BY <2>1 DEF TypeOK
<1> QED
  BY <1>1, <1>2, <1>3

(* Flush moves n cells of the write in progress into the socket of o; none if o is gone. *)
LEMMA FlushEffect ==
    ASSUME TypeOK, HeldInv, Flush, NEW o, o = buf.to, NEW m, NEW b \in Nat, Contig(o, m, b),
           up[o] # "gone" => Marked(Pend(o), m, b + Len(got[o]) + Len(out[o]))
    PROVE  /\ o \in Peers /\ Contig(o, m, b)'
           /\ up[o] # "gone" => /\ Marked(Pend(o), m, b + Len(got[o]) + Len(out[o]))'
                                /\ Len(out'[o]) + Len(Pend(o)') = Len(out[o]) + Len(Pend(o))
<1> PICK w, c : w = out[o] /\ c = buf.cells
  OBVIOUS
<1>1. o \in Peers /\ w \in Seq(Cell) /\ c \in Seq(Cell) /\ Len(w) \in Nat /\ Len(c) \in Nat
      /\ got[o] \in Seq(Cell) /\ Len(got[o]) \in Nat /\ pc = "write" /\ Pend(o) = c
      /\ buf.then # "write" /\ Marked(w, m, b + Len(got[o]))
  <2>1. pc = "write" /\ o \in Peers /\ c \in Seq(Cell) /\ Len(c) \in Nat
    BY FlushCases DEF Flush
  <2>2. w \in Seq(Cell) /\ Len(w) \in Nat /\ got[o] \in Seq(Cell) /\ Len(got[o]) \in Nat
    BY <2>1, LenProperties DEF TypeOK
  <2>3. buf.then # "write" /\ Pend(o) = c
    BY <2>1 DEF HeldInv, Pend, TlsReads
  <2> QED
    BY <2>1, <2>2, <2>3 DEF Contig
<1>2. UNCHANGED <<got, up>>
  BY FlushCases
<1>3. CASE up[o] = "gone" /\ UNCHANGED out
  BY <1>1, <1>2, <1>3 DEF Contig
<1>4. ASSUME NEW n \in 0..Len(c), NEW w2, w2 = w \o SubSeq(c, 1, n), NEW c2, c2 = SubSeq(c, n + 1, Len(c)),
             out' = [out EXCEPT ![o] = w2], Pend(o)' = c2, up[o] # "gone"
      PROVE  /\ Contig(o, m, b)' /\ Marked(Pend(o), m, b + Len(got[o]) + Len(out[o]))'
             /\ Len(out'[o]) + Len(Pend(o)') = Len(out[o]) + Len(Pend(o))
  <2>1. Marked(c, m, b + Len(got[o]) + Len(w))
    BY <1>1, <1>4
  <2>2. /\ Marked(w2, m, b + Len(got[o])) /\ Marked(c2, m, b + Len(got[o]) + Len(w2))
        /\ Len(w2) = Len(w) + n /\ Len(c2) = Len(c) - n
    <3> PICK d : d = b + Len(got[o])
      OBVIOUS
    <3>0. b \in Nat /\ Len(got[o]) \in Nat /\ d = b + Len(got[o])
      BY <1>1
    <3>a. d \in Nat
      BY ONLY <3>0
    <3>1. /\ w \in Seq(Cell) /\ c \in Seq(Cell) /\ d \in Nat /\ n \in 0..Len(c)
          /\ Marked(w, m, d) /\ Marked(c, m, d + Len(w))
          /\ w2 = w \o SubSeq(c, 1, n) /\ c2 = SubSeq(c, n + 1, Len(c))
      BY <1>1, <1>4, <2>1, <3>0, <3>a
    <3>2. Marked(w2, m, d) /\ Marked(c2, m, d + Len(w2)) /\ Len(w2) = Len(w) + n /\ Len(c2) = Len(c) - n
      BY ONLY <3>1, FlushRun
    <3> QED
      BY <3>2
  <2>3. out'[o] = w2
    BY <1>1, <1>4 DEF TypeOK
  <2>4. Len(w2) + Len(c2) = Len(w) + Len(c)
    <3>1. n \in Int /\ Len(w) \in Nat /\ Len(c) \in Nat
      BY <1>1
    <3> QED
      BY ONLY <2>2, <3>1
  <2>5. got'[o] = got[o]
    BY <1>2
  <2> QED
    BY <1>1, <1>4, <2>2, <2>3, <2>4, <2>5 DEF Contig
<1>5. CASE up[o] # "gone" /\ pc' = buf.then /\ out' = [out EXCEPT ![o] = @ \o c]
  <2>1. Len(c) \in 0..Len(c) /\ SubSeq(c, 1, Len(c)) = c
    BY <1>1, SubSeqFull
  <2>2. SubSeq(c, Len(c) + 1, Len(c)) = <<>>
    <3>1. SubSeq(c, Len(c) + 1, Len(c)) \in Seq(Cell) /\ Len(SubSeq(c, Len(c) + 1, Len(c))) = Len(c) - Len(c)
      BY <1>1, <2>1, Cut
    <3> QED
      BY <1>1, <3>1, EmptySeq
  <2>3. Pend(o)' = <<>>
    BY <1>1, <1>5 DEF Pend
  <2> QED
    BY <1>1, <1>4, <1>5, <2>1, <2>2, <2>3
<1>6. ASSUME NEW n \in 1..(Len(c) - 1), up[o] # "gone", pc' = "write",
             buf' = [buf EXCEPT !.cells = SubSeq(c, n + 1, Len(c))],
             out' = [out EXCEPT ![o] = @ \o SubSeq(c, 1, n)]
      PROVE  /\ Contig(o, m, b)' /\ Marked(Pend(o), m, b + Len(got[o]) + Len(out[o]))'
             /\ Len(out'[o]) + Len(Pend(o)') = Len(out[o]) + Len(Pend(o))
  <2>1. n \in 0..Len(c)
    BY <1>1
  <2>2. Pend(o)' = SubSeq(c, n + 1, Len(c))
    <3>1. buf'.to = buf.to /\ buf'.cells = SubSeq(c, n + 1, Len(c))
      BY <1>6 DEF TypeOK
    <3> QED
      BY <1>6, <3>1 DEF Pend
  <2> QED
    BY <1>4, <1>6, <2>1, <2>2
<1> QED
  BY <1>1, <1>3, <1>5, <1>6, FlushCases

-----------------------------------------------------------------------------
(* The tunnel *)

(***************************************************************************)
(* The stream of p: what a parser kept, what the other side received, what *)
(* is in its socket, what pass is writing to it and what is in p's socket  *)
(* are all that p sent, in this order.  Once the other side is gone its    *)
(* writes are dropped, and only the first three are still p's.             *)
(***************************************************************************)
RawStream(p) ==
    /\ Contig(Other(p), "raw", Len(parser[p]))
    /\ up[Other(p)] # "gone" =>
         /\ Marked(Pend(Other(p)), "raw", Len(parser[p]) + Len(got[Other(p)]) + Len(out[Other(p)]))
         /\ Len(parser[p]) + Len(got[Other(p)]) + Len(out[Other(p)]) + Len(Pend(Other(p))) + Len(in[p])
              = sent[p]

RawInv ==
    ~plan.decrypt =>
        /\ pc \notin TlsReads
        /\ pc = "write" => buf.then \in {"poll", "pass"}
        /\ \A p \in Peers : bio[p] = <<>> /\ eaten[p] = 0
        /\ pc \in Before => \A p \in Peers : got[p] = <<>> /\ out[p] = <<>>
        /\ \A p \in Peers : RawStream(p)

LEMMA RawLengths ==
    ASSUME TypeOK, NEW p \in Peers, NEW o, o = Other(p)
    PROVE  /\ o \in Peers /\ Len(parser[p]) \in Nat /\ Len(got[o]) \in Nat /\ Len(out[o]) \in Nat
           /\ Len(Pend(o)) \in Nat /\ Len(in[p]) \in Nat /\ sent[p] \in Nat
<1>1. o \in Peers
  BY OtherPeer
<1> QED
  BY <1>1, LenProperties DEF TypeOK, Pend

(* A stream that only p's socket saw a change of. *)
LEMMA RawSame ==
    ASSUME TypeOK, NEW p \in Peers, NEW o, o = Other(p), RawStream(p), parser'[p] = parser[p],
           got'[o] = got[o], out'[o] = out[o], Pend(o)' = Pend(o), up[o] = "gone" => up'[o] = "gone",
           NEW k \in Nat, Len(in'[p]) = Len(in[p]) + k, sent'[p] = sent[p] + k
    PROVE  RawStream(p)'
<1>1. Contig(o, "raw", Len(parser[p]))'
  BY DEF RawStream, Contig
<1>2. ASSUME up'[o] # "gone"
      PROVE  /\ Marked(Pend(o)', "raw", Len(parser'[p]) + Len(got'[o]) + Len(out'[o]))
             /\ Len(parser'[p]) + Len(got'[o]) + Len(out'[o]) + Len(Pend(o)') + Len(in'[p]) = sent'[p]
  <2> PICK b, x, y, z, l, t : /\ b = Len(parser[p]) /\ x = Len(got[o]) /\ y = Len(out[o])
                              /\ z = Len(Pend(o)) /\ l = Len(in[p]) /\ t = sent[p]
    OBVIOUS
  <2>1. Marked(Pend(o), "raw", b + x + y) /\ b + x + y + z + l = t
    BY <1>2 DEF RawStream
  <2>2. b \in Nat /\ x \in Nat /\ y \in Nat /\ z \in Nat /\ l \in Nat /\ k \in Nat
    BY RawLengths
  <2>3. b + x + y + z + (l + k) = t + k
    BY ONLY <2>1, <2>2
  <2> QED
    BY <2>1, <2>3
<1> QED
  BY <1>1, <1>2 DEF RawStream

(* A parser takes the first n cells of a stream that no one has received anything of. *)
LEMMA RawParsed ==
    ASSUME TypeOK, ParserInv, RawInv, ~plan.decrypt, NEW p \in Peers, Parses(p)
    PROVE  RawStream(p)'
<1> PICK o : o = Other(p)
  OBVIOUS
<1>1. PICK n \in 0..Len(in[p]) : Took(p, n) /\ parser' = [parser EXCEPT ![p] = SubSeq(in[p], 1, n)]
  BY DEF Parses
<1> PICK l, t : l = Len(in[p]) /\ t = sent[p]
  OBVIOUS
<1>2. UNCHANGED <<out, sent, got, up>> /\ pc \in Before /\ pc' \in Before /\ parser[p] = <<>>
  BY DEF Parses, Before, ParserInv
<1>3. o \in Peers /\ l \in Nat /\ t \in Nat /\ n \in 0..l /\ in[p] \in Seq(Nat)
  BY RawLengths DEF TypeOK
<1>4. Len(parser'[p]) = n /\ Len(in'[p]) = l - n
  <2>1. parser'[p] = SubSeq(in[p], 1, n)
    BY <1>1 DEF TypeOK
  <2>2. Len(SubSeq(in[p], 1, n)) = n /\ Len(in'[p]) = Len(in[p]) - n
    BY <1>1, TookType
  <2> QED
    BY <2>1, <2>2
<1>5. got[o] = <<>> /\ out[o] = <<>> /\ Pend(o) = <<>> /\ Pend(o)' = <<>>
  BY <1>2, <1>3 DEF RawInv, Pend, Before
<1>6. Len(<<>>) = 0 /\ \A m, b : Marked(<<>>, m, b)
  BY DEF Marked
<1>7. Contig(o, "raw", Len(parser[p]))'
  BY <1>2, <1>5, <1>6 DEF Contig
<1>8. up[o] # "gone" => l = t
  <2>1. up[o] # "gone" => 0 + 0 + 0 + 0 + l = t
    BY <1>2, <1>5, <1>6 DEF RawInv, RawStream
  <2> QED
    BY <1>3, <2>1
<1>9. n + 0 + 0 + 0 + (l - n) = l
  BY <1>3
<1>10. up'[o] # "gone" => Len(parser'[p]) + Len(got'[o]) + Len(out'[o]) + Len(Pend(o)') + Len(in'[p]) = sent'[p]
  BY <1>2, <1>4, <1>5, <1>6, <1>8, <1>9
<1>11. Marked(Pend(o), "raw", Len(parser[p]) + Len(got[o]) + Len(out[o]))'
  BY <1>5, <1>6
<1> QED
  BY <1>7, <1>10, <1>11 DEF RawStream

(* A step that leaves p's parser alone and reads nothing: what p sends stays in its socket. *)
LEMMA QuietIn ==
    ASSUME TypeOK, NEW p \in Peers,
           \/ Stays \/ Moves
           \/ \E q \in Peers : PeerSend(q) \/ (q # p /\ Parses(q))
    PROVE  /\ parser'[p] = parser[p]
           /\ \E k \in Nat : Len(in'[p]) = Len(in[p]) + k /\ sent'[p] = sent[p] + k
<1>0. Len(in[p]) \in Nat /\ sent[p] \in Nat
  BY LenProperties DEF TypeOK
<1>1. ASSUME Len(in'[p]) = Len(in[p]), sent'[p] = sent[p]
      PROVE  \E k \in Nat : Len(in'[p]) = Len(in[p]) + k /\ sent'[p] = sent[p] + k
  <2>1. 0 \in Nat /\ Len(in'[p]) = Len(in[p]) + 0 /\ sent'[p] = sent[p] + 0
    BY <1>0, <1>1
  <2> QED
    BY <2>1
<1>2. CASE Stays \/ Moves
  <2>1. UNCHANGED <<in, sent, parser>>
    BY <1>2 DEF Stays, Moves
  <2> QED
    BY <1>1, <2>1
<1>3. ASSUME NEW q \in Peers, PeerSend(q)
      PROVE  /\ parser'[p] = parser[p]
             /\ \E k \in Nat : Len(in'[p]) = Len(in[p]) + k /\ sent'[p] = sent[p] + k
  <2>1. UNCHANGED parser
    BY <1>3 DEF PeerSend
  <2>2. CASE q = p
    <3> PICK k : k = IF plan.decrypt THEN Parts ELSE 1
      OBVIOUS
    <3> QED
      BY <1>3, <2>1, <2>2, SendEffect
  <2>3. CASE q # p
    <3>1. p = Other(q)
      BY <2>3 DEF Other
    <3>2. in'[p] = in[p] /\ sent'[p] = sent[p]
      BY <1>3, <3>1, SendEffect
    <3> QED
      BY <1>1, <2>1, <3>2
  <2> QED
    BY <2>2, <2>3
<1>4. ASSUME NEW q \in Peers, q # p, Parses(q)
      PROVE  /\ parser'[p] = parser[p]
             /\ \E k \in Nat : Len(in'[p]) = Len(in[p]) + k /\ sent'[p] = sent[p] + k
  <2> PICK n \in 0..Len(in[q]) : Took(q, n) /\ parser' = [parser EXCEPT ![q] = SubSeq(in[q], 1, n)]
    BY <1>4 DEF Parses
  <2>1. sent' = sent /\ p = Other(q)
    BY <1>4 DEF Parses, Other
  <2>2. in'[p] = in[p]
    BY <2>1, TookType
  <2>3. parser'[p] = parser[p]
    BY <1>4 DEF TypeOK
  <2> QED
    BY <1>1, <2>1, <2>2, <2>3
<1> QED
  BY <1>2, <1>3, <1>4

(* The same when p's parser may have read, but has kept nothing. *)
LEMMA QuietEmpty ==
    ASSUME TypeOK, ParserInv, Stays \/ Moves \/ (\E q \in Peers : Parses(q) \/ PeerSend(q)),
           NEW p \in Peers, parser'[p] = <<>>
    PROVE  parser[p] = <<>> /\ \E k \in Nat : Len(in'[p]) = Len(in[p]) + k /\ sent'[p] = sent[p] + k
<1>1. CASE Parses(p)
  <2> PICK n \in 0..Len(in[p]) : Took(p, n) /\ parser' = [parser EXCEPT ![p] = SubSeq(in[p], 1, n)]
    BY <1>1 DEF Parses
  <2>1. Len(in[p]) \in Nat /\ sent[p] \in Nat /\ sent' = sent /\ parser[p] = <<>>
    BY <1>1, LenProperties DEF TypeOK, Parses, ParserInv, Before
  <2>2. SubSeq(in[p], 1, n) = <<>>
    BY DEF TypeOK
  <2>3. Len(SubSeq(in[p], 1, n)) = n /\ Len(in'[p]) = Len(in[p]) - n
    BY TookType
  <2>4. n = 0
    BY <2>2, <2>3
  <2>5. 0 \in Nat /\ Len(in'[p]) = Len(in[p]) + 0 /\ sent'[p] = sent[p] + 0
    BY <2>1, <2>3, <2>4
  <2> QED
    BY <2>1, <2>5
<1>2. CASE ~Parses(p)
  BY <1>2, QuietIn
<1> QED
  BY <1>1, <1>2

(* Steps of the tunnelled connection that move no cell towards a peer. *)
LEMMA RawQuiet ==
    ASSUME TypeOK, HeldInv, ParserInv, RawInv, ~plan.decrypt,
           Stays \/ Moves \/ \E p \in Peers : Parses(p) \/ PeerSend(p)
    PROVE  RawInv'
<1> USE DEF TlsReads
<1>1. /\ plan' = plan /\ pc \notin TlsReads
      /\ UNCHANGED <<bio, eaten, got, out, buf>>
      /\ \A p \in Peers : bio[p] = <<>> /\ eaten[p] = 0
      /\ pc = "write" => buf.then \in {"poll", "pass"}
      /\ \A p \in Peers : up[p] = "gone" => up'[p] = "gone"
      /\ pc \in Before => \A p \in Peers : got[p] = <<>> /\ out[p] = <<>>
  <2>1. plan' = plan /\ UNCHANGED <<bio, eaten, got, out, buf>>
    BY DEF Stays, Moves, Parses, PeerSend, tls
  <2>2. \A p \in Peers : up[p] = "gone" => up'[p] = "gone"
    BY DEF Stays, Moves, Parses, PeerSend
  <2> QED
    BY <2>1, <2>2 DEF RawInv
<1>2. pc' \notin TlsReads /\ (pc = "write" <=> pc' = "write") /\ (pc' \in Before => pc \in Before)
  BY <1>1 DEF Stays, Moves, Parses, PeerSend, Before
<1>3. \A o \in Peers : Pend(o)' = Pend(o)
  BY <1>1, <1>2 DEF Pend
<1>4. ASSUME NEW p \in Peers, ~Parses(p) PROVE RawStream(p)'
  <2> PICK o : o = Other(p)
    OBVIOUS
  <2>1. o \in Peers
    BY OtherPeer
  <2>2. RawStream(p)
    BY DEF RawInv
  <2>3. /\ parser'[p] = parser[p]
        /\ \E k \in Nat : Len(in'[p]) = Len(in[p]) + k /\ sent'[p] = sent[p] + k
    BY <1>4, QuietIn
  <2>4. PICK k \in Nat : Len(in'[p]) = Len(in[p]) + k /\ sent'[p] = sent[p] + k
    BY <2>3
  <2>5. got'[o] = got[o] /\ out'[o] = out[o] /\ Pend(o)' = Pend(o) /\ (up[o] = "gone" => up'[o] = "gone")
    BY <1>1, <1>3, <2>1
  <2> QED
    BY <2>2, <2>3, <2>4, <2>5, RawSame
<1>5. \A p \in Peers : RawStream(p)'
  BY <1>4, RawParsed
<1> QED
  BY <1>1, <1>2, <1>5 DEF RawInv

(* A peer receives a cell. *)
LEMMA RawReceive ==
    ASSUME TypeOK, RawInv, ~plan.decrypt, NEW q \in Peers, PeerReceive(q)
    PROVE  RawInv'
<1>1. /\ UNCHANGED <<plan, pc, in, parser, bio, eaten, buf, sent>>
      /\ \A p \in Peers : up[p] = "gone" => up'[p] = "gone"
      /\ got'[Other(q)] = got[Other(q)] /\ out'[Other(q)] = out[Other(q)]
  BY ReceiveOther
<1>2. \A o \in Peers : Pend(o)' = Pend(o)
  BY <1>1 DEF Pend
<1>3. ASSUME NEW p \in Peers PROVE RawStream(p)'
  <2> PICK o, b : o = Other(p) /\ b = Len(parser[p])
    OBVIOUS
  <2>1. o \in Peers /\ RawStream(p) /\ Len(in[p]) \in Nat /\ sent[p] \in Nat /\ b \in Nat /\ b = Len(parser'[p])
    BY <1>1, RawLengths DEF RawInv
  <2>2. CASE o = q
    <3> PICK x, y : x = Len(got[o]) /\ y = Len(out[o])
      OBVIOUS
    <3>1. Contig(q, "raw", b)
      BY <2>1, <2>2 DEF RawStream
    <3>2. Contig(o, "raw", b)' /\ Len(got'[o]) = x + 1 /\ Len(out'[o]) = y - 1 /\ x \in Nat /\ y \in Nat
      BY <2>1, <2>2, <3>1, ReceiveEffect
    <3>3. b + (x + 1) + (y - 1) = b + x + y
      <4>1. b \in Nat /\ x \in Nat /\ y \in Nat
        BY <2>1, <3>2
      <4> QED
        BY ONLY <4>1
    <3>4. /\ up[o] # "gone" => /\ Marked(Pend(o), "raw", b + x + y)
                               /\ b + x + y + Len(Pend(o)) + Len(in[p]) = sent[p]
          /\ up'[o] # "gone" => up[o] # "gone"
      BY <1>1, <2>1 DEF RawStream
    <3>5. Contig(o, "raw", Len(parser[p]))'
      BY <2>1, <3>2 DEF Contig
    <3>6. up'[o] # "gone" =>
             /\ Marked(Pend(o), "raw", Len(parser[p]) + Len(got[o]) + Len(out[o]))'
             /\ Len(parser'[p]) + Len(got'[o]) + Len(out'[o]) + Len(Pend(o)') + Len(in'[p]) = sent'[p]
      BY <1>1, <1>2, <2>1, <3>2, <3>3, <3>4
    <3> QED
      BY <3>5, <3>6 DEF RawStream
  <2>3. CASE o # q
    <3>1. o = Other(q)
      BY <2>1, <2>3 DEF Other
    <3>2. 0 \in Nat /\ Len(in'[p]) = Len(in[p]) + 0 /\ sent'[p] = sent[p] + 0
      BY <1>1, <2>1
    <3> QED
      BY <1>1, <1>2, <2>1, <3>1, <3>2, RawSame
  <2> QED
    BY <2>2, <2>3
<1>4. pc \notin Before
  <2>1. out[q] # <<>>
    BY DEF PeerReceive
  <2> QED
    BY <2>1 DEF RawInv
<1> QED
  BY <1>1, <1>3, <1>4 DEF RawInv

(* pass reads n cells from q and starts to write them to the other side. *)
LEMMA RawRelay ==
    ASSUME TypeOK, InInv, RawInv, ~plan.decrypt, NEW q \in Peers, Relays(q)
    PROVE  RawInv'
<1>1. /\ UNCHANGED <<plan, out, parser, bio, eaten, sent, got, up>> /\ pc = "pass" /\ pc' = "write"
  BY DEF Relays
<1>2. PICK n \in 1..Len(in[q]), then \in {"poll", "pass"} :
         /\ Took(q, n)
         /\ buf' = [to |-> Other(q), cells |-> [i \in 1..n |-> <<"raw", in[q][i]>>], then |-> then]
  BY DEF Relays
<1> PICK cells : cells = [i \in 1..n |-> <<"raw", in[q][i]>>]
  OBVIOUS
<1>3. /\ in[q] \in Seq(Nat) /\ Len(in[q]) \in Nat /\ n \in 0..Len(in[q]) /\ n \in Nat
      /\ Len(in'[q]) = Len(in[q]) - n /\ in'[Other(q)] = in[Other(q)]
  <2>1. in[q] \in Seq(Nat) /\ Len(in[q]) \in Nat
    BY LenProperties DEF TypeOK
  <2>2. n \in 0..Len(in[q]) /\ n \in Nat
    BY <2>1
  <2> QED
    BY <1>2, <2>1, <2>2, TookType
<1>4. buf'.to = Other(q) /\ buf'.cells = cells /\ buf'.then \in {"poll", "pass"}
  BY <1>2
<1>5. /\ \A o \in Peers : Pend(o) = <<>>
      /\ Pend(Other(q))' = cells /\ Pend(q)' = <<>>
  BY <1>1, <1>4, OtherPeer DEF Pend
<1>6. Len(cells) = n /\ \A i \in 1..n : cells[i] = <<"raw", in[q][i]>>
  <2>1. cells \in [1..n -> Cell]
    <3>1. \A i \in 1..n : in[q][i] \in Nat
      BY <1>3, ElementOfSeq
    <3> QED
      BY <3>1 DEF Cell
  <2>2. Len(cells) = n
    BY <1>3, <2>1, Listed
  <2> QED
    BY <2>2
<1>7. RawStream(q)'
  <2> PICK o : o = Other(q)
    OBVIOUS
  <2> PICK b, x, y, l, t : /\ b = Len(parser[q]) /\ x = Len(got[o]) /\ y = Len(out[o])
                           /\ l = Len(in[q]) /\ t = sent[q]
    OBVIOUS
  <2>1. o \in Peers /\ b \in Nat /\ x \in Nat /\ y \in Nat /\ l \in Nat /\ t \in Nat
    BY RawLengths
  <2>2. RawStream(q)
    BY DEF RawInv
  <2>3. Contig(o, "raw", Len(parser[q]))'
    BY <1>1, <2>2 DEF RawStream, Contig
  <2>4. ASSUME up[o] # "gone" PROVE Marked(cells, "raw", b + x + y) /\ b + x + y + Len(cells) + Len(in'[q]) = t
    <3>1. b + x + y + 0 + l = t
      <4>1. b + x + y + Len(Pend(o)) + l = t
        BY <2>2, <2>4 DEF RawStream
      <4>2. Pend(o) = <<>> /\ Len(<<>>) = 0
        BY <1>5, <2>1
      <4> QED
        BY <4>1, <4>2
    <3>2. b + x + y = t - l
      BY ONLY <2>1, <3>1
    <3>3. Numbered(in[q], b + x + y)
      BY <3>2 DEF InInv
    <3>4. \A i \in 1..n : in[q][i] = b + x + y + i
      <4>1. \A i \in 1..n : i \in 1..Len(in[q])
        BY <1>3
      <4> QED
        BY <3>3, <4>1 DEF Numbered
    <3>5. Marked(cells, "raw", b + x + y)
      BY <1>6, <3>4 DEF Marked
    <3>6. Len(cells) = n /\ Len(in'[q]) = l - n /\ n \in Nat
      BY <1>3, <1>6
    <3>7. b + x + y + Len(cells) + Len(in'[q]) = t
      BY ONLY <2>1, <3>1, <3>6
    <3> QED
      BY <3>5, <3>7
  <2>5. up'[o] # "gone" =>
           /\ Marked(Pend(o), "raw", Len(parser[q]) + Len(got[o]) + Len(out[o]))'
           /\ Len(parser'[q]) + Len(got'[o]) + Len(out'[o]) + Len(Pend(o)') + Len(in'[q]) = sent'[q]
    BY <1>1, <1>5, <2>4
  <2> QED
    BY <2>3, <2>5 DEF RawStream
<1>8. ASSUME NEW p \in Peers, p # q PROVE RawStream(p)'
  <2>1. p = Other(q) /\ Other(p) = q
    BY <1>8 DEF Other
  <2>2. RawStream(p) /\ Len(in[p]) \in Nat /\ sent[p] \in Nat
    BY <1>8, LenProperties DEF RawInv, TypeOK
  <2>3. 0 \in Nat /\ Len(in'[p]) = Len(in[p]) + 0 /\ sent'[p] = sent[p] + 0
    BY <1>1, <1>3, <2>1, <2>2
  <2>4. Pend(q)' = Pend(q) /\ got'[q] = got[q] /\ out'[q] = out[q] /\ up'[q] = up[q] /\ parser'[p] = parser[p]
    BY <1>1, <1>5
  <2> QED
    BY <2>1, <2>2, <2>3, <2>4, RawSame
<1>9. \A p \in Peers : RawStream(p)'
  BY <1>7, <1>8
<1>10. /\ pc' \notin TlsReads \cup Before /\ buf'.then \in {"poll", "pass"}
       /\ \A p \in Peers : bio'[p] = <<>> /\ eaten'[p] = 0
  BY <1>1, <1>4 DEF RawInv, TlsReads, Before
<1> QED
  BY <1>9, <1>10 DEF RawInv

(* A write goes on. *)
LEMMA RawFlush ==
    ASSUME TypeOK, HeldInv, RawInv, ~plan.decrypt, Flush
    PROVE  RawInv'
<1> PICK o : o = buf.to
  OBVIOUS
<1>1. /\ UNCHANGED <<plan, in, parser, bio, eaten, sent, got, up>>
      /\ o \in Peers /\ pc' \in {"write", "closed", buf.then} /\ pc = "write"
      /\ pc' = "write" => buf'.to = o /\ buf'.then = buf.then
      /\ out'[Other(o)] = out[Other(o)]
      /\ buf.then \in {"poll", "pass"}
  <2>1. UNCHANGED <<plan, in, parser, bio, eaten, sent, got, up>> /\ o \in Peers
    BY FlushCases
  <2>2. pc = "write" /\ buf.then \in {"poll", "pass"}
    BY DEF Flush, RawInv
  <2>3. /\ pc' \in {"write", "closed", buf.then}
        /\ pc' = "write" => \E c : buf' = [buf EXCEPT !.cells = c]
        /\ \E w : out' = [out EXCEPT ![o] = w]
    <3>1. UNCHANGED out => out' = [out EXCEPT ![o] = out[o]]
      BY DEF TypeOK
    <3> QED
      BY <2>2, <3>1, FlushCases
  <2>4. pc' = "write" => buf'.to = o /\ buf'.then = buf.then
    BY <2>3 DEF TypeOK
  <2>5. out'[Other(o)] = out[Other(o)]
    BY <2>1, <2>3, OtherPeer DEF TypeOK
  <2> QED
    BY <2>1, <2>2, <2>3, <2>4, <2>5
<1>2. ASSUME NEW p \in Peers PROVE RawStream(p)'
  <2>1. RawStream(p) /\ Len(in[p]) \in Nat /\ sent[p] \in Nat /\ Len(parser[p]) \in Nat
    BY RawLengths DEF RawInv
  <2>2. CASE Other(p) = o
    <3> PICK b, x, y, z : b = Len(parser[p]) /\ x = Len(got[o]) /\ y = Len(out[o]) /\ z = Len(Pend(o))
      OBVIOUS
    <3>0. b \in Nat /\ b = Len(parser'[p])
      BY <1>1, <2>1
    <3>1. Contig(o, "raw", b) /\ (up[o] # "gone" => Marked(Pend(o), "raw", b + Len(got[o]) + Len(out[o])))
      BY <2>1, <2>2 DEF RawStream
    <3>2. /\ Contig(o, "raw", b)'
          /\ up[o] # "gone" => /\ Marked(Pend(o), "raw", b + Len(got[o]) + Len(out[o]))'
                               /\ Len(out'[o]) + Len(Pend(o)') = y + z
      BY <3>0, <3>1, FlushEffect
    <3>3. x \in Nat /\ y \in Nat /\ z \in Nat /\ Len(out'[o]) \in Nat /\ Len(Pend(o)') \in Nat /\ Len(in[p]) \in Nat
      <4>1. TypeOK' /\ HeldInv'
        BY FlushType
      <4>2. x \in Nat /\ y \in Nat /\ z \in Nat
        BY <1>1, LenProperties DEF TypeOK, Pend
      <4>3. Len(out'[o]) \in Nat /\ Len(Pend(o)') \in Nat
        BY <1>1, <4>1, LenProperties DEF TypeOK, Pend
      <4> QED
        BY <2>1, <4>2, <4>3
    <3>4. ASSUME up[o] # "gone"
          PROVE  Len(parser'[p]) + Len(got'[o]) + Len(out'[o]) + Len(Pend(o)') + Len(in'[p]) = sent'[p]
      <4> PICK u, v, l, t : u = Len(out'[o]) /\ v = Len(Pend(o)') /\ l = Len(in[p]) /\ t = sent[p]
        OBVIOUS
      <4>1. b + x + y + z + l = t
        BY <2>1, <2>2, <3>4 DEF RawStream
      <4>2. u + v = y + z /\ b \in Nat /\ x \in Nat /\ y \in Nat /\ z \in Nat /\ u \in Nat /\ v \in Nat /\ l \in Nat
        BY <3>0, <3>2, <3>3, <3>4
      <4>3. b + x + u + v + l = t
        BY ONLY <4>1, <4>2
      <4> QED
        BY <1>1, <3>0, <4>3
    <3>5. Contig(o, "raw", Len(parser[p]))'
      BY <3>0, <3>2 DEF Contig
    <3>6. up'[o] # "gone" => Marked(Pend(o), "raw", Len(parser[p]) + Len(got[o]) + Len(out[o]))'
      BY <1>1, <3>0, <3>2
    <3> QED
      BY <1>1, <2>2, <3>4, <3>5, <3>6 DEF RawStream
  <2>3. CASE Other(p) # o
    <3>1. Other(p) = Other(o)
      BY <1>1, <2>3 DEF Other
    <3>2. Pend(Other(p)) = <<>> /\ Pend(Other(p))' = <<>>
      BY <1>1, <2>3 DEF Pend
    <3>3. 0 \in Nat /\ Len(in'[p]) = Len(in[p]) + 0 /\ sent'[p] = sent[p] + 0
      BY <1>1, <2>1
    <3> QED
      BY <1>1, <2>1, <3>1, <3>2, <3>3, RawSame
  <2> QED
    BY <2>2, <2>3
<1>3. /\ pc' \notin TlsReads \cup Before /\ (pc' = "write" => buf'.then \in {"poll", "pass"})
      /\ \A p \in Peers : bio'[p] = <<>> /\ eaten'[p] = 0
  BY <1>1 DEF RawInv, TlsReads, Before
<1> QED
  BY <1>1, <1>2, <1>3 DEF RawInv

LEMMA RawStep ==
    ASSUME TypeOK, HeldInv, InInv, ParserInv, RawInv, [Next]_vars
    PROVE  RawInv'
<1>1. CASE plan.decrypt
  <2>1. plan' = plan
    <3>1. CASE EngineReads \/ EngineHolds
      BY <3>1 DEF EngineReads, EngineHolds
    <3>2. CASE Flush
      BY <3>2 DEF Flush
    <3>3. ASSUME NEW p \in Peers, Parses(p) \/ Relays(p) \/ PeerSend(p) \/ PeerReceive(p) PROVE plan' = plan
      BY <3>3 DEF Parses, Relays, PeerSend, PeerReceive
    <3> QED
      BY <3>1, <3>2, <3>3, StreamKinds DEF Stays, Moves, Begins
  <2> QED
    BY <1>1, <2>1 DEF RawInv
<1>2. CASE ~plan.decrypt
  <2>1. ~(EngineReads \/ EngineHolds)
    BY <1>2 DEF RawInv, EngineReads, EngineHolds, RecordHeld, TlsReads
  <2>2. ~Begins
    BY <1>2 DEF Begins
  <2> QED
    BY <1>2, <2>1, <2>2, StreamKinds, RawQuiet, RawReceive, RawRelay, RawFlush
<1> QED
  BY <1>1, <1>2

-----------------------------------------------------------------------------
(* The decrypted connection *)

(* Where the coroutine is, or goes on after its write. *)
at == IF pc = "write" THEN buf.then ELSE pc

(***************************************************************************)
(* How far the two handshakes and the exchange of messages are: k[p] is    *)
(* the number of p's flights that were decrypted, w[o] the number of       *)
(* flights that were written, or are being written, to o.                  *)
(***************************************************************************)
Stage(k, w) ==
    \/ at \in Before /\ k["svr"] = 0 /\ k["clt"] = 0 /\ w["svr"] = 0 /\ w["clt"] = 0
    \/ at = "svr_hello" /\ k["svr"] = 0 /\ k["clt"] = 0 /\ w["svr"] = 1 /\ w["clt"] = 0
    \/ at = "svr_done" /\ k["svr"] = 1 /\ k["clt"] = 0 /\ w["svr"] = 2 /\ w["clt"] = 0
    \/ at = "clt_hello" /\ k["svr"] = 2 /\ k["clt"] = 0 /\ w["svr"] = 2 /\ w["clt"] = 0
    \/ at = "clt_done" /\ k["svr"] = 2 /\ k["clt"] = 1 /\ w["svr"] = 2 /\ w["clt"] = 1
    \/ at \in {"request", "closed"} /\ k["clt"] = k["svr"] /\ w["svr"] = k["clt"] /\ w["clt"] = k["svr"]
    \/ at = "response" /\ k["clt"] = k["svr"] + 1 /\ w["svr"] = k["clt"] /\ w["clt"] = k["svr"]

Flow(k, w) ==
    /\ \A p \in Peers : eaten[p] = Parts * k[p]
    /\ Stage(k, w)
    /\ \A o \in Peers : /\ Len(got[o]) + Len(out[o]) <= w[o]
                        /\ up[o] # "gone" => Len(got[o]) + Len(out[o]) + Len(Pend(o)) = w[o]
    /\ pc = "write" => buf.cells = <<<<"tls", w[buf.to]>>>>

(***************************************************************************)
(* What a peer sent beyond its first flight it sent in answer to what it   *)
(* received.  That is what makes the reset of bio_in harmless: when it     *)
(* happens the peer cannot have sent more than the flight it is taken      *)
(* after.                                                                  *)
(***************************************************************************)
SentInv ==
    /\ sent["svr"] \in {0, Parts} \/ Len(got["svr"]) >= 2
    /\ sent["clt"] \in {0, Parts} \/ Len(got["clt"]) >= 1

(* The stream of p behind its TLS engine, when no parser kept a part of it. *)
TlsStream(p) ==
    /\ Numbered(bio[p], eaten[p])
    /\ pc \notin {"closed", "freed"} => sent[p] = eaten[p] + Len(bio[p]) + Len(in[p])

TlsInv ==
    plan.decrypt /\ ~plan.upgrade =>
        /\ pc \notin {"poll", "pass"}
        /\ \A o \in Peers : Contig(o, "tls", 0)
        /\ SentInv
        /\ pc \notin {"closed", "freed"} => \E k, w \in [Peers -> Nat] : Flow(k, w)
        /\ \A p \in Peers : parser[p] = <<>> => TlsStream(p)

(* Steps that move no cell towards a peer and take none into an engine. *)
LEMMA TlsQuiet ==
    ASSUME TypeOK, HeldInv, ParserInv, TlsInv, plan.decrypt, ~plan.upgrade,
           Stays \/ Moves \/ \E p \in Peers : Parses(p) \/ PeerSend(p)
    PROVE  TlsInv'
<1>1. /\ plan' = plan /\ UNCHANGED <<bio, eaten, got, out, buf>> /\ pc \notin {"poll", "pass"}
      /\ \A p \in Peers : up[p] = "gone" => up'[p] = "gone"
  <2>1. plan' = plan /\ UNCHANGED <<bio, eaten, got, out, buf>>
    BY DEF Stays, Moves, Parses, PeerSend, tls
  <2>2. \A p \in Peers : up[p] = "gone" => up'[p] = "gone"
    BY DEF Stays, Moves, Parses, PeerSend
  <2> QED
    BY <2>1, <2>2 DEF TlsInv
<1>2. /\ pc' \notin {"poll", "pass"} /\ (pc = "write" <=> pc' = "write")
      /\ pc' \notin {"closed", "freed"} => /\ pc \notin {"closed", "freed"}
                                           /\ pc' = pc \/ (pc \in Before /\ pc' \in Before)
  BY <1>1 DEF Stays, Moves, Parses, PeerSend, Before
<1>3. \A o \in Peers : Pend(o)' = Pend(o)
  BY <1>1, <1>2 DEF Pend
<1>4. \A o \in Peers : Contig(o, "tls", 0)'
  BY <1>1 DEF TlsInv, Contig
<1>5. ASSUME pc' \notin {"closed", "freed"} PROVE \E k, w \in [Peers -> Nat] : Flow(k, w)'
  <2>1. PICK k \in [Peers -> Nat], w \in [Peers -> Nat] : Flow(k, w)
    BY <1>2, <1>5 DEF TlsInv
  <2>2. at' = at \/ (at \in Before /\ at' \in Before)
    BY <1>1, <1>2, <1>5 DEF at, Before
  <2>3. Stage(k, w)'
    <3>1. Stage(k, w)
      BY <2>1 DEF Flow
    <3>2. CASE at' = at
      BY <3>1, <3>2 DEF Stage
    <3>3. CASE at \in Before /\ at' \in Before
      BY <3>1, <3>3 DEF Stage, Before
    <3> QED
      BY <2>2, <3>2, <3>3
  <2>4. Flow(k, w)'
    BY <1>1, <1>2, <1>3, <2>1, <2>3 DEF Flow
  <2> QED
    BY <2>4
<1>6. ASSUME NEW p \in Peers, parser'[p] = <<>> PROVE TlsStream(p)'
  <2>1. PICK j \in Nat : parser[p] = <<>> /\ Len(in'[p]) = Len(in[p]) + j /\ sent'[p] = sent[p] + j
    BY <1>6, QuietEmpty
  <2>2. TlsStream(p)
    BY <2>1 DEF TlsInv
  <2> PICK e, b, l : e = eaten[p] /\ b = Len(bio[p]) /\ l = Len(in[p])
    OBVIOUS
  <2>3. e \in Nat /\ b \in Nat /\ l \in Nat /\ j \in Nat
    BY LenProperties DEF TypeOK
  <2>4. e + b + l + j = e + b + (l + j)
    BY ONLY <2>3
  <2> QED
    BY <1>1, <1>2, <2>1, <2>2, <2>4 DEF TlsStream
<1>7. SentInv'
  <2>1. SentInv
    BY DEF TlsInv
  <2>2. ASSUME UNCHANGED sent PROVE SentInv'
    BY <1>1, <2>1, <2>2 DEF SentInv
  <2>3. ASSUME NEW p \in Peers, PeerSend(p) PROVE SentInv'
    <3> PICK f : f = sent[p] \div Parts + 1
      OBVIOUS
    <3>1. f <= Flights /\ MaySend(p, f)
      BY <2>3 DEF PeerSend
    <3>2. sent'[p] = sent[p] + Parts /\ sent'[Other(p)] = sent[Other(p)]
      BY <2>3, SendEffect
    <3>3. sent[p] = 0 => f = 1 /\ sent'[p] = Parts
      BY <3>2, FlightArith
    <3>4. sent[p] = Parts => f = 2
      BY FlightArith
    <3>5. CASE p = "svr"
      <4>1. Len(got["svr"]) >= f
        BY <3>1, <3>5 DEF MaySend
      <4> QED
        BY <1>1, <2>1, <3>2, <3>3, <3>4, <3>5, <4>1, OtherPeer DEF SentInv
    <3>6. CASE p = "clt"
      <4>1. f = 2 => Len(got["clt"]) >= 1
        BY <3>1, <3>6 DEF MaySend
      <4> QED
        BY <1>1, <2>1, <3>2, <3>3, <3>4, <3>6, <4>1, OtherPeer DEF SentInv
    <3> QED
      BY <3>5, <3>6
  <2> QED
    BY <2>2, <2>3 DEF Stays, Moves, Parses
<1> QED
  BY <1>1, <1>2, <1>4, <1>5, <1>6, <1>7 DEF TlsInv

(* The proxy's next flight towards o is written: one more than before. *)
LEMMA TlsAnswer ==
    ASSUME TypeOK, NEW k \in [Peers -> Nat], NEW w \in [Peers -> Nat], Flow(k, w), pc # "write",
           NEW o \in Peers, NEW f, f = w[o] + 1, NEW then, Answer(o, f, then),
           UNCHANGED <<got, out, up>>,
           NEW j \in [Peers -> Nat], NEW v \in [Peers -> Nat], v = [w EXCEPT ![o] = f],
           \A p \in Peers : eaten'[p] = Parts * j[p],
           at' = then => Stage(j, v)'
    PROVE  Flow(j, v)'
<1>1. buf' = [to |-> o, cells |-> <<<<"tls", f>>>>, then |-> then] /\ pc' = "write"
  BY DEF Answer
<1>2. at' = then /\ buf'.to = o /\ buf'.cells = <<<<"tls", f>>>>
  BY <1>1 DEF at
<1>3. v[o] = f /\ \A q \in Peers : q # o => v[q] = w[q]
  OBVIOUS
<1>4. \A q \in Peers : Pend(q) = <<>> /\ Pend(q)' = IF q = o THEN <<<<"tls", f>>>> ELSE <<>>
  BY <1>1, <1>2 DEF Pend
<1>5. ASSUME NEW q \in Peers
      PROVE  /\ Len(got'[q]) + Len(out'[q]) <= v[q]
             /\ up'[q] # "gone" => Len(got'[q]) + Len(out'[q]) + Len(Pend(q)') = v[q]
  <2> PICK x, y, z : x = Len(got[q]) /\ y = Len(out[q]) /\ z = w[q]
    OBVIOUS
  <2>1. x \in Nat /\ y \in Nat /\ z \in Nat
    BY LenProperties DEF TypeOK
  <2>2. x + y <= z /\ (up[q] # "gone" => x + y + 0 = z)
    <3>1. Len(Pend(q)) = 0
      BY <1>4
    <3> QED
      BY <3>1 DEF Flow
  <2>3. CASE q = o
    <3>1. Len(Pend(q)') = 1 /\ v[q] = z + 1
      BY <1>3, <1>4, <2>3
    <3>2. x + y <= z + 1 /\ (x + y + 0 = z => x + y + 1 = z + 1)
      BY ONLY <2>1, <2>2
    <3> QED
      BY <2>2, <3>1, <3>2
  <2>4. CASE q # o
    <3>1. Len(Pend(q)') = 0 /\ v[q] = z
      BY <1>3, <1>4, <2>4
    <3> QED
      BY <2>2, <3>1
  <2> QED
    BY <2>3, <2>4
<1> QED
  BY <1>2, <1>3, <1>5 DEF Flow

(* The handshake with the server begins. *)
LEMMA TlsBegin ==
    ASSUME TypeOK, TlsInv, plan.decrypt, ~plan.upgrade, Begins
    PROVE  TlsInv'
<1>1. /\ UNCHANGED <<plan, in, out, parser, bio, eaten, sent, got, up>>
      /\ pc = "established" /\ pc' = "write" /\ Answer("svr", 1, "svr_hello")
  BY DEF Begins, Answer
<1>2. PICK k \in [Peers -> Nat], w \in [Peers -> Nat] : Flow(k, w)
  BY <1>1 DEF TlsInv
<1>3. at = "established" /\ Stage(k, w)
  BY <1>1, <1>2 DEF at, Flow
<1>4. k["svr"] = 0 /\ k["clt"] = 0 /\ w["svr"] = 0 /\ w["clt"] = 0
  BY <1>3 DEF Stage
<1> PICK v : v = [w EXCEPT !["svr"] = 1]
  OBVIOUS
<1>5. v \in [Peers -> Nat] /\ v["svr"] = 1 /\ v["clt"] = 0
  BY <1>4
<1>6. at' = "svr_hello" => Stage(k, v)'
  BY <1>4, <1>5 DEF Stage
<1>7. \A p \in Peers : eaten'[p] = Parts * k[p]
  BY <1>1, <1>2 DEF Flow
<1>8. Flow(k, v)'
  <2>1. pc # "write" /\ "svr" \in Peers /\ 1 = w["svr"] + 1 /\ UNCHANGED <<got, out, up>>
    BY <1>1, <1>4
  <2> QED
    BY <1>1, <1>2, <1>5, <1>6, <1>7, <2>1, TlsAnswer
<1>9. /\ \A o \in Peers : Contig(o, "tls", 0)'
      /\ SentInv'
      /\ \A p \in Peers : parser'[p] = <<>> => TlsStream(p)'
  BY <1>1 DEF TlsInv, Contig, SentInv, TlsStream
<1> QED
  BY <1>1, <1>5, <1>8, <1>9 DEF TlsInv

LEMMA TlsReceive ==
    ASSUME TypeOK, TlsInv, plan.decrypt, ~plan.upgrade, NEW q \in Peers, PeerReceive(q)
    PROVE  TlsInv'
<1>1. /\ UNCHANGED <<plan, pc, in, parser, bio, eaten, buf, sent>>
      /\ \A p \in Peers : up[p] = "gone" => up'[p] = "gone"
      /\ got'[Other(q)] = got[Other(q)] /\ out'[Other(q)] = out[Other(q)]
  BY ReceiveOther
<1>2. \A o \in Peers : Pend(o)' = Pend(o)
  BY <1>1 DEF Pend
<1>3. /\ Contig(q, "tls", 0)' /\ Len(got[q]) \in Nat /\ Len(out[q]) \in Nat
      /\ Len(got'[q]) = Len(got[q]) + 1 /\ Len(out'[q]) = Len(out[q]) - 1
  BY ReceiveEffect DEF TlsInv
<1>4. \A o \in Peers : o = q \/ o = Other(q)
  BY DEF Other
<1>5. \A o \in Peers : Len(got'[o]) + Len(out'[o]) = Len(got[o]) + Len(out[o])
  <2> PICK x, y : x = Len(got[q]) /\ y = Len(out[q])
    OBVIOUS
  <2>1. x \in Nat /\ y \in Nat
    BY <1>3
  <2>2. (x + 1) + (y - 1) = x + y
    BY ONLY <2>1
  <2> QED
    BY <1>1, <1>3, <1>4, <2>2
<1>6. \A o \in Peers : Contig(o, "tls", 0)'
  <2>1. Contig(Other(q), "tls", 0)'
    BY <1>1, OtherPeer DEF TlsInv, Contig
  <2> QED
    BY <1>3, <1>4, <2>1
<1>7. ASSUME pc \notin {"closed", "freed"} PROVE \E k, w \in [Peers -> Nat] : Flow(k, w)'
  <2>1. PICK k \in [Peers -> Nat], w \in [Peers -> Nat] : Flow(k, w)
    BY <1>7 DEF TlsInv
  <2>2. Stage(k, w)'
    <3>1. Stage(k, w) /\ at' = at
      BY <1>1, <2>1 DEF Flow, at
    <3> QED
      BY <3>1 DEF Stage
  <2>3. Flow(k, w)'
    BY <1>1, <1>2, <1>5, <2>1, <2>2 DEF Flow
  <2> QED
    BY <2>3
<1>8. SentInv'
  <2>1. \A o \in Peers : Len(got[o]) \in Nat /\ Len(got'[o]) \in {Len(got[o]), Len(got[o]) + 1}
    <3>1. \A o \in Peers : Len(got[o]) \in Nat
      BY LenProperties DEF TypeOK
    <3> QED
      BY <1>1, <1>3, <1>4, <3>1
  <2> QED
    BY <1>1, <2>1 DEF TlsInv, SentInv
<1>9. \A p \in Peers : parser'[p] = <<>> => TlsStream(p)'
  BY <1>1 DEF TlsInv, TlsStream
<1> QED
  BY <1>1, <1>6, <1>7, <1>8, <1>9 DEF TlsInv

(* A flight is one cell here: a write is done in one step, or is dropped. *)
LEMMA TlsFlush ==
    ASSUME TypeOK, HeldInv, TlsInv, plan.decrypt, ~plan.upgrade, Flush
    PROVE  TlsInv'
<1> PICK o : o = buf.to
  OBVIOUS
<1>1. /\ UNCHANGED <<plan, in, parser, bio, eaten, sent, got, up>> /\ o \in Peers /\ pc = "write"
  BY FlushCases DEF Flush
<1>2. PICK k \in [Peers -> Nat], w \in [Peers -> Nat] : Flow(k, w)
  BY <1>1 DEF TlsInv
<1>3. buf.cells = <<<<"tls", w[o]>>>> /\ Stage(k, w) /\ at = buf.then /\ Pend(o) = buf.cells
  BY <1>1, <1>2 DEF Flow, at, Pend
<1>4. Len(buf.cells) = 1 /\ buf.cells[1] = <<"tls", w[o]>>
  BY <1>3
<1>5. /\ pc' \in {"closed", buf.then} /\ pc' # "write" /\ \E c : out' = [out EXCEPT ![o] = c]
  <2>1. UNCHANGED out => out' = [out EXCEPT ![o] = out[o]]
    BY DEF TypeOK
  <2>2. ~\E n \in 1..(Len(buf.cells) - 1) : TRUE
    BY <1>4
  <2>3. buf.then # "write"
    BY <1>1 DEF HeldInv, TlsReads
  <2> QED
    BY <2>1, <2>2, <2>3, FlushCases
<1>6. \A q \in Peers : q # o => out'[q] = out[q] /\ Pend(q) = <<>>
  BY <1>1, <1>5 DEF TypeOK, Pend
<1>7. \A q \in Peers : Pend(q)' = <<>>
  BY <1>5 DEF Pend
<1>8. \A q \in Peers : Len(got[q]) \in Nat /\ Len(out[q]) \in Nat /\ w[q] \in Nat
  BY LenProperties DEF TypeOK
<1>9. up[o] # "gone" => Marked(Pend(o), "tls", 0 + Len(got[o]) + Len(out[o]))
  <2>1. ASSUME up[o] # "gone" PROVE w[o] = 0 + Len(got[o]) + Len(out[o]) + 1
    <3>1. w[o] = Len(got[o]) + Len(out[o]) + 1
      BY <1>1, <1>2, <1>3, <1>4, <1>8, <2>1 DEF Flow
    <3> QED
      BY <1>1, <1>8, <3>1
  <2>2. Len(Pend(o)) = 1 /\ Pend(o)[1] = <<"tls", w[o]>>
    BY <1>3, <1>4
  <2>3. \A i \in 1..Len(Pend(o)) : i = 1
    BY <2>2
  <2> QED
    BY <2>1, <2>2, <2>3 DEF Marked
<1>10. /\ Contig(o, "tls", 0)'
       /\ up[o] # "gone" => Len(out'[o]) + Len(Pend(o)') = Len(out[o]) + Len(Pend(o))
  <2>1. Contig(o, "tls", 0)
    BY <1>1 DEF TlsInv
  <2> QED
    BY <1>9, <2>1, FlushEffect
<1>11. \A q \in Peers : Contig(q, "tls", 0)'
  BY <1>1, <1>6, <1>10 DEF TlsInv, Contig
<1>12. ASSUME pc' \notin {"closed", "freed"} PROVE Flow(k, w)'
  <2>1. at' = at
    BY <1>3, <1>5, <1>12 DEF at
  <2>2. Stage(k, w)'
    BY <1>3, <2>1 DEF Stage
  <2>3. ASSUME NEW q \in Peers
        PROVE  /\ Len(got'[q]) + Len(out'[q]) <= w[q]
               /\ up'[q] # "gone" => Len(got'[q]) + Len(out'[q]) + Len(Pend(q)') = w[q]
    <3> PICK x, y, z, u : x = Len(got[q]) /\ y = Len(out[q]) /\ z = w[q] /\ u = Len(out'[q])
      OBVIOUS
    <3>1. x \in Nat /\ y \in Nat /\ z \in Nat /\ u \in Nat
      <4>1. TypeOK'
        BY FlushType
      <4>2. Len(out'[q]) \in Nat
        BY <4>1, LenProperties DEF TypeOK
      <4> QED
        BY <1>8, <4>2
    <3>2. x + y <= z /\ (up[q] # "gone" => x + y + Len(Pend(q)) = z)
      BY <1>2 DEF Flow
    <3>3. Len(Pend(q)') = 0
      BY <1>7
    <3>4. CASE q = o /\ up[o] # "gone"
      <4>1. u + 0 = y + 1
        BY <1>3, <1>4, <1>10, <3>3, <3>4
      <4>2. x + y + 1 = z
        BY <1>3, <1>4, <3>2, <3>4
      <4>3. x + u <= z /\ x + u + 0 = z
        BY ONLY <3>1, <4>1, <4>2
      <4> QED
        BY <1>1, <3>3, <4>3
    <3>5. CASE q = o /\ up[o] = "gone"
      <4>1. out' = out
        BY <3>5, FlushCases
      <4> QED
        BY <1>1, <3>2, <3>5, <4>1
    <3>6. CASE q # o
      <4>1. out'[q] = out[q] /\ Len(Pend(q)) = 0
        BY <1>6, <3>6
      <4> QED
        BY <1>1, <3>2, <3>3, <4>1
    <3> QED
      BY <3>4, <3>5, <3>6
  <2>4. \A p \in Peers : eaten'[p] = Parts * k[p]
    BY <1>1, <1>2 DEF Flow
  <2> QED
    BY <1>5, <2>2, <2>3, <2>4 DEF Flow
<1>13. SentInv' /\ pc' \notin {"poll", "pass"}
  <2>1. SentInv'
    BY <1>1 DEF TlsInv, SentInv
  <2>2. buf.then \notin {"poll", "pass"}
    BY <1>3 DEF Stage, Before
  <2> QED
    BY <1>5, <2>1, <2>2
<1>14. \A p \in Peers : parser'[p] = <<>> => TlsStream(p)'
  <2>1. \A p \in Peers : parser[p] = <<>> => Numbered(bio[p], eaten[p]) /\ sent[p] = eaten[p] + Len(bio[p]) + Len(in[p])
    BY <1>1 DEF TlsInv, TlsStream
  <2> QED
    BY <1>1, <2>1 DEF TlsStream
<1> QED
  BY <1>1, <1>11, <1>12, <1>13, <1>14 DEF TlsInv

(* What the engine facing p has in front of it is the next piece of p's stream. *)
LEMMA EngineNumbered ==
    ASSUME TypeOK, InInv, NEW p \in Peers, TlsStream(p), pc \notin {"closed", "freed"},
           NEW n \in 0..Len(in[p]), NEW b, Len(b) = Len(bio[p]) + n,
           \A i \in 1..Len(bio[p]) : b[i] = bio[p][i],
           \A i \in 1..n : b[Len(bio[p]) + i] = in[p][i]
    PROVE  Numbered(b, eaten[p]) /\ sent[p] = eaten[p] + Len(b) + (Len(in[p]) - n)
<1> PICK s, r, e, t : s = bio[p] /\ r = in[p] /\ e = eaten[p] /\ t = sent[p]
  OBVIOUS
<1>1. Len(s) \in Nat /\ Len(r) \in Nat /\ e \in Nat /\ t \in Nat /\ n \in 0..Len(r)
  BY LenProperties DEF TypeOK
<1>2. Numbered(s, e) /\ t = e + Len(s) + Len(r) /\ Numbered(r, t - Len(r))
  BY DEF TlsStream, InInv
<1>3. t - Len(r) = e + Len(s) /\ n \in Nat /\ t = e + (Len(s) + n) + (Len(r) - n)
  BY ONLY <1>1, <1>2
<1>4. \A i \in 1..n : b[Len(s) + i] = e + Len(s) + i
  <2>1. \A i \in 1..n : i \in 1..Len(r)
    BY <1>1
  <2> QED
    BY <1>2, <1>3, <2>1 DEF Numbered
<1>5. Numbered(b, e)
  <2>1. Len(b) = Len(s) + n /\ e \in Int /\ \A i \in 1..Len(s) : b[i] = s[i]
    BY <1>1
  <2> QED
    BY ONLY <1>1, <1>2, <1>3, <1>4, <2>1, NumberedJoin
<1> QED
  BY <1>3, <1>5

(* After a flight was taken bio_in holds all that is left of it: the reset drops nothing. *)
LEMMA KeptNumbered ==
    ASSUME NEW b \in Seq(Nat), NEW e \in Nat, Whole(b), Numbered(b, e),
           pc \in {"svr_hello", "clt_hello"} => Len(b) = Parts
    PROVE  Numbered(KeptInBio(b), e + Parts) /\ Len(KeptInBio(b)) = Len(b) - Parts
<1>1. Len(b) \in Nat /\ Parts \in 0..Len(b) /\ e \in Int
  BY LenProperties, FlightArith DEF Whole
<1>2. CASE pc \in {"svr_hello", "clt_hello"}
  <2>1. KeptInBio(b) = <<>> /\ Len(<<>>) = 0 /\ Len(b) - Parts = 0
    BY <1>1, <1>2, FlightArith DEF KeptInBio
  <2> QED
    BY <2>1 DEF Numbered
<1>3. CASE pc \notin {"svr_hello", "clt_hello"}
  <2> PICK r : r = SubSeq(b, Parts + 1, Len(b))
    OBVIOUS
  <2>1. KeptInBio(b) = r
    BY <1>3 DEF KeptInBio
  <2>2. Len(r) = Len(b) - Parts /\ \A i \in 1..(Len(b) - Parts) : r[i] = b[Parts + i]
    BY <1>1, Cut
  <2>3. Numbered(r, e + Parts)
    BY <1>1, <2>2, NumberedCut
  <2> QED
    BY <2>1, <2>2, <2>3
<1> QED
  BY <1>2, <1>3

(* A flight of p was decrypted: what the proxy does next keeps the books. *)
LEMMA TlsReact ==
    ASSUME TypeOK, NEW k \in [Peers -> Nat], NEW w \in [Peers -> Nat], Flow(k, w), ~plan.upgrade,
           pc \in TlsReads, NEW p, p = Waiting, React(p), eaten' = [eaten EXCEPT ![p] = @ + Parts],
           UNCHANGED <<got, out, up>>
    PROVE  pc' \in {"write", "clt_hello"} /\ \E j, v \in [Peers -> Nat] : Flow(j, v)'
<1>1. pc # "write" /\ at = pc /\ Stage(k, w) /\ p \in Peers
  BY DEF TlsReads, at, Flow, Waiting
<1> PICK j : j = [k EXCEPT ![p] = @ + 1]
  OBVIOUS
<1>2. j \in [Peers -> Nat] /\ j[p] = k[p] + 1 /\ \A q \in Peers : q # p => j[q] = k[q]
  BY <1>1
<1>3. \A q \in Peers : eaten'[q] = Parts * j[q]
  <2>1. eaten[p] = Parts * k[p] /\ k[p] \in Nat
    BY <1>1 DEF Flow
  <2>2. eaten'[p] = eaten[p] + Parts /\ \A q \in Peers : q # p => eaten'[q] = eaten[q]
    BY <1>1 DEF TypeOK
  <2>3. Parts * k[p] + Parts = Parts * (k[p] + 1)
    BY <2>1, FlightArith
  <2> QED
    BY <1>2, <2>1, <2>2, <2>3 DEF Flow
<1>4. Flight(p) = k[p] + 1
  <2>1. eaten[p] = Parts * k[p] /\ k[p] \in Nat
    BY <1>1 DEF Flow
  <2>2. (Parts * k[p]) \div Parts = k[p]
    BY <2>1, FlightArith
  <2> QED
    BY <2>1, <2>2 DEF Flight
<1>5. ASSUME NEW o \in Peers, NEW f, f = w[o] + 1, NEW then, Answer(o, f, then),
             NEW v, v = [w EXCEPT ![o] = f], at' = then => Stage(j, v)'
      PROVE  pc' = "write" /\ \E x, y \in [Peers -> Nat] : Flow(x, y)'
  <2>1. v \in [Peers -> Nat]
    BY <1>5
  <2>2. Flow(j, v)'
    <3>1. /\ TypeOK /\ k \in [Peers -> Nat] /\ w \in [Peers -> Nat] /\ Flow(k, w) /\ pc # "write"
          /\ o \in Peers /\ f = w[o] + 1 /\ Answer(o, f, then) /\ UNCHANGED <<got, out, up>>
          /\ j \in [Peers -> Nat] /\ v \in [Peers -> Nat] /\ v = [w EXCEPT ![o] = f]
          /\ at' = then => Stage(j, v)'
      BY <1>1, <1>2, <1>5, <2>1
    <3> HIDE DEF Peers
    <3> QED
      BY ONLY <1>3, <3>1, TlsAnswer
  <2> QED
    BY <1>2, <1>5, <2>1, <2>2 DEF Answer
<1>6. CASE pc = "svr_hello" /\ Answer("svr", 2, "svr_done")
  <2> PICK v : v = [w EXCEPT !["svr"] = 2]
    OBVIOUS
  <2>1. k["svr"] = 0 /\ k["clt"] = 0 /\ w["svr"] = 1 /\ w["clt"] = 0 /\ p = "svr"
    BY <1>1, <1>6 DEF Stage, Before, Waiting, FromClient
  <2>2. j["svr"] = 1 /\ j["clt"] = 0 /\ v["svr"] = 2 /\ v["clt"] = 0 /\ 2 = w["svr"] + 1
    BY <1>2, <2>1
  <2>3. at' = "svr_done" => Stage(j, v)'
    BY <2>2 DEF Stage
  <2> QED
    BY <1>5, <1>6, <2>2, <2>3
<1>7. CASE pc = "svr_done" /\ pc' = "clt_hello" /\ buf' = buf
  <2>1. k["svr"] = 1 /\ k["clt"] = 0 /\ w["svr"] = 2 /\ w["clt"] = 0 /\ p = "svr"
    BY <1>1, <1>7 DEF Stage, Before, Waiting, FromClient
  <2>2. j["svr"] = 2 /\ j["clt"] = 0
    BY <1>2, <2>1
  <2>3. Stage(j, w)'
    <3>1. at' = "clt_hello"
      BY <1>7 DEF at
    <3> QED
      BY <2>1, <2>2, <3>1 DEF Stage
  <2>4. \A q \in Peers : Pend(q)' = Pend(q)
    BY <1>7 DEF Pend
  <2>5. Flow(j, w)'
    BY <1>3, <1>7, <2>3, <2>4 DEF Flow
  <2> QED
    BY <1>2, <1>7, <2>5
<1>8. CASE pc = "clt_hello" /\ Answer("clt", 1, "clt_done")
  <2> PICK v : v = [w EXCEPT !["clt"] = 1]
    OBVIOUS
  <2>1. k["svr"] = 2 /\ k["clt"] = 0 /\ w["svr"] = 2 /\ w["clt"] = 0 /\ p = "clt"
    BY <1>1, <1>8 DEF Stage, Before, Waiting, FromClient
  <2>2. j["svr"] = 2 /\ j["clt"] = 1 /\ v["svr"] = 2 /\ v["clt"] = 1 /\ 1 = w["clt"] + 1
    BY <1>2, <2>1
  <2>3. at' = "clt_done" => Stage(j, v)'
    BY <2>2 DEF Stage
  <2> QED
    BY <1>5, <1>8, <2>2, <2>3
<1>9. CASE pc = "clt_done" /\ Answer("clt", 2, "request")
  <2> PICK v : v = [w EXCEPT !["clt"] = 2]
    OBVIOUS
  <2>1. k["svr"] = 2 /\ k["clt"] = 1 /\ w["svr"] = 2 /\ w["clt"] = 1 /\ p = "clt"
    BY <1>1, <1>9 DEF Stage, Before, Waiting, FromClient
  <2>2. j["svr"] = 2 /\ j["clt"] = 2 /\ v["svr"] = 2 /\ v["clt"] = 2 /\ 2 = w["clt"] + 1
    BY <1>2, <2>1
  <2>3. at' = "request" => Stage(j, v)'
    BY <2>2 DEF Stage
  <2> QED
    BY <1>5, <1>9, <2>2, <2>3
<1>10. CASE pc = "request" /\ Answer("svr", Flight(p), "response")
  <2> PICK f : f = Flight(p)
    OBVIOUS
  <2> PICK v : v = [w EXCEPT !["svr"] = f]
    OBVIOUS
  <2>1. k["clt"] = k["svr"] /\ w["svr"] = k["clt"] /\ w["clt"] = k["svr"] /\ p = "clt"
    BY <1>1, <1>10 DEF Stage, Before, Waiting, FromClient
  <2>2. j["svr"] = k["svr"] /\ j["clt"] = k["svr"] + 1 /\ v["svr"] = f /\ v["clt"] = w["clt"] /\ f = w["svr"] + 1
    BY <1>2, <1>4, <2>1
  <2>3. at' = "response" => Stage(j, v)'
    BY <2>1, <2>2 DEF Stage
  <2> QED
    BY <1>5, <1>10, <2>2, <2>3
<1>11. CASE pc = "response" /\ \E then \in {"closed", "request"} : Answer("clt", Flight(p), then)
  <2> PICK f : f = Flight(p)
    OBVIOUS
  <2>0. PICK then \in {"closed", "request"} : Answer("clt", f, then)
    BY <1>11
  <2> PICK v : v = [w EXCEPT !["clt"] = f]
    OBVIOUS
  <2>1. k["clt"] = k["svr"] + 1 /\ w["svr"] = k["clt"] /\ w["clt"] = k["svr"] /\ p = "svr"
    BY <1>1, <1>11 DEF Stage, Before, Waiting, FromClient
  <2>2. j["svr"] = k["svr"] + 1 /\ j["clt"] = k["clt"] /\ v["clt"] = f /\ v["svr"] = w["svr"] /\ f = w["clt"] + 1
    BY <1>2, <1>4, <2>1
  <2>3. at' = then => Stage(j, v)'
    BY <2>1, <2>2 DEF Stage
  <2> QED
    BY <1>5, <2>0, <2>2, <2>3
<1>12. \/ pc = "svr_hello" /\ Answer("svr", 2, "svr_done")
       \/ pc = "svr_done" /\ told' = TRUE /\ pc' = "clt_hello" /\ buf' = buf
       \/ pc = "clt_hello" /\ Answer("clt", 1, "clt_done")
       \/ pc = "clt_done" /\ Answer("clt", 2, "request")
       \/ pc = "request" /\ Answer("svr", Flight(p), "response")
       \/ /\ pc = "response"
          /\ \E then \in {"closed", IF plan.upgrade THEN "poll" ELSE "request"} :
                Answer("clt", Flight(p), then)
  BY ReactCases, Zenon
<1> QED
  BY <1>6, <1>7, <1>8, <1>9, <1>10, <1>11, <1>12

(* An engine reads, or takes what bio_in holds. *)
LEMMA TlsEngine ==
    ASSUME TypeOK, HeldInv, InInv, TlsInv, plan.decrypt, ~plan.upgrade, EngineReads \/ EngineHolds
    PROVE  TlsInv'
<1> PICK p : p = Waiting
  OBVIOUS
<1>1. /\ p \in Peers /\ pc \in TlsReads
      /\ UNCHANGED <<plan, out, parser, sent, got, up>>
  BY EngineCases
<1>2. PICK n \in 0..Len(in[p]), b \in Seq(Nat) :
         /\ Engine(p, b)
         /\ Len(b) = Len(bio[p]) + n
         /\ \A i \in 1..Len(bio[p]) : b[i] = bio[p][i]
         /\ \A i \in 1..n : b[Len(bio[p]) + i] = in[p][i]
         /\ in'[Other(p)] = in[Other(p)]
         /\ Len(in'[p]) = Len(in[p]) - n
  BY EngineCases
<1>3. pc \notin {"closed", "freed", "write", "poll", "pass"}
  BY <1>1 DEF TlsReads
<1>4. PICK k \in [Peers -> Nat], w \in [Peers -> Nat] : Flow(k, w)
  BY <1>3 DEF TlsInv
<1>5. (\A o \in Peers : Contig(o, "tls", 0)') /\ SentInv'
  BY <1>1 DEF TlsInv, Contig, SentInv
<1>6. parser[p] = <<>> => Numbered(b, eaten[p]) /\ sent[p] = eaten[p] + Len(b) + Len(in'[p])
  <2> SUFFICES ASSUME parser[p] = <<>>
               PROVE  Numbered(b, eaten[p]) /\ sent[p] = eaten[p] + Len(b) + Len(in'[p])
    OBVIOUS
  <2>1. TlsStream(p) /\ pc \notin {"closed", "freed"}
    BY <1>1, <1>3 DEF TlsInv
  <2>2. Numbered(b, eaten[p]) /\ sent[p] = eaten[p] + Len(b) + (Len(in[p]) - n)
    BY <1>1, <1>2, <2>1, EngineNumbered
  <2> QED
    BY <1>2, <2>2
<1>7. ASSUME NEW q \in Peers, q # p, parser[q] = <<>>, bio'[q] = bio[q], eaten'[q] = eaten[q]
      PROVE  TlsStream(q)'
  <2>1. q = Other(p)
    BY <1>1, <1>7 DEF Other
  <2>2. TlsStream(q)
    BY <1>7 DEF TlsInv
  <2> QED
    BY <1>1, <1>2, <1>3, <1>7, <2>1, <2>2 DEF TlsStream
<1>8. CASE ~Whole(b)
  <2>1. bio' = [bio EXCEPT ![p] = b] /\ UNCHANGED <<eaten, pc, buf>>
    BY <1>2, <1>8 DEF Engine
  <2>2. bio'[p] = b /\ \A q \in Peers : q # p => bio'[q] = bio[q]
    BY <1>1, <2>1 DEF TypeOK
  <2>3. Flow(k, w)'
    <3>1. Stage(k, w)'
      <4>1. at' = at /\ Stage(k, w)
        BY <1>4, <2>1 DEF at, Flow
      <4> QED
        BY <4>1 DEF Stage
    <3>2. \A q \in Peers : Pend(q)' = Pend(q)
      BY <2>1 DEF Pend
    <3> QED
      BY <1>1, <1>4, <2>1, <3>1, <3>2 DEF Flow
  <2>4. parser[p] = <<>> => TlsStream(p)'
    BY <1>1, <1>6, <2>1, <2>2 DEF TlsStream
  <2>5. \A q \in Peers : parser'[q] = <<>> => TlsStream(q)'
    BY <1>1, <1>7, <2>1, <2>2, <2>4
  <2>6. pc' \notin {"poll", "pass"} /\ \E j, v \in [Peers -> Nat] : Flow(j, v)'
    BY <1>3, <2>1, <2>3
  <2> QED
    BY <1>5, <2>5, <2>6 DEF TlsInv
<1>9. CASE Whole(b) /\ ~Intact(p, b)
  <2>1. pc' = "closed" /\ UNCHANGED <<bio, eaten>>
    BY <1>2, <1>9 DEF Engine, tls
  <2>2. \A q \in Peers : parser'[q] = <<>> => TlsStream(q)'
    BY <1>1, <2>1 DEF TlsInv, TlsStream
  <2> QED
    BY <1>5, <2>1, <2>2 DEF TlsInv
<1>10. CASE Whole(b) /\ Intact(p, b)
  <2>1. bio' = [bio EXCEPT ![p] = KeptInBio(b)] /\ eaten' = [eaten EXCEPT ![p] = @ + Parts] /\ React(p)
    BY <1>2, <1>10 DEF Engine
  <2>2. /\ bio'[p] = KeptInBio(b) /\ eaten'[p] = eaten[p] + Parts
        /\ \A q \in Peers : q # p => bio'[q] = bio[q] /\ eaten'[q] = eaten[q]
    BY <1>1, <2>1 DEF TypeOK
  <2>3. pc' \in {"write", "clt_hello"} /\ \E j, v \in [Peers -> Nat] : Flow(j, v)'
    <3>1. UNCHANGED <<got, out, up>>
      BY <1>1
    <3> QED
      BY <1>1, <1>4, <2>1, <3>1, TlsReact
  <2>4. ASSUME parser[p] = <<>> PROVE TlsStream(p)'
    <3> PICK e, l, m : e = eaten[p] /\ l = Len(b) /\ m = Len(in'[p])
      OBVIOUS
    <3>1. e \in Nat /\ l \in Nat /\ m \in Nat /\ l >= Parts
      <4>1. Len(in[p]) \in Nat /\ e \in Nat /\ l \in Nat
        BY <1>1, LenProperties DEF TypeOK
      <4>2. m = Len(in[p]) - n
        BY <1>2
      <4> QED
        BY <1>10, <4>1, <4>2 DEF Whole
    <3>2. Numbered(b, e) /\ sent[p] = e + l + m
      BY <1>6, <2>4
    <3>3. pc \in {"svr_hello", "clt_hello"} => l = Parts
      <4> SUFFICES ASSUME pc \in {"svr_hello", "clt_hello"} PROVE l = Parts
        OBVIOUS
      <4>1. /\ k[p] = 0
            /\ pc = "svr_hello" => p = "svr" /\ w[p] = 1
            /\ pc = "clt_hello" => p = "clt" /\ w[p] = 0
        <5>1. at = pc /\ Stage(k, w)
          BY <1>3, <1>4 DEF at, Flow
        <5> QED
          BY <5>1 DEF Stage, Before, Waiting, FromClient
      <4>2. Len(got[p]) + Len(out[p]) <= w[p] /\ e = Parts * k[p]
        BY <1>1, <1>4 DEF Flow
      <4>3. Len(got[p]) \in Nat /\ Len(out[p]) \in Nat
        BY <1>1, LenProperties DEF TypeOK
      <4>4. sent[p] \in {0, Parts}
        <5>1. SentInv
          BY DEF TlsInv
        <5> PICK x, y, z : x = Len(got[p]) /\ y = Len(out[p]) /\ z = w[p]
          OBVIOUS
        <5>2. CASE pc = "svr_hello"
          <6>1. x \in Nat /\ y \in Nat /\ x + y <= 1
            BY <4>1, <4>2, <4>3, <5>2
          <6>2. ~(x >= 2)
            BY ONLY <6>1
          <6> QED
            BY <4>1, <5>1, <5>2, <6>2 DEF SentInv
        <5>3. CASE pc = "clt_hello"
          <6>1. x \in Nat /\ y \in Nat /\ x + y <= 0
            BY <4>1, <4>2, <4>3, <5>3
          <6>2. ~(x >= 1)
            BY ONLY <6>1
          <6> QED
            BY <4>1, <5>1, <5>3, <6>2 DEF SentInv
        <5> QED
          BY <5>2, <5>3
      <4>5. e = 0
        BY <4>1, <4>2, FlightArith
      <4>6. Parts \in Nat /\ Parts > 0
        BY FlightArith
      <4>7. 0 + l + m \in {0, Parts}
        BY <3>2, <4>4, <4>5
      <4> QED
        BY ONLY <3>1, <4>6, <4>7
    <3>4. Numbered(KeptInBio(b), e + Parts) /\ Len(KeptInBio(b)) = l - Parts
      BY <1>10, <3>1, <3>2, <3>3, KeptNumbered
    <3>5. e + l + m = (e + Parts) + (l - Parts) + m
      <4>1. Parts \in Nat
        BY FlightArith
      <4> QED
        BY ONLY <3>1, <4>1
    <3> QED
      BY <1>1, <2>2, <3>2, <3>4, <3>5 DEF TlsStream
  <2>5. \A q \in Peers : parser'[q] = <<>> => TlsStream(q)'
    BY <1>1, <1>7, <2>2, <2>4
  <2> QED
    BY <1>5, <2>3, <2>5 DEF TlsInv
<1> QED
  BY <1>8, <1>9, <1>10

LEMMA TlsStep ==
    ASSUME TypeOK, HeldInv, InInv, ParserInv, TlsInv, [Next]_vars
    PROVE  TlsInv'
<1>1. plan' = plan
  <2>1. CASE EngineReads \/ EngineHolds
    BY <2>1 DEF EngineReads, EngineHolds
  <2>2. CASE Flush
    BY <2>2 DEF Flush
  <2>3. ASSUME NEW p \in Peers, Parses(p) \/ Relays(p) \/ PeerSend(p) \/ PeerReceive(p) PROVE plan' = plan
    BY <2>3 DEF Parses, Relays, PeerSend, PeerReceive
  <2> QED
    BY <2>1, <2>2, <2>3, StreamKinds DEF Stays, Moves, Begins
<1>2. CASE ~(plan.decrypt /\ ~plan.upgrade)
  BY <1>1, <1>2 DEF TlsInv
<1>3. CASE plan.decrypt /\ ~plan.upgrade
  <2>1. \A p \in Peers : ~Relays(p)
    BY <1>3 DEF TlsInv, Relays
  <2> QED
    BY <1>3, <2>1, StreamKinds, TlsQuiet, TlsBegin, TlsReceive, TlsFlush, TlsEngine
<1> QED
  BY <1>2, <1>3

LEMMA StreamsInit == Init => InInv /\ ParserInv /\ RawInv /\ TlsInv
<1> SUFFICES ASSUME Init PROVE InInv /\ ParserInv /\ RawInv /\ TlsInv
  OBVIOUS
<1>1. /\ pc = "parse_connect" /\ buf = NoWrite
      /\ \A p \in Peers : /\ in[p] = <<>> /\ out[p] = <<>> /\ parser[p] = <<>> /\ bio[p] = <<>>
                          /\ eaten[p] = 0 /\ sent[p] = 0 /\ got[p] = <<>> /\ up[p] = "open"
  BY DEF Init, Both
<1>2. Len(<<>>) = 0 /\ (\A b : Numbered(<<>>, b)) /\ \A m, b : Marked(<<>>, m, b)
  BY DEF Numbered, Marked
<1>3. InInv /\ ParserInv
  BY <1>1, <1>2 DEF InInv, ParserInv
<1>4. \A o \in Peers : Pend(o) = <<>> /\ (\A b : Contig(o, "raw", b)) /\ Contig(o, "tls", 0)
  BY <1>1, <1>2 DEF Pend, Contig
<1>5. RawInv
  <2>1. \A p \in Peers : RawStream(p)
    <3> SUFFICES ASSUME NEW p \in Peers, NEW o, o = Other(p) PROVE RawStream(p)
      OBVIOUS
    <3>1. o \in Peers
      BY OtherPeer
    <3>2. /\ Len(got[o]) = 0 /\ Len(out[o]) = 0 /\ Len(Pend(o)) = 0 /\ Len(in[p]) = 0 /\ sent[p] = 0
          /\ Len(parser[p]) = 0 /\ Contig(o, "raw", Len(parser[p]))
          /\ Marked(Pend(o), "raw", Len(parser[p]) + Len(got[o]) + Len(out[o]))
      BY <1>1, <1>2, <1>4, <3>1
    <3>3. Len(parser[p]) + Len(got[o]) + Len(out[o]) + Len(Pend(o)) + Len(in[p]) = sent[p]
      BY <3>2
    <3> QED
      BY <3>2, <3>3 DEF RawStream
  <2> QED
    BY <1>1, <2>1 DEF RawInv, TlsReads
<1>6. TlsInv
  <2> PICK z : z = [p \in Peers |-> 0]
    OBVIOUS
  <2>1. z \in [Peers -> Nat] /\ \A p \in Peers : z[p] = 0
    OBVIOUS
  <2>2. Flow(z, z)
    <3>1. Stage(z, z)
      BY <1>1, <2>1 DEF Stage, at, Before
    <3>2. \A p \in Peers : eaten[p] = Parts * z[p]
      BY <1>1, <2>1, FlightArith
    <3>3. ASSUME NEW o \in Peers
          PROVE  Len(got[o]) + Len(out[o]) <= z[o] /\ Len(got[o]) + Len(out[o]) + Len(Pend(o)) = z[o]
      <4>1. Len(got[o]) = 0 /\ Len(out[o]) = 0 /\ Len(Pend(o)) = 0 /\ z[o] = 0
        BY <1>1, <1>2, <1>4, <2>1
      <4> QED
        BY <4>1
    <3> QED
      BY <1>1, <3>1, <3>2, <3>3 DEF Flow
  <2>3. SentInv
    BY <1>1 DEF SentInv
  <2>4. \A p \in Peers : TlsStream(p)
    BY <1>1, <1>2 DEF TlsStream
  <2> QED
    BY <1>1, <1>4, <2>1, <2>2, <2>3, <2>4 DEF TlsInv
<1> QED
  BY <1>3, <1>5, <1>6

(* The inductive invariant of the streams. *)
StreamInv == TypeOK /\ HeldInv /\ InInv /\ ParserInv /\ RawInv /\ TlsInv

(***************************************************************************)
(* StreamsIntact for all constants: however the reads and writes of pass,  *)
(* of the TLS engines and of the parsers cut the streams, and wherever the *)
(* peers close, a tunnel delivers a prefix of what was sent, and an engine *)
(* never meets a gap.  For the tunnel the invariant accounts for every     *)
(* cell between the two peers; for the engines it counts flights, which    *)
(* shows that bio_in holds nothing when SrsSslConnection::handshake and    *)
(* SrsSslClient::handshake reset it.                                       *)
(***************************************************************************)
THEOREM StreamsKept == Spec => []StreamsIntact
<1>1. Init => StreamInv
  BY InitType, StreamsInit DEF StreamInv
<1>2. StreamInv /\ [Next]_vars => StreamInv'
  BY TypeStep, InStep, RawStep, TlsStep DEF StreamInv
<1>3. StreamInv => StreamsIntact
  <2> SUFFICES ASSUME StreamInv, ~plan.upgrade, NEW p \in Peers, parser[p] = <<>>, NEW o, o = Other(p)
               PROVE  /\ \A i \in 1..Len(got[o]) : got[o][i] = <<IF plan.decrypt THEN "tls" ELSE "raw", i>>
                      /\ \A i \in 1..Len(bio[p]) : bio[p][i] = eaten[p] + i
                      /\ \A i \in 1..Len(in[p]) : in[p][i] = sent[p] - Len(in[p]) + i
                      /\ plan.decrypt => sent[p] = eaten[p] + Len(bio[p]) + Len(in[p])
                                         \/ up[p] # "open" \/ pc \in {"closed", "freed"}
    BY DEF StreamsIntact
  <2>1. o \in Peers /\ Len(got[o]) \in Nat
    BY OtherPeer, LenProperties DEF StreamInv, TypeOK
  <2>2. \A i \in 1..Len(in[p]) : in[p][i] = sent[p] - Len(in[p]) + i
    BY DEF StreamInv, InInv, Numbered
  <2>3. \A m : Contig(o, m, 0) => \A i \in 1..Len(got[o]) : got[o][i] = <<m, i>>
    BY <2>1 DEF Contig, Marked
  <2>4. CASE plan.decrypt
    <3>1. Contig(o, "tls", 0) /\ TlsStream(p)
      BY <2>1, <2>4 DEF StreamInv, TlsInv
    <3> QED
      BY <2>2, <2>3, <2>4, <3>1 DEF TlsStream, Numbered
  <2>5. CASE ~plan.decrypt
    <3>1. Contig(o, "raw", 0) /\ bio[p] = <<>>
      <4>1. Contig(o, "raw", Len(parser[p])) /\ bio[p] = <<>>
        BY <2>5 DEF StreamInv, RawInv, RawStream
      <4> QED
        BY <4>1
    <3> QED
      BY <2>2, <2>3, <2>5, <3>1
  <2> QED
    BY <2>4, <2>5
<1> QED
  BY <1>1, <1>2, <1>3, PTL DEF Spec, SilentSpec
-----------------------------------------------------------------------------
(* The pipe *)

(* The client has not been told that its connection is established. *)
Early == Before \cup {"svr_hello", "svr_done"}

(* n cells are no more than o may have been sent: messages only once the other side sent them. *)
Bounded(o, n) ==
    n <= Handshake \/ (told /\ (plan.decrypt => Parts * n <= sent[Other(o)]))

(* An engine holds and has decrypted only what its peer sent, damaged or not. *)
EngineBound ==
    \A p \in Peers : eaten[p] <= sent[p] /\ \A i \in 1..Len(bio[p]) : bio[p][i] <= sent[p]

ToldInv ==
    /\ told => at \notin Early
    /\ ~told => at \in Early \/ pc \in {"closed", "freed"}

PipeInv ==
    /\ plan.upgrade => plan.decrypt
    /\ ToldInv
    /\ EngineBound
    /\ ~plan.upgrade => \A o \in Peers : Bounded(o, Len(got[o]) + Len(out[o]))

(* What a step does to the place of the coroutine and to what the client knows. *)
LEMMA ToldStep ==
    ASSUME TypeOK, HeldInv, [Next]_vars
    PROVE  \/ told' = told /\ at' = at /\ (pc' = pc \/ pc = "write")
           \/ told' = told /\ pc' \in {"closed", "freed"}
           \/ told' = told /\ at \in Early /\ at' \in Early
           \/ told' = told /\ at \notin Early /\ pc \notin {"closed", "freed"} /\ at' \notin Early
           \/ told' = TRUE /\ at \in Early /\ at' \notin Early
<1> USE DEF Early, Before, TlsReads
<1>1. ASSUME UNCHANGED <<pc, buf, told>> PROVE told' = told /\ at' = at /\ pc' = pc
  BY <1>1 DEF at
<1>2. CASE UNCHANGED vars
  BY <1>1, <1>2 DEF vars
<1>3. CASE dns_callback \/ HopAnswers
  BY <1>1, <1>3 DEF dns_callback, HopAnswers
<1>4. ASSUME NEW p \in Peers, PeerSend(p) \/ PeerReceive(p) \/ PeerCloses(p)
      PROVE  UNCHANGED <<pc, buf, told>>
  BY <1>4 DEF PeerSend, PeerReceive, PeerCloses
<1>5. CASE ParseConnect \/ do_resolve \/ Connected \/ HopReply
  BY <1>5 DEF ParseConnect, do_resolve, Connected, HopReply, at
<1>6. CASE Resolved \/ ConnectFails \/ ReadFails \/ Free
  BY <1>6 DEF Resolved, ConnectFails, ReadFails, Free, at
<1>7. CASE Established
  <2>1. pc = "established"
    BY <1>7 DEF Established
  <2>2. CASE plan.decrypt
    <3>1. pc' = "write" /\ buf'.then = "svr_hello" /\ told' = told
      BY <1>7, <2>2 DEF Established, Write
    <3> QED
      BY <2>1, <3>1 DEF at
  <2>3. CASE ~plan.decrypt
    BY <1>7, <2>1, <2>3 DEF Established, at
  <2> QED
    BY <2>2, <2>3
<1>8. CASE Poll
  BY <1>8 DEF Poll, at
<1>9. CASE pass
  <2>1. pc = "pass" /\ told' = told
    BY <1>9 DEF pass
  <2>2. \/ pc' \in {"request", "closed"}
        \/ pc' = "write" /\ buf'.then \in {"poll", "pass"}
    BY <1>9 DEF pass, Write
  <2> QED
    BY <2>1, <2>2 DEF at
<1>10. CASE Flush
  <2>1. told' = told /\ pc = "write" /\ buf.then # "write"
    BY <1>10, FlushCases DEF Flush, HeldInv
  <2>2. \/ pc' = "closed" \/ pc' = buf.then
        \/ pc' = "write" /\ \E c : buf' = [buf EXCEPT !.cells = c]
    BY <1>10, FlushCases
  <2>3. ASSUME NEW c, buf' = [buf EXCEPT !.cells = c] PROVE buf'.then = buf.then
    BY <2>3 DEF TypeOK
  <2> QED
    BY <2>1, <2>2, <2>3 DEF at
<1>11. CASE EngineReads \/ EngineHolds
  <2> PICK p : p = Waiting
    OBVIOUS
  <2>1. pc \in TlsReads
    BY <1>11, EngineCases
  <2> PICK b \in Seq(Nat) : Engine(p, b)
    BY <1>11, EngineCases
  <2>2. \/ UNCHANGED <<pc, buf, told>>
        \/ pc' = "closed" /\ told' = told
        \/ React(p)
    BY DEF Engine
  <2>3. CASE React(p)
    <3>1. \A o, f, then : Answer(o, f, then) => pc' = "write" /\ buf'.then = then /\ told' = told
      BY DEF Answer
    <3>2. \/ pc = "svr_hello" /\ pc' = "write" /\ buf'.then = "svr_done" /\ told' = told
          \/ pc = "svr_done" /\ told' = TRUE /\ pc' = "clt_hello"
          \/ /\ pc \in {"clt_hello", "clt_done", "request", "response"}
             /\ pc' = "write" /\ told' = told
             /\ buf'.then \in {"clt_done", "request", "response", "closed", "poll"}
      <4>1. \/ pc = "svr_hello" /\ Answer("svr", 2, "svr_done")
            \/ pc = "svr_done" /\ told' = TRUE /\ pc' = "clt_hello" /\ buf' = buf
            \/ pc = "clt_hello" /\ Answer("clt", 1, "clt_done")
            \/ pc = "clt_done" /\ Answer("clt", 2, "request")
            \/ pc = "request" /\ Answer("svr", Flight(p), "response")
            \/ /\ pc = "response"
               /\ \E then \in {"closed", IF plan.upgrade THEN "poll" ELSE "request"} :
                     Answer("clt", Flight(p), then)
        <5> HIDE DEF TlsReads
        <5> QED
          BY <2>1, <2>3, ReactCases, Zenon
      <4>2. \A then \in {"closed", IF plan.upgrade THEN "poll" ELSE "request"} :
               then \in {"clt_done", "request", "response", "closed", "poll"}
        OBVIOUS
      <4> QED
        BY <3>1, <4>1, <4>2
    <3> QED
      BY <3>2 DEF at
  <2> QED
    BY <1>1, <2>2, <2>3
<1> QED
  BY <1>1, <1>2, <1>3, <1>4, <1>5, <1>6, <1>7, <1>8, <1>9, <1>10, <1>11 DEF Next, ProxyStep

LEMMA ToldInvStep ==
    ASSUME TypeOK, HeldInv, ToldInv, [Next]_vars
    PROVE  ToldInv'
<1> USE DEF Early, Before
<1>1. told \in BOOLEAN
  BY DEF TypeOK
<1>2. pc' \in {"closed", "freed"} => at' \notin Early
  BY DEF at
<1>3. CASE told' = told /\ at' = at /\ (pc' = pc \/ pc = "write")
  BY <1>1, <1>3 DEF ToldInv
<1>7. CASE told' = told /\ pc' \in {"closed", "freed"}
  BY <1>1, <1>2, <1>7 DEF ToldInv
<1>4. CASE told' = told /\ at \in Early /\ at' \in Early
  BY <1>1, <1>4 DEF ToldInv
<1>5. CASE told' = told /\ at \notin Early /\ pc \notin {"closed", "freed"} /\ at' \notin Early
  BY <1>1, <1>5 DEF ToldInv
<1>6. CASE told' = TRUE /\ at \in Early /\ at' \notin Early
  BY <1>6 DEF ToldInv
<1> QED
  BY <1>3, <1>4, <1>5, <1>6, <1>7, ToldStep

(* What any step does to the constants of the streams. *)
LEMMA Growing ==
    ASSUME TypeOK, HeldInv, [Next]_vars
    PROVE  /\ plan' = plan
           /\ \A p \in Peers : sent[p] \in Nat /\ sent'[p] \in Nat /\ sent[p] <= sent'[p]
           /\ Flush \/ \A o \in Peers : /\ Len(got[o]) \in Nat /\ Len(out[o]) \in Nat
                                       /\ Len(got'[o]) + Len(out'[o]) = Len(got[o]) + Len(out[o])
<1>1. \A p \in Peers : sent[p] \in Nat /\ Len(got[p]) \in Nat /\ Len(out[p]) \in Nat
  BY LenProperties DEF TypeOK
<1>2. CASE Stays \/ Moves \/ Begins \/ Flush \/ \E p \in Peers : Parses(p) \/ Relays(p)
  <2>1. UNCHANGED <<plan, sent>> /\ (Flush \/ UNCHANGED <<out, got>>)
    BY <1>2, FlushCases DEF Stays, Moves, Begins, Parses, Relays
  <2>2. \A p \in Peers : sent'[p] \in Nat /\ sent[p] <= sent'[p]
    BY <1>1, <2>1
  <2>3. UNCHANGED <<out, got>> => \A o \in Peers : Len(got'[o]) + Len(out'[o]) = Len(got[o]) + Len(out[o])
    OBVIOUS
  <2> QED
    BY <1>1, <2>1, <2>2, <2>3
<1>3. CASE EngineReads \/ EngineHolds
  <2>1. UNCHANGED <<plan, sent, out, got>>
    BY <1>3, EngineCases
  <2> QED
    BY <1>1, <2>1
<1>4. ASSUME NEW q \in Peers, PeerSend(q)
      PROVE  /\ UNCHANGED <<plan, out, got>>
             /\ \A p \in Peers : sent'[p] \in Nat /\ sent[p] <= sent'[p]
  <2> PICK k : k = IF plan.decrypt THEN Parts ELSE 1
    OBVIOUS
  <2>1. k \in Nat /\ sent'[q] = sent[q] + k /\ sent'[Other(q)] = sent[Other(q)] /\ UNCHANGED <<plan, out, got>>
    BY <1>4, SendEffect
  <2>2. \A p \in Peers : p = q \/ p = Other(q)
    BY DEF Other
  <2> QED
    BY <1>1, <2>1, <2>2
<1>5. ASSUME NEW q \in Peers, PeerReceive(q)
      PROVE  /\ UNCHANGED <<plan, sent>>
             /\ \A o \in Peers : Len(got'[o]) + Len(out'[o]) = Len(got[o]) + Len(out[o])
  <2>1. /\ UNCHANGED <<plan, sent>>
        /\ got'[Other(q)] = got[Other(q)] /\ out'[Other(q)] = out[Other(q)]
    BY <1>5, ReceiveOther
  <2> PICK g, w : g = got[q] /\ w = out[q]
    OBVIOUS
  <2>2. g \in Seq(Cell) /\ w \in Seq(Cell) /\ w # <<>> /\ Len(g) \in Nat /\ Len(w) \in Nat
        /\ got'[q] = Append(g, Head(w)) /\ out'[q] = Tail(w)
    BY <1>1, <1>5 DEF PeerReceive, TypeOK
  <2>3. Len(got'[q]) = Len(g) + 1 /\ Len(out'[q]) = Len(w) - 1
    <3>1. Head(w) \in Cell /\ Len(Tail(w)) = Len(w) - 1
      BY <2>2, EmptySeq, HeadTailProperties
    <3>2. Len(Append(g, Head(w))) = Len(g) + 1
      BY <2>2, <3>1, Appended
    <3> QED
      BY <2>2, <3>1, <3>2
  <2>4. Len(got'[q]) + Len(out'[q]) = Len(g) + Len(w)
    BY ONLY <2>2, <2>3
  <2>5. \A o \in Peers : o = q \/ o = Other(q)
    BY DEF Other
  <2> QED
    BY <2>1, <2>4, <2>5
<1>6. UNCHANGED <<out, got>> => \A o \in Peers : Len(got'[o]) + Len(out'[o]) = Len(got[o]) + Len(out[o])
  OBVIOUS
<1>7. sent' = sent => \A p \in Peers : sent'[p] \in Nat /\ sent[p] <= sent'[p]
  BY <1>1
<1>8. CASE \E q \in Peers : PeerSend(q)
  BY <1>1, <1>4, <1>6, <1>8
<1>9. CASE \E q \in Peers : PeerReceive(q)
  BY <1>1, <1>5, <1>7, <1>9
<1> QED
  BY <1>2, <1>3, <1>8, <1>9, StreamKinds

(* What an engine takes and keeps of b. *)
LEMMA EngineTakes ==
    ASSUME TypeOK, NEW p \in Peers, NEW b \in Seq(Nat), NEW t \in Nat, Engine(p, b),
           \A i \in 1..Len(b) : b[i] <= t, eaten[p] <= t, \A i \in 1..Len(bio[p]) : bio[p][i] <= t
    PROVE  /\ eaten'[p] <= t /\ \A i \in 1..Len(bio'[p]) : bio'[p][i] <= t
           /\ bio'[Other(p)] = bio[Other(p)] /\ eaten'[Other(p)] = eaten[Other(p)]
<1>1. Len(b) \in Nat /\ eaten[p] \in Nat /\ Parts \in Nat /\ Parts > 0
  BY LenProperties, FlightArith DEF TypeOK
<1>2. CASE ~Whole(b)
  <2>1. bio' = [bio EXCEPT ![p] = b] /\ eaten' = eaten
    BY <1>2 DEF Engine
  <2> QED
    BY <2>1, OtherPeer DEF TypeOK
<1>3. CASE Whole(b) /\ ~Intact(p, b)
  BY <1>3 DEF Engine, tls
<1>4. CASE Whole(b) /\ Intact(p, b)
  <2> PICK c : c = KeptInBio(b)
    OBVIOUS
  <2>1. bio' = [bio EXCEPT ![p] = c] /\ eaten' = [eaten EXCEPT ![p] = @ + Parts]
    BY <1>4 DEF Engine
  <2>2. eaten[p] + Parts <= t
    <3>1. Parts \in 1..Parts /\ Parts \in 1..Len(b)
      BY <1>1, <1>4 DEF Whole
    <3> QED
      BY <1>4, <3>1 DEF Intact
  <2>3. \A i \in 1..Len(c) : c[i] <= t
    <3>1. CASE c = <<>>
      BY <3>1
    <3>2. CASE c = SubSeq(b, Parts + 1, Len(b))
      <4>1. Parts \in 0..Len(b)
        BY <1>1, <1>4 DEF Whole
      <4>2. Len(c) = Len(b) - Parts /\ \A i \in 1..(Len(b) - Parts) : c[i] = b[Parts + i]
        BY <3>2, <4>1, Cut
      <4>3. \A i \in 1..(Len(b) - Parts) : Parts + i \in 1..Len(b)
        BY <1>1
      <4> QED
        BY <4>2, <4>3
    <3> QED
      BY <3>1, <3>2 DEF KeptInBio
  <2>4. bio'[p] = c /\ eaten'[p] = eaten[p] + Parts
        /\ bio'[Other(p)] = bio[Other(p)] /\ eaten'[Other(p)] = eaten[Other(p)]
    BY <2>1, OtherPeer DEF TypeOK
  <2> QED
    BY <2>2, <2>3, <2>4
<1> QED
  BY <1>2, <1>3, <1>4

LEMMA EngineBoundStep ==
    ASSUME TypeOK, HeldInv, InInv, EngineBound, [Next]_vars
    PROVE  EngineBound'
<1>1. CASE UNCHANGED <<bio, eaten>>
  <2> SUFFICES ASSUME NEW p \in Peers
               PROVE  eaten[p] <= sent'[p] /\ \A i \in 1..Len(bio[p]) : bio[p][i] <= sent'[p]
    BY <1>1 DEF EngineBound
  <2>1. /\ sent[p] \in Nat /\ sent'[p] \in Nat /\ sent[p] <= sent'[p] /\ eaten[p] \in Nat
        /\ \A i \in 1..Len(bio[p]) : bio[p][i] \in Nat
    <3>1. bio[p] \in Seq(Nat) /\ eaten[p] \in Nat
      BY DEF TypeOK
    <3> QED
      BY <3>1, Growing, ElementOfSeq
  <2>2. eaten[p] <= sent[p] /\ \A i \in 1..Len(bio[p]) : bio[p][i] <= sent[p]
    BY DEF EngineBound
  <2> QED
    BY <2>1, <2>2
<1>2. CASE EngineReads \/ EngineHolds
  <2> PICK p : p = Waiting
    OBVIOUS
  <2>1. p \in Peers /\ sent' = sent
    BY <1>2, EngineCases
  <2>2. PICK n \in 0..Len(in[p]), b \in Seq(Nat) :
           /\ Engine(p, b)
           /\ Len(b) = Len(bio[p]) + n
           /\ \A i \in 1..Len(bio[p]) : b[i] = bio[p][i]
           /\ \A i \in 1..n : b[Len(bio[p]) + i] = in[p][i]
    BY <1>2, EngineCases
  <2> PICK s, r, t : s = bio[p] /\ r = in[p] /\ t = sent[p]
    OBVIOUS
  <2>3. Len(s) \in Nat /\ Len(r) \in Nat /\ t \in Nat /\ n \in 0..Len(r)
    BY <2>1, LenProperties DEF TypeOK
  <2>4. /\ eaten[p] <= t /\ \A i \in 1..Len(s) : s[i] <= t
        /\ \A i \in 1..n : r[i] <= t
    <3>1. Len(r) <= t /\ \A i \in 1..Len(r) : r[i] = (t - Len(r)) + i
      BY <2>1 DEF InInv, Numbered
    <3>2. \A i \in 1..n : i \in 1..Len(r) /\ (t - Len(r)) + i <= t
      BY <2>3, <3>1
    <3>3. eaten[p] <= t /\ \A i \in 1..Len(s) : s[i] <= t
      BY <2>1 DEF EngineBound
    <3> QED
      BY <3>1, <3>2, <3>3
  <2>5. \A i \in 1..Len(b) : b[i] <= t
    <3> SUFFICES ASSUME NEW i \in 1..(Len(s) + n) PROVE b[i] <= t
      BY <2>2
    <3>1. CASE i <= Len(s)
      BY <2>2, <2>3, <2>4, <3>1
    <3>2. CASE i > Len(s)
      <4>1. i - Len(s) \in 1..n /\ Len(s) + (i - Len(s)) = i
        BY <2>3, <3>2
      <4> QED
        BY <2>2, <2>4, <4>1
    <3> QED
      BY <2>3, <3>1, <3>2
  <2>6. /\ eaten'[p] <= t /\ \A i \in 1..Len(bio'[p]) : bio'[p][i] <= t
        /\ bio'[Other(p)] = bio[Other(p)] /\ eaten'[Other(p)] = eaten[Other(p)]
    BY <2>1, <2>2, <2>3, <2>4, <2>5, EngineTakes
  <2>7. \A q \in Peers : q = p \/ q = Other(p)
    BY <2>1 DEF Other
  <2> QED
    BY <2>1, <2>6, <2>7, OtherPeer DEF EngineBound
<1>3. UNCHANGED <<bio, eaten>> \/ EngineReads \/ EngineHolds
  <2>1. Flush => UNCHANGED <<bio, eaten>>
    BY FlushCases
  <2>2. \A p \in Peers : Parses(p) \/ Relays(p) \/ PeerSend(p) \/ PeerReceive(p) => UNCHANGED <<bio, eaten>>
    BY DEF Parses, Relays, PeerSend, PeerReceive, tls
  <2>3. Stays \/ Moves \/ Begins => UNCHANGED <<bio, eaten>>
    BY DEF Stays, Moves, Begins
  <2> QED
    BY <2>1, <2>2, <2>3, StreamKinds
<1> QED
  BY <1>1, <1>2, <1>3

LEMMA PartsGrow ==
    ASSUME NEW m \in Nat, NEW n \in Nat, m <= n
    PROVE  Parts * m <= Parts * n /\ Parts * m \in Nat /\ Parts * n \in Nat
<1> PICK d \in Nat : n = m + d
  <2>1. n - m \in Nat /\ n = m + (n - m)
    OBVIOUS
  <2> QED
    BY <2>1
<1>1. Parts \in Nat
  BY BoundsAssumption
<1>2. Parts * m \in Nat /\ Parts * d \in Nat /\ Parts * (m + d) = Parts * m + Parts * d
  BY <1>1
<1> QED
  BY <1>2

LEMMA BoundedGrows ==
    ASSUME TypeOK, plan' = plan, told => told', NEW o \in Peers, NEW n \in Nat, NEW m \in Nat, m <= n,
           sent'[Other(o)] \in Nat, sent[Other(o)] <= sent'[Other(o)], Bounded(o, n)
    PROVE  Bounded(o, m)'
<1>1. Parts * m <= Parts * n /\ Parts * m \in Nat /\ Parts * n \in Nat
  BY PartsGrow
<1>2. sent[Other(o)] \in Nat /\ Handshake \in Nat /\ Handshake' = Handshake
  BY OtherPeer DEF TypeOK, Handshake
<1>3. CASE n <= Handshake
  <2>1. m <= Handshake
    BY <1>2, <1>3
  <2> QED
    BY <1>2, <2>1 DEF Bounded
<1>4. CASE told /\ (plan.decrypt => Parts * n <= sent[Other(o)])
  <2>1. plan.decrypt => Parts * m <= sent'[Other(o)]
    BY <1>1, <1>2, <1>4
  <2> QED
    BY <1>4, <2>1 DEF Bounded
<1> QED
  BY <1>3, <1>4 DEF Bounded

(* What the proxy is writing to o it may write: it answers what the other side sent. *)
LEMMA BoundedWrite ==
    ASSUME TypeOK, HeldInv, RawInv, TlsInv, PipeInv, pc = "write", ~plan.upgrade,
           NEW o, o = buf.to, o \in Peers, up[o] # "gone"
    PROVE  Bounded(o, Len(got[o]) + Len(out[o]) + Len(Pend(o)))
<1>1. at = buf.then /\ (at \notin Early => told)
  BY DEF at, PipeInv, ToldInv
<1>2. CASE ~plan.decrypt
  <2>1. at \notin Early
    BY <1>1, <1>2 DEF RawInv, Early, Before
  <2> QED
    BY <1>1, <1>2, <2>1 DEF Bounded
<1>3. CASE plan.decrypt
  <2>1. PICK k, w \in [Peers -> Nat] : Flow(k, w)
    BY <1>3 DEF TlsInv
  <2> PICK q : q = Other(o)
    OBVIOUS
  <2>2. q \in Peers /\ w[o] \in Nat /\ k[q] \in Nat /\ eaten[q] \in Nat /\ sent[q] \in Nat
    BY OtherPeer DEF TypeOK
  <2>3. Len(got[o]) + Len(out[o]) + Len(Pend(o)) = w[o] /\ eaten[q] = Parts * k[q] /\ eaten[q] <= sent[q]
    BY <2>1, <2>2 DEF Flow, PipeInv, EngineBound
  <2>4. w[o] <= 2 \/ (at \notin Early /\ w[o] <= k[q])
    <3>1. Stage(k, w)
      BY <2>1 DEF Flow
    <3>2. k["svr"] \in Nat /\ k["clt"] \in Nat /\ w["svr"] \in Nat /\ w["clt"] \in Nat
      OBVIOUS
    <3>3. (o = "clt" /\ q = "svr") \/ (o = "svr" /\ q = "clt")
      BY OtherPeer
    <3> QED
      BY <3>1, <3>2, <3>3 DEF Stage, Early, Before
  <2>5. CASE w[o] <= 2
    BY <1>3, <2>3, <2>5 DEF Bounded, Handshake
  <2>6. CASE at \notin Early /\ w[o] <= k[q]
    <3>1. Parts * w[o] <= Parts * k[q] /\ Parts * w[o] \in Nat /\ Parts * k[q] \in Nat
      BY <2>2, <2>6, PartsGrow
    <3>2. Parts * w[o] <= sent[q]
      BY <2>2, <2>3, <3>1
    <3> QED
      BY <1>1, <2>3, <2>6, <3>2 DEF Bounded
  <2> QED
    BY <2>4, <2>5, <2>6
<1> QED
  BY <1>2, <1>3

(* Flush puts into the socket of o no more than what is left of the write. *)
LEMMA FlushLengths ==
    ASSUME TypeOK, HeldInv, Flush, NEW o, o = buf.to, NEW q \in Peers
    PROVE  /\ Len(out[q]) \in Nat /\ Len(out'[q]) \in Nat /\ Len(Pend(q)) \in Nat
           /\ Len(out'[q]) <= Len(out[q]) + Len(Pend(q))
           /\ q # o \/ up[o] = "gone" => out'[q] = out[q]
<1>1. TypeOK'
  BY FlushType
<1>2. Len(out[q]) \in Nat /\ Len(out'[q]) \in Nat /\ Len(Pend(q)) \in Nat
  BY <1>1, LenProperties DEF TypeOK, Pend
<1>3. CASE out'[q] = out[q]
  BY <1>2, <1>3
<1>5. q # o \/ up[o] = "gone" => out'[q] = out[q]
  <2>1. UNCHANGED out \/ (up[o] # "gone" /\ \E x : out' = [out EXCEPT ![o] = x])
    BY FlushCases
  <2> QED
    BY <2>1 DEF TypeOK
<1>4. CASE q = o /\ up[o] # "gone"
  <2> PICK w, c : w = out[o] /\ c = buf.cells
    OBVIOUS
  <2>1. w \in Seq(Cell) /\ c \in Seq(Cell) /\ Len(c) \in Nat /\ Len(w) \in Nat /\ Pend(o) = c /\ o \in Peers
    BY <1>4, LenProperties, FlushCases DEF TypeOK, Pend, Flush
  <2> DEFINE Fits == Len(out'[o]) <= Len(w) + Len(c)
  <2>2. ASSUME NEW d \in Seq(Cell), Len(d) \in Nat, Len(d) <= Len(c), out'[o] = w \o d
        PROVE  Fits
    <3>1. w \in Seq(Cell) /\ d \in Seq(Cell) /\ Len(w) \in Nat /\ Len(c) \in Nat /\ Len(d) \in Nat
          /\ Len(d) <= Len(c)
      BY <2>1, <2>2
    <3>2. Len(w \o d) = Len(w) + Len(d)
      BY ONLY <3>1, Glued
    <3>3. Len(w) + Len(d) <= Len(w) + Len(c)
      BY ONLY <3>1
    <3> QED
      BY <2>2, <3>2, <3>3
  <2> HIDE DEF Fits
  <2>3. ASSUME up[o] # "gone", pc' = buf.then, buf' = NoWrite, out' = [out EXCEPT ![o] = @ \o c]
        PROVE  Fits
    <3>1. c \in Seq(Cell) /\ Len(c) \in Nat /\ Len(c) <= Len(c)
      BY <2>1
    <3>2. out'[o] = w \o c
      BY <2>1, <2>3 DEF TypeOK
    <3> QED
      BY ONLY <2>2, <3>1, <3>2
  <2>4. ASSUME NEW n \in 1..(Len(c) - 1), up[o] # "gone", pc' = "write",
               buf' = [buf EXCEPT !.cells = SubSeq(c, n + 1, Len(c))],
               out' = [out EXCEPT ![o] = @ \o SubSeq(c, 1, n)]
        PROVE  Fits
    <3>1. n \in 0..Len(c) /\ n \in Nat /\ n <= Len(c)
      BY <2>1
    <3>2. SubSeq(c, 1, n) \in Seq(Cell) /\ Len(SubSeq(c, 1, n)) = n
      BY <2>1, <3>1, Cut
    <3>3. out'[o] = w \o SubSeq(c, 1, n)
      BY <2>1, <2>4 DEF TypeOK
    <3> QED
      BY ONLY <2>2, <3>1, <3>2, <3>3
  <2>5. Fits
    BY <1>4, <2>3, <2>4, FlushCases
  <2> QED
    BY <1>2, <1>4, <2>1, <2>5, <1>5 DEF Fits
<1> QED
  BY <1>2, <1>3, <1>4, <1>5

LEMMA PipeInvStep ==
    ASSUME TypeOK, HeldInv, InInv, RawInv, TlsInv, PipeInv, [Next]_vars
    PROVE  PipeInv'
<1>1. plan' = plan
  BY Growing
<1>2. ToldInv' /\ EngineBound'
  BY ToldInvStep, EngineBoundStep DEF PipeInv
<1>3. told => told'
  <2>1. told \in BOOLEAN
    BY DEF TypeOK
  <2> QED
    BY <2>1, ToldStep
<1>4. ASSUME NEW o \in Peers, ~plan.upgrade PROVE Bounded(o, Len(got[o]) + Len(out[o]))'
  <2> PICK g, u, g2, u2 : g = Len(got[o]) /\ u = Len(out[o]) /\ g2 = Len(got'[o]) /\ u2 = Len(out'[o])
    OBVIOUS
  <2> PICK n, m : n = g + u /\ m = g2 + u2
    OBVIOUS
  <2>1. TypeOK'
    BY TypeStep
  <2>2. g \in Nat /\ u \in Nat /\ g2 \in Nat /\ u2 \in Nat
    BY <2>1, LenProperties DEF TypeOK
  <2>3. n \in Nat /\ m \in Nat
    <3>1. n = g + u /\ m = g2 + u2
      OBVIOUS
    <3> QED
      BY ONLY <2>2, <3>1
  <2>4. sent'[Other(o)] \in Nat /\ sent[Other(o)] <= sent'[Other(o)]
    BY OtherPeer, Growing
  <2>5. Bounded(o, n)
    BY <1>4 DEF PipeInv
  <2>6. ASSUME NEW r \in Nat, Bounded(o, r), m <= r PROVE Bounded(o, m)'
    BY <1>1, <1>3, <2>3, <2>4, <2>6, BoundedGrows
  <2>7. CASE m = n
    <3>1. m <= n
      BY ONLY <2>3, <2>7
    <3> QED
      BY <2>3, <2>5, <2>6, <3>1
  <2>8. CASE Flush /\ o = buf.to /\ up[o] # "gone"
    <3> PICK e : e = Len(Pend(o))
      OBVIOUS
    <3> PICK r : r = g + u + e
      OBVIOUS
    <3>1. pc = "write" /\ got' = got
      BY <2>8, FlushCases DEF Flush
    <3>2. Bounded(o, r)
      BY <1>4, <2>8, <3>1, BoundedWrite
    <3>3. e \in Nat /\ u2 <= u + e /\ g2 = g
      BY <2>8, <3>1, FlushLengths
    <3>4. r \in Nat /\ m <= r
      <4>1. r = g + u + e /\ m = g2 + u2
        OBVIOUS
      <4> QED
        BY ONLY <2>2, <3>3, <4>1
    <3> QED
      BY <2>6, <3>2, <3>4
  <2>9. CASE Flush /\ ~(o = buf.to /\ up[o] # "gone")
    <3>1. got' = got /\ out'[o] = out[o]
      BY <2>9, FlushCases, FlushLengths
    <3> QED
      BY <2>7, <3>1
  <2>10. CASE ~Flush
    BY <2>7, <2>10, Growing
  <2>11. Bounded(o, m)'
    BY <2>8, <2>9, <2>10
  <2> QED
    BY <2>11 DEF Bounded
<1> QED
  BY <1>1, <1>2, <1>4 DEF PipeInv

-----------------------------------------------------------------------------
(* The steps of the link are steps of the pipe *)

(* n consecutive pieces, the first of them after piece c. *)
Run(c, n) == [i \in 1..n |-> c + i]

LEMMA RunAppended ==
    ASSUME NEW c \in Nat, NEW n \in Nat
    PROVE  /\ Run(c, n) \in Seq(Nat) /\ Len(Run(c, n)) = n
           /\ Append(Run(c, n), c + n + 1) = Run(c, n + 1)
<1> PICK s, t, u : s = Run(c, n) /\ t = Run(c, n + 1) /\ u = Append(s, c + n + 1)
  OBVIOUS
<1>1. s \in [1..n -> Nat] /\ t \in [1..(n + 1) -> Nat] /\ c + n + 1 \in Nat /\ n + 1 \in Nat
  BY DEF Run
<1>2. s \in Seq(Nat) /\ Len(s) = n /\ t \in Seq(Nat) /\ Len(t) = n + 1
  BY <1>1, Listed
<1>3. u \in Seq(Nat) /\ Len(u) = n + 1 /\ u[n + 1] = c + n + 1 /\ \A i \in 1..n : u[i] = s[i]
  BY <1>1, <1>2, Appended
<1>4. \A i \in 1..(n + 1) : u[i] = t[i]
  <2> SUFFICES ASSUME NEW i \in 1..(n + 1) PROVE u[i] = t[i]
    OBVIOUS
  <2>1. t[i] = c + i
    BY DEF Run
  <2>2. CASE i = n + 1
    BY <1>3, <2>1, <2>2
  <2>3. CASE i # n + 1
    <3>1. i \in 1..n
      BY <2>3
    <3>2. s[i] = c + i
      BY <3>1 DEF Run
    <3> QED
      BY <1>3, <2>1, <3>1, <3>2
  <2> QED
    BY <2>2, <2>3
<1>5. u = t
  BY <1>2, <1>3, <1>4, SeqEqual
<1> QED
  BY <1>2, <1>5

(* What a peer received of a stream, without the handshake, is a run of pieces. *)
LEMMA RenumberedRun ==
    ASSUME TypeOK, ~plan.upgrade, NEW g \in Seq(Cell), NEW m, NEW b \in Nat, Marked(g, m, b)
    PROVE  Pieces(Len(g)) \in Nat /\ Renumbered(g) = Run(b, Pieces(Len(g)))
<1> PICK h, l, n : h = Handshake /\ l = Len(g) /\ n = Pieces(l)
  OBVIOUS
<1>1. h \in Nat /\ l \in Nat
  BY LenProperties DEF Handshake
<1>2. n \in Nat /\ \A i \in 1..n : i + h \in 1..l
  BY <1>1 DEF Pieces
<1>3. ASSUME NEW i \in 1..n PROVE g[i + h][2] - h = b + i
  <2>1. g[i + h] = <<m, b + (i + h)>>
    BY <1>2 DEF Marked
  <2>2. g[i + h][2] = b + (i + h)
    BY <2>1
  <2>3. b \in Nat /\ i \in Int /\ h \in Nat
    BY <1>1, <1>2
  <2> PICK v : v = g[i + h][2]
    OBVIOUS
  <2>4. v = b + (i + h)
    BY <2>2
  <2>5. v - h = b + i
    BY ONLY <2>3, <2>4
  <2> QED
    BY <2>5
<1>4. Renumbered(g) = [i \in 1..n |-> g[i + h][2] - h]
  BY DEF Renumbered
<1> QED
  BY <1>2, <1>3, <1>4 DEF Run

(* A step that sends nothing and parses nothing, and what it leaves of the mapping. *)
LEMMA PipeFrame ==
    ASSUME plan' = plan
    PROVE  /\ \A n : Units(n)' = Units(n) /\ Pieces(n)' = Pieces(n)
           /\ \A g : Renumbered(g)' = Renumbered(g)
           /\ UNCHANGED sent => UNCHANGED PipeSent
           /\ UNCHANGED parser => UNCHANGED PipeLost
           /\ UNCHANGED got => UNCHANGED PipeGot
<1>1. Handshake' = Handshake
  BY DEF Handshake
<1>2. \A n : Units(n)' = Units(n) /\ Pieces(n)' = Pieces(n)
  BY <1>1 DEF Units, Pieces
<1>3. \A g : Renumbered(g)' = Renumbered(g)
  BY <1>1 DEF Renumbered, Pieces
<1>4. UNCHANGED sent => UNCHANGED PipeSent
  BY <1>1 DEF PipeSent, Units, Pieces
<1>5. UNCHANGED parser => UNCHANGED PipeLost
  BY DEF PipeLost
<1>6. UNCHANGED got => UNCHANGED PipeGot
  BY <1>1 DEF PipeGot, Renumbered, Pieces
<1> QED
  BY <1>2, <1>3, <1>4, <1>5, <1>6

(* A peer sends a cell or a flight: one more piece, or a part of the handshake. *)
LEMMA PipeSends ==
    ASSUME TypeOK, NEW p \in Peers, PeerSend(p)
    PROVE  [Pipe!Next]_(Pipe!vars)
<1> PICK k : k = IF plan.decrypt THEN Parts ELSE 1
  OBVIOUS
<1> PICK s : s = sent[p]
  OBVIOUS
<1> PICK x : x = Pieces(Units(s))
  OBVIOUS
<1> PICK y : y = Pieces(Units(s + k))
  OBVIOUS
<1>1. UNCHANGED <<plan, parser, told, got>> /\ sent' = [sent EXCEPT ![p] = s + k]
  BY DEF PeerSend
<1>2. s \in Nat /\ k \in Nat /\ Parts \in Nat /\ Parts > 0
  BY FlightArith DEF TypeOK
<1>3. UNCHANGED <<PipeLost, told, PipeGot>>
  BY <1>1, PipeFrame
<1>4. PipeSent' = [PipeSent EXCEPT ![p] = y]
  <2>1. PipeSent' = [q \in Peers |-> Pieces(Units(sent'[q]))]
    BY <1>1 DEF PipeSent, Pieces, Units, Handshake
  <2>2. sent'[p] = s + k /\ \A q \in Peers : q # p => sent'[q] = sent[q]
    BY <1>1 DEF TypeOK
  <2> QED
    BY <2>1, <2>2 DEF PipeSent
<1>5. y = x \/ y = x + 1
  <2>1. Units(s) \in Nat /\ Units(s + k) = Units(s) + 1
    <3>1. CASE plan.decrypt
      <4>1. s \div Parts \in Nat /\ (s + Parts) \div Parts = s \div Parts + 1
        BY ONLY <1>2, Z3
      <4> QED
        BY <3>1, <4>1 DEF Units
    <3>2. CASE ~plan.decrypt
      BY <1>2, <3>2 DEF Units
    <3> QED
      BY <3>1, <3>2
  <2> PICK u : u = Units(s)
    OBVIOUS
  <2>2. u \in Nat /\ x = Pieces(u) /\ y = Pieces(u + 1)
    BY <2>1
  <2>3. CASE plan.upgrade
    BY <2>2, <2>3 DEF Pieces
  <2>4. CASE ~plan.upgrade
    <3>1. Handshake \in Nat
      BY DEF Handshake
    <3> QED
      BY <2>2, <2>4, <3>1 DEF Pieces
  <2> QED
    BY <2>3, <2>4
<1>6. PipeSent[p] = x /\ p \in Pipe!Sides /\ PipeSent = [q \in Peers |-> PipeSent[q]]
  BY DEF PipeSent, Pipe!Sides, Peers
<1>7. CASE y = x
  <2>1. PipeSent' = PipeSent
    BY <1>4, <1>6, <1>7
  <2> QED
    BY <1>3, <2>1 DEF Pipe!vars
<1>8. CASE y = x + 1
  <2>1. PipeSent' = [PipeSent EXCEPT ![p] = @ + 1]
    BY <1>4, <1>6, <1>8
  <2>2. Pipe!Send(p)
    BY <1>3, <2>1 DEF Pipe!Send
  <2> QED
    BY <1>6, <2>2 DEF Pipe!Next
<1> QED
  BY <1>5, <1>7, <1>8

(* A parser keeps cells that came with its message: they are lost to the tunnel. *)
LEMMA PipeParses ==
    ASSUME TypeOK, HeldInv, InInv, ParserInv, PipeInv, [Next]_vars, NEW p \in Peers, Parses(p)
    PROVE  [Pipe!Next]_(Pipe!vars)
<1> PICK n \in 0..Len(in[p]) : Took(p, n) /\ parser' = [parser EXCEPT ![p] = SubSeq(in[p], 1, n)]
  BY DEF Parses
<1>1. UNCHANGED <<plan, sent, got>> /\ parser[p] = <<>> /\ at \in Early /\ at' \in Early
  BY DEF Parses, ParserInv, Before, Early, at, Peers
<1>2. ~told /\ told' = told
  <2>1. ToldInv /\ ToldInv' /\ told \in BOOLEAN /\ told' \in BOOLEAN
    BY ToldInvStep, TypeStep DEF PipeInv, TypeOK
  <2> QED
    BY <1>1, <2>1 DEF ToldInv
<1>3. UNCHANGED <<PipeSent, told, PipeGot>>
  BY <1>1, <1>2, PipeFrame
<1>4. n \in Nat /\ Len(parser'[p]) = n /\ \A q \in Peers : q # p => parser'[q] = parser[q]
  <2>1. Len(in[p]) \in Nat /\ Len(SubSeq(in[p], 1, n)) = n
    BY TookType
  <2> QED
    BY <2>1 DEF TypeOK
<1>5. CASE plan.decrypt
  <2>1. UNCHANGED PipeLost
    BY <1>1, <1>5 DEF PipeLost
  <2> QED
    BY <1>3, <2>1 DEF Pipe!vars
<1>6. CASE ~plan.decrypt
  <2>1. PipeLost = [q \in Peers |-> Len(parser[q])] /\ PipeLost' = [q \in Peers |-> Len(parser'[q])]
    BY <1>1, <1>6 DEF PipeLost
  <2>2. PipeLost' = [PipeLost EXCEPT ![p] = n] /\ PipeLost[p] = 0
    BY <1>1, <1>4, <2>1
  <2>3. CASE n = 0
    <3>1. UNCHANGED PipeLost
      BY <2>1, <2>2, <2>3
    <3> QED
      BY <1>3, <3>1 DEF Pipe!vars
  <2>4. CASE n # 0
    <3>1. PipeSent[p] = sent[p]
      <4>1. ~plan.upgrade /\ sent[p] \in Nat
        BY <1>6 DEF PipeInv, TypeOK
      <4> QED
        BY <1>6, <4>1 DEF PipeSent, Pieces, Units, Handshake
    <3>2. n \in 1..PipeSent[p] /\ p \in Pipe!Sides
      <4>1. Len(in[p]) <= sent[p] /\ Len(in[p]) \in Nat /\ sent[p] \in Nat
        BY LenProperties DEF InInv, TypeOK
      <4> QED
        BY <1>4, <2>4, <3>1, <4>1 DEF Pipe!Sides, Peers
    <3>3. Pipe!Lose(p)
      BY <1>2, <1>3, <2>2, <3>2 DEF Pipe!Lose
    <3> QED
      BY <3>2, <3>3 DEF Pipe!Next
  <2> QED
    BY <2>3, <2>4
<1> QED
  BY <1>5, <1>6

(* The last cell the proxy put into o's socket was there to be read. *)
LEMMA PipeDue ==
    ASSUME TypeOK, RawInv, PipeInv, ~plan.upgrade, NEW o \in Peers, up[o] # "gone", out[o] # <<>>,
           NEW l, l = Len(got[o]), NEW b, b = IF plan.decrypt THEN 0 ELSE Len(parser[Other(o)]),
           Pieces(l + 1) # 0
    PROVE  told /\ b + Pieces(l + 1) <= PipeSent[Other(o)]
<1> PICK p : p = Other(o)
  OBVIOUS
<1> PICK u : u = Len(out[o])
  OBVIOUS
<1> PICK s : s = sent[p]
  OBVIOUS
<1>1. p \in Peers /\ Other(p) = o /\ s \in Nat /\ l \in Nat /\ u \in Nat /\ u >= 1
  <2>1. p \in Peers /\ Other(p) = o
    BY OtherPeer
  <2>2. out[o] \in Seq(Cell) /\ got[o] \in Seq(Cell) /\ s \in Nat
    BY <2>1 DEF TypeOK
  <2>3. l \in Nat /\ u \in Nat
    BY <2>2, LenProperties
  <2>4. u # 0
    BY <2>2, EmptySeq
  <2> QED
    BY <2>1, <2>2, <2>3, <2>4
<1>2. Bounded(o, l + u)
  BY DEF PipeInv
<1> PICK h : h = Handshake
  OBVIOUS
<1> PICK r : r = l + u
  OBVIOUS
<1>3. h \in Nat /\ l + 1 > h /\ Pieces(l + 1) = l + 1 - h
  <2>1. h \in Nat
    BY DEF Handshake
  <2> PICK j : j = l + 1
    OBVIOUS
  <2>2. ~(j <= h) /\ Pieces(j) = j - h
    BY DEF Pieces
  <2> QED
    BY <1>1, <2>1, <2>2
<1>8. r \in Nat /\ l + 1 <= r /\ ~(r <= h)
  <2>1. r = l + u
    OBVIOUS
  <2> QED
    BY ONLY <1>1, <1>3, <2>1
<1>4. told /\ (plan.decrypt => Parts * r <= s)
  BY <1>2, <1>8 DEF Bounded
<1>5. PipeSent[p] = Pieces(Units(s))
  BY <1>1 DEF PipeSent
<1>6. CASE plan.decrypt
  <2>1. Parts * (l + 1) <= s
    <3> PICK j : j = l + 1
      OBVIOUS
    <3>1. j \in Nat /\ j <= r
      BY <1>1, <1>8
    <3>2. Parts * j <= Parts * r /\ Parts * j \in Nat /\ Parts * r \in Nat
      BY ONLY <1>8, <3>1, PartsGrow
    <3> PICK y, z : y = Parts * j /\ z = Parts * r
      OBVIOUS
    <3>3. y <= z /\ y \in Nat /\ z \in Nat /\ z <= s
      BY <1>4, <1>6, <3>2
    <3>4. y <= s
      BY ONLY <1>1, <3>3
    <3> QED
      BY <3>4
  <2> PICK d : d = s \div Parts
    OBVIOUS
  <2>2. d \in Nat /\ l + 1 <= d
    <3>1. Parts \in Nat /\ Parts > 0
      BY FlightArith
    <3>2. s \div Parts \in Nat /\ l + 1 <= s \div Parts
      BY ONLY <1>1, <2>1, <3>1, Z3
    <3> QED
      BY <3>2
  <2>3. Units(s) = d /\ Handshake = 2
    BY <1>6 DEF Units, Handshake
  <2>4. Pieces(d) = d - 2
    BY <1>1, <1>3, <2>2, <2>3 DEF Pieces
  <2>5. b = 0
    BY <1>6
  <2> QED
    BY <1>1, <1>3, <1>4, <1>5, <2>2, <2>3, <2>4, <2>5
<1>7. CASE ~plan.decrypt
  <2> PICK e, i : e = Len(Pend(o)) /\ i = Len(in[p])
    OBVIOUS
  <2>1. b \in Nat /\ e \in Nat /\ i \in Nat
    BY <1>1, <1>7, RawLengths
  <2>2. b + l + u + e + i = s
    BY <1>1, <1>7 DEF RawInv, RawStream
  <2>3. Units(s) = s /\ Handshake = 0
    BY <1>7 DEF Units, Handshake
  <2>4. b + (l + 1) <= s
    BY ONLY <1>1, <2>1, <2>2
  <2>5. Pieces(s) = s /\ Pieces(l + 1) = l + 1
    BY <1>1, <1>3, <2>3 DEF Pieces
  <2> QED
    BY <1>4, <1>5, <2>3, <2>4, <2>5
<1> QED
  BY <1>6, <1>7

(* A peer receives: the next piece of the other one's stream, or a part of the handshake. *)
LEMMA PipeReceives ==
    ASSUME TypeOK, RawInv, TlsInv, PipeInv, NEW o \in Peers, PeerReceive(o)
    PROVE  [Pipe!Next]_(Pipe!vars)
<1> PICK p : p = Other(o)
  OBVIOUS
<1> PICK g : g = got[o]
  OBVIOUS
<1> PICK g2 : g2 = Append(g, Head(out[o]))
  OBVIOUS
<1> PICK l : l = Len(g)
  OBVIOUS
<1>1. /\ UNCHANGED <<plan, parser, told, sent>> /\ got' = [got EXCEPT ![o] = g2]
      /\ out[o] # <<>> /\ up[o] # "gone"
  BY DEF PeerReceive
<1>2. p \in Peers /\ Other(p) = o /\ g \in Seq(Cell) /\ l \in Nat /\ g2 \in Seq(Cell) /\ Len(g2) = l + 1
  <2>1. p \in Peers /\ Other(p) = o
    BY OtherPeer
  <2>2. g \in Seq(Cell) /\ out[o] \in Seq(Cell)
    BY DEF TypeOK
  <2>3. Head(out[o]) \in Cell
    BY <1>1, <2>2, HeadTailProperties
  <2>4. g2 \in Seq(Cell) /\ Len(g2) = Len(g) + 1 /\ Len(g) \in Nat
    BY <2>2, <2>3, AppendProperties, LenProperties
  <2> QED
    BY <2>1, <2>2, <2>4
<1>3. UNCHANGED <<PipeSent, PipeLost, told>>
  BY <1>1, PipeFrame
<1>4. PipeGot' = [PipeGot EXCEPT ![o] = Renumbered(g2)] /\ PipeGot[o] = Renumbered(g)
  <2>1. PipeGot' = [q \in Peers |-> Renumbered(got'[q])]
    BY <1>1 DEF PipeGot, Renumbered, Pieces, Handshake
  <2>2. got'[o] = g2 /\ \A q \in Peers : q # o => got'[q] = got[q]
    BY <1>1 DEF TypeOK
  <2> QED
    BY <2>1, <2>2 DEF PipeGot
<1>5. ASSUME Renumbered(g2) = Renumbered(g) PROVE UNCHANGED Pipe!vars
  <2>1. PipeGot = [q \in Peers |-> PipeGot[q]]
    BY DEF PipeGot
  <2>2. PipeGot' = PipeGot
    BY <1>4, <1>5, <2>1
  <2> QED
    BY <1>3, <2>2 DEF Pipe!vars
<1>6. CASE Pieces(l + 1) = 0
  <2>1. Pieces(l) = 0
    <3>1. Handshake \in Nat
      BY DEF Handshake
    <3> QED
      BY <1>2, <1>6, <3>1 DEF Pieces
  <2>2. Renumbered(g2) = Renumbered(g)
    BY <1>2, <1>6, <2>1 DEF Renumbered
  <2> QED
    BY <1>5, <2>2
<1>7. CASE Pieces(l + 1) # 0
  <2>1. ~plan.upgrade
    BY <1>7 DEF Pieces
  <2> PICK b : b = IF plan.decrypt THEN 0 ELSE Len(parser[p])
    OBVIOUS
  <2> PICK m : m = IF plan.decrypt THEN "tls" ELSE "raw"
    OBVIOUS
  <2>2. b \in Nat /\ Contig(o, m, b)
    <3>1. CASE plan.decrypt
      BY <2>1, <3>1 DEF TlsInv
    <3>2. CASE ~plan.decrypt
      <4>1. RawStream(p) /\ Len(parser[p]) \in Nat
        BY <1>2, <3>2, RawLengths DEF RawInv
      <4> QED
        BY <1>2, <3>2, <4>1 DEF RawStream
    <3> QED
      BY <3>1, <3>2
  <2>3. Marked(g, m, b) /\ Marked(g2, m, b)
    <3>1. Contig(o, m, b)'
      BY <2>2, ReceiveEffect
    <3>2. got'[o] = g2
      BY <1>1 DEF TypeOK
    <3> QED
      BY <2>2, <3>1, <3>2 DEF Contig
  <2> PICK x : x = Pieces(l)
    OBVIOUS
  <2> PICK y : y = Pieces(l + 1)
    OBVIOUS
  <2>4. x \in Nat /\ Renumbered(g) = Run(b, x) /\ Renumbered(g2) = Run(b, y)
    BY <1>2, <2>1, <2>2, <2>3, RenumberedRun
  <2>5. y = x + 1
    <3>1. Handshake \in Nat
      BY DEF Handshake
    <3> QED
      BY <1>2, <1>7, <2>1, <3>1 DEF Pieces
  <2>6. told /\ b + y <= PipeSent[p]
    BY <1>1, <1>7, <2>1, PipeDue
  <2>7. o \in Pipe!Sides /\ Pipe!Across(o) = p /\ PipeLost[p] = b
    BY <1>2 DEF Pipe!Sides, Pipe!Across, Peers, Other, PipeLost
  <2>8. PipeGot[o] = Run(b, x) /\ Len(PipeGot[o]) = x /\ Append(PipeGot[o], b + x + 1) = Run(b, y)
    <3>1. PipeGot[o] = Run(b, x)
      BY <1>4, <2>4
    <3>2. Len(Run(b, x)) = x /\ Append(Run(b, x), b + x + 1) = Run(b, x + 1)
      BY ONLY <2>2, <2>4, RunAppended
    <3> QED
      BY <2>5, <3>1, <3>2
  <2>9. Pipe!Due(o) = b + x + 1
    BY <2>7, <2>8 DEF Pipe!Due
  <2>10. Pipe!Due(o) <= PipeSent[Pipe!Across(o)]
    <3>1. b + x + 1 = b + y
      BY ONLY <2>2, <2>4, <2>5
    <3> QED
      BY <2>6, <2>7, <2>9, <3>1
  <2>11. PipeGot' = [PipeGot EXCEPT ![o] = Append(PipeGot[o], Pipe!Due(o))]
    BY <1>4, <2>4, <2>8, <2>9
  <2>12. Pipe!Receive(o)
    BY <1>3, <2>6, <2>10, <2>11 DEF Pipe!Receive
  <2> QED
    BY <2>7, <2>12 DEF Pipe!Next
<1> QED
  BY <1>6, <1>7

LEMMA PipeStep ==
    ASSUME TypeOK, HeldInv, InInv, ParserInv, RawInv, TlsInv, PipeInv, [Next]_vars
    PROVE  [Pipe!Next]_(Pipe!vars)
<1>1. CASE Stays \/ Moves \/ Begins \/ Flush \/ EngineReads \/ EngineHolds \/ \E p \in Peers : Relays(p)
  <2>1. UNCHANGED <<plan, sent, parser, got>>
    <3>1. Flush => UNCHANGED <<plan, sent, parser, got>>
      BY FlushCases
    <3>2. EngineReads \/ EngineHolds => UNCHANGED <<plan, sent, parser, got>>
      BY EngineCases
    <3> QED
      BY <1>1, <3>1, <3>2 DEF Stays, Moves, Begins, Relays
  <2>2. UNCHANGED <<PipeSent, PipeLost, PipeGot>>
    BY <2>1, PipeFrame
  <2>3. told' = told \/ (~told /\ told' = TRUE)
    <3>1. told \in BOOLEAN /\ told' \in BOOLEAN
      BY TypeStep DEF TypeOK
    <3>2. told => told'
      BY <3>1, ToldStep
    <3> QED
      BY <3>1, <3>2
  <2>4. CASE told' = told
    BY <2>2, <2>4 DEF Pipe!vars
  <2>5. CASE ~told /\ told' = TRUE
    BY <2>2, <2>5 DEF Pipe!Open, Pipe!Next
  <2> QED
    BY <2>3, <2>4, <2>5
<1>2. CASE \E p \in Peers : Parses(p)
  BY <1>2, PipeParses
<1>3. CASE \E p \in Peers : PeerSend(p) \/ PeerReceive(p)
  BY <1>3, PipeSends, PipeReceives
<1> QED
  BY <1>1, <1>2, <1>3, StreamKinds

LEMMA PipeInit == Init => PipeInv /\ Pipe!Init
<1> SUFFICES ASSUME Init PROVE PipeInv /\ Pipe!Init
  OBVIOUS
<1>1. /\ plan.upgrade => plan.decrypt
      /\ pc = "parse_connect" /\ told = FALSE
      /\ \A p \in Peers : /\ sent[p] = 0 /\ got[p] = <<>> /\ out[p] = <<>>
                          /\ bio[p] = <<>> /\ eaten[p] = 0 /\ parser[p] = <<>>
  BY DEF Init, Both
<1>2. Len(<<>>) = 0 /\ 0 + 0 = 0 /\ Handshake \in Nat /\ 0 \div Parts = 0
  BY FlightArith DEF Handshake
<1>3. PipeInv
  <2>1. ToldInv
    BY <1>1 DEF ToldInv, at, Early, Before
  <2>2. EngineBound
    BY <1>1, <1>2 DEF EngineBound
  <2>3. \A o \in Peers : Bounded(o, Len(got[o]) + Len(out[o]))
    <3>1. 0 <= Handshake
      BY <1>2
    <3>2. \A o : Bounded(o, 0)
      BY <3>1 DEF Bounded
    <3>3. \A o \in Peers : Len(got[o]) + Len(out[o]) = 0
      BY <1>1, <1>2
    <3> QED
      BY <3>2, <3>3
  <2> QED
    BY <1>1, <2>1, <2>2, <2>3 DEF PipeInv
<1>4. Pieces(0) = 0 /\ Units(0) = 0
  BY <1>2 DEF Pieces, Units
<1>5. PipeSent = [p \in Peers |-> 0] /\ PipeLost = [p \in Peers |-> 0]
  BY <1>1, <1>2, <1>4 DEF PipeSent, PipeLost
<1>6. PipeGot = [p \in Peers |-> <<>>]
  <2>1. \A p \in Peers : Renumbered(got[p]) = <<>>
    <3> SUFFICES ASSUME NEW p \in Peers PROVE Renumbered(got[p]) = <<>>
      OBVIOUS
    <3>1. Renumbered(got[p]) = [i \in 1..0 |-> got[p][i + Handshake][2] - Handshake]
      BY <1>1, <1>2, <1>4 DEF Renumbered
    <3> QED
      BY <3>1
  <2> QED
    BY <2>1 DEF PipeGot
<1> QED
  BY <1>1, <1>3, <1>5, <1>6 DEF Pipe!Init, Pipe!Sides, Peers

(***************************************************************************)
(* ImplementsPipe for all constants: whichever way a CONNECT is served,    *)
(* through a next hop or not, and however the reads and writes of pass, of *)
(* the parsers and of the TLS engines cut the streams, client and server   *)
(* see a pipe.  Nothing is delivered before the client has its 200, and    *)
(* nothing that was not sent; after the 200 nothing is lost, doubled or    *)
(* reordered.                                                              *)
(***************************************************************************)
THEOREM LinkImplementsPipe == Spec => ImplementsPipe
<1>1. Init => StreamInv /\ PipeInv /\ Pipe!Init
  BY InitType, StreamsInit, PipeInit DEF StreamInv
<1>2. StreamInv /\ PipeInv /\ [Next]_vars => (StreamInv /\ PipeInv)'
  BY TypeStep, InStep, RawStep, TlsStep, PipeInvStep DEF StreamInv
<1>3. StreamInv /\ PipeInv /\ [Next]_vars => [Pipe!Next]_(Pipe!vars)
  BY PipeStep DEF StreamInv
<1> QED
  BY <1>1, <1>2, <1>3, PTL DEF Spec, SilentSpec, ImplementsPipe, Pipe!Spec

-----------------------------------------------------------------------------
(* The end of a tunnel *)

Raw(c) == \A i \in 1..Len(c) : c[i][1] = "raw"

(* What poll reported and pass has not yet read is still there to be read. *)
ReadyInv == at = "pass" => ready # {} /\ \A p \in ready : Readable(p)

Drained(p) ==
    /\ up[p] # "open"
    /\ \/ Len(parser[p]) + Len(got[Other(p)]) + Len(out[Other(p)]) = sent[p]
       \/ up[Other(p)] = "gone"

(* A tunnel writes raw cells only, so that no failing write ends it: only pass does. *)
DrainInv ==
    ~plan.decrypt =>
        /\ ReadyInv
        /\ pc = "write" => Raw(buf.cells)
        /\ told /\ pc \in {"closed", "freed"} => \E p \in Peers : Drained(p)

(* A peer that has closed does not come back. *)
LEMMA UpStep ==
    ASSUME TypeOK, [Next]_vars, NEW p \in Peers
    PROVE  (up[p] # "open" => up'[p] # "open") /\ (up[p] = "gone" => up'[p] = "gone")
<1>1. CASE UNCHANGED up
  BY <1>1
<1>2. CASE HopAnswers
  BY <1>2 DEF HopAnswers, TypeOK
<1>3. ASSUME NEW q \in Peers, PeerReceive(q) \/ PeerCloses(q)
      PROVE  (up[p] # "open" => up'[p] # "open") /\ (up[p] = "gone" => up'[p] = "gone")
  <2>1. CASE PeerReceive(q)
    BY <2>1 DEF PeerReceive, TypeOK
  <2>2. CASE PeerCloses(q)
    BY <2>2 DEF PeerCloses, TypeOK
  <2> QED
    BY <1>3, <2>1, <2>2
<1>4. CASE UNCHANGED vars
  BY <1>1, <1>4 DEF vars, peers
<1>5. ProxyStep \/ dns_callback => UNCHANGED up
  <2>1. ParseConnect \/ do_resolve \/ Resolved \/ ConnectFails \/ Connected => UNCHANGED up
    BY DEF ParseConnect, do_resolve, Resolved, ConnectFails, Connected, peers
  <2>2. HopReply \/ Established \/ ReadFails \/ Poll \/ pass \/ Flush \/ Free => UNCHANGED up
    BY DEF HopReply, Established, ReadFails, Poll, pass, Flush, Free, peers
  <2>3. EngineReads \/ EngineHolds \/ dns_callback => UNCHANGED up
    BY DEF EngineReads, EngineHolds, dns_callback, peers
  <2> QED
    BY <2>1, <2>2, <2>3 DEF ProxyStep
<1>6. \A q \in Peers : PeerSend(q) => UNCHANGED up
  BY DEF PeerSend
<1> QED
  BY <1>1, <1>2, <1>3, <1>4, <1>5, <1>6 DEF Next

(* What pass does: it reads the first socket that poll reported. *)
LEMMA PassCases ==
    ASSUME TypeOK, pass, ~plan.decrypt, ready # {}
    PROVE  \E p \in ready :
              /\ p \in Peers /\ pc = "pass" /\ ready' = ready \ {p}
              /\ UNCHANGED <<plan, out, parser, told, sent, got, up>>
              /\ \/ in[p] = <<>> /\ pc' = "closed" /\ UNCHANGED in
                 \/ /\ in'[Other(p)] = in[Other(p)] /\ pc' = "write"
                    /\ Raw(buf'.cells) /\ buf'.then = IF ready' = {} THEN "poll" ELSE "pass"
<1> PICK p : p = IF "clt" \in ready THEN "clt" ELSE "svr"
  OBVIOUS
<1> PICK n : n = IF Len(in[p]) < IOBUFSIZE THEN Len(in[p]) ELSE IOBUFSIZE
  OBVIOUS
<1>1. p \in ready /\ p \in Peers
  BY DEF TypeOK
<1>2. pc = "pass" /\ ready' = ready \ {p} /\ UNCHANGED <<plan, out, parser, told, sent, got, up>>
  BY DEF pass, peers
<1>3. CASE in[p] = <<>>
  <2>1. pc' = "closed" /\ UNCHANGED in
    BY <1>3 DEF pass, StreamEnds
  <2> QED
    BY <1>1, <1>2, <1>3, <2>1
<1>4. CASE in[p] # <<>>
  <2>1. /\ Took(p, n)
        /\ Write(Other(p), [i \in 1..n |-> <<"raw", in[p][i]>>], IF ready' = {} THEN "poll" ELSE "pass")
    BY <1>4 DEF pass, StreamEnds
  <2>2. n \in Nat /\ n \in 0..Len(in[p])
    BY <1>1, BoundsAssumption, LenProperties DEF TypeOK
  <2>3. in'[Other(p)] = in[Other(p)]
    BY <1>1, <2>1, <2>2, TookType
  <2> PICK c : c = [i \in 1..n |-> <<"raw", in[p][i]>>]
    OBVIOUS
  <2>4. Raw(c)
    <3>1. in[p] \in Seq(Nat)
      BY <1>1 DEF TypeOK
    <3>2. \A i \in 1..n : c[i] = <<"raw", in[p][i]>> /\ in[p][i] \in Nat
      BY <2>2, <3>1, ElementOfSeq
    <3>3. c \in [1..n -> Cell]
      BY <3>2 DEF Cell
    <3>4. Len(c) = n
      BY <2>2, <3>3, Listed
    <3> QED
      BY <3>2, <3>4 DEF Raw
  <2>5. pc' = "write" /\ buf'.cells = c /\ buf'.then = IF ready' = {} THEN "poll" ELSE "pass"
    BY <2>1 DEF Write
  <2> QED
    BY <1>1, <1>2, <2>3, <2>4, <2>5
<1> QED
  BY <1>3, <1>4

(* A write that goes on, ends or fails leaves a tunnel where it is. *)
LEMMA TunnelFlush ==
    ASSUME TypeOK, HeldInv, Flush, Raw(buf.cells)
    PROVE  /\ UNCHANGED <<in, up, ready, told>> /\ at' = at /\ pc = "write" /\ pc' \in {"write", buf.then}
           /\ pc' = "write" => Raw(buf'.cells)
<1> PICK o : o = buf.to
  OBVIOUS
<1> PICK cells : cells = buf.cells
  OBVIOUS
<1>1. pc = "write" /\ buf.then # "write" /\ UNCHANGED <<in, up, ready, told>>
  BY FlushCases DEF Flush, HeldInv, TlsReads
<1>2. cells \in Seq(Cell) /\ Len(cells) \in Nat
  BY FlushCases
<1>3. CASE up[o] = "gone"
  <2>1. DOMAIN cells = 1..Len(cells)
    BY <1>2, LenProperties
  <2>2. {<<"tls", 1>>, <<"tls", 2>>} \cap {cells[i] : i \in DOMAIN cells} = {}
    <3>1. \A i \in 1..Len(cells) : cells[i][1] = "raw"
      BY DEF Raw
    <3>2. \A k : <<"tls", k>>[1] = "tls"
      OBVIOUS
    <3>3. \A i \in DOMAIN cells : cells[i] \notin {<<"tls", 1>>, <<"tls", 2>>}
      <4> SUFFICES ASSUME NEW i \in DOMAIN cells, cells[i] \in {<<"tls", 1>>, <<"tls", 2>>} PROVE FALSE
        OBVIOUS
      <4>1. cells[i][1] = "raw"
        BY <2>1, <3>1
      <4>2. cells[i][1] = "tls"
        BY <3>2
      <4> QED
        BY <4>1, <4>2
    <3> QED
      BY <3>3
  <2>3. pc' = buf.then
    BY <1>3, <2>2 DEF Flush
  <2> QED
    BY <1>1, <2>3 DEF at
<1>4. ASSUME NEW n \in 1..(Len(cells) - 1), buf' = [buf EXCEPT !.cells = SubSeq(cells, n + 1, Len(cells))]
      PROVE  Raw(buf'.cells) /\ buf'.then = buf.then
  <2> PICK d : d = SubSeq(cells, n + 1, Len(cells))
    OBVIOUS
  <2>1. n \in 0..Len(cells)
    BY <1>2
  <2>2. Len(d) = Len(cells) - n /\ \A i \in 1..(Len(cells) - n) : d[i] = cells[n + i]
    BY ONLY <1>2, <2>1, d = SubSeq(cells, n + 1, Len(cells)), Cut
  <2>3. \A i \in 1..(Len(cells) - n) : n + i \in 1..Len(cells)
    BY <1>2, <2>1
  <2>4. Raw(d)
    BY <2>2, <2>3 DEF Raw
  <2>5. buf'.cells = d /\ buf'.then = buf.then
    BY <1>4 DEF TypeOK
  <2> QED
    BY <2>4, <2>5
<1>5. CASE up[o] # "gone"
  <2>1. \/ pc' = buf.then
        \/ pc' = "write" /\ \E n \in 1..(Len(cells) - 1) :
                               buf' = [buf EXCEPT !.cells = SubSeq(cells, n + 1, Len(cells))]
    BY <1>5, FlushCases
  <2>2. \/ pc' = buf.then
        \/ pc' = "write" /\ Raw(buf'.cells) /\ buf'.then = buf.then
    BY <1>4, <2>1
  <2> QED
    BY <1>1, <2>2 DEF at
<1> QED
  BY <1>3, <1>5

(* The steps of a tunnel, and what they leave of what poll reported. *)
LEMMA TunnelSteps ==
    ASSUME TypeOK, HeldInv, RawInv, ~plan.decrypt, [Next]_vars
    PROVE  \/ pass
           \/ Poll
           \/ Flush
           \/ /\ UNCHANGED <<pc, buf, ready, told>>
              /\ \A p \in Peers : in[p] # <<>> => in'[p] # <<>>
           \/ /\ pc \in Before \cup {"closed"} /\ pc' \notin {"write", "pass"}
              /\ pc' \in {"closed", "freed"} => told' = told
<1> USE DEF Before, TlsReads
<1>1. CASE UNCHANGED vars
  BY <1>1 DEF vars
<1>2. CASE dns_callback \/ HopAnswers \/ \E p \in Peers : PeerReceive(p) \/ PeerCloses(p)
  BY <1>2 DEF dns_callback, HopAnswers, PeerReceive, PeerCloses
<1>3. ASSUME NEW q \in Peers, PeerSend(q)
      PROVE  UNCHANGED <<pc, buf, ready, told>> /\ \A p \in Peers : in[p] # <<>> => in'[p] # <<>>
  <2>1. UNCHANGED <<pc, buf, ready, told>>
    BY <1>3 DEF PeerSend
  <2> PICK k : k = IF plan.decrypt THEN Parts ELSE 1
    OBVIOUS
  <2>2. k = 1 /\ Len(in[q]) \in Nat /\ Len(in'[q]) = Len(in[q]) + k /\ in'[Other(q)] = in[Other(q)]
    BY <1>3, SendEffect
  <2>3. Len(in'[q]) # 0
    BY <2>2
  <2>4. in'[q] # <<>>
    BY <2>3
  <2>5. \A p \in Peers : p = q \/ p = Other(q)
    BY DEF Other, Peers
  <2> QED
    BY <2>1, <2>2, <2>4, <2>5
<1>4. CASE ParseConnect \/ do_resolve \/ Connected \/ HopReply \/ Resolved \/ ConnectFails \/ Free
  BY <1>4 DEF ParseConnect, do_resolve, Connected, HopReply, Resolved, ConnectFails, Free
<1>5. CASE Established
  BY <1>5 DEF Established
<1>6. CASE ReadFails
  <2>1. pc \in FromClient \cup FromServer /\ pc \notin TlsReads
    BY <1>6 DEF ReadFails, RawInv
  <2>2. pc \in Before
    BY <2>1 DEF FromClient, FromServer
  <2> QED
    BY <1>6, <2>2 DEF ReadFails
<1>7. ~(EngineReads \/ EngineHolds)
  BY EngineCases DEF RawInv
<1> QED
  BY <1>1, <1>2, <1>3, <1>4, <1>5, <1>6, <1>7 DEF Next, ProxyStep

(* Once the coroutine is over, a stream that was drained stays drained. *)
LEMMA DrainKept ==
    ASSUME TypeOK, HeldInv, [Next]_vars, pc \in {"closed", "freed"}, NEW p \in Peers, Drained(p)
    PROVE  Drained(p)'
<1> PICK o : o = Other(p)
  OBVIOUS
<1>1. o \in Peers /\ \A q \in Peers : q # p => Other(q) = p
  BY OtherPeer DEF Other, Peers
<1>2. up'[p] # "open" /\ (up[o] = "gone" => up'[o] = "gone")
  BY <1>1, UpStep DEF Drained
<1>3. ~Flush
  BY DEF Flush
<1>4. sent'[p] = sent[p] /\ parser'[p] = parser[p]
  <2>1. CASE Stays \/ Moves \/ Begins \/ \E q \in Peers : Relays(q) \/ PeerReceive(q)
    BY <2>1, ReceiveOther DEF Stays, Moves, Begins, Relays
  <2>2. CASE EngineReads \/ EngineHolds
    BY <2>2, EngineCases
  <2>3. ~\E q \in Peers : Parses(q)
    BY DEF Parses
  <2>4. CASE \E q \in Peers : PeerSend(q)
    <3> PICK q \in Peers : PeerSend(q)
      BY <2>4
    <3>1. q # p
      BY DEF PeerSend, Drained
    <3>2. sent'[Other(q)] = sent[Other(q)] /\ parser' = parser
      BY SendEffect
    <3> QED
      BY <1>1, <3>1, <3>2
  <2> QED
    BY <1>3, <2>1, <2>2, <2>3, <2>4, StreamKinds
<1>5. Len(got'[o]) + Len(out'[o]) = Len(got[o]) + Len(out[o])
  BY <1>1, <1>3, Growing
<1> PICK g, u, g2, u2, l : g = Len(got[o]) /\ u = Len(out[o]) /\ g2 = Len(got'[o]) /\ u2 = Len(out'[o])
                           /\ l = Len(parser[p])
  OBVIOUS
<1>6. g \in Nat /\ u \in Nat /\ l \in Nat /\ g2 \in Nat /\ u2 \in Nat /\ g2 + u2 = g + u
  <2>1. g \in Nat /\ u \in Nat /\ l \in Nat
    BY RawLengths
  <2>2. TypeOK'
    BY TypeStep
  <2>3. g2 \in Nat /\ u2 \in Nat
    BY <1>1, <2>2, LenProperties DEF TypeOK
  <2> QED
    BY <1>5, <2>1, <2>3
<1>7. l + g2 + u2 = l + g + u
  BY ONLY <1>6
<1>8. l + g + u = sent[p] \/ up[o] = "gone"
  BY DEF Drained
<1>9. Len(parser'[p]) + g2 + u2 = sent'[p] \/ up'[o] = "gone"
  BY <1>2, <1>4, <1>7, <1>8
<1> QED
  BY <1>2, <1>9 DEF Drained

(* pass meets the end of a stream: everything that was sent has been written to the other side. *)
LEMMA DrainPass ==
    ASSUME TypeOK, RawInv, ~plan.decrypt, ReadyInv, pass, pc' = "closed"
    PROVE  \E p \in Peers : Drained(p)'
<1>1. pc = "pass" /\ at = "pass" /\ ready # {}
  BY DEF pass, at, ReadyInv
<1> PICK p \in ready : /\ p \in Peers
                       /\ UNCHANGED <<out, parser, sent, got, up>>
                       /\ in[p] = <<>>
  BY <1>1, PassCases
<1> PICK o : o = Other(p)
  OBVIOUS
<1>2. up[p] # "open"
  BY <1>1 DEF ReadyInv, Readable
<1>3. CASE up[o] = "gone"
  BY <1>2, <1>3 DEF Drained
<1>4. CASE up[o] # "gone"
  <2> PICK l, g, u, s : l = Len(parser[p]) /\ g = Len(got[o]) /\ u = Len(out[o]) /\ s = sent[p]
    OBVIOUS
  <2>1. l \in Nat /\ g \in Nat /\ u \in Nat /\ s \in Nat
    BY RawLengths
  <2>2. Len(Pend(o)) = 0 /\ Len(in[p]) = 0
    BY <1>1 DEF Pend
  <2>3. l + g + u + Len(Pend(o)) + Len(in[p]) = s
    BY <1>4 DEF RawInv, RawStream
  <2>4. l + g + u + 0 + 0 = s
    BY <2>2, <2>3
  <2>5. l + g + u = s
    BY ONLY <2>1, <2>4
  <2> QED
    BY <1>2, <2>5 DEF Drained
<1> QED
  BY <1>3, <1>4

LEMMA ReadyStep ==
    ASSUME TypeOK, HeldInv, RawInv, ~plan.decrypt, DrainInv, [Next]_vars
    PROVE  ReadyInv' /\ (pc = "write" => Raw(buf.cells))'
<1>1. ReadyInv /\ (pc = "write" => Raw(buf.cells))
  BY DEF DrainInv
<1>2. CASE pass
  <2>1. pc = "pass" /\ at = "pass" /\ ready # {}
    BY <1>1, <1>2 DEF pass, at, ReadyInv
  <2> PICK p \in ready :
              /\ p \in Peers /\ ready' = ready \ {p} /\ UNCHANGED up
              /\ \/ pc' = "closed"
                 \/ /\ in'[Other(p)] = in[Other(p)] /\ pc' = "write"
                    /\ Raw(buf'.cells) /\ buf'.then = IF ready' = {} THEN "poll" ELSE "pass"
    BY <1>2, <2>1, PassCases
  <2>2. CASE pc' = "closed"
    BY <2>2 DEF ReadyInv, at
  <2>3. CASE pc' = "write"
    <3>1. Raw(buf'.cells) /\ in'[Other(p)] = in[Other(p)] /\ at' = IF ready' = {} THEN "poll" ELSE "pass"
      BY <2>3 DEF at
    <3>2. \A q \in ready' : q = Other(p) /\ q \in ready
      BY DEF Other, Peers, TypeOK
    <3>3. \A q \in ready' : Readable(q)'
      BY <1>1, <2>1, <3>1, <3>2 DEF ReadyInv, Readable
    <3> QED
      BY <3>1, <3>3 DEF ReadyInv
  <2> QED
    BY <2>2, <2>3
<1>3. CASE Poll
  <2>1. /\ \E p \in Peers : Readable(p)
        /\ ready' = {p \in Peers : Readable(p)} /\ pc' = "pass" /\ UNCHANGED <<in, up>>
    BY <1>3 DEF Poll, peers
  <2>2. ready' # {} /\ \A p \in ready' : Readable(p)'
    BY <2>1 DEF Readable
  <2> QED
    BY <2>1, <2>2 DEF ReadyInv
<1>4. CASE Flush
  <2>1. /\ UNCHANGED <<in, up, ready>> /\ at' = at
        /\ pc' = "write" => Raw(buf'.cells)
    BY <1>1, <1>4, TunnelFlush DEF Flush
  <2> QED
    BY <1>1, <2>1 DEF ReadyInv, Readable
<1>5. CASE /\ UNCHANGED <<pc, buf, ready, told>>
           /\ \A p \in Peers : in[p] # <<>> => in'[p] # <<>>
  <2>1. at' = at
    BY <1>5 DEF at
  <2>2. \A p \in Peers : Readable(p) => Readable(p)'
    BY <1>5, UpStep DEF Readable
  <2>3. ready \subseteq Peers
    BY DEF TypeOK
  <2> QED
    BY <1>1, <1>5, <2>1, <2>2, <2>3 DEF ReadyInv
<1>6. CASE pc' \notin {"write", "pass"}
  BY <1>6 DEF ReadyInv, at
<1> QED
  BY <1>2, <1>3, <1>4, <1>5, <1>6, TunnelSteps

LEMMA DrainStep ==
    ASSUME TypeOK, HeldInv, RawInv, ToldInv, DrainInv, [Next]_vars
    PROVE  DrainInv'
<1> SUFFICES ASSUME ~plan.decrypt PROVE DrainInv'
  BY Growing DEF DrainInv
<1>1. ReadyInv' /\ (pc = "write" => Raw(buf.cells))'
  BY ReadyStep
<1>2. ASSUME told', pc' \in {"closed", "freed"} PROVE \E p \in Peers : Drained(p)'
  <2>1. CASE pc \in {"closed", "freed"}
    <3>1. told
      BY <1>2, <2>1, ToldStep DEF at, Early, Before
    <3>2. \E p \in Peers : Drained(p)
      BY <2>1, <3>1 DEF DrainInv
    <3> QED
      BY <2>1, <3>2, DrainKept
  <2>2. CASE pc \notin {"closed", "freed"}
    <3>1. CASE pass
      <4>1. pc' = "closed"
        BY <1>2, <3>1 DEF pass, Write
      <4> QED
        BY <3>1, <4>1, DrainPass DEF DrainInv
    <3>2. ~Poll
      BY <1>2 DEF Poll
    <3>3. ~Flush
      <4> SUFFICES ASSUME Flush PROVE FALSE
        OBVIOUS
      <4>1. pc = "write" /\ Raw(buf.cells) /\ buf.then \in {"poll", "pass"}
        BY DEF Flush, DrainInv, RawInv
      <4>2. pc' \in {"write", buf.then}
        BY <4>1, TunnelFlush
      <4> QED
        BY <1>2, <4>1, <4>2
    <3>4. pc' # pc
      BY <1>2, <2>2
    <3>5. ~(pc \in Before /\ told' = told)
      BY <1>2 DEF ToldInv, at, Early, Before
    <3> QED
      BY <1>2, <2>2, <3>1, <3>2, <3>3, <3>4, <3>5, TunnelSteps
  <2> QED
    BY <2>1, <2>2
<1> QED
  BY <1>1, <1>2 DEF DrainInv

(***************************************************************************)
(* EndsDrained for all constants: a tunnel ends only where pass met the    *)
(* end of a stream, never on what a stale report of srs_poll said, nor on  *)
(* a write that failed; what the stream carried had been written by then.  *)
(***************************************************************************)
THEOREM TunnelsDrained == Spec => []EndsDrained
<1>1. Init => StreamInv /\ PipeInv /\ DrainInv
  <2>1. Init => DrainInv
    BY DEF Init, DrainInv, ReadyInv, at
  <2> QED
    BY <2>1, InitType, StreamsInit, PipeInit DEF StreamInv
<1>2. StreamInv /\ PipeInv /\ DrainInv /\ [Next]_vars => (StreamInv /\ PipeInv /\ DrainInv)'
  BY TypeStep, InStep, RawStep, TlsStep, PipeInvStep, DrainStep DEF StreamInv, PipeInv
<1>3. DrainInv => EndsDrained
  BY DEF DrainInv, EndsDrained, Drained
<1> QED
  BY <1>1, <1>2, <1>3, PTL DEF Spec, SilentSpec
=============================================================================
