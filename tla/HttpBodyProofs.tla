--------------------------- MODULE HttpBodyProofs ---------------------------
(***************************************************************************)
(* Theorems about HttpBody: whatever bytes a peer sends and however the    *)
(* reads cut them, the stream stays within its buffer and the assertions   *)
(* of the body reader hold; and the body of a well-formed message is       *)
(* relayed byte for byte, with the next message left untouched.            *)
(***************************************************************************)
EXTENDS HttpBody, SequenceLemmas, SequenceTheorems, TLAPS

(* The reader is asked for data only while there are some to come. *)
ReaderInv ==
    /\ pc = "data" /\ framing = "chunked" => nb_left_chunk > 0
    /\ pc = "data" /\ framing = "length" => ~is_eof
    /\ pc = "header" => framing = "chunked"
    /\ framing = "length" /\ ~is_eof => nb_total_read < total

Inv == TypeOK /\ ReaderInv

(* Truncating a size to an int never makes it larger. *)
LEMMA AsIntBound ==
    ASSUME NEW n \in Nat
    PROVE  AsInt(n) \in Int /\ AsInt(n) <= n
<1>1. PICK h \in Nat \ {0} : h = IntMax + 1
  BY SizeAssumption
<1>2. (n + h) % (2 * h) \in Nat /\ (n + h) % (2 * h) <= n + h
  OBVIOUS
<1> QED
  BY <1>1, <1>2, SizeAssumption DEF AsInt

(* read() finds no length that is used up: the reader saw the end before. *)
LEMMA ReadCalled ==
    ASSUME Inv, read
    PROVE  /\ pc = "read"
           /\ pc' = IF is_eof THEN "write"
                    ELSE IF framing = "chunked" /\ nb_left_chunk = 0 THEN "header" ELSE "data"
           /\ UNCHANGED <<inVars, wire, off, buf, rdVars, got, content, out>>
<1>1. is_eof \in BOOLEAN /\ nb_total_read \in Nat /\ total \in Nat
  BY DEF Inv, TypeOK
<1>2. ~is_eof => ~(framing = "length" /\ nb_total_read = total)
  BY <1>1 DEF Inv, ReaderInv
<1>3. is_eof' = is_eof
  BY <1>1, <1>2 DEF read
<1>4. /\ pc = "read"
      /\ UNCHANGED <<inVars, wire, off, buf, nb_left_chunk, nb_chunk, nb_total_read, got, content, out>>
  BY DEF read
<1>5. pc' = IF is_eof THEN "write"
            ELSE IF framing = "chunked" /\ nb_left_chunk = 0 THEN "header" ELSE "data"
  <2>1. CASE is_eof
    BY <2>1 DEF read
  <2>2. CASE ~is_eof
    BY <1>2, <2>2 DEF read
  <2> QED
    BY <2>1, <2>2
<1> QED
  BY <1>3, <1>4, <1>5 DEF rdVars

(* Putting two sequences together. *)
LEMMA Concat ==
    ASSUME NEW S, NEW s \in Seq(S), NEW t \in Seq(S)
    PROVE  s \o t \in Seq(S) /\ Len(s \o t) = Len(s) + Len(t)
OBVIOUS

(* What read_slice(n) leaves of the stream. *)
LEMMA SliceType ==
    ASSUME TypeOK, NEW n \in 0..Len(buf), read_slice(n)
    PROVE  buf' \in Seq(Byte) /\ off' \in Nat /\ off' + Len(buf') <= nb_buffer
<1>1. Len(buf) \in Nat /\ off \in Nat /\ off + Len(buf) <= nb_buffer /\ nb_buffer \in Nat
  BY SizeAssumption DEF TypeOK
<1>2. SubSeq(buf, n + 1, Len(buf)) \in Seq(Byte) /\ Len(SubSeq(buf, n + 1, Len(buf))) = Len(buf) - n
  BY <1>1 DEF TypeOK
<1>3. buf' \in Seq(Byte) /\ Len(buf') = Len(buf) - n /\ off' = off + n
  BY <1>2 DEF read_slice
<1> QED
  BY <1>1, <1>3

(* The initial states satisfy the invariant, whatever the message is. *)
LEMMA InitInv == Init => Inv
<1> SUFFICES ASSUME Init PROVE Inv
  OBVIOUS
<1>1. PICK m \in Messages, ahead \in 0..nb_buffer :
        /\ framing = m.framing /\ total = m.total
        /\ off \in 1..(nb_buffer - ahead) /\ ahead <= Len(m.bytes)
        /\ buf = SubSeq(m.bytes \o NextMessage, 1, ahead)
        /\ wire = SubSeq(m.bytes \o NextMessage, ahead + 1, Len(m.bytes \o NextMessage))
  BY DEF Init
<1>2. m.framing \in {"chunked", "length"} /\ m.total \in Nat /\ m.bytes \in Seq(Byte)
      /\ (m.framing = "length" => m.total > 0)
  BY MessageAssumption DEF Message
<1>3. NextMessage \in Seq(Byte) /\ Len(NextMessage) = 2
  BY DEF NextMessage, Byte
<1>4. m.bytes \o NextMessage \in Seq(Byte) /\ Len(m.bytes \o NextMessage) = Len(m.bytes) + 2
      /\ Len(m.bytes) \in Nat
  <2> DEFINE b == m.bytes
  <2>1. b \in Seq(Byte) /\ Len(b) \in Nat
    BY <1>2
  <2> HIDE DEF b
  <2>2. b \o NextMessage \in Seq(Byte) /\ Len(b \o NextMessage) = Len(b) + 2
    BY <1>3, <2>1, Concat
  <2> QED
    BY <2>1, <2>2 DEF b
<1>5. ASSUME NEW s \in Seq(Byte), NEW a \in 0..Len(s)
      PROVE  /\ SubSeq(s, 1, a) \in Seq(Byte) /\ Len(SubSeq(s, 1, a)) = a
             /\ SubSeq(s, a + 1, Len(s)) \in Seq(Byte)
  <2>1. \A i \in 1..Len(s) : s[i] \in Byte
    OBVIOUS
  <2>2. SubSeq(s, 1, a) \in Seq(Byte) /\ Len(SubSeq(s, 1, a)) = IF 1 <= a THEN a - 1 + 1 ELSE 0
    BY <2>1, SubSeqProperties
  <2>3. SubSeq(s, a + 1, Len(s)) \in Seq(Byte)
    BY <2>1, SubSeqProperties
  <2> QED
    BY <2>2, <2>3
<1>6. ahead \in 0..Len(m.bytes \o NextMessage)
  BY <1>1, <1>4, SizeAssumption
<1>7. buf \in Seq(Byte) /\ Len(buf) = ahead /\ wire \in Seq(Byte)
  BY <1>1, <1>4, <1>5, <1>6
<1>8. off \in Nat /\ off + Len(buf) <= nb_buffer
  BY <1>1, <1>7, SizeAssumption
<1>9. /\ is_eof = FALSE /\ nb_left_chunk = 0 /\ nb_chunk = 0 /\ nb_total_read = 0
      /\ got = <<>> /\ content = <<>> /\ out = <<>> /\ pc = "part"
  BY DEF Init
<1>10. TypeOK
  <2>1. /\ relay \in {"request", "response"}
        /\ framing \in {"chunked", "length"} /\ total \in Nat
    BY <1>1, <1>2, RelayAssumption DEF Init
  <2>2. got \in Seq(Nat) /\ content \in Seq(Nat) /\ out \in Seq(Nat)
    BY <1>9
  <2> QED
    BY <1>7, <1>8, <1>9, <2>1, <2>2 DEF TypeOK
<1>11. ReaderInv
  BY <1>1, <1>2, <1>9 DEF ReaderInv
<1> QED
  BY <1>10, <1>11 DEF Inv

(* A step that does not touch the reader keeps what is known of it. *)
LEMMA StreamInv ==
    ASSUME Inv, \/ BeginPart \/ read \/ ReadFails \/ Overflow
                \/ \E n \in 1..Len(wire) : grow(n)
    PROVE  Inv'
<1> USE SizeAssumption DEF Inv
<1>1. CASE BeginPart
  BY <1>1 DEF BeginPart, TypeOK, ReaderInv, inVars, rdVars
<1>2. CASE read
  BY <1>2, ReadCalled DEF Inv, TypeOK, ReaderInv, inVars, rdVars
<1>3. CASE ReadFails
  BY <1>3 DEF ReadFails, Fail, TypeOK, ReaderInv, inVars, rdVars
<1>4. CASE Overflow
  <2>1. Len(buf) <= nb_buffer
    BY DEF TypeOK
  <2> QED
    BY <1>4, <2>1 DEF Overflow, Fail, TypeOK, ReaderInv, inVars, rdVars
<1>5. ASSUME NEW n \in 1..Len(wire), grow(n) PROVE Inv'
  <2>1. Required \in Int
    <3>1. Len(buf) + 1 \in Int
      BY DEF TypeOK
    <3>2. pc \in {"header", "data", "crlf"} => Required \in Int
      BY <3>1 DEF Required
    <3>3. pc \notin {"header", "data", "crlf"} => Required = 0
      BY DEF Required
    <3> QED
      BY <3>2, <3>3
  <2>2. MovedOff \in Nat
    BY <2>1 DEF MovedOff, TypeOK
  <2>3. SubSeq(wire, 1, n) \in Seq(Byte) /\ Len(SubSeq(wire, 1, n)) = n
        /\ SubSeq(wire, n + 1, Len(wire)) \in Seq(Byte)
    BY DEF TypeOK
  <2>4. buf' \in Seq(Byte) /\ Len(buf') = Len(buf) + n
    BY <1>5, <2>3 DEF grow, TypeOK
  <2>5. off' \in Nat /\ off' + Len(buf') <= nb_buffer
    BY <1>5, <2>2, <2>4 DEF grow, TypeOK
  <2>6. wire' \in Seq(Byte)
    BY <1>5, <2>3 DEF grow
  <2>7. UNCHANGED <<relay, framing, total, is_eof, nb_left_chunk, nb_chunk, nb_total_read,
                    got, content, pc, out>>
    BY <1>5 DEF grow, inVars, rdVars
  <2>8. TypeOK'
    BY <2>4, <2>5, <2>6, <2>7 DEF TypeOK
  <2>9. ReaderInv'
    BY <2>7 DEF ReaderInv
  <2> QED
    BY <2>8, <2>9
<1> QED
  BY <1>1, <1>2, <1>3, <1>4, <1>5

(* The end of a chunk header. *)
LEMMA ChunkHeaderInv == Inv /\ ChunkHeader => Inv'
<1> SUFFICES ASSUME Inv, ChunkHeader PROVE Inv'
  OBVIOUS
<1> USE SizeAssumption DEF Inv
<1>1. PICK i \in CrlfAt :
        /\ \A j \in CrlfAt : i <= j
        /\ IF i = 2 /\ buf[1].k = "size" /\ AsInt(buf[1].v) >= 0
           THEN /\ nb_chunk' = AsInt(buf[1].v) /\ nb_left_chunk' = nb_chunk'
                /\ is_eof' = (nb_chunk' = 0)
                /\ pc' = IF is_eof' THEN "crlf" ELSE "data"
                /\ UNCHANGED got
           ELSE Fail /\ UNCHANGED <<is_eof, nb_left_chunk, nb_chunk>>
        /\ IF i = 1 THEN UNCHANGED <<off, buf>> ELSE read_slice(i + 1)
  BY DEF ChunkHeader
<1>2. i \in 1..(Len(buf) - 1) /\ Len(buf) \in Nat
  BY DEF CrlfAt, TypeOK
<1>3. buf' \in Seq(Byte) /\ off' \in Nat /\ off' + Len(buf') <= nb_buffer
  <2>1. CASE i = 1
    BY <1>1, <2>1 DEF TypeOK
  <2>2. CASE i # 1
    BY <1>1, <1>2, <2>2, SliceType
  <2> QED
    BY <2>1, <2>2
<1>4. buf[1].v \in Nat
  <2>1. buf[1] \in Byte
    BY <1>2 DEF TypeOK
  <2> QED
    BY <2>1 DEF Byte
<1>5. UNCHANGED <<relay, framing, total, wire, nb_total_read, content, out>>
  BY DEF ChunkHeader, inVars
<1>6. CASE i = 2 /\ buf[1].k = "size" /\ AsInt(buf[1].v) >= 0
  <2>1. /\ nb_chunk' = AsInt(buf[1].v) /\ nb_left_chunk' = nb_chunk'
        /\ is_eof' = (nb_chunk' = 0) /\ pc' = IF is_eof' THEN "crlf" ELSE "data"
        /\ got' = got
    BY <1>1, <1>6
  <2>2. nb_chunk' \in Nat
    BY <1>4, <1>6, <2>1, AsIntBound
  <2>3. is_eof' \in BOOLEAN
    BY <2>1
  <2>4. pc' \in {"crlf", "data"} /\ (pc' = "data" => ~is_eof' /\ nb_chunk' # 0)
    BY <2>1
  <2>5. TypeOK'
    BY <1>3, <1>5, <2>1, <2>2, <2>3, <2>4 DEF TypeOK
  <2>6. framing = "chunked"
    BY DEF ChunkHeader, ReaderInv
  <2> QED
    BY <1>5, <2>1, <2>2, <2>4, <2>5, <2>6 DEF ReaderInv
<1>7. CASE ~(i = 2 /\ buf[1].k = "size" /\ AsInt(buf[1].v) >= 0)
  <2>1. Fail /\ UNCHANGED <<is_eof, nb_left_chunk, nb_chunk>>
    BY <1>1, <1>7
  <2>2. pc' \in {"failed", "write"} /\ got' = <<>>
    BY <2>1 DEF Fail
  <2>3. TypeOK'
    BY <1>3, <1>5, <2>1, <2>2 DEF TypeOK
  <2> QED
    BY <1>5, <2>1, <2>2, <2>3 DEF ReaderInv
<1> QED
  BY <1>6, <1>7

(* What read_specified takes, and what is left after it. *)
LEMMA ReadSpecifiedInv == Inv /\ read_specified => Inv'
<1> SUFFICES ASSUME Inv, read_specified PROVE Inv'
  OBVIOUS
<1> USE SizeAssumption DEF Inv
<1> DEFINE n == AtMost(Wanted, Len(buf))
           bytes == [i \in 1..n |-> buf[i].v]
<1>1. /\ pc = "data" /\ buf # <<>>
      /\ read_slice(n)
      /\ nb_total_read' = nb_total_read + n
      /\ is_eof' = (framing = "length" /\ nb_total_read' >= AsInt(total))
      /\ nb_left_chunk' = IF framing = "chunked" THEN nb_left_chunk - n ELSE 0
      /\ IF framing = "chunked" /\ nb_left_chunk' = 0
         THEN got' = bytes /\ pc' = "crlf" /\ UNCHANGED content
         ELSE Append_(bytes)
      /\ UNCHANGED <<relay, framing, total, wire, nb_chunk, out>>
  BY DEF read_specified, inVars
<1>2. Len(buf) \in Nat \ {0}
  BY <1>1 DEF TypeOK
<1>3. Wanted \in Nat \ {0} /\ (framing = "chunked" => Wanted <= nb_left_chunk)
  BY <1>1 DEF Wanted, AtMost, TypeOK, ReaderInv
<1>4. n \in 0..Len(buf) /\ n \in Nat /\ (framing = "chunked" => n <= nb_left_chunk)
  BY <1>2, <1>3 DEF AtMost, TypeOK
<1>5. bytes \in Seq(Nat)
  <2>1. \A i \in 1..n : buf[i] \in Byte
    BY <1>4 DEF TypeOK
  <2>2. \A i \in 1..n : buf[i].v \in Nat
    BY <2>1 DEF Byte
  <2> QED
    BY <1>4, <2>2
<1> HIDE DEF n, bytes
<1>6. buf' \in Seq(Byte) /\ off' \in Nat /\ off' + Len(buf') <= nb_buffer
  BY <1>1, <1>4, SliceType
<1>7. nb_total_read' \in Nat /\ nb_left_chunk' \in Nat
  BY <1>1, <1>4 DEF TypeOK
<1>8. got' \in Seq(Nat) /\ content' \in Seq(Nat) /\ pc' \in {"crlf", "write", "read"}
  <2>1. CASE framing = "chunked" /\ nb_left_chunk' = 0
    BY <1>1, <1>5, <2>1 DEF TypeOK
  <2>2. CASE ~(framing = "chunked" /\ nb_left_chunk' = 0)
    <3>1. Append_(bytes)
      BY <1>1, <2>2
    <3>2. content \o bytes \in Seq(Nat)
      BY <1>5, Concat DEF TypeOK
    <3> QED
      BY <3>1, <3>2 DEF Append_
  <2> QED
    BY <2>1, <2>2
<1>9. is_eof' \in BOOLEAN
  BY <1>1
<1>10. TypeOK'
  BY <1>1, <1>6, <1>7, <1>8, <1>9 DEF TypeOK
<1>11. framing = "length" /\ ~is_eof' => nb_total_read' < total
  <2>1. AsInt(total) \in Int /\ AsInt(total) <= total /\ total \in Nat
    BY AsIntBound DEF TypeOK
  <2>2. framing = "length" /\ ~is_eof' => ~(nb_total_read' >= AsInt(total))
    BY <1>1, Zenon
  <2> QED
    BY <1>7, <2>1, <2>2
<1> QED
  BY <1>1, <1>8, <1>10, <1>11 DEF ReaderInv

(* The CRLF of a chunk, and what is written to the other side. *)
LEMMA WriteInv ==
    ASSUME Inv, ChunkEnd \/ WritePart \/ WriteFails \/ WriteRequest
    PROVE  Inv'
<1> USE SizeAssumption DEF Inv
<1>1. CASE ChunkEnd
  <2>1. Len(buf) \in Nat /\ Len(buf) >= 2 /\ 2 \in 0..Len(buf)
    BY <1>1 DEF ChunkEnd, TypeOK
  <2>2. buf' \in Seq(Byte) /\ off' \in Nat /\ off' + Len(buf') <= nb_buffer
    BY <1>1, <2>1, SliceType DEF ChunkEnd
  <2>3. content' \in Seq(Nat) /\ got' \in Seq(Nat) /\ pc' \in {"write", "read"}
    BY <1>1 DEF ChunkEnd, Append_, TypeOK
  <2>4. UNCHANGED <<relay, framing, total, wire, is_eof, nb_left_chunk, nb_chunk,
                    nb_total_read, out>>
    BY <1>1 DEF ChunkEnd, inVars, rdVars
  <2>5. TypeOK'
    BY <2>2, <2>3, <2>4 DEF TypeOK
  <2> QED
    BY <2>3, <2>4, <2>5 DEF ReaderInv
<1>2. CASE WritePart \/ WriteFails \/ WriteRequest
  <2>1. Chunk \in Seq(Nat) /\ End \in Seq(Nat) /\ <<>> \in Seq(Nat)
    BY DEF Chunk, End, EndMark, TypeOK
  <2>2. out' \in Seq(Nat) /\ pc' \in {"done", "part", "failed"}
    <3>1. \A x, y \in {Chunk, End, <<>>} : out \o x \o y \in Seq(Nat)
      BY <2>1, Concat DEF TypeOK
    <3>2. out \in Seq(Nat)
      BY DEF TypeOK
    <3>3. CASE WritePart
      BY <3>1, <3>3 DEF WritePart
    <3>4. CASE WriteFails
      BY <3>2, <3>4 DEF WriteFails
    <3>5. CASE WriteRequest
      BY <3>1, <3>5 DEF WriteRequest
    <3> QED
      BY <1>2, <3>3, <3>4, <3>5
  <2>3. UNCHANGED <<relay, framing, total, wire, off, buf, is_eof, nb_left_chunk, nb_chunk,
                    nb_total_read, got, content>>
    BY <1>2 DEF WritePart, WriteFails, WriteRequest, inVars, rdVars
  <2>4. TypeOK'
    BY <2>2, <2>3 DEF TypeOK
  <2> QED
    BY <2>2, <2>3, <2>4 DEF ReaderInv
<1> QED
  BY <1>1, <1>2

(* Every step keeps the invariant. *)
LEMMA NextInv == Inv /\ [Next]_vars => Inv'
<1> SUFFICES ASSUME Inv, [Next]_vars PROVE Inv'
  OBVIOUS
<1>1. CASE Next
  BY <1>1, StreamInv, ChunkHeaderInv, ReadSpecifiedInv, WriteInv DEF Next
<1>2. CASE UNCHANGED vars
  BY <1>2 DEF vars, inVars, rdVars, Inv, TypeOK, ReaderInv
<1> QED
  BY <1>1, <1>2

(***************************************************************************)
(* The inductive invariant holds for every message, buffer and int size.   *)
(***************************************************************************)
THEOREM Invariance == Spec => []Inv
BY InitInv, NextInv, PTL DEF Spec

(***************************************************************************)
(* SrsFastStream: 0 <= p <= end <= buffer + nb_buffer whatever grow(),     *)
(* read_slice() and the socket do, and the reader's counters never wrap.   *)
(***************************************************************************)
THEOREM TypeCorrect == Spec => []TypeOK
<1>1. Inv => TypeOK
  BY DEF Inv
<1> QED
  BY Invariance, <1>1, PTL

(***************************************************************************)
(* srs_assert(nb_left_chunk) and srs_assert(nb_bytes) hold, and the stream *)
(* stays in its buffer, whatever bytes the peer sends, malformed ones      *)
(* included.                                                               *)
(***************************************************************************)
THEOREM ReaderAssertsHold == Spec => []AssertsHold
<1>1. Inv => AssertsHold
  BY SizeAssumption DEF Inv, TypeOK, ReaderInv, AssertsHold, Wanted, AtMost
<1> QED
  BY Invariance, <1>1, PTL
-----------------------------------------------------------------------------
(* The body as it was sent *)

(* The relay goes on: what the reader has taken is where it should be. *)
Live == \/ pc \in {"part", "read", "header", "data", "crlf"}
        \/ pc = "write" /\ relay = "response"

(* The bytes s of the body follow its first n. *)
Follows(s, n) == \A i \in 1..Len(s) : s[i] = n + i

(* The bytes of m and of what follows it. *)
Sent(m) == m.bytes \o NextMessage

(* The first p bytes of m have been taken, and nothing else is missing. *)
At(m, p) ==
    /\ p \in 0..Len(m.bytes)
    /\ Len(buf) + Len(wire) = Len(m.bytes) + 2 - p
    /\ \A i \in 1..Len(buf) : buf[i] = Sent(m)[p + i]
    /\ \A i \in 1..Len(wire) : wire[i] = Sent(m)[p + Len(buf) + i]

(* Inside a body with a length its bytes are counted. *)
LengthAt(p) ==
    /\ p = nb_total_read /\ (is_eof <=> p = total)
    /\ nb_left_chunk = 0 /\ pc \notin {"header", "crlf"}

(***************************************************************************)
(* Before the header of the chunk h, inside its data, or behind them.      *)
(***************************************************************************)
ChunkAt(h, p) ==
    \/ /\ nb_left_chunk = 0 /\ pc \notin {"data", "crlf"}
       /\ p = h.at /\ nb_total_read = h.base
    \/ /\ nb_left_chunk \in 1..h.size /\ pc \notin {"header", "crlf"}
       /\ p = h.data + h.size - nb_left_chunk
       /\ nb_total_read = h.base + h.size - nb_left_chunk
    \/ /\ nb_left_chunk = 0 /\ pc = "crlf" /\ h.size > 0
       /\ p = h.data + h.size /\ nb_total_read = h.base + h.size

(* Behind the header of the last chunk, or behind all of the body. *)
EndAt(m, p) ==
    /\ nb_left_chunk = 0 /\ pc \notin {"header", "data"}
    /\ p = IF pc = "crlf" THEN Len(m.bytes) - 2 ELSE Len(m.bytes)

(* Where the reader is in the message m with the chunks c. *)
Frame(m, c, p) ==
    /\ framing = m.framing /\ total = m.total /\ WellFormed(m, c) /\ At(m, p)
    /\ framing = "length" => LengthAt(p)
    /\ framing = "chunked" /\ Live =>
          IF is_eof THEN EndAt(m, p) ELSE \E k \in 1..Len(c) : ChunkAt(c[k], p)
    /\ pc = "done" /\ relay = "response" => p = Len(m.bytes)

FrameInv == \E m \in Messages : \E c, p : Frame(m, c, p)

(***************************************************************************)
(* Every byte taken from the stream is in out, in content or in got, in    *)
(* its place; a part that is not full is written only at the end.          *)
(***************************************************************************)
TakenInv ==
    /\ pc # "done" => Follows(out, 0)
    /\ pc \in {"read", "header", "data", "crlf", "write"} => Follows(content, Len(out))
    /\ Follows(got, Len(out) + Len(content))
    /\ pc # "crlf" \/ is_eof => got = <<>>
    /\ Live \/ (pc = "write" /\ is_eof) =>
          nb_total_read = Len(out) + (IF pc = "part" THEN 0 ELSE Len(content)) + Len(got)
    /\ pc \in {"read", "header", "data", "crlf"} /\ relay = "response" => Len(content) <= PartSize
    /\ pc = "write" /\ relay = "response" /\ ~is_eof => Len(content) > PartSize
    /\ is_eof => nb_total_read = total

(* The first d bytes of the body, and marks of its end. *)
Ended(s, d) ==
    /\ d \in 0..Len(s)
    /\ \A i \in 1..d : s[i] = i
    /\ \A i \in (d + 1)..Len(s) : s[i] = EndMark

(* What has been written when the relay is over. *)
DoneInv ==
    pc = "done" =>
        \E d \in Nat :
            /\ Ended(out, d) /\ (is_eof => d = total)
            /\ relay = "response" \/ content # <<>> =>
                  Len(out) = IF framing = "chunked" THEN d + 1 ELSE d

BodyInv == Inv /\ FrameInv /\ TakenInv /\ DoneInv

(* Where the bytes of two joined pieces are. *)
LEMMA GluedBytes ==
    ASSUME NEW s \in Seq(Byte), NEW t \in Seq(Byte)
    PROVE  /\ s \o t \in Seq(Byte) /\ Len(s \o t) = Len(s) + Len(t)
           /\ \A i \in 1..Len(s) : (s \o t)[i] = s[i]
           /\ \A i \in 1..Len(t) : (s \o t)[Len(s) + i] = t[i]
BY Glued

(* The bytes on the wire are those of the message and then the next one. *)
LEMMA SentBytes ==
    ASSUME NEW m \in Messages
    PROVE  /\ m.bytes \in Seq(Byte) /\ Len(m.bytes) \in Nat /\ m.total \in Nat
           /\ Sent(m) \in Seq(Byte) /\ Len(Sent(m)) = Len(m.bytes) + 2
           /\ \A i \in 1..Len(m.bytes) : Sent(m)[i] = m.bytes[i]
           /\ Sent(m)[Len(m.bytes) + 1] = NextMessage[1]
           /\ Sent(m)[Len(m.bytes) + 2] = NextMessage[2]
<1>1. m.bytes \in Seq(Byte) /\ m.total \in Nat
  BY MessageAssumption DEF Message
<1>2. PICK b : b = m.bytes
  OBVIOUS
<1>3. NextMessage \in Seq(Byte) /\ Len(NextMessage) = 2
  BY DEF NextMessage, Byte
<1>4. PICK u : u = b \o NextMessage
  OBVIOUS
<1>5. b \in Seq(Byte) /\ Len(b) \in Nat
  BY <1>1, <1>2
<1>6. /\ u \in Seq(Byte) /\ Len(u) = Len(b) + Len(NextMessage)
      /\ \A i \in 1..Len(b) : u[i] = b[i]
      /\ \A i \in 1..Len(NextMessage) : u[Len(b) + i] = NextMessage[i]
  BY ONLY <1>3, <1>4, <1>5, GluedBytes
<1>7. /\ u \in Seq(Byte) /\ Len(u) = Len(b) + 2 /\ u[Len(b) + 1] = NextMessage[1]
      /\ u[Len(b) + 2] = NextMessage[2]
  BY <1>3, <1>6
<1> QED
  BY <1>1, <1>2, <1>4, <1>5, <1>6, <1>7 DEF Sent

(* grow() moves bytes from the socket to the buffer. *)
LEMMA GrowAt ==
    ASSUME TypeOK, NEW m \in Messages, NEW p, At(m, p), NEW n \in 1..Len(wire), grow(n)
    PROVE  At(m, p)'
<1>1. /\ buf \in Seq(Byte) /\ wire \in Seq(Byte) /\ Len(buf) \in Nat /\ Len(wire) \in Nat
      /\ n \in 0..Len(wire) /\ n \in Nat
  BY DEF TypeOK
<1>2. PICK t : t = SubSeq(wire, 1, n)
  OBVIOUS
<1>3. /\ t \in Seq(Byte) /\ Len(t) = n /\ \A i \in 1..n : t[i] = wire[i]
      /\ wire' \in Seq(Byte) /\ Len(wire') = Len(wire) - n
      /\ \A i \in 1..(Len(wire) - n) : wire'[i] = wire[n + i]
  BY <1>1, <1>2, Cut DEF grow
<1>4. buf' = buf \o t
  BY <1>2 DEF grow
<1>5. /\ Len(buf') = Len(buf) + n
      /\ \A i \in 1..Len(buf) : buf'[i] = buf[i]
      /\ \A i \in 1..n : buf'[Len(buf) + i] = wire[i]
  <2>1. /\ Len(buf') = Len(buf) + Len(t)
        /\ \A i \in 1..Len(buf) : buf'[i] = buf[i]
        /\ \A i \in 1..Len(t) : buf'[Len(buf) + i] = t[i]
    BY ONLY <1>1, <1>3, <1>4, GluedBytes
  <2> QED
    BY ONLY <1>3, <2>1
<1>6. PICK l \in Nat : l = Len(buf)
  BY <1>1
<1>7. PICK w \in Nat : w = Len(wire)
  BY <1>1
<1>8. Len(m.bytes) \in Nat
  BY SentBytes
<1>9. /\ p \in 0..Len(m.bytes) /\ l + w = Len(m.bytes) + 2 - p
      /\ \A i \in 1..l : buf[i] = Sent(m)[p + i]
      /\ \A i \in 1..w : wire[i] = Sent(m)[p + l + i]
  BY <1>6, <1>7 DEF At
<1>10. ASSUME NEW i \in 1..(l + n) PROVE buf'[i] = Sent(m)[p + i]
  <2>1. CASE i <= l
    BY <1>5, <1>6, <1>9, <2>1
  <2>2. CASE i > l
    <3>1. i - l \in 1..n /\ i - l \in 1..w /\ l + (i - l) = i /\ p + l + (i - l) = p + i
      BY <1>1, <1>7, <1>8, <1>9, <2>2
    <3>2. buf'[l + (i - l)] = wire[i - l]
      BY <1>5, <1>6, <3>1
    <3>3. wire[i - l] = Sent(m)[p + l + (i - l)]
      BY <1>9, <3>1
    <3> QED
      BY <3>1, <3>2, <3>3
  <2> QED
    BY <2>1, <2>2
<1>11. ASSUME NEW i \in 1..(w - n) PROVE wire'[i] = Sent(m)[p + (l + n) + i]
  <2>1. n + i \in 1..w /\ p + l + (n + i) = p + (l + n) + i
    BY <1>1, <1>7, <1>8, <1>9
  <2>2. wire'[i] = wire[n + i]
    BY <1>3, <1>7
  <2> QED
    BY <1>9, <2>1, <2>2
<1>12. Len(buf') = l + n /\ Len(wire') = w - n /\ (l + n) + (w - n) = Len(m.bytes) + 2 - p
  <2>1. Len(buf') = l + n /\ Len(wire') = w - n
    BY <1>3, <1>5, <1>6, <1>7
  <2>2. l + w = Len(m.bytes) + 2 - p /\ (l + n) + (w - n) = l + w
    BY <1>1, <1>9
  <2> QED
    BY <2>1, <2>2
<1> QED
  BY <1>9, <1>10, <1>11, <1>12 DEF At

(* The types of what a frame speaks about. *)
LEMMA FrameTypes ==
    ASSUME Inv, NEW m \in Messages, NEW c, NEW p, Frame(m, c, p)
    PROVE  /\ m.framing = framing /\ WellFormed(m, c) /\ m.total = total /\ At(m, p) /\ TypeOK
           /\ nb_total_read \in Nat /\ nb_left_chunk \in Nat /\ total \in Nat
           /\ framing \in {"chunked", "length"} /\ Len(buf) \in Nat
           /\ Len(m.bytes) \in Nat /\ p \in 0..Len(m.bytes) /\ p \in Nat
<1>1. m.framing = framing /\ WellFormed(m, c) /\ m.total = total /\ At(m, p) /\ TypeOK
  BY DEF Frame, Inv
<1>2. /\ nb_total_read \in Nat /\ nb_left_chunk \in Nat /\ total \in Nat
      /\ framing \in {"chunked", "length"} /\ Len(buf) \in Nat
  BY <1>1 DEF TypeOK
<1>3. Len(m.bytes) \in Nat
  BY SentBytes
<1>4. p \in 0..Len(m.bytes)
  BY <1>1 DEF At
<1> QED
  BY <1>1, <1>2, <1>3, <1>4

(* read_slice(n) takes n bytes. *)
LEMMA SliceAt ==
    ASSUME TypeOK, NEW m \in Messages, NEW p, At(m, p), NEW n \in 0..Len(buf),
           p + n <= Len(m.bytes), read_slice(n), wire' = wire
    PROVE  At(m, p + n)'
<1>1. buf \in Seq(Byte) /\ Len(buf) \in Nat /\ Len(wire) \in Nat /\ Len(m.bytes) \in Nat
  BY SentBytes DEF TypeOK
<1>2. Len(buf') = Len(buf) - n /\ \A i \in 1..(Len(buf) - n) : buf'[i] = buf[n + i]
  BY <1>1, Cut DEF read_slice
<1>3. PICK l \in Nat, w \in Nat : l = Len(buf) /\ w = Len(wire)
  BY <1>1
<1>4. /\ p \in 0..Len(m.bytes) /\ l + w = Len(m.bytes) + 2 - p
      /\ \A i \in 1..l : buf[i] = Sent(m)[p + i]
      /\ \A i \in 1..w : wire[i] = Sent(m)[p + l + i]
  BY <1>3 DEF At
<1>5. p + n \in 0..Len(m.bytes) /\ (l - n) + w = Len(m.bytes) + 2 - (p + n)
  BY <1>1, <1>3, <1>4
<1>6. ASSUME NEW i \in 1..(l - n) PROVE buf'[i] = Sent(m)[(p + n) + i]
  <2>1. n + i \in 1..l /\ p + (n + i) = (p + n) + i
    BY <1>3, <1>4
  <2> QED
    BY <1>2, <1>3, <1>4, <2>1
<1>7. ASSUME NEW i \in 1..w PROVE wire[i] = Sent(m)[(p + n) + (l - n) + i]
  <2>1. p + l + i = (p + n) + (l - n) + i
    BY <1>3, <1>4
  <2> QED
    BY <1>4, <2>1
<1>8. Len(buf') = l - n
  BY <1>2, <1>3
<1> QED
  BY <1>3, <1>5, <1>6, <1>7, <1>8 DEF At

(* Steps that leave the stream and the reader alone. *)
LEMMA FrameQuiet ==
    ASSUME Inv, NEW m \in Messages, NEW c, NEW p, Frame(m, c, p),
           \/ BeginPart \/ read \/ ReadFails \/ Overflow
           \/ WritePart \/ WriteFails \/ WriteRequest
    PROVE  Frame(m, c, p)'
<1>1. /\ UNCHANGED <<relay, framing, total, wire, buf, is_eof, nb_left_chunk, nb_total_read>>
      /\ relay \in {"request", "response"} /\ framing \in {"chunked", "length"}
  BY ReadCalled DEF BeginPart, ReadFails, Overflow, WritePart, WriteFails, WriteRequest,
         inVars, rdVars, Inv, TypeOK
<1>2. framing = m.framing /\ total = m.total /\ WellFormed(m, c) /\ At(m, p)'
  BY <1>1 DEF Frame, At
<1>3. framing = "length" => LengthAt(p)
  BY DEF Frame
<1>4. framing = "chunked" /\ Live =>
        IF is_eof THEN EndAt(m, p) ELSE \E k \in 1..Len(c) : ChunkAt(c[k], p)
  BY DEF Frame
<1>5. CASE BeginPart
  <2>1. pc = "part" /\ pc' = "read"
    BY <1>5 DEF BeginPart
  <2> QED
    BY <1>1, <1>2, <1>3, <1>4, <2>1 DEF Frame, LengthAt, EndAt, ChunkAt, Live
<1>6. CASE read
  <2>1. pc = "read" /\ pc' = IF is_eof THEN "write"
                   ELSE IF framing = "chunked" /\ nb_left_chunk = 0 THEN "header" ELSE "data"
    BY <1>6, ReadCalled
  <2>2. CASE is_eof
    BY <1>1, <1>2, <1>3, <1>4, <2>1, <2>2 DEF Frame, LengthAt, EndAt, Live
  <2>3. CASE ~is_eof /\ framing = "chunked" /\ nb_left_chunk = 0
    <3>1. pc' = "header" /\ ~is_eof'
      BY <1>1, <2>1, <2>3
    <3>2. PICK k \in 1..Len(c) : ChunkAt(c[k], p)
      BY <1>4, <2>1, <2>3 DEF Live
    <3>3. ChunkAt(c[k], p)'
      BY <1>1, <2>1, <2>3, <3>1, <3>2 DEF ChunkAt
    <3> QED
      BY <1>1, <1>2, <2>3, <3>1, <3>3 DEF Frame
  <2>4. CASE ~is_eof /\ framing = "chunked" /\ nb_left_chunk # 0
    <3>1. pc' = "data" /\ ~is_eof'
      BY <1>1, <2>1, <2>4
    <3>2. PICK k \in 1..Len(c) : ChunkAt(c[k], p)
      BY <1>4, <2>1, <2>4 DEF Live
    <3>3. ChunkAt(c[k], p)'
      BY <1>1, <2>1, <2>4, <3>1, <3>2 DEF ChunkAt
    <3> QED
      BY <1>1, <1>2, <2>4, <3>1, <3>3 DEF Frame
  <2>5. CASE ~is_eof /\ framing = "length"
    BY <1>1, <1>2, <1>3, <2>1, <2>5 DEF Frame, LengthAt
  <2> QED
    BY <1>1, <2>2, <2>3, <2>4, <2>5
<1>7. CASE ReadFails \/ Overflow \/ WriteFails
  <2>1. pc' = "failed" \/ (pc' = "write" /\ relay = "request")
    BY <1>1, <1>7 DEF ReadFails, Overflow, WriteFails, Fail
  <2> QED
    BY <1>1, <1>2, <1>3, <2>1 DEF Frame, LengthAt, Live
<1>8. CASE WriteRequest
  BY <1>1, <1>2, <1>3, <1>8 DEF WriteRequest, Frame, LengthAt, Live
<1>9. CASE WritePart
  <2>1. pc = "write" /\ relay = "response" /\ pc' = (IF Finish THEN "done" ELSE "part")
    BY <1>9 DEF WritePart
  <2>2. CASE Finish
    <3>1. is_eof /\ pc' = "done"
      BY <2>1, <2>2 DEF Finish
    <3>2. framing = "chunked" => p = Len(m.bytes)
      BY <1>4, <2>1, <3>1 DEF EndAt, Live
    <3>3. framing = "length" => p = Len(m.bytes)
      <4>1. ASSUME framing = "length" PROVE p = Len(m.bytes)
        <5>1. p = m.total /\ m.bytes = [i \in 1..m.total |-> Data(i)] /\ m.total \in Nat
          BY <1>2, <1>3, <3>1, <4>1, SentBytes DEF LengthAt, WellFormed, WellMeasured
        <5> QED
          BY <5>1
      <4> QED
        BY <4>1
    <3> QED
      BY <1>1, <1>2, <1>3, <3>1, <3>2, <3>3 DEF Frame, LengthAt, Live
  <2>3. CASE ~Finish
    <3>1. pc' = "part"
      BY <2>1, <2>3
    <3> QED
      BY <1>1, <1>2, <1>3, <1>4, <2>1, <3>1 DEF Frame, LengthAt, EndAt, ChunkAt, Live
  <2> QED
    BY <2>2, <2>3
<1> QED
  BY <1>5, <1>6, <1>7, <1>8, <1>9

(* What grow() does to the frame: nothing. *)
LEMMA FrameGrow ==
    ASSUME Inv, NEW m \in Messages, NEW c, NEW p, Frame(m, c, p),
           NEW n \in 1..Len(wire), grow(n)
    PROVE  Frame(m, c, p)'
<1>1. UNCHANGED <<relay, framing, total, is_eof, nb_left_chunk, nb_total_read, pc>>
  BY DEF grow, inVars, rdVars
<1>2. At(m, p)'
  BY GrowAt DEF Inv, Frame
<1> QED
  BY <1>1, <1>2 DEF Frame, LengthAt, EndAt, ChunkAt, Live

(* A size that fits an int is not changed by the conversion. *)
LEMMA AsIntExact ==
    ASSUME NEW n \in Nat, n <= IntMax
    PROVE  AsInt(n) = n
<1>1. PICK h \in Nat \ {0} : h = IntMax + 1
  BY SizeAssumption
<1>2. n + h \in 0..(2 * h - 1)
  BY <1>1, SizeAssumption
<1>3. (n + h) % (2 * h) = n + h
  BY <1>2
<1> QED
  BY <1>1, <1>3, SizeAssumption DEF AsInt

(* A chunk of a well-formed message. *)
LEMMA ChunkFacts ==
    ASSUME NEW m \in Messages, NEW c, m.framing = "chunked", WellFormed(m, c),
           NEW k \in 1..Len(c)
    PROVE  /\ c[k].at \in Nat /\ c[k].data \in Nat /\ c[k].size \in Nat /\ c[k].base \in Nat
           /\ Len(c) \in Nat /\ ChunkIn(m, c, k)
<1>1. c \in Seq(Place) /\ Len(c) \in Nat /\ ChunkIn(m, c, k)
  BY DEF WellFormed, WellChunked
<1>2. c[k] \in Place
  BY <1>1
<1>3. c[k].at \in Nat /\ c[k].data \in Nat /\ c[k].size \in Nat /\ c[k].base \in Nat
  BY <1>2 DEF Place
<1> QED
  BY <1>1, <1>3

(***************************************************************************)
(* The first CRLF that read_chunked finds is the one that ends the header, *)
(* whatever there is behind it in the buffer.                              *)
(***************************************************************************)
FirstCrlf(i) == i \in CrlfAt /\ \A j \in CrlfAt : i <= j

LEMMA HeaderFound ==
    ASSUME TypeOK, NEW m \in Messages, NEW p \in Nat, At(m, p), NEW d \in Nat, NEW z,
           HeaderIn(m, p, d, z), d <= Len(m.bytes), NEW i, FirstCrlf(i)
    PROVE  i + 1 = d - p /\ i + 1 \in 0..Len(buf) /\ buf[1] = Size(z)
<1> USE DEF HeaderIn, FirstCrlf
<1>1. Len(buf) \in Nat /\ i \in 1..(Len(buf) - 1) /\ buf[i] = CR /\ buf[i + 1] = LF
  BY DEF CrlfAt, TypeOK
<1>2. \A j \in 1..Len(buf) : buf[j] = Sent(m)[p + j]
  BY DEF At
<1>3. Len(m.bytes) \in Nat /\ \A j \in 1..Len(m.bytes) : Sent(m)[j] = m.bytes[j]
  BY SentBytes
<1>4. ASSUME NEW j \in 1..Len(buf), p + j <= d PROVE buf[j] = m.bytes[p + j]
  <2>1. p + j \in 1..Len(m.bytes)
    BY <1>1, <1>3, <1>4
  <2> QED
    BY <1>2, <1>3, <2>1
<1>5. PICK g \in Nat : g = d - p - 1 /\ g >= 2 /\ p + g = d - 1 /\ p + (g + 1) = d
  OBVIOUS
<1>6. i >= g
  <2> SUFFICES ASSUME i < g PROVE FALSE
    BY <1>1, <1>5
  <2>1. buf[i] = m.bytes[p + i]
    <3>1. i \in 1..Len(buf) /\ p + i <= d
      BY <1>1, <1>5
    <3> QED
      BY <1>4, <3>1
  <2>2. CASE i = 1
    BY <1>1, <2>1, <2>2 DEF Size, CR
  <2>3. CASE i # 1
    <3>1. p + i \in (p + 2)..(d - 2)
      BY <1>1, <1>5, <2>3
    <3> QED
      BY <1>1, <2>1, <3>1 DEF Other, CR
  <2> QED
    BY <2>2, <2>3
<1>7. i <= g
  <2> SUFFICES ASSUME i > g PROVE FALSE
    BY <1>1, <1>5
  <2>1. g \in 1..Len(buf) /\ g + 1 \in 1..Len(buf) /\ g \in 1..(Len(buf) - 1)
    BY <1>1, <1>5
  <2>2. buf[g] = m.bytes[p + g] /\ buf[g + 1] = m.bytes[p + (g + 1)]
    <3>1. p + g <= d /\ p + (g + 1) <= d
      BY <1>5
    <3>2. buf[g] = m.bytes[p + g]
      BY <1>4, <2>1, <3>1
    <3>3. buf[g + 1] = m.bytes[p + (g + 1)]
      BY <1>4, <2>1, <3>1
    <3> QED
      BY <3>2, <3>3
  <2>3. g \in CrlfAt
    BY <1>5, <2>1, <2>2 DEF CrlfAt
  <2> QED
    BY <1>1, <1>5, <2>3
<1>8. buf[1] = m.bytes[p + 1]
  <2>1. 1 \in 1..Len(buf) /\ p + 1 <= d
    BY <1>1
  <2> QED
    BY <1>4, <2>1
<1> QED
  BY <1>1, <1>5, <1>6, <1>7, <1>8

(* The header of a chunk: the reader is at its data, or at the end. *)
LEMMA FrameHeader ==
    ASSUME Inv, NEW m \in Messages, NEW c, NEW p, Frame(m, c, p), ChunkHeader
    PROVE  \E q : Frame(m, c, q)'
<1>1. /\ pc = "header" /\ framing = "chunked" /\ Live
      /\ UNCHANGED <<relay, framing, total, wire, nb_total_read>>
  BY DEF ChunkHeader, inVars, Inv, ReaderInv, Live
<1>2. ~is_eof
  BY <1>1 DEF Frame, EndAt
<1>3. PICK k \in 1..Len(c) : ChunkAt(c[k], p)
  BY <1>1, <1>2 DEF Frame
<1>4. PICK h : h = c[k]
  OBVIOUS
<1>5. nb_left_chunk = 0 /\ p = h.at /\ nb_total_read = h.base
  BY <1>1, <1>3, <1>4 DEF ChunkAt
<1>6. PICK i \in CrlfAt :
        /\ \A j \in CrlfAt : i <= j
        /\ IF i = 2 /\ buf[1].k = "size" /\ AsInt(buf[1].v) >= 0
           THEN /\ nb_chunk' = AsInt(buf[1].v) /\ nb_left_chunk' = nb_chunk'
                /\ is_eof' = (nb_chunk' = 0)
                /\ pc' = IF is_eof' THEN "crlf" ELSE "data"
                /\ UNCHANGED got
           ELSE Fail /\ UNCHANGED <<is_eof, nb_left_chunk, nb_chunk>>
        /\ IF i = 1 THEN UNCHANGED <<off, buf>> ELSE read_slice(i + 1)
  BY DEF ChunkHeader
<1>7. m.framing = "chunked" /\ WellFormed(m, c) /\ m.framing = framing /\ m.total = total
  BY <1>1 DEF Frame
<1>8. /\ h.at \in Nat /\ h.data \in Nat /\ h.size \in Nat /\ h.base \in Nat
      /\ Len(m.bytes) \in Nat /\ ChunkIn(m, c, k)
  BY <1>4, <1>7, ChunkFacts, SentBytes
<1>9. PICK d \in Nat, z \in Nat : d = h.data /\ z = h.size
  BY <1>8
<1>10. /\ p \in Nat /\ Len(m.bytes) \in Nat /\ HeaderIn(m, p, d, z)
       /\ d + z + 2 <= Len(m.bytes) /\ z <= IntMax
       /\ (z = 0 <=> k = Len(c)) /\ (k = Len(c) => Len(m.bytes) = d + z + 2)
  BY <1>4, <1>5, <1>8, <1>9 DEF ChunkIn
<1>11. i + 1 = d - p /\ i + 1 \in 0..Len(buf) /\ buf[1] = Size(z) /\ i # 1
  <2>1. d <= Len(m.bytes)
    BY <1>10
  <2>2. FirstCrlf(i) /\ At(m, p) /\ TypeOK
    BY <1>6 DEF Frame, Inv, FirstCrlf
  <2> QED
    <3>1. i + 1 = d - p /\ i + 1 \in 0..Len(buf) /\ buf[1] = Size(z)
      BY <1>10, <2>1, <2>2, HeaderFound
    <3>2. p + 3 <= d
      BY <1>10 DEF HeaderIn
    <3> QED
      BY <1>9, <1>10, <3>1, <3>2
<1>12. At(m, d)'
  <2>1. p + (i + 1) = d /\ p + (i + 1) <= Len(m.bytes)
    BY <1>10, <1>11
  <2>2. At(m, p) /\ TypeOK /\ wire' = wire /\ read_slice(i + 1)
    BY <1>1, <1>6, <1>11 DEF Frame, Inv
  <2>3. At(m, p + (i + 1))'
    BY <1>11, <2>1, <2>2, SliceAt
  <2> QED
    BY <2>1, <2>3
<1>13. buf[1].v = z /\ AsInt(buf[1].v) = z
  BY <1>10, <1>11, AsIntExact DEF Size
<1>14. CASE i = 2 /\ buf[1].k = "size" /\ AsInt(buf[1].v) >= 0
  <2>1. nb_left_chunk' = z /\ is_eof' = (z = 0) /\ pc' = IF z = 0 THEN "crlf" ELSE "data"
    BY <1>6, <1>13, <1>14
  <2>2. CASE z = 0
    <3>1. d = Len(m.bytes) - 2
      BY <1>10, <2>2
    <3>2. EndAt(m, d)' /\ is_eof' /\ pc' = "crlf"
      BY <2>1, <2>2, <3>1 DEF EndAt
    <3> QED
      BY <1>1, <1>7, <1>12, <3>2 DEF Frame
  <2>3. CASE z # 0
    <3>1. z \in 1..z /\ d = d + z - z
      BY <2>3
    <3>2. h.base = h.base + z - z
      BY <1>8
    <3>3. ChunkAt(h, d)' /\ ~is_eof' /\ pc' = "data"
      BY <1>1, <1>5, <1>9, <2>1, <2>3, <3>1, <3>2 DEF ChunkAt
    <3> QED
      BY <1>1, <1>4, <1>7, <1>12, <3>3 DEF Frame
  <2> QED
    BY <2>2, <2>3
<1>15. CASE ~(i = 2 /\ buf[1].k = "size" /\ AsInt(buf[1].v) >= 0)
  <2>1. Fail /\ relay \in {"request", "response"}
    BY <1>6, <1>15 DEF Inv, TypeOK
  <2>2. pc' = "failed" \/ (pc' = "write" /\ relay' = "request")
    BY <1>1, <2>1 DEF Fail
  <2> QED
    BY <1>1, <1>7, <1>12, <2>2 DEF Frame, Live
<1> QED
  BY <1>14, <1>15

(* How much read_specified takes, and what it does with it. *)
LEMMA Takes ==
    ASSUME Inv, read_specified
    PROVE  \E n \in 1..Len(buf) :
             /\ n \in Nat /\ read_slice(n)
             /\ framing = "chunked" => n <= nb_left_chunk
             /\ framing = "length" => n <= total - nb_total_read
             /\ nb_total_read' = nb_total_read + n
             /\ nb_left_chunk' = IF framing = "chunked" THEN nb_left_chunk - n ELSE 0
             /\ IF framing = "chunked" /\ nb_left_chunk' = 0
                THEN got' = [i \in 1..n |-> buf[i].v] /\ pc' = "crlf" /\ UNCHANGED content
                ELSE Append_([i \in 1..n |-> buf[i].v])
<1> USE SizeAssumption DEF Inv
<1>1. Len(buf) \in Nat \ {0} /\ pc = "data"
  BY DEF read_specified, TypeOK
<1>2. /\ Wanted \in Nat \ {0} /\ (framing = "chunked" => Wanted <= nb_left_chunk)
      /\ (framing = "length" => Wanted <= total - nb_total_read)
  BY <1>1 DEF Wanted, AtMost, TypeOK, ReaderInv
<1>3. PICK n \in 1..Len(buf) : n = AtMost(Wanted, Len(buf)) /\ n <= Wanted
  BY <1>1, <1>2 DEF AtMost
<1>4. /\ n \in Nat /\ (framing = "chunked" => n <= nb_left_chunk)
      /\ (framing = "length" => n <= total - nb_total_read)
  BY <1>1, <1>2, <1>3 DEF TypeOK
<1>5. /\ read_slice(n)
      /\ nb_total_read' = nb_total_read + n
      /\ nb_left_chunk' = IF framing = "chunked" THEN nb_left_chunk - n ELSE 0
      /\ IF framing = "chunked" /\ nb_left_chunk' = 0
         THEN got' = [i \in 1..n |-> buf[i].v] /\ pc' = "crlf" /\ UNCHANGED content
         ELSE Append_([i \in 1..n |-> buf[i].v])
  BY <1>3 DEF read_specified
<1> QED
  BY <1>4, <1>5

(* Data are taken from where they are. *)
LEMMA FrameData ==
    ASSUME Inv, NEW m \in Messages, NEW c, NEW p, Frame(m, c, p), read_specified
    PROVE  \E q : Frame(m, c, q)'
<1>1. /\ pc = "data" /\ Live /\ UNCHANGED <<relay, framing, total, wire>>
      /\ is_eof' = (framing = "length" /\ nb_total_read' >= AsInt(total))
      /\ framing \in {"chunked", "length"}
  BY DEF read_specified, inVars, Live, Inv, TypeOK
<1>2. PICK n \in 1..Len(buf) :
        /\ n \in Nat /\ read_slice(n)
        /\ framing = "chunked" => n <= nb_left_chunk
        /\ framing = "length" => n <= total - nb_total_read
        /\ nb_total_read' = nb_total_read + n
        /\ nb_left_chunk' = IF framing = "chunked" THEN nb_left_chunk - n ELSE 0
        /\ IF framing = "chunked" /\ nb_left_chunk' = 0
           THEN got' = [i \in 1..n |-> buf[i].v] /\ pc' = "crlf" /\ UNCHANGED content
           ELSE Append_([i \in 1..n |-> buf[i].v])
  BY Takes
<1>3. /\ m.framing = framing /\ WellFormed(m, c) /\ m.total = total /\ At(m, p) /\ TypeOK
      /\ nb_total_read \in Nat /\ nb_left_chunk \in Nat /\ total \in Nat /\ Len(m.bytes) \in Nat
      /\ p \in Nat /\ n \in 0..Len(buf)
  BY <1>2, FrameTypes
<1>4. p + n <= Len(m.bytes) => At(m, p + n)'
  BY <1>1, <1>2, <1>3, SliceAt
<1>5. CASE framing = "length"
  <2>1. LengthAt(p) /\ m.total <= IntMax /\ m.bytes = [i \in 1..m.total |-> Data(i)]
    BY <1>3, <1>5 DEF Frame, WellFormed, WellMeasured
  <2>2. Len(m.bytes) = total
    BY <1>3, <2>1
  <2>3. p = nb_total_read /\ p + n <= total /\ p + n = nb_total_read'
    BY <1>2, <1>3, <1>5, <2>1 DEF LengthAt
  <2>4. pc' \in {"read", "write"} /\ nb_left_chunk' = 0
    BY <1>2, <1>5 DEF Append_
  <2>5. is_eof' <=> p + n >= total
    <3>1. AsInt(total) = total
      BY <1>3, <2>1, AsIntExact
    <3> QED
      BY <1>1, <1>5, <2>3, <3>1
  <2>6. is_eof' <=> p + n = total
    BY <1>3, <2>3, <2>5
  <2> QED
    BY <1>1, <1>3, <1>4, <1>5, <2>2, <2>3, <2>4, <2>6 DEF Frame, LengthAt
<1>6. CASE framing = "chunked"
  <2>1. ~is_eof' /\ ~is_eof
    BY <1>1, <1>6 DEF Frame, EndAt
  <2>2. PICK k \in 1..Len(c) : ChunkAt(c[k], p)
    BY <1>1, <1>6, <2>1 DEF Frame
  <2>3. PICK h : h = c[k]
    OBVIOUS
  <2>4. /\ nb_left_chunk \in 1..h.size /\ p = h.data + h.size - nb_left_chunk
        /\ nb_total_read = h.base + h.size - nb_left_chunk
    BY <1>1, <2>2, <2>3 DEF ChunkAt
  <2>5. /\ h.data \in Nat /\ h.size \in Nat /\ h.base \in Nat /\ ChunkIn(m, c, k)
    BY <1>3, <1>6, <2>3, ChunkFacts
  <2>6. PICK d \in Nat, z \in Nat, b \in Nat : d = h.data /\ z = h.size /\ b = h.base
    BY <2>5
  <2>7. d + z + 2 <= Len(m.bytes)
    BY <2>3, <2>5, <2>6 DEF ChunkIn
  <2>8. PICK l \in Nat : l = nb_left_chunk /\ n <= l /\ l <= z /\ nb_left_chunk' = l - n
    BY <1>2, <1>3, <1>6, <2>4, <2>6
  <2>9. /\ p = d + z - l /\ nb_total_read = b + z - l
        /\ p + n = d + z - (l - n) /\ nb_total_read' = b + z - (l - n)
        /\ p + n <= Len(m.bytes) /\ l - n \in Nat /\ l - n <= z
    <3>1. p = d + z - l /\ nb_total_read = b + z - l
      BY <2>4, <2>6, <2>8
    <3>2. n \in Nat /\ p \in Nat /\ Len(m.bytes) \in Nat /\ nb_total_read' = nb_total_read + n
      BY <1>2, <1>3
    <3>3. l - n \in Nat /\ l - n <= z /\ p + n = d + z - (l - n)
      BY ONLY <2>8, <3>1, <3>2, d \in Nat, z \in Nat, l \in Nat
    <3>4. nb_total_read' = b + z - (l - n)
      BY ONLY <3>1, <3>2, b \in Nat, z \in Nat, l \in Nat
    <3>5. p + n <= Len(m.bytes)
      BY ONLY <2>7, <3>2, <3>3, d \in Nat, z \in Nat
    <3> QED
      BY <3>1, <3>3, <3>4, <3>5
  <2>10. ChunkAt(h, p + n)'
    <3>1. CASE l = n
      <4>1. pc' = "crlf" /\ nb_left_chunk' = 0
        BY <1>2, <1>6, <2>8, <3>1
      <4>2. h.size > 0 /\ p + n = h.data + h.size /\ nb_total_read' = h.base + h.size
        <5>1. n >= 1 /\ l - n = 0
          BY <1>2, <3>1
        <5>2. z > 0 /\ p + n = d + z /\ nb_total_read' = b + z
          BY ONLY <2>8, <2>9, <5>1, <3>1, n \in Nat, d \in Nat, z \in Nat, b \in Nat
        <5> QED
          BY <2>6, <5>2
      <4> QED
        BY <4>1, <4>2 DEF ChunkAt
    <3>2. CASE l # n
      <4>1. nb_left_chunk' # 0 /\ nb_left_chunk' \in 1..z
        BY <2>8, <2>9, <3>2
      <4>2. pc' \in {"read", "write"}
        BY <1>2, <4>1 DEF Append_
      <4> QED
        BY <2>6, <2>8, <2>9, <4>1, <4>2 DEF ChunkAt
    <3> QED
      BY <3>1, <3>2
  <2> QED
    <3>1. At(m, p + n)' /\ pc' # "done"
      BY <1>2, <1>4, <2>9 DEF Append_
    <3>2. \E j \in 1..Len(c) : ChunkAt(c[j], p + n)'
      BY <2>3, <2>10
    <3> QED
      BY <1>1, <1>3, <1>6, <2>1, <3>1, <3>2 DEF Frame
<1> QED
  BY <1>1, <1>5, <1>6

(* Behind the CRLF of a chunk there is the next one, or nothing more. *)
LEMMA FrameCrlf ==
    ASSUME Inv, NEW m \in Messages, NEW c, NEW p, Frame(m, c, p), ChunkEnd
    PROVE  \E q : Frame(m, c, q)'
<1>1. /\ pc = "crlf" /\ Live /\ Len(buf) >= 2 /\ read_slice(2) /\ pc' \in {"read", "write"}
      /\ UNCHANGED <<relay, framing, total, wire, is_eof, nb_left_chunk, nb_total_read>>
  BY DEF ChunkEnd, inVars, rdVars, Live, Append_
<1>2. /\ m.framing = framing /\ WellFormed(m, c) /\ m.total = total /\ At(m, p) /\ TypeOK
      /\ Len(m.bytes) \in Nat /\ p \in Nat /\ 2 \in 0..Len(buf)
  BY <1>1, FrameTypes
<1>3. framing = "chunked"
  BY <1>1 DEF Frame, LengthAt, Inv, TypeOK
<1>4. p + 2 <= Len(m.bytes) => At(m, p + 2)'
  BY <1>1, <1>2, SliceAt
<1>5. CASE is_eof
  <2>1. EndAt(m, p)
    BY <1>1, <1>3, <1>5 DEF Frame
  <2>2. nb_left_chunk = 0 /\ p + 2 = Len(m.bytes)
    BY <1>1, <1>2, <2>1 DEF EndAt
  <2>3. EndAt(m, p + 2)'
    BY <1>1, <2>2 DEF EndAt
  <2> QED
    BY <1>1, <1>2, <1>3, <1>4, <1>5, <2>2, <2>3 DEF Frame
<1>6. CASE ~is_eof
  <2>1. PICK k \in 1..Len(c) : ChunkAt(c[k], p)
    BY <1>1, <1>3, <1>6 DEF Frame
  <2>2. PICK h : h = c[k]
    OBVIOUS
  <2>3. /\ nb_left_chunk = 0 /\ h.size > 0
        /\ p = h.data + h.size /\ nb_total_read = h.base + h.size
    BY <1>1, <2>1, <2>2 DEF ChunkAt
  <2>4. h.size \in Nat /\ h.data \in Nat /\ Len(c) \in Nat /\ ChunkIn(m, c, k)
    BY <1>2, <1>3, <2>2, ChunkFacts
  <2>5. /\ h.data + h.size + 2 <= Len(m.bytes) /\ (h.size = 0 <=> k = Len(c))
        /\ (k < Len(c) => /\ c[k + 1].at = h.data + h.size + 2
                          /\ c[k + 1].base = h.base + h.size)
    BY <2>2, <2>4 DEF ChunkIn
  <2>6. h.size # 0
    BY <2>3, <2>4
  <2>7. k < Len(c) /\ k + 1 \in 1..Len(c)
    BY <2>4, <2>5, <2>6
  <2>8. p + 2 = c[k + 1].at /\ nb_total_read = c[k + 1].base /\ p + 2 <= Len(m.bytes)
    BY <2>3, <2>5, <2>7
  <2>9. ChunkAt(c[k + 1], p + 2)'
    BY <1>1, <2>3, <2>8 DEF ChunkAt
  <2> QED
    BY <1>1, <1>2, <1>3, <1>4, <1>6, <2>7, <2>8, <2>9 DEF Frame
<1> QED
  BY <1>5, <1>6

-----------------------------------------------------------------------------
(* The bytes on their way through got, content and out *)

(* A piece of the body and the piece that follows it. *)
LEMMA FollowOn ==
    ASSUME NEW n \in Nat, NEW s \in Seq(Nat), NEW t \in Seq(Nat),
           Follows(s, n), Follows(t, n + Len(s))
    PROVE  s \o t \in Seq(Nat) /\ Len(s \o t) = Len(s) + Len(t) /\ Follows(s \o t, n)
<1>1. Len(s) \in Nat /\ Len(t) \in Nat
  OBVIOUS
<1>2. PICK u : u = s \o t
  OBVIOUS
<1>3. u \in Seq(Nat) /\ Len(u) = Len(s) + Len(t)
  BY <1>2, Concat
<1>4. ASSUME NEW i \in 1..Len(u) PROVE u[i] = n + i
  <2>1. CASE i <= Len(s)
    <3>1. i \in 1..Len(s) /\ u[i] = s[i]
      BY <1>1, <1>2, <1>3, <2>1
    <3> QED
      BY <3>1 DEF Follows
  <2>2. CASE i > Len(s)
    <3>1. i - Len(s) \in 1..Len(t) /\ u[i] = t[i - Len(s)]
      BY <1>1, <1>2, <1>3, <2>2
    <3>2. t[i - Len(s)] = (n + Len(s)) + (i - Len(s))
      BY <3>1 DEF Follows
    <3> QED
      BY <1>1, <1>3, <3>1, <3>2
  <2> QED
    BY <1>1, <1>3, <2>1, <2>2
<1> QED
  BY <1>2, <1>3, <1>4 DEF Follows

(* What read_specified takes are the next bytes of the body, and no others. *)
LEMMA DataTaken ==
    ASSUME Inv, NEW m \in Messages, NEW c, NEW p, Frame(m, c, p), pc = "data",
           NEW n \in 1..Len(buf), n \in Nat,
           framing = "chunked" => n <= nb_left_chunk,
           framing = "length" => n <= total - nb_total_read
    PROVE  /\ [i \in 1..n |-> buf[i].v] \in Seq(Nat) /\ Len([i \in 1..n |-> buf[i].v]) = n
           /\ Follows([i \in 1..n |-> buf[i].v], nb_total_read)
<1>1. /\ m.framing = framing /\ WellFormed(m, c) /\ m.total = total /\ At(m, p)
      /\ nb_total_read \in Nat /\ nb_left_chunk \in Nat /\ total \in Nat
      /\ framing \in {"chunked", "length"} /\ Len(buf) \in Nat
      /\ p \in 0..Len(m.bytes) /\ Len(m.bytes) \in Nat
  BY FrameTypes
<1>2. \A i \in 1..n : buf[i] = Sent(m)[p + i]
  BY <1>1 DEF At
<1>3. ASSUME NEW i \in 1..n PROVE buf[i].v = nb_total_read + i
  <2>1. CASE framing = "length"
    <3>1. p = nb_total_read /\ m.bytes = [j \in 1..total |-> Data(j)]
      BY <1>1, <2>1 DEF Frame, LengthAt, WellFormed, WellMeasured
    <3>2. p + i \in 1..total
      BY <1>1, <2>1, <3>1
    <3>3. Len(m.bytes) = total
      BY <1>1, <3>1
    <3>4. Sent(m)[p + i] = m.bytes[p + i]
      BY <3>2, <3>3, SentBytes
    <3>5. m.bytes[p + i] = Data(p + i)
      BY <3>1, <3>2
    <3> QED
      BY <1>2, <3>1, <3>4, <3>5 DEF Data
  <2>2. CASE framing = "chunked"
    <3>1. ~is_eof /\ Live
      BY <2>2 DEF Frame, EndAt, Live
    <3>2. PICK k \in 1..Len(c) : ChunkAt(c[k], p)
      BY <2>2, <3>1 DEF Frame
    <3>3. PICK h : h = c[k]
      OBVIOUS
    <3>4. /\ nb_left_chunk \in 1..h.size /\ p = h.data + h.size - nb_left_chunk
          /\ nb_total_read = h.base + h.size - nb_left_chunk
      BY <3>2, <3>3 DEF ChunkAt
    <3>5. h.data \in Nat /\ h.size \in Nat /\ h.base \in Nat /\ ChunkIn(m, c, k)
      BY <1>1, <2>2, <3>3, ChunkFacts
    <3>6. PICK d \in Nat, z \in Nat, b \in Nat : d = h.data /\ z = h.size /\ b = h.base
      BY <3>5
    <3>7. d + z + 2 <= Len(m.bytes) /\ \A j \in 1..z : m.bytes[d + j] = Data(b + j)
      BY <3>3, <3>5, <3>6 DEF ChunkIn
    <3>8. PICK l \in Nat : l = nb_left_chunk /\ n <= l /\ l <= z
      BY <1>1, <2>2, <3>4, <3>6
    <3>9. p = d + z - l /\ nb_total_read = b + z - l
      BY <3>4, <3>6, <3>8
    <3>10. PICK j \in 1..z : j = z - l + i
      BY <3>8
    <3>11. p + i = d + j /\ nb_total_read + i = b + j /\ d + j \in 1..Len(m.bytes)
      BY <1>1, <3>7, <3>9, <3>10
    <3>12. Sent(m)[d + j] = m.bytes[d + j]
      BY <3>11, SentBytes
    <3>13. buf[i] = Data(b + j)
      BY <1>2, <3>7, <3>11, <3>12
    <3> QED
      BY <3>11, <3>13 DEF Data
  <2> QED
    BY <1>1, <2>1, <2>2
<1>4. [i \in 1..n |-> buf[i].v] \in [1..n -> Nat]
  BY <1>1, <1>3
<1>5. [i \in 1..n |-> buf[i].v] \in Seq(Nat) /\ Len([i \in 1..n |-> buf[i].v]) = n
  BY <1>4
<1> QED
  BY <1>3, <1>5 DEF Follows

LEMMA NothingFollows == \A n : Follows(<<>>, n)
BY DEF Follows

(* The types the counting needs. *)
LEMMA Counts ==
    ASSUME Inv
    PROVE  /\ out \in Seq(Nat) /\ content \in Seq(Nat) /\ got \in Seq(Nat)
           /\ Len(out) \in Nat /\ Len(content) \in Nat /\ Len(got) \in Nat
           /\ nb_total_read \in Nat /\ total \in Nat /\ PartSize \in Nat
           /\ relay \in {"request", "response"} /\ framing \in {"chunked", "length"}
           /\ is_eof \in BOOLEAN
BY SizeAssumption DEF Inv, TypeOK

(* Steps that move no byte of the body. *)
LEMMA TakenQuiet ==
    ASSUME Inv, TakenInv,
           \/ BeginPart \/ read \/ ReadFails \/ Overflow \/ WriteFails \/ WriteRequest
           \/ \E n \in 1..Len(wire) : grow(n)
    PROVE  TakenInv'
<1>1. CASE BeginPart
  <2>1. /\ pc = "part" /\ pc' = "read" /\ content' = <<>> /\ Len(content') = 0
        /\ UNCHANGED <<relay, total, is_eof, nb_total_read, got, out>>
    BY <1>1 DEF BeginPart, inVars, rdVars
  <2>2. got = <<>> /\ nb_total_read = Len(out) + 0 + Len(got) /\ Follows(out, 0)
    BY <2>1 DEF TakenInv, Live
  <2> QED
    BY <2>1, <2>2, NothingFollows, Counts DEF TakenInv, Live
<1>2. CASE read
  <2>1. /\ pc = "read" /\ pc' \in {"write", "header", "data"} /\ (pc' = "write" => is_eof)
        /\ UNCHANGED <<relay, total, is_eof, nb_total_read, got, content, out>>
    BY <1>2, ReadCalled DEF inVars, rdVars
  <2> QED
    BY <2>1 DEF TakenInv, Live
<1>3. CASE ReadFails \/ Overflow
  <2>1. pc \in {"header", "data", "crlf"}
    <3>1. Len(buf) \in Nat
      BY DEF Inv, TypeOK
    <3>2. pc \notin {"header", "data", "crlf"} => Required = 0
      BY DEF Required
    <3> QED
      BY <1>3, <3>1, <3>2 DEF ReadFails, Overflow
  <2>2. /\ pc' = "failed" \/ (pc' = "write" /\ relay = "request")
        /\ got' = <<>> /\ UNCHANGED <<relay, total, is_eof, nb_total_read, content, out>>
    BY <1>3, Counts DEF ReadFails, Overflow, Fail, inVars, rdVars
  <2>3. is_eof => got = <<>>
    BY DEF TakenInv
  <2>4. nb_total_read = Len(out) + Len(content) + Len(got)
    BY <2>1 DEF TakenInv, Live
  <2>5. is_eof => nb_total_read = Len(out) + Len(content) + Len(got')
    BY <2>2, <2>3, <2>4
  <2> QED
    BY <2>1, <2>2, <2>5, NothingFollows DEF TakenInv, Live
<1>4. CASE WriteFails
  BY <1>4 DEF WriteFails, TakenInv, Live, inVars, rdVars
<1>5. CASE WriteRequest
  <2>1. /\ pc = "write" /\ pc' = "done"
        /\ UNCHANGED <<relay, total, is_eof, nb_total_read, got, content>>
    BY <1>5 DEF WriteRequest, inVars, rdVars
  <2>2. got = <<>>
    BY <2>1 DEF TakenInv
  <2> QED
    BY <2>1, <2>2, NothingFollows DEF TakenInv, Live
<1>6. CASE \E n \in 1..Len(wire) : grow(n)
  <2>1. UNCHANGED <<relay, total, is_eof, nb_total_read, got, content, out, pc>>
    BY <1>6 DEF grow, inVars, rdVars
  <2> QED
    BY <2>1 DEF TakenInv, Live
<1> QED
  BY <1>1, <1>2, <1>3, <1>4, <1>5, <1>6

(* The header of the last chunk comes when the whole body has been taken. *)
LEMMA TakenHeader ==
    ASSUME Inv, TakenInv, NEW m \in Messages, NEW c, NEW p, Frame(m, c, p), ChunkHeader
    PROVE  TakenInv'
<1>1. /\ pc = "header" /\ framing = "chunked" /\ Live
      /\ UNCHANGED <<relay, total, nb_total_read, content, out>>
  BY DEF ChunkHeader, inVars, Inv, ReaderInv, Live
<1>2. ~is_eof
  BY <1>1 DEF Frame, EndAt
<1>3. PICK k \in 1..Len(c) : ChunkAt(c[k], p)
  BY <1>1, <1>2 DEF Frame
<1>4. PICK h : h = c[k]
  OBVIOUS
<1>5. p = h.at /\ nb_total_read = h.base
  BY <1>1, <1>3, <1>4 DEF ChunkAt
<1>6. PICK i \in CrlfAt :
        /\ \A j \in CrlfAt : i <= j
        /\ IF i = 2 /\ buf[1].k = "size" /\ AsInt(buf[1].v) >= 0
           THEN /\ nb_chunk' = AsInt(buf[1].v) /\ nb_left_chunk' = nb_chunk'
                /\ is_eof' = (nb_chunk' = 0)
                /\ pc' = IF is_eof' THEN "crlf" ELSE "data"
                /\ UNCHANGED got
           ELSE Fail /\ UNCHANGED <<is_eof, nb_left_chunk, nb_chunk>>
  BY DEF ChunkHeader
<1>7. /\ got = <<>> /\ Follows(out, 0) /\ Follows(content, Len(out))
      /\ nb_total_read = Len(out) + Len(content) + Len(got)
      /\ (relay = "response" => Len(content) <= PartSize)
  BY <1>1 DEF TakenInv, Live
<1>8. CASE i = 2 /\ buf[1].k = "size" /\ AsInt(buf[1].v) >= 0
  <2>1. is_eof' = (AsInt(buf[1].v) = 0) /\ pc' \in {"crlf", "data"} /\ got' = got
    BY <1>6, <1>8
  <2>2. is_eof' => nb_total_read = total
    <3>1. m.framing = "chunked" /\ WellFormed(m, c) /\ m.total = total /\ At(m, p) /\ TypeOK
      BY <1>1 DEF Frame, Inv
    <3>2. /\ h.at \in Nat /\ h.data \in Nat /\ h.size \in Nat /\ ChunkIn(m, c, k)
          /\ Len(m.bytes) \in Nat
      BY <1>4, <3>1, ChunkFacts, SentBytes
    <3>3. /\ HeaderIn(m, h.at, h.data, h.size) /\ h.data + h.size + 2 <= Len(m.bytes)
          /\ h.size <= IntMax /\ (h.size = 0 <=> k = Len(c)) /\ (k = Len(c) => m.total = h.base)
      BY <1>4, <3>2 DEF ChunkIn
    <3>4. h.data <= Len(m.bytes)
      BY <3>2, <3>3
    <3>5. FirstCrlf(i) /\ At(m, h.at)
      BY <1>5, <1>6, <3>1 DEF FirstCrlf
    <3>6. buf[1] = Size(h.size)
      BY <3>1, <3>2, <3>3, <3>4, <3>5, HeaderFound
    <3>7. AsInt(buf[1].v) = h.size
      BY <3>2, <3>3, <3>6, AsIntExact DEF Size
    <3> QED
      BY <1>5, <2>1, <3>1, <3>3, <3>7
  <2> QED
    BY <1>1, <1>7, <2>1, <2>2, NothingFollows DEF TakenInv, Live
<1>9. CASE ~(i = 2 /\ buf[1].k = "size" /\ AsInt(buf[1].v) >= 0)
  <2>1. /\ pc' = "failed" \/ (pc' = "write" /\ relay = "request")
        /\ got' = <<>> /\ is_eof' = is_eof
    BY <1>6, <1>9, Counts DEF Fail
  <2> QED
    BY <1>1, <1>2, <1>7, <2>1, NothingFollows DEF TakenInv, Live
<1> QED
  BY <1>8, <1>9

(* The caller of read() appends what it gave. *)
LEMMA TakenAppend ==
    ASSUME Inv, TakenInv, pc \in {"data", "crlf"}, NEW s \in Seq(Nat), Append_(s),
           Follows(s, Len(out) + Len(content)),
           nb_total_read' = Len(out) + Len(content) + Len(s),
           UNCHANGED <<relay, total, out>>, is_eof' => nb_total_read' = total'
    PROVE  TakenInv'
<1>1. Len(out) \in Nat /\ Len(content) \in Nat /\ PartSize \in Nat /\ content \in Seq(Nat)
  BY Counts
<1>2. Follows(out, 0) /\ Follows(content, Len(out))
  BY DEF TakenInv
<1>3. content' = content \o s /\ got' = <<>>
  BY DEF Append_
<1>4. Len(content') = Len(content) + Len(s) /\ Follows(content', Len(out)) /\ Len(content') \in Nat
  <2>1. /\ content \o s \in Seq(Nat) /\ Len(content \o s) = Len(content) + Len(s)
        /\ Follows(content \o s, Len(out))
    BY <1>1, <1>2, FollowOn
  <2> QED
    BY <1>3, <2>1
<1>5. /\ pc' \in {"write", "read"}
      /\ pc' = "write" => relay = "response" /\ Len(content') > PartSize
      /\ pc' = "read" /\ relay = "response" => Len(content') <= PartSize
  BY <1>1, <1>4 DEF Append_
<1>6. nb_total_read' = Len(out) + Len(content') + Len(got')
  BY <1>1, <1>3, <1>4
<1> QED
  BY <1>2, <1>3, <1>4, <1>5, <1>6, NothingFollows DEF TakenInv, Live

(* Data are taken into got or content. *)
LEMMA TakenData ==
    ASSUME Inv, TakenInv, NEW m \in Messages, NEW c, NEW p, Frame(m, c, p), read_specified
    PROVE  TakenInv'
<1>1. /\ pc = "data" /\ UNCHANGED <<relay, framing, total, out>>
      /\ is_eof' = (framing = "length" /\ nb_total_read' >= AsInt(total))
  BY DEF read_specified, inVars
<1>2. PICK n \in 1..Len(buf) :
        /\ n \in Nat /\ read_slice(n)
        /\ framing = "chunked" => n <= nb_left_chunk
        /\ framing = "length" => n <= total - nb_total_read
        /\ nb_total_read' = nb_total_read + n
        /\ nb_left_chunk' = IF framing = "chunked" THEN nb_left_chunk - n ELSE 0
        /\ IF framing = "chunked" /\ nb_left_chunk' = 0
           THEN got' = [i \in 1..n |-> buf[i].v] /\ pc' = "crlf" /\ UNCHANGED content
           ELSE Append_([i \in 1..n |-> buf[i].v])
  BY Takes
<1>3. PICK s : s = [i \in 1..n |-> buf[i].v]
  OBVIOUS
<1>4. s \in Seq(Nat) /\ Len(s) = n /\ Follows(s, nb_total_read)
  BY <1>1, <1>2, <1>3, DataTaken
<1>5. got = <<>> /\ Len(got) = 0 /\ nb_total_read = Len(out) + Len(content) + Len(got)
  BY <1>1 DEF TakenInv, Live
<1>6. nb_total_read = Len(out) + Len(content)
  BY <1>5, Counts
<1>7. is_eof' => nb_total_read' = total'
  <2>1. \E q : Frame(m, c, q)'
    BY FrameData
  <2>2. is_eof' => framing' = "length"
    BY <1>1
  <2> QED
    BY <2>1, <2>2 DEF Frame, LengthAt
<1>8. CASE framing = "chunked" /\ nb_left_chunk' = 0
  <2>1. got' = s /\ pc' = "crlf" /\ content' = content /\ ~is_eof'
    BY <1>1, <1>2, <1>3, <1>8
  <2>2. nb_total_read' = Len(out) + Len(content) + Len(got')
    BY <1>2, <1>4, <1>6, <2>1
  <2>3. Follows(got', Len(out) + Len(content))
    BY <1>4, <1>6, <2>1
  <2>4. Follows(out, 0) /\ Follows(content, Len(out)) /\ (relay = "response" => Len(content) <= PartSize)
    BY <1>1 DEF TakenInv
  <2> QED
    BY <1>1, <2>1, <2>2, <2>3, <2>4 DEF TakenInv, Live
<1>9. CASE ~(framing = "chunked" /\ nb_left_chunk' = 0)
  <2>1. Append_(s)
    BY <1>2, <1>3, <1>9
  <2>2. nb_total_read' = Len(out) + Len(content) + Len(s)
    BY <1>2, <1>4, <1>6
  <2>3. Follows(s, Len(out) + Len(content))
    BY <1>4, <1>6
  <2> QED
    BY <1>1, <1>4, <1>7, <2>1, <2>2, <2>3, TakenAppend
<1> QED
  BY <1>8, <1>9

(* The end of a chunk hands over what was taken from it. *)
LEMMA TakenCrlf == ASSUME Inv, TakenInv, ChunkEnd PROVE TakenInv'
<1>1. pc = "crlf" /\ Append_(got) /\ UNCHANGED <<relay, total, out, is_eof, nb_total_read>>
  BY DEF ChunkEnd, inVars, rdVars
<1>2. /\ Follows(got, Len(out) + Len(content)) /\ (is_eof => nb_total_read = total)
      /\ nb_total_read = Len(out) + Len(content) + Len(got)
  BY <1>1 DEF TakenInv, Live
<1> QED
  BY <1>1, <1>2, Counts, TakenAppend

(* A part is written behind the ones before it. *)
LEMMA TakenPart == ASSUME Inv, TakenInv, WritePart PROVE TakenInv'
<1>1. /\ pc = "write" /\ relay = "response" /\ pc' = (IF Finish THEN "done" ELSE "part")
      /\ UNCHANGED <<relay, total, is_eof, nb_total_read, got, content>>
  BY DEF WritePart, inVars, rdVars
<1>2. /\ got = <<>> /\ Len(got) = 0 /\ Follows(out, 0) /\ Follows(content, Len(out))
      /\ nb_total_read = Len(out) + Len(content) + Len(got)
      /\ (~is_eof => Len(content) > PartSize) /\ (is_eof => nb_total_read = total)
  BY <1>1 DEF TakenInv, Live
<1>3. CASE Finish
  <2>1. pc' = "done"
    BY <1>1, <1>3
  <2> QED
    BY <1>1, <1>2, <2>1, NothingFollows DEF TakenInv, Live
<1>4. CASE ~Finish
  <2>1. Len(content) > PartSize
    BY <1>2, <1>4, Counts DEF Finish
  <2>2. content # <<>>
    BY <2>1, Counts
  <2>3. out' = out \o content
    <3>1. out' = out \o content \o <<>>
      BY <1>4, <2>2 DEF WritePart, Chunk
    <3>2. out \o content \in Seq(Nat)
      BY Counts, Concat
    <3> QED
      BY <3>1, <3>2
  <2>4. Len(out') = Len(out) + Len(content) /\ Follows(out', 0)
    <3>1. 0 \in Nat /\ Follows(content, 0 + Len(out))
      BY <1>2, Counts
    <3> QED
      BY <1>2, <2>3, <3>1, Counts, FollowOn
  <2>5. pc' = "part"
    BY <1>1, <1>4
  <2>6. nb_total_read = Len(out') + 0 + Len(got)
    BY <1>2, <2>4, Counts
  <2> QED
    BY <1>1, <1>2, <2>4, <2>5, <2>6, NothingFollows DEF TakenInv, Live
<1> QED
  BY <1>3, <1>4

-----------------------------------------------------------------------------
(* The end of the relay *)

(* A piece of the body is ended by nothing but marks. *)
LEMMA Unended ==
    ASSUME NEW s \in Seq(Nat), Follows(s, 0)
    PROVE  Len(s) \in Nat /\ Ended(s, Len(s))
<1>1. Len(s) \in Nat /\ \A i \in 1..Len(s) : s[i] = i
  BY DEF Follows
<1> QED
  BY <1>1 DEF Ended

LEMMA OneMore ==
    ASSUME NEW s \in Seq(Nat), NEW d \in Nat, Ended(s, d), NEW e, e \in {<<>>, <<EndMark>>}
    PROVE  s \o e \in Seq(Nat) /\ Len(s \o e) = Len(s) + Len(e) /\ Ended(s \o e, d)
<1>1. /\ Len(s) \in Nat /\ d \in 0..Len(s) /\ e \in Seq(Nat)
      /\ \A i \in 1..d : s[i] = i
      /\ \A i \in (d + 1)..Len(s) : s[i] = EndMark
  <2>1. <<EndMark>> \in Seq(Nat)
    BY DEF EndMark
  <2>2. e \in Seq(Nat)
    <3>1. CASE e = <<>>
      BY <3>1
    <3>2. CASE e = <<EndMark>>
      BY <2>1, <3>2
    <3> QED
      BY <3>1, <3>2
  <2> QED
    BY <2>2 DEF Ended
<1>2. CASE e = <<>>
  BY <1>1, <1>2
<1>3. CASE e = <<EndMark>>
  <2>1. PICK t : t = s \o e
    OBVIOUS
  <2>2. t \in Seq(Nat) /\ Len(t) = Len(s) + 1 /\ Len(e) = 1 /\ Len(t) = Len(s) + Len(e)
    BY <1>1, <1>3, <2>1
  <2>3. (\A i \in 1..Len(s) : t[i] = s[i]) /\ t[Len(s) + 1] = EndMark
    BY <1>1, <1>3, <2>1
  <2>4. Ended(t, d)
    <3>1. PICK l \in Nat : l = Len(s) /\ d <= l /\ Len(t) = l + 1
      BY <1>1, <2>2
    <3>2. ASSUME NEW i \in 1..d PROVE t[i] = i
      <4>1. i \in 1..l
        BY <3>1
      <4> QED
        BY <1>1, <2>3, <3>1, <4>1
    <3>3. ASSUME NEW i \in (d + 1)..(l + 1) PROVE t[i] = EndMark
      <4>1. CASE i = l + 1
        BY <2>3, <3>1, <4>1
      <4>2. CASE i # l + 1
        <5>1. i \in (d + 1)..l /\ i \in 1..l
          BY <3>1, <4>2
        <5> QED
          BY <1>1, <2>3, <3>1, <5>1
      <4> QED
        BY <4>1, <4>2
    <3>4. d \in 0..(l + 1)
      BY <3>1
    <3> QED
      BY <3>1, <3>2, <3>3, <3>4 DEF Ended
  <2> QED
    BY <2>1, <2>2, <2>4
<1> QED
  BY <1>2, <1>3

(* What stands in out after the last write. *)
LEMMA DoneWritten ==
    ASSUME Inv, TakenInv, WritePart \/ WriteRequest
    PROVE  DoneInv'
<1>1. /\ pc = "write" /\ UNCHANGED <<relay, framing, total, is_eof, nb_total_read, content>>
  BY DEF WritePart, WriteRequest, inVars, rdVars
<1>2. /\ Follows(out, 0) /\ Follows(content, Len(out)) /\ (is_eof => nb_total_read = total)
      /\ (is_eof => nb_total_read = Len(out) + Len(content) + Len(got))
      /\ got = <<>> /\ Len(got) = 0
  BY <1>1 DEF TakenInv, Live
<1>3. is_eof => total = Len(out) + Len(content)
  BY <1>2, Counts
<1>4. PICK u : u = out \o content
  OBVIOUS
<1>5. u \in Seq(Nat) /\ Len(u) = Len(out) + Len(content) /\ Follows(u, 0)
  <2>1. 0 \in Nat /\ Follows(content, 0 + Len(out))
    BY <1>2, Counts
  <2> QED
    BY <1>2, <1>4, <2>1, Counts, FollowOn
<1>6. PICK d \in Nat : d = Len(u) /\ Ended(u, d) /\ (is_eof => d = total)
  BY <1>3, <1>5, Unended
<1>7. End \in {<<>>, <<EndMark>>} /\ Len(End) = IF framing = "chunked" THEN 1 ELSE 0
  BY DEF End
<1>8. Ended(u \o End, d) /\ Len(u \o End) = IF framing = "chunked" THEN d + 1 ELSE d
  <2>1. Ended(u \o End, d) /\ Len(u \o End) = Len(u) + Len(End)
    BY <1>5, <1>6, <1>7, OneMore
  <2> QED
    BY <1>6, <1>7, <2>1
<1>9. content = <<>> => u = out
  BY <1>4, Counts
<1>10. CASE WritePart
  <2> SUFFICES ASSUME Finish PROVE DoneInv'
    BY <1>10 DEF WritePart, DoneInv
  <2>1. CASE content = <<>>
    <3>1. out' = out \o <<>> \o End
      BY <1>10, <2>1 DEF WritePart
    <3>2. out' = u \o End
      BY <1>9, <2>1, <3>1, Counts
    <3> QED
      BY <1>1, <1>6, <1>8, <3>2 DEF DoneInv
  <2>2. CASE content # <<>>
    <3>1. out' = out \o content \o End
      BY <1>10, <2>2 DEF WritePart, Chunk
    <3>2. out' = u \o End
      BY <1>4, <3>1
    <3> QED
      BY <1>1, <1>6, <1>8, <3>2 DEF DoneInv
  <2> QED
    BY <2>1, <2>2
<1>11. CASE WriteRequest
  <2>1. relay = "request" /\ out' = out \o Chunk \o End
    BY <1>11 DEF WriteRequest
  <2>2. CASE framing = "chunked" /\ content = <<>>
    <3>1. Chunk = <<EndMark>> /\ Chunk \in {<<>>, <<EndMark>>}
      BY <2>2 DEF Chunk
    <3>2. Ended(out, d) /\ out \in Seq(Nat)
      BY <1>6, <1>9, <2>2, Counts
    <3>3. PICK v : v = out \o Chunk
      OBVIOUS
    <3>4. v \in Seq(Nat) /\ Ended(v, d)
      BY <3>1, <3>2, <3>3, OneMore
    <3>5. Ended(v \o End, d)
      BY <1>7, <3>4, OneMore
    <3>6. out' = v \o End
      BY <2>1, <3>3
    <3>7. Ended(out', d)
      BY <3>5, <3>6
    <3> QED
      BY <1>1, <1>6, <2>1, <2>2, <3>7 DEF DoneInv
  <2>3. CASE ~(framing = "chunked" /\ content = <<>>)
    <3>1. out' = u \o End
      BY <1>4, <2>1, <2>3 DEF Chunk
    <3> QED
      BY <1>1, <1>6, <1>8, <3>1 DEF DoneInv
  <2> QED
    BY <2>2, <2>3
<1> QED
  BY <1>10, <1>11

-----------------------------------------------------------------------------
(* The theorems about bodies *)

(***************************************************************************)
(* What senders are assumed to do: every message is chunked, or has a      *)
(* length, as it should be.  TLC evaluates it for the messages of the run. *)
(***************************************************************************)
SendersKeepToHttp == \A m \in Messages : \E c : WellFormed(m, c)

(* Nothing of the message has been taken at the beginning. *)
LEMMA BodyInit == SendersKeepToHttp /\ Init => BodyInv
<1> SUFFICES ASSUME SendersKeepToHttp, Init PROVE BodyInv
  OBVIOUS
<1>1. Inv
  BY InitInv
<1>2. PICK m \in Messages, ahead \in 0..nb_buffer :
        /\ framing = m.framing /\ total = m.total /\ ahead <= Len(m.bytes)
        /\ buf = SubSeq(m.bytes \o NextMessage, 1, ahead)
        /\ wire = SubSeq(m.bytes \o NextMessage, ahead + 1, Len(m.bytes \o NextMessage))
  BY DEF Init
<1>3. PICK c : WellFormed(m, c)
  BY DEF SendersKeepToHttp
<1>4. /\ is_eof = FALSE /\ nb_left_chunk = 0 /\ nb_total_read = 0
      /\ got = <<>> /\ content = <<>> /\ out = <<>> /\ pc = "part"
  BY DEF Init
<1>5. At(m, 0)
  <2>1. PICK u \in Seq(Byte), M \in Nat : u = Sent(m) /\ Len(u) = M + 2 /\ M = Len(m.bytes)
    BY SentBytes
  <2>2. ahead \in 0..Len(u) /\ ahead \in Nat
    BY <1>2, <2>1, SizeAssumption
  <2>3. buf = SubSeq(u, 1, ahead) /\ wire = SubSeq(u, ahead + 1, Len(u))
    BY <1>2, <2>1 DEF Sent
  <2>4. /\ Len(buf) = ahead /\ \A i \in 1..ahead : buf[i] = u[i]
        /\ Len(wire) = Len(u) - ahead /\ \A i \in 1..(Len(u) - ahead) : wire[i] = u[ahead + i]
    BY ONLY <2>1, <2>2, <2>3, Cut
  <2>5. Len(buf) + Len(wire) = M + 2 - 0 /\ 0 \in 0..M
    BY <2>1, <2>2, <2>4
  <2>6. \A i \in 1..Len(buf) : buf[i] = u[0 + i]
    BY <2>2, <2>4
  <2>7. \A i \in 1..Len(wire) : wire[i] = u[0 + Len(buf) + i]
    BY <2>1, <2>2, <2>4
  <2> QED
    BY <2>1, <2>5, <2>6, <2>7 DEF At
<1>6. framing = "length" => LengthAt(0)
  BY <1>1, <1>4 DEF LengthAt, Inv, ReaderInv, TypeOK
<1>7. framing = "chunked" => \E k \in 1..Len(c) : ChunkAt(c[k], 0)
  <2> SUFFICES ASSUME framing = "chunked" PROVE \E k \in 1..Len(c) : ChunkAt(c[k], 0)
    OBVIOUS
  <2>1. c \in Seq(Place) /\ c # <<>> /\ c[1].at = 0 /\ c[1].base = 0
    BY <1>2, <1>3 DEF WellFormed, WellChunked
  <2>2. 1 \in 1..Len(c)
    BY <2>1
  <2>3. ChunkAt(c[1], 0)
    BY <1>4, <2>1 DEF ChunkAt
  <2> QED
    BY <2>2, <2>3
<1>8. Frame(m, c, 0)
  BY <1>2, <1>3, <1>4, <1>5, <1>6, <1>7 DEF Frame
<1>9. TakenInv
  <2>1. Len(out) = 0 /\ Len(got) = 0
    BY <1>4
  <2> QED
    BY <1>4, <2>1, NothingFollows DEF TakenInv, Live
<1>10. DoneInv
  BY <1>4 DEF DoneInv
<1> QED
  BY <1>1, <1>8, <1>9, <1>10 DEF BodyInv, FrameInv

(* Every step keeps the bytes in their places. *)
LEMMA BodyNext == BodyInv /\ [Next]_vars => BodyInv'
<1> SUFFICES ASSUME BodyInv, [Next]_vars PROVE BodyInv'
  OBVIOUS
<1>1. Inv /\ TakenInv /\ DoneInv /\ Inv'
  BY NextInv DEF BodyInv
<1>2. PICK m \in Messages : \E c, p : Frame(m, c, p)
  BY DEF BodyInv, FrameInv
<1>3. PICK c, p : Frame(m, c, p)
  BY <1>2
<1>4. CASE UNCHANGED vars
  <2>1. UNCHANGED <<relay, framing, total, wire, off, buf, is_eof, nb_left_chunk, nb_chunk,
                    nb_total_read, got, content, pc, out>>
    BY <1>4 DEF vars, inVars, rdVars
  <2>2. Frame(m, c, p)'
    BY <1>3, <2>1 DEF Frame, At, LengthAt, EndAt, ChunkAt, Live
  <2>3. TakenInv'
    BY <1>1, <2>1 DEF TakenInv, Live, Follows
  <2>4. DoneInv'
    BY <1>1, <2>1 DEF DoneInv, Ended
  <2> QED
    BY <1>1, <2>2, <2>3, <2>4 DEF BodyInv, FrameInv
<1>5. CASE Next
  <2>1. \E q : Frame(m, c, q)'
    BY <1>1, <1>3, <1>5, FrameQuiet, FrameGrow, FrameHeader, FrameData, FrameCrlf DEF Next
  <2>2. TakenInv'
    BY <1>1, <1>3, <1>5, TakenQuiet, TakenHeader, TakenData, TakenCrlf, TakenPart DEF Next
  <2>3. DoneInv'
    <3>1. CASE WritePart \/ WriteRequest
      BY <1>1, <3>1, DoneWritten
    <3>2. CASE BeginPart \/ read \/ WriteFails
      BY <3>2 DEF BeginPart, read, WriteFails, DoneInv
    <3>3. CASE ReadFails \/ Overflow
      BY <3>3 DEF ReadFails, Overflow, Fail, DoneInv
    <3>4. CASE read_specified \/ ChunkEnd
      BY <3>4 DEF read_specified, ChunkEnd, Append_, DoneInv
    <3>5. CASE ChunkHeader
      <4>1. pc' # "done"
        BY <3>5 DEF ChunkHeader, Fail
      <4> QED
        BY <4>1 DEF DoneInv
    <3>6. CASE \E n \in 1..Len(wire) : grow(n)
      <4>1. pc' # "done"
        <5>1. Len(buf) \in Nat
          BY <1>1 DEF Inv, TypeOK
        <5>2. pc = "done" => Required = 0
          BY DEF Required
        <5> QED
          BY <3>6, <5>1, <5>2 DEF grow
      <4> QED
        BY <4>1 DEF DoneInv
    <3> QED
      BY <1>5, <3>1, <3>2, <3>3, <3>4, <3>5, <3>6 DEF Next
  <2> QED
    BY <1>1, <2>1, <2>2, <2>3 DEF BodyInv, FrameInv
<1> QED
  BY <1>4, <1>5

(* The invariant says that the body is relayed. *)
LEMMA BodyInvRelayed == BodyInv => BodyRelayed
<1> SUFFICES ASSUME BodyInv PROVE BodyRelayed
  OBVIOUS
<1>1. Inv /\ TakenInv /\ DoneInv
  BY DEF BodyInv
<1>2. out \in Seq(Nat) /\ Len(out) \in Nat /\ total \in Nat /\ framing \in {"chunked", "length"}
  BY <1>1, Counts
<1>3. pc # "done" => \A i \in 1..Len(out) : out[i] = i
  BY <1>1, <1>2 DEF TakenInv, Follows
<1>4. DataInOrder
  <2> SUFFICES ASSUME pc # "done" PROVE out = [i \in 1..Len(out) |-> i]
    BY DEF DataInOrder, Body
  <2> QED
    BY <1>2, <1>3
<1>5. WholeBody
  <2> SUFFICES ASSUME pc = "done", is_eof
               PROVE  /\ total <= Len(out) /\ SubSeq(out, 1, total) = Body(total)
                      /\ \A i \in (total + 1)..Len(out) : out[i] = EndMark
    BY DEF WholeBody
  <2>1. Ended(out, total)
    BY <1>1 DEF DoneInv
  <2>2. total <= Len(out) /\ (\A i \in 1..total : out[i] = i)
    BY <1>2, <2>1 DEF Ended
  <2>3. total \in 0..Len(out)
    BY <1>2, <2>2
  <2>4. PICK s : s = SubSeq(out, 1, total)
    OBVIOUS
  <2>5. s \in Seq(Nat) /\ Len(s) = total /\ \A i \in 1..total : s[i] = out[i]
    BY <1>2, <2>3, <2>4, Cut
  <2>6. s = [i \in 1..total |-> i]
    BY <2>2, <2>5
  <2> QED
    BY <2>1, <2>2, <2>4, <2>6 DEF Ended, Body
<1>6. OneEndMark
  <2>1. pc # "done" => Marks = {}
    BY <1>3 DEF Marks, EndMark
  <2>2. ASSUME pc = "done", relay = "response" \/ content # <<>>
        PROVE  Marks = IF framing = "chunked" THEN {Len(out)} ELSE {}
    <3>1. PICK d \in Nat : Ended(out, d) /\ Len(out) = IF framing = "chunked" THEN d + 1 ELSE d
      BY <1>1, <2>2 DEF DoneInv
    <3>2. \A i \in 1..Len(out) : i <= d => out[i] # EndMark
      BY <1>2, <3>1 DEF Ended, EndMark
    <3>3. \A i \in 1..Len(out) : i > d => out[i] = EndMark
      BY <1>2, <3>1 DEF Ended
    <3>4. CASE framing = "chunked"
      <4>1. Len(out) = d + 1
        BY <3>1, <3>4
      <4>2. \A i \in 1..Len(out) : out[i] = EndMark <=> i = Len(out)
        BY <3>2, <3>3, <4>1
      <4>3. Len(out) \in 1..Len(out)
        BY <4>1
      <4>4. Marks = {Len(out)}
        BY <4>2, <4>3 DEF Marks
      <4> QED
        BY <3>4, <4>4
    <3>5. CASE framing # "chunked"
      <4>1. Marks = {}
        BY <3>1, <3>2, <3>5 DEF Marks
      <4> QED
        BY <3>5, <4>1
    <3> QED
      BY <3>4, <3>5
  <2> QED
    BY <2>1, <2>2 DEF OneEndMark
<1> QED
  BY <1>4, <1>5, <1>6 DEF BodyRelayed

(* The invariant says that the next message is untouched. *)
LEMMA BodyInvNext == BodyInv => NextMessageIntact
<1> SUFFICES ASSUME BodyInv PROVE NextMessageIntact
  OBVIOUS
<1>1. PICK m \in Messages : \E c, p : Frame(m, c, p)
  BY DEF BodyInv, FrameInv
<1>2. PICK c, p : Frame(m, c, p)
  BY <1>1
<1>3. PICK M \in Nat, b \in Nat, w \in Nat : M = Len(m.bytes) /\ b = Len(buf) /\ w = Len(wire)
  <2>1. Len(m.bytes) \in Nat
    BY SentBytes
  <2>2. Len(buf) \in Nat /\ Len(wire) \in Nat
    BY DEF BodyInv, Inv, TypeOK
  <2> QED
    BY <2>1, <2>2
<1>4. /\ p \in 0..M /\ b + w = M + 2 - p
      /\ \A i \in 1..b : buf[i] = Sent(m)[p + i]
      /\ \A i \in 1..w : wire[i] = Sent(m)[p + b + i]
      /\ pc = "done" /\ relay = "response" => p = M
  BY <1>2, <1>3 DEF Frame, At
<1>5. PICK r : r = buf \o wire
  OBVIOUS
<1>6. buf \in Seq(Byte) /\ wire \in Seq(Byte)
  BY DEF BodyInv, Inv, TypeOK
<1>7. /\ r \in Seq(Byte) /\ Len(r) = b + w
      /\ \A i \in 1..b : r[i] = buf[i]
      /\ \A i \in 1..w : r[b + i] = wire[i]
  BY <1>3, <1>5, <1>6, GluedBytes
<1>8. ASSUME NEW i \in 1..(b + w) PROVE r[i] = Sent(m)[p + i]
  <2>1. CASE i <= b
    <3>1. i \in 1..b
      BY <2>1
    <3> QED
      BY <1>4, <1>7, <3>1
  <2>2. CASE i > b
    <3>1. i - b \in 1..w /\ b + (i - b) = i /\ p + b + (i - b) = p + i
      BY <1>4, <2>2
    <3> QED
      BY <1>4, <1>7, <3>1
  <2> QED
    BY <2>1, <2>2
<1>9. Sent(m)[M + 1] = NextMessage[1] /\ Sent(m)[M + 2] = NextMessage[2]
  BY <1>3, SentBytes
<1>10. PICK n \in Nat : n = M - p /\ Len(r) = n + 2 /\ p + (n + 1) = M + 1 /\ p + (n + 2) = M + 2
                        /\ n + 1 \in 1..(b + w) /\ n + 2 \in 1..(b + w)
  BY <1>4, <1>7
<1>11. r[n + 1] = NextMessage[1] /\ r[n + 2] = NextMessage[2]
  BY <1>8, <1>9, <1>10
<1>12. NextMessage = <<NextMessage[1], NextMessage[2]>>
  BY DEF NextMessage
<1>13. SubSeq(r, n + 1, n + 2) = NextMessage
  <2>1. \A i \in (n + 1)..(n + 2) : r[i] \in Byte
    BY <1>7, <1>10
  <2>2. PICK s : s = SubSeq(r, n + 1, n + 2)
    OBVIOUS
  <2>3. s \in Seq(Byte) /\ Len(s) = 2 /\ s[1] = r[n + 1] /\ s[2] = r[n + 2]
    <3>1. /\ s \in Seq(Byte)
          /\ Len(s) = IF n + 1 <= n + 2 THEN n + 2 - (n + 1) + 1 ELSE 0
          /\ \A i \in 1..(n + 2 - (n + 1) + 1) : s[i] = r[n + 1 + i - 1]
      BY <1>7, <2>1, <2>2, SubSeqProperties
    <3>2. n + 2 - (n + 1) + 1 = 2 /\ n + 1 + 1 - 1 = n + 1 /\ n + 1 + 2 - 1 = n + 2
      OBVIOUS
    <3>3. Len(s) = 2 /\ s[1] = r[n + 1 + 1 - 1] /\ s[2] = r[n + 1 + 2 - 1]
      BY <3>1
    <3> QED
      BY <3>1, <3>2, <3>3
  <2>4. s = <<NextMessage[1], NextMessage[2]>>
    BY <1>11, <2>3
  <2> QED
    BY <1>12, <2>2, <2>4
<1>14. pc = "done" /\ relay = "response" => r = NextMessage
  <2> SUFFICES ASSUME p = M PROVE r = NextMessage
    BY <1>4
  <2>1. n = 0 /\ Len(r) = 2
    BY <1>10
  <2>2. r[1] = NextMessage[1] /\ r[2] = NextMessage[2]
    BY <1>11, <2>1
  <2>3. r = <<NextMessage[1], NextMessage[2]>>
    <3>1. r \in Seq(Byte) /\ Len(r) = 2
      BY <1>7, <2>1
    <3> QED
      BY ONLY <2>2, <3>1
  <2> QED
    BY <1>12, <2>3
<1>15. Len(r) - 1 = n + 1 /\ Len(r) = n + 2
  BY <1>10
<1> QED
  BY <1>5, <1>13, <1>14, <1>15 DEF NextMessageIntact

(***************************************************************************)
(* The inductive invariant of the body: where in the message the reader is *)
(* says what it has counted, and every byte it took is on its way.         *)
(***************************************************************************)
THEOREM BodyInvariance == SendersKeepToHttp => (Spec => []BodyInv)
<1> SUFFICES ASSUME SendersKeepToHttp PROVE Spec => []BodyInv
  OBVIOUS
<1>1. Init => BodyInv
  BY BodyInit
<1> QED
  BY <1>1, BodyNext, PTL DEF Spec

(***************************************************************************)
(* For every well-formed message, whatever its chunks and extensions, for  *)
(* every size of the buffer, of a read and of a part, and however the      *)
(* reads cut it: what read_chunked and read_specified give and the relay   *)
(* loops write is the body, whole when the reader came to its end, and     *)
(* ended once.                                                             *)
(***************************************************************************)
THEOREM BodiesIntact == SendersKeepToHttp => (Spec => []BodyRelayed)
<1> SUFFICES ASSUME SendersKeepToHttp PROVE Spec => []BodyRelayed
  OBVIOUS
<1>1. Spec => []BodyInv
  BY BodyInvariance
<1> QED
  BY <1>1, BodyInvRelayed, PTL

(***************************************************************************)
(* For the same messages: the reader shares the parser's buffer, takes no  *)
(* byte of the message that follows, and leaves it at the front.           *)
(***************************************************************************)
THEOREM NextMessageKept == SendersKeepToHttp => (Spec => []NextMessageIntact)
<1> SUFFICES ASSUME SendersKeepToHttp PROVE Spec => []NextMessageIntact
  OBVIOUS
<1>1. Spec => []BodyInv
  BY BodyInvariance
<1> QED
  BY <1>1, BodyInvNext, PTL
=============================================================================
