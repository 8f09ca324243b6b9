------------------------------ MODULE HttpBody ------------------------------
(***************************************************************************)
(* The body of one message on its way through the proxy: SrsFastStream     *)
(* (protocol/srs_protocol_stream.cpp), SrsHttpResponseReader               *)
(* (protocol/srs_protocol_http_conn.cpp), srs_ioutil_read_part and         *)
(* srs_ioutil_read_all (protocol/srs_protocol_utility.cpp) and the loops   *)
(* of app/srs_app_http_conn.cpp that write to the other side.              *)
(*                                                                         *)
(* A response is relayed in parts, a request is read to its end first.     *)
(* What a read from the socket brings is any piece of what is left, or an  *)
(* error.  The bytes of the body are numbered; a chunk size is one byte.   *)
(***************************************************************************)
EXTENDS Integers, Sequences

CONSTANTS
    Relays,         \* what is relayed: a subset of {"request", "response"}
    Messages,       \* bodies peers send: how they are framed, their length, their bytes
    nb_buffer,      \* size of the stream's buffer
    CacheBytes,     \* SRS_HTTP_READ_CACHE_BYTES
    PartSize,       \* size given to body_read_part
    IntMax          \* the largest int

CR      == [k |-> "cr", v |-> 0]
LF      == [k |-> "lf", v |-> 0]
Size(n) == [k |-> "size", v |-> n]
Data(n) == [k |-> "data", v |-> n]
Other   == [k |-> "other", v |-> 0]     \* a byte of an extension or a trailer
Byte    == [k: {"cr", "lf", "size", "data", "other", "next"}, v: Nat]

Message == [framing: {"chunked", "length"}, total: Nat, bytes: Seq(Byte)]

ASSUME RelayAssumption == Relays \subseteq {"request", "response"}
ASSUME MessageAssumption ==
    \A m \in Messages : m \in Message /\ (m.framing = "length" => m.total > 0)
ASSUME SizeAssumption ==
    /\ nb_buffer \in Nat \ {0, 1} /\ CacheBytes \in Nat \ {0}
    /\ PartSize \in Nat /\ IntMax \in Nat \ {0}

VARIABLES
    relay,              \* the message is a "request" or a "response"
    framing, total,     \* how the body is framed, and its length
    wire,               \* bytes not yet read from the socket
    off, buf,           \* SrsFastStream: p - buffer, and the bytes from p to end
    is_eof, nb_left_chunk, nb_chunk, nb_total_read,     \* SrsHttpResponseReader
    got,                \* bytes the running read() has taken
    content,            \* resp_body or req_body
    pc,                 \* where the coroutine is
    out                 \* what was written to the other side

inVars  == <<relay, framing, total>>
rdVars  == <<is_eof, nb_left_chunk, nb_chunk, nb_total_read>>
vars    == <<inVars, wire, off, buf, rdVars, got, content, pc, out>>

(* What follows the body: the beginning of the next message. *)
NextMessage == <<[k |-> "next", v |-> 1], [k |-> "next", v |-> 2]>>

(* The mark of the end of a chunked body in out: an empty chunk. *)
EndMark == 0

(***************************************************************************)
(* The type invariant: the stream's pointers stay within its buffer, and   *)
(* the reader never counts below zero.                                     *)
(***************************************************************************)
TypeOK ==
    /\ relay \in {"request", "response"}
    /\ framing \in {"chunked", "length"} /\ total \in Nat
    /\ wire \in Seq(Byte) /\ buf \in Seq(Byte)
    /\ off \in Nat /\ off + Len(buf) <= nb_buffer
    /\ is_eof \in BOOLEAN
    /\ nb_left_chunk \in Nat /\ nb_chunk \in Nat /\ nb_total_read \in Nat
    /\ got \in Seq(Nat) /\ content \in Seq(Nat) /\ out \in Seq(Nat)
    /\ pc \in {"part", "read", "header", "data", "crlf", "write", "done", "failed"}

(***************************************************************************)
(* The header is parsed and consumed, and the buffer may hold more.  It    *)
(* holds nothing of the next message, or parse_message would have handed   *)
(* that one over (HandedOver in ProxyConn).                                *)
(***************************************************************************)
Init ==
    /\ relay \in Relays
    /\ \E m \in Messages, ahead \in 0..nb_buffer :
        LET sent == m.bytes \o NextMessage
        IN  /\ framing = m.framing /\ total = m.total
            /\ off \in 1..(nb_buffer - ahead) /\ ahead <= Len(m.bytes)
            /\ buf = SubSeq(sent, 1, ahead)
            /\ wire = SubSeq(sent, ahead + 1, Len(sent))
    /\ is_eof = FALSE /\ nb_left_chunk = 0 /\ nb_chunk = 0 /\ nb_total_read = 0
    /\ got = <<>> /\ content = <<>> /\ out = <<>>
    /\ pc = "part"

-----------------------------------------------------------------------------
(* SrsFastStream *)

AtMost(a, b) == IF a <= b THEN a ELSE b

(* The positions of a CRLF in the buffer. *)
CrlfAt == {i \in 1..(Len(buf) - 1) : buf[i] = CR /\ buf[i + 1] = LF}

(* The required_size of the grow() the code is in, if it is in one. *)
Required ==
    CASE pc = "header" /\ CrlfAt = {} -> Len(buf) + 1
      [] pc = "data" -> 1
      [] pc = "crlf" -> 2
      [] OTHER -> 0

(* p after grow() made room: the unread bytes are moved to the start. *)
MovedOff == IF nb_buffer - off < Required THEN 0 ELSE off

(* Mutant: the bytes are not moved, and read beyond the end of the buffer. *)
Bug_GrowNoMove(n) ==
    /\ Len(buf) < Required /\ Required <= nb_buffer
    /\ n <= nb_buffer - Len(buf)
    /\ buf' = buf \o SubSeq(wire, 1, n)
    /\ wire' = SubSeq(wire, n + 1, Len(wire))
    /\ UNCHANGED <<off, inVars, rdVars, got, content, pc, out>>

(* One read of the loop in grow(), into the free space behind the bytes. *)
grow(n) ==
    /\ Len(buf) < Required /\ Required <= nb_buffer
    /\ n <= nb_buffer - MovedOff - Len(buf)
    /\ off' = MovedOff
    /\ buf' = buf \o SubSeq(wire, 1, n)
    /\ wire' = SubSeq(wire, n + 1, Len(wire))
    /\ UNCHANGED <<inVars, rdVars, got, content, pc, out>>

(* read_slice(n) with n <= size(). *)
read_slice(n) == off' = off + n /\ buf' = SubSeq(buf, n + 1, Len(buf))

-----------------------------------------------------------------------------
(* SrsHttpResponseReader *)

(* A conversion to int: the low bits, read as a signed number. *)
AsInt(n) == ((n + IntMax + 1) % (2 * (IntMax + 1))) - (IntMax + 1)

(***************************************************************************)
(* read() failed.  The loop over a response gives up; body_read_all of a   *)
(* request keeps what it has, and what it returns is ignored.              *)
(***************************************************************************)
Fail ==
    /\ pc' = IF relay = "response" THEN "failed" ELSE "write"
    /\ got' = <<>>

(* The socket is closed, has an error or times out. *)
ReadFails ==
    /\ Len(buf) < Required /\ Required <= nb_buffer
    /\ Fail
    /\ UNCHANGED <<inVars, wire, off, buf, rdVars, content, out>>

(* ERROR_READER_BUFFER_OVERFLOW: the chunk header is longer than the buffer. *)
Overflow ==
    /\ Len(buf) < Required /\ Required > nb_buffer
    /\ off' = 0
    /\ Fail
    /\ UNCHANGED <<inVars, wire, buf, rdVars, content, out>>

(* The caller has appended what read() gave; a part larger than size is full. *)
Append_(bytes) ==
    /\ content' = content \o bytes
    /\ got' = <<>>
    /\ pc' = IF relay = "response" /\ Len(content') > PartSize THEN "write" ELSE "read"

(* body_read_part or body_read_all begins. *)
BeginPart ==
    /\ pc = "part"
    /\ content' = <<>>
    /\ pc' = "read"
    /\ UNCHANGED <<inVars, wire, off, buf, rdVars, got, out>>

(* Mutant: the EOF is not told from a part that may go on. *)
Bug_EofRetried ==
    LET used_up == framing = "length" /\ nb_total_read = total
    IN  /\ pc = "read"
        /\ pc' = IF is_eof THEN "part"
                 ELSE IF used_up THEN "read"
                 ELSE IF framing = "chunked" /\ nb_left_chunk = 0 THEN "header" ELSE "data"
        /\ is_eof' = (is_eof \/ used_up)
        /\ UNCHANGED <<inVars, wire, off, buf, nb_left_chunk, nb_chunk, nb_total_read, got, content, out>>

(* read() is called; after the end it fails with EOF, and the part is over. *)
(* A length that is used up is the end as well, found without a byte.       *)
read ==
    LET used_up == framing = "length" /\ nb_total_read = total
    IN  /\ pc = "read"
        /\ pc' = IF is_eof THEN "write"
                 ELSE IF used_up THEN "read"
                 ELSE IF framing = "chunked" /\ nb_left_chunk = 0 THEN "header" ELSE "data"
        /\ is_eof' = (is_eof \/ used_up)
        /\ UNCHANGED <<inVars, wire, off, buf, nb_left_chunk, nb_chunk, nb_total_read, got, content, out>>

(***************************************************************************)
(* read_chunked has found the end of a chunk header.  It must be a number  *)
(* and nothing else; a zero is the end of the body.  An empty one is left  *)
(* in the buffer.                                                          *)
(***************************************************************************)
ChunkHeader ==
    /\ pc = "header"
    /\ \E i \in CrlfAt :
        /\ \A j \in CrlfAt : i <= j
        /\ IF i = 2 /\ buf[1].k = "size" /\ AsInt(buf[1].v) >= 0
           THEN /\ nb_chunk' = AsInt(buf[1].v) /\ nb_left_chunk' = nb_chunk'
                /\ is_eof' = (nb_chunk' = 0)
                /\ pc' = IF is_eof' THEN "crlf" ELSE "data"
                /\ UNCHANGED got
           ELSE Fail /\ UNCHANGED <<is_eof, nb_left_chunk, nb_chunk>>
        /\ IF i = 1 THEN UNCHANGED <<off, buf>> ELSE read_slice(i + 1)
    /\ UNCHANGED <<inVars, wire, nb_total_read, content, out>>

(* How much the running read_specified may take at most. *)
Wanted == AtMost(CacheBytes, IF framing = "chunked" THEN nb_left_chunk ELSE total - nb_total_read)

(***************************************************************************)
(* read_specified takes what is there.  A chunk that is complete still     *)
(* has its CRLF; a length that is complete is the end of the body.         *)
(***************************************************************************)
read_specified ==
    /\ pc = "data" /\ buf # <<>>
    /\ LET n == AtMost(Wanted, Len(buf))
           bytes == [i \in 1..n |-> buf[i].v]
       IN  /\ read_slice(n)
           /\ nb_total_read' = nb_total_read + n
           /\ is_eof' = (framing = "length" /\ nb_total_read' >= AsInt(total))
           /\ nb_left_chunk' = IF framing = "chunked" THEN nb_left_chunk - n ELSE 0
           /\ IF framing = "chunked" /\ nb_left_chunk' = 0
              THEN got' = bytes /\ pc' = "crlf" /\ UNCHANGED content
              ELSE Append_(bytes)
    /\ UNCHANGED <<inVars, wire, nb_chunk, out>>

(* Mutant: the CRLF after the last chunk is left in the buffer. *)
Bug_LastCrlfLeft ==
    /\ pc = "crlf"
    /\ is_eof \/ Len(buf) >= 2
    /\ IF is_eof THEN UNCHANGED <<off, buf>> ELSE read_slice(2)
    /\ Append_(got)
    /\ UNCHANGED <<inVars, wire, rdVars, out>>

(* The CRLF after a chunk, the last one too: two bytes, whatever they are. *)
ChunkEnd ==
    /\ pc = "crlf" /\ Len(buf) >= 2
    /\ read_slice(2)
    /\ Append_(got)
    /\ UNCHANGED <<inVars, wire, rdVars, out>>

-----------------------------------------------------------------------------
(* The other side *)

(* An empty chunk is the end of the body to whoever receives it. *)
Chunk == IF framing = "chunked" /\ content = <<>> THEN <<EndMark>> ELSE content
End   == IF framing = "chunked" THEN <<EndMark>> ELSE <<>>

(* finish is set by the read() that fails with EOF, after a part not full. *)
Finish == is_eof /\ Len(content) <= PartSize

(* Mutant: the end is written in place of the last part. *)
Bug_LastPartLost ==
    /\ pc = "write" /\ relay = "response"
    /\ out' = out \o (IF Finish THEN End ELSE Chunk)
    /\ pc' = IF Finish THEN "done" ELSE "part"
    /\ UNCHANGED <<inVars, wire, off, buf, rdVars, got, content>>

(* One turn of the loop over a response. *)
WritePart ==
    /\ pc = "write" /\ relay = "response"
    /\ out' = out \o (IF Finish /\ content = <<>> THEN <<>> ELSE Chunk)
                  \o (IF Finish THEN End ELSE <<>>)
    /\ pc' = IF Finish THEN "done" ELSE "part"
    /\ UNCHANGED <<inVars, wire, off, buf, rdVars, got, content>>

(* A write to a client without TLS fails: the connection ends. *)
WriteFails ==
    /\ pc = "write" /\ relay = "response"
    /\ pc' = "failed"
    /\ UNCHANGED <<inVars, wire, off, buf, rdVars, got, content, out>>

(* A request is written as one chunk and the end. *)
WriteRequest ==
    /\ pc = "write" /\ relay = "request"
    /\ out' = out \o Chunk \o End
    /\ pc' = "done"
    /\ UNCHANGED <<inVars, wire, off, buf, rdVars, got, content>>

-----------------------------------------------------------------------------
Next ==
    \/ BeginPart \/ read
    \/ \E n \in 1..Len(wire) : grow(n)
    \/ ReadFails \/ Overflow
    \/ ChunkHeader \/ read_specified \/ ChunkEnd
    \/ WritePart \/ WriteFails \/ WriteRequest

(* A read from the socket brings something or fails in the end. *)
Spec == Init /\ [][Next]_vars /\ WF_vars(Next)

-----------------------------------------------------------------------------
(* What senders mean *)

(* Where a chunk is: bytes before it, bytes before its data, its size, data before it. *)
Place == [at: Nat, data: Nat, size: Nat, base: Nat]

(* Between p and d there is the header of a chunk of n bytes. *)
HeaderIn(m, p, d, n) ==
    /\ p + 3 <= d /\ m.bytes[p + 1] = Size(n)
    /\ \A i \in (p + 2)..(d - 2) : m.bytes[i] = Other
    /\ m.bytes[d - 1] = CR /\ m.bytes[d] = LF

(* The k-th of the chunks c: header, data, CRLF, then the next one or the end. *)
ChunkIn(m, c, k) ==
    LET h == c[k]
        e == h.data + h.size
    IN  /\ HeaderIn(m, h.at, h.data, h.size) /\ e + 2 <= Len(m.bytes)
        /\ h.size <= IntMax /\ (h.size = 0 <=> k = Len(c))
        /\ \A i \in 1..h.size : m.bytes[h.data + i] = Data(h.base + i)
        /\ m.bytes[e + 1] = CR /\ m.bytes[e + 2] = LF
        /\ k < Len(c) => c[k + 1].at = e + 2 /\ c[k + 1].base = h.base + h.size
        /\ k = Len(c) => Len(m.bytes) = e + 2 /\ m.total = h.base

(***************************************************************************)
(* The bytes of m are the chunks c: a size with or without an extension, a *)
(* CRLF, the data, a CRLF, one after the other up to the first empty one,  *)
(* with the bytes of the body in their order.                              *)
(***************************************************************************)
WellChunked(m, c) ==
    /\ c \in Seq(Place) /\ c # <<>> /\ c[1].at = 0 /\ c[1].base = 0
    /\ \A k \in 1..Len(c) : ChunkIn(m, c, k)

(* The same for a body with a length, which must not exceed an int. *)
WellMeasured(m) == m.total <= IntMax /\ m.bytes = [i \in 1..m.total |-> Data(i)]

WellFormed(m, c) == IF m.framing = "chunked" THEN WellChunked(m, c) ELSE WellMeasured(m)

-----------------------------------------------------------------------------
(* Properties *)

Body(n) == [i \in 1..n |-> i]

Marks == {i \in 1..Len(out) : out[i] = EndMark}

(***************************************************************************)
(* Whatever pieces the reads bring and wherever they cut a chunk header, a *)
(* CRLF or the data, what is written is the body from its beginning, with  *)
(* nothing left out, doubled or reordered and no framing byte in it.       *)
(***************************************************************************)
DataInOrder == pc # "done" => out = Body(Len(out))

(***************************************************************************)
(* "for the last chunk, eof." and "when read completed, eof.": when the    *)
(* reader has come to its end, the other side gets the whole body, and     *)
(* after it nothing but the mark of the end.                               *)
(***************************************************************************)
WholeBody ==
    pc = "done" /\ is_eof => /\ total <= Len(out) /\ SubSeq(out, 1, total) = Body(total)
                             /\ \A i \in (total + 1)..Len(out) : out[i] = EndMark

(***************************************************************************)
(* A receiver of a chunked body takes its first empty chunk for the end:   *)
(* there is one, when the body is over, and nothing follows it.  Only an   *)
(* empty request body is ended twice: it is written as a chunk as well.    *)
(***************************************************************************)
OneEndMark ==
    /\ pc # "done" => Marks = {}
    /\ pc = "done" /\ (relay = "response" \/ content # <<>>) =>
          Marks = IF framing = "chunked" THEN {Len(out)} ELSE {}

(***************************************************************************)
(* What goes out is the body that came in: its bytes in their order, all   *)
(* of them when the reader has come to its end, and one end.               *)
(***************************************************************************)
BodyRelayed == DataInOrder /\ WholeBody /\ OneEndMark

(***************************************************************************)
(* The buffer is the parser's and is read ahead without regard to the      *)
(* message: no byte of the next message is ever taken, and after a         *)
(* response's body the buffer begins with it.                              *)
(***************************************************************************)
NextMessageIntact ==
    LET rest == buf \o wire
    IN  /\ SubSeq(rest, Len(rest) - 1, Len(rest)) = NextMessage
        /\ pc = "done" /\ relay = "response" => rest = NextMessage

(***************************************************************************)
(* srs_assert(nb_left_chunk) and srs_assert(nb_bytes): read_specified is   *)
(* never entered with nothing to take.  grow(): the unread bytes are moved *)
(* before the stream would go beyond its buffer.                           *)
(***************************************************************************)
AssertsHold ==
    /\ pc = "data" => Wanted > 0
    /\ off + Len(buf) <= nb_buffer

(***************************************************************************)
(* The relay comes to an end, of the body or of the connection.            *)
(***************************************************************************)
RelayEnds == <>(pc \in {"done", "failed"})
=============================================================================
