----------------------------- MODULE MCHttpBody -----------------------------
(***************************************************************************)
(* HttpBody with the messages of well-behaved senders: bodies of numbered  *)
(* bytes, chunked in every way within the bounds or with a length.         *)
(***************************************************************************)
EXTENDS HttpBody

CONSTANTS
    Framings,       \* subset of {"chunked", "length"}
    Extras,         \* what senders add: subset of {"none", "extension"}
    MaxChunks,      \* bound: chunks of a body
    MaxChunk        \* bound: bytes of a chunk, or of a body with a length

Numbered(from, n) == [i \in 1..n |-> Data(from + i)]

(* Chunks as their sender writes them, an empty one at the end, with the places
   they are at; an extension grows with the size. *)
Encoded(sizes, extra) ==
    LET all     == Append(sizes, 0)
        ext(n)  == IF extra = "extension" THEN [i \in 1..n |-> Other] ELSE <<>>
        head(n) == <<Size(n)>> \o ext(n) \o <<CR, LF>>
        enc[i \in 0..Len(all)] ==
            IF i = 0 THEN [sum |-> 0, bytes |-> <<>>, chunks |-> <<>>]
            ELSE LET e == enc[i - 1]
                     n == all[i]
                 IN  [sum    |-> e.sum + n,
                      bytes  |-> e.bytes \o head(n) \o Numbered(e.sum, n) \o <<CR, LF>>,
                      chunks |-> Append(e.chunks, [at |-> Len(e.bytes), size |-> n, base |-> e.sum,
                                                   data |-> Len(e.bytes) + Len(head(n))])]
    IN  enc[Len(all)]

Chunked(sizes, extra) ==
    LET e == Encoded(sizes, extra)
    IN  [framing |-> "chunked", total |-> e.sum, bytes |-> e.bytes]

WithLength(n) == [framing |-> "length", total |-> n, bytes |-> Numbered(0, n)]

Sizes == UNION {[1..n -> 1..MaxChunk] : n \in 0..MaxChunks}

MCMessages ==
    {m \in {Chunked(sizes, extra) : sizes \in Sizes, extra \in Extras}
           \cup {WithLength(n) : n \in 1..MaxChunk} : m.framing \in Framings}

(* The hypothesis of the theorems about bodies holds for these messages. *)
ASSUME SendersAssumption ==
    \A m \in Messages : \E sizes \in Sizes, extra \in Extras :
        WellFormed(m, Encoded(sizes, extra).chunks)
=============================================================================
