--------------------------- MODULE ApiConnProofs ----------------------------
(***************************************************************************)
(* Lemmas about ApiConn: what SrsHttpResponseWriter has sent after each    *)
(* call, wherever the socket fails, and which handler a path goes to.      *)
(***************************************************************************)
EXTENDS ApiConn, SequenceLemmas, TLAPS

-----------------------------------------------------------------------------
(* What a writer has sent *)

Item == {<<"data">>} \cup {<<"head", s, n>> : s \in Nat, n \in Nat}

(* The header of an answer of L units and the first n of them. *)
Resp(s, L, n) == [i \in 1..(n + 1) |-> IF i = 1 THEN <<"head", s, L>> ELSE <<"data">>]

Units(n) == [i \in 1..n |-> <<"data">>]

Writer ==
    [length: Int, header_wrote: BOOLEAN, status: Nat, content_length: Int, written: Nat,
     header_sent: BOOLEAN, out: Seq(Item), left: Nat, err: BOOLEAN]

(* Nothing was sent, and the first write will announce L units with s. *)
Ready(w, s, L) ==
    /\ w \in Writer /\ ~w.err /\ ~w.header_sent /\ w.written = 0 /\ w.out = <<>> /\ w.length = L
    /\ IF w.header_wrote THEN w.status = s /\ w.content_length = L ELSE s = 200

(* An answer that was begun, and given up at any point. *)
Partial(out, s, L) == out = <<>> \/ \E m \in 0..L : out = Resp(s, L, m)

(* The header and n of L units were sent, or a write has failed. *)
Wrote(w, s, L, n) ==
    /\ w \in Writer /\ Partial(w.out, s, L)
    /\ ~w.err =>
          /\ w.header_wrote /\ w.header_sent /\ w.content_length = L /\ w.written = n
          /\ w.out = Resp(s, L, n)

LEMMA RespType ==
    ASSUME NEW s \in Nat, NEW L \in Nat, NEW n \in Nat
    PROVE  /\ Resp(s, L, n) \in Seq(Item) /\ Len(Resp(s, L, n)) = n + 1
           /\ Resp(s, L, n)[1] = <<"head", s, L>>
           /\ \A i \in 2..(n + 1) : Resp(s, L, n)[i] = <<"data">>
<1>1. <<"data">> \in Item /\ <<"head", s, L>> \in Item
  BY DEF Item
<1>2. Resp(s, L, n) \in [1..(n + 1) -> Item] /\ n + 1 \in Nat
  BY <1>1 DEF Resp
<1>3. Resp(s, L, n) \in Seq(Item) /\ Len(Resp(s, L, n)) = n + 1
  BY <1>2, Listed
<1>4. 1 \in 1..(n + 1) /\ \A i \in 2..(n + 1) : i \in 1..(n + 1) /\ i # 1
  OBVIOUS
<1>5. Resp(s, L, n)[1] = <<"head", s, L>> /\ \A i \in 2..(n + 1) : Resp(s, L, n)[i] = <<"data">>
  BY ONLY <1>4 DEF Resp
<1> QED
  BY <1>3, <1>5

(* More units behind an answer that was begun. *)
LEMMA RespGrows ==
    ASSUME NEW s \in Nat, NEW L \in Nat, NEW n \in Nat, NEW k \in Nat,
           NEW u, u = Resp(s, L, n) \o Units(k)
    PROVE  u = Resp(s, L, n + k)
<1>1. <<"data">> \in Item
  BY DEF Item
<1>2. Units(k) \in [1..k -> Item]
  BY <1>1 DEF Units
<1>3. Units(k) \in Seq(Item) /\ Len(Units(k)) = k
  BY <1>2, Listed
<1>5. PICK v : v = Resp(s, L, n)
  OBVIOUS
<1>6. v \in Seq(Item) /\ Len(v) = n + 1
  BY <1>5, RespType
<1>a. PICK y : y = Units(k)
  OBVIOUS
<1>b. y \in Seq(Item) /\ v \in Seq(Item) /\ u = v \o y
  BY <1>3, <1>5, <1>6, <1>a
<1>7. /\ u \in Seq(Item) /\ Len(u) = Len(v) + Len(y)
      /\ \A i \in 1..Len(v) : u[i] = v[i]
      /\ \A i \in 1..Len(y) : u[Len(v) + i] = y[i]
  BY ONLY <1>b, Glued
<1>8. \A i \in 1..(n + 1) : u[i] = IF i = 1 THEN <<"head", s, L>> ELSE <<"data">>
  BY <1>5, <1>6, <1>7 DEF Resp
<1>9. \A i \in 1..k : u[n + 1 + i] = <<"data">>
  BY <1>3, <1>6, <1>7, <1>a DEF Units
<1>10. \A i \in 1..(n + k + 1) : u[i] = IF i = 1 THEN <<"head", s, L>> ELSE <<"data">>
  <2> SUFFICES ASSUME NEW i \in 1..(n + k + 1)
               PROVE  u[i] = IF i = 1 THEN <<"head", s, L>> ELSE <<"data">>
    OBVIOUS
  <2>1. CASE i \in 1..(n + 1)
    BY <1>8, <2>1
  <2>2. CASE i \notin 1..(n + 1)
    <3>1. i - (n + 1) \in 1..k /\ i # 1 /\ n + 1 + (i - (n + 1)) = i
      BY <2>2
    <3> QED
      BY <1>9, <3>1
  <2> QED
    BY <2>1, <2>2
<1>11. u = [i \in 1..(n + k + 1) |-> IF i = 1 THEN <<"head", s, L>> ELSE <<"data">>]
  <2>1. DOMAIN u = 1..(n + k + 1) /\ u = [i \in DOMAIN u |-> u[i]]
    <3>1. Len(u) = n + k + 1
      <4>1. Len(u) = Len(v) + Len(y) /\ Len(v) = n + 1 /\ Len(y) = k
        BY ONLY <1>3, <1>6, <1>7, <1>a
      <4> QED
        BY ONLY <4>1, n \in Nat, k \in Nat
    <3> QED
      BY ONLY <1>7, <3>1
  <2> QED
    BY <1>10, <2>1
<1> QED
  BY <1>11 DEF Resp

-----------------------------------------------------------------------------
(* The calls of the writer *)

(* The first write, or the end of the request, sends the header. *)
LEMMA HeaderSent ==
    ASSUME NEW s \in Nat, NEW L \in Nat, NEW w, Ready(w, s, L)
    PROVE  Wrote(send_header(write_header(w, 200)), s, L, 0)
<1>0. PICK h : h = write_header(w, 200)
  OBVIOUS
<1>1. /\ h \in Writer /\ ~h.err /\ ~h.header_sent /\ h.written = 0 /\ h.out = <<>>
      /\ h.header_wrote /\ h.status = s /\ h.content_length = L
  <2>1. CASE w.header_wrote
    BY <1>0, <2>1 DEF Ready, write_header, Writer
  <2>2. CASE ~w.header_wrote
    <3>1. h = [w EXCEPT !.header_wrote = TRUE, !.status = 200, !.content_length = w.length]
      BY <1>0, <2>2 DEF write_header
    <3>2. /\ w \in Writer /\ ~w.err /\ ~w.header_sent /\ w.written = 0 /\ w.out = <<>>
          /\ w.length = L /\ s = 200
      BY <2>2 DEF Ready
    <3>3. h.header_wrote /\ h.status = 200 /\ h.content_length = w.length
      BY <3>1, <3>2 DEF Writer
    <3>4. h.err = w.err /\ h.header_sent = w.header_sent /\ h.written = w.written /\ h.out = w.out
      BY <3>1, <3>2 DEF Writer
    <3>5. h \in Writer
      <4>1. w \in Writer /\ w.length \in Int
        BY <3>2 DEF Writer
      <4>2. PICK a : a = [w EXCEPT !.header_wrote = TRUE]
        OBVIOUS
      <4>3. a \in Writer /\ a.length = w.length
        BY ONLY <4>1, <4>2 DEF Writer
      <4>4. PICK b : b = [a EXCEPT !.status = 200]
        OBVIOUS
      <4>5. b \in Writer /\ b.length = w.length
        BY ONLY <4>3, <4>4 DEF Writer
      <4>6. [b EXCEPT !.content_length = w.length] \in Writer
        BY ONLY <4>1, <4>5 DEF Writer
      <4> QED
        BY <3>1, <4>2, <4>4, <4>6
    <3> QED
      BY <3>2, <3>3, <3>4, <3>5
  <2> QED
    BY <2>1, <2>2
<1> DEFINE g == [h EXCEPT !.header_sent = TRUE]
<1>2. /\ g \in Writer /\ ~g.err /\ g.header_sent /\ g.written = 0 /\ g.out = <<>> /\ g.left \in Nat
      /\ g.header_wrote /\ g.content_length = L
  BY <1>1 DEF Writer
<1>3. send_header(h) = Send(g, << <<"head", s, L>> >>)
  BY <1>1 DEF send_header
<1> HIDE DEF g
<1>4. PICK e : e = << <<"head", s, L>> >>
  OBVIOUS
<1>5. e = Resp(s, L, 0) /\ e \in Seq(Item) /\ <<>> \o e = e
  <2>1. e = Resp(s, L, 0)
    BY <1>4 DEF Resp
  <2>2. e \in Seq(Item)
    BY <2>1, RespType
  <2> QED
    BY <2>1, <2>2, ConcatEmptySeq
<1>6. CASE g.left = 0
  <2>1. send_header(h) = [g EXCEPT !.err = TRUE]
    BY <1>3, <1>6 DEF Send
  <2>2. Wrote([g EXCEPT !.err = TRUE], s, L, 0)
    BY <1>2 DEF Wrote, Partial, Writer
  <2> QED
    BY <1>0, <2>1, <2>2
<1>7. CASE g.left # 0
  <2>1. send_header(h) = [g EXCEPT !.out = e, !.left = g.left - 1]
    BY <1>2, <1>3, <1>4, <1>5, <1>7 DEF Send, Writer
  <2>2. g.left - 1 \in Nat /\ 0 \in 0..L
    BY <1>2, <1>7
  <2>3. Wrote([g EXCEPT !.out = e, !.left = g.left - 1], s, L, 0)
    BY <1>2, <1>5, <2>2 DEF Wrote, Partial, Writer
  <2> QED
    BY <1>0, <2>1, <2>3
<1> QED
  BY <1>6, <1>7

(* Units that keep to the length that was announced. *)
LEMMA UnitsSent ==
    ASSUME NEW s \in Nat, NEW L \in Nat, NEW m \in Nat, NEW k \in Nat, m + k <= L,
           NEW w, Wrote(w, s, L, m), ~w.err
    PROVE  Wrote(write_units(w, k), s, L, m + k)
<1>1. /\ w \in Writer /\ w.header_wrote /\ w.header_sent /\ w.content_length = L /\ w.written = m
      /\ w.out = Resp(s, L, m) /\ m + k \in Nat
  BY DEF Wrote
<1>2. PICK t : t = [w EXCEPT !.written = w.written + k]
  OBVIOUS
<1>3. /\ t \in Writer /\ ~t.err /\ t.header_wrote /\ t.header_sent /\ t.content_length = L
      /\ t.written = m + k /\ t.out = Resp(s, L, m) /\ t.left \in Nat
  BY ONLY ~w.err, <1>1, <1>2 DEF Writer
<1>4. t.content_length # -1 /\ ~(t.written > t.content_length)
  BY <1>3
<1>5. write_units(w, k) = IF k = 0 THEN t ELSE Send(t, Units(k))
  BY ONLY <1>2, <1>4 DEF write_units, Units
<1>6. m \in 0..L /\ m + k \in 0..L
  OBVIOUS
<1>7. CASE k = 0
  BY <1>3, <1>5, <1>6, <1>7 DEF Wrote, Partial
<1>8. CASE k # 0 /\ t.left = 0
  <2>1. PICK v : v = [t EXCEPT !.err = TRUE]
    OBVIOUS
  <2>2. write_units(w, k) = v
    BY ONLY <1>5, <1>8, <2>1 DEF Send
  <2>3. v \in Writer /\ v.err /\ v.out = Resp(s, L, m)
    BY ONLY <1>3, <2>1 DEF Writer
  <2> QED
    BY <1>6, <2>2, <2>3 DEF Wrote, Partial
<1>9. CASE k # 0 /\ t.left # 0
  <2>1. PICK e : e = Resp(s, L, m + k)
    OBVIOUS
  <2>2. e \in Seq(Item) /\ t.out \o Units(k) = e
    <3>1. Resp(s, L, m + k) \in Seq(Item)
      BY <1>1, RespType
    <3>2. PICK u : u = Resp(s, L, m) \o Units(k)
      OBVIOUS
    <3>3. \A a, b \in Nat : \A x : x = Resp(s, L, a) \o Units(b) => x = Resp(s, L, a + b)
      BY RespGrows
    <3>4. u = Resp(s, L, m + k)
      BY ONLY <3>2, <3>3, m \in Nat, k \in Nat
    <3> QED
      BY ONLY <1>3, <2>1, <3>1, <3>2, <3>4
  <2>3. PICK v : v = [t EXCEPT !.out = e, !.left = t.left - 1]
    OBVIOUS
  <2>4. write_units(w, k) = v /\ t.left - 1 \in Nat
    BY ONLY <1>3, <1>5, <1>9, <2>2, <2>3 DEF Send
  <2>5. /\ v \in Writer /\ v.header_wrote /\ v.header_sent /\ v.content_length = L
        /\ v.written = m + k /\ v.out = e
    BY ONLY <1>3, <2>2, <2>3, <2>4 DEF Writer
  <2> QED
    BY <1>6, <2>1, <2>4, <2>5 DEF Wrote, Partial
<1> QED
  BY <1>7, <1>8, <1>9

(* A write that keeps to the length that was announced. *)
LEMMA NextWrite ==
    ASSUME NEW s \in Nat, NEW L \in Nat, NEW m \in Nat, NEW k \in Nat, m + k <= L,
           NEW w, Wrote(w, s, L, m)
    PROVE  Wrote(write(w, k), s, L, m + k)
<1>1. CASE w.err
  <2>1. write(w, k) = w
    BY ONLY <1>1 DEF write
  <2> QED
    BY <1>1, <2>1 DEF Wrote
<1>2. CASE ~w.err
  <2>1. w.header_wrote /\ w.header_sent
    BY <1>2 DEF Wrote
  <2>2. send_header(write_header(w, 200)) = w
    BY ONLY <2>1 DEF send_header, write_header
  <2>3. write(w, k) = write_units(w, k)
    BY ONLY <1>2, <2>1, <2>2 DEF write
  <2> QED
    BY <1>2, <2>3, UnitsSent
<1> QED
  BY <1>1, <1>2

(* The first write sends the header and its units. *)
LEMMA FirstWrite ==
    ASSUME NEW s \in Nat, NEW L \in Nat, NEW k \in 0..L, NEW w, Ready(w, s, L)
    PROVE  Wrote(write(w, k), s, L, k)
<1>1. PICK h : h = send_header(write_header(w, 200))
  OBVIOUS
<1>2. Wrote(h, s, L, 0)
  BY <1>1, HeaderSent
<1>3. ~w.err /\ w.length # -1
  BY DEF Ready
<1>4. write(w, k) = IF h.err THEN h ELSE write_units(h, k)
  BY ONLY <1>1, <1>3 DEF write
<1>5. CASE h.err
  BY <1>2, <1>4, <1>5 DEF Wrote
<1>6. CASE ~h.err
  BY <1>2, <1>4, <1>6, UnitsSent
<1> QED
  BY <1>5, <1>6

(* The end of a request whose answer has no units. *)
LEMMA FinalRequest ==
    ASSUME NEW s \in Nat, NEW w, Ready(w, s, 0)
    PROVE  Wrote(final_request(w), s, 0, 0)
<1>1. PICK h : h = send_header(write_header(w, 200))
  OBVIOUS
<1>2. Wrote(h, s, 0, 0)
  BY <1>1, HeaderSent
<1>3. Wrote(write(h, 0), s, 0, 0 + 0)
  BY <1>2, NextWrite
<1>4. ~w.err
  BY DEF Ready
<1>5. CASE h.err
  BY <1>1, <1>2, <1>4, <1>5 DEF final_request
<1>6. CASE ~h.err
  <2>1. h.content_length # -1
    BY <1>2, <1>6 DEF Wrote
  <2> QED
    BY <1>1, <1>3, <1>4, <1>6, <2>1 DEF final_request
<1> QED
  BY <1>5, <1>6

-----------------------------------------------------------------------------
(* The answers of the handlers *)

(* A new writer, and the length its answer will have. *)
LEMMA LengthSet ==
    ASSUME NEW left \in Nat, NEW L \in Nat
    PROVE  /\ Ready(set_content_length(SrsHttpResponseWriter(left), L), 200, L)
           /\ ~set_content_length(SrsHttpResponseWriter(left), L).header_wrote
<1>1. PICK w : w = SrsHttpResponseWriter(left)
  OBVIOUS
<1>2. <<>> \in Seq(Item) /\ -1 \in Int /\ 200 \in Nat /\ 0 \in Nat
  OBVIOUS
<1>3. w \in Writer
  BY ONLY <1>1, <1>2, left \in Nat DEF SrsHttpResponseWriter, Writer
<1>4. ~w.err /\ ~w.header_sent /\ ~w.header_wrote /\ w.written = 0 /\ w.out = <<>>
  BY ONLY <1>1 DEF SrsHttpResponseWriter
<1>5. PICK v : v = [w EXCEPT !.length = L]
  OBVIOUS
<1>6. /\ v \in Writer /\ ~v.err /\ ~v.header_sent /\ ~v.header_wrote /\ v.written = 0 /\ v.out = <<>>
      /\ v.length = L
  BY ONLY <1>3, <1>4, <1>5, L \in Nat DEF Writer
<1>7. set_content_length(SrsHttpResponseWriter(left), L) = v
  BY <1>1, <1>5 DEF set_content_length
<1> QED
  BY <1>6, <1>7 DEF Ready

(* A status that is set before the first write. *)
LEMMA StatusSet ==
    ASSUME NEW s \in Nat, NEW L \in Nat, NEW w, Ready(w, 200, L), ~w.header_wrote
    PROVE  Ready(write_header(w, s), s, L)
<1>1. w \in Writer /\ ~w.err /\ ~w.header_sent /\ w.written = 0 /\ w.out = <<>> /\ w.length = L
  BY DEF Ready
<1>2. PICK a : a = [w EXCEPT !.header_wrote = TRUE]
  OBVIOUS
<1>3. /\ a \in Writer /\ a.header_wrote /\ ~a.err /\ ~a.header_sent /\ a.written = 0 /\ a.out = <<>>
      /\ a.length = L
  BY ONLY <1>1, <1>2 DEF Writer
<1>4. PICK b : b = [a EXCEPT !.status = s]
  OBVIOUS
<1>5. /\ b \in Writer /\ b.header_wrote /\ ~b.err /\ ~b.header_sent /\ b.written = 0 /\ b.out = <<>>
      /\ b.length = L /\ b.status = s
  BY ONLY <1>3, <1>4, s \in Nat DEF Writer
<1>6. PICK c : c = [b EXCEPT !.content_length = L]
  OBVIOUS
<1>7. /\ c \in Writer /\ c.header_wrote /\ ~c.err /\ ~c.header_sent /\ c.written = 0 /\ c.out = <<>>
      /\ c.length = L /\ c.status = s /\ c.content_length = L
  BY ONLY <1>5, <1>6, L \in Nat DEF Writer
<1>8. write_header(w, s) = c
  BY <1>1, <1>2, <1>4, <1>6 DEF write_header
<1> QED
  BY <1>7, <1>8 DEF Ready

(* srs_api_response_jsonp: the callback, an opening, the data, a closing. *)
LEMMA JsonpAnswer ==
    ASSUME NEW left \in Nat, NEW callback \in {0, 1}, NEW data \in Nat
    PROVE  Wrote(srs_api_response_jsonp(SrsHttpResponseWriter(left), callback, data),
                 200, data + callback + 2, data + callback + 2)
<1>1. PICK L \in Nat : L = data + callback + 2
  OBVIOUS
<1>2. PICK h : h = set_content_length(SrsHttpResponseWriter(left), L)
  OBVIOUS
<1>3. Ready(h, 200, L)
  BY <1>2, LengthSet
<1>4. PICK a : a = IF callback = 0 THEN h ELSE write(h, callback)
  OBVIOUS
<1>5. PICK b : b = write(a, 1)
  OBVIOUS
<1>6. Wrote(b, 200, L, callback + 1)
  <2>1. CASE callback = 0
    <3>1. 1 \in 0..L /\ b = write(h, 1)
      BY <1>1, <1>4, <1>5, <2>1
    <3>2. Wrote(write(h, 1), 200, L, 1)
      BY <1>3, <3>1, FirstWrite
    <3> QED
      BY <2>1, <3>1, <3>2
  <2>2. CASE callback = 1
    <3>1. 1 \in 0..L /\ a = write(h, 1) /\ 1 + 1 <= L
      BY <1>1, <1>4, <2>2
    <3>2. Wrote(a, 200, L, 1)
      BY <1>3, <3>1, FirstWrite
    <3>3. Wrote(write(a, 1), 200, L, 1 + 1)
      BY <3>1, <3>2, NextWrite
    <3> QED
      BY <1>5, <2>2, <3>3
  <2> QED
    BY <2>1, <2>2
<1>7. callback + 1 \in Nat /\ callback + 1 + data <= L
  BY <1>1
<1>8. Wrote(write(b, data), 200, L, callback + 1 + data)
  BY <1>6, <1>7, NextWrite
<1>9. callback + 1 + data \in Nat /\ callback + 1 + data + 1 <= L /\ callback + 1 + data + 1 = L
  BY <1>1
<1>10. Wrote(write(write(b, data), 1), 200, L, callback + 1 + data + 1)
  BY <1>8, <1>9, NextWrite
<1>11. srs_api_response_jsonp(SrsHttpResponseWriter(left), callback, data) = write(write(b, data), 1)
  BY ONLY <1>1, <1>2, <1>4, <1>5 DEF srs_api_response_jsonp
<1> QED
  BY ONLY <1>1, <1>9, <1>10, <1>11

(* How many units a callback adds. *)
Extra(r) == CASE r.jsonp = "no" -> 0 [] r.jsonp = "bare" -> 2 [] r.jsonp = "named" -> 3

(* srs_api_response: an answer of the length its header announces. *)
LEMMA ApiAnswer ==
    ASSUME NEW left \in Nat, NEW data \in Nat, NEW r, r.jsonp \in {"no", "bare", "named"}
    PROVE  /\ Extra(r) \in Nat
           /\ Wrote(srs_api_response(SrsHttpResponseWriter(left), r, data),
                    200, data + Extra(r), data + Extra(r))
<1>1. CASE r.jsonp = "no"
  <2>1. Extra(r) = 0 /\ data + 0 = data /\ data \in 0..data
    BY <1>1 DEF Extra
  <2>2. PICK h : h = set_content_length(SrsHttpResponseWriter(left), data)
    OBVIOUS
  <2>3. Ready(h, 200, data)
    BY <2>2, LengthSet
  <2>4. Wrote(write(h, data), 200, data, data)
    BY <2>1, <2>3, FirstWrite
  <2>5. srs_api_response(SrsHttpResponseWriter(left), r, data) = write(h, data)
    BY ONLY <1>1, <2>2 DEF srs_api_response, srs_api_response_json
  <2> QED
    BY <2>1, <2>4, <2>5
<1>2. CASE r.jsonp # "no"
  <2>1. PICK callback \in {0, 1} : callback = (IF r.jsonp = "named" THEN 1 ELSE 0)
    OBVIOUS
  <2>2. Extra(r) = callback + 2 /\ data + Extra(r) = data + callback + 2
    BY <1>2, <2>1 DEF Extra
  <2>3. srs_api_response(SrsHttpResponseWriter(left), r, data)
          = srs_api_response_jsonp(SrsHttpResponseWriter(left), callback, data)
    BY ONLY <1>2, <2>1 DEF srs_api_response
  <2> QED
    BY <2>1, <2>2, <2>3, JsonpAnswer
<1> QED
  BY <1>1, <1>2

(* The not-found handler. *)
LEMMA NotFoundAnswer ==
    ASSUME NEW left \in Nat
    PROVE  Wrote(SrsHttpNotFoundHandler(SrsHttpResponseWriter(left)), 404, 1, 1)
<1>1. PICK h : h = set_content_length(SrsHttpResponseWriter(left), 1)
  OBVIOUS
<1>2. Ready(h, 200, 1) /\ ~h.header_wrote
  BY <1>1, LengthSet
<1>3. Ready(write_header(h, 404), 404, 1)
  BY <1>2, StatusSet
<1>4. 1 \in 0..1
  OBVIOUS
<1>5. Wrote(write(write_header(h, 404), 1), 404, 1, 1)
  BY <1>3, <1>4, FirstWrite
<1> QED
  BY ONLY <1>1, <1>5 DEF SrsHttpNotFoundHandler, srs_go_http_error

(* The answer to OPTIONS. *)
LEMMA OptionsAnswer ==
    ASSUME NEW left \in Nat, NEW s \in Nat
    PROVE  Wrote(final_request(write_header(set_content_length(SrsHttpResponseWriter(left), 0), s)),
                 s, 0, 0)
BY LengthSet, StatusSet, FinalRequest

-----------------------------------------------------------------------------
(* The multiplexer *)

(* The longest pattern that fits is that of the handler the path belongs to. *)
LEMMA MatchOwner ==
    ASSUME NEW path
    PROVE  match(Patterns, path) = IF path \in {Mytest, Stats} THEN path
                                   ELSE IF IsPrefix(Api, path) THEN Api ELSE <<>>
<1> DEFINE m == {p \in Patterns : path_match(p, path)}
<1>1. /\ Len(Api) = 3 /\ Len(Mytest) = 4 /\ Len(Stats) = 6
      /\ Last(Api) = "/" /\ Last(Mytest) # "/" /\ Last(Stats) # "/"
  BY DEF Api, Mytest, Stats, Last
<1>2. /\ path_match(Api, path) <=> IsPrefix(Api, path)
      /\ path_match(Mytest, path) <=> path = Mytest
      /\ path_match(Stats, path) <=> path = Stats
  BY ONLY <1>1 DEF path_match
<1>3. Patterns = {Api, Mytest, Stats} /\ Api # Mytest /\ Api # Stats /\ Mytest # Stats
  BY <1>1 DEF Patterns
<1>4. match(Patterns, path) = IF m = {} THEN <<>> ELSE CHOOSE p \in m : \A q \in m : Len(p) >= Len(q)
  BY DEF match
<1>5. ASSUME NEW b \in m, \A q \in m : Len(q) \in Nat /\ (q # b => Len(q) < Len(b))
      PROVE  match(Patterns, path) = b
  <2>1. \A q \in m : Len(b) >= Len(q)
    BY <1>5
  <2>2. \A p \in m : (\A q \in m : Len(p) >= Len(q)) => p = b
    BY <1>5
  <2> QED
    BY <1>4, <2>1, <2>2
<1> HIDE DEF m
<1>6. CASE path = Mytest
  <2>1. Mytest \in m /\ \A q \in m : q = Mytest \/ q = Api
    BY <1>2, <1>3, <1>6 DEF m
  <2>2. \A q \in m : Len(q) \in Nat /\ (q # Mytest => Len(q) < Len(Mytest))
    <3>1. /\ Len(Api) \in Nat /\ Len(Api) < Len(Mytest) /\ Len(Mytest) \in Nat
      BY ONLY <1>1
    <3> QED
      BY ONLY <2>1, <3>1, Zenon
  <2>3. match(Patterns, path) = Mytest
    BY ONLY <1>5, <2>1, <2>2
  <2> QED
    BY ONLY <1>6, <2>3
<1>7. CASE path = Stats
  <2>1. Stats \in m /\ \A q \in m : q = Stats \/ q = Api
    BY <1>2, <1>3, <1>7 DEF m
  <2>2. \A q \in m : Len(q) \in Nat /\ (q # Stats => Len(q) < Len(Stats))
    <3>1. /\ Len(Api) \in Nat /\ Len(Api) < Len(Stats) /\ Len(Stats) \in Nat
      BY ONLY <1>1
    <3> QED
      BY ONLY <2>1, <3>1, Zenon
  <2>3. match(Patterns, path) = Stats
    BY ONLY <1>5, <2>1, <2>2
  <2> QED
    BY ONLY <1>7, <2>3
<1>8. CASE path \notin {Mytest, Stats} /\ IsPrefix(Api, path)
  <2>1. Api \in m /\ \A q \in m : q = Api
    BY <1>2, <1>3, <1>8 DEF m
  <2>2. \A q \in m : Len(q) \in Nat /\ (q # Api => Len(q) < Len(Api))
    BY ONLY <1>1, <2>1
  <2>3. match(Patterns, path) = Api
    BY ONLY <1>5, <2>1, <2>2
  <2> QED
    BY ONLY <1>8, <2>3
<1>9. CASE path \notin {Mytest, Stats} /\ ~IsPrefix(Api, path)
  <2>1. m = {}
    BY <1>2, <1>3, <1>9 DEF m
  <2> QED
    BY <1>4, <1>9, <2>1
<1> QED
  BY <1>6, <1>7, <1>8, <1>9
=============================================================================
