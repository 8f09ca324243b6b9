----------------------------- MODULE HttpParser -----------------------------
(***************************************************************************)
(* The parsing of message headers: http_parser_execute (the machine at the *)
(* end of protocol/srs_protocol_http_stack.cpp), the callbacks and the     *)
(* read loop of SrsHttpParser (protocol/srs_protocol_http_conn.cpp) and    *)
(* what SrsHttpMessage makes of the result.                                *)
(*                                                                         *)
(* Text is a sequence of symbols: a character, or a piece of one of the    *)
(* words the parser compares ("Content-", "Length").  Each symbol stands   *)
(* for one character of the wire: a read may end after any of them.        *)
(* A pointer is a position in the buffer of the stream, 0 is NULL.         *)
(***************************************************************************)
EXTENDS HttpUrl

CONSTANTS
    nb_buffer,          \* symbols the buffer of the stream holds
    max_header_size,    \* symbols a header may have
    Bits                \* bits of content_length (uint64_t)

ASSUME ParserAssumption ==
    /\ nb_buffer \in Nat \ {0} /\ max_header_size \in Nat \ {0} /\ Bits \in Nat /\ Bits > 5

NULL == 0
ULLONG_MAX == 2^Bits - 1

-----------------------------------------------------------------------------
(* Symbols *)

Eol == <<"CR", "LF">>
Digits == <<"0", "1", "2", "3", "4", "5", "6", "7", "8", "9">>
HexDigits == Digits \o <<"a", "b", "c", "d", "e", "f">>
IsNum(c) == c \in Range(Digits)
Value(c) == CHOOSE v \in 0..15 : HexDigits[v + 1] = c
unhex(c) == IF c \in Range(HexDigits) THEN Value(c) ELSE -1

(* tokens[]: what may be part of a header's name. *)
TOKEN(c) == c \notin {" ", "Tab", ":", ",", ";", "/", "?", "@", "CR", "LF", "NUL"}
IS_HEADER_CHAR(c) == c # "NUL"

(* The character a symbol of a url stands for. *)
Code(c) ==
    CASE c = " " -> 32 [] c = "CR" -> 13 [] c = "LF" -> 10 [] c = "Tab" -> 9 [] c = "NUL" -> 0
      [] c = "/" -> 47 [] c = ":" -> 58 [] c = "?" -> 63 [] c = "@" -> 64 [] c = "." -> 46 [] c = "," -> 44
      [] IsNum(c) -> 48 + Value(c)
      [] c \in Range(HexDigits) -> 87 + Value(c)
      [] OTHER -> 122

(* method_strings: how a method begins and how it goes on. *)
FirstOf == [G |-> "GET", P |-> "POST", C |-> "CONNECT", H |-> "HEAD", D |-> "DELETE", O |-> "OPTIONS"]
RestOf == [GET |-> "ET", POST |-> "OST", PUT |-> "UT", PATCH |-> "ATCH", CONNECT |-> "ONNECT",
           CHECKOUT |-> "HECKOUT", HEAD |-> "EAD", DELETE |-> "ELETE", OPTIONS |-> "PTIONS"]
Beginning(m) == IF m \in {"PUT", "PATCH"} THEN "P" ELSE IF m = "CHECKOUT" THEN "C"
                ELSE CHOOSE c \in DOMAIN FirstOf : FirstOf[c] = m
OtherMethod(m) == IF m = "POST" THEN {"PUT", "PATCH"} ELSE IF m = "CONNECT" THEN {"CHECKOUT"} ELSE {}

(* LOWER on the pieces of words, and the upper camel case of SrsHttpHeader::set. *)
LowerCase == ("Ho" :> "ho") @@ ("Content-" :> "content-") @@ ("Length" :> "length")
             @@ ("Connec" :> "connec") @@ ("Proxy-" :> "proxy-") @@ ("Connection" :> "connection")
             @@ ("Transfer-" :> "transfer-") @@ ("Encoding" :> "encoding") @@ ("Up" :> "up")
             @@ ("Set-" :> "set-") @@ ("Cookie" :> "cookie") @@ ("Chun" :> "chun")
LOWER(c) == IF c \in DOMAIN LowerCase THEN LowerCase[c] ELSE c
Upper(c) == IF \E u \in DOMAIN LowerCase : LowerCase[u] = c THEN CHOOSE u \in DOMAIN LowerCase : LowerCase[u] = c ELSE c
EndsInDash(c) == LOWER(c) \in {"content-", "proxy-", "transfer-", "set-"}

N_Host == <<"Ho", "st">>
N_Length == <<"Content-", "Length">>
N_Encoding == <<"Transfer-", "Encoding">>
N_Cookie == <<"Set-", "Cookie">>

(* The words looked for in names and values: the two pieces, header_state  *)
(* once the first was seen, and once both were.                            *)
Names ==
    { [a |-> "connec",    b |-> "tion",       m |-> "h_matching_connection",        s |-> "h_connection"],
      [a |-> "proxy-",    b |-> "connection", m |-> "h_matching_proxy_connection",  s |-> "h_connection"],
      [a |-> "content-",  b |-> "length",     m |-> "h_matching_content_length",    s |-> "h_content_length"],
      [a |-> "transfer-", b |-> "encoding",   m |-> "h_matching_transfer_encoding", s |-> "h_transfer_encoding"],
      [a |-> "up",        b |-> "grade",      m |-> "h_matching_upgrade",           s |-> "h_upgrade"] }
Chunked ==
    { [a |-> "chun", b |-> "ked", m |-> "h_matching_transfer_encoding_chunked", s |-> "h_transfer_encoding_chunked"] }
Tokens ==
    { [a |-> "keep-", b |-> "alive", m |-> "h_matching_connection_keep_alive", s |-> "h_connection_keep_alive"],
      [a |-> "clo",   b |-> "se",    m |-> "h_matching_connection_close",      s |-> "h_connection_close"],
      [a |-> "up",    b |-> "grade", m |-> "h_matching_connection_upgrade",    s |-> "h_connection_upgrade"] }

(* header_state after the first and after the second piece of a word. *)
Matching(words, c, otherwise) ==
    IF \E w \in words : w.a = LOWER(c) THEN (CHOOSE w \in words : w.a = LOWER(c)).m ELSE otherwise
Matched(words, h, c, otherwise) ==
    IF \E w \in words : w.m = h /\ w.b = LOWER(c) THEN (CHOOSE w \in words : w.m = h).s ELSE otherwise

-----------------------------------------------------------------------------
(* The object: SrsFastStream, http_parser and SrsHttpParser in one record. *)

http_parser_init(type) ==
    [type |-> type, s |-> IF type = "request" THEN "s_start_req" ELSE "s_start_res",
     method |-> "DELETE", index |-> 0, status_code |-> 0, http_major |-> 0, http_minor |-> 0,
     flags |-> {}, content_length |-> 0, header_state |-> "h_general", upgrade |-> FALSE,
     http_errno |-> "HPE_OK", nread |-> 0]

Marks == {"header_field", "header_value", "url", "body", "status"}
NoMarks == [m \in Marks |-> NULL]

(* parse_message resets all but the stream; SrsHttpParseState is obj. *)
Reset(type, mem, p, end) ==
    http_parser_init(type) @@
    [mem |-> mem, p |-> p, end |-> end,
     at |-> p, mark |-> NoMarks, returned |-> FALSE, asserts |-> TRUE,
     obj |-> "Init", field_name |-> <<>>, field_value |-> <<>>, uri |-> <<>>,
     headers |-> <<>>, cookie_list |-> <<>>, p_body_start |-> NULL, p_header_tail |-> NULL,
     hp_header |-> http_parser_init(type)]

Ch(x) == x.mem[x.at]
To(x, s) == [x EXCEPT !.s = s]
Fail(x, e) == [x EXCEPT !.http_errno = e]
Check(x, cond) == [x EXCEPT !.asserts = @ /\ cond]          \* assert(cond)
Flag(x, f) == [x EXCEPT !.flags = @ \cup {f}]
MARK(x, m) == IF x.mark[m] = NULL THEN [x EXCEPT !.mark[m] = x.at] ELSE x

-----------------------------------------------------------------------------
(* SrsHttpHeader *)

(* SrsHttpHeader::set: names in upper camel case, the last value wins. *)
set(headers, key, value) ==
    LET name == [i \in DOMAIN key |-> IF i = 1 \/ EndsInDash(key[i - 1]) THEN Upper(key[i]) ELSE key[i]]
    IN  (name :> value) @@ headers

get(headers, key) == IF key \in DOMAIN headers THEN headers[key] ELSE <<>>

(* Mutant: the cookies are forgotten. *)
Bug_NoCookies(headers, cookies) ==
    FlattenSeq([i \in 1..Cardinality(DOMAIN headers) |->
                    LET n == SetToSeq(DOMAIN headers)[i] IN n \o <<":", " ">> \o headers[n] \o Eol])

(* SrsHttpHeader::write, in some order of the map. *)
write(headers, cookies) ==
    FlattenSeq([i \in 1..Cardinality(DOMAIN headers) |->
                    LET n == SetToSeq(DOMAIN headers)[i] IN n \o <<":", " ">> \o headers[n] \o Eol])
    \o FlattenSeq([i \in DOMAIN cookies |-> N_Cookie \o <<":", " ">> \o cookies[i] \o Eol])

-----------------------------------------------------------------------------
(* The callbacks *)

on_message_begin(x) == [x EXCEPT !.obj = "Start"]
on_message_complete(x) == [x EXCEPT !.obj = "MessageComplete"]

on_headers_complete(x) ==
    [x EXCEPT !.obj = "HeaderComplete", !.p_body_start = x.end,
              !.hp_header = [f \in DOMAIN x.hp_header |-> x[f]]]

on_url(x, at, text) == [x EXCEPT !.uri = @ \o text, !.p_header_tail = at]

(* Mutant: Set-Cookie is a header like the others. *)
Bug_OneCookie(x, at, text) ==
    [x EXCEPT !.headers = IF x.field_name = <<>> THEN @ ELSE set(@, x.field_name, x.field_value),
              !.field_name = text, !.field_value = <<>>, !.p_header_tail = at]

(* A name that begins hands the pair before it to the header. *)
on_header_field(x, at, text) ==
    LET cookie == x.field_name \in {N_Cookie, <<"set-", "cookie">>}
        known  == x.field_name # <<>>
    IN  [x EXCEPT !.cookie_list = IF known /\ cookie THEN Append(@, x.field_value) ELSE @,
                  !.headers     = IF known /\ ~cookie THEN set(@, x.field_name, x.field_value) ELSE @,
                  !.field_value = IF known THEN <<>> ELSE @,
                  !.field_name  = text,
                  !.p_header_tail = at]

(* Mutant: a piece of a value replaces the pieces before it. *)
Bug_LastPiece(x, at, text) ==
    IF text = <<>> THEN x ELSE [x EXCEPT !.field_value = text, !.p_header_tail = at]

on_header_value(x, at, text) ==
    IF text = <<>> THEN x ELSE [x EXCEPT !.field_value = @ \o text, !.p_header_tail = at]

on_body(x, at, text) == [x EXCEPT !.obj = "Body", !.p_body_start = at]

(* CALLBACK_DATA: hands over what the mark m and the position `to` enclose. *)
CALLBACK_DATA(x, m, to) ==
    LET at   == x.mark[m]
        text == SubSeq(x.mem, at, to - 1)
        y    == [x EXCEPT !.mark[m] = NULL]
    IN  CASE at = NULL -> x
          [] m = "url" -> on_url(y, at, text)
          [] m = "header_field" -> on_header_field(y, at, text)
          [] m = "header_value" -> on_header_value(y, at, text)
          [] m = "body" -> on_body(y, at, text)
          [] m = "status" -> y

-----------------------------------------------------------------------------
(* The end of a message *)

http_message_needs_eof(x) ==
    /\ x.type = "response"
    /\ x.status_code \div 100 # 1 /\ x.status_code \notin {204, 304}
    /\ "CHUNKED" \notin x.flags /\ x.content_length = ULLONG_MAX

http_should_keep_alive(x) ==
    /\ IF x.http_major > 0 /\ x.http_minor > 0
       THEN "CONNECTION_CLOSE" \notin x.flags ELSE "CONNECTION_KEEP_ALIVE" \in x.flags
    /\ ~http_message_needs_eof(x)

NEW_MESSAGE(x) ==
    IF ~http_should_keep_alive(x) THEN "s_dead" ELSE IF x.type = "request" THEN "s_start_req" ELSE "s_start_res"

Complete(x) == on_message_complete(To(x, NEW_MESSAGE(x)))

s_message_done(x) == LET y == Complete(x) IN [y EXCEPT !.returned = x.upgrade]

-----------------------------------------------------------------------------
(* Request line and status line *)

s_dead(x) == IF Ch(x) \in {"CR", "LF"} THEN x ELSE Fail(x, "HPE_CLOSED_CONNECTION")

(* The fields both kinds of first line reset. *)
Begin(x) == [x EXCEPT !.flags = {}, !.content_length = ULLONG_MAX]

s_start_res(x) ==
    CASE Ch(x) \in {"CR", "LF"} -> x
      [] Ch(x) = "H" -> on_message_begin(To(Begin(x), "s_res_H"))
      [] OTHER -> Fail(Begin(x), "HPE_INVALID_CONSTANT")

s_start_req(x) ==
    CASE Ch(x) \in {"CR", "LF"} -> x
      [] Ch(x) \in DOMAIN FirstOf ->
            on_message_begin([To(Begin(x), "s_req_method") EXCEPT !.method = FirstOf[Ch(x)], !.index = 1])
      [] OTHER -> Fail(Begin(x), "HPE_INVALID_METHOD")

(* The method is matched against its name, or becomes another that begins alike. *)
s_req_method(x) ==
    LET m == {n \in {x.method} \cup OtherMethod(x.method) : RestOf[n] = Ch(x)}
    IN  CASE Ch(x) = " " /\ x.index = 2 -> To(x, "s_req_spaces_before_url")
          [] x.index = 1 /\ m # {} -> [x EXCEPT !.method = CHOOSE n \in m : TRUE, !.index = 2]
          [] OTHER -> Fail(x, "HPE_INVALID_METHOD")

UrlChar(x, s) ==
    LET t == parse_url_char(s, Code(Ch(x)))
    IN  IF t = "s_dead" THEN Fail(To(x, t), "HPE_INVALID_URL") ELSE To(x, t)

s_req_spaces_before_url(x) ==
    IF Ch(x) = " " THEN x
    ELSE UrlChar(MARK(x, "url"), IF x.method = "CONNECT" THEN "s_req_server_start" ELSE x.s)

(* The states in which a url may not end. *)
UrlStarts == {"s_req_schema", "s_req_schema_slash", "s_req_schema_slash_slash", "s_req_server_start"}
UrlParts  == {"s_req_server", "s_req_server_with_at", "s_req_path", "s_req_query_string_start",
              "s_req_query_string", "s_req_fragment_start", "s_req_fragment"}

s_req_url_start(x) == IF Ch(x) \in {" ", "CR", "LF"} THEN Fail(x, "HPE_INVALID_URL") ELSE UrlChar(x, x.s)

s_req_url(x) ==
    CASE Ch(x) = " " -> CALLBACK_DATA(To(x, "s_req_http_start"), "url", x.at)
      [] Ch(x) \in {"CR", "LF"} ->
            LET y == [x EXCEPT !.http_major = 0, !.http_minor = 9]
            IN  CALLBACK_DATA(To(y, IF Ch(x) = "CR" THEN "s_req_line_almost_done" ELSE "s_header_field_start"),
                              "url", x.at)
      [] OTHER -> UrlChar(x, x.s)

(* HTTP/1.1 and what must follow each of its parts. *)
s_req_http(x) ==
    CASE x.s = "s_req_http_start" /\ Ch(x) = " " -> x
      [] x.s = "s_req_http_start" /\ Ch(x) = "H" -> To(x, "s_req_http_H")
      [] x.s = "s_req_http_start" -> Fail(x, "HPE_INVALID_CONSTANT")
      [] OTHER -> IF Ch(x) = "TTP/" THEN To(x, "s_req_http_major") ELSE Fail(x, "HPE_STRICT")

s_res_H(x) == IF Ch(x) = "TTP/" THEN To(x, "s_res_http_major") ELSE Fail(x, "HPE_STRICT")

(* The states of a version: at its major number, the dot, the minor number and its end. *)
Version(x, st, after) ==
    CASE x.s = st[1] /\ IsNum(Ch(x)) -> [To(x, st[2]) EXCEPT !.http_major = Value(Ch(x))]
      [] x.s = st[2] /\ Ch(x) = "." -> To(x, st[3])
      [] x.s = st[3] /\ IsNum(Ch(x)) -> [To(x, st[4]) EXCEPT !.http_minor = Value(Ch(x))]
      [] x.s = st[4] /\ Ch(x) \in DOMAIN after -> To(x, after[Ch(x)])
      [] OTHER -> Fail(x, "HPE_INVALID_VERSION")

s_req_http_version(x) ==
    Version(x, <<"s_req_http_major", "s_req_http_dot", "s_req_http_minor", "s_req_http_end">>,
            [CR |-> "s_req_line_almost_done", LF |-> "s_header_field_start"])

s_res_http_version(x) ==
    Version(x, <<"s_res_http_major", "s_res_http_dot", "s_res_http_minor", "s_res_http_end">>,
            [c \in {" "} |-> "s_res_first_status_code"])

s_res_status(x) ==
    CASE Ch(x) = "CR" -> CALLBACK_DATA(To(x, "s_res_line_almost_done"), "status", x.at)
      [] Ch(x) = "LF" -> CALLBACK_DATA(To(x, "s_header_field_start"), "status", x.at)
      [] OTHER -> x

s_res_status_start(x) ==
    LET y == MARK([To(x, "s_res_status") EXCEPT !.index = 0], "status")
    IN  IF Ch(x) \in {"CR", "LF"} THEN s_res_status(y) ELSE y

s_res_status_code(x) ==
    LET first == x.s = "s_res_first_status_code"
        code  == (IF first THEN 0 ELSE 10 * x.status_code) + Value(Ch(x))
    IN  CASE IsNum(Ch(x)) /\ code <= 999 -> [To(x, "s_res_status_code") EXCEPT !.status_code = code]
          [] first /\ Ch(x) = " " -> x
          [] ~first /\ Ch(x) = " " -> To(x, "s_res_status_start")
          [] ~first /\ Ch(x) \in {"CR", "LF"} -> s_res_status_start(To(x, "s_res_status_start"))
          [] OTHER -> Fail(x, "HPE_INVALID_STATUS")

s_res_line_almost_done(x) ==
    IF Ch(x) = "LF" THEN To(x, "s_header_field_start") ELSE Fail(x, "HPE_STRICT")

s_req_line_almost_done(x) ==
    IF Ch(x) = "LF" THEN To(x, "s_header_field_start") ELSE Fail(x, "HPE_LF_EXPECTED")

-----------------------------------------------------------------------------
(* The end of the header *)

Upgrade(x) ==
    IF {"UPGRADE", "CONNECTION_UPGRADE"} \subseteq x.flags
    THEN x.type = "request" \/ x.status_code = 101 ELSE x.method = "CONNECT"

s_headers_done(x) ==
    LET y == [x EXCEPT !.nread = 0]
        hasBody == "CHUNKED" \in x.flags \/ x.content_length \notin {0, ULLONG_MAX}
    IN  CASE x.upgrade /\ (x.method = "CONNECT" \/ ~hasBody) -> [Complete(y) EXCEPT !.returned = TRUE]
          [] "CHUNKED" \in x.flags -> To(y, "s_chunk_size_start")
          [] x.content_length = 0 -> Complete(y)
          [] x.content_length # ULLONG_MAX -> To(y, "s_body_identity")
          [] ~http_message_needs_eof(x) -> Complete(y)
          [] OTHER -> To(y, "s_body_identity_eof")

s_headers_almost_done(x) ==
    CASE Ch(x) # "LF" -> Fail(x, "HPE_STRICT")
      [] "TRAILING" \in x.flags -> s_message_done(To(x, "s_message_done"))
      [] {"CHUNKED", "CONTENTLENGTH"} \subseteq x.flags -> Fail(x, "HPE_UNEXPECTED_CONTENT_LENGTH")
      [] OTHER -> s_headers_done(on_headers_complete([To(x, "s_headers_done") EXCEPT !.upgrade = Upgrade(x)]))

-----------------------------------------------------------------------------
(* Names and values *)

s_header_field_start(x) ==
    CASE Ch(x) = "CR" -> To(x, "s_headers_almost_done")
      [] Ch(x) = "LF" -> s_headers_almost_done(To(x, "s_headers_almost_done"))
      [] ~TOKEN(Ch(x)) -> Fail(x, "HPE_INVALID_HEADER_TOKEN")
      [] OTHER -> [MARK(To(x, "s_header_field"), "header_field")
                      EXCEPT !.index = 0, !.header_state = Matching(Names, Ch(x), "h_general")]

s_header_field(x) ==
    CASE TOKEN(Ch(x)) -> [x EXCEPT !.header_state = Matched(Names, @, Ch(x), "h_general")]
      [] Ch(x) = ":" -> CALLBACK_DATA(To(x, "s_header_value_discard_ws"), "header_field", x.at)
      [] OTHER -> Fail(x, "HPE_INVALID_HEADER_TOKEN")

(* What the value of a header means for the message once it is complete. *)
Finished(x) ==
    CASE x.header_state = "h_connection_keep_alive"     -> Flag(x, "CONNECTION_KEEP_ALIVE")
      [] x.header_state = "h_connection_close"          -> Flag(x, "CONNECTION_CLOSE")
      [] x.header_state = "h_connection_upgrade"        -> Flag(x, "CONNECTION_UPGRADE")
      [] x.header_state = "h_transfer_encoding_chunked" -> Flag(x, "CHUNKED")
      [] OTHER -> x

(* The first symbol of a value, by the name before it. *)
s_header_value_start(x) ==
    LET y == [MARK(To(x, "s_header_value"), "header_value") EXCEPT !.index = 0]
        h == x.header_state
    IN  CASE h = "h_upgrade" -> [Flag(y, "UPGRADE") EXCEPT !.header_state = "h_general"]
          [] h = "h_transfer_encoding" -> [y EXCEPT !.header_state = Matching(Chunked, Ch(x), "h_general")]
          [] h = "h_content_length" ->
                CASE ~IsNum(Ch(x)) -> Fail(y, "HPE_INVALID_CONTENT_LENGTH")
                  [] "CONTENTLENGTH" \in x.flags -> Fail(y, "HPE_UNEXPECTED_CONTENT_LENGTH")
                  [] OTHER -> [Flag(y, "CONTENTLENGTH") EXCEPT !.content_length = Value(Ch(x)),
                                                               !.header_state = "h_content_length_num"]
          [] h = "h_connection" -> [y EXCEPT !.header_state = Matching(Tokens, Ch(x), "h_matching_connection_token")]
          [] h \in {"h_content_length_ws", "h_matching_connection_token_start"} -> y
          [] OTHER -> [y EXCEPT !.header_state = "h_general"]

s_header_value_discard_ws(x) ==
    CASE Ch(x) \in {" ", "Tab"} -> x
      [] Ch(x) = "CR" -> To(x, "s_header_value_discard_ws_almost_done")
      [] Ch(x) = "LF" -> To(x, "s_header_value_discard_lws")
      [] OTHER -> s_header_value_start(x)

s_header_value_discard_ws_almost_done(x) ==
    IF Ch(x) = "LF" THEN To(x, "s_header_value_discard_lws") ELSE Fail(x, "HPE_STRICT")

(* A line that begins with a blank goes on with the value before it. *)
s_header_value_lws(x) ==
    IF Ch(x) \in {" ", "Tab"}
    THEN s_header_value_start(IF x.header_state = "h_content_length_num"
                              THEN [x EXCEPT !.header_state = "h_content_length_ws"] ELSE x)
    ELSE s_header_field_start(To(Finished(x), "s_header_field_start"))

s_header_almost_done(x) ==
    IF Ch(x) = "LF" THEN To(x, "s_header_value_lws") ELSE Fail(x, "HPE_LF_EXPECTED")

(* An empty value. *)
s_header_value_discard_lws(x) ==
    CASE Ch(x) \in {" ", "Tab"} -> To(x, "s_header_value_discard_ws")
      [] x.header_state = "h_content_length" -> Fail(x, "HPE_INVALID_CONTENT_LENGTH")
      [] OTHER -> s_header_field_start(CALLBACK_DATA(MARK(To(Finished(x), "s_header_field_start"), "header_value"),
                                                     "header_value", x.at))

ContentLengthDigit(x) ==
    CASE Ch(x) = " " -> [x EXCEPT !.header_state = "h_content_length_ws"]
      [] ~IsNum(Ch(x)) \/ (ULLONG_MAX - 10) \div 10 < x.content_length -> Fail(x, "HPE_INVALID_CONTENT_LENGTH")
      [] OTHER -> [x EXCEPT !.content_length = (10 * @ + Value(Ch(x))) % 2^Bits]

(* The tokens of a Connection header, separated by commas. *)
ConnectionToken(x) ==
    LET h == x.header_state
        H(s) == [x EXCEPT !.header_state = s]
    IN  CASE \E w \in Tokens : w.m = h -> H(Matched(Tokens, h, Ch(x), "h_matching_connection_token"))
          [] h = "h_matching_connection_token_start" ->
                CASE TOKEN(Ch(x)) -> H(Matching(Tokens, Ch(x), "h_matching_connection_token"))
                  [] Ch(x) \in {" ", "Tab"} -> x
                  [] OTHER -> H("h_general")
          [] Ch(x) = "," -> [Finished(x) EXCEPT !.header_state = "h_matching_connection_token_start", !.index = 0]
          [] h # "h_matching_connection_token" /\ Ch(x) # " " -> H("h_matching_connection_token")
          [] OTHER -> x

s_header_value(x) ==
    LET h == x.header_state
        done == CALLBACK_DATA(To(x, "s_header_almost_done"), "header_value", x.at)
    IN  CASE Ch(x) = "CR" -> done
          [] Ch(x) = "LF" -> s_header_almost_done(done)
          [] ~IS_HEADER_CHAR(Ch(x)) -> Fail(x, "HPE_INVALID_HEADER_TOKEN")
          [] h = "h_general" -> x
          [] h \in {"h_connection", "h_transfer_encoding"} -> Check(x, FALSE)
          [] h = "h_content_length_num" -> ContentLengthDigit(x)
          [] h = "h_content_length_ws" -> IF Ch(x) = " " THEN x ELSE Fail(x, "HPE_INVALID_CONTENT_LENGTH")
          [] h = "h_matching_transfer_encoding_chunked" ->
                [x EXCEPT !.header_state = Matched(Chunked, h, Ch(x), "h_general")]
          [] h = "h_transfer_encoding_chunked" -> IF Ch(x) = " " THEN x ELSE [x EXCEPT !.header_state = "h_general"]
          [] OTHER -> ConnectionToken(x)

-----------------------------------------------------------------------------
(* Bodies, as far as they came with the header *)

s_body_identity(x) ==
    LET y == MARK(Check(x, x.content_length \notin {0, ULLONG_MAX}), "body")
        z == [y EXCEPT !.content_length = @ - 1]
    IN  IF z.content_length = 0
        THEN s_message_done(CALLBACK_DATA(To(z, "s_message_done"), "body", x.at + 1)) ELSE z

s_body_identity_eof(x) == MARK(x, "body")

s_chunk_size_start(x) ==
    LET y == Check(x, x.nread = 1 /\ "CHUNKED" \in x.flags)
    IN  IF unhex(Ch(x)) = -1 THEN Fail(y, "HPE_INVALID_CHUNK_SIZE")
        ELSE [To(y, "s_chunk_size") EXCEPT !.content_length = unhex(Ch(x))]

s_chunk_size(x) ==
    CASE Ch(x) = "CR" -> To(x, "s_chunk_size_almost_done")
      [] Ch(x) \in {";", " "} -> To(x, "s_chunk_parameters")
      [] unhex(Ch(x)) = -1 -> Fail(x, "HPE_INVALID_CHUNK_SIZE")
      [] (ULLONG_MAX - 16) \div 16 < x.content_length -> Fail(x, "HPE_INVALID_CONTENT_LENGTH")
      [] OTHER -> [x EXCEPT !.content_length = (16 * @ + unhex(Ch(x))) % 2^Bits]

s_chunk_parameters(x) == IF Ch(x) = "CR" THEN To(x, "s_chunk_size_almost_done") ELSE x

s_chunk_size_almost_done(x) ==
    LET y == [x EXCEPT !.nread = 0]
    IN  CASE Ch(x) # "LF" -> Fail(x, "HPE_STRICT")
          [] x.content_length = 0 -> To(Flag(y, "TRAILING"), "s_header_field_start")
          [] OTHER -> To(y, "s_chunk_data")

s_chunk_data(x) ==
    LET y == MARK(Check(x, x.content_length \notin {0, ULLONG_MAX}), "body")
        z == [y EXCEPT !.content_length = @ - 1]
    IN  IF z.content_length = 0 THEN To(z, "s_chunk_data_almost_done") ELSE z

s_chunk_data_almost_done(x) ==
    IF Ch(x) = "CR" THEN CALLBACK_DATA(To(Check(x, x.content_length = 0), "s_chunk_data_done"), "body", x.at)
    ELSE Fail(x, "HPE_STRICT")

s_chunk_data_done(x) ==
    IF Ch(x) = "LF" THEN [To(x, "s_chunk_size_start") EXCEPT !.nread = 0] ELSE Fail(x, "HPE_STRICT")

-----------------------------------------------------------------------------
(* http_parser_execute *)

(* The state machine: what one symbol does. *)
Char(x) ==
    CASE x.s = "s_dead" -> s_dead(x)
      [] x.s = "s_start_res" -> s_start_res(x)
      [] x.s = "s_start_req" -> s_start_req(x)
      [] x.s = "s_req_method" -> s_req_method(x)
      [] x.s = "s_req_spaces_before_url" -> s_req_spaces_before_url(x)
      [] x.s \in UrlStarts -> s_req_url_start(x)
      [] x.s \in UrlParts -> s_req_url(x)
      [] x.s \in {"s_req_http_start", "s_req_http_H"} -> s_req_http(x)
      [] x.s \in {"s_req_http_major", "s_req_http_dot", "s_req_http_minor", "s_req_http_end"} -> s_req_http_version(x)
      [] x.s = "s_res_H" -> s_res_H(x)
      [] x.s \in {"s_res_first_status_code", "s_res_status_code"} -> s_res_status_code(x)
      [] x.s = "s_res_status_start" -> s_res_status_start(x)
      [] x.s = "s_res_status" -> s_res_status(x)
      [] x.s = "s_res_line_almost_done" -> s_res_line_almost_done(x)
      [] x.s = "s_req_line_almost_done" -> s_req_line_almost_done(x)
      [] x.s = "s_header_field_start" -> s_header_field_start(x)
      [] x.s = "s_header_field" -> s_header_field(x)
      [] x.s = "s_header_value_discard_ws" -> s_header_value_discard_ws(x)
      [] x.s = "s_header_value_discard_ws_almost_done" -> s_header_value_discard_ws_almost_done(x)
      [] x.s = "s_header_value_discard_lws" -> s_header_value_discard_lws(x)
      [] x.s = "s_header_value" -> s_header_value(x)
      [] x.s = "s_header_almost_done" -> s_header_almost_done(x)
      [] x.s = "s_header_value_lws" -> s_header_value_lws(x)
      [] x.s = "s_headers_almost_done" -> s_headers_almost_done(x)
      [] x.s = "s_body_identity" -> s_body_identity(x)
      [] x.s = "s_body_identity_eof" -> s_body_identity_eof(x)
      [] x.s = "s_chunk_size_start" -> s_chunk_size_start(x)
      [] x.s = "s_chunk_size" -> s_chunk_size(x)
      [] x.s = "s_chunk_parameters" -> s_chunk_parameters(x)
      [] x.s = "s_chunk_size_almost_done" -> s_chunk_size_almost_done(x)
      [] x.s = "s_chunk_data" -> s_chunk_data(x)
      [] x.s = "s_chunk_data_almost_done" -> s_chunk_data_almost_done(x)
      [] x.s = "s_chunk_data_done" -> s_chunk_data_done(x)
      [] OTHER -> s_res_http_version(x)

PARSING_HEADER(s) ==
    s \notin {"s_chunk_data", "s_chunk_data_almost_done", "s_chunk_data_done", "s_body_identity", "s_body_identity_eof"}

(* One turn of the loop over the data, unless an error or a return ended it. *)
Turn(x, i) ==
    LET y == [x EXCEPT !.at = i, !.nread = IF PARSING_HEADER(x.s) THEN @ + 1 ELSE @]
    IN  CASE x.returned \/ x.http_errno # "HPE_OK" -> x
          [] y.nread > max_header_size -> Fail(y, "HPE_HEADER_OVERFLOW")
          [] OTHER -> Char(y)

(* The marks a new call of http_parser_execute begins with. *)
Resume(x) ==
    [x EXCEPT !.returned = FALSE,
              !.mark = [m \in Marks |->
                    IF \/ m = "header_field" /\ x.s = "s_header_field"
                       \/ m = "header_value" /\ x.s = "s_header_value"
                       \/ m = "url" /\ x.s \in UrlStarts \cup UrlParts
                       \/ m = "status" /\ x.s = "s_res_status"
                    THEN x.p ELSE NULL]]

(* The callbacks for what is still marked when the data end. *)
Leftover(x) ==
    LET y == Check(x, Cardinality({m \in Marks : x.mark[m] # NULL}) <= 1)
    IN  Scan(LAMBDA z, i : CALLBACK_DATA(z, <<"header_field", "header_value", "url", "body", "status">>[i], x.end), y, 1, 5)

DataEnd(x) == IF x.returned \/ x.http_errno # "HPE_OK" THEN x ELSE Leftover(x)

http_parser_execute(x) == DataEnd(Scan(Turn, Resume(x), x.p, x.end - 1))

-----------------------------------------------------------------------------
(* SrsHttpParser and SrsHttpMessage *)

(* Mutant: what the parser went over is consumed. *)
Bug_NoSearch(x) == x.at + 1 - x.p

(* How much parse_message_imp consumes: up to the first empty line behind  *)
(* the last text of the header, if there is one before the body.           *)
Consumed(x) ==
    LET tails == {i \in x.p_header_tail..x.p_body_start - 4 : SubSeq(x.mem, i, i + 3) = Eol \o Eol}
    IN  IF x.p_header_tail # NULL /\ x.p < x.p_body_start /\ tails # {}
        THEN Min(tails) + 4 - x.p ELSE x.at + 1 - x.p

(* The end of parse_message_imp: the last pair is still to be set. *)
LastField(x) ==
    IF x.field_value = <<>> THEN x ELSE [x EXCEPT !.headers = set(@, x.field_name, x.field_value)]

(* atoll on the symbols of a value. *)
atoll(text) ==
    LET Step(a, i) == IF a.on /\ IsNum(text[i]) THEN [a EXCEPT !.v = 10 * @ + Value(text[i])] ELSE [a EXCEPT !.on = FALSE]
    IN  Min({2^(Bits - 1) - 1, Scan(Step, [on |-> TRUE, v |-> 0], 1, Len(text)).v})

(* A pair of name and port at the first colon, as srs_string_split makes it. *)
HostPort(text, port) ==
    LET colons == {i \in DOMAIN text : text[i] = ":"}
        second == {i \in colons : i > Min(colons)} \cup {Len(text) + 1}
    IN  IF colons = {} THEN [host |-> text, port |-> port]
        ELSE [host |-> SubSeq(text, 1, Min(colons) - 1), port |-> atoll(SubSeq(text, Min(colons) + 1, Min(second) - 1))]

(* set_basic, set_header, set_url, get_host_port: the message. *)
Message(x) ==
    LET h       == x.hp_header
        chunked == get(x.headers, N_Encoding) = <<"chun", "ked">>
        length  == IF get(x.headers, N_Length) # <<>> THEN atoll(get(x.headers, N_Length))
                   ELSE IF h.content_length = ULLONG_MAX THEN -1 ELSE h.content_length
        host    == get(x.headers, N_Host)
        full    == IF \E i \in 1..Len(x.uri) - 2 : SubSeq(x.uri, i, i + 2) = <<":", "/", "/">> THEN x.uri
                   ELSE <<"z", ":", "/", "/">> \o host \o x.uri
    IN  [type |-> h.type, method |-> h.method, status |-> h.status_code,
         headers |-> x.headers, cookies |-> x.cookie_list, url |-> x.uri,
         chunked |-> chunked, content_length |-> length,
         keep_alive |-> http_should_keep_alive(h),
         body_closed |-> h.type = "request" /\ ~chunked /\ length = -1,
         ok |-> \/ h.type = "response" \/ h.method = "CONNECT"
                \/ initialize([i \in DOMAIN full |-> Code(full[i])], 0).ok,
         dest |-> CASE h.type = "response" -> [host |-> <<>>, port |-> 0]
                    [] h.method = "CONNECT" -> HostPort(x.uri, 443)
                    [] host # <<>> -> HostPort(host, 80)
                    [] OTHER -> [host |-> <<>>, port |-> 0]]

Forwarded == {"GET", "POST", "PUT", "DELETE", "OPTIONS", "CONNECT"}
Decimal(n) == <<Digits[n \div 100 + 1], Digits[((n \div 10) % 10) + 1], Digits[(n % 10) + 1]>>

(* restore_http_header: the header that goes to the other side. *)
restore_http_header(m) ==
    LET version == <<"H", "TTP/", "1", ".", "1">>
        method  == IF m.method \in Forwarded THEN <<Beginning(m.method), RestOf[m.method]>> ELSE <<>>
        first   == IF m.type = "request" THEN method \o <<" ">> \o m.url \o <<" ">> \o version
                   ELSE version \o <<" ">> \o Decimal(m.status) \o <<" ", "text">>
    IN  first \o Eol \o write(m.headers, m.cookies) \o Eol

(* What one whole header gives: the result of a single read of it. *)
ParseWhole(type, text) == LastField(http_parser_execute(Reset(type, text, 1, Len(text) + 1)))

-----------------------------------------------------------------------------
(* The connection: a peer sends messages one after the other. *)

CONSTANT Conversations      \* sequences of messages, see Sent

VARIABLES
    conv,       \* the messages the peer sends
    k,          \* the one that is being read
    wire,       \* what of it was not read yet
    parser,     \* the parser, its callbacks' object and the stream
    phase,      \* "parse", "message" (its body is read), "failed", "end"
    left,       \* symbols of the body not taken from the stream yet
    msg,        \* the message parse_message returned
    cut,        \* a read ended inside a header's name
    moved       \* the stream began at its buffer's start again, within a header

vars == <<conv, k, wire, parser, phase, left, msg, cut, moved>>

(* The header of a message and the whole message, as it is sent. *)
HeaderOf(m) ==
    m.first \o m.eol \o FlattenSeq([i \in DOMAIN m.fields |-> m.fields[i].name \o <<":", " ">>
                                                            \o m.fields[i].value \o m.eol]) \o m.eol
Sent(m) == HeaderOf(m) \o m.body

NoMessage == [type |-> "none"]

Init ==
    /\ conv \in Conversations /\ k = 1
    /\ wire = Sent(conv[1])
    /\ parser = Reset(conv[1].type, [i \in 1..nb_buffer |-> "NUL"], 1, 1)
    /\ phase = "parse" /\ left = 0 /\ msg = NoMessage /\ cut = FALSE /\ moved = FALSE

size == parser.end - parser.p

(* grow(size() + 1) with an empty stream: one read of n symbols. *)
Grow(n) ==
    LET full  == nb_buffer + 1 - parser.end < 1
        start == IF full THEN 1 ELSE parser.end
    IN  /\ phase = "parse" \/ (phase = "message" /\ left > 0)
        /\ size = 0 /\ n \in 1..Min({Len(wire), nb_buffer + 1 - start})
        /\ parser' = [parser EXCEPT !.p = start, !.end = start + n,
                          !.mem = [i \in 1..nb_buffer |-> IF i \in start..start + n - 1 THEN wire[i - start + 1] ELSE @[i]]]
        /\ wire' = SubSeq(wire, n + 1, Len(wire))
        /\ moved' = (moved \/ (full /\ parser.p_header_tail # NULL))
        /\ UNCHANGED <<conv, k, phase, left, msg, cut>>

(* One turn of the loop of parse_message_imp; with the header complete it  *)
(* is left and parse_message makes the message.                            *)
Execute ==
    /\ phase = "parse" /\ size > 0
    /\ \E y \in {http_parser_execute(parser)} :
        LET done == y.obj \notin {"Init", "Start"}
        IN  /\ CASE y.http_errno # "HPE_OK" -> parser' = y /\ phase' = "failed" /\ UNCHANGED msg
                  [] y.http_errno = "HPE_OK" /\ ~done -> parser' = [y EXCEPT !.p = y.end] /\ UNCHANGED <<phase, msg>>
                  [] OTHER -> \E z \in {LastField([y EXCEPT !.p = @ + Consumed(y)])} : \E m \in {Message(z)} :
                        /\ parser' = z
                        /\ phase' = IF m.ok THEN "message" ELSE "failed"
                        /\ msg' = IF m.ok THEN m ELSE msg
            /\ left' = IF phase' = "message" THEN Len(conv[k].body) ELSE 0
            /\ cut' = (cut \/ (~done /\ y.s = "s_header_field"))
    /\ UNCHANGED <<conv, k, wire, moved>>

(* The reader of the body (module HttpBody) takes what is in the stream. *)
ReadBody ==
    /\ phase = "message" /\ left > 0 /\ size > 0
    /\ LET n == Min({left, size}) IN left' = left - n /\ parser' = [parser EXCEPT !.p = @ + n]
    /\ UNCHANGED <<conv, k, wire, phase, msg, cut, moved>>

(* The next message on the connection: parse_message begins anew. *)
NextMessage ==
    /\ phase = "message" /\ left = 0
    /\ IF k < Len(conv)
       THEN /\ k' = k + 1 /\ phase' = "parse" /\ wire' = Sent(conv[k + 1])
            /\ parser' = Reset(parser.type, parser.mem, parser.p, parser.end)
       ELSE phase' = "end" /\ UNCHANGED <<k, wire, parser>>
    /\ cut' = FALSE /\ moved' = FALSE
    /\ UNCHANGED <<conv, left, msg>>

Next ==
    \/ \E n \in 1..nb_buffer : Grow(n)
    \/ Execute
    \/ ReadBody
    \/ NextMessage

Spec == Init /\ [][Next]_vars

-----------------------------------------------------------------------------
(* Properties *)

(***************************************************************************)
(* The type invariant: the pointers stay within the buffer, the parser's   *)
(* counters within their width.                                            *)
(***************************************************************************)
TypeOK ==
    /\ phase \in {"parse", "message", "failed", "end"} /\ k \in 1..Len(conv)
    /\ 1 <= parser.p /\ parser.p <= parser.end /\ parser.end <= nb_buffer + 1
    /\ parser.content_length \in 0..ULLONG_MAX /\ parser.nread <= max_header_size + 1
    /\ parser.p_body_start \in 0..nb_buffer + 1 /\ parser.p_header_tail \in 0..nb_buffer

(* The asserts of http_parser_execute: at most one mark at the end of the  *)
(* data, a count begins at a chunk, no value is read in the state of a name. *)
AssertsHold == parser.asserts

(* All cookies of a message, wherever the object keeps them. *)
Cookies(m) == m.cookies \o (IF N_Cookie \in DOMAIN m.headers THEN <<m.headers[N_Cookie]>> ELSE <<>>)
Others(m) == [n \in DOMAIN m.headers \ {N_Cookie} |-> m.headers[n]]

(* The fields of what was sent, by the name the code files them under. *)
FieldsNamed(m, n) == {i \in DOMAIN m.fields : m.fields[i].canon = n}
SentCookies(m) == SelectSeq(m.fields, LAMBDA f : f.canon = N_Cookie)

(* The message holds the headers that were sent, each under one spelling   *)
(* of its name with its last value, and every cookie in order.             *)
HeadersMatch(m) ==
    /\ DOMAIN Others(msg) = {m.fields[i].canon : i \in DOMAIN m.fields} \ {N_Cookie}
    /\ \A n \in DOMAIN Others(msg) : msg.headers[n] = m.fields[Max(FieldsNamed(m, n))].reads
    /\ Cookies(msg) = [i \in DOMAIN SentCookies(m) |-> SentCookies(m)[i].value]

(* The headers of the message are the ones that were sent.                 *)
HeadersKept ==
    phase = "message" /\ ~cut /\ "empty last" \notin conv[k].odd => HeadersMatch(conv[k])

(***************************************************************************)
(* The same with reads that end anywhere, inside a name too: "we may get a *)
(* partial value in on_header_value" is all parse_message provides for.    *)
(***************************************************************************)
HeadersWhole == phase = "message" /\ conv[k].odd = {} => HeadersMatch(conv[k])

(* A header is refused if it is malformed and only then. *)
OnlyBadRefused ==
    ~cut /\ "bad body" \notin conv[k].odd =>
        /\ phase = "failed" => "bad" \in conv[k].odd
        /\ phase = "message" => "bad" \notin conv[k].odd

(***************************************************************************)
(* Well-formed headers are accepted and others refused, and the message    *)
(* has the ones that were sent, however the reads cut them, unless one     *)
(* ended inside a name: on_header_field takes the rest of it for another.  *)
(***************************************************************************)
HeadersAsSent == HeadersKept /\ OnlyBadRefused

(* What is still unread of a message is what is left of its body.          *)
BodyIntact ==
    phase = "message" /\ ~moved /\ conv[k].odd \cap {"lf", "trailer"} = {} => size + Len(wire) = left

(* The number a Content-Length was sent with. *)
SentLength(m) ==
    LET t == SelectSeq(m.fields[Max(FieldsNamed(m, N_Length))].value, IsNum)
    IN  Scan(LAMBDA v, i : 10 * v + Value(t[i]), 0, 1, Len(t))

(* A length that is accepted is the one that was sent, and never "none". *)
LengthExact ==
    phase = "message" /\ ~cut /\ FieldsNamed(conv[k], N_Length) # {} =>
        parser.hp_header.content_length = SentLength(conv[k]) /\ parser.hp_header.content_length # ULLONG_MAX

(***************************************************************************)
(* The reader of the body begins with its first byte and knows its length: *)
(* parse_message_imp says "Only consume the header bytes", and a length    *)
(* never wraps at the width of content_length.  The former holds for       *)
(* headers that end in CR LF CR LF, for chunked bodies without trailers    *)
(* and while the stream is not reset under p_header_tail.                  *)
(***************************************************************************)
BodyFound == BodyIntact /\ LengthExact

(* The framing in the text of the headers is the one in the parser's flags. *)
FramingAgreed ==
    phase = "message" /\ ~cut /\ conv[k].odd \cap {"capital", "long"} = {} =>
        LET h == parser.hp_header
        IN  /\ msg.chunked <=> "CHUNKED" \in h.flags
            /\ msg.content_length # -1 <=> "CONTENTLENGTH" \in h.flags
            /\ msg.content_length # -1 => msg.content_length = h.content_length /\ ~msg.chunked

(* Parsing the forwarded header again gives the same message. *)
ForwardedTheSame ==
    phase = "message" /\ ~cut /\ conv[k].odd = {} /\ (msg.type = "request" => msg.method \in Forwarded) =>
        \E m \in {Message(ParseWhole(msg.type, restore_http_header(msg)))} :
            /\ Others(m) = Others(msg) /\ Range(Cookies(m)) = Range(Cookies(msg))
            /\ m.url = msg.url /\ m.method = msg.method /\ m.status = msg.status /\ m.dest = msg.dest
            /\ m.chunked = msg.chunked /\ m.content_length = msg.content_length

(***************************************************************************)
(* Everybody on the way sees one message: the reader of the body           *)
(* (is_chunked, content_length of SrsHttpMessage, from the text of the     *)
(* headers) goes by the one framing the parser saw, for "chunked" in small *)
(* letters and lengths an int64_t holds, and what restore_http_header      *)
(* writes reads as the message that came: headers, cookies, url, target.   *)
(***************************************************************************)
ForwardedAsRead == FramingAgreed /\ ForwardedTheSame

(* parse_message does not wait for more once the whole header is there. *)
HeaderSuffices == phase = "parse" => size > 0 \/ wire # <<>>

(***************************************************************************)
(* How a header is cut into reads makes no difference: the message is the  *)
(* one a single read of the whole header gives, no assert of the parser    *)
(* fails, no pointer leaves the buffer, and there is no needless wait.     *)
(***************************************************************************)
ReadsDoNotMatter ==
    /\ phase = "message" /\ ~cut => msg = Message(ParseWhole(parser.type, HeaderOf(conv[k])))
    /\ TypeOK /\ AssertsHold /\ HeaderSuffices
=============================================================================
