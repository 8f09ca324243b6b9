------------------------------ MODULE HttpUrl ------------------------------
(***************************************************************************)
(* Urls: the character machines of protocol/srs_protocol_http_stack.cpp    *)
(* (parse_url_char, http_parse_host_char), http_parser_parse_url with      *)
(* its table of fields, SrsHttpUri on top of it, and the percent encoding  *)
(* of paths and queries (escape, unescapse).                               *)
(*                                                                         *)
(* A character is its code.  A url is a sequence of codes; the offsets and *)
(* lengths of fields count from 0 and are kept in Width bits.              *)
(***************************************************************************)
EXTENDS Text

CONSTANT Width      \* bits of http_parser_url's off and len (uint16_t)

ASSUME WidthAssumption == Width \in Nat \ {0}

-----------------------------------------------------------------------------
(* Classes of characters *)

Tab == 9
LF == 10
CR == 13
Space == 32
Hash == 35
Percent == 37
Amp == 38
Plus == 43
Comma == 44
Dash == 45
Dot == 46
Slash == 47
Colon == 58
Semi == 59
Equal == 61
Quest == 63
At == 64
Open == 91
Close == 93
Under == 95
Tilde == 126

Lower(c) == IF c \in 65..90 THEN c + 32 ELSE c

IS_ALPHA(c)     == Lower(c) \in 97..122
IS_NUM(c)       == c \in 48..57
IS_ALPHANUM(c)  == IS_ALPHA(c) \/ IS_NUM(c)
IS_HEX(c)       == IS_NUM(c) \/ Lower(c) \in 97..102
IS_MARK(c)      == c \in {33, 39, 40, 41, 42, Dash, Dot, Under, Tilde}
IS_USERINFO_CHAR(c) ==
    IS_ALPHANUM(c) \/ IS_MARK(c) \/ c \in {36, Percent, Amp, Plus, Comma, Colon, Semi, Equal}
IS_HOST_CHAR(c) == IS_ALPHANUM(c) \/ c \in {Dot, Dash}
IS_URL_CHAR(c)  == c \in 33..126 \ {Hash, Quest}

-----------------------------------------------------------------------------
(* The character machines *)

(***************************************************************************)
(* What parse_url_char makes of one character, by the state it is in.      *)
(***************************************************************************)
parse_url_char(s, ch) ==
    CASE ch \in {Space, CR, LF, Tab, 12} -> "s_dead"
      [] s = "s_req_spaces_before_url" /\ ch \in {Slash, 42} -> "s_req_path"
      [] s \in {"s_req_spaces_before_url", "s_req_schema"} /\ IS_ALPHA(ch) -> "s_req_schema"
      [] s = "s_req_schema" /\ ch = Colon -> "s_req_schema_slash"
      [] s = "s_req_schema_slash" /\ ch = Slash -> "s_req_schema_slash_slash"
      [] s = "s_req_schema_slash_slash" /\ ch = Slash -> "s_req_server_start"
      [] s = "s_req_server_with_at" /\ ch = At -> "s_dead"
      [] s \in {"s_req_server_start", "s_req_server", "s_req_server_with_at"} ->
            CASE ch = Slash -> "s_req_path"
              [] ch = Quest -> "s_req_query_string_start"
              [] ch = At -> "s_req_server_with_at"
              [] IS_USERINFO_CHAR(ch) \/ ch \in {Open, Close} -> "s_req_server"
              [] OTHER -> "s_dead"
      [] s = "s_req_path" ->
            CASE IS_URL_CHAR(ch) -> s
              [] ch = Quest -> "s_req_query_string_start"
              [] ch = Hash -> "s_req_fragment_start"
              [] OTHER -> "s_dead"
      [] s \in {"s_req_query_string_start", "s_req_query_string"} ->
            CASE IS_URL_CHAR(ch) \/ ch = Quest -> "s_req_query_string"
              [] ch = Hash -> "s_req_fragment_start"
              [] OTHER -> "s_dead"
      [] s = "s_req_fragment_start" ->
            CASE IS_URL_CHAR(ch) \/ ch = Quest -> "s_req_fragment"
              [] ch = Hash -> s
              [] OTHER -> "s_dead"
      [] s = "s_req_fragment" /\ (IS_URL_CHAR(ch) \/ ch \in {Quest, Hash}) -> s
      [] OTHER -> "s_dead"

(* The same for the host part: userinfo, host or [v6%zone], port. *)
http_parse_host_char(s, ch) ==
    CASE s \in {"userinfo", "userinfo_start"} /\ ch = At -> "host_start"
      [] s \in {"userinfo", "userinfo_start"} /\ IS_USERINFO_CHAR(ch) -> "userinfo"
      [] s = "host_start" /\ ch = Open -> "host_v6_start"
      [] s \in {"host_start", "host"} /\ IS_HOST_CHAR(ch) -> "host"
      [] s \in {"host", "host_v6_end"} /\ ch = Colon -> "host_port_start"
      [] s \in {"host_v6", "host_v6_zone"} /\ ch = Close -> "host_v6_end"
      [] s \in {"host_v6", "host_v6_start"} /\ (IS_HEX(ch) \/ ch \in {Colon, Dot}) -> "host_v6"
      [] s = "host_v6" /\ ch = Percent -> "host_v6_zone_start"
      [] s \in {"host_v6_zone", "host_v6_zone_start"}
            /\ (IS_ALPHANUM(ch) \/ ch \in {Percent, Dot, Dash, Under, Tilde}) -> "host_v6_zone"
      [] s \in {"host_port", "host_port_start"} /\ IS_NUM(ch) -> "host_port"
      [] OTHER -> "dead"

-----------------------------------------------------------------------------
(* http_parser_parse_url *)

Fields == {"schema", "host", "port", "path", "query", "fragment", "userinfo"}

(* struct http_parser_url: field_set and field_data.  No field: set is empty. *)
NoUrl == [set |-> {}, off |-> [f \in Fields |-> 0], len |-> [f \in Fields |-> 0]]

Cut(n) == n % 2^Width

(* A field begins at p, or has one character more. *)
Start(u, f, p) == [u EXCEPT !.set = @ \cup {f}, !.off[f] = Cut(p), !.len[f] = 1]
More(u, f)     == [u EXCEPT !.len[f] = Cut(@ + 1)]

(* The field of a state; delimiters belong to none. *)
FieldOf(s) ==
    CASE s = "s_req_schema" -> "schema"
      [] s \in {"s_req_server", "s_req_server_with_at"} -> "host"
      [] s = "s_req_path" -> "path"
      [] s = "s_req_query_string" -> "query"
      [] s = "s_req_fragment" -> "fragment"
      [] OTHER -> "none"

(* One turn of the loop over the url; a is [s, old_uf, found_at, u]. *)
UrlStep(a, ch, p) ==
    LET s == parse_url_char(a.s, ch)
        f == FieldOf(s)
    IN  IF a.s = "s_dead" \/ s = "s_dead" THEN [a EXCEPT !.s = "s_dead"]
        ELSE [s |-> s,
              old_uf |-> IF f = "none" THEN a.old_uf ELSE f,
              found_at |-> a.found_at \/ s = "s_req_server_with_at",
              u |-> IF f = "none" THEN a.u
                    ELSE IF f = a.old_uf THEN More(a.u, f) ELSE Start(a.u, f, p)]

(* Mutant: the port is not told from the host. *)
Bug_PortInHost(a, ch, p) ==
    LET s == http_parse_host_char(a.s, ch)
    IN  [s |-> s,
         u |-> CASE s \in {"host", "host_v6"} /\ s # a.s -> [a.u EXCEPT !.off["host"] = Cut(p), !.len["host"] = 1]
                 [] s \in {"host", "host_v6", "host_v6_zone_start", "host_v6_zone", "host_port", "host_port_start"} ->
                        More(a.u, "host")
                 [] OTHER -> a.u]

(* One turn of the loop in http_parse_host; a is [s, u]. *)
HostStep(a, ch, p) ==
    LET s == http_parse_host_char(a.s, ch)
    IN  [s |-> s,
         u |-> CASE s \in {"host", "host_v6"} /\ s # a.s -> [a.u EXCEPT !.off["host"] = Cut(p), !.len["host"] = Cut(@ + 1)]
                 [] s \in {"host", "host_v6", "host_v6_zone_start", "host_v6_zone"} -> More(a.u, "host")
                 [] s \in {"host_port", "userinfo"} ->
                        LET f == IF s = "userinfo" THEN "userinfo" ELSE "port"
                        IN  IF s # a.s THEN Start(a.u, f, p) ELSE More(a.u, f)
                 [] OTHER -> a.u]

(* http_parse_host: what it leaves of u, or NoUrl when it refuses the host. *)
http_parse_host(buf, u, found_at) ==
    LET first == u.off["host"] + 1
        last  == u.off["host"] + u.len["host"]
        Step(a, i) == IF a.s = "dead" THEN a ELSE HostStep(a, buf[i], i - 1)
        a0 == [s |-> IF found_at THEN "userinfo_start" ELSE "host_start",
               u |-> [u EXCEPT !.len["host"] = 0]]
        a  == Scan(Step, a0, first, last)
    IN  IF a.s \in {"host", "host_v6_end", "host_port"} THEN a.u ELSE NoUrl

(* The text of a field. *)
get_uri_field(buf, u, f) ==
    IF f \in u.set THEN SubSeq(buf, u.off[f] + 1, Min({u.off[f] + u.len[f], Len(buf)})) ELSE <<>>

(* The number in a sequence of digits, or -1 when it is above the limit. *)
Number(digits, limit) ==
    LET Step(v, i) == IF v < 0 \/ 10 * v + digits[i] - 48 > limit THEN -1 ELSE 10 * v + digits[i] - 48
    IN  Scan(Step, 0, 1, Len(digits))

(* The last checks: the fields u, unless the url that was read as a is refused. *)
Accepted(buf, a, u) ==
    IF \/ buf = <<>> \/ a.s = "s_dead"
       \/ "schema" \in a.u.set /\ "host" \notin a.u.set
       \/ "port" \in u.set /\ Number(get_uri_field(buf, u, "port"), 65535) = -1
    THEN NoUrl ELSE u

(* The host is taken apart once the whole url was read. *)
Located(buf, a) ==
    Accepted(buf, a, IF "host" \in a.u.set THEN http_parse_host(buf, a.u, a.found_at) ELSE a.u)

(***************************************************************************)
(* http_parser_parse_url for a url that is not a CONNECT's: the fields,    *)
(* or NoUrl for an error.                                                  *)
(***************************************************************************)
http_parser_parse_url(buf) ==
    LET a0 == [s |-> "s_req_spaces_before_url", old_uf |-> "none", found_at |-> FALSE, u |-> NoUrl]
    IN  Located(buf, Scan(LAMBDA x, i : UrlStep(x, buf[i], i - 1), a0, 1, Len(buf)))

-----------------------------------------------------------------------------
(* SrsHttpUri *)

Https == <<104, 116, 116, 112, 115>>

(* The parts of a url with the fields u, on an object whose port was `port`. *)
Parts(url, u, port) ==
    LET field(f) == get_uri_field(url, u, f)
        given    == IF field("port") = <<>> THEN port ELSE Number(field("port"), 65535)
    IN  [ok       |-> u.set # {},
         schema   |-> field("schema"),
         host     |-> field("host"),
         port     |-> IF given > 0 THEN given ELSE IF field("schema") = Https THEN 443 ELSE 80,
         path     |-> field("path"),
         query    |-> field("query"),
         username |-> Before(field("userinfo"), Colon),
         password |-> After(field("userinfo"), Colon)]

(***************************************************************************)
(* SrsHttpUri::initialize: the parts of the url, or ok = FALSE.  Only      *)
(* schema, host, path and query are reset.  The names of a default vhost   *)
(* and the default ports of schemas other than http and https are left out.*)
(***************************************************************************)
initialize(url, port) == Parts(url, http_parser_parse_url(url), port)

(* SrsHttpUri::set_schema on the text of the url. *)
set_schema(url, schema) ==
    LET at == {i \in 1..Len(url) - 2 : SubSeq(url, i, i + 2) = <<Colon, Slash, Slash>>}
    IN  IF at = {} THEN url ELSE schema \o SubSeq(url, Min(at), Len(url))

-----------------------------------------------------------------------------
(* Query strings *)

(* srs_string_min_match: the length of the separator at i, 0 if none is there. *)
SeparatorAt(q, i) ==
    CASE i < Len(q) /\ q[i] = Amp /\ q[i + 1] = Amp -> 2
      [] q[i] \in {Equal, Comma, Amp, Semi} -> 1
      [] OTHER -> 0

(* srs_string_split at every separator; an empty last piece is dropped. *)
srs_string_split(q) ==
    LET Step(a, i) ==
            IF a.skip > 0 THEN [a EXCEPT !.skip = @ - 1]
            ELSE IF SeparatorAt(q, i) = 0 THEN [a EXCEPT !.last = Append(@, q[i])]
            ELSE [arr |-> Append(a.arr, a.last), last |-> <<>>, skip |-> SeparatorAt(q, i) - 1]
        a == Scan(Step, [arr |-> <<>>, last |-> <<>>, skip |-> 0], 1, Len(q))
    IN  IF a.last = <<>> THEN a.arr ELSE Append(a.arr, a.last)

(* srs_parse_query_string: every second piece is a key; the last one wins. *)
srs_parse_query_string(q) ==
    LET kvs  == srs_string_split(q)
        keys == {i \in 1..Len(kvs) : i % 2 = 1}
        val(i) == IF i < Len(kvs) THEN kvs[i + 1] ELSE <<>>
    IN  [k \in {kvs[i] : i \in keys} |-> val(Max({i \in keys : kvs[i] = k}))]

-----------------------------------------------------------------------------
(* Percent encoding *)

(* Mutant: the question mark is left alone in a path. *)
Bug_QuestInPath(c, mode) ==
    ~IS_ALPHANUM(c) /\ c \notin {Dash, Under, Dot, Tilde, Quest}

(* should_escape; mode is "path", "segment", "host", "zone", "user", "query" or "fragment". *)
should_escape(c, mode) ==
    CASE IS_ALPHANUM(c) -> FALSE
      [] mode \in {"host", "zone"}
            /\ c \in {33, 34, 36, Amp, 39, 40, 41, 42, Plus, Comma, Semi, Equal, Colon, Open, Close, 60, 62} -> FALSE
      [] c \in {Dash, Under, Dot, Tilde} -> FALSE
      [] c \in {36, Amp, Plus, Comma, Slash, Colon, Semi, Equal, Quest, At} ->
            CASE mode = "path" -> c = Quest
              [] mode = "segment" -> c \in {Slash, Semi, Comma, Quest}
              [] mode = "user" -> c \in {At, Slash, Quest, Colon}
              [] mode = "fragment" -> FALSE
              [] OTHER -> TRUE
      [] mode = "fragment" /\ c \in {33, 40, 41, 42} -> FALSE
      [] OTHER -> TRUE

HexDigit(n)   == IF n < 10 THEN 48 + n ELSE 65 + n - 10
hex_to_num(c) == IF IS_NUM(c) THEN c - 48 ELSE IF IS_HEX(c) THEN Lower(c) - 97 + 10 ELSE 0

(* escape: what a text looks like inside a url. *)
escape(t, mode) ==
    FlattenSeq([i \in 1..Len(t) |->
        CASE t[i] = Space /\ mode = "query" -> <<Plus>>
          [] should_escape(t[i], mode) -> <<Percent, HexDigit(t[i] \div 16), HexDigit(t[i] % 16)>>
          [] OTHER -> <<t[i]>>])

(* The value of the escape at i. *)
Escaped(t, i) == 16 * hex_to_num(t[i + 1]) + hex_to_num(t[i + 2])

(* Whether unescapse lets the character or the escape at i pass. *)
WellFormed(t, i, mode) ==
    IF t[i] = Percent
    THEN /\ i + 2 <= Len(t) /\ IS_HEX(t[i + 1]) /\ IS_HEX(t[i + 2])
         /\ mode = "host" /\ hex_to_num(t[i + 1]) < 8 => Escaped(t, i) = Percent
         /\ mode = "zone" => Escaped(t, i) \in {Percent, Space} \/ ~should_escape(Escaped(t, i), "host")
    ELSE mode \in {"host", "zone"} /\ t[i] < 128 => ~should_escape(t[i], mode)

(* unescapse: the text, or ok = FALSE for an escape that is not well formed. *)
unescapse(t, mode) ==
    LET Step(a, i) ==
            CASE a.skip > 0 -> [a EXCEPT !.skip = @ - 1]
              [] ~a.ok \/ ~WellFormed(t, i, mode) -> [a EXCEPT !.ok = FALSE]
              [] t[i] = Percent -> [a EXCEPT !.value = Append(@, Escaped(t, i)), !.skip = 2]
              [] t[i] = Plus /\ mode = "query" -> [a EXCEPT !.value = Append(@, Space)]
              [] OTHER -> [a EXCEPT !.value = Append(@, t[i])]
        a == Scan(Step, [ok |-> TRUE, value |-> <<>>, skip |-> 0], 1, Len(t))
    IN  [ok |-> a.ok, value |-> IF a.ok THEN a.value ELSE <<>>]
=============================================================================
