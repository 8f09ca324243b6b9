------------------------------- MODULE MCText -------------------------------
(***************************************************************************)
(* The texts this program reads, built up symbol by symbol or piece by     *)
(* piece: urls and their percent encoding (HttpUrl), JSON (Json), the      *)
(* configuration file (ConfigText) and old vhosts (Config).  A behaviour   *)
(* is one text that grows; the invariants compare what the program makes   *)
(* of it with how it was built.                                            *)
(***************************************************************************)
EXTENDS Integers, FiniteSets, SequencesExt

CONSTANTS
    MaxUrl,         \* characters appended to the beginning of a url
    MaxEscape,      \* characters of a text that is percent encoded
    MaxJson,        \* symbols appended to the beginning of a JSON text
    MaxConf,        \* pieces of a configuration file
    MaxVhost        \* directives of a vhost

U == INSTANCE HttpUrl WITH Width <- 16
J == INSTANCE Json WITH IntBits <- 16
IncludedFile == <<"i", ";">>
C == INSTANCE ConfigText WITH Env <- [k \in {} |-> 0], Files <- [f \in {<<"f">>} |-> IncludedFile]

VARIABLES task,     \* which kind of text
          text,     \* the text so far
          size,     \* how many pieces were appended
          want      \* for a configuration file: the tree it should give

vars == <<task, text, size, want>>

-----------------------------------------------------------------------------
(* Beginnings *)

Colon == U!Colon
a_ == 97            \* the letter a
UrlSeeds == {<<>>, <<a_, Colon, U!Slash, U!Slash>>, <<a_, Colon, U!Slash, U!Slash, a_, U!At, a_>>,
             <<a_, Colon, U!Slash, U!Slash, U!Open, a_>>}
UrlChars == {a_, 56, Colon, U!Slash, U!Quest, U!Hash, U!At, U!Open, U!Close, U!Percent, U!Equal, U!Space}

EscapeChars == {a_, U!Percent, U!Plus, U!Space, U!Slash, U!Quest, U!Hash, U!Amp, U!Equal, Colon, 200, 10}

Name == <<J!Q, "a", J!Q, ":">>
JsonSeeds == {<<>>, <<"{">> \o Name, <<"[">> \o <<"{">> \o Name \o <<"0", ",">>,
              <<"{">> \o Name \o <<"0", ",">> \o Name, <<"[", "0", ".", "0">>, <<"[", "9", "9", "9">>}
JsonSymbols == {"{", "}", "[", "]", J!Q, J!B, ",", ":", "0", "9", "-", ".", "e", " ", "n", "a", "u3", "true"}

Empty == [open |-> <<C!D("root", <<>>, <<>>)>>, args |-> <<>>, apart |-> TRUE]

Init ==
    /\ size = 0
    /\ want = Empty
    /\ \/ task = "url" /\ text \in UrlSeeds
       \/ task = "escape" /\ text = <<>>
       \/ task = "json" /\ text \in JsonSeeds
       \/ task = "conf" /\ text = <<>>
       \/ task = "vhost" /\ text = <<>>

-----------------------------------------------------------------------------
(* Growing *)

Grow(t, max, piece) ==
    /\ task = t /\ size < max
    /\ text' = text \o piece
    /\ size' = size + 1
    /\ UNCHANGED task

(* Characters go on only where the machine is still alive. *)
UrlChar ==
    /\ task = "url"
    /\ U!Scan(LAMBDA s, i : U!parse_url_char(s, text[i]), "s_req_spaces_before_url", 1, Len(text)) # "s_dead"
    /\ \E c \in UrlChars : Grow("url", MaxUrl, <<c>>)
    /\ UNCHANGED want
EscapeChar ==
    /\ \E c \in EscapeChars : Grow("escape", MaxEscape, <<c>>)
    /\ UNCHANGED want
JsonSymbol ==
    /\ task = "json"
    /\ J!OnePass(text, J!NewPass(1, <<>>)).ok
    /\ \E c \in JsonSymbols : Grow("json", MaxJson, <<c>>)
    /\ UNCHANGED want

(* A word in one of the ways it can be written, and the word. *)
Words == { <<<<"w">>, <<"w">>>>, <<<<"v", "#", "}", "#">>, <<"v", "#", "}", "#">>>>,
           <<<<C!DQ, "w", " ", ";", C!DQ>>, <<"w", " ", ";">>>>,
           <<<<C!SQ, "{", C!DQ, C!SQ>>, <<"{", C!DQ>>>>, <<<<C!DQ, C!DQ>>, <<>>>> }
Comment == <<"#", "x", C!DQ, "{", "LF">>

Apart(b) == want' = [want EXCEPT !.apart = b]
Ended(d) == [want EXCEPT !.open[Len(want.open)].directives = @ \o d, !.args = <<>>, !.apart = TRUE]
Head_ == C!Directive(want.args[1], Tail(want.args), <<>>)

ConfWord ==
    /\ want.apart
    /\ \E w \in Words :
          /\ w[2] # <<>> \/ want.args # <<>>
          /\ Grow("conf", MaxConf, w[1])
          /\ want' = [want EXCEPT !.args = IF w[2] = <<>> THEN @ ELSE Append(@, w[2]), !.apart = FALSE]
ConfBlank ==
    \/ /\ \E b \in {" ", "LF"} : Grow("conf", MaxConf, <<b>>)
       /\ Apart(TRUE)
    \/ /\ want.apart
       /\ Grow("conf", MaxConf, Comment)
       /\ Apart(TRUE)
ConfDirective ==
    /\ want.args # <<>>
    /\ Grow("conf", MaxConf, <<";">>)
    /\ want' = Ended(<<Head_>>)
ConfOpen ==
    /\ want.args # <<>>
    /\ Grow("conf", MaxConf, <<"{">>)
    /\ want' = [want EXCEPT !.open = Append(@, Head_), !.args = <<>>, !.apart = TRUE]
ConfClose ==
    /\ want.args = <<>> /\ want.apart /\ Len(want.open) > 1
    /\ Grow("conf", MaxConf, <<"}">>)
    /\ want' = [want EXCEPT !.open = [i \in 1..Len(@) - 1 |->
                                         IF i = Len(@) - 1 THEN [@[i] EXCEPT !.directives = Append(@, Last(want.open))] ELSE @[i]]]
ConfInclude ==
    /\ want.args = <<>> /\ want.apart
    /\ Grow("conf", MaxConf, <<"include", " ", "f", ";">>)
    /\ want' = Ended(<<C!D("i", <<>>, <<>>)>>)

(* Old and new directives of a vhost. *)
On == <<"on">>
Leaf(n) == C!D(n, <<On>>, <<>>)
VhostDirectives ==
    { Leaf("refer"), Leaf("refer_play"), C!D("refer", <<>>, <<Leaf("enabled")>>),
      C!D("mr", <<>>, <<Leaf("enabled"), Leaf("latency")>>), C!D("mr", <<>>, <<>>),
      Leaf("publish_1stpkt_timeout"), Leaf("publish_normal_timeout"), Leaf("gop_cache"), Leaf("mode"),
      Leaf("forward"), C!D("forward", <<>>, <<Leaf("enabled")>>),
      C!D("nack", <<>>, <<Leaf("enabled"), Leaf("no_copy")>>), C!D("twcc", <<>>, <<Leaf("enabled")>>),
      C!D("rtc", <<>>, <<Leaf("aac"), C!D("bframe", <<<<"keep">>>>, <<>>)>>), C!D("rtc", <<>>, <<>>),
      C!D("http", <<>>, <<>>), C!D("http_remux", <<>>, <<Leaf("hstrs"), Leaf("x")>>), Leaf("x") }
VhostDirective ==
    /\ \E d \in VhostDirectives : Grow("vhost", MaxVhost, <<d>>)
    /\ UNCHANGED want

Next ==
    \/ UrlChar \/ EscapeChar \/ JsonSymbol
    \/ ConfWord \/ ConfBlank \/ ConfDirective \/ ConfOpen \/ ConfClose \/ ConfInclude
    \/ VhostDirective

Spec == Init /\ [][Next]_vars

-----------------------------------------------------------------------------
(* Urls *)

(* The positions of a field, and the fields in the order of a url. *)
Places(u, f) == IF f \in u.set THEN u.off[f] + 1 .. u.off[f] + u.len[f] ELSE {}
InOrder == <<"schema", "userinfo", "host", "port", "path", "query", "fragment">>

(* The fields http_parser_parse_url finds lie inside the url, in order,    *)
(* apart from each other, none of them empty, and what is between them is  *)
(* punctuation only: no character of a url belongs to two fields or gets   *)
(* lost.                                                                   *)
UrlFieldsTile ==
    task = "url" =>
        \A u \in {U!http_parser_parse_url(text)} : \A taken \in {UNION {Places(u, f) : f \in u.set}} :
            u.set # {} =>
                /\ taken \subseteq 1..Len(text)
                /\ \A f \in u.set : u.len[f] > 0
                /\ \A i, j \in 1..7 : i < j =>
                        \A p \in Places(u, InOrder[i]), q \in Places(u, InOrder[j]) : p < q
                /\ \A p \in 1..Len(text) \ taken :
                        text[p] \in {Colon, U!Slash, U!Quest, U!Hash, U!At, U!Open, U!Close}

(* A url says where the connection goes: a host that was accepted holds no *)
(* character that ends a host, whatever came before it.                    *)
HostIsHost ==
    task = "url" =>
        \A u \in {U!http_parser_parse_url(text)} : \A h \in {U!get_uri_field(text, u, "host")} :
            "host" \in u.set =>
                /\ h # <<>>
                /\ \A i \in 1..Len(h) : h[i] \notin {U!Slash, U!Quest, U!Hash, U!At, U!Open, U!Close}
                /\ Colon \in Range(h) => u.off["host"] > 0 /\ text[u.off["host"]] = U!Open

(***************************************************************************)
(* Every character of a url belongs to one field or separates two, and the *)
(* host, which says where the connection goes, holds none that ends a      *)
(* host: no field begins or ends elsewhere for http_parser_parse_url than  *)
(* for whoever reads the url next.                                         *)
(***************************************************************************)
UrlFields == UrlFieldsTile /\ HostIsHost

(* escape and unescapse are inverse to each other, in the modes where      *)
(* every text can be written.                                              *)
EscapeRoundTrip ==
    task = "escape" =>
        /\ \A mode \in {"path", "segment", "user", "query", "fragment"} :
              U!unescapse(U!escape(text, mode), mode) = [ok |-> TRUE, value |-> text]
        /\ \A mode \in {"host", "zone"} :
              \A r \in {U!unescapse(U!escape(text, mode), mode)} : r.ok => r.value = text

(* A text that was escaped stays in its part of the url: put into a path   *)
(* and a query it does not end them early.                                 *)
EscapeStaysInside ==
    task = "escape" =>
        \A path \in {<<U!Slash>> \o U!escape(text, "path")}, query \in {<<a_>> \o U!escape(text, "query")} :
        \A url \in {<<a_, Colon, U!Slash, U!Slash, a_>> \o path \o <<U!Quest>> \o query} :
        \A u \in {U!http_parser_parse_url(url)} :
            U!get_uri_field(url, u, "path") = path /\ U!get_uri_field(url, u, "query") = query

(* A query of escaped keys and values gives the values back by their keys. *)
QueryPairsKept ==
    task = "escape" =>
        \A i \in 1..Len(text) :
            \A k \in {U!escape(SubSeq(text, 1, i), "query")}, v \in {U!escape(SubSeq(text, i + 1, Len(text)), "query")} :
            \A q \in {U!srs_parse_query_string(k \o <<U!Equal>> \o v \o <<U!Amp, 98, U!Equal>> \o k)},
               r \in {U!srs_parse_query_string(<<98, U!Equal>> \o k \o <<U!Amp>> \o k \o <<U!Equal>> \o v)} :
                /\ DOMAIN q = {k, <<98>>} /\ q[k] = v /\ q[<<98>>] = k
                /\ r = q

(***************************************************************************)
(* What escape writes, unescapse reads back, in every mode; it stays in    *)
(* its part of the url, and in a query it stays with its key.              *)
(***************************************************************************)
EscapeSafe == EscapeRoundTrip /\ EscapeStaysInside /\ QueryPairsKept

-----------------------------------------------------------------------------
(* JSON *)

IsJson == task = "json" /\ text # <<>> /\ J!FirstPass(text).ok

(* The second pass of json_parse_ex never writes past what the first one   *)
(* counted, accepts what the first one accepted, and uses every value that *)
(* was allocated.                                                          *)
PassesAgree ==
    IsJson => \A z \in {J!SecondPass(text)} :
                  /\ ~z.over /\ z.ok /\ J!Has(z, "done")
                  /\ z.alloc = Len(z.nodes) + 1
                  /\ \A i \in DOMAIN z.nodes :
                        z.nodes[i].type \in {"array", "object", "string"} =>
                            z.nodes[i].length = z.nodes[i].capacity /\ z.nodes[i].names = z.nodes[i].room

(* Texts that dumps could have written itself: short numbers, one member at most. *)
Plain(t) ==
    /\ Range(t) \cap (J!Blanks \cup {J!B, ".", "e"}) = {}
    /\ \A i \in 1..Len(t) - 1 :
          /\ t[i] = "," => t[i + 1] \notin {"]", "}"}
          /\ ~(J!IsDigit(t[i]) /\ J!IsDigit(t[i + 1]))
          /\ t[i] = "-" => t[i + 1] = "9"
    /\ t # <<>> => Last(t) # "-"
    /\ Cardinality({i \in DOMAIN t : t[i] = ":"}) <= 1

(* A value and all the values in it. *)
RECURSIVE Values(_)
Values(a) ==
    {a} \cup IF a.t \in {"object", "array"}
             THEN UNION {Values(IF a.t = "array" THEN a.v[i] ELSE a.v[i].value) : i \in DOMAIN a.v} ELSE {}
Objects(a) == {o \in Values(a) : o.t = "object"}

(* No name of a member needs an escape. *)
PlainNames(a) == \A o \in Objects(a) : \A i \in DOMAIN o.v : Range(o.v[i].name) \cap {J!Q, J!B, "LF"} = {}

(* The doubles are small enough for json_int_t to hold what is before the  *)
(* point, and for tmp to hold the text.                                    *)
SmallNumbers(a) == \A d \in Values(a) : d.t = "number" => Len(J!Hundredths(d.v)) <= 6

(* A double that dumps wrote: the same one, or the nearest with two places. *)
Nearest(d, old) ==
    LET k   == -old.x - 2
        far == d.m * 10^(d.x + 2) * 10^k - old.m
    IN  /\ d.neg = old.neg
        /\ IF k <= 0 THEN d = old ELSE d.x >= -2 /\ 2 * (IF far < 0 THEN -far ELSE far) <= 10^k

(* A value with its doubles rounded. *)
RECURSIVE Rounded(_, _)
Rounded(a, old) ==
    /\ a.t = old.t
    /\ CASE a.t = "number" -> Nearest(a.v, old.v)
         [] a.t = "array" -> /\ DOMAIN a.v = DOMAIN old.v
                             /\ \A i \in DOMAIN a.v : Rounded(a.v[i], old.v[i])
         [] a.t = "object" -> /\ DOMAIN a.v = DOMAIN old.v
                              /\ \A i \in DOMAIN a.v : /\ a.v[i].name = old.v[i].name
                                                       /\ Rounded(a.v[i].value, old.v[i].value)
         [] OTHER -> a.v = old.v

(* What loads made of a text, dumps writes so that loads makes the same of *)
(* it, but for the places of a double behind the second; and an object     *)
(* never holds two members of one name.                                    *)
JsonRoundTrip ==
    IsJson => \A a \in {J!loads(text)} :
                  /\ PlainNames(a) /\ SmallNumbers(a) => Rounded(J!loads(J!dumps(a)), a)
                  /\ \A o \in Objects(a) : \A i, j \in DOMAIN o.v : o.v[i].name = o.v[j].name => i = j

(* A text without blanks, escapes and doubles comes back from dumps as it was. *)
JsonSameText ==
    IsJson /\ Plain(text) => J!dumps(J!loads(text)) = text

(***************************************************************************)
(* json_parse_ex reads a text twice, first to count and then to fill: the  *)
(* passes agree on every value, no write passes what was counted, and the  *)
(* values that SrsJsonAny keeps are the ones of the text for whoever dumps *)
(* and loads them again, doubles to two places.                            *)
(***************************************************************************)
JsonFaithful == PassesAgree /\ JsonRoundTrip /\ JsonSameText

-----------------------------------------------------------------------------
(* Configuration *)

(***************************************************************************)
(* A configuration file gives the tree that was written, however words are *)
(* quoted, spaced and commented; a file that ends inside a directive or a  *)
(* block is refused.                                                       *)
(***************************************************************************)
ConfigAsWritten ==
    task = "conf" =>
        \A c \in {C!parse_buffer(text)} :
            IF want.args = <<>> /\ want.apart /\ Len(want.open) = 1 THEN c.err = "" /\ c.open[1] = want.open[1] ELSE c.err = "invalid"

OldNames == {<<n>> : n \in {"http", "refer_play", "refer_publish", "mr", "publish_1stpkt_timeout",
                            "publish_normal_timeout", "gop_cache", "mode", "nack", "twcc"}}

(* What the rewriting makes of the vhost, where that is defined. *)
NewVhost == {x \in {C!TransformVhost(C!D("vhost", <<>>, text))} : ~x.undefined}

(* The rewriting of a vhost leaves no old directive behind, and rewriting  *)
(* what it left changes nothing: a configuration in the new style is kept. *)
OldStyleGone ==
    task = "vhost" =>
        \A new \in NewVhost : \A ds \in {new.dir.directives} :
            /\ \A i \in DOMAIN ds :
                  /\ ds[i].name \notin OldNames
                  /\ ds[i].name = <<"refer">> => ds[i].directives # <<>>
                  /\ ds[i].name = <<"forward">> => ds[i].args = <<>>
            /\ C!TransformVhost(new.dir) = new

(* The directive n of the first block of that name is on. *)
Says(ds, block, n) ==
    \E b \in Range(C!get(ds, block)) : \E x \in Range(C!get(b.directives, n)) : C!arg0(x) = On

(* No setting gets lost: what an old directive said is found where the     *)
(* getters of the new style look for it.                                   *)
SettingsKept ==
    task = "vhost" =>
        \A new \in NewVhost : \A d \in Range(text) :
            /\ \A to \in {C!Target(d.name)} :
                  to # <<>> /\ d.directives = <<>> => Says(new.dir.directives, to[1], to[2])
            /\ \A move \in Range(C!Moved(d.name)) :
                  C!get(d.directives, move[1]) # <<>> => Says(new.dir.directives, C!MovedTo(d.name), move[2])

(***************************************************************************)
(* srs_config_transform_vhost erases from the list it walks and inserts    *)
(* into it: in the end no directive of the old style is left, no setting   *)
(* is lost on the way, and a second rewriting changes nothing.             *)
(***************************************************************************)
VhostRewritten == OldStyleGone /\ SettingsKept
=============================================================================
