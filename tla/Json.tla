-------------------------------- MODULE Json --------------------------------
(***************************************************************************)
(* Json: the two-pass parser json_parse_ex and the classes SrsJsonAny,     *)
(* SrsJsonObject and SrsJsonArray of protocol/srs_protocol_json.cpp.       *)
(*                                                                         *)
(* The first pass checks the text and counts what each value needs, the    *)
(* second walks over the same text, allocates by those counts and fills    *)
(* in.  A text is a sequence of symbols; "true", "false", "null" and a     *)
(* \uXXXX escape ("u1" to "u4", by the bytes it becomes) are one symbol    *)
(* each, "EOF" is what the loop sees at the end.  Comments are off, as     *)
(* json_parse leaves them; the allocator never fails.  A double is the     *)
(* decimal its text says: the bits a double cuts off are left out, what    *)
(* dumps cuts off is not.                                                  *)
(***************************************************************************)
EXTENDS Text

CONSTANT IntBits    \* bits of json_int_t (int64_t)

Q == "quote"
B == "backslash"
Blanks == {" ", "LF"}
Digits == <<"0", "1", "2", "3", "4", "5", "6", "7", "8", "9">>
DigitValue == [c \in ToSet(Digits) |-> CHOOSE d \in 0..9 : Digits[d + 1] = c]
IsDigit(c) == c \in DOMAIN DigitValue
NumberChars == DOMAIN DigitValue \cup {"+", "-", "e", "."}
UtfBytes == [u1 |-> 1, u2 |-> 2, u3 |-> 3, u4 |-> 4]

(* int64_t arithmetic. *)
Wrap(n) == ((n + 2^(IntBits - 1)) % 2^IntBits) - 2^(IntBits - 1)

(* srs_int2str. *)
IntText(n) ==
    LET digits[m \in Nat] == IF m < 10 THEN <<Digits[m + 1]>> ELSE Append(digits[m \div 10], Digits[(m % 10) + 1])
    IN  IF n < 0 THEN <<"-">> \o digits[-n] ELSE digits[n]

(* A double: m * 10^x with a sign of its own, m without zeros at its end. *)
Decimal(neg, m, x) ==
    LET strip[n \in Nat] == IF n = 0 \/ n % 10 # 0 THEN 0 ELSE 1 + strip[n \div 10]
    IN  [neg |-> neg, m |-> m \div 10^strip[m], x |-> IF m = 0 THEN 0 ELSE x + strip[m]]

(* What an escaped character stands for, and how it is written. *)
Unescaped(c) ==
    CASE c = "n" -> <<"LF">>
      [] c \in DOMAIN UtfBytes -> IF c = "u1" THEN <<"a">> ELSE [i \in 1..UtfBytes[c] |-> "byte"]
      [] OTHER -> <<c>>
Quoted(c) == CASE c \in {Q, B} -> <<B, c>> [] c = "LF" -> <<B, "n">> [] OTHER -> <<c>>

-----------------------------------------------------------------------------
(* json_parse_ex.  z is its state: the values by order of allocation, top, *)
(* root and alloc as indices (0 is none), the flags and the string read;   *)
(* `over` says that the second pass wrote past what the first one counted. *)

NewPass(pass, nodes) ==
    [pass |-> pass, nodes |-> nodes, top |-> 0, root |-> 0, alloc |-> 1, flags |-> {"seek_value"},
     string |-> <<>>, num_digits |-> 0, num_fraction |-> 0, num_e |-> 0, skip |-> FALSE, ok |-> TRUE, over |-> FALSE]

Has(z, f)   == f \in z.flags
Set(z, fs)  == [z EXCEPT !.flags = @ \cup fs]
Clear(z, fs) == [z EXCEPT !.flags = @ \ fs]
Failed(z)   == [z EXCEPT !.ok = FALSE]
Top(z)      == z.nodes[z.top]
Second(z)   == z.pass = 2
Within(z, cond) == [z EXCEPT !.over = @ \/ (Second(z) /\ ~cond)]

(* Mutant: the length of a container is not set to zero for the second pass. *)
Bug_LengthKept(z, type) ==
    IF ~Second(z)
    THEN LET i == Len(z.nodes) + 1
         IN  [z EXCEPT !.nodes = Append(@, [type |-> type, parent |-> z.top, length |-> 0, names |-> 0, v |-> 0,
                                            capacity |-> 0, room |-> 0, items |-> <<>>]),
                       !.top = i, !.root = IF @ = 0 THEN i ELSE @]
    ELSE LET i == z.alloc
         IN  [z EXCEPT !.top = i, !.alloc = i + 1, !.root = IF @ = 0 THEN i ELSE @,
                       !.nodes[i].capacity = z.nodes[i].length, !.nodes[i].room = z.nodes[i].names]

(* new_value: a value of its own in the first pass; in the second the one  *)
(* the first allocated here, with room for what it counted.                *)
new_value(z, type) ==
    IF ~Second(z)
    THEN LET i == Len(z.nodes) + 1
         IN  [z EXCEPT !.nodes = Append(@, [type |-> type, parent |-> z.top, length |-> 0, names |-> 0, v |-> 0,
                                            capacity |-> 0, room |-> 0, items |-> <<>>]),
                       !.top = i, !.root = IF @ = 0 THEN i ELSE @]
    ELSE LET i == z.alloc
         IN  [z EXCEPT !.top = i, !.alloc = i + 1, !.root = IF @ = 0 THEN i ELSE @,
                       !.nodes[i].capacity = z.nodes[i].length, !.nodes[i].length = 0,
                       !.nodes[i].room = z.nodes[i].names, !.nodes[i].names = 0]

(* string_add in the string or the name that is being read. *)
string_add(z, text) ==
    LET s == z.string \o text
        y == [z EXCEPT !.string = s]
    IN  IF Top(z).type = "string" THEN Within(y, Len(s) <= Top(z).capacity)
        ELSE Within(y, Top(z).names + Len(s) + 1 <= Top(z).room)

(* The flag_next part: the value is complete and handed to its parent. *)
NextValue(z) ==
    LET y == Set(Clear(z, {"next"}), {"need_comma"})
        p == Top(z).parent
        w == Within(y, z.nodes[p].length < z.nodes[p].capacity)
    IN  IF p = 0 THEN Set(y, {"done"})
        ELSE [w EXCEPT !.flags = IF z.nodes[p].type = "array" THEN @ \cup {"seek_value"} ELSE @,
                       !.nodes[p].length = @ + 1,
                       !.nodes[p].items = IF ~Second(z) THEN @
                                          ELSE IF z.nodes[p].type = "array" THEN Append(@, [name |-> <<>>, value |-> z.top])
                                          ELSE [@ EXCEPT ![Len(@)].value = z.top],
                       !.top = p]

(* A quote ends a string: a value, or the name of a member. *)
EndString(z) ==
    LET y == Clear(z, {"string"})
        n == Len(z.string)
    IN  IF Top(z).type = "string"
        THEN NextValue([Within(y, n <= Top(z).capacity)
                            EXCEPT !.nodes[z.top].length = n, !.nodes[z.top].v = z.string])
        ELSE Set([Within(y, Top(z).length < Top(z).capacity /\ Top(z).names + n + 1 <= Top(z).room)
                      EXCEPT !.nodes[z.top].names = @ + n + 1,
                             !.nodes[z.top].items = IF Second(z) THEN Append(@, [name |-> z.string, value |-> 0]) ELSE @],
                 {"seek_value", "need_colon"})

InString(z, b) ==
    CASE b = "EOF" -> Failed(z)
      [] Has(z, "escaped") -> string_add(Clear(z, {"escaped"}), Unescaped(b))
      [] b = B -> Set(z, {"escaped"})
      [] b = Q -> EndString(z)
      [] OTHER -> string_add(z, <<b>>)

(* flag_done: the root is complete. *)
Done(z, b) == IF b \in Blanks \cup {"EOF"} THEN z ELSE Failed(z)

(* A digit of a number. *)
NumberDigit(z, b) ==
    LET y == [z EXCEPT !.num_digits = @ + 1]
    IN  CASE Has(z, "num_e") -> Set([y EXCEPT !.num_e = 10 * @ + DigitValue[b]], {"num_e_got_sign"})
          [] Top(z).type = "double" -> [y EXCEPT !.num_fraction = Wrap(10 * @ + DigitValue[b])]
          [] Has(z, "num_zero") -> Failed(z)
          [] OTHER -> [y EXCEPT !.flags = IF y.num_digits = 1 /\ b = "0" THEN @ \cup {"num_zero"} ELSE @,
                                !.nodes[z.top].v = Wrap(10 * @ + DigitValue[b])]

(* The start of a value. *)
StartValue(z, b) ==
    LET y == Clear(z, {"seek_value"})
        number == Clear([new_value(y, "integer") EXCEPT !.num_digits = 0, !.num_fraction = 0, !.num_e = 0],
                        {"num_negative", "num_e", "num_e_got_sign", "num_e_negative", "num_zero"})
    IN  CASE b = "{" -> new_value(y, "object")
          [] b = "[" -> Set(new_value(y, "array"), {"seek_value"})
          [] b = Q -> Set([new_value(y, "string") EXCEPT !.string = <<>>], {"string"})
          [] b \in {"true", "false"} ->
                LET w == new_value(y, "boolean") IN NextValue([w EXCEPT !.nodes[w.top].v = (b = "true")])
          [] b = "null" -> NextValue(new_value(y, "null"))
          [] (IsDigit(b) \/ b = "-") /\ Second(z) -> [new_value(y, "integer") EXCEPT !.skip = TRUE]
          [] IsDigit(b) -> NumberDigit(number, b)
          [] b = "-" -> Set(number, {"num_negative"})
          [] OTHER -> Failed(z)

(* flag_seek_value: what may come before a value. *)
SeekValue(z, b) ==
    CASE b \in Blanks -> z
      [] b = "]" -> IF z.top # 0 /\ Top(z).type = "array"
                    THEN NextValue(Clear(z, {"need_comma", "seek_value"})) ELSE Failed(z)
      [] Has(z, "need_comma") -> IF b = "," THEN Clear(z, {"need_comma"}) ELSE Failed(z)
      [] Has(z, "need_colon") -> IF b = ":" THEN Clear(z, {"need_colon"}) ELSE Failed(z)
      [] OTHER -> StartValue(z, b)

(* Between the members of an object. *)
InObject(z, b) ==
    CASE b \in Blanks -> z
      [] b = Q -> IF Has(z, "need_comma") THEN Failed(z) ELSE Set([z EXCEPT !.string = <<>>], {"string"})
      [] b = "}" -> NextValue(Clear(z, {"need_comma"}))
      [] b = "," /\ Has(z, "need_comma") -> Clear(z, {"need_comma"})
      [] OTHER -> Failed(z)

Outside(z, b) ==
    CASE Has(z, "done") -> Done(z, b)
      [] Has(z, "seek_value") -> SeekValue(z, b)
      [] OTHER -> InObject(z, b)

(* u.dbl before its exponent: the integer part and what is behind the point. *)
Dbl(z) ==
    LET k == IF Top(z).type = "double" THEN z.num_digits ELSE 0
        n == Top(z).v * 10^k + z.num_fraction
    IN  Decimal(n < 0, IF n < 0 THEN -n ELSE n, -k)

(* The end of a number, with the character behind it (flag_reproc). *)
EndNumber(z, b) ==
    LET e == IF Has(z, "num_e_negative") THEN -z.num_e ELSE z.num_e
        v == Top(z).v
        u == CASE Top(z).type = "integer" -> v
               [] Has(z, "num_e") -> Decimal(v.neg, v.m, v.x + e)
               [] OTHER -> Dbl(z)
        n == IF ~Has(z, "num_negative") THEN u
             ELSE IF Top(z).type = "integer" THEN Wrap(-u) ELSE [u EXCEPT !.neg = ~@]
    IN  IF Top(z).type = "double" /\ z.num_digits = 0 THEN Failed(z)
        ELSE Outside(NextValue([z EXCEPT !.nodes[z.top].v = n]), b)

InNumber(z, b) ==
    CASE IsDigit(b) -> NumberDigit(z, b)
      [] b \in {"+", "-"} /\ Has(z, "num_e") /\ ~Has(z, "num_e_got_sign") ->
            Set(z, {"num_e_got_sign"} \cup IF b = "-" THEN {"num_e_negative"} ELSE {})
      [] b = "." /\ Top(z).type = "integer" ->
            IF z.num_digits = 0 THEN Failed(z)
            ELSE [z EXCEPT !.nodes[z.top].type = "double", !.num_digits = 0]
      [] b = "e" /\ ~Has(z, "num_e") ->
            IF Top(z).type = "double" /\ z.num_digits = 0 THEN Failed(z)
            ELSE [Set(Clear(z, {"num_zero"}), {"num_e"})
                      EXCEPT !.nodes[z.top].type = "double", !.nodes[z.top].v = Dbl(z), !.num_digits = 0]
      [] OTHER -> EndNumber(z, b)

(* One turn of the loop; the second pass skips numbers. *)
JsonChar(z, b) ==
    CASE ~z.ok -> z
      [] Has(z, "string") -> InString(z, b)
      [] z.skip -> IF b \in NumberChars THEN z ELSE Outside(NextValue([z EXCEPT !.skip = FALSE]), b)
      [] z.top # 0 /\ z.flags \cap {"done", "seek_value"} = {} /\ Top(z).type \in {"integer", "double"} -> InNumber(z, b)
      [] OTHER -> Outside(z, b)

OnePass(text, z) == Scan(LAMBDA y, i : JsonChar(y, text[i]), z, 1, Len(text))

FirstPass(text)  == OnePass(text \o <<"EOF">>, NewPass(1, <<>>))
SecondPass(text) == OnePass(text \o <<"EOF">>, NewPass(2, FirstPass(text).nodes))

-----------------------------------------------------------------------------
(* SrsJsonAny *)

(* SrsJsonObject::set: the key moves to the end with its new value. *)
object_set(properties, key, value) ==
    Append(SelectSeq(properties, LAMBDA p : p.name # key), [name |-> key, value |-> value])

(* srs_json_parse_tree: the values a value contains come after it. *)
srs_json_parse_tree(nodes, root) ==
    LET ValueOf[i \in 1..Len(nodes)] ==
            LET n == nodes[i]
            IN  CASE n.type = "array" -> [t |-> "array", v |-> [j \in 1..n.length |-> ValueOf[n.items[j].value]]]
                  [] n.type = "object" ->
                        [t |-> "object", v |-> Scan(LAMBDA ps, j : object_set(ps, n.items[j].name, ValueOf[n.items[j].value]),
                                                    <<>>, 1, n.length)]
                  [] n.type = "double" -> [t |-> "number", v |-> n.v]
                  [] OTHER -> [t |-> n.type, v |-> n.v]
    IN  ValueOf[root]

(* SrsJsonAny::loads: the value, or t = "none". *)
loads(text) ==
    IF text = <<>> \/ ~FirstPass(text).ok THEN [t |-> "none", v |-> 0]
    ELSE LET z == SecondPass(text) IN srs_json_parse_tree(z.nodes, z.root)

(* A double times 100, rounded: its digits. *)
Hundredths(d) ==
    LET digits == IntText(d.m)
        drop   == -d.x - 2
    IN  IF d.m = 0 \/ drop > Len(digits) THEN <<"0">>
        ELSE IF drop <= 0 THEN digits \o [i \in 1..-drop |-> "0"]
        ELSE IntText((d.m + 5 * 10^(drop - 1)) \div 10^drop)

(* snprintf with "%.2f" into tmp, which has room for TmpChars characters. *)
TmpChars == 21
NumberText(d) ==
    LET h == Hundredths(d)
        p == [i \in 1..3 - Len(h) |-> "0"] \o h
        n == Len(p)
        t == (IF d.neg THEN <<"-">> ELSE <<>>) \o SubSeq(p, 1, n - 2) \o <<".">> \o SubSeq(p, n - 1, n)
    IN  SubSeq(t, 1, Min({TmpChars, Len(t)}))

json_serialize_string(s) == <<Q>> \o FlattenSeq([i \in DOMAIN s |-> Quoted(s[i])]) \o <<Q>>

RECURSIVE dumps(_)

(* SrsJsonAny::dumps; the names of members are not escaped. *)
dumps(a) ==
    LET Joined(texts) == FlattenSeq([i \in DOMAIN texts |-> IF i = 1 THEN texts[i] ELSE <<",">> \o texts[i]])
    IN  CASE a.t = "string" -> json_serialize_string(a.v)
          [] a.t = "boolean" -> <<IF a.v THEN "true" ELSE "false">>
          [] a.t = "integer" -> IntText(a.v)
          [] a.t = "number" -> NumberText(a.v)
          [] a.t = "object" ->
                <<"{">> \o Joined([i \in DOMAIN a.v |-> <<Q>> \o a.v[i].name \o <<Q, ":">> \o dumps(a.v[i].value)])
                \o <<"}">>
          [] a.t = "array" -> <<"[">> \o Joined([i \in DOMAIN a.v |-> dumps(a.v[i])]) \o <<"]">>
          [] OTHER -> <<"null">>

(* get_property and the ensure_property_... of a type. *)
get_property(a, name) ==
    IF \E i \in DOMAIN a.v : a.v[i].name = name
    THEN a.v[Min({i \in DOMAIN a.v : a.v[i].name = name})].value ELSE [t |-> "none", v |-> 0]
ensure_property(a, name, type) ==
    LET p == get_property(a, name) IN IF p.t = type THEN p ELSE [t |-> "none", v |-> 0]
=============================================================================
