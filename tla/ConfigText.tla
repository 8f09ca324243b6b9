----------------------------- MODULE ConfigText -----------------------------
(***************************************************************************)
(* The text of the configuration: read_token and parse_conf of             *)
(* SrsConfDirective, with the files an include names.  A text is a         *)
(* sequence of symbols; a symbol that is no blank, quote, brace, ";" or    *)
(* "#" is a piece of a word.                                               *)
(***************************************************************************)
EXTENDS Config

CONSTANT Files      \* the files that can be read: a function from words to texts

DQ == "double"
SQ == "single"
is_common_space(ch) == ch \in {" ", "LF"}

-----------------------------------------------------------------------------
(* The state of the parser of one file.  `open` holds the directives whose *)
(* block is being read, the innermost last; open[1] is the one the file is *)
(* read into.  err is "" or why it stopped.                                *)

Beginning(top) ==
    [args |-> <<>>, word |-> <<>>, comment |-> FALSE, quote |-> "", need_space |-> FALSE, last_space |-> TRUE,
     open |-> <<top>>, err |-> ""]

Error(c) == [c EXCEPT !.err = "invalid"]

(* The local variables of read_token, afresh. *)
NextToken(c) ==
    [c EXCEPT !.args = <<>>, !.word = <<>>, !.comment = FALSE, !.quote = "", !.need_space = FALSE, !.last_space = TRUE]

AddTo(c, d) == [c EXCEPT !.open[Len(c.open)].directives = Append(@, d)]

RECURSIVE ParseInto(_, _)

(* An include: each file is read into the directive it stands in. *)
Include(c, files) ==
    LET One(x, i) ==
            IF x.err # "" THEN x
            ELSE IF files[i] \notin DOMAIN Files THEN Error(x)
            ELSE LET r == ParseInto(Files[files[i]], Last(x.open))
                 IN  IF r.err # "" THEN [x EXCEPT !.err = r.err] ELSE [x EXCEPT !.open[Len(x.open)] = r.open[1]]
    IN  IF files = <<>> THEN Error(c) ELSE Scan(One, c, 1, Len(files))

(* Mutant: a block that is opened hides the directives already in it. *)
Bug_LostBlock(c, block) ==
    LET d == Directive(c.args[1], Tail(c.args), <<>>)
    IN  IF c.args = <<>> THEN Error(c)
        ELSE IF block THEN NextToken([c EXCEPT !.open = Append([@ EXCEPT ![Len(@)].directives = <<>>], d)])
        ELSE NextToken(AddTo(c, d))

(* parse_conf, once read_token has returned a directive or the head of a block. *)
EndDirective(c, block) ==
    IF c.args = <<>> THEN [c EXCEPT !.err = "exception"]
    ELSE LET d == Directive(c.args[1], Tail(c.args), <<>>)
         IN  IF c.args[1] = W("include") THEN NextToken(Include(c, Tail(c.args)))
             ELSE IF block THEN NextToken([c EXCEPT !.open = Append(@, d)])
             ELSE NextToken(AddTo(c, d))

(* The end of a block. *)
EndBlock(c) ==
    IF Len(c.open) = 1 THEN Error(c)
    ELSE NextToken(AddTo([c EXCEPT !.open = Front(@)], Last(c.open)))

EndFile(c) ==
    IF c.err = "" /\ (c.args # <<>> \/ ~c.last_space \/ Len(c.open) > 1) THEN Error(c) ELSE c

(* A word is complete; an empty one is dropped. *)
EndWord(c) == [c EXCEPT !.args = IF c.word = <<>> THEN @ ELSE Append(@, c.word), !.word = <<>>]

(* After a quoted word. *)
AfterQuote(c, ch) ==
    CASE is_common_space(ch) -> [c EXCEPT !.last_space = TRUE, !.need_space = FALSE]
      [] ch = ";" -> EndDirective(c, FALSE)
      [] ch = "{" -> EndDirective(c, TRUE)
      [] OTHER -> Error(c)

(* Between words. *)
AfterSpace(c, ch) ==
    CASE is_common_space(ch) -> c
      [] ch \in {";", "{"} -> IF c.args = <<>> THEN Error(c) ELSE EndDirective(c, ch = "{")
      [] ch = "}" -> IF c.args # <<>> THEN Error(c) ELSE EndBlock(c)
      [] ch = "#" -> [c EXCEPT !.comment = TRUE]
      [] ch \in {DQ, SQ} -> [c EXCEPT !.quote = ch, !.last_space = FALSE]
      [] OTHER -> [c EXCEPT !.word = <<ch>>, !.last_space = FALSE]

(* Inside a word. *)
InWord(c, ch) ==
    CASE c.quote # "" /\ ch = c.quote -> [EndWord(c) EXCEPT !.quote = "", !.need_space = TRUE]
      [] c.quote = "" /\ is_common_space(ch) -> [EndWord(c) EXCEPT !.last_space = TRUE]
      [] c.quote = "" /\ ch \in {";", "{"} -> EndDirective(EndWord(c), ch = "{")
      [] OTHER -> [c EXCEPT !.word = Append(@, ch)]

(* One turn of the loop of read_token. *)
ReadChar(c, ch) ==
    CASE c.err # "" -> c
      [] c.comment /\ ch # "LF" -> c
      [] c.need_space -> AfterQuote(c, ch)
      [] c.last_space -> AfterSpace([c EXCEPT !.comment = FALSE], ch)
      [] OTHER -> InWord(c, ch)

(* parse_conf of a file. *)
ParseInto(text, top) == EndFile(Scan(LAMBDA c, i : ReadChar(c, text[i]), Beginning(top), 1, Len(text)))

(* SrsConfig::parse_buffer: a new root. *)
parse_buffer(text) == ParseInto(text, Directive(W("root"), <<>>, <<>>))
=============================================================================
