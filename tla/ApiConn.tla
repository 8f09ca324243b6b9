------------------------------ MODULE ApiConn -------------------------------
(***************************************************************************)
(* What an API connection is made of: the request multiplexer              *)
(* (SrsHttpServeMux, behind SrsHttpCorsMux), the response writer           *)
(* (SrsHttpResponseWriter) and the handlers of app/srs_app_http_api.cpp,   *)
(* as operators on a request r and a writer w.                             *)
(*                                                                         *)
(* A request is [path, options, body, jsonp, keep]: path a                 *)
(* sequence of symbols, body the kind of JSON it carries.  What goes to    *)
(* the client is a sequence of items: <<"head", status, length>>,          *)
(* <<"data">> for a unit of a body, <<"chunk">> for the frame of a chunk   *)
(* and <<"end">> for the last one.                                         *)
(***************************************************************************)
EXTENDS Integers, FiniteSets, SequencesExt

-----------------------------------------------------------------------------
(* SrsHttpResponseWriter *)

(* A writer on a socket that takes `left' more writes before one fails. *)
SrsHttpResponseWriter(left) ==
    [length |-> -1, header_wrote |-> FALSE, status |-> 200, content_length |-> -1, written |-> 0,
     header_sent |-> FALSE, out |-> <<>>, left |-> left, err |-> FALSE]

(* A write to the socket. *)
Send(w, items) ==
    IF w.left = 0 THEN [w EXCEPT !.err = TRUE] ELSE [w EXCEPT !.out = @ \o items, !.left = @ - 1]

write_header(w, code) ==
    IF w.header_wrote THEN w
    ELSE [w EXCEPT !.header_wrote = TRUE, !.status = code, !.content_length = w.length]

send_header(w) ==
    IF w.header_sent THEN w
    ELSE Send([w EXCEPT !.header_sent = TRUE], << <<"head", w.status, w.content_length>> >>)

(* n units are counted against the announced length, and sent. *)
write_units(w, n) ==
    LET t == [w EXCEPT !.written = @ + n]
        over == t.content_length # -1 /\ t.written > t.content_length
        data == [i \in 1..n |-> <<"data">>]
    IN  CASE over -> [t EXCEPT !.err = TRUE]
          [] ~over /\ n = 0 -> t
          [] ~over /\ n # 0 -> Send(t, IF t.content_length # -1 THEN data ELSE << <<"chunk">> >> \o data)

(* A write of n units; the first write decides about the header. *)
write(w, n) ==
    LET sized == IF w.header_wrote \/ w.length # -1 THEN w ELSE [w EXCEPT !.length = n]
        s == send_header(write_header(sized, 200))
    IN  IF w.err THEN w ELSE IF s.err THEN s ELSE write_units(s, n)

final_request(w) ==
    LET s == send_header(write_header(w, 200))
    IN  CASE w.err -> w
          [] ~w.err /\ s.err -> s
          [] ~w.err /\ ~s.err /\ s.content_length = -1 -> Send(s, << <<"end">> >>)
          [] OTHER -> write(s, 0)

set_content_length(w, n) == [w EXCEPT !.length = n]

(* srs_go_http_error: the status text is the body. *)
srs_go_http_error(w, code) == write(write_header(set_content_length(w, 1), code), 1)

-----------------------------------------------------------------------------
(* app/srs_app_http_api.cpp *)

srs_api_response_jsonp(w, callback, data) ==
    LET h == set_content_length(w, data + callback + 2)
        named == IF callback = 0 THEN h ELSE write(h, callback)
    IN  write(write(write(named, 1), data), 1)

srs_api_response_json(w, data) == write(set_content_length(w, data), data)

(* The name of the callback is one unit, or missing. *)
srs_api_response(w, r, data) ==
    IF r.jsonp = "no" THEN srs_api_response_json(w, data)
    ELSE srs_api_response_jsonp(w, IF r.jsonp = "named" THEN 1 ELSE 0, data)

(* The handlers that read no body. *)
SrsMytest(w, r)             == srs_api_response(w, r, 1)
SrsGoApiSelfProcStats(w, r) == srs_api_response(w, r, 2)
SrsHttpNotFoundHandler(w)   == srs_go_http_error(w, 404)

(***************************************************************************)
(* SrsGoApiApi reads the body first.  A body that is not JSON, an empty    *)
(* one included, ends it with success and without a response; JSON that is *)
(* not an object is used through a null pointer (see Service), and so is   *)
(* never passed on to the response.                                        *)
(***************************************************************************)
SrsGoApiApi(w, r) == IF r.body = "object" THEN srs_api_response(w, r, 1) ELSE w

-----------------------------------------------------------------------------
(* SrsHttpServeMux: mux is the set of the patterns that are registered *)

path_match(pattern, path) ==
    IF Last(pattern) # "/" THEN pattern = path ELSE IsPrefix(pattern, path)

(* Mutant: the first match of the map is taken. *)
Bug_FirstMatch(mux, path) ==
    LET m == {p \in mux : path_match(p, path)}
    IN  IF m = {} THEN <<>> ELSE CHOOSE p \in m : \A q \in m : Len(p) <= Len(q)

(* match: the longest pattern; nothing when no pattern fits. *)
match(mux, path) ==
    LET m == {p \in mux : path_match(p, path)}
    IN  IF m = {} THEN <<>> ELSE CHOOSE p \in m : \A q \in m : Len(p) >= Len(q)

(* The pattern of each handler that SrsServer::http_handle registers. *)
Api    == <<"/", "api", "/">>
Mytest == <<"/", "api", "/", "mytest">>
Stats  == <<"/", "api", "/", "v1", "/", "self_proc_stats">>
Patterns == {Api, Mytest, Stats}

(* serve_http, with find_handler; a path with ".." is an error. *)
serve_http(w, r, mux) ==
    LET p == match(mux, r.path)
    IN  CASE Contains(r.path, "..") -> [w EXCEPT !.err = TRUE]
          [] ~Contains(r.path, "..") /\ p = <<>> -> SrsHttpNotFoundHandler(w)
          [] ~Contains(r.path, "..") /\ p = Api -> SrsGoApiApi(w, r)
          [] ~Contains(r.path, "..") /\ p = Mytest -> SrsMytest(w, r)
          [] OTHER -> SrsGoApiSelfProcStats(w, r)

(* SrsHttpCorsMux::serve_http, the CORS headers left out. *)
CorsServe(w, r, mux, enabled) ==
    IF r.options THEN final_request(write_header(set_content_length(w, 0), IF enabled THEN 200 ELSE 405))
    ELSE serve_http(w, r, mux)

(* The body is read by SrsGoApiApi alone. *)
ReadsBody(r, mux) == ~r.options /\ ~Contains(r.path, "..") /\ match(mux, r.path) = Api
=============================================================================
