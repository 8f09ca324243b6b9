---------------------------- MODULE MCHttpParser ----------------------------
(* Conversations for the model checking of HttpParser. *)
EXTENDS HttpParser

(* A field: as it is written, the name it is filed under, what its value reads. *)
F(name, canon, value) == [name |-> name, canon |-> canon, value |-> value, reads |-> value]
Host(v)     == F(N_Host, N_Host, v)
host(v)     == F(<<"ho", "st">>, N_Host, v)
Length(v)   == F(N_Length, N_Length, v)
Encoding(v) == F(N_Encoding, N_Encoding, v)
Cookie(v)   == F(N_Cookie, N_Cookie, v)
Connection(v) == F(<<"Connec", "tion">>, <<"Connec", "tion">>, v)
ProxyConnection(v) == F(<<"Proxy-", "Connection">>, <<"Proxy-", "Connection">>, v)
UpgradeTo(v) == F(<<"Up", "grade">>, <<"Up", "grade">>, v)
Other(v)    == F(<<"X-", "z">>, <<"X-", "z">>, v)

V11 == <<" ", "H", "TTP/", "1", ".", "1">>
Request(method, url, fields, body) ==
    [type |-> "request", first |-> <<Beginning(method), RestOf[method], " ">> \o url \o V11,
     fields |-> fields, eol |-> Eol, body |-> body, odd |-> {}]
Response(status, fields, body) ==
    [type |-> "response", first |-> <<"H", "TTP/", "1", ".", "1", " ">> \o status \o <<" ", "text">>,
     fields |-> fields, eol |-> Eol, body |-> body, odd |-> {}]
Odd(m, o) == [m EXCEPT !.odd = o, !.eol = IF "lf" \in o THEN <<"LF">> ELSE @]

Path == <<"/", "a">>
ChunkedBody == <<"1", ";", "e">> \o Eol \o <<"x">> \o Eol \o <<"0">> \o Eol \o Eol
TrailerBody == <<"1">> \o Eol \o <<"x">> \o Eol \o <<"0">> \o Eol \o <<"X-", "z", ":", "t">> \o Eol \o Eol

Get     == Request("GET", <<"z", ":", "/", "/", "a", "/", "b">>, <<host(<<"a">>), Connection(<<"keep-", "alive">>)>>, <<>>)
Closing == Request("GET", Path, <<Host(<<"a", ":", "8">>), Connection(<<"other", ",", " ", "clo", "se">>), Other(<<>>), Other(<<"v">>)>>, <<>>)
Post    == Request("POST", <<"/", "a", "?", "b">>, <<Host(<<"a">>), Length(<<"0", "2", " ">>)>>, <<"CR", "LF">>)
Chunks  == Request("PUT", Path, <<Host(<<"a">>), Encoding(<<"chun", "ked">>)>>, ChunkedBody)
Connect == Request("CONNECT", <<"a", ":", "4">>, <<ProxyConnection(<<"keep-", "alive">>)>>, <<>>)
Folded  == Request("GET", Path, <<Host(<<"a">>), [Other(<<"u", "CR", "LF", " ", "v">>) EXCEPT !.reads = <<"u", " ", "v">>],
                                 [F(<<"X-", "y">>, <<"X-", "y">>, <<"CR", "LF", "Tab", "v">>) EXCEPT !.reads = <<"v">>]>>, <<>>)
WebSocket == Request("GET", Path, <<Host(<<"a">>), Connection(<<"up", "grade">>), UpgradeTo(<<"z">>)>>, <<>>)

Requests ==
    { <<Get, Post>>, <<Closing>>, <<Post, Get>>, <<Chunks, Get>>, <<Connect>>, <<WebSocket>>,
      <<Request("PATCH", Path, <<Host(<<"a">>)>>, <<>>)>>,
      <<Request("CHECKOUT", Path, <<Host(<<"a">>)>>, <<>>)>>,
      \* headers that are refused
      <<Odd(Request("GET", <<"@">>, <<Host(<<"a">>)>>, <<>>), {"bad"})>>,
      <<Odd(Request("GET", Path, <<Host(<<"a">>), Other(<<"v", "NUL">>)>>, <<>>), {"bad"})>>,
      <<Odd(Request("POST", Path, <<Host(<<"a">>), Length(<<"x">>)>>, <<>>), {"bad"})>>,
      <<Odd(Request("POST", Path, <<Host(<<"a">>), Length(<<>>)>>, <<>>), {"bad"})>>,
      <<Odd(Request("POST", Path, <<Host(<<"a">>), Length(<<"6", "4">>)>>, <<>>), {"bad"})>>,
      <<Odd(Request("POST", Path, <<Host(<<"a">>), Length(<<"1">>), Length(<<"2">>)>>, <<>>), {"bad"})>>,
      <<Odd(Request("POST", Path, <<Host(<<"a">>), Encoding(<<"chun", "ked">>), Length(<<"1">>)>>, <<"x">>), {"bad"})>>,
      <<Odd(Request("PUT", Path, <<Host(<<"a">>), Encoding(<<"chun", "ked">>)>>, <<"z">>), {"bad body"})>>,
      <<Odd(Request("GET", Path, <<Host(<<"a">>), Other([i \in 1..30 |-> "v"])>>, <<>>), {"bad"})>>,
      \* and unusual ones
      <<Odd(Request("POST", Path, <<Host(<<"a">>), Length(<<"5", "9">>)>>, <<>>), {"long"})>>,
      <<Odd(Folded, {"folded"})>>,
      <<Odd(Post, {"lf"})>>,
      <<Odd(Request("GET", Path, <<Host(<<"a">>), Other(<<>>)>>, <<>>), {"empty last"})>>,
      <<Odd(Request("PUT", Path, <<Host(<<"a">>), Encoding(<<"Chun", "ked">>)>>, ChunkedBody), {"capital"})>>,
      <<Odd(Request("PUT", Path, <<Host(<<"a">>), Encoding(<<"chun", "ked">>)>>, TrailerBody), {"trailer"})>> }

Responses ==
    { <<Response(<<"2", "0", "0">>, <<Cookie(<<"a">>), Other(<<"v">>), Cookie(<<"b">>)>>, <<"x">>)>>,
      <<Response(<<"2", "0", "0">>, <<Cookie(<<"a">>), Cookie(<<"b">>), Length(<<"1">>)>>, <<"x">>)>>,
      <<Response(<<"1", "0", "1">>, <<Connection(<<"up", "grade">>), UpgradeTo(<<"z">>)>>, <<>>)>>,
      <<Response(<<"2", "0", "4">>, <<Connection(<<"clo", "se">>)>>, <<>>)>>,
      <<Response(<<"2", "0", "0">>, <<Other(<<"v">>)>>, <<>>)>>,
      <<Response(<<"2", "0", "0">>, <<Encoding(<<"chun", "ked">>)>>, ChunkedBody)>> }

MCConversations == Requests \cup Responses
=============================================================================
