----------------------------- MODULE MCService ------------------------------
(***************************************************************************)
(* Two processes that may be started with any of these configurations, and *)
(* the requests of an API client.                                          *)
(***************************************************************************)
EXTENDS Service

On  == D("enabled", <<W("on")>>, <<>>)
Off == D("enabled", <<W("off")>>, <<>>)
At8080 == D("listen", <<W("8080")>>, <<>>)
Https(d) == D("https", <<>>, <<d>>)

(* API, HTTPS API and proxy; the API on the port of the stream server, which
   is not there; the HTTPS API without the API and without the proxy. *)
Root(k) ==
    CASE k = "all" -> <<D("http_api", <<>>, <<On, Https(On)>>)>>
      [] k = "reuse" -> <<D("http_server", <<>>, <<On, At8080>>), D("http_api", <<>>, <<On, At8080>>)>>
      [] k = "https" -> <<D("http_api", <<>>, <<Https(On)>>), D("http_proxy", <<>>, <<Off>>)>>

MCFiles ==
    [c \in {"all", "reuse", "https"} |->
        [root |-> Root(c), pid_file |-> IF c \in {"all", "reuse"} THEN "a" ELSE "b", crossdomain |-> c = "all"]]
MCEnv == [x \in {} |-> <<>>]

R(path, options, body, jsonp, keep) ==
    [path |-> path, options |-> options, body |-> body, jsonp |-> jsonp, keep |-> keep]
MCRequests ==
    {R(Api, FALSE, "object", "no", TRUE), R(Append(Api, "x"), FALSE, "object", "named", TRUE),
     R(Api, FALSE, "none", "no", TRUE), R(Api, FALSE, "junk", "no", TRUE), R(Api, FALSE, "other", "no", TRUE),
     R(Mytest, FALSE, "none", "named", TRUE), R(Mytest, FALSE, "object", "no", TRUE),
     R(Mytest, FALSE, "none", "bare", FALSE), R(Stats, FALSE, "none", "no", TRUE),
     R(<<"/", "api">>, FALSE, "none", "no", TRUE), R(<<"/", "..">>, FALSE, "none", "no", TRUE),
     R(Mytest, TRUE, "none", "no", TRUE)}
=============================================================================
