------------------------------- MODULE Config -------------------------------
(***************************************************************************)
(* The configuration tree of app/srs_app_config.cpp: the operations of     *)
(* SrsConfDirective, the rewriting of old directives at start              *)
(* (srs_config_transform_vhost) and the getters of SrsConfig.              *)
(*                                                                         *)
(* A directive is [name, args, directives].  A word is a sequence of       *)
(* symbols; a name the program knows is one symbol, so that it is          *)
(* compared and never spelled.  A missing directive is the empty sequence, *)
(* a found one a sequence of one.                                          *)
(***************************************************************************)
EXTENDS Text

CONSTANT Env        \* the environment: a function from variables to words

W(s) == <<s>>
Directive(name, args, directives) == [name |-> name, args |-> args, directives |-> directives]
D(s, args, directives) == Directive(W(s), args, directives)

-----------------------------------------------------------------------------
(* SrsConfDirective *)

arg0(d) == IF d.args = <<>> THEN <<>> ELSE d.args[1]

(* get(name): the first directive of that name in a list. *)
get(directives, name) ==
    LET at == {i \in DOMAIN directives : directives[i].name = name}
    IN  IF at = {} THEN <<>> ELSE <<directives[Min(at)]>>

(* get_or_create(name): a directive that is not there is made at the end. *)
get_or_create(directives, name) ==
    IF get(directives, name) = <<>> THEN Append(directives, Directive(name, <<>>, <<>>)) ELSE directives

(* The list with what F makes of the directive that get_or_create returns. *)
Filled(directives, name, F(_)) ==
    LET ds == get_or_create(directives, name)
    IN  [ds EXCEPT ![Min({i \in DOMAIN ds : ds[i].name = name})] = F(@)]

(* get_or_create(name) in the directives of d, its args replaced. *)
SetArgs(d, name, args) ==
    [d EXCEPT !.directives = Filled(@, name, LAMBDA x : [x EXCEPT !.args = args])]

(* set_arg0 on that directive. *)
set_arg0(d, name, a) ==
    [d EXCEPT !.directives =
        Filled(@, name, LAMBDA x : [x EXCEPT !.args = IF @ = <<>> THEN <<a>> ELSE [@ EXCEPT ![1] = a]])]

(* get(name, arg0) returns nothing when no directive fits. *)
Found(d, name, a) == \E i \in DOMAIN d.directives : d.directives[i].name = name /\ arg0(d.directives[i]) = a

(* remove: the first directive of that name. *)
remove(d, name) ==
    LET at == {i \in DOMAIN d.directives : d.directives[i].name = name}
    IN  IF at = {} THEN d ELSE [d EXCEPT !.directives = RemoveAt(@, Min(at))]

(* srs_directive_equals, apart from the lines they are written on. *)
srs_directive_equals(a, b) == a = b

-----------------------------------------------------------------------------
(* srs_config_transform_vhost *)

PlayShadows ==
    {W("time_jitter"), W("mix_correct"), W("atc"), W("atc_auto"), W("mw_latency"), W("gop_cache"),
     W("queue_length"), W("send_min_interval"), W("reduce_sequence_header")}
ClusterShadows == {W("mode"), W("origin"), W("token_traverse"), W("vhost"), W("debug_srs_upnode")}

(* The block an old directive of a vhost moves to, and its name there. *)
Target(n) ==
    CASE n = W("refer") -> <<W("refer"), W("all")>>
      [] n = W("refer_play") -> <<W("refer"), W("play")>>
      [] n = W("refer_publish") -> <<W("refer"), W("publish")>>
      [] n = W("publish_1stpkt_timeout") -> <<W("publish"), W("firstpkt_timeout")>>
      [] n = W("publish_normal_timeout") -> <<W("publish"), W("normal_timeout")>>
      [] n \in PlayShadows -> <<W("play"), n>>
      [] n \in ClusterShadows -> <<W("cluster"), n>>
      [] OTHER -> <<>>

Refers == {W("refer"), W("refer_play"), W("refer_publish")}

(* What of an old block moves where: mr, nack and twcc. *)
Moved(n) ==
    CASE n = W("mr") -> << <<W("enabled"), W("mr")>>, <<W("latency"), W("mr_latency")>> >>
      [] n = W("nack") -> << <<W("enabled"), W("nack")>>, <<W("no_copy"), W("nack_no_copy")>> >>
      [] n = W("twcc") -> << <<W("enabled"), W("twcc")>> >>
      [] OTHER -> <<>>
MovedTo(n) == IF n = W("mr") THEN W("publish") ELSE W("rtc")

Switch(d, old, word, new) ==
    LET x == get(d.directives, old)
    IN  IF x = <<>> THEN d
        ELSE remove(set_arg0(d, new, IF arg0(x[1]) = word THEN W("on") ELSE W("off")), old)

(* What becomes of a directive that stays where it is. *)
InPlace(c) ==
    CASE c.name = W("http") -> [c EXCEPT !.name = W("http_static")]
      [] c.name = W("http_remux") -> remove(c, W("hstrs"))
      [] c.name = W("forward") /\ c.directives = <<>> /\ c.args # <<>> ->
            [SetArgs(set_arg0(c, W("enabled"), W("on")), W("destination"), c.args) EXCEPT !.args = <<>>]
      [] c.name = W("rtc") ->
            Switch(Switch(c, W("aac"), W("transcode"), W("rtmp_to_rtc")), W("bframe"), W("keep"), W("keep_bframe"))
      [] OTHER -> c

(* Mutant: the iterator moves on although the directive was erased. *)
Bug_SkipsOne(a) ==
    LET c == a.dirs[a.i]
        rest == RemoveAt(a.dirs, a.i)
        to == Target(c.name)
    IN  CASE to # <<>> /\ ~(c.name = W("refer") /\ c.directives # <<>>) ->
                [a EXCEPT !.i = @ + 1, !.dirs = Filled(rest, to[1], LAMBDA b : SetArgs(b, to[2], c.args))]
          [] OTHER -> [a EXCEPT !.i = @ + 1, !.dirs[a.i] = InPlace(c)]

(***************************************************************************)
(* One turn of the loop over the directives of a vhost; a is [i, dirs,     *)
(* undefined].  What moves is erased and filed in its new block, which is  *)
(* made at the end of the vhost when there is none.  For a refer the block *)
(* is asked for with get(name, arg0), which falls off its end when there   *)
(* is no "enabled on" in it: from there the program is undefined.          *)
(***************************************************************************)
VhostTurn(a) ==
    LET c == a.dirs[a.i]
        rest == RemoveAt(a.dirs, a.i)
        to == Target(c.name)
        from == Moved(c.name)
        block == get(rest, to[1])
        Fill(b) == Scan(LAMBDA x, k : LET y == get(c.directives, from[k][1])
                                      IN  IF y = <<>> THEN x ELSE SetArgs(x, from[k][2], y[1].args),
                        b, 1, Len(from))
    IN  CASE to # <<>> /\ ~(c.name = W("refer") /\ c.directives # <<>>) ->
                [a EXCEPT !.dirs = Filled(rest, to[1], LAMBDA b : SetArgs(b, to[2], c.args)),
                          !.undefined = @ \/ (c.name \in Refers
                                              /\ (block = <<>> \/ ~Found(block[1], W("enabled"), W("on"))))]
          [] from # <<>> -> [a EXCEPT !.dirs = Filled(rest, MovedTo(c.name), Fill)]
          [] OTHER -> [a EXCEPT !.i = @ + 1, !.dirs[a.i] = InPlace(c)]

TransformVhost(d) ==
    LET Turn(a, k) == IF a.undefined \/ a.i > Len(a.dirs) THEN a ELSE VhostTurn(a)
        a == Scan(Turn, [i |-> 1, dirs |-> d.directives, undefined |-> FALSE], 1, 2 * Len(d.directives))
    IN  [undefined |-> a.undefined, dir |-> [d EXCEPT !.directives = a.dirs]]

(* The directives of the root. *)
srs_config_transform_vhost(directives) ==
    LET New(d) ==
            CASE d.name = W("http_stream") -> [d EXCEPT !.name = W("http_server")]
              [] d.name = W("rtc_server") ->
                    [d EXCEPT !.directives = SelectSeq(@, LAMBDA x : x.name \notin {W("perf_stat"), W("queue_length")})]
              [] d.name = W("vhost") -> TransformVhost(d).dir
              [] OTHER -> d
    IN  [undefined |-> \E i \in DOMAIN directives :
                          directives[i].name = W("vhost") /\ TransformVhost(directives[i]).undefined,
         directives |-> [i \in DOMAIN directives |-> New(directives[i])]]

-----------------------------------------------------------------------------
(* The getters of SrsConfig *)

(* The directive at the end of a path of names. *)
At(root, path) ==
    Scan(LAMBDA ds, i : IF ds = <<>> THEN ds ELSE get(ds[1].directives, W(path[i])),
         <<Directive(W("root"), <<>>, root)>>, 1, Len(path))

(* Its argument, or a default: when it is missing, or also when it is empty. *)
Argument(root, path, default) == IF At(root, path) = <<>> THEN default ELSE arg0(At(root, path)[1])
GivenArgument(root, path, default) ==
    IF Argument(root, path, <<>>) = <<>> THEN default ELSE Argument(root, path, <<>>)

ByEnv(key, value) == IF key \in DOMAIN Env THEN Env[key] ELSE value

PreferFalse(word) == word = W("on")
PreferTrue(word)  == word # W("off")

get_http_stream_enabled(root) ==
    PreferFalse(ByEnv("SRS_HTTP_SERVER_ENABLED", GivenArgument(root, <<"http_server", "enabled">>, W("off"))))
get_http_stream_listen(root)  == ByEnv("SRS_HTTP_SERVER_LISTEN", GivenArgument(root, <<"http_server", "listen">>, W("8080")))
get_https_stream_listen(root) ==
    ByEnv("SRS_HTTP_SERVER_HTTTPS_LISTEN", Argument(root, <<"http_server", "https", "listen">>, W("8088")))
get_http_api_enabled(root) ==
    PreferFalse(ByEnv("SRS_HTTP_API_ENABLED", GivenArgument(root, <<"http_api", "enabled">>, W("off"))))
get_http_api_listen(root)  == ByEnv("SRS_HTTP_API_LISTEN", GivenArgument(root, <<"http_api", "listen">>, W("1985")))
get_https_api_enabled(root) ==
    PreferFalse(ByEnv("SRS_HTTP_API_HTTPS_ENABLED", Argument(root, <<"http_api", "https", "enabled">>, W("off"))))
get_https_api_listen(root) ==
    ByEnv("SRS_HTTP_API_HTTPS_LISTEN",
          Argument(root, <<"http_api", "https", "listen">>,
                   IF get_http_api_listen(root) = get_http_stream_listen(root)
                   THEN get_https_stream_listen(root) ELSE W("1990")))
get_http_proxy_enabled(root) ==
    PreferFalse(ByEnv("SRS_HTTP_PROXY_ENABLED", Argument(root, <<"http_proxy", "enabled">>, W("on"))))
get_http_proxy_listen(root) == ByEnv("SRS_HTTP_PROXY_LISTEN", Argument(root, <<"http_proxy", "listen">>, W("80")))
get_next_hip_proxy_enabled(root) == PreferFalse(Argument(root, <<"http_proxy", "next_hip", "enabled">>, W("off")))
get_asprocess(root)       == PreferFalse(GivenArgument(root, <<"asprocess">>, W("off")))
empty_ip_ok(root)         == PreferTrue(GivenArgument(root, <<"empty_ip_ok">>, W("on")))
get_log_tank_file(root)   == GivenArgument(root, <<"srs_log_tank">>, W("file")) # W("console")
get_circuit_breaker(root) == PreferTrue(Argument(root, <<"circuit_breaker", "enabled">>, W("on")))
=============================================================================
