---------------------------- MODULE ProxyServer -----------------------------
(***************************************************************************)
(* The proxy process around the request handlers (src/unnamed/part_000):   *)
(* proxy::initialize, which builds the elliptics session, the mastermind   *)
(* handle and the namespace table from the configuration, swallows any     *)
(* exception they throw and then registers the routes anyway; the route    *)
(* table; and the handlers that read what initialize left: ping, cache,    *)
(* stat-log, and the first steps of upload and of the prepare_session      *)
(* handlers (get, download-info, the proxy.cpp delete), whose later steps  *)
(* ProxyRequests models.                                                   *)
(*                                                                         *)
(* A member initialize did not set is an empty boost::optional (session)  *)
(* or a null shared_ptr (mastermind); dereferencing it is undefined        *)
(* behaviour, which the model takes as the process crashing.  m_die_limit  *)
(* is read uninitialized in that case: any of UnsetDieLimits.              *)
(***************************************************************************)
EXTENDS Integers, Sequences, FiniteSets, SequencesExt

CONSTANTS Req,            \* request slots (connections) served
          Paths,          \* request paths, as sequences of path tokens
          Queries,        \* query strings of /cache, as sequences of items
          NsNames,        \* namespace names
          RemoteCfgs,     \* "remotes": Missing, or how many add_remote succeed
          MastermindCfgs, \* "mastermind": Missing, NoNodes or "ok"
          NsCfgs,         \* "namespaces": Missing, or <<[name, valid]>>
          DieLimitCfgs,   \* "die-limit": Missing or a value
          UnsetDieLimits, \* what m_die_limit holds when never assigned
          MaxUpdates,     \* bound on mastermind's table refreshes
          LogCfgs,        \* "none", or the generate_logger step that throws
          Missing, NoNodes, Throw, None, Handed

(***************************************************************************)
(* Bootstrap.                                                              *)
(***************************************************************************)
Configs == [log: LogCfgs, remotes: RemoteCfgs, mastermind: MastermindCfgs,
            namespaces: NsCfgs, dieLimit: DieLimitCfgs]

LogSteps == {"proxy-log", "elliptics-log", "mastermind-log"}

(* get_int(config, name, def_val). *)
GetIntNoDefault(v, default) == v
GetInt(v, default) == IF v = Missing THEN default ELSE v

(* generate_logger(config, name): "<name>-log" gives the path and mask of *)
(* a swarm::logger; whether its constructor throws (a path it cannot      *)
(* open) is swarm's, so the configuration names the one that does.        *)
GenerateLogger(c, step) == IF c.log = step THEN Throw ELSE "ok"

(* generate_session: throws without "remotes"; a remote add_remote cannot *)
(* reach is logged and skipped, so the session has the rest as states.    *)
GenerateSession(c) == IF c.remotes = Missing THEN Throw ELSE c.remotes

(* generate_mastermind: throws without "mastermind" or its "nodes". *)
GenerateMastermind(c) == IF c.mastermind \in {Missing, NoNodes} THEN Throw ELSE 0

(* generate_namespaces: the table is built in a local map and returned     *)
(* whole; a namespace without groups-count or success-copies-num, or with *)
(* an unknown policy, throws.                                              *)
GenerateNamespaces(c) ==
    IF c.namespaces = Missing \/ \E i \in DOMAIN c.namespaces : ~c.namespaces[i].valid
    THEN Throw
    ELSE {c.namespaces[i].name : i \in DOMAIN c.namespaces}

Result(c, step) == CASE step \in LogSteps     -> GenerateLogger(c, step)
                     [] step = "session"    -> GenerateSession(c)
                     [] step = "mastermind" -> GenerateMastermind(c)
                     [] step = "namespaces" -> GenerateNamespaces(c)

(* The order of the steps in initialize's try block. *)
InitStepsNamespacesFirst == <<"proxy-log", "elliptics-log", "mastermind-log",
                             "namespaces", "session", "mastermind">>
InitSteps == <<"proxy-log", "elliptics-log", "mastermind-log",
               "session", "mastermind", "namespaces">>

(* A step ran to its end: no step up to it threw. *)
Done(c, step) ==
    \E i \in DOMAIN InitSteps :
        /\ InitSteps[i] = step
        /\ \A j \in 1..i : Result(c, InitSteps[j]) # Throw

(* The try block ran to its end: die-limit and the other ints are read. *)
Started(c) == \A s \in ToSet(InitSteps) : Done(c, s)

VARIABLES conf,      \* the configuration initialize was given
          logger,    \* m_proxy_logger was set
          session,   \* m_elliptics_session: None, or its number of states
          mm,        \* m_mastermind: None, or the version of its tables
          ns,        \* the names in m_namespaces
          dieLimit,  \* m_die_limit
          req,       \* the request each slot is serving
          crashed    \* None, or where the process dereferenced an unset member

vars == <<conf, logger, session, mm, ns, dieLimit, req, crashed>>

(* The configuration and the members initialize set; requests only read *)
(* them.                                                                  *)
Members == <<conf, logger, session, mm, ns, dieLimit>>

Idle == [st |-> "idle", h |-> "none", path |-> <<>>, query |-> <<>>,
         pos |-> 1, g |-> FALSE, body |-> <<>>, res |-> None, code |-> None]

(* proxy::initialize: the catch logs and falls through to the route      *)
(* registration; the members set before the throw stay, the others keep   *)
(* their initial values; die-limit and the other ints come after the try's *)
(* last step.                                                              *)
Initialize(c) ==
    /\ conf = c
    /\ logger = Done(c, "proxy-log")
    /\ session = IF Done(c, "session") THEN GenerateSession(c) ELSE None
    /\ mm = IF Done(c, "mastermind") THEN GenerateMastermind(c) ELSE None
    /\ ns = IF Done(c, "namespaces") THEN GenerateNamespaces(c) ELSE {}
    /\ dieLimit \in IF Started(c)
                    THEN {GetInt(c.dieLimit, 1)} ELSE UnsetDieLimits

Init == /\ \E c \in Configs : Initialize(c)
        /\ req = [r \in Req |-> Idle]
        /\ crashed = None

(***************************************************************************)
(* Routing: on<handler>(matcher) in registration order; first match wins. *)
(***************************************************************************)
Prefix(p, h) == [m |-> "prefix", p |-> p, h |-> h]
Exact(p, h) == [m |-> "exact", p |-> p, h |-> h]

RoutesStatPrefix ==
    << Prefix(<<"/", "upload">>, "upload"), Prefix(<<"/", "get", "/">>, "get"),
       Prefix(<<"/", "delete", "/">>, "delete"),
       Prefix(<<"/", "download_info", "/">>, "dinfo"),
       Prefix(<<"/", "download-info", "/">>, "dinfo"),
       Exact(<<"/", "stat", "-log">>, "statlog"), Exact(<<"/", "stat", "_log">>, "statlog"),
       Exact(<<"/", "ping">>, "ping"), Prefix(<<"/", "stat">>, "ping"),
       Exact(<<"/", "cache">>, "cache") >>
Routes ==
    << Prefix(<<"/", "upload">>, "upload"), Prefix(<<"/", "get", "/">>, "get"),
       Prefix(<<"/", "delete", "/">>, "delete"),
       Prefix(<<"/", "download_info", "/">>, "dinfo"),
       Prefix(<<"/", "download-info", "/">>, "dinfo"),
       Exact(<<"/", "stat", "-log">>, "statlog"), Exact(<<"/", "stat", "_log">>, "statlog"),
       Exact(<<"/", "ping">>, "ping"), Exact(<<"/", "stat">>, "ping"),
       Exact(<<"/", "cache">>, "cache") >>

Matches(rt, p) == IF rt.m = "prefix" THEN IsPrefix(rt.p, p) ELSE rt.p = p

Route(p) == LET i == SelectInSeq(Routes, LAMBDA rt : Matches(rt, p))
            IN  IF i = 0 THEN "none" ELSE Routes[i].h

(***************************************************************************)
(* Handlers.                                                               *)
(***************************************************************************)
Set(r, f) == req' = [req EXCEPT ![r] = f]
Reply(r, c) == Set(r, [req[r] EXCEPT !.st = "replied", !.code = c])

(* The process dies on the dereference of an unset member. *)
Crash(r, member) == /\ crashed' = [h |-> req[r].h, member |-> member]
                    /\ UNCHANGED req

(* A handler's first statement is server()->logger().log(...), which     *)
(* dereferences m_proxy_logger.                                            *)
Logged(r, A) == IF logger THEN A ELSE Crash(r, "logger")

Routed(r, h) == /\ crashed = None
                /\ req[r].st = "routed"
                /\ req[r].h = h

(* A connection delivers a request; swarm picks its handler by the path. *)
Receive(r) ==
    /\ crashed = None
    /\ req[r].st = "idle"
    /\ \E p \in Paths :
         \E q \in IF Route(p) = "cache" THEN Queries ELSE {<<>>} :
            Set(r, [Idle EXCEPT !.st = "routed", !.h = Route(p), !.path = p, !.query = q])
    /\ UNCHANGED <<crashed, Members>>

(* No route matches: swarm answers 404 itself. *)
NoRoute(r) ==
    /\ Routed(r, "none")
    /\ Reply(r, 404) /\ UNCHANGED crashed
    /\ UNCHANGED Members

(* req_ping::on_request: 500 below die_limit, else 200. *)
Ping(r) ==
    /\ Routed(r, "ping")
    /\ Logged(r, IF session = None THEN Crash(r, "session")
                  ELSE Reply(r, IF session < dieLimit THEN 500 ELSE 200) /\ UNCHANGED crashed)
    /\ UNCHANGED Members

(* A token of the /cache body: a field, with the version of the table it *)
(* shows, or punctuation.                                                 *)
Tok(t) == [t |-> t, v |-> None]

(* req_cache::on_request, one has_item test and json_* call per step: the *)
(* mastermind refreshes its tables on its own thread meanwhile.            *)
CacheFlags == <<"group-weights", "symmetric-groups", "bad-groups", "cache-groups">>

CacheFieldNoFlag(r) ==
    LET f == CacheFlags[req[r].pos] IN
    IF f \notin ToSet(req[r].query)
    THEN Set(r, [req[r] EXCEPT !.pos = @ + 1]) /\ UNCHANGED crashed
    ELSE IF mm = None THEN Crash(r, "mastermind")
    ELSE /\ Set(r, [req[r] EXCEPT !.pos = @ + 1,
                      !.body = @ \o (IF req[r].g THEN <<Tok(",")>> ELSE <<>>)
                                 \o <<[t |-> f, v |-> mm]>>,
                      !.g = IF f = "symmetric-groups" THEN @ ELSE TRUE])
         /\ UNCHANGED crashed
CacheField(r) ==
    LET f == CacheFlags[req[r].pos] IN
    IF f \notin ToSet(req[r].query)
    THEN Set(r, [req[r] EXCEPT !.pos = @ + 1]) /\ UNCHANGED crashed
    ELSE IF mm = None THEN Crash(r, "mastermind")
    ELSE /\ Set(r, [req[r] EXCEPT !.pos = @ + 1,
                      !.body = @ \o (IF req[r].g THEN <<Tok(",")>> ELSE <<>>)
                                 \o <<[t |-> f, v |-> mm]>>,
                      !.g = TRUE])
         /\ UNCHANGED crashed

(* One step of on_request: the next has_item test, or the closing brace *)
(* and the 200 once all four are done.                                    *)
CacheStep(r) ==
    \/ req[r].pos <= Len(CacheFlags) /\ CacheField(r)
    \/ /\ req[r].pos > Len(CacheFlags)
       /\ Set(r, [req[r] EXCEPT !.st = "replied", !.code = 200,
                    !.body = <<Tok("{")>> \o @ \o <<Tok("}")>>])
       /\ UNCHANGED crashed

Cache(r) ==
    /\ Routed(r, "cache")
    /\ Logged(r, CacheStep(r))
    /\ UNCHANGED Members

(* req_stat_log::on_request: session.stat_log() on a clone of the       *)
(* session; res is what the operation will complete with: an error, or    *)
(* the stat entries of the nodes that answered.                           *)
StatLogRequest(r) ==
    /\ Routed(r, "statlog")
    /\ Logged(r,
       IF session = None THEN Crash(r, "session")
       ELSE /\ \E res \in {[err |-> TRUE, n |-> 0]} \cup [err: {FALSE}, n: 0..session] :
                 Set(r, [req[r] EXCEPT !.st = "waiting", !.res = res])
            /\ UNCHANGED crashed)
    /\ UNCHANGED Members

StatLogFinishedSilentError(r) ==
    IF req[r].res.err THEN Set(r, [req[r] EXCEPT !.st = "finished"])
    ELSE Set(r, [req[r] EXCEPT !.st = "replied", !.code = 200,
                   !.body = [i \in 1..req[r].res.n |-> "stat"]])
(* req_stat_log::on_finished: an error is a 500, otherwise one <stat> per *)
(* node that answered.                                                    *)
StatLogFinished(r) ==
    IF req[r].res.err THEN Reply(r, 500)
    ELSE Set(r, [req[r] EXCEPT !.st = "replied", !.code = 200,
                   !.body = [i \in 1..req[r].res.n |-> "stat"]])

StatLogCompletion(r) ==
    /\ crashed = None
    /\ req[r].st = "waiting" /\ req[r].h = "statlog"
    /\ Logged(r, StatLogFinished(r) /\ UNCHANGED crashed)
    /\ UNCHANGED Members

(* req_upload::on_request up to groups_for_upload: get_session, then       *)
(* get_file_info's namespace lookup (400 when the table lacks it), then   *)
(* m_mastermind->get_metabalancer_groups.                                  *)
Upload(r) ==
    /\ Routed(r, "upload")
    /\ Logged(r,
       IF session = None THEN Crash(r, "session")
       ELSE \E n \in NsNames :
              IF n \notin ns THEN Reply(r, 400) /\ UNCHANGED crashed
              ELSE IF mm = None THEN Crash(r, "mastermind")
              ELSE Reply(r, Handed) /\ UNCHANGED crashed)
    /\ UNCHANGED Members

(* prepare_session, for get, download-info and the proxy.cpp delete: a    *)
(* group token that is no int is caught and leaves no groups (404); else *)
(* m_mastermind's symmetric and cache groups are read, inside a catch(...) *)
(* that a null dereference does not reach.                                 *)
PrepareSessionHandler(r) ==
    /\ crashed = None /\ req[r].st = "routed" /\ req[r].h \in {"get", "dinfo", "delete"}
    /\ Logged(r,
       IF session = None THEN Crash(r, "session")
       ELSE \E isInt \in BOOLEAN, found \in BOOLEAN :
              IF ~isInt THEN Reply(r, 404) /\ UNCHANGED crashed
              ELSE IF mm = None THEN Crash(r, "mastermind")
              ELSE Reply(r, IF found THEN Handed ELSE 404) /\ UNCHANGED crashed)
    /\ UNCHANGED Members

(* The connection is done; its slot takes the next request. *)
Close(r) ==
    /\ crashed = None
    /\ req[r].st = "replied"
    /\ Set(r, Idle) /\ UNCHANGED crashed
    /\ UNCHANGED Members

(* mastermind_t's own thread refreshes the tables it renders. *)
MastermindUpdate == /\ crashed = None
                    /\ mm # None /\ mm < MaxUpdates
                    /\ mm' = mm + 1
                    /\ UNCHANGED <<conf, logger, session, ns, dieLimit, req, crashed>>

Next ==
    \/ \E r \in Req :
          \/ Receive(r) \/ NoRoute(r) \/ Ping(r) \/ Cache(r)
          \/ StatLogRequest(r) \/ StatLogCompletion(r) \/ Upload(r)
          \/ PrepareSessionHandler(r) \/ Close(r)
    \/ MastermindUpdate

(* The event loop runs every handler step that is enabled; a client may  *)
(* never send a request, so Receive and Close are not fair.              *)
Fairness ==
    \A r \in Req : /\ WF_vars(NoRoute(r)) /\ WF_vars(Ping(r)) /\ WF_vars(Cache(r))
                   /\ WF_vars(StatLogRequest(r)) /\ WF_vars(StatLogCompletion(r))
                   /\ WF_vars(Upload(r)) /\ WF_vars(PrepareSessionHandler(r))

Spec == Init /\ [][Next]_vars /\ Fairness

(***************************************************************************)
(* Properties.                                                             *)
(***************************************************************************)
Handlers == {"none", "upload", "get", "delete", "dinfo", "statlog", "ping", "cache"}

TypeOK ==
    /\ conf \in Configs
    /\ logger \in BOOLEAN
    /\ session \in {None} \cup (RemoteCfgs \ {Missing})
    /\ mm \in {None} \cup 0..MaxUpdates
    /\ ns \subseteq NsNames
    /\ dieLimit \in UnsetDieLimits \cup (DieLimitCfgs \ {Missing}) \cup {1}
    /\ crashed \in {None} \cup [h: Handlers, member: {"logger", "session", "mastermind"}]
    /\ \A r \in Req : /\ req[r].st \in {"idle", "routed", "waiting", "finished", "replied"}
                      /\ req[r].h \in Handlers
                      /\ req[r].pos \in 1..Len(CacheFlags) + 1
                      /\ req[r].code \in {None, Handed, 200, 400, 404, 500}

(* Whatever the path, at most one registered route matches it, so the     *)
(* first-match dispatch of the route table never depends on the order of  *)
(* initialize's on<>() calls: "/stat" and "/ping" exact, "/stat-log" and  *)
(* "/stat_log" exact, and the prefixes ending in '/' stay apart.           *)
RoutesDisjoint ==
    \A r \in Req :
        req[r].st # "idle" =>
            Cardinality({i \in DOMAIN Routes : Matches(Routes[i], req[r].path)}) <= 1

(* An upload never dereferences a missing mastermind: whenever initialize *)
(* gave up before generate_mastermind returned, it also never loaded the  *)
(* namespace table, so get_file_info answers 400 before groups_for_upload *)
(* is called.  This rests on the order of the steps in initialize.        *)
UploadNeverReachesMissingBalancer ==
    crashed # [h |-> "upload", member |-> "mastermind"]

RECURSIVE Joined(_)
Joined(s) == IF Len(s) <= 1 THEN s ELSE <<Head(s), ",">> \o Joined(Tail(s))

(* The /cache body is a JSON object whose members are exactly the flags   *)
(* the query names, in the fixed order group-weights, symmetric-groups,   *)
(* bad-groups, cache-groups whatever the query's order, separated by one   *)
(* comma each (spec 5, Cache; the bad-groups-then-group-weights scenario). *)
CacheBodyInFixedOrder ==
    \A r \in Req :
        req[r].h = "cache" /\ req[r].st = "replied" =>
            [i \in DOMAIN req[r].body |-> req[r].body[i].t]
              = <<"{">> \o Joined(SelectSeq(CacheFlags, LAMBDA f : f \in ToSet(req[r].query)))
                        \o <<"}">>

(* Every routed request is answered, unless the process has crashed on an *)
(* unset member: the stat-log completion replies on error as on success.  *)
AnsweredUnlessCrashed ==
    \A r \in Req : req[r].st = "routed" ~> (req[r].st = "replied" \/ crashed # None)
====
