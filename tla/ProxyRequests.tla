--------------------------- MODULE ProxyRequests ---------------------------
(***************************************************************************)
(* The request handlers of the mediastorage proxy (src/unnamed/part_000,   *)
(* src/src/delete.cpp) running concurrently against a replicated           *)
(* elliptics store.                                                        *)
(*                                                                         *)
(* Every request owns a clone of the elliptics session (proxy::get_session *)
(* clones m_elliptics_session), so its groups, checker and flags are       *)
(* fields of its own record.  on_request is one atomic step: it replies    *)
(* at once or issues one asynchronous operation.  The storage client then  *)
(* runs that operation against each target group independently (GroupOp); *)
(* when every group has answered, the connected on_finished callback runs  *)
(* (the *Finished actions).  All requests name the same object, so the     *)
(* store is one copy slot per replica group.                               *)
(***************************************************************************)
EXTENDS Integers, FiniteSets, Sequences, SequencesExt

CONSTANTS
  Req,            \* request ids (model values); each id serves one request
  Groups,         \* replica group ids (integers)
  Namespaces,     \* namespaces of the "namespaces" config section
  NoNs,           \* the empty namespace_t of an unresolvable name
  GroupsCount,    \* [Namespaces -> Nat]: namespace_t::groups_count
  SuccessCopies,  \* [Namespaces -> {"all","quorum","any"}]: success-copies-num
  NeedsAuth,      \* [Namespaces -> BOOLEAN]: namespace has an auth_key
  Ts,             \* values of the upload "timestamp" query argument (seconds)
  DieLimit,       \* proxy::die_limit(), config "die-limit"
  MaxLive,        \* most storage connections the session can have
  NoObj,          \* an empty copy slot in a group
  Offsets,        \* upload "offset" arguments: 0, or 1 for a later part
  DeleteHandler   \* which req_delete::on_request of the repository is built

ASSUME DeleteHandler \in {"namespace", "proxy_cpp", "delete_cpp"}
ASSUME Groups \subseteq Int \ {0} /\ Groups # {}
ASSUME \A n \in Namespaces : GroupsCount[n] \in 1..Cardinality(Groups)
ASSUME DieLimit \in Nat /\ MaxLive \in Nat
ASSUME 0 \in Offsets /\ Offsets \subseteq {0, 1}

VARIABLES
  req,       \* req[r]: the handler object of request r with its session
  replies,   \* replies[r]: the HTTP codes sent by send_reply, in order
  store,     \* store[g]: the copy of the object kept by replica group g
  rollback,  \* removes issued by remove_on_fail, not yet executed: <<r, g>>
  live       \* session.state_num(): live connections to storage nodes

vars == <<req, replies, store, rollback, live>>

NoTs == -1          \* no embedded timestamp
NoHdr == -1         \* no If-Modified-Since header

NoGroup == 0        \* no lookup entry rendered

Kinds == {"none", "upload", "get", "delete", "dinfo", "ping"}
Results == {"none", "pending", "ok", "enoent", "fail"}
Codes == {200, 304, 400, 401, 404, 500, 503}
Bodies == {"none", "payload", "envelope", "xml"}

\* What an upload stores: its version (the request id), the embedded
\* timestamp packed in the data container (NoTs when the container has no
\* embeds) and the UF_EMBEDS user flag written in the io attribute.  Every
\* write mode stores data_container_t::pack(dc), so the bytes always begin
\* with the embed count (0 when there are no embeds).
Obj == [ver : Req, ts : Ts \cup {NoTs}, uf : BOOLEAN]

Idle == [st |-> "idle", kind |-> "none", ns |-> NoNs, auth |-> FALSE,
         groups |-> {}, emb |-> NoTs, embq |-> FALSE, ims |-> NoHdr,
         off |-> 0, sent |-> FALSE, body |-> "none", from |-> NoGroup,
         res |-> [g \in Groups |-> "none"], got |-> [g \in Groups |-> NoObj]]

TypeOK ==
  /\ req \in [Req -> [st : {"idle", "wait", "done"}, kind : Kinds,
                      ns : Namespaces \cup {NoNs}, auth : BOOLEAN,
                      groups : SUBSET Groups, emb : Ts \cup {NoTs},
                      embq : BOOLEAN, ims : Ts \cup {NoHdr}, off : Offsets,
                      sent : BOOLEAN, body : Bodies, from : Groups \cup {NoGroup},
                      res : [Groups -> Results],
                      got : [Groups -> Obj \cup {NoObj}]]]
  /\ replies \in [Req -> Seq(Codes)]
  /\ store \in [Groups -> Obj \cup {NoObj}]
  /\ rollback \subseteq Req \X Groups
  /\ live \in 0..MaxLive

(***************************************************************************)
(* Helpers of the proxy and of its collaborators                           *)
(***************************************************************************)

\* proxy::check_basic_auth: passes when the namespace has no auth key or the
\* Authorization header carries the right credentials.
AuthOK(ns, cred) == ns = NoNs \/ ~NeedsAuth[ns] \/ cred

\* mastermind get_metabalancer_groups(groups_count, name): groups_count
\* groups, or none when the balancer has no suitable couple.
GroupsForUpload(ns) ==
  IF ns = NoNs THEN {{}}
  ELSE {{}} \cup {s \in SUBSET Groups : Cardinality(s) = GroupsCount[ns]}

\* The elliptics result checkers (checkers::all, quorum, at_least_one): is
\* an operation with `good` successful replies out of `total` a success.
Checker(policy, good, total) ==
  CASE policy = "all"    -> good = total
    [] policy = "quorum" -> good > total \div 2
    [] policy = "any"    -> good >= 1

\* The checker a request's session carries: the namespace's for uploads,
\* the session default (at_least_one) for every other request.
Policy(r) == IF req[r].kind = "upload" THEN SuccessCopies[req[r].ns] ELSE "any"

Good(r) == {g \in req[r].groups : req[r].res[g] = "ok"}

Failed(r) == ~Checker(Policy(r), Cardinality(Good(r)), Cardinality(req[r].groups))

\* Mutant: the raw elliptics status is sent as the HTTP code.
ErrorCodesRaw(r) ==
  IF req[r].groups = {} THEN {-6}
  ELSE {IF req[r].res[g] = "enoent" THEN -2 ELSE -110 : g \in req[r].groups \ Good(r)}

\* error.code() of a failed operation, as on_finished maps it: 404 for
\* -ENOENT, 500 otherwise.  elliptics reports the status of one of the
\* failed groups; with no group at all it reports -ENXIO.
ErrorCodes(r) ==
  IF req[r].groups = {} THEN {500}
  ELSE {IF req[r].res[g] = "enoent" THEN 404 ELSE 500 : g \in req[r].groups \ Good(r)}

\* The content of group g after request r's command executed there.  Every
\* write mode writes the io's user flags; a write at a nonzero offset keeps
\* the bytes at offset 0, and with them the container packed there.
Applied(r, old) ==
  CASE req[r].kind = "upload" /\ req[r].off = 0 ->
            [ver |-> r, ts |-> req[r].emb, uf |-> req[r].emb # NoTs]
    [] req[r].kind = "upload" ->
            [ver |-> IF old = NoObj THEN r ELSE old.ver,
             ts  |-> IF old = NoObj THEN NoTs ELSE old.ts,
             uf  |-> req[r].emb # NoTs]
    [] req[r].kind = "delete" -> NoObj
    [] OTHER                  -> old

(***************************************************************************)
(* Reply and issue: the two ways an on_request step ends                  *)
(***************************************************************************)

\* The handler returns after sending `codes` (send_reply, in order).
Answer(r, rq, codes) ==
  /\ req' = [req EXCEPT ![r] = [rq EXCEPT !.st = "done"]]
  /\ replies' = [replies EXCEPT ![r] = @ \o codes]

\* The handler connects on_finished to an asynchronous operation sent to
\* every group of its session, after having sent `codes`.
Issue(r, rq, codes) ==
  /\ req' = [req EXCEPT ![r] = [rq EXCEPT !.st = "wait", !.sent = TRUE,
                 !.res = [g \in Groups |-> IF g \in rq.groups THEN "pending" ELSE "none"]]]
  /\ replies' = [replies EXCEPT ![r] = @ \o codes]

\* The callback of a completed operation sends its reply; `from` is the
\* group whose lookup entry the body describes, if any.
CompleteFrom(r, code, body, from) ==
  /\ req' = [req EXCEPT ![r].st = "done", ![r].body = body, ![r].from = from]
  /\ replies' = [replies EXCEPT ![r] = Append(@, code)]

Complete(r, code, body) == CompleteFrom(r, code, body, NoGroup)

Completed(r) == req[r].st = "wait" /\ \A g \in req[r].groups : req[r].res[g] # "pending"

(***************************************************************************)
(* The storage client: one command of request r executed by group g.  A    *)
(* write always succeeds on a reachable node; remove, read and lookup      *)
(* answer -ENOENT when the group has no copy.  A command can fail (node    *)
(* down, wait timeout), and a timed-out command may still have been        *)
(* executed by the node.                                                   *)
(***************************************************************************)
GroupOp(r, g) ==
  LET Reply(out) == req' = [req EXCEPT ![r].res[g] = out,
                              ![r].got[g] = IF out = "ok" THEN store[g] ELSE NoObj]
  IN
  /\ req[r].st = "wait"
  /\ req[r].res[g] = "pending"
  /\ \/ /\ req[r].kind = "upload" \/ store[g] # NoObj
        /\ Reply("ok")
        /\ store' = [store EXCEPT ![g] = Applied(r, @)]
     \/ /\ req[r].kind # "upload" /\ store[g] = NoObj
        /\ Reply("enoent")
        /\ UNCHANGED store
     \/ /\ Reply("fail")
        /\ \E s \in {store[g], Applied(r, store[g])} : store' = [store EXCEPT ![g] = s]
  /\ UNCHANGED <<replies, rollback, live>>

\* A remove issued by remove_on_fail for request r reaches group g; it
\* removes whatever copy the group holds, or fails.
RollbackRemove(r, g) ==
  /\ <<r, g>> \in rollback
  /\ rollback' = rollback \ {<<r, g>>}
  /\ \E s \in {store[g], NoObj} : store' = [store EXCEPT ![g] = s]
  /\ UNCHANGED <<req, replies, live>>

\* Storage nodes connect and disconnect.
LiveChange ==
  /\ \E n \in 0..MaxLive \ {live} : live' = n
  /\ UNCHANGED <<req, replies, store, rollback>>

(***************************************************************************)
(* Upload: proxy::req_upload::on_request and on_finished                   *)
(***************************************************************************)

\* on_request: 400 without a namespace; checker and groups of the namespace;
\* 500 (exception) below die limit or when boost::lexical_cast rejects a
\* query argument (timestamp, offset, prepare/commit size); otherwise pack
\* the data container, embedding the timestamp and setting UF_EMBEDS when
\* asked to, and write it at the offset (write_prepare, write_commit,
\* write_plain or write_data) with the remove_on_fail error handler.  emb
\* is the timestamp embedded, NoTs when neither embed flag is in the query.
UploadRequest(r) ==
  /\ req[r].st = "idle"
  /\ \E ns \in Namespaces \cup {NoNs}, cred \in BOOLEAN, emb \in Ts \cup {NoTs},
        malformed \in BOOLEAN, off \in Offsets :
     \E gs \in GroupsForUpload(ns) :
       LET rq == [Idle EXCEPT !.kind = "upload", !.ns = ns, !.auth = cred,
                              !.groups = gs, !.emb = emb, !.off = off]
       IN \/ ns = NoNs /\ Answer(r, rq, <<400>>)
          \/ /\ ns # NoNs
             /\ live < DieLimit \/ malformed
             /\ Answer(r, rq, <<500>>)
          \/ ns # NoNs /\ live >= DieLimit /\ ~malformed /\ Issue(r, rq, <<>>)
  /\ UNCHANGED <<store, rollback, live>>

\* Mutant: the error branch of on_finished returns without send_reply.
UploadFinishedSilentError(r) ==
  /\ req[r].kind = "upload"
  /\ Completed(r)
  /\ \/ /\ Failed(r)
        /\ rollback' = rollback \cup ({r} \X Good(r))
        /\ req' = [req EXCEPT ![r].st = "done"]
        /\ UNCHANGED replies
     \/ /\ ~Failed(r)
        /\ Complete(r, 200, "none")
        /\ UNCHANGED rollback
  /\ UNCHANGED <<store, live>>

\* on_finished: when the checker failed, remove_on_fail sends a remove of
\* the key to every group that acknowledged the write, and the reply is
\* 500; otherwise the XML report is sent with 200 (with no group at all,
\* std::min_element returns end() and the key attribute is read from it).
UploadFinished(r) ==
  /\ req[r].kind = "upload"
  /\ Completed(r)
  /\ \/ /\ Failed(r)
        /\ rollback' = rollback \cup ({r} \X Good(r))
        /\ Complete(r, 500, "none")
     \/ /\ ~Failed(r)
        /\ Complete(r, 200, "none")
        /\ UNCHANGED rollback
  /\ UNCHANGED <<store, live>>

(***************************************************************************)
(* Get: proxy::req_get::on_request and on_finished                         *)
(***************************************************************************)

\* Mutant: no return after send_reply(404) for an empty group set.
GetRequestNoReturn(r) ==
  /\ req[r].st = "idle"
  /\ \E gs \in SUBSET Groups, embq \in BOOLEAN, ims \in Ts \cup {NoHdr},
        malformed \in BOOLEAN :
       LET rq == [Idle EXCEPT !.kind = "get", !.groups = gs, !.embq = embq, !.ims = ims]
           empty == IF gs = {} THEN <<404>> ELSE <<>>
       IN \/ malformed /\ Answer(r, rq, empty \o <<500>>)
          \/ ~malformed /\ Issue(r, rq, empty)
  /\ UNCHANGED <<store, rollback, live>>

\* on_request: groups from prepare_session (none when the group token is
\* not an integer) give 404 when empty; a malformed offset or size throws
\* (500); otherwise read_data, capturing the If-Modified-Since header.
GetRequest(r) ==
  /\ req[r].st = "idle"
  /\ \E gs \in SUBSET Groups, embq \in BOOLEAN, ims \in Ts \cup {NoHdr},
        malformed \in BOOLEAN :
       LET rq == [Idle EXCEPT !.kind = "get", !.groups = gs, !.embq = embq, !.ims = ims]
       IN \/ gs = {} /\ Answer(r, rq, <<404>>)
          \/ gs # {} /\ malformed /\ Answer(r, rq, <<500>>)
          \/ gs # {} /\ ~malformed /\ Issue(r, rq, <<>>)
  /\ UNCHANGED <<store, rollback, live>>

\* data_container_t::unpack(bytes, embeded) then get<EMBED_TIMESTAMP>.
\* Unpacking parses the stored container, which pack wrote, and finds its
\* timestamp; not unpacking takes the whole stream as payload, embed count
\* and embeds included, and finds no timestamp.  (The decode error of a
\* malformed embed region cannot arise: every stored object is pack output.)
Unpacked(obj, embedded) == IF embedded THEN obj.ts ELSE NoTs

\* The body sent: dc.data, the payload when unpacked, else the packed
\* container bytes.
BodyOf(embedded) == IF embedded THEN "payload" ELSE "envelope"

\* Mutant: only the query's embed flags decide whether to unpack.
GetFinishedQueryFlagsOnly(r) ==
  /\ req[r].kind = "get"
  /\ Completed(r)
  /\ \/ Failed(r) /\ \E code \in ErrorCodes(r) : Complete(r, code, "none")
     \/ \E g \in Good(r) :
          LET obj == req[r].got[g]
              ts == Unpacked(obj, req[r].embq)
          IN \/ ts # NoTs /\ ts = req[r].ims /\ CompleteFrom(r, 304, "none", g)
             \/ (ts = NoTs \/ ts # req[r].ims) /\ CompleteFrom(r, 200, BodyOf(req[r].embq), g)
  /\ UNCHANGED <<store, rollback, live>>

\* on_finished: the error code on failure; otherwise unpack srr.front()
\* with the query's embed flags OR'd with the stored UF_EMBEDS flag; 304
\* when the formatted timestamp equals If-Modified-Since, else 200.
GetFinished(r) ==
  /\ req[r].kind = "get"
  /\ Completed(r)
  /\ \/ Failed(r) /\ \E code \in ErrorCodes(r) : Complete(r, code, "none")
     \/ \E g \in Good(r) :
          LET obj == req[r].got[g]
              embedded == req[r].embq \/ obj.uf
              ts == Unpacked(obj, embedded)
          IN \/ ts # NoTs /\ ts = req[r].ims /\ CompleteFrom(r, 304, "none", g)
             \/ (ts = NoTs \/ ts # req[r].ims) /\ CompleteFrom(r, 200, BodyOf(embedded), g)
  /\ UNCHANGED <<store, rollback, live>>

(***************************************************************************)
(* Delete: the three req_delete::on_request of the repository, one per    *)
(* build, and their common on_finished                                     *)
(***************************************************************************)

\* Mutant: the 401 reply is not followed by return (as in delete.cpp).
DeleteRequestNoReturn(r) ==
  /\ DeleteHandler = "namespace"
  /\ req[r].st = "idle"
  /\ \E ns \in Namespaces \cup {NoNs}, cred \in BOOLEAN, gs \in SUBSET Groups :
       LET rq == [Idle EXCEPT !.kind = "delete", !.ns = ns, !.auth = cred, !.groups = gs]
           denied == IF AuthOK(ns, cred) THEN <<>> ELSE <<401>>
       IN \/ ns = NoNs /\ Answer(r, rq, <<400>>)
          \/ ns # NoNs /\ live < DieLimit /\ Answer(r, rq, denied \o <<500>>)
          \/ ns # NoNs /\ live >= DieLimit /\ Issue(r, rq, denied)
  /\ UNCHANGED <<store, rollback, live>>

\* Mutant: the check_basic_auth gate is missing.
DeleteRequestNoAuth(r) ==
  /\ DeleteHandler = "namespace"
  /\ req[r].st = "idle"
  /\ \E ns \in Namespaces \cup {NoNs}, cred \in BOOLEAN, gs \in SUBSET Groups :
       LET rq == [Idle EXCEPT !.kind = "delete", !.ns = ns, !.auth = cred, !.groups = gs]
       IN \/ ns = NoNs /\ Answer(r, rq, <<400>>)
          \/ ns # NoNs /\ live < DieLimit /\ Answer(r, rq, <<500>>)
          \/ ns # NoNs /\ live >= DieLimit /\ Issue(r, rq, <<>>)
  /\ UNCHANGED <<store, rollback, live>>

\* part_000 913-960: 400 when get_namespace throws, 401 and return when
\* check_basic_auth fails, 500 below die limit, otherwise remove from every
\* group prepare_session gave (filters::all), even when there is none.
DeleteRequest(r) ==
  /\ DeleteHandler = "namespace"
  /\ req[r].st = "idle"
  /\ \E ns \in Namespaces \cup {NoNs}, cred \in BOOLEAN, gs \in SUBSET Groups :
       LET rq == [Idle EXCEPT !.kind = "delete", !.ns = ns, !.auth = cred, !.groups = gs]
       IN \/ ns = NoNs /\ Answer(r, rq, <<400>>)
          \/ ns # NoNs /\ ~AuthOK(ns, cred) /\ Answer(r, rq, <<401>>)
          \/ ns # NoNs /\ AuthOK(ns, cred) /\ live < DieLimit /\ Answer(r, rq, <<500>>)
          \/ ns # NoNs /\ AuthOK(ns, cred) /\ live >= DieLimit /\ Issue(r, rq, <<>>)
  /\ UNCHANGED <<store, rollback, live>>

\* Mutant: no return after send_reply(404) for an empty group set.
DeleteRequestProxyCppNoReturn(r) ==
  /\ DeleteHandler = "proxy_cpp"
  /\ req[r].st = "idle"
  /\ \E gs \in SUBSET Groups :
       LET rq == [Idle EXCEPT !.kind = "delete", !.groups = gs]
           empty == IF gs = {} THEN <<404>> ELSE <<>>
       IN \/ live < DieLimit /\ Answer(r, rq, empty \o <<500>>)
          \/ live >= DieLimit /\ Issue(r, rq, empty)
  /\ UNCHANGED <<store, rollback, live>>

\* part_000 562-589: no namespace and no authentication; 404 without
\* groups, 500 below die limit, otherwise remove from every group.
DeleteRequestProxyCpp(r) ==
  /\ DeleteHandler = "proxy_cpp"
  /\ req[r].st = "idle"
  /\ \E gs \in SUBSET Groups :
       LET rq == [Idle EXCEPT !.kind = "delete", !.groups = gs]
       IN \/ gs = {} /\ Answer(r, rq, <<404>>)
          \/ gs # {} /\ live < DieLimit /\ Answer(r, rq, <<500>>)
          \/ gs # {} /\ live >= DieLimit /\ Issue(r, rq, <<>>)
  /\ UNCHANGED <<store, rollback, live>>

\* src/src/delete.cpp 4-73: 400 without a namespace; on failed auth the
\* 401 reply is sent and the handler carries on; 400 when the key has no
\* "/" or its group is not an integer (tokOK false), 404 without groups,
\* 500 below die limit, otherwise remove from every group.
DeleteRequestLegacy(r) ==
  /\ DeleteHandler = "delete_cpp"
  /\ req[r].st = "idle"
  /\ \E ns \in Namespaces \cup {NoNs}, cred \in BOOLEAN, tokOK \in BOOLEAN,
        gs \in SUBSET Groups :
       LET rq == [Idle EXCEPT !.kind = "delete", !.ns = ns, !.auth = cred,
                              !.groups = IF tokOK THEN gs ELSE {}]
           denied == IF AuthOK(ns, cred) THEN <<>> ELSE <<401>>
       IN \/ ns = NoNs /\ Answer(r, rq, <<400>>)
          \/ ns # NoNs /\ ~tokOK /\ Answer(r, rq, denied \o <<400>>)
          \/ ns # NoNs /\ tokOK /\ gs = {} /\ Answer(r, rq, denied \o <<404>>)
          \/ /\ ns # NoNs /\ tokOK /\ gs # {} /\ live < DieLimit
             /\ Answer(r, rq, denied \o <<500>>)
          \/ /\ ns # NoNs /\ tokOK /\ gs # {} /\ live >= DieLimit
             /\ Issue(r, rq, denied)
  /\ UNCHANGED <<store, rollback, live>>

\* Mutant: the error branch logs and returns without send_reply.
DeleteFinishedSilentError(r) ==
  /\ req[r].kind = "delete"
  /\ Completed(r)
  /\ \/ Failed(r) /\ req' = [req EXCEPT ![r].st = "done"] /\ UNCHANGED replies
     \/ ~Failed(r) /\ Complete(r, 200, "none")
  /\ UNCHANGED <<store, rollback, live>>

\* on_finished (the same in all three): 404 for -ENOENT, 500 for any other
\* error, 200 otherwise.
DeleteFinished(r) ==
  /\ req[r].kind = "delete"
  /\ Completed(r)
  /\ \/ Failed(r) /\ \E code \in ErrorCodes(r) : Complete(r, code, "none")
     \/ ~Failed(r) /\ Complete(r, 200, "none")
  /\ UNCHANGED <<store, rollback, live>>

(***************************************************************************)
(* Download info and ping                                                  *)
(***************************************************************************)

\* req_download_info::on_request: 500 when prepare_session throws (a group
\* token lexical_cast rejects), 404 without groups, else lookup with
\* filters::all.
DownloadInfoRequest(r) ==
  /\ req[r].st = "idle"
  /\ \E gs \in SUBSET Groups, malformed \in BOOLEAN :
       LET rq == [Idle EXCEPT !.kind = "dinfo", !.groups = gs]
       IN \/ malformed /\ Answer(r, rq, <<500>>)
          \/ ~malformed /\ gs = {} /\ Answer(r, rq, <<404>>)
          \/ ~malformed /\ gs # {} /\ Issue(r, rq, <<>>)
  /\ UNCHANGED <<store, rollback, live>>

\* The loop of on_finished: the index in slr of the first entry without
\* error (0 when there is none).
FirstGood(r, slr) == SelectInSeq(slr, LAMBDA g : req[r].res[g] = "ok")

\* on_finished: the error code on failure; otherwise the entries of slr
\* (filters::all keeps the failed ones, in the order their answers came)
\* are scanned for the first one without error, whose host() does a
\* reverse DNS lookup that throws (500) when it fails; the body rendered
\* names that entry's group.  The 503 after the loop needs a result without
\* error and without any good entry, which at_least_one excludes.
DownloadInfoFinished(r) ==
  /\ req[r].kind = "dinfo"
  /\ Completed(r)
  /\ \/ Failed(r) /\ \E code \in ErrorCodes(r) : Complete(r, code, "none")
     \/ /\ ~Failed(r)
        /\ \E slr \in SetToSeqs(req[r].groups), dnsOK \in BOOLEAN :
             LET i == FirstGood(r, slr)
             IN  \/ dnsOK /\ CompleteFrom(r, 200, "xml", slr[i])
                 \/ ~dnsOK /\ Complete(r, 500, "none")
  /\ UNCHANGED <<store, rollback, live>>

\* req_ping::on_request: 200 when the session has die_limit live states.
Ping(r) ==
  /\ req[r].st = "idle"
  /\ Answer(r, [Idle EXCEPT !.kind = "ping"], <<IF live < DieLimit THEN 500 ELSE 200>>)
  /\ UNCHANGED <<store, rollback, live>>

(***************************************************************************)
(* Specification                                                           *)
(***************************************************************************)

Init ==
  /\ req = [r \in Req |-> Idle]
  /\ replies = [r \in Req |-> <<>>]
  /\ store = [g \in Groups |-> NoObj]
  /\ rollback = {}
  /\ live \in 0..MaxLive

Arrive(r) ==
  \/ UploadRequest(r)
  \/ GetRequest(r)
  \/ DeleteRequest(r)
  \/ DeleteRequestProxyCpp(r)
  \/ DeleteRequestLegacy(r)
  \/ DownloadInfoRequest(r)
  \/ Ping(r)

Finished(r) ==
  \/ UploadFinished(r)
  \/ GetFinished(r)
  \/ DeleteFinished(r)
  \/ DownloadInfoFinished(r)

Next ==
  \/ \E r \in Req : Arrive(r) \/ Finished(r)
  \/ \E r \in Req, g \in Groups : GroupOp(r, g) \/ RollbackRemove(r, g)
  \/ LiveChange

\* elliptics completes every command, by an answer or by wait_timeout, and
\* the event loop runs every completion handler it is given; clients and
\* storage nodes joining or leaving are not fair.
Fairness ==
  /\ \A r \in Req : WF_vars(Finished(r))
  /\ \A r \in Req, g \in Groups : WF_vars(GroupOp(r, g)) /\ WF_vars(RollbackRemove(r, g))

Spec == Init /\ [][Next]_vars /\ Fairness

(***************************************************************************)
(* Properties                                                              *)
(***************************************************************************)

Sent(r, code) == \E i \in DOMAIN replies[r] : replies[r][i] = code

\* Every request is answered at most once: each handler returns right
\* after send_reply, and an on_request that answered never connects an
\* on_finished (the 401 path of req_delete is the one that must return).
AtMostOneReply == \A r \in Req : Len(replies[r]) <= 1

\* Every request that arrived is eventually answered: every operation the
\* handlers issue completes and its on_finished always sends a reply.
ReplyEventually == \A r \in Req : req[r].st # "idle" ~> replies[r] # <<>>

\* req_delete never sends a remove to the storage for a request that
\* lacks the credentials its namespace requires (check_basic_auth gate).
NoUnauthorizedRemove ==
  \A r \in Req : req[r].kind = "delete" /\ req[r].sent => AuthOK(req[r].ns, req[r].auth)

\* A GET never answers with the packed bytes of an object whose container
\* carries an embedded timestamp: the upload that packed the embed wrote
\* UF_EMBEDS with it, and req_get::on_finished ORs that stored flag into the
\* decision to unpack, whatever the reader's query says (spec 7).  The
\* bytes of a container without embeds are served packed by design.
GetUnpacksEmbeddedObject ==
  \A r \in Req : req[r].kind = "get" /\ req[r].body = "envelope"
                   => req[r].got[req[r].from].ts = NoTs

\* spec 3 (an empty replica-group set means the request cannot proceed):
\* an upload answered 200 has a copy acknowledged by at least one group.
AckedUploadHasCopy ==
  \A r \in Req : req[r].kind = "upload" /\ Sent(r, 200) => Good(r) # {}

\* The remove that remove_on_fail sends after a failed upload undoes that
\* upload's write: it never deletes a copy another upload wrote since.
RollbackUndoesOwnWrite ==
  [][\A r \in Req, g \in Groups :
       (RollbackRemove(r, g) /\ store'[g] = NoObj)
         => (store[g] = NoObj \/ store[g].ver = r)]_vars
\* A failed upload leaves nothing behind: once on_finished has answered
\* 500 and every remove that remove_on_fail sent has been executed, no
\* group holds the object that upload wrote.
FailedUploadLeavesNoCopy ==
  \A r \in Req : /\ req[r].kind = "upload" /\ req[r].sent /\ Sent(r, 500)
                 /\ \A g \in Groups : <<r, g>> \notin rollback
                 => \A g \in Groups : store[g] = NoObj \/ store[g].ver # r

(***************************************************************************)
(* Refinement: every request follows the HttpExchange contract.  A request *)
(* is idle until its on_request runs, done once it has a reply, and        *)
(* dispatched in between (its operation is in flight).                     *)
(***************************************************************************)
ExPhase == [r \in Req |-> IF replies[r] # <<>> THEN "done"
                          ELSE IF req[r].st = "idle" THEN "idle" ELSE "dispatched"]

Exchange == INSTANCE HttpExchange
              WITH phase <- ExPhase, kind <- [r \in Req |-> req[r].kind], reply <- replies

\* The handlers implement HttpExchange: a request answered in on_request
\* gets one dispatch-phase code (400, 401, 404 or 500) and no storage
\* operation; a request whose operation was sent gets exactly one reply,
\* from on_finished, with a code of its endpoint, and always gets it.
ImplementsHttpExchange == Exchange!Spec

=============================================================================
