# TLA+ models of the mediastorage proxy

The mediastorage proxy is an HTTP gateway in front of an elliptics cluster.
This directory holds TLA+ models of its request handlers and of the process
around them (start-up, routing, the introspection endpoints). It also holds the
TLC configurations that check them and `PROJECT.json`, which lists the
components, runs, mutants, the definition-to-source map, findings and hazards.

## 1. Inventory

### Components and their state

| Component | Source | State it keeps | Operations |
|---|---|---|---|
| Bootstrap and routing | `part_000` 252-286, 34-190 | loggers, the elliptics session template, mastermind handle, namespace table, die limit (all written once) | `initialize`, `generate_*`, route registration `on<...>` |
| Namespace registry | `part_000` 145-190, 846-850 | `name -> {groups_count, result_checker, auth_key}` | lookup by name, with the empty `namespace_t` for an unknown name |
| Replica-group resolution | `part_000` 192-211, 842-895 | none (per request) | `get_filename`, `get_file_info`, `prepare_session`, `groups_for_upload` |
| Upload handler | `part_000` 226-246, 288-480 | per request: cloned session (groups, checker, user flags, error handler), key, packed content | `on_request`, `on_finished` |
| Get handler | `part_000` 482-560 | per request: query list | `on_request`, `on_finished` |
| Delete handler (three versions) | `part_000` 562-600, 913-971; `src/src/delete.cpp` 4-84 | none beyond the session | `on_request`, `on_finished` |
| Download-info handler | `part_000` 602-681 | none | `on_request`, `on_finished` |
| Ping, cache, stat-log handlers | `part_000` 683-828 | none | `on_request` (and `on_finished` for stat-log) |
| Lookup result decoder | `src/src/lookup_result.cpp` | memoized host/port/addr/path strings | constructor, accessors, `file_backend_get_dir` |
| Data container codec | not under `src/` (spec 4.1) | none | `pack`, `unpack` |
| External: elliptics client, mastermind | not in the repository | the stored copies per group, live connections, balancer tables | write/read/remove/lookup per group, checkers, `remove_on_fail` |

### How the components interact

Every handler clones the session template (`get_session`, line 830). The
clone gets the handler's groups, checker and flags, so requests never share
session state. `on_request` runs to completion in one step. It either calls
`send_reply` and returns, or it starts one asynchronous elliptics operation and
connects `on_finished` to it. The storage client sends the command to every
group of the session. When all groups have answered or timed out, the
session's checker decides whether the whole operation failed:

- `all` means every group succeeded.
- `quorum` means more than half succeeded.
- `at_least_one` means one group succeeded. It is the default and the policy `any`.

Then `on_finished` runs. For uploads, a failed check also triggers the
`remove_on_fail` error handler installed by `write()` (line 232). It removes
the key from the groups that acknowledged the write.

### What is hard

- Many requests are in flight at once, and the commands of different
  requests reach each group in any order. An upload's rollback can hit
  another upload's copy of the same key.
- Partial failure: some groups succeed while others fail or time out. A
  timed-out command may still have been applied.
- The handlers have many early-return and exception paths. Each must send
  exactly one reply.
- GET decides whether to decode the data container from a flag written by an
  earlier, independent upload.
- URL parsing uses `std::string::npos` arithmetic.

### Properties that make each component correct

- All handlers: one reply per request, and every request answered.
- Delete and upload: no mutation of storage for an unauthenticated request
  to a namespace with an auth key.
- Upload: a 200 reply means the namespace's policy was met by the groups that
  acknowledged. A failed upload's rollback removes only what it wrote.
- Get: a container written with embeds is always decoded, whatever the
  reader's query flags. 304 only for the exact stored timestamp.
- Download-info: the spec's 503 when every entry fails.
- Start-up: a handler never dereferences a member a failed `initialize` left
  unset. The route table is unambiguous. `/cache` renders its fields in the
  fixed order.
- Group resolution: unique group ids. The namespace parsed as the spec says.

## 2. Plan

Steps 1, 3, 4 and 5 are done and step 2 is done in part. LookupResult was
added along the way.

1. **ProxyRequests**. Upload, get, the three delete handlers,
   download-info and ping run concurrently against replicated groups, with the
   storage client as environment. This is the system's most important
   behaviour: concurrency, partial failure and replies.
2. **Write modes**. Offsets and the per-part user flags are done
   (`multipart_embeds`), and so is the property on copies left by failed
   uploads (`failed_upload_copy`). The modes themselves differ only in how
   elliptics treats uncommitted records, which is not modelled.
3. **UrlParse** (pure operators, RECURSIVE over small character sequences).
   It covers `get_filename`, the `prepare_session` index arithmetic, and the
   group concatenation as sequences. They are checked against a reference
   definition from spec 4.3 over all short URLs of a small alphabet.
4. **Abstract contract**: `HttpExchange` is the per-request contract of
   spec 4.4, 7 and 9, and ProxyRequests refines it (`INSTANCE ... WITH`).
   An abstract atomic object store is not attempted, because the failed-upload
   and rollback-race runs show the replicated store is not atomic.
5. **ProxyServer**: `initialize` with its swallowed exceptions and its
   logger steps, the route
   table as an ordered first-match operator, and the ping, cache and stat-log
   handlers. The stat-log XML formatting (MiB conversions, load averages) is
   left out: no property is about it.

## 3. ProxyRequests

### State

| Variable | Code |
|---|---|
| `req[r]` | the handler object of request `r` and its cloned session: kind, namespace, credentials presented, groups, embedded timestamp, query embed flags, If-Modified-Since, whether the async operation was sent, the per-group results (`res`) and read copies (`got`) |
| `replies[r]` | the codes passed to `send_reply`, in order |
| `store[g]` | the copy of the (single) object in group `g`: writer, embedded timestamp, `UF_EMBEDS` flag |
| `rollback` | removes sent by `remove_on_fail` that have not reached their group |
| `live` | `session.state_num()` |

### Actions

| Action | Code |
|---|---|
| `UploadRequest` / `UploadFinished` | `req_upload::on_request` / `on_finished` |
| `GetRequest` / `GetFinished` | `req_get::on_request` / `on_finished` |
| `DeleteRequest` | the namespace-aware handler, `part_000` 913-960 |
| `DeleteRequestProxyCpp` | `part_000` 562-589 |
| `DeleteRequestLegacy` | `src/src/delete.cpp` 4-73 |
| `DeleteFinished` | `on_finished`, identical in the three versions (mapped to `delete.cpp` 75-84) |
| `DownloadInfoRequest` / `DownloadInfoFinished` | `req_download_info` |
| `Ping` | `req_ping::on_request` |
| `GroupOp`, `RollbackRemove`, `LiveChange` | the environment: one command executed by one group, a rollback remove arriving, nodes connecting or leaving |

The repository holds three versions of `req_delete::on_request`, and only one
can be linked. The constant `DeleteHandler` picks the build.

### Abstractions

- All requests name the same object: the interesting races are on one key.
- The group set and namespace a request resolves to are inputs chosen
  from every possibility. This includes no namespace and the empty set.
- Malformed query arguments that `boost::lexical_cast` rejects are one
  boolean input.
- The payload is its writer's id. An upload's `offset` is 0 or "a later
  part" (1). A write at a nonzero offset keeps the bytes at offset 0, and with
  them the container and its writer. It still writes its own user flags: the
  elliptics io attribute carries `user_flags` on every write.
- The entries of a lookup result come in the order the groups answered.
  `DownloadInfoFinished` tries every order (`SetToSeqs`) and renders the
  first entry without error (`FirstGood`). The group it names is kept in
  `req[r].from`. Reverse DNS failure in `lookup_result::host()` on that
  entry is a nondeterministic 500.
- The data container follows spec 3 and 4.1. Every upload stores
  `pack(dc)`, whose bytes begin with the embed count even when it is 0.
  `unpack(bytes, true)` parses that container and finds its timestamp
  (`Unpacked`). `unpack(bytes, false)` takes the whole stream as payload,
  so the GET body is the packed bytes (`"envelope"`), and there is no
  timestamp. A body is only `"payload"` when it was unpacked. Since every
  stored object is `pack` output, the decode error of a malformed embed
  region cannot arise.
- `req[r].from` keeps the group whose copy a GET served, or the group a
  download-info reply names.
- Elliptics reports one failed group's status as the error. ENOENT maps
  to 404 and anything else to 500.

### Fairness

Weak fairness applies to `GroupOp`, `RollbackRemove` and the completion
callbacks (`Finished`). elliptics ends every command with an answer or with
`wait_timeout`, and the event loop runs every callback it is handed. Request
arrivals and connection changes are not fair.

### Runs

Bounds are 2 requests, 2 groups, 1 namespace with an auth key and
`groups-count` 2, timestamps {0}, die limit 1 and up to 1 live connection.
Two requests are enough for every pairwise race: upload/upload,
upload/rollback, get/upload and delete/upload. Two groups let a write succeed
in one group and fail in the other. A run takes about a minute and reaches
about 280 000 states.

| Run | Expect | Shows |
|---|---|---|
| `core` (`MC_ProxyRequests.cfg`) | pass | namespace delete, `all` policy: `TypeOK`, `AtMostOneReply`, `NoUnauthorizedRemove`, `GetUnpacksEmbeddedObject`, `ReplyEventually` |
| `delete_proxy_cpp` | pass | proxy.cpp delete, `quorum` policy: `AtMostOneReply`, `ReplyEventually` |
| `delete_legacy_live` | pass | delete.cpp, `any` policy: `ReplyEventually` (it still answers, but see below) |
| `legacy_unauth_remove` | violation | delete.cpp removes after answering 401 (and then answers a second time) |
| `upload_empty_groups` | violation | an upload with no groups is answered 200 under `all` |
| `rollback_race` | violation | `remove_on_fail` deletes a concurrent upload's copy |
| `failed_upload_copy` | violation | a write that timed out but was applied survives the 500, because `remove_on_fail` only removes from acknowledged groups |
| `multipart_embeds` | violation | a later part without `embed` clears `UF_EMBEDS`; a GET without embed flags then serves the packed bytes of an object that has a timestamp (`GetUnpacksEmbeddedObject`; 3 requests, 1 group, about 2 minutes) |

`delete_proxy_cpp` also checks `ImplementsHttpExchange` (section 6).

`GetUnpacksEmbeddedObject` says that a GET never answers with the packed
bytes of an object whose container holds a timestamp. Per spec 4.1 and 8,
a container without embeds read without the flag is served packed; that is
by design and allowed. Breaking the property takes an upload with `embed`,
then a GET without embed flags whose on_finished ignores the stored
`UF_EMBEDS`. Its mutant does exactly that.

With two groups, `quorum` (more than half) is the same as `all`. So
`delete_proxy_cpp`'s `quorum` namespace shows nothing that `all` does not. A
third group would let the two differ, but it takes the ProxyRequests runs
past the time a run may take.

Three divergences are recorded here without runs of their own:
- Download-info's `send_reply(503)` after the loop is unreachable: with the
  session's default `at_least_one` checker, a lookup whose entries all failed
  completes with an error, so the reply is 404 or 500 where spec 8 says 503.
  `AllLookupsFailedIs503` showed it in an earlier run. That run was retired
  in favour of `server` (section 7).
- `req_upload::on_request` never calls `check_basic_auth`, while spec 4.4
  says upload is authenticated like delete. The missing call is plain in
  the handler.
- The delete.cpp 401 branch's second reply is the same missing `return`
  that `legacy_unauth_remove` shows.

Each property of a passing run has a mutant in `PROJECT.json`: a plausible
coding slip that TLC must catch. Examples are a missing `return` after
`send_reply`, a missing auth gate, an error branch without a reply, ignoring
`UF_EMBEDS`, and sending the raw elliptics status as the HTTP code.

## 4. LookupResult

`LookupResult.tla` models one `elliptics::lookup_result` object
(`src/src/lookup_result.cpp`).

| Variable | Code |
|---|---|
| `entry`, `signPort` | `m_entry`, `m_sign_port` (constructor, lines 29-33) |
| `m` | the `mutable boost::optional` members `m_host`, `m_port`, `m_addr`, `m_path`, `m_full_path` |
| `dns` | what `getnameinfo` would answer now for the storage address |
| `out` | the values each accessor has returned |

`Host`, `Port`, `Addr`, `Path` and `FullPath` are `Memo` calls: the value is
computed only on a miss. On a miss with failing DNS, `Host` throws and
memoizes nothing. `Group` and `Status` read the entry on every call.
`DnsChange` is the resolver changing its answer. Strings are abstracted to
their parts: host is `<<name>>` or `<<name, sign_port>>`, and path is
`<<file, offset, size>>`.

`file_backend_get_dir` is the operator `FileBackendGetDir`. It works over
ids of `IdBytes` = 2 bytes, modelled as hex-digit sequences, with
`dnet_dump_id_len_raw` writing `%02x` per byte and then a NUL. It is
unused in this repository.

Run `lookup_result` (pass, 9 216 states):
- `TypeOK` checks that host() never answers anything but a resolved name.
- `HostStable` checks that every accessor answers the same on every call,
  while DNS changes and fails.
- `DirIsTopDigits` checks that the directory is exactly the id's first
  `bit_num/4` hex digits of the entry's id, for every `bit_num` in 0..16.

## 5. UrlParse

`UrlParse.tla` holds `get_filename` and the parsing part of
`prepare_session` (up to `boost::lexical_cast<int>`) as pure operators.
`Find` and `Substr` follow `std::string`. `size_t` arithmetic wraps at
2^`SizeBits` (5 bits). That keeps npos + 1 = 0 and 0 - 1 = npos as on 64
bits, since every URL is shorter than 31 characters. The single variable
`url` holds the parts of a URL built by the route grammar:
- `/<verb>[-<ns>]/<file>[?<query>]`
- `/<verb>/<group>/<file>[?<query>]`
- `/<verb>/<group>` and `/<verb>[-<ns>]`, which lack the file segment.

The grammar is the reference the operators are checked against. Tokens are
sequences over `a`, `1`, `-`, `/` and `+`. There are 9 216 URLs of up to
11 characters, and file names contain every two-character mix of `a`, `-`
and `/`.

| Run | Expect | Shows |
|---|---|---|
| `url_grammar` | pass | `TypeOK` (no `substr` throws on any URL), `GetFilenameFollowsGrammar`, `PrepareSessionFollowsGrammar` |
| `url_dash_in_file` | violation | `/1/-`: a `-` in the file name gives the empty namespace (400) instead of `default` |

A read URL without a file segment, such as `/get/1`, parses without an
exception (`TypeOK`). However, npos + 1 wraps to 0: the group token is
`1` and the key is the whole URL `/get/1`. Spec 4.3 instead sends an
unparsable path on with an empty group set.

## 6. HttpExchange and the refinement

`HttpExchange.tla` is the abstract contract of a request (spec 4.4, 7, 9):
- idle, then `Reject` with a dispatch-phase code (400, 401, 404 or 500, and
  ping's 200);
- or `Dispatch` and later `Respond` with one code of the endpoint;
- weak fairness on `Respond`.

ProxyRequests maps onto it:
- `phase` is "done" once a reply was sent, "idle" before `on_request`, and
  "dispatched" in between;
- `kind` is the handler;
- `reply` is `replies`.

`ImplementsHttpExchange` (`Exchange!Spec` as a PROPERTY) therefore checks
four things together:
- dispatch-phase codes come only from `on_request`;
- completion codes fit the endpoint;
- a request gets one reply;
- every dispatched request completes.

The delete.cpp build cannot refine it: its 401 branch answers and then dispatches (`legacy_unauth_remove`).

## 7. ProxyServer

`ProxyServer.tla` models the process around the handlers (`part_000`):
- `proxy::initialize` with the `generate_*` steps it calls;
- the route table;
- the handlers that read what `initialize` left: ping, cache and stat-log;
- the first steps of upload and of the `prepare_session` handlers.

| Variable | Code |
|---|---|
| `conf` | the configuration `initialize` was given (it never changes) |
| `logger` | whether `m_proxy_logger` was set |
| `session` | `m_elliptics_session`: `None` (empty optional) or its `state_num()` |
| `mm` | `m_mastermind`: `None` (null) or the version of its tables |
| `ns` | the names in `m_namespaces` |
| `dieLimit` | `m_die_limit` |
| `req[r]` | the request on connection `r`: path, routed handler, cache query, position and comma flag `g` of the cache loop, body, stat result, reply code |
| `crashed` | `None`, or the handler and member of a dereference of an unset member |

**Init** is the state after `initialize(c)` for any configuration `c` of
`Configs`. In a configuration, each section is present, missing or invalid:
- no logger throws, or the proxy's or the elliptics one's does;
- no `remotes`, or 0 or 1 reachable remote;
- no `mastermind`, no `nodes`, or valid;
- no `namespaces`, one valid namespace, or a valid one followed by an invalid one;
- `die-limit` absent or 2.

The steps run in the code's order (`InitSteps`): `generate_logger` for
proxy, elliptics and mastermind, then `generate_session`,
`generate_mastermind` and `generate_namespaces`. `generate_logger` builds a
`swarm::logger` from `<name>-log`. Whether that constructor throws (for
example on a path it cannot open) is up to swarm, so the configuration says
which logger throws. The first that throws ends
the `try` block. Members set before it keep their value, and the later ones
stay unset. `m_die_limit` is then whatever the constructor left there. The
constructor is not in the repository, so the model takes any of
`UnsetDieLimits`. The routes are registered whatever happened.

**Actions.**
- `Receive` is a connection delivering a path, routed first-match by `Routes`.
- `NoRoute` is swarm's own 404.
- `Ping`.
- `Cache`: one `has_item`/`json_*` step per flag (`CacheField`), then the reply.
- `StatLogRequest` and `StatLogCompletion`.
- `Upload`: `get_session`, `get_file_info`, then `groups_for_upload`.
- `PrepareSessionHandler`: get, download-info and the proxy.cpp delete up to
  their groups.
- `Close` frees the connection.
- `MastermindUpdate` is mastermind's own refresh thread.

Every handler's first statement logs through `server()->logger()`, which
dereferences `m_proxy_logger` (`Logged`). A handler that reaches an unset
member ends the process (`Crash`). An empty
`boost::optional` or a null `shared_ptr` dereference is undefined behaviour,
and the `catch (...)` around `prepare_session`'s mastermind calls does not
catch it. What a handler does after its first step (`Handed`) is modelled
in ProxyRequests.

Paths are sequences of path tokens: `/`, `upload`, `get`, `stat`, `-log` and
so on, plus a foreign token `x`. `/stat` is then a prefix of `/stat-log`, as
it is in the strings. Every path of up to three tokens is tried (157 paths).
The cache queries include the spec's `bad-groups` then `group-weights` and
all four flags in reverse order.

**Bounds.**
- One connection. The handlers share nothing they write: the session is
  cloned per request and the members are read-only after `initialize`. The
  only concurrency that matters is mastermind's refresh, one (`MaxUpdates`).
- **Fairness:** weak fairness on each handler step, because the event loop
  runs what it is given. Receive and Close are not fair.
- `CHECK_DEADLOCK FALSE`, because a crashed process really stops.

Run `server` (pass, 114 068 states, about 15 seconds):
- `TypeOK`.
- `RoutesDisjoint`: at most one route matches any path, so the
  registration order never decides the handler.
- `UploadNeverReachesMissingBalancer`: an upload never dereferences the
  missing mastermind. `initialize` creates it before the namespace table,
  so without it the table is empty and the upload is answered 400 first.
- `CacheBodyInFixedOrder`: the body's members are exactly the requested
  flags, in the code's fixed order, with one comma between two of them,
  while the tables refresh between the fields.
- `AnsweredUnlessCrashed`: every routed request is answered unless the
  process crashed.

Reachable in the model, though no property forbids it:
- Without a proxy logger, every handler crashes on its first log call.
- After a later failed step, get, download-info, the proxy.cpp delete,
  cache, ping and stat-log crash on the unset session or mastermind.
- After a failed start, ping's answer depends on the unassigned
  `m_die_limit`.
- One `/cache` body can show tables from two different refreshes.

The spec states nothing about start-up failure and promises live tables,
not a snapshot, so these are listed as hazards.

## 8. Not modelled (yet)

- What `generate_node` puts in the `dnet_config`: the wait and check
  timeouts and the flags. They only decide when a storage command times
  out, and ProxyRequests takes that as a nondeterministic failure of
  `GroupOp`. The log paths and masks of `generate_logger` matter only
  through whether the logger is built.
- The stat-log XML per node (load averages, MiB sizes, hex fsid) is
  formatting. It is abstracted to the number of `<stat>` elements.
- The differences between `prepare`, `commit` and `plain_write` beyond the
  offset. They lie in how elliptics stores uncommitted records.
- The balancer's group tables. prepare_session's concatenation of symmetric
  and cache groups can only repeat a group if mastermind lists it in both.
- The namespace-aware delete's `get_namespace` is not in the repository.
  Its URL parsing, and with it the spec's `/delete/bar` scenario, cannot be
  checked.
- The elliptics client and mastermind are external and appear only as
  the environment.
