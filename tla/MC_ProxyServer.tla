--------------------------- MODULE MC_ProxyServer ---------------------------
(* ProxyServer with paths of up to two tokens after the leading '/', over *)
(* the tokens of the route table and one foreign token, and configuration *)
(* sections present, missing or invalid.                                   *)
EXTENDS ProxyServer

CONSTANTS n1, n2

PathTokens == {"/", "upload", "get", "delete", "download_info", "download-info",
               "stat", "-log", "_log", "ping", "cache", "x"}

MCPaths == {<<"/">> \o t : t \in {<<>>} \cup {<<a>> : a \in PathTokens}
                                       \cup {<<a, b>> : a, b \in PathTokens}}

MCQueries == {<<>>, <<"x">>, <<"bad-groups", "group-weights">>,
              <<"cache-groups", "symmetric-groups">>,
              <<"cache-groups", "bad-groups", "symmetric-groups", "group-weights">>}

MCNsNames == {n1, n2}

MCNsCfgs == {Missing, <<[name |-> n1, valid |-> TRUE]>>,
             <<[name |-> n1, valid |-> TRUE], [name |-> n2, valid |-> FALSE]>>}

MCLogCfgs == {"none", "proxy-log", "elliptics-log"}
MCRemoteCfgs == {Missing, 0, 1}
MCMastermindCfgs == {Missing, NoNodes, "ok"}
MCDieLimitCfgs == {Missing, 2}
MCUnsetDieLimits == {0, 2}
====
