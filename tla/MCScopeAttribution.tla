------------------------ MODULE MCScopeAttribution ------------------------
(* Values for model checking ScopeAttribution.                            *)
EXTENDS ScopeAttribution, TLC

CONSTANTS o1, o2, o3

\* Two operations of one memory system on different sessions (they share its
\* client id), and one of another system.
MCOps == {o1, o2, o3}
MCClient == (o1 :> "mem0") @@ (o2 :> "mem0") @@ (o3 :> "zep")
MCValues == {"mem0", "zep", "s1", "s2", "write", "read", "embed"}

MCScopeTags ==
    (o1 :> [operation |-> "write", session_id |-> "s1"]) @@
    (o2 :> [operation |-> "read",  session_id |-> "s2"]) @@
    (o3 :> [operation |-> "write", session_id |-> "s2"])

\* Static tokens: a client per system, with a default operation in one.
MCStaticTags ==
    (o1 :> [system |-> "mem0", client_id |-> "mem0", operation |-> "write"]) @@
    (o2 :> [system |-> "mem0", client_id |-> "mem0", operation |-> "write"]) @@
    (o3 :> [system |-> "zep",  client_id |-> "zep"])

\* Calls without headers, and calls that name their own operation.
MCHeaders == {NoTags, [operation |-> "embed"]}
=============================================================================
