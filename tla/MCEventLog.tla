----------------------------- MODULE MCEventLog -----------------------------
(* Values for model checking EventLog.                                      *)
EXTENDS EventLog

Proxy  == [fsync |-> FALSE, stableId |-> FALSE, readsFirst |-> FALSE]
Runner == [fsync |-> TRUE, stableId |-> TRUE, readsFirst |-> TRUE]
ProxyAndRunner == {Proxy, Runner}
=============================================================================
