-------------------------- MODULE ScopeAttribution --------------------------
(***************************************************************************)
(* Which harness operation a model call is charged to.                     *)
(*                                                                         *)
(* An adapter operation wraps its work in ProxyClient.scope: it posts      *)
(* scope/enter, does the work, and posts scope/exit on the way out.  The   *)
(* model calls that reach the proxy meanwhile are resolved against the     *)
(* scopes registered for their client.  Requests and replies travel over   *)
(* HTTP: either may be lost, and a client that has timed out does not take *)
(* its request back.                                                       *)
(***************************************************************************)
EXTENDS Tags, Naturals

CONSTANTS
    Ops,          \* harness operations, each with a scope id of its own (uuid4)
    Client,       \* Client[o]: the client_id whose scopes o uses
    ScopeTags,    \* ScopeTags[o]: the tags o enters its scope with
    StaticTags,   \* StaticTags[o]: the token of the model calls o causes
    Headers,      \* tag maps a model call may carry in its headers
    Values,       \* tag values
    NONE,         \* model value: no client identity
    Stragglers,   \* a memory system may call the model after the operation
                  \* that caused the call has ended
    MaxFaults,    \* bound: lost messages, client timeouts, failed log appends
    MaxRestarts   \* bound: restarts of the proxy

ASSUME ScopeAssumption ==
    /\ NONE \notin Values
    /\ Headers \subseteq TagMaps(Values)
    /\ ScopeTags \in [Ops -> TagMaps(Values)]
    /\ StaticTags \in [Ops -> TagMaps(Values)]
    /\ Client \in [Ops -> Values]
    /\ Stragglers \in BOOLEAN
    /\ MaxFaults \in Nat
    /\ MaxRestarts \in Nat

\* How the adapters use scopes: the scope carries no client_id of its own, the
\* token names the client, and headers never override the client.
ASSUME AdapterAssumption ==
    /\ \A o \in Ops : /\ "client_id" \notin DOMAIN ScopeTags[o]
                      /\ "client_id" \in DOMAIN StaticTags[o]
                      /\ StaticTags[o]["client_id"] = Client[o]
    /\ \A h \in Headers : "client_id" \notin DOMAIN h

VARIABLES
    pc,         \* where each operation is
    requests,   \* scope requests on their way to the proxy: <<kind, op>>
    replies,    \* replies on their way back: <<kind, op, ok>>
    registry,   \* ScopeRegistry._scopes, by scope id (one per operation)
    logged,     \* ghost: the latest MODEL_CALL event (at most one element)
    faults,     \* ghost: faults so far
    restarts    \* ghost: proxy restarts so far

vars == <<pc, requests, replies, registry, logged, faults, restarts>>

\* idle, entering: scope/enter is out; inside: the body of the async with;
\* exiting: scope/exit is out; done: left normally; raised: an HTTP error.
PCs == {"idle", "entering", "inside", "exiting", "done", "raised"}

Kinds == {"enter", "exit"}

\* What of a MODEL_CALL event matters, and whether it was caused inside a scope.
Event == [op : Ops, header : Headers, tags : TagMaps(Values), inScope : BOOLEAN,
          state : {"none", "single", "agree", "ambiguous"}]

-----------------------------------------------------------------------------
Init ==
    /\ pc = [o \in Ops |-> "idle"]
    /\ requests = {}
    /\ replies = {}
    /\ registry = {}
    /\ logged = {}
    /\ faults = 0
    /\ restarts = 0

\* ProxyClient.enter_scope: outside the try of scope().
SendEnter(o) ==
    /\ pc[o] = "idle"
    /\ pc' = [pc EXCEPT ![o] = "entering"]
    /\ requests' = requests \cup {<<"enter", o>>}
    /\ UNCHANGED <<replies, registry, logged, faults, restarts>>

\* scope_enter: register and answer 200.
HandleEnter(o) ==
    /\ <<"enter", o>> \in requests
    /\ requests' = requests \ {<<"enter", o>>}
    /\ registry' = registry \cup {o}
    /\ replies' = replies \cup {<<"enter", o, TRUE>>}
    /\ UNCHANGED <<pc, logged, faults, restarts>>

\* The append of SCOPE_ENTER raises, after the scope was registered: 500.
EnterUnlogged(o) ==
    /\ <<"enter", o>> \in requests
    /\ faults < MaxFaults
    /\ faults' = faults + 1
    /\ requests' = requests \ {<<"enter", o>>}
    /\ registry' = registry \cup {o}
    /\ replies' = replies \cup {<<"enter", o, FALSE>>}
    /\ UNCHANGED <<pc, logged, restarts>>

\* enter_scope: raise_for_status.
ReceiveEntered(o) ==
    /\ pc[o] = "entering"
    /\ \E ok \in BOOLEAN :
         /\ <<"enter", o, ok>> \in replies
         /\ pc' = [pc EXCEPT ![o] = IF ok THEN "inside" ELSE "raised"]
         /\ replies' = replies \ {<<"enter", o, ok>>}
    /\ UNCHANGED <<requests, registry, logged, faults, restarts>>

\* The finally of scope(): the work returned, raised or was cancelled.
SendExit(o) ==
    /\ pc[o] = "inside"
    /\ pc' = [pc EXCEPT ![o] = "exiting"]
    /\ requests' = requests \cup {<<"exit", o>>}
    /\ UNCHANGED <<replies, registry, logged, faults, restarts>>

\* Faulty variant: the exit is dropped without an answer.
HandleExitDropped(o) ==
    /\ <<"exit", o>> \in requests
    /\ requests' = requests \ {<<"exit", o>>}
    /\ UNCHANGED <<pc, replies, registry, logged, faults, restarts>>

\* scope_exit: 404 when the scope is not registered.
HandleExit(o) ==
    /\ <<"exit", o>> \in requests
    /\ requests' = requests \ {<<"exit", o>>}
    /\ registry' = registry \ {o}
    /\ replies' = replies \cup {<<"exit", o, o \in registry>>}
    /\ UNCHANGED <<pc, logged, faults, restarts>>

\* The append of SCOPE_EXIT raises, after the scope was taken out: 500.
ExitUnlogged(o) ==
    /\ <<"exit", o>> \in requests
    /\ o \in registry
    /\ faults < MaxFaults
    /\ faults' = faults + 1
    /\ requests' = requests \ {<<"exit", o>>}
    /\ registry' = registry \ {o}
    /\ replies' = replies \cup {<<"exit", o, FALSE>>}
    /\ UNCHANGED <<pc, logged, restarts>>

\* exit_scope: raise_for_status.
ReceiveExited(o) ==
    /\ pc[o] = "exiting"
    /\ \E ok \in BOOLEAN :
         /\ <<"exit", o, ok>> \in replies
         /\ pc' = [pc EXCEPT ![o] = IF ok THEN "done" ELSE "raised"]
         /\ replies' = replies \ {<<"exit", o, ok>>}
    /\ UNCHANGED <<requests, registry, logged, faults, restarts>>

\* The client gives up (httpx timeout, connection error); whatever is on its
\* way stays on its way, and a reply that comes later finds nobody.
ClientTimeout(o) ==
    /\ pc[o] \in {"entering", "exiting"}
    /\ faults < MaxFaults
    /\ pc' = [pc EXCEPT ![o] = "raised"]
    /\ faults' = faults + 1
    /\ UNCHANGED <<requests, replies, registry, logged, restarts>>

\* The network loses a request or a reply; the client still has to time out.
LoseRequest ==
    /\ faults < MaxFaults
    /\ \E m \in requests : requests' = requests \ {m}
    /\ faults' = faults + 1
    /\ UNCHANGED <<pc, replies, registry, logged, restarts>>

LoseReply ==
    /\ faults < MaxFaults
    /\ \E m \in replies : replies' = replies \ {m}
    /\ faults' = faults + 1
    /\ UNCHANGED <<pc, requests, registry, logged, restarts>>

\* The registry is in the memory of the proxy process.
ProxyRestart ==
    /\ restarts < MaxRestarts
    /\ restarts' = restarts + 1
    /\ registry' = {}
    /\ requests' = {}
    /\ replies' = {}
    /\ UNCHANGED <<pc, logged, faults>>

\* The scopes a call with this token and these headers is resolved against.
ActiveScopes(static, header) ==
    {i \in registry : Client[i] = ClientId(static, header, NONE)}

\* handle_model_request resolves the attribution on arrival; the event is
\* logged with what was resolved then.
ModelCall(o, header) ==
    /\ pc[o] = "inside" \/ (Stragglers /\ pc[o] \in {"exiting", "done", "raised"})
    /\ LET static == StaticTags[o]
           ids    == ActiveScopes(static, header)
           tags   == Attribute(static, Merged(ids, ScopeTags),
                               AmbiguousFields(ids, ScopeTags), header,
                               ClientId(static, header, NONE), NONE)
       IN  logged' = {[op |-> o, header |-> header, tags |-> tags,
                       inScope |-> pc[o] = "inside",
                       state |-> ScopeState(ids, ScopeTags)]}
    /\ UNCHANGED <<pc, requests, replies, registry, faults, restarts>>

Proxy(o)   == HandleEnter(o) \/ HandleExit(o)
Harness(o) == ReceiveEntered(o) \/ SendExit(o) \/ ReceiveExited(o)

Next ==
    \/ \E o \in Ops : \/ SendEnter(o) \/ ClientTimeout(o)
                      \/ EnterUnlogged(o) \/ ExitUnlogged(o)
                      \/ Proxy(o) \/ Harness(o)
                      \/ \E h \in Headers : ModelCall(o, h)
    \/ LoseRequest
    \/ LoseReply
    \/ ProxyRestart

\* The proxy answers what reaches it, and an operation that is inside its
\* scope ends (adapters bound their calls with timeouts).  No fairness for
\* faults, restarts, or for starting operations and calling the model.
Fairness == \A o \in Ops : WF_vars(Proxy(o)) /\ WF_vars(Harness(o))

Spec == Init /\ [][Next]_vars /\ Fairness

-----------------------------------------------------------------------------
TypeOK ==
    /\ pc \in [Ops -> PCs]
    /\ requests \subseteq Kinds \X Ops
    /\ replies \subseteq Kinds \X Ops \X BOOLEAN
    /\ registry \subseteq Ops
    /\ logged \subseteq Event
    /\ faults \in 0..MaxFaults
    /\ restarts \in 0..MaxRestarts

\* "The disagreeing fields are logged as ambiguous and set to null rather than
\* guessed" (README): a call an operation makes inside its scope is never
\* charged to another operation.  Each field its scope defines (and its
\* headers do not) is in the event with the operation's own value or not at
\* all, however many operations overlap on the client and whatever requests
\* and replies were lost, timed out or answered with an error, as long as the
\* proxy is not restarted.  It does not speak of fields its scope lacks: those may
\* come from another scope (tags.py:223).
NoWrongAttribution ==
    restarts = 0 =>
        \A e \in logged : e.inScope =>
            \A f \in (DOMAIN ScopeTags[e.op] \cap DOMAIN e.tags) \ DOMAIN e.header :
                e.tags[f] = ScopeTags[e.op][f]

\* Ambiguity is always announced: an event of a call inside a scope that lacks
\* a field of that scope says so in its scope_state, so that an analysis that
\* sets the ambiguous events apart has the exact cost of all the others.
ExactUnlessAmbiguous ==
    restarts = 0 =>
        \A e \in logged : (e.inScope /\ e.state # "ambiguous") =>
            \A f \in DOMAIN ScopeTags[e.op] \ DOMAIN e.header :
                f \in DOMAIN e.tags /\ e.tags[f] = ScopeTags[e.op][f]

\* As long as nothing is lost and nobody times out, every scope that is
\* entered is exited.
ScopesDrain == \A o \in Ops : o \in registry ~> (o \notin registry \/ faults > 0)
=============================================================================
