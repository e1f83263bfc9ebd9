----------------------- MODULE ScopeAttributionProofs -----------------------
(***************************************************************************)
(* ScopeAttribution for any number of operations, clients, tag values,     *)
(* faults and restarts: type correctness, NoWrongAttribution and           *)
(* ExactUnlessAmbiguous.                                                   *)
(***************************************************************************)
EXTENDS ScopeAttribution, TLAPS

-----------------------------------------------------------------------------
(* What resolving an attribution returns.                                  *)

\* A field that one of the active scopes has is either merged with a value of
\* one of them or ambiguous (ScopeRegistry.resolve drops no field silently).
LEMMA FieldMergedOrAmbiguous ==
    ASSUME NEW ids, NEW tags, NEW i \in ids,
           NEW f \in TagFields, f \in DOMAIN tags[i]
    PROVE  \/ f \in AmbiguousFields(ids, tags)
           \/ /\ f \in DOMAIN Merged(ids, tags)
              /\ Merged(ids, tags)[f] = tags[i][f]
<1> DEFINE vs == ValuesOf(f, ids, tags)
<1>1. tags[i][f] \in vs
  BY DEF ValuesOf, Holders
<1>2. CASE Agreed(f, ids, tags)
  <2>1. vs = {tags[i][f]}
    BY <1>1, <1>2 DEF Agreed
  <2>2. f \in DOMAIN Merged(ids, tags)
    BY <1>2 DEF Merged
  <2>3. Merged(ids, tags)[f] = CHOOSE v \in vs : TRUE
    BY <1>2 DEF Merged
  <2>4. (CHOOSE v \in vs : TRUE) \in vs
    BY <1>1
  <2> QED BY <2>1, <2>2, <2>3, <2>4
<1>3. CASE ~Agreed(f, ids, tags)
  BY <1>1, <1>3 DEF AmbiguousFields
<1> QED BY <1>2, <1>3

\* A field that is not ambiguous and that no header overrides has, in the
\* resolved tags, the value the scopes agree on, whatever the token says.
LEMMA ScopeBeatsToken ==
    ASSUME NEW static, NEW scope, NEW ambiguous, NEW header, NEW client, NEW none,
           NEW v, NEW f,
           f # "client_id", f \notin DOMAIN header,
           f \in ambiguous \/ (f \in DOMAIN scope /\ scope[f] = v),
           f \in DOMAIN Attribute(static, scope, ambiguous, header, client, none)
    PROVE  Attribute(static, scope, ambiguous, header, client, none)[f] = v
<1> DEFINE kept == ((DOMAIN static \cup DOMAIN scope) \ ambiguous) \cup DOMAIN header
<1>1. f \in kept
  BY DEF Attribute
<1>2. f \in DOMAIN scope /\ scope[f] = v
  BY <1>1
<1> QED BY <1>1, <1>2 DEF Attribute

\* A field of the scopes that is not ambiguous is in the resolved tags.
LEMMA UnambiguousIsKept ==
    ASSUME NEW static, NEW scope, NEW ambiguous, NEW header, NEW client, NEW none,
           NEW f \in DOMAIN scope, f \notin ambiguous
    PROVE  f \in DOMAIN Attribute(static, scope, ambiguous, header, client, none)
BY DEF Attribute

\* When there are scopes and the state is not "ambiguous", no field is: with a
\* single scope there is nothing to disagree with.
LEMMA StateTellsAmbiguity ==
    ASSUME NEW ids, NEW tags, ids # {}, ScopeState(ids, tags) # "ambiguous"
    PROVE  AmbiguousFields(ids, tags) = {}
<1>1. CASE \E i \in ids : ids = {i}
  <2>1. PICK i \in ids : ids = {i}
    BY <1>1
  <2>2. ASSUME NEW f \in TagFields, ValuesOf(f, ids, tags) # {}
        PROVE  Agreed(f, ids, tags)
    <3>1. ValuesOf(f, ids, tags) = {tags[i][f]}
      BY <2>1, <2>2 DEF ValuesOf, Holders
    <3> QED BY <3>1 DEF Agreed
  <2> QED BY <2>2 DEF AmbiguousFields
<1>2. CASE ~(\E i \in ids : ids = {i})
  BY <1>2 DEF ScopeState
<1> QED BY <1>1, <1>2

\* Merging keeps to the tag fields and to values the scopes have.
LEMMA MergedType ==
    ASSUME NEW ids, NEW V, NEW tags, \A i \in ids : tags[i] \in TagMaps(V)
    PROVE  Merged(ids, tags) \in TagMaps(V)
<1> DEFINE D == {g \in TagFields : Agreed(g, ids, tags)}
<1>1. \A f \in D : (CHOOSE v \in ValuesOf(f, ids, tags) : TRUE) \in V
  <2> TAKE f \in D
  <2>1. PICK v \in ValuesOf(f, ids, tags) : TRUE
    BY DEF Agreed
  <2>2. (CHOOSE w \in ValuesOf(f, ids, tags) : TRUE) \in ValuesOf(f, ids, tags)
    BY <2>1
  <2>3. ValuesOf(f, ids, tags) \subseteq V
    <3>1. \A i \in ids : f \in DOMAIN tags[i] => tags[i][f] \in V
      BY DEF TagMaps
    <3> QED BY <3>1 DEF ValuesOf, Holders
  <2> QED BY <2>2, <2>3
<1>2. Merged(ids, tags) \in [D -> V]
  BY <1>1 DEF Merged
<1>3. D \in SUBSET TagFields
  OBVIOUS
<1> QED BY <1>2, <1>3 DEF TagMaps

LEMMA AttributeType ==
    ASSUME NEW V, NEW static \in TagMaps(V), NEW scope \in TagMaps(V),
           NEW header \in TagMaps(V), NEW ambiguous,
           NEW none, NEW client \in V \cup {none}
    PROVE  Attribute(static, scope, ambiguous, header, client, none) \in TagMaps(V)
<1> DEFINE kept  == ((DOMAIN static \cup DOMAIN scope) \ ambiguous) \cup DOMAIN header
           ident == IF client # none THEN {"client_id"} ELSE {}
           D     == kept \cup ident
<1>1. /\ DOMAIN static \subseteq TagFields /\ \A f \in DOMAIN static : static[f] \in V
      /\ DOMAIN scope \subseteq TagFields /\ \A f \in DOMAIN scope : scope[f] \in V
      /\ DOMAIN header \subseteq TagFields /\ \A f \in DOMAIN header : header[f] \in V
  BY DEF TagMaps
<1>2. D \in SUBSET TagFields
  BY <1>1 DEF TagFields
<1>3. Attribute(static, scope, ambiguous, header, client, none) \in [D -> V]
  BY <1>1 DEF Attribute
<1> QED BY <1>2, <1>3 DEF TagMaps

LEMMA ClientIdType ==
    ASSUME NEW V, NEW static \in TagMaps(V), NEW header \in TagMaps(V), NEW none
    PROVE  ClientId(static, header, none) \in V \cup {none}
BY DEF ClientId, TagMaps

-----------------------------------------------------------------------------
(* Type correctness.                                                       *)

LEMMA TypeInit == Init => TypeOK
BY ScopeAssumption DEF Init, TypeOK, PCs

LEMMA ModelCallType ==
    ASSUME TypeOK, NEW o \in Ops, NEW h \in Headers, ModelCall(o, h)
    PROVE  logged' \subseteq Event
<1> DEFINE static == StaticTags[o]
           ids    == ActiveScopes(static, h)
           client == ClientId(static, h, NONE)
           tags   == Attribute(static, Merged(ids, ScopeTags),
                               AmbiguousFields(ids, ScopeTags), h, client, NONE)
<1>1. static \in TagMaps(Values) /\ h \in TagMaps(Values)
  BY ScopeAssumption
<1>2. client \in Values \cup {NONE}
  BY <1>1, ClientIdType
<1>3. Merged(ids, ScopeTags) \in TagMaps(Values)
  <2>1. \A i \in ids : ScopeTags[i] \in TagMaps(Values)
    BY ScopeAssumption DEF ActiveScopes, TypeOK
  <2> QED BY <2>1, MergedType
<1>4. tags \in TagMaps(Values)
  BY <1>1, <1>2, <1>3, AttributeType
<1>5. ScopeState(ids, ScopeTags) \in {"none", "single", "agree", "ambiguous"}
  BY DEF ScopeState
<1>6. logged' = {[op |-> o, header |-> h, tags |-> tags, inScope |-> pc[o] = "inside",
                  state |-> ScopeState(ids, ScopeTags)]}
  BY DEF ModelCall
<1> QED BY <1>4, <1>5, <1>6 DEF Event

LEMMA TypeNext == TypeOK /\ [Next]_vars => TypeOK'
<1> SUFFICES ASSUME TypeOK, [Next]_vars PROVE TypeOK'
  OBVIOUS
<1> USE DEF TypeOK, Kinds, PCs
<1>1. ASSUME NEW o \in Ops, SendEnter(o) PROVE TypeOK'
  BY <1>1 DEF SendEnter
<1>2. ASSUME NEW o \in Ops, ClientTimeout(o) PROVE TypeOK'
  BY <1>2, ScopeAssumption DEF ClientTimeout
<1>3. ASSUME NEW o \in Ops, HandleEnter(o) PROVE TypeOK'
  <2>1. <<"enter", o, TRUE>> \in Kinds \X Ops \X BOOLEAN
    OBVIOUS
  <2>2. replies' \subseteq Kinds \X Ops \X BOOLEAN
    BY <1>3, <2>1 DEF HandleEnter
  <2> QED BY <1>3, <2>2 DEF HandleEnter
<1>4. ASSUME NEW o \in Ops, HandleExit(o) PROVE TypeOK'
  <2> DEFINE ok == o \in registry
  <2>1. ok \in BOOLEAN
    OBVIOUS
  <2>2. <<"exit", o, ok>> \in Kinds \X Ops \X BOOLEAN
    BY <2>1
  <2>3. replies' \subseteq Kinds \X Ops \X BOOLEAN
    BY <1>4, <2>2 DEF HandleExit
  <2> QED BY <1>4, <2>3 DEF HandleExit
<1>13. ASSUME NEW o \in Ops, EnterUnlogged(o) PROVE TypeOK'
  <2>1. replies' \subseteq Kinds \X Ops \X BOOLEAN
    <3>1. <<"enter", o, FALSE>> \in Kinds \X Ops \X BOOLEAN
      OBVIOUS
    <3> QED BY <1>13, <3>1 DEF EnterUnlogged
  <2>2. faults' \in 0..MaxFaults
    BY <1>13, ScopeAssumption DEF EnterUnlogged
  <2> QED BY <1>13, <2>1, <2>2 DEF EnterUnlogged
<1>14. ASSUME NEW o \in Ops, ExitUnlogged(o) PROVE TypeOK'
  <2>1. replies' \subseteq Kinds \X Ops \X BOOLEAN
    <3>1. <<"exit", o, FALSE>> \in Kinds \X Ops \X BOOLEAN
      OBVIOUS
    <3> QED BY <1>14, <3>1 DEF ExitUnlogged
  <2>2. faults' \in 0..MaxFaults
    BY <1>14, ScopeAssumption DEF ExitUnlogged
  <2> QED BY <1>14, <2>1, <2>2 DEF ExitUnlogged
<1>5. ASSUME NEW o \in Ops, ReceiveEntered(o) PROVE TypeOK'
  BY <1>5 DEF ReceiveEntered
<1>6. ASSUME NEW o \in Ops, SendExit(o) PROVE TypeOK'
  BY <1>6 DEF SendExit
<1>7. ASSUME NEW o \in Ops, ReceiveExited(o) PROVE TypeOK'
  BY <1>7 DEF ReceiveExited
<1>8. ASSUME NEW o \in Ops, NEW h \in Headers, ModelCall(o, h) PROVE TypeOK'
  <2>1. logged' \subseteq Event
    BY <1>8, ModelCallType
  <2> QED BY <1>8, <2>1 DEF ModelCall
<1>9. CASE LoseRequest
  BY <1>9, ScopeAssumption DEF LoseRequest
<1>10. CASE LoseReply
  BY <1>10, ScopeAssumption DEF LoseReply
<1>11. CASE ProxyRestart
  BY <1>11, ScopeAssumption DEF ProxyRestart
<1>12. CASE UNCHANGED vars
  BY <1>12 DEF vars
<1> QED BY <1>1, <1>2, <1>3, <1>4, <1>5, <1>6, <1>7, <1>8, <1>9, <1>10, <1>11, <1>12,
        <1>13, <1>14 DEF Next, Proxy, Harness

\* The state of the registry, the messages and the operations is well typed
\* in every reachable state, the logged events included.
THEOREM TypeCorrect == Spec => []TypeOK
BY TypeInit, TypeNext, PTL DEF Spec
-----------------------------------------------------------------------------
(* NoWrongAttribution and ExactUnlessAmbiguous.  They speak of the latest  *)
(* event only, so they hold if at the moment of a call inside a scope that scope is registered; the    *)
(* strengthening says why it is: registering precedes the reply that lets  *)
(* an operation in, and only its own exit request, which it sends after    *)
(* leaving, takes its scope out.                                           *)

Registered ==
    /\ \A o \in Ops : pc[o] = "inside" => o \in registry
    /\ \A o \in Ops : (pc[o] = "entering" /\ <<"enter", o, TRUE>> \in replies)
                        => o \in registry

InOrder ==
    /\ \A o \in Ops : <<"exit", o>> \in requests => pc[o] \in {"exiting", "raised", "done"}
    /\ \A o \in Ops : pc[o] = "idle" => <<"enter", o, TRUE>> \notin replies
    /\ \A o \in Ops : <<"enter", o>> \in requests => pc[o] # "idle"

IInv ==
    /\ TypeOK
    /\ InOrder
    /\ restarts = 0 => Registered
    /\ NoWrongAttribution
    /\ ExactUnlessAmbiguous

LEMMA IInvInit == Init => IInv
BY TypeInit DEF Init, IInv, InOrder, Registered, NoWrongAttribution, ExactUnlessAmbiguous

\* What the two properties say of one event.
OwnOrAbsent(e) ==
    e.inScope =>
        \A f \in (DOMAIN ScopeTags[e.op] \cap DOMAIN e.tags) \ DOMAIN e.header :
            e.tags[f] = ScopeTags[e.op][f]

OwnOrAnnounced(e) ==
    (e.inScope /\ e.state # "ambiguous") =>
        \A f \in DOMAIN ScopeTags[e.op] \ DOMAIN e.header :
            f \in DOMAIN e.tags /\ e.tags[f] = ScopeTags[e.op][f]

LEMMA EventIsOwn ==
    ASSUME NEW o, NEW h, NEW tags, NEW inScope, NEW state,
           ASSUME inScope, NEW f \in DOMAIN ScopeTags[o], f \notin DOMAIN h
           PROVE  /\ f \in DOMAIN tags => tags[f] = ScopeTags[o][f]
                  /\ state # "ambiguous" => f \in DOMAIN tags
    PROVE  LET e == [op |-> o, header |-> h, tags |-> tags, inScope |-> inScope,
                     state |-> state]
           IN  OwnOrAbsent(e) /\ OwnOrAnnounced(e)
BY DEF OwnOrAbsent, OwnOrAnnounced

\* The heart of the argument: a call made while the caller's scope is
\* registered is resolved to the caller's values, or to none and announced.
LEMMA CallIsOwn ==
    ASSUME IInv, NEW o \in Ops, NEW h \in Headers, ModelCall(o, h)
    PROVE  NoWrongAttribution' /\ ExactUnlessAmbiguous'
<1> DEFINE static == StaticTags[o]
           ids    == ActiveScopes(static, h)
           client == ClientId(static, h, NONE)
           scope     == Merged(ids, ScopeTags)
           ambiguous == AmbiguousFields(ids, ScopeTags)
           tags   == Attribute(static, scope, ambiguous, h, client, NONE)
           state  == ScopeState(ids, ScopeTags)
           event  == [op |-> o, header |-> h, tags |-> tags, inScope |-> pc[o] = "inside",
                      state |-> state]
<1>1. logged' = {event} /\ restarts' = restarts
  BY DEF ModelCall
<1>2. ASSUME restarts = 0, pc[o] = "inside", NEW f \in DOMAIN ScopeTags[o],
             f \notin DOMAIN h
      PROVE  /\ f \in DOMAIN tags => tags[f] = ScopeTags[o][f]
             /\ state # "ambiguous" => f \in DOMAIN tags
  <2>1. client = Client[o]
    BY AdapterAssumption DEF ClientId
  <2>2. o \in ids
    BY <1>2, <2>1 DEF IInv, Registered, ActiveScopes
  <2>3. f \in TagFields
    BY ScopeAssumption DEF TagMaps
  <2>4. f # "client_id"
    BY AdapterAssumption
  <2> HIDE DEF ids, static, client
  <2>5. f \in ambiguous \/ (f \in DOMAIN scope /\ scope[f] = ScopeTags[o][f])
    BY <1>2, <2>2, <2>3, FieldMergedOrAmbiguous
  <2>6. f \in DOMAIN tags => tags[f] = ScopeTags[o][f]
    BY <1>2, <2>4, <2>5, ScopeBeatsToken
  <2>7. ASSUME state # "ambiguous" PROVE f \in DOMAIN tags
    <3>1. ambiguous = {}
      BY <2>2, <2>7, StateTellsAmbiguity
    <3> HIDE DEF scope, ambiguous
    <3> QED BY <2>5, <3>1, UnambiguousIsKept
  <2> QED BY <2>6, <2>7
<1>3. ASSUME restarts = 0 PROVE OwnOrAbsent(event) /\ OwnOrAnnounced(event)
  <2> HIDE DEF tags, state
  <2> QED BY <1>2, <1>3, EventIsOwn
<1> HIDE DEF event
<1> QED BY <1>1, <1>3 DEF NoWrongAttribution, ExactUnlessAmbiguous, OwnOrAbsent, OwnOrAnnounced

\* Every other step leaves the latest event alone and no step undoes a restart.
LEMMA NoCall ==
    ASSUME IInv, logged' = logged, restarts' = restarts \/ restarts' # 0
    PROVE  NoWrongAttribution' /\ ExactUnlessAmbiguous'
BY DEF IInv, NoWrongAttribution, ExactUnlessAmbiguous

LEMMA IInvNext == IInv /\ [Next]_vars => IInv'
<1> SUFFICES ASSUME IInv, [Next]_vars PROVE IInv'
  OBVIOUS
<1> USE DEF IInv
<1>t. TypeOK'
  BY TypeNext
<1>1. ASSUME NEW o \in Ops, SendEnter(o) PROVE IInv'
  <2>1. InOrder' /\ (restarts' = 0 => Registered')
    BY <1>1 DEF SendEnter, InOrder, Registered, TypeOK
  <2> QED BY <1>1, <1>t, <2>1, NoCall DEF SendEnter
<1>2. ASSUME NEW o \in Ops, ClientTimeout(o) PROVE IInv'
  <2>1. InOrder' /\ (restarts' = 0 => Registered')
    BY <1>2 DEF ClientTimeout, InOrder, Registered, TypeOK
  <2> QED BY <1>2, <1>t, <2>1, NoCall DEF ClientTimeout
<1>3. ASSUME NEW o \in Ops, HandleEnter(o) PROVE IInv'
  <2>1. InOrder' /\ (restarts' = 0 => Registered')
    BY <1>3 DEF HandleEnter, InOrder, Registered, TypeOK
  <2> QED BY <1>3, <1>t, <2>1, NoCall DEF HandleEnter
<1>4. ASSUME NEW o \in Ops, HandleExit(o) PROVE IInv'
  <2>1. pc[o] \in {"exiting", "raised", "done"}
    BY <1>4 DEF HandleExit, InOrder
  <2>2. InOrder' /\ (restarts' = 0 => Registered')
    BY <1>4, <2>1 DEF HandleExit, InOrder, Registered, TypeOK
  <2> QED BY <1>4, <1>t, <2>2, NoCall DEF HandleExit
<1>13. ASSUME NEW o \in Ops, EnterUnlogged(o) PROVE IInv'
  <2>1. InOrder' /\ (restarts' = 0 => Registered')
    BY <1>13 DEF EnterUnlogged, InOrder, Registered, TypeOK
  <2> QED BY <1>13, <1>t, <2>1, NoCall DEF EnterUnlogged
<1>14. ASSUME NEW o \in Ops, ExitUnlogged(o) PROVE IInv'
  <2>1. pc[o] \in {"exiting", "raised", "done"}
    BY <1>14 DEF ExitUnlogged, InOrder
  <2>2. InOrder' /\ (restarts' = 0 => Registered')
    BY <1>14, <2>1 DEF ExitUnlogged, InOrder, Registered, TypeOK
  <2> QED BY <1>14, <1>t, <2>2, NoCall DEF ExitUnlogged
<1>5. ASSUME NEW o \in Ops, ReceiveEntered(o) PROVE IInv'
  <2>1. InOrder' /\ (restarts' = 0 => Registered')
    BY <1>5 DEF ReceiveEntered, InOrder, Registered, TypeOK
  <2> QED BY <1>5, <1>t, <2>1, NoCall DEF ReceiveEntered
<1>6. ASSUME NEW o \in Ops, SendExit(o) PROVE IInv'
  <2>1. InOrder' /\ (restarts' = 0 => Registered')
    BY <1>6 DEF SendExit, InOrder, Registered, TypeOK
  <2> QED BY <1>6, <1>t, <2>1, NoCall DEF SendExit
<1>7. ASSUME NEW o \in Ops, ReceiveExited(o) PROVE IInv'
  <2>1. InOrder' /\ (restarts' = 0 => Registered')
    BY <1>7 DEF ReceiveExited, InOrder, Registered, TypeOK
  <2> QED BY <1>7, <1>t, <2>1, NoCall DEF ReceiveExited
<1>8. ASSUME NEW o \in Ops, NEW h \in Headers, ModelCall(o, h) PROVE IInv'
  <2>1. InOrder' /\ (restarts' = 0 => Registered')
    BY <1>8 DEF ModelCall, InOrder, Registered
  <2> QED BY <1>8, <1>t, <2>1, CallIsOwn
<1>9. CASE LoseRequest
  <2>1. InOrder' /\ (restarts' = 0 => Registered')
    BY <1>9 DEF LoseRequest, InOrder, Registered
  <2> QED BY <1>9, <1>t, <2>1, NoCall DEF LoseRequest
<1>10. CASE LoseReply
  <2>1. InOrder' /\ (restarts' = 0 => Registered')
    BY <1>10 DEF LoseReply, InOrder, Registered
  <2> QED BY <1>10, <1>t, <2>1, NoCall DEF LoseReply
<1>11. CASE ProxyRestart
  <2>1. restarts' # 0
    BY <1>11 DEF ProxyRestart, TypeOK
  <2>2. InOrder'
    BY <1>11 DEF ProxyRestart, InOrder
  <2> QED BY <1>11, <1>t, <2>1, <2>2, NoCall DEF ProxyRestart
<1>12. CASE UNCHANGED vars
  BY <1>12, <1>t DEF vars, InOrder, Registered, NoWrongAttribution, ExactUnlessAmbiguous
<1> QED BY <1>1, <1>2, <1>3, <1>4, <1>5, <1>6, <1>7, <1>8, <1>9, <1>10, <1>11, <1>12,
        <1>13, <1>14 DEF Next, Proxy, Harness

\* For any number of operations, clients, tag maps, lost messages, timeouts
\* and stragglers: until the proxy restarts, no call inside a scope is charged
\* to another operation.
THEOREM NeverChargedToAnother == Spec => []NoWrongAttribution
<1>1. IInv => NoWrongAttribution
  BY DEF IInv
<1> QED BY <1>1, IInvInit, IInvNext, PTL DEF Spec

\* And one that is not announced as ambiguous is charged with every field of
\* the scope it was made in.
THEOREM AmbiguityIsAnnounced == Spec => []ExactUnlessAmbiguous
<1>1. IInv => ExactUnlessAmbiguous
  BY DEF IInv
<1> QED BY <1>1, IInvInit, IInvNext, PTL DEF Spec
=============================================================================
