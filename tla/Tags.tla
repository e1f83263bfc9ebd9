-------------------------------- MODULE Tags --------------------------------
(***************************************************************************)
(* proxy/tags.py: attribution tags and how the tags of a request are       *)
(* resolved from its headers, the active scopes of its client and the      *)
(* static token of the client.  Pure operators, no state.                  *)
(*                                                                         *)
(* A tag mapping is a function from some of TagFields to values that       *)
(* normalize_tags accepts; a dict without a key is a function without it   *)
(* in its domain.  Token and header encodings are not represented.         *)
(***************************************************************************)

TagFields == {"system", "configuration", "seed", "session_id", "operation",
              "run_id", "client_id"}

\* Tag mappings with values in V.
TagMaps(V) == UNION {[S -> V] : S \in SUBSET TagFields}

NoTags == [f \in {} |-> 0]

-----------------------------------------------------------------------------
(* ScopeRegistry.resolve.  ids are the active scopes, tags their tag maps. *)

Holders(f, ids, tags)  == {i \in ids : f \in DOMAIN tags[i]}
ValuesOf(f, ids, tags) == {tags[i][f] : i \in Holders(f, ids, tags)}

Agreed(f, ids, tags) ==
    \E v \in ValuesOf(f, ids, tags) : ValuesOf(f, ids, tags) = {v}

\* Faulty variant: disagreements are not noticed.
AmbiguousIgnored(ids, tags) == {}

AmbiguousFields(ids, tags) ==
    {f \in TagFields : ValuesOf(f, ids, tags) # {} /\ ~Agreed(f, ids, tags)}

\* Only the scopes that have the field are compared.
Merged(ids, tags) ==
    [f \in {g \in TagFields : Agreed(g, ids, tags)} |->
        CHOOSE v \in ValuesOf(f, ids, tags) : TRUE]

\* Faulty variant: no more than one scope is looked at.
ScopeStateOne(ids, tags) == IF ids = {} THEN "none" ELSE "single"

\* "agree" also when a scope lacks a field of another.
ScopeState(ids, tags) ==
    IF ids = {} THEN "none"
    ELSE IF \E i \in ids : ids = {i} THEN "single"
    ELSE IF AmbiguousFields(ids, tags) # {} THEN "ambiguous"
    ELSE "agree"

-----------------------------------------------------------------------------
(* resolve_attribution.                                                    *)

\* Client identity for the scope lookup: header, token, then system name.
ClientId(static, header, none) ==
    IF "client_id" \in DOMAIN header THEN header["client_id"]
    ELSE IF "client_id" \in DOMAIN static THEN static["client_id"]
    ELSE IF "system" \in DOMAIN header THEN header["system"]
    ELSE IF "system" \in DOMAIN static THEN static["system"]
    ELSE none

\* Faulty variant: an ambiguous field is filled with a placeholder instead of
\* being left out.
AttributePlaceholder(static, scope, ambiguous, header, client, none) ==
    [f \in DOMAIN static \cup DOMAIN scope \cup ambiguous \cup DOMAIN header |->
        IF f \in DOMAIN header THEN header[f]
        ELSE IF f \in ambiguous THEN none
        ELSE IF f \in DOMAIN scope THEN scope[f]
        ELSE static[f]]

\* Token first, scope tags over it, ambiguous fields removed, headers over
\* all; the client id is filled in when nothing else supplied it.
Attribute(static, scope, ambiguous, header, client, none) ==
    LET kept  == ((DOMAIN static \cup DOMAIN scope) \ ambiguous) \cup DOMAIN header
        ident == IF client # none THEN {"client_id"} ELSE {}
    IN  [f \in kept \cup ident |->
            IF f \in DOMAIN header THEN header[f]
            ELSE IF f \in DOMAIN scope THEN scope[f]
            ELSE IF f \in kept THEN static[f]
            ELSE client]
=============================================================================
