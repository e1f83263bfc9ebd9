-------------------------- MODULE AdapterLifecycle --------------------------
(***************************************************************************)
(* The state an adapter keeps between its operations: whether it was       *)
(* started and over which client (mem0.py, zep.py, letta.py), and Letta's  *)
(* dict of agents.  Operations are coroutines of one event loop: a step    *)
(* runs from one await to the next.  Every await may raise; a request to   *)
(* the Letta server that timed out at the client may still be carried out. *)
(* Canaries are in Settlement, scopes in ScopeAttribution.                 *)
(***************************************************************************)
EXTENDS Naturals, FiniteSets

CONSTANTS
    Tasks,      \* coroutines that use the adapter
    Sessions,
    Systems,    \* the adapters considered, a subset of {"letta", "mem0", "zep"}
    None,
    Probe,      \* the session name of Letta's probe agent
    MaxOps,     \* operations begun
    MaxFaults   \* awaits that raise of themselves

ASSUME LifecycleAssumption ==
    /\ Systems \subseteq {"letta", "mem0", "zep"}
    /\ Probe \notin Sessions /\ None \notin Sessions \cup {Probe} \cup Nat
    /\ MaxOps \in Nat /\ MaxFaults \in Nat

VARIABLES
    system,     \* which adapter this is
    started,    \* _started
    client,     \* _client (Mem0, Letta) or _driver (Zep)
    mem,        \* the client under the instances in _mem (Mem0) or _g (Zep)
    agents,     \* _agents of Letta, None where it has no entry
    open,       \* clients created and not closed
    task,       \* the coroutines
    live,       \* agents on the Letta server, [id, name]
    content,    \* memories the system holds, [in, w]: by agent, or by session
    late,       \* requests the server has though nobody waits for them
    counts,     \* operations, faults, clients and agents so far
    history     \* what the properties remember of the past, see Begin, Finish

adapter == <<started, client, mem, agents, open>>
store == <<live, content, late>>
vars == <<system, adapter, task, store, counts, history>>

Letta == system = "letta"
Mem0 == system = "mem0"
Zep == system = "zep"

NoCall == [kind |-> "none", in |-> None, w |-> None, client |-> None]
Idle == [op |-> "none", s |-> None, pc |-> "idle", then |-> "done", call |-> NoCall,
         reply |-> "none", result |-> {}, agent |-> None, todo |-> {}, w |-> None,
         alone |-> FALSE, gone |-> {}, void |-> {}]

Init ==
    /\ system \in Systems
    /\ started = FALSE /\ client = None /\ mem = None /\ open = {}
    /\ agents = [s \in Sessions |-> None]
    /\ task = [t \in Tasks |-> Idle]
    /\ live = {} /\ content = {} /\ late = {}
    /\ counts = [ops |-> 0, faults |-> 0, clients |-> 0, agents |-> 0]
    /\ history = [ended |-> {}, void |-> {}, kept |-> {}, steady |-> {}, calm |-> TRUE]

-----------------------------------------------------------------------------
(* The memory system *)

Ids(as) == {a.id : a \in as}
In(c) == {m.w : m \in {x \in content : x.in = c}}

\* What a call returns: agents of a name, all agents, a new agent, memories.
Result(c) ==
    CASE c.kind = "list" -> Ids({a \in live : a.name = c.in})
      [] c.kind = "listall" -> Ids(live)
      [] c.kind = "create" -> {counts.agents + 1}
      [] c.kind \in {"count", "find"} -> In(c.in)
      [] OTHER -> {}

\* A call that names an agent fails if the agent is gone.
Works(c) ==
    Letta /\ c.kind \in {"delete", "add", "find", "count"} => c.in \in Ids(live)

Effect(c) ==
    /\ live' = CASE c.kind = "create" -> live \cup {[id |-> counts.agents + 1, name |-> c.in]}
                 [] c.kind = "delete" -> {a \in live : a.id # c.in}
                 [] OTHER -> live
    /\ content' = CASE c.kind = "add" -> content \cup {[in |-> c.in, w |-> c.w]}
                    [] c.kind \in {"delete", "clear"} -> {m \in content : m.in # c.in}
                    [] c.kind = "clearall" -> {}
                    [] OTHER -> content
    /\ counts' = IF c.kind = "create" THEN [counts EXCEPT !.agents = @ + 1] ELSE counts

\* The system carries out the call task t waits for.
Handle(t) ==
    LET c == task[t].call IN
    /\ task[t].reply = "wait" /\ c.client \in open
    /\ IF Works(c)
       THEN /\ Effect(c)
            /\ task' = [task EXCEPT ![t].reply = "ok", ![t].result = Result(c)]
       ELSE /\ task' = [task EXCEPT ![t].reply = "error"]
            /\ UNCHANGED <<live, content, counts>>
    /\ UNCHANGED <<system, adapter, late, history>>

\* The Letta server carries out a request whose client gave up.
HandleLate(c) ==
    /\ IF Works(c) THEN Effect(c) ELSE UNCHANGED <<live, content, counts>>
    /\ late' = late \ {c}
    /\ UNCHANGED <<system, adapter, task, history>>

-----------------------------------------------------------------------------
(* Coroutines *)

Busy(t) == task[t].pc # "idle"
At(t, pc) == task[t].pc = pc
Answered(t, pc) == At(t, pc) /\ task[t].reply = "ok"

OnlyTask == UNCHANGED <<system, adapter, store, counts, history>>
Put(t, r) == task' = [task EXCEPT ![t] = r]

\* Record r at its next await: some await, or a call over client k.
Awaiting(r, pc) == [r EXCEPT !.pc = pc, !.call = NoCall, !.reply = "none", !.result = {}]
Calling(r, pc, kind, in, k) ==
    [r EXCEPT !.pc = pc, !.reply = "wait", !.result = {},
              !.call = [kind |-> kind, in |-> in, client |-> k,
                        w |-> IF kind = "add" THEN r.w ELSE None]]

\* The sessions whose memories an operation is about, or may remove.
Concerns(op, s) ==
    CASE op = "reset_all" -> Sessions [] op = "close" -> {} [] OTHER -> {s}
Removes(op) == op \in {"reset", "reset_all"}

\* Memories of these sessions are about to be removed.
Unsettled(h, ss) ==
    [h EXCEPT !.steady = @ \ ss, !.kept = {w \in @ : w.s \notin ss}]

\* Writes that are over, and Letta's writes that already have their agent.
Under(ss) ==
    {w \in history.ended : w.s \in ss} \cup
    {task[u].w : u \in {v \in Tasks : /\ Letta /\ task[v].op = "write"
                                       /\ task[v].s \in ss /\ task[v].agent # None}}

Transitions == {"starting", "building", "probe", "unprobe", "closing", "aclose"}

\* Task u is replacing or closing the client.
Moving(u) ==
    \/ task[u].pc \in Transitions
    \/ Mem0 /\ task[u].op = "reset_all" /\ task[u].pc # "begun"

\* History h when t begins to replace or close the client.
Moved(t, h) == [h EXCEPT !.calm = @ /\ \A u \in Tasks \ {t} : ~ Moving(u)]

\* A caller begins an operation; the coroutine has not run yet.
Begin(t, op, s) ==
    LET near == {u \in Tasks \ {t} : /\ Busy(u)
                                      /\ \/ task[u].s = s
                                         \/ {op, task[u].op} \cap {"reset_all", "close"} # {}}
        h == IF Removes(op) THEN Unsettled(history, Concerns(op, s)) ELSE history
    IN
    /\ ~ Busy(t) /\ counts.ops < MaxOps
    /\ task' = [u \in Tasks |->
         CASE u = t -> [Idle EXCEPT !.op = op, !.s = s, !.pc = "begun",
                                    !.w = IF op = "write" THEN [n |-> counts.ops + 1, s |-> s]
                                                          ELSE None,
                                    !.void = IF op = "read" THEN history.void ELSE {},
                                    !.gone = IF Removes(op) THEN Under(Concerns(op, s)) ELSE {},
                                    !.alone = (near = {})]
           [] u \in near -> [task[u] EXCEPT !.alone = FALSE]
           [] OTHER -> task[u]]
    /\ counts' = [counts EXCEPT !.ops = @ + 1]
    /\ history' = h
    /\ UNCHANGED <<system, adapter, store>>

\* The operation of t ends, well or by an exception.
Ended(t, r, ok) ==
    LET ss == Concerns(r.op, r.s) IN
    [history EXCEPT
       !.ended = IF r.op = "write" THEN @ \cup {r.w} ELSE @,
       !.kept = IF ok /\ r.op = "write" /\ r.alone /\ r.s \in history.steady
                THEN @ \cup {r.w} ELSE @,
       !.void = IF ok /\ Removes(r.op) THEN @ \cup r.gone ELSE @,
       !.steady = IF ok /\ Removes(r.op) /\ r.alone THEN @ \cup ss ELSE @,
       !.calm = @ /\ (ok \/ r.pc \notin Transitions)]

Finish(t) == Put(t, Idle) /\ history' = Ended(t, task[t], TRUE)

-----------------------------------------------------------------------------
(* start *)

\* `start` up to its first await: a new client, whatever the old one was.
Start(t, r, then, h) ==
    LET k == counts.clients + 1 IN
    /\ Put(t, [Awaiting(r, IF Letta THEN "starting" ELSE "building") EXCEPT !.then = then])
    /\ client' = k /\ open' = open \cup {k}
    /\ mem' = IF Zep THEN k ELSE mem
    /\ counts' = [counts EXCEPT !.clients = k]
    /\ history' = Moved(t, h)

\* How a reset begins: Letta lists the agents of the session, Zep and Mem0
\* clear it.  Faulty variant: all agents are listed.
SweepAll == IF Letta THEN "listall" ELSE "clear"
SweepKind == IF Letta THEN "list" ELSE "clear"

\* What r does at place p once the adapter is started, up to the next await.
On(r, p) ==
    CASE p = "sweep" -> Calling(r, "sweep", SweepKind, r.s, client)
      [] p = "wipe" -> Calling(r, "wipe", IF Letta THEN "listall" ELSE "clearall", None, client)
      [] p = "scope" -> Awaiting(r, "scope")

\* `if not self._started: await self.start()`, and on to place p; h is the
\* history with what the step does apart from that.
OnceStarted(t, r, p, h) ==
    \/ ~ started /\ Start(t, r, p, h)
    \/ /\ started /\ Put(t, On(r, p)) /\ history' = h
       /\ UNCHANGED <<client, open, mem, counts>>

\* The rest of `start` of Mem0 and Zep: instances, indices.
Built(t) ==
    /\ At(t, "building")
    /\ started' = TRUE
    /\ mem' = IF Mem0 THEN client ELSE mem
    /\ IF task[t].then = "done" THEN Finish(t)
       ELSE Put(t, On(task[t], task[t].then)) /\ UNCHANGED history
    /\ UNCHANGED <<system, client, agents, open, store, counts>>

\* Letta: the server is healthy; a probe agent is created and deleted again.
Healthy(t) ==
    /\ At(t, "starting")
    /\ Put(t, Calling(task[t], "probe", "create", Probe, client))
    /\ OnlyTask

Probed(t) ==
    /\ Answered(t, "probe")
    /\ \E a \in task[t].result : Put(t, Calling(task[t], "unprobe", "delete", a, client))
    /\ OnlyTask

Unprobed(t) ==
    /\ Answered(t, "unprobe")
    /\ started' = TRUE
    /\ Put(t, On(task[t], task[t].then))
    /\ UNCHANGED <<system, client, mem, agents, open, store, counts, history>>

-----------------------------------------------------------------------------
(* reset *)

\* Faulty variant: Letta keeps the agent a session has.
RunResetKeepsAgent(t) ==
    /\ At(t, "begun") /\ task[t].op = "reset"
    /\ IF Letta /\ agents[task[t].s] # None
       THEN Finish(t) /\ UNCHANGED <<client, mem, open, counts>>
       ELSE OnceStarted(t, task[t], IF Mem0 THEN "scope" ELSE "sweep", history)
    /\ UNCHANGED <<system, started, agents, store>>

\* The hook of reset runs to its first await.
RunReset(t) ==
    /\ At(t, "begun") /\ task[t].op = "reset"
    /\ OnceStarted(t, task[t], IF Mem0 THEN "scope" ELSE "sweep", history)
    /\ UNCHANGED <<system, started, agents, store>>

\* Letta deletes the agents it listed one by one, then creates a fresh one.
NextDeletion(r, todo) ==
    IF todo = {} THEN Calling(r, "create", "create", r.s, client)
    ELSE LET a == CHOOSE x \in todo : TRUE
         IN Calling([r EXCEPT !.todo = todo \ {a}], "delete", "delete", a, client)

Swept(t) ==
    /\ Answered(t, "sweep")
    /\ Put(t, IF Letta THEN NextDeletion(task[t], task[t].result)
                       ELSE Calling(task[t], "verify", "count", task[t].s,
                               IF Mem0 THEN task[t].call.client ELSE client))
    /\ OnlyTask

Deleted(t) ==
    /\ Answered(t, "delete")
    /\ Put(t, NextDeletion(task[t], task[t].todo))
    /\ OnlyTask

Created(t) ==
    /\ Answered(t, "create")
    /\ \E a \in task[t].result :
         /\ agents' = [agents EXCEPT ![task[t].s] = a]
         /\ Put(t, Calling(task[t], "verify", "count", a, client))
    /\ UNCHANGED <<system, started, client, mem, open, store, counts, history>>

\* Nothing is left.  Letta looks at passages only, so memories kept elsewhere
\* in the agent may escape it.
Verified(t) ==
    /\ Answered(t, "verify") /\ (Letta \/ task[t].result = {})
    /\ task[t].op = "reset" /\ Finish(t)
    /\ UNCHANGED <<system, adapter, store, counts>>

\* The reset was one that `_agent_for` made: the operation goes on.
AgentMade(t) ==
    LET r == [task[t] EXCEPT !.agent = agents[task[t].s]] IN
    /\ Answered(t, "verify") /\ task[t].op \in {"write", "read"} /\ r.agent # None
    /\ OnceStarted(t, r, "scope",
                   IF r.alone THEN [history EXCEPT !.steady = @ \cup {r.s}] ELSE history)
    /\ UNCHANGED <<system, started, agents, store>>

-----------------------------------------------------------------------------
(* write and search *)

\* Letta looks up the agent of the session and resets if there is none; then
\* all enter their scope.
RunWork(t) ==
    LET r == task[t]
        a == agents[r.s]
    IN
    /\ At(t, "begun") /\ r.op \in {"write", "read"}
    /\ IF Letta /\ a = None
       THEN OnceStarted(t, r, "sweep", Unsettled(history, {r.s}))
       ELSE OnceStarted(t, [r EXCEPT !.agent = a], "scope", history)
    /\ UNCHANGED <<system, started, agents, store>>

\* The scope is entered: the request to the system, or Mem0's reset.
Scoped(t) ==
    LET r == task[t]
        k == IF Letta THEN client ELSE mem
    IN
    /\ At(t, "scope")
    /\ Put(t, CASE r.op = "reset" -> Calling(r, "sweep", "clear", r.s, k)
                [] r.op = "write" -> Calling(r, "work", "add", IF Letta THEN r.agent ELSE r.s, k)
                [] r.op = "read" -> Calling(r, "work", "find", IF Letta THEN r.agent ELSE r.s, k))
    /\ OnlyTask

Worked(t) ==
    /\ Answered(t, "work") /\ Finish(t)
    /\ UNCHANGED <<system, adapter, store, counts>>

-----------------------------------------------------------------------------
(* reset_all and close *)

RunResetAll(t) ==
    /\ At(t, "begun") /\ task[t].op = "reset_all" /\ ~ Mem0
    /\ OnceStarted(t, task[t], "wipe", history)
    /\ UNCHANGED <<system, started, agents, store>>

\* The open clients without the current one.  Faulty variant: none is closed.
Dropped == open
Released == open \ {client}

\* Mem0 closes what it has and works with an instance of its own.
RunResetAllMem0(t) ==
    LET tmp == counts.clients + 1 IN
    /\ At(t, "begun") /\ task[t].op = "reset_all" /\ Mem0
    /\ Put(t, [Calling(task[t], "wipe", "clearall", None, tmp)
                 EXCEPT !.then = IF started THEN "restart" ELSE "done"])
    /\ counts' = [counts EXCEPT !.clients = tmp]
    /\ open' = (IF started THEN Released ELSE open) \cup {tmp}
    /\ client' = IF started THEN None ELSE client
    /\ mem' = IF started THEN None ELSE mem
    /\ started' = FALSE
    /\ history' = Moved(t, history)
    /\ UNCHANGED <<system, agents, store>>

WipedMem0(t) ==
    LET r == [task[t] EXCEPT !.then = "done"]
        k == counts.clients + 1
    IN
    /\ Answered(t, "wipe") /\ Mem0
    /\ IF task[t].then = "restart" /\ ~ started
       THEN /\ Put(t, Awaiting(r, "building"))
            /\ client' = k /\ open' = (open \ {r.call.client}) \cup {k}
            /\ counts' = [counts EXCEPT !.clients = k]
            /\ UNCHANGED history
       ELSE /\ Finish(t)
            /\ open' = open \ {r.call.client}
            /\ UNCHANGED <<client, counts>>
    /\ UNCHANGED <<system, started, mem, agents, store>>

\* Zep builds its indices anew; Letta deletes the agents, then forgets them.
WipedZep(t) ==
    /\ Answered(t, "wipe") /\ Zep
    /\ Put(t, Awaiting(task[t], "index"))
    /\ OnlyTask

Indexed(t) ==
    /\ At(t, "index") /\ Finish(t)
    /\ UNCHANGED <<system, adapter, store, counts>>

\* `self._agents.clear()`.  Faulty variant: nothing is forgotten.
Remembered == agents
Cleared == [s \in Sessions |-> None]

WipedLetta(t) ==
    LET r == task[t]
        todo == IF At(t, "wipe") THEN r.result ELSE r.todo
    IN
    /\ Letta /\ (Answered(t, "wipe") \/ Answered(t, "wiping"))
    /\ IF todo = {}
       THEN agents' = Cleared /\ Finish(t)
       ELSE LET a == CHOOSE x \in todo : TRUE IN
            /\ Put(t, Calling([r EXCEPT !.todo = todo \ {a}], "wiping", "delete", a, client))
            /\ UNCHANGED <<agents, history>>
    /\ UNCHANGED <<system, started, client, mem, open, store, counts>>

\* The fields of a closed adapter.  Faulty variant: the flag is cleared too.
ForgetAll == client' = None /\ mem' = None /\ started' = None
Forget == client' = None /\ mem' = None /\ started' = FALSE

\* close: Mem0 closes at once, Zep and Letta wait for their client.
RunClose(t) ==
    /\ At(t, "begun") /\ task[t].op = "close"
    /\ IF Mem0 \/ client = None
       THEN /\ open' = Released /\ Forget
            /\ Put(t, Awaiting(task[t], "aclose"))
       ELSE /\ Put(t, Calling(task[t], "closing", "none", None, client))
            /\ UNCHANGED <<started, client, mem, open>>
    /\ history' = Moved(t, history)
    /\ UNCHANGED <<system, agents, store, counts>>

Closed(t) ==
    /\ At(t, "closing")
    /\ open' = open \ {task[t].call.client} /\ Forget
    /\ Put(t, Awaiting(task[t], "aclose"))
    /\ UNCHANGED <<system, agents, store, counts, history>>

\* Zep goes on if its driver cannot be closed.
ClosedAnyway(t) ==
    /\ At(t, "closing") /\ Zep /\ counts.faults < MaxFaults
    /\ Forget
    /\ Put(t, Awaiting(task[t], "aclose"))
    /\ counts' = [counts EXCEPT !.faults = @ + 1]
    /\ history' = [history EXCEPT !.calm = FALSE]
    /\ UNCHANGED <<system, agents, open, store>>

\* The HTTP client of the proxy is closed.
Aclosed(t) ==
    /\ At(t, "aclose") /\ Finish(t)
    /\ UNCHANGED <<system, adapter, store, counts>>

-----------------------------------------------------------------------------
(* Exceptions *)

\* What t waits for cannot but raise: the system said no, the client is gone,
\* the session was not empty after all, or `_agents` lost its entry.
Doomed(t) ==
    \/ task[t].reply = "error"
    \/ task[t].reply = "wait" /\ task[t].call.client \notin open /\ ~ At(t, "closing")
    \/ Answered(t, "verify") /\ task[t].result # {}
    \/ Answered(t, "verify") /\ task[t].op # "reset" /\ agents[task[t].s] = None

\* The operation raises at the await it is at.
Fail(t) ==
    LET r == task[t]
        c == r.call
    IN
    /\ r.pc \notin {"idle", "begun"} /\ ~ (Zep /\ At(t, "closing"))
    /\ \/ Doomed(t) /\ UNCHANGED counts
       \/ /\ counts.faults < MaxFaults
          /\ counts' = [counts EXCEPT !.faults = @ + 1]
    \* what was sent may be carried out later, also when its client was closed
    \* since (one that never was there sent nothing); a query has no effect
    /\ late' = IF /\ Letta /\ r.reply = "wait" /\ c.client # None
                  /\ c.kind \in {"create", "delete", "add"}
               THEN late \cup {c} ELSE late
    \* the `finally` of Mem0's reset_all
    /\ open' = IF Mem0 /\ At(t, "wipe") THEN open \ {c.client} ELSE open
    /\ Put(t, Idle) /\ history' = Ended(t, r, FALSE)
    /\ UNCHANGED <<system, started, client, mem, agents, live, content>>

-----------------------------------------------------------------------------

Step(t) ==
    \/ Built(t) \/ Healthy(t) \/ Probed(t) \/ Unprobed(t)
    \/ RunReset(t) \/ Swept(t) \/ Deleted(t) \/ Created(t) \/ Verified(t) \/ AgentMade(t)
    \/ RunWork(t) \/ Scoped(t) \/ Worked(t)
    \/ RunResetAll(t) \/ RunResetAllMem0(t) \/ WipedMem0(t) \/ WipedZep(t) \/ Indexed(t)
    \/ WipedLetta(t)
    \/ RunClose(t) \/ Closed(t) \/ ClosedAnyway(t) \/ Aclosed(t)
    \/ Fail(t)

Next ==
    \/ \E t \in Tasks :
         \/ \E s \in Sessions : \E op \in {"reset", "write", "read"} : Begin(t, op, s)
         \/ \E op \in {"reset_all", "close"} : Begin(t, op, None)
         \/ Handle(t)
         \/ Step(t)
    \/ \E c \in late : HandleLate(c)

Spec == Init /\ [][Next]_vars

-----------------------------------------------------------------------------

Writes == [n : 1..MaxOps, s : Sessions \cup {None}]
Clients == 1..counts.clients

\* Every variable has its type: the adapter's fields, the coroutines, the
\* system's memories (mem0.py:114-116, zep.py:142-144, letta.py:109-113).
TypeOK ==
    /\ system \in Systems
    /\ started \in BOOLEAN
    /\ {client, mem} \subseteq Clients \cup {None}
    /\ open \subseteq Clients
    /\ agents \in [Sessions -> Nat \cup {None}]
    /\ \A t \in Tasks : task[t].alone \in BOOLEAN /\ task[t].gone \subseteq Writes
    /\ \A a \in live : a.id \in Nat /\ a.name \in Sessions \cup {Probe}
    /\ \A m \in content : m.w \in Writes
    /\ counts.ops <= MaxOps /\ counts.faults <= MaxFaults

\* `reset` removes every memory of its session (adapters/base.py:5): no read
\* that began after a completed reset returns what was written before that
\* reset began, not even when the reset ran among other operations, or after
\* one that failed halfway.
ResetForgets ==
    \A t \in Tasks : Answered(t, "work") => task[t].result \cap task[t].void = {}

\* `reset` removes nothing else (adapters/base.py:5), and a start, a close or
\* a failed call removes nothing: a write acknowledged in a session whose last
\* reset was complete and undisturbed is still where reads of the session
\* look, until that session is reset again.
AckedWritesStay ==
    \A w \in history.kept : w \in In(IF Letta THEN agents[w.s] ELSE w.s)

\* The agent `_agents` names for a session exists, unless the last reset of
\* the session (or of all) failed or met another operation: after one that
\* was complete a write finds its agent or makes one.
NoDanglingAgent ==
    Letta => \A s \in history.steady : agents[s] \in Ids(live) \cup {None}

\* While no start or close failed or met another, the adapter holds one client
\* at most, the current one, and a started adapter has it open: restarts
\* between phases and Mem0's reset_all leave no client behind.
OneClient ==
    history.calm /\ (\A t \in Tasks : ~ Busy(t)) =>
        /\ open = IF client = None THEN {} ELSE {client}
        /\ started => client # None /\ (Letta \/ mem = client)
=============================================================================
