----------------------- MODULE AdapterLifecycleProofs -----------------------
(***************************************************************************)
(* AdapterLifecycle for any tasks, sessions, numbers of operations and     *)
(* faults: type correctness, that quiet starts and closes leave one client *)
(* at most, that a settled session has its agent and the writes it         *)
(* acknowledged, and that a completed reset forgets what was before it.    *)
(***************************************************************************)
EXTENDS AdapterLifecycle, FiniteSetTheorems, TLAPS

-----------------------------------------------------------------------------
(* What a coroutine is in the middle of.                                   *)

Ops == {"none", "reset", "write", "read", "reset_all", "close"}
Starting == {"starting", "building", "probe", "unprobe"}
Calls == {"probe", "unprobe", "sweep", "delete", "create", "verify", "work", "wipe",
          "wiping", "closing"}
PCs == Starting \cup Calls \cup {"idle", "begun", "scope", "index", "aclose"}

Known == 1..counts.agents
Addressees == Sessions \cup {Probe, None} \cup Nat

Kinds == {"none", "list", "listall", "create", "count", "find", "add", "delete", "clear",
          "clearall"}
Call == [kind : Kinds,
         in : Addressees, client : Nat \cup {None}, w : Writes \cup {None}]

Coroutine ==
    [op : Ops, s : Sessions \cup {None}, pc : PCs,
     then : {"done", "sweep", "wipe", "scope", "restart"}, call : Call,
     reply : {"none", "wait", "ok", "error"}, result : SUBSET (Nat \cup Writes),
     agent : Nat \cup {None}, todo : SUBSET Nat, w : Writes \cup {None},
     alone : BOOLEAN, gone : SUBSET Writes, void : SUBSET Writes]

\* Operation r is on its way to place p of `start`'s continuations.
Goes(r, p) ==
    \/ p = "sweep" /\ ~ Mem0 /\ r.op = "reset"
    \/ p = "sweep" /\ Letta /\ r.op \in {"write", "read"} /\ r.agent = None
    \/ p = "scope" /\ r.op \in {"write", "read"} /\ (Letta => r.agent # None)
    \/ p = "scope" /\ Mem0 /\ r.op = "reset"
    \/ p = "wipe" /\ ~ Mem0 /\ r.op = "reset_all"

\* The parts of an operation fit together.
Whole(r) ==
    /\ r \in Coroutine
    /\ r.op \in {"reset", "write", "read"} <=> r.s # None
    /\ r.op = "write" => r.w \in Writes /\ r.w.s = r.s
    /\ r.op # "write" => r.w = None
    /\ r.agent # None => Letta /\ r.op \in {"write", "read"} /\ r.agent \in Known
    /\ r.gone # {} => Removes(r.op)
    /\ r.void # {} => r.op = "read"
    /\ r.todo \subseteq Known

\* The place it is at fits.
Placed(r) ==
    /\ r.pc = "idle" => r = Idle
    /\ r.pc # "idle" => r.op # "none"
    /\ r.pc = "begun" => r.agent = None
    /\ r.pc = "starting" => Letta /\ Goes(r, r.then)
    /\ r.pc = "building" => /\ ~ Letta
                            /\ Goes(r, r.then) \/ (Mem0 /\ r.op = "reset_all" /\ r.then = "done")
    /\ r.pc = "scope" => Goes(r, "scope")
    /\ r.pc = "index" => Zep /\ r.op = "reset_all"
    /\ r.pc = "aclose" => r.op = "close"

\* The call an operation makes at place pc.
Suits(r, pc, kind, in) ==
    /\ pc = "probe" => Letta /\ Goes(r, r.then) /\ kind = "create" /\ in = Probe
    /\ pc = "unprobe" => Letta /\ Goes(r, r.then) /\ kind = "delete" /\ in \in Known
    /\ pc \in {"sweep", "verify"} => Goes(r, "sweep") \/ (Mem0 /\ r.op = "reset")
    /\ pc = "sweep" => kind = SweepKind /\ in = r.s
    /\ pc \in {"delete", "create"} => Letta /\ Goes(r, "sweep")
    /\ pc = "delete" => kind = "delete" /\ in \in Known
    /\ pc = "create" => kind = "create" /\ in = r.s
    /\ pc = "verify" => kind = "count" /\ (IF Letta THEN in \in Known ELSE in = r.s)
    /\ pc = "work" => /\ Goes(r, "scope") /\ r.op # "reset"
                      /\ kind = IF r.op = "write" THEN "add" ELSE "find"
                      /\ in = IF Letta THEN r.agent ELSE r.s
    /\ pc \in {"wipe", "wiping"} => r.op = "reset_all"
    /\ pc = "wipe" => kind = IF Letta THEN "listall" ELSE "clearall"
    /\ pc = "wiping" => Letta /\ kind = "delete" /\ in \in Known
    /\ pc = "closing" => r.op = "close" /\ ~ Mem0 /\ kind = "none"

CallFits(r) ==
    /\ r.pc \notin Calls => r.reply = "none" /\ r.call = NoCall
    /\ r.pc \in Calls => r.reply # "none" /\ Suits(r, r.pc, r.call.kind, r.call.in)
    /\ r.call.w = IF r.call.kind = "add" THEN r.w ELSE None

\* And the call and what it returned.
ResultFits(r) ==
    /\ r.reply # "ok" => r.result = {}
    /\ r.pc \in {"verify", "work"} => r.result \subseteq Writes
    /\ r.pc \notin {"verify", "work"} => r.result \subseteq Known

Fits(r) == Whole(r) /\ Placed(r) /\ CallFits(r) /\ ResultFits(r)

\* A request the Letta server may still carry out.
LateFits(c) ==
    /\ c \in Call /\ Letta /\ c.kind \in {"create", "delete", "add"}
    /\ c.kind = "create" => c.in \in Sessions \cup {Probe}
    /\ c.kind = "delete" => c.in \in Known
    /\ c.kind = "add" => c.in \in Known /\ c.w \in Writes

History == [ended : SUBSET Writes, void : SUBSET Writes, kept : SUBSET Writes,
            steady : SUBSET Sessions, calm : BOOLEAN]

AdapterTyped ==
    /\ started \in BOOLEAN
    /\ client \in Clients \cup {None} /\ mem \in Clients \cup {None} /\ open \subseteq Clients
    /\ agents \in [Sessions -> Known \cup {None}]
    /\ ~ Letta => \A s \in Sessions : agents[s] = None

StoreTyped ==
    /\ live \subseteq [id : Known, name : Sessions \cup {Probe}]
    /\ content \subseteq [in : Addressees, w : Writes]
    /\ \A c \in late : LateFits(c)

CountsTyped ==
    /\ counts \in [ops : Nat, faults : Nat, clients : Nat, agents : Nat]
    /\ counts.ops <= MaxOps /\ counts.faults <= MaxFaults

TasksTyped == task \in [Tasks -> Coroutine] /\ \A t \in Tasks : Fits(task[t])

Typed ==
    /\ system \in Systems
    /\ AdapterTyped /\ StoreTyped /\ CountsTyped /\ TasksTyped
    /\ history \in History

-----------------------------------------------------------------------------
(* One client.                                                             *)

\* Nobody replaces or closes the client: it is the only one, and a client is
\* there just if the adapter is started.
AtRest ==
    /\ open = IF client = None THEN {} ELSE {client}
    /\ started <=> client # None
    /\ started => Letta \/ mem = client

\* What t finds when it alone does.
InMotion(t) ==
    /\ task[t].pc \in Starting =>
          ~ started /\ client # None /\ open = {client} /\ (Zep => mem = client)
    /\ task[t].pc = "closing" => AtRest /\ client # None /\ task[t].call.client = client
    /\ task[t].pc = "aclose" => client = None /\ open = {} /\ ~ started
    /\ task[t].pc = "wipe" /\ Mem0 =>
          client = None /\ ~ started /\ open = {task[t].call.client}

Calm ==
    history.calm =>
       /\ \A t, u \in Tasks : Moving(t) /\ Moving(u) => t = u
       /\ (\A t \in Tasks : ~ Moving(t)) => AtRest
       /\ \A t \in Tasks : Moving(t) => InMotion(t)

-----------------------------------------------------------------------------
(* Settled sessions.                                                       *)

\* An operation that has been alone from its beginning is.
AloneIsAlone ==
    \A t, u \in Tasks :
       t # u /\ Busy(t) /\ Busy(u) /\ task[t].alone =>
          /\ task[u].s # task[t].s
          /\ {task[t].op, task[u].op} \cap {"reset_all", "close"} = {}

\* r is about to remove the agents of its session, to make it a new one.
Sweeping(r) ==
    \/ r.pc \in {"sweep", "delete", "create", "verify"}
    \/ r.pc \in Starting /\ r.then = "sweep"

\* No session is settled that an operation removes from, or makes an agent for.
Unsettling ==
    \A t \in Tasks :
       /\ Removes(task[t].op) => Concerns(task[t].op, task[t].s) \cap history.steady = {}
       /\ Sweeping(task[t]) => task[t].s \notin history.steady

\* Agents whose deletion has been asked for, or will be.
ToDelete(r) ==
    (IF r.call.kind = "delete" /\ r.reply = "wait" THEN {r.call.in} ELSE {}) \cup r.todo
    \cup (IF r.pc \in {"probe", "sweep", "wipe"} THEN r.result ELSE {})
Condemned ==
    {c.in : c \in {d \in late : d.kind = "delete"}} \cup UNION {ToDelete(task[t]) : t \in Tasks}

Safe(a) == a \in Ids(live) /\ a \notin Condemned

\* Letta's agents are created with the name of the session they are for.
Named(a, s) == \A x \in live : x.id = a => x.name = s

\* The agent of a settled session is safe, and so is the one that is being made
\* by an operation that is alone.
AgentsSafe ==
    Letta =>
       /\ \A s \in Sessions : agents[s] # None => Named(agents[s], s)
       /\ \A s \in history.steady : agents[s] # None => Safe(agents[s])
       /\ \A t \in Tasks : At(t, "create") => \A a \in task[t].result : Named(a, task[t].s)
       /\ \A t \in Tasks : At(t, "create") /\ task[t].alone => \A a \in task[t].result : Safe(a)
       /\ \A t \in Tasks : At(t, "verify") /\ task[t].alone =>
             agents[task[t].s] # None /\ Safe(agents[task[t].s])

\* A write that is alone works on the agent of its session, and once it is
\* answered in a settled session what it wrote is there; so are those before.
WritesKept ==
    /\ \A w \in history.kept : w.s \in history.steady
    /\ \A t \in Tasks : task[t].alone /\ task[t].agent # None => task[t].agent = agents[task[t].s]
    /\ \A t \in Tasks :
          /\ Answered(t, "work") /\ task[t].op = "write" /\ task[t].alone
          /\ task[t].s \in history.steady
          => task[t].w \in In(task[t].call.in)
    /\ AckedWritesStay

-----------------------------------------------------------------------------
(* What a reset forgets.                                                   *)

\* Writes are numbered; one that is over is not under way any more.
Numbered ==
    /\ \A w \in history.ended : w.n <= counts.ops
    /\ \A t \in Tasks : task[t].op = "write" => task[t].w.n <= counts.ops /\ task[t].w \notin history.ended
    /\ \A t, u \in Tasks : t # u /\ task[t].op = "write" /\ task[u].op = "write" =>
          task[t].w.n # task[u].w.n
    /\ \A c \in late : c.kind = "add" => c.w \in history.ended

\* Where no agent is chosen first (Mem0 and Zep): what is to be forgotten is
\* over, and gone from the moment the system answered.
Wiped(r) ==
    \/ r.pc \in {"sweep", "wipe"} /\ r.reply = "ok"
    \/ r.pc \in {"verify", "index"}
    \/ r.pc = "building" /\ r.op = "reset_all" /\ Mem0
Absent(ws) == \A m \in content : m.w \notin ws
ForgottenBySession ==
    ~ Letta =>
       /\ \A m \in content : m.in = m.w.s
       /\ history.void \subseteq history.ended /\ Absent(history.void)
       /\ \A t \in Tasks : /\ task[t].gone \subseteq history.ended
                           /\ \A w \in task[t].gone : w.s \in Concerns(task[t].op, task[t].s)
                           /\ Wiped(task[t]) => Absent(task[t].gone)

\* Agent a holds write w, or may get it yet.
Reaches(w, a) ==
    \/ [in |-> a, w |-> w] \in content
    \/ \E c \in late : c.kind = "add" /\ c.w = w /\ c.in = a
    \/ \E t \in Tasks : task[t].op = "write" /\ task[t].w = w /\ task[t].agent = a
Held(w, a) == a # None /\ Reaches(w, a)

\* Agents that have been created for a session but are not in `_agents` yet.
Fresh(t) == IF At(t, "create") THEN task[t].result ELSE {}
\* The agent of write w has been chosen, if it has one.
Chosen(w) ==
    /\ w.n <= counts.ops
    /\ \A t \in Tasks : task[t].op = "write" /\ task[t].w = w => task[t].agent # None

ForgottenByAgent ==
    Letta =>
       /\ \A t \in Tasks : \A a \in Fresh(t) :
             /\ \A s \in Sessions : agents[s] # a
             /\ \A u \in Tasks : u # t => a \notin Fresh(u)
             /\ \A w \in Writes : ~ Held(w, a)
       /\ \A s, z \in Sessions : agents[s] # None /\ agents[s] = agents[z] => s = z
       /\ \A w \in Writes, a \in Nat : Held(w, a) => a \in Known /\ \A s \in Sessions : agents[s] = a => s = w.s
       /\ \A w \in history.void : Chosen(w) /\ \A s \in Sessions : ~ Held(w, agents[s])
       /\ \A t \in Tasks : \A w \in task[t].gone :
             /\ Chosen(w)
             /\ w.s \in Concerns(task[t].op, task[t].s)
             /\ At(t, "verify") => ~ Held(w, agents[task[t].s])
       /\ \A t \in Tasks : \A w \in task[t].void : ~ Held(w, task[t].agent)

\* What a task is told is void when it begins stays void.
Voided == \A t \in Tasks : task[t].void \subseteq history.void

\* ResetForgets and what each step needs to keep it: by session in Mem0 and
\* Zep, by agent in Letta.
Forgotten == Numbered /\ Voided /\ ForgottenBySession /\ ForgottenByAgent /\ ResetForgets

-----------------------------------------------------------------------------
(* Type correctness.                                                       *)

LEMMA Values ==
    ASSUME Typed
    PROVE  /\ counts.ops \in Nat /\ counts.faults \in Nat /\ counts.clients \in Nat
           /\ counts.agents \in Nat /\ MaxOps \in Nat /\ MaxFaults \in Nat
           /\ None \notin Nat /\ None \notin Sessions /\ Probe \notin Sessions /\ None # Probe
           /\ Known \subseteq Nat /\ Clients \subseteq Nat
           /\ system \in {"letta", "mem0", "zep"}
           /\ \A t \in Tasks : task[t] \in Coroutine /\ Fits(task[t])
BY LifecycleAssumption DEF Typed, CountsTyped, TasksTyped, Known, Clients

\* The fields of a coroutine, of one that awaits, and of one that calls.
LEMMA Fields ==
    ASSUME NEW r \in Coroutine
    PROVE  /\ r.op \in Ops /\ r.s \in Sessions \cup {None} /\ r.pc \in PCs
           /\ r.then \in {"done", "sweep", "wipe", "scope", "restart"}
           /\ r.call \in Call /\ r.reply \in {"none", "wait", "ok", "error"}
           /\ r.result \subseteq Nat \cup Writes /\ r.agent \in Nat \cup {None}
           /\ r.todo \subseteq Nat /\ r.w \in Writes \cup {None} /\ r.alone \in BOOLEAN
           /\ r.gone \subseteq Writes /\ r.void \subseteq Writes
BY DEF Coroutine

LEMMA IdleFields ==
    /\ Idle \in Coroutine /\ NoCall \in Call
    /\ Idle.op = "none" /\ Idle.s = None /\ Idle.pc = "idle" /\ Idle.then = "done"
    /\ Idle.call = NoCall /\ Idle.reply = "none" /\ Idle.result = {} /\ Idle.agent = None
    /\ Idle.todo = {} /\ Idle.w = None /\ Idle.alone = FALSE /\ Idle.gone = {} /\ Idle.void = {}
    /\ NoCall.kind = "none" /\ NoCall.in = None /\ NoCall.w = None /\ NoCall.client = None
BY DEF Idle, NoCall, Coroutine, Call, Kinds, Addressees, Ops, PCs

\* Two coroutines with the same operation.
Same(x, r) ==
    /\ x \in Coroutine
    /\ x.op = r.op /\ x.s = r.s /\ x.w = r.w /\ x.alone = r.alone /\ x.gone = r.gone
    /\ x.void = r.void

LEMMA AwaitingFields ==
    ASSUME NEW r \in Coroutine, NEW pc \in PCs
    PROVE  LET x == Awaiting(r, pc) IN
           /\ Same(x, r) /\ x.pc = pc /\ x.then = r.then /\ x.call = NoCall /\ x.reply = "none"
           /\ x.result = {} /\ x.agent = r.agent /\ x.todo = r.todo
BY IdleFields DEF Awaiting, Coroutine, Same

LEMMA CallingFields ==
    ASSUME NEW r \in Coroutine, NEW pc \in PCs, NEW kind \in Kinds, NEW in \in Addressees,
           NEW k \in Nat \cup {None}
    PROVE  LET x == Calling(r, pc, kind, in, k) IN
           /\ Same(x, r) /\ x.pc = pc /\ x.then = r.then /\ x.reply = "wait" /\ x.result = {}
           /\ x.agent = r.agent /\ x.todo = r.todo
           /\ x.call.kind = kind /\ x.call.in = in /\ x.call.client = k
           /\ x.call.w = IF kind = "add" THEN r.w ELSE None
<1> DEFINE c == [kind |-> kind, in |-> in, client |-> k, w |-> IF kind = "add" THEN r.w ELSE None]
<1>1. /\ c \in Call /\ c.kind = kind /\ c.in = in /\ c.client = k
      /\ c.w = IF kind = "add" THEN r.w ELSE None
  BY Fields DEF Call
<1>2. Calling(r, pc, kind, in, k) = [r EXCEPT !.pc = pc, !.reply = "wait", !.result = {}, !.call = c]
  BY DEF Calling
<1> HIDE DEF c
<1> DEFINE x == [r EXCEPT !.pc = pc, !.reply = "wait", !.result = {}, !.call = c]
<1>3. /\ x \in Coroutine
      /\ x.op = r.op /\ x.s = r.s /\ x.w = r.w /\ x.alone = r.alone /\ x.gone = r.gone
      /\ x.void = r.void
  BY <1>1 DEF Coroutine
<1>4. /\ x.pc = pc /\ x.then = r.then /\ x.reply = "wait" /\ x.result = {}
      /\ x.agent = r.agent /\ x.todo = r.todo /\ x.call = c
  BY DEF Coroutine
<1> HIDE DEF x
<1>5. Calling(r, pc, kind, in, k) = x
  BY <1>2 DEF x
<1>6. Same(x, r)
  BY <1>3 DEF Same
<1> QED BY <1>1, <1>4, <1>5, <1>6

\* What fits goes on fitting while the adapter is the same and agents are added.
LEMMA FitsStays ==
    ASSUME NEW r, Fits(r), system' = system, counts.agents \in Nat, counts'.agents \in Nat,
           counts.agents <= counts'.agents
    PROVE  Fits(r)'
BY DEF Fits, Whole, Placed, CallFits, Suits, ResultFits, Goes, Letta, Mem0, Zep, Known, SweepKind

\* A step that changes one coroutine keeps them fitting.
LEMMA PutTyped ==
    ASSUME Typed, NEW t \in Tasks, NEW x, Fits(x)', x \in Coroutine, task' = [task EXCEPT ![t] = x],
           system' = system, counts'.agents \in Nat, counts.agents <= counts'.agents
    PROVE  TasksTyped'
<1>1. task' \in [Tasks -> Coroutine]
  BY DEF Typed, TasksTyped
<1>2. ASSUME NEW u \in Tasks PROVE Fits(task[u])'
  <2>1. CASE u = t
    <3>1. task'[u] = x
      BY <2>1 DEF Typed, TasksTyped
    <3> QED BY <3>1
  <2>2. CASE u # t
    <3>1. task'[u] = task[u] /\ Fits(task[u])
      BY <2>2 DEF Typed, TasksTyped
    <3>2. ASSUME NEW r, r = task[u] PROVE Fits(r)'
      BY <3>1, <3>2, FitsStays, Values
    <3> QED BY <3>1, <3>2
  <2> QED BY <2>1, <2>2
<1> QED BY <1>1, <1>2 DEF TasksTyped

\* The parts that a step may leave alone.
LEMMA Frame ==
    ASSUME Typed, system' = system
    PROVE  /\ (/\ counts'.clients \in Nat /\ counts.clients <= counts'.clients
               /\ counts'.agents = counts.agents /\ UNCHANGED adapter)
              => AdapterTyped'
           /\ (counts' = counts /\ UNCHANGED adapter) => AdapterTyped'
           /\ (UNCHANGED store /\ counts'.agents = counts.agents) => StoreTyped'
           /\ counts' = counts => CountsTyped'
<1>1. ASSUME counts'.clients \in Nat, counts.clients <= counts'.clients, counts'.agents = counts.agents,
             UNCHANGED adapter
      PROVE  AdapterTyped'
  BY <1>1, Values DEF Typed, AdapterTyped, adapter, Clients, Known, Letta
<1>2. ASSUME UNCHANGED store, counts'.agents = counts.agents PROVE StoreTyped'
  BY <1>2 DEF Typed, StoreTyped, store, LateFits, Letta, Known
<1>3. ASSUME counts' = counts PROVE CountsTyped'
  BY <1>3 DEF Typed, CountsTyped
<1>4. ASSUME counts' = counts, UNCHANGED adapter PROVE AdapterTyped'
  BY <1>4 DEF Typed, AdapterTyped, adapter, Clients, Known, Letta
<1> QED BY <1>1, <1>2, <1>3, <1>4

LEMMA InitTyped == Init => Typed
<1> SUFFICES ASSUME Init PROVE Typed
  OBVIOUS
<1> USE DEF Init
<1>1. CountsTyped
  BY LifecycleAssumption DEF CountsTyped
<1>2. AdapterTyped /\ StoreTyped
  BY DEF AdapterTyped, StoreTyped
<1>3. history \in History
  BY DEF History
<1>4. Fits(Idle)
  BY IdleFields DEF Fits, Whole, Placed, CallFits, ResultFits, Calls, Removes
<1>5. TasksTyped
  BY <1>4, IdleFields DEF TasksTyped
<1> QED BY <1>1, <1>2, <1>3, <1>5 DEF Typed

\* The same for a coroutine that fits already.
LEMMA PutFits ==
    ASSUME Typed, NEW t \in Tasks, NEW x, Fits(x), task' = [task EXCEPT ![t] = x],
           system' = system, counts'.agents = counts.agents
    PROVE  TasksTyped'
<1>1. x \in Coroutine
  BY DEF Fits, Whole
<1>2. counts'.agents \in Nat /\ counts.agents <= counts'.agents /\ counts.agents \in Nat
  BY Values
<1>3. Fits(x)'
  BY <1>2, FitsStays
<1> QED BY <1>1, <1>2, <1>3, PutTyped

LEMMA SameWhole ==
    ASSUME NEW r, Whole(r), NEW x, Same(x, r), x.agent = r.agent, x.todo \subseteq Known
    PROVE  Whole(x)
BY DEF Same, Whole

\* A coroutine at a call that suits it fits.
LEMMA CallPut ==
    ASSUME Typed, NEW r, Whole(r), r.op # "none", NEW pc \in Calls, NEW kind \in Kinds,
           NEW in \in Addressees, NEW k \in Nat \cup {None},
           Suits(r, pc, kind, in)
    PROVE  LET x == Calling(r, pc, kind, in, k) IN
           /\ Fits(x) /\ Same(x, r) /\ x.pc = pc /\ x.then = r.then /\ x.reply = "wait"
           /\ x.result = {} /\ x.agent = r.agent /\ x.todo = r.todo
           /\ x.call.kind = kind /\ x.call.in = in /\ x.call.client = k
           /\ x.call.w = IF kind = "add" THEN r.w ELSE None
<1> DEFINE x == Calling(r, pc, kind, in, k)
<1>1. /\ Same(x, r) /\ x.pc = pc /\ x.then = r.then /\ x.reply = "wait" /\ x.result = {}
      /\ x.agent = r.agent /\ x.todo = r.todo
      /\ x.call.kind = kind /\ x.call.in = in /\ x.call.client = k
      /\ x.call.w = IF kind = "add" THEN r.w ELSE None
  <2>1. r \in Coroutine /\ pc \in PCs
    BY DEF Whole, PCs
  <2>2. LET y == Calling(r, pc, kind, in, k) IN
        /\ Same(y, r) /\ y.pc = pc /\ y.then = r.then /\ y.reply = "wait" /\ y.result = {}
        /\ y.agent = r.agent /\ y.todo = r.todo
        /\ y.call.kind = kind /\ y.call.in = in /\ y.call.client = k
        /\ y.call.w = IF kind = "add" THEN r.w ELSE None
    BY <2>1, CallingFields
  <2> QED BY <2>2
<1> HIDE DEF x
<1>2. Whole(x)
  BY <1>1, SameWhole DEF Whole
<1>3. Placed(x)
  BY <1>1 DEF Placed, Calls, Starting, Same
<1>4. CallFits(x)
  <2>1. Suits(x, pc, kind, in)
    BY <1>1 DEF Suits, Same, Goes
  <2> QED BY <1>1, <2>1 DEF CallFits, Same
<1>5. Fits(x)
  BY <1>1, <1>2, <1>3, <1>4 DEF Fits, ResultFits
<1> QED BY <1>1, <1>5 DEF x

\* The history stays one.
LEMMA HistoryTypes ==
    ASSUME NEW h \in History
    PROVE  /\ \A ss : Unsettled(h, ss) \in History /\ Unsettled(h, ss).calm = h.calm
           /\ \A t : Moved(t, h) \in History
<1>1. ASSUME NEW ss PROVE Unsettled(h, ss) \in History /\ Unsettled(h, ss).calm = h.calm
  BY DEF Unsettled, History
<1>2. ASSUME NEW t PROVE Moved(t, h) \in History
  <2> DEFINE alone == h.calm /\ \A u \in Tasks \ {t} : ~ Moving(u)
  <2>1. alone \in BOOLEAN
    OBVIOUS
  <2>2. Moved(t, h) = [h EXCEPT !.calm = alone]
    BY DEF Moved
  <2> HIDE DEF alone
  <2> QED BY <2>1, <2>2 DEF History
<1> QED BY <1>1, <1>2

LEMMA EndedType ==
    ASSUME Typed, NEW t, NEW r, Whole(r), r.op # "none", NEW ok \in BOOLEAN
    PROVE  Ended(t, r, ok) \in History
<1>1. history \in History
  BY DEF Typed
<1> DEFINE ended == IF r.op = "write" THEN history.ended \cup {r.w} ELSE history.ended
           kept == IF ok /\ r.op = "write" /\ r.alone /\ r.s \in history.steady
                   THEN history.kept \cup {r.w} ELSE history.kept
           void == IF ok /\ Removes(r.op) THEN history.void \cup r.gone ELSE history.void
           steady == IF ok /\ Removes(r.op) /\ r.alone
                     THEN history.steady \cup Concerns(r.op, r.s) ELSE history.steady
           calm == history.calm /\ (ok \/ r.pc \notin Transitions)
<1>2. Concerns(r.op, r.s) \subseteq Sessions \/ ~ Removes(r.op)
  BY Fields, Values DEF Concerns, Whole, Removes
<1>3. ended \subseteq Writes /\ kept \subseteq Writes
  BY <1>1 DEF History, Whole
<1>4. void \subseteq Writes /\ steady \subseteq Sessions
  BY <1>1, <1>2, Fields DEF History, Whole
<1>5. calm \in BOOLEAN
  OBVIOUS
<1>6. Ended(t, r, ok) = [history EXCEPT !.ended = ended, !.kept = kept, !.void = void,
                                        !.steady = steady, !.calm = calm]
  BY DEF Ended
<1> HIDE DEF ended, kept, void, steady, calm
<1> QED BY <1>1, <1>3, <1>4, <1>5, <1>6 DEF History

\* An operation that ends.
LEMMA FinishTyped ==
    ASSUME Typed, NEW t \in Tasks, Busy(t), Finish(t), UNCHANGED <<system, counts>>
    PROVE  TasksTyped' /\ history' \in History
<1>1. Fits(Idle)
  BY IdleFields DEF Fits, Whole, Placed, CallFits, ResultFits, Calls, Removes
<1>2. task' = [task EXCEPT ![t] = Idle] /\ history' = Ended(t, task[t], TRUE)
  BY DEF Finish, Put
<1>3. TasksTyped'
  BY <1>1, <1>2, PutFits
<1>4. Whole(task[t]) /\ task[t].op # "none"
  BY Values DEF Fits, Placed, Busy
<1> QED BY <1>2, <1>3, <1>4, EndedType

-----------------------------------------------------------------------------
(* Types: starting.                                                        *)

\* What an operation is at when it goes on to place p.
LEMMA OnFits ==
    ASSUME Typed, NEW r, Whole(r), NEW p \in {"sweep", "wipe", "scope"}, Goes(r, p)
    PROVE  LET x == On(r, p) IN
           /\ Fits(x) /\ Same(x, r) /\ x.pc = p /\ x.then = r.then /\ x.agent = r.agent
           /\ x.todo = r.todo /\ x.result = {}
           /\ p = "scope" => x.call = NoCall
           /\ p = "sweep" => x.call.kind = SweepKind /\ x.call.in = r.s /\ x.reply = "wait"
           /\ p = "wipe" => /\ x.call.kind = (IF Letta THEN "listall" ELSE "clearall")
                            /\ x.call.client = client
<1>0. r \in Coroutine /\ client \in Nat \cup {None}
  BY Values DEF Whole, Typed, AdapterTyped
<1> DEFINE x == On(r, p)
<1>1. CASE p = "scope"
  <2>1. /\ Same(x, r) /\ x.pc = p /\ x.then = r.then /\ x.call = NoCall /\ x.reply = "none"
        /\ x.result = {} /\ x.agent = r.agent /\ x.todo = r.todo
    BY <1>0, <1>1, AwaitingFields DEF On, PCs
  <2>2. Whole(x)
    BY <2>1, SameWhole DEF Whole
  <2>3. Goes(x, "scope")
    BY <1>1, <2>1 DEF Goes, Same
  <2> HIDE DEF x
  <2>4. Fits(x)
    BY <1>1, <2>1, <2>2, <2>3, IdleFields DEF Fits, Placed, CallFits, ResultFits, Calls, Goes, Starting
  <2> QED BY <1>1, <2>1, <2>4 DEF x
<1>2. CASE p # "scope"
  <2> DEFINE kind == IF p = "sweep" THEN SweepKind ELSE IF Letta THEN "listall" ELSE "clearall"
             in == IF p = "sweep" THEN r.s ELSE None
  <2>1. p \in Calls /\ in \in Addressees /\ r.op # "none"
    BY <1>0, <1>2, Fields DEF Calls, Addressees, Goes
  <2>2. kind \in Kinds
    BY DEF SweepKind, Kinds
  <2>3. Suits(r, p, kind, in)
    BY <1>2 DEF Suits, Goes
  <2>4. x = Calling(r, p, kind, in, client)
    BY <1>2 DEF On
  <2> HIDE DEF kind, in
  <2>5. LET y == Calling(r, p, kind, in, client) IN
        /\ Fits(y) /\ Same(y, r) /\ y.pc = p /\ y.then = r.then /\ y.reply = "wait"
        /\ y.result = {} /\ y.agent = r.agent /\ y.todo = r.todo
        /\ y.call.kind = kind /\ y.call.in = in /\ y.call.client = client
        /\ y.call.w = IF kind = "add" THEN r.w ELSE None
    <3> HIDE DEF x
    <3> QED BY <1>0, <2>1, <2>2, <2>3, CallPut
  <2> HIDE DEF x
  <2>6. /\ Fits(x) /\ Same(x, r) /\ x.pc = p /\ x.then = r.then /\ x.reply = "wait"
        /\ x.result = {} /\ x.agent = r.agent /\ x.todo = r.todo
        /\ x.call.kind = kind /\ x.call.in = in /\ x.call.client = client
    BY <2>4, <2>5
  <2> QED BY <1>2, <2>6 DEF x, kind, in
<1> QED BY <1>1, <1>2

\* What an operation is at that starts the adapter first.
LEMMA StartFits ==
    ASSUME Typed, NEW r, Whole(r), NEW p \in {"sweep", "wipe", "scope"}, Goes(r, p)
    PROVE  LET x == [Awaiting(r, IF Letta THEN "starting" ELSE "building") EXCEPT !.then = p] IN
           /\ Fits(x) /\ Same(x, r) /\ x.pc = (IF Letta THEN "starting" ELSE "building")
           /\ x.then = p /\ x.agent = r.agent /\ x.todo = r.todo /\ x.result = {} /\ x.call = NoCall
<1> DEFINE pc == IF Letta THEN "starting" ELSE "building"
           y == Awaiting(r, pc)
           x == [y EXCEPT !.then = p]
<1>1. /\ Same(y, r) /\ y.pc = pc /\ y.call = NoCall /\ y.reply = "none"
      /\ y.result = {} /\ y.agent = r.agent /\ y.todo = r.todo
  BY AwaitingFields DEF Whole, PCs, Starting
<1> HIDE DEF y
<1>2. /\ Same(x, r) /\ x.pc = pc /\ x.then = p /\ x.call = NoCall /\ x.reply = "none"
      /\ x.result = {} /\ x.agent = r.agent /\ x.todo = r.todo
  BY <1>1 DEF Same, Coroutine
<1> HIDE DEF x
<1>3. Whole(x)
  BY <1>2, SameWhole DEF Whole
<1>4. Goes(x, p)
  BY <1>2 DEF Goes, Same
<1>5. Fits(x)
  BY <1>2, <1>3, <1>4, IdleFields DEF Fits, Placed, CallFits, ResultFits, Calls, Goes, Starting
<1> QED BY <1>2, <1>5 DEF x, y

\* `start`, and what goes on at once if the adapter is started.
LEMMA StartTyped ==
    ASSUME Typed, NEW t \in Tasks, NEW r, Whole(r), NEW p \in {"sweep", "wipe", "scope"}, Goes(r, p),
           NEW h \in History, Start(t, r, p, h), UNCHANGED <<system, started, agents, store>>
    PROVE  Typed'
<1>1. /\ client' = counts.clients + 1 /\ open' = open \cup {counts.clients + 1}
      /\ mem' = (IF Zep THEN counts.clients + 1 ELSE mem)
      /\ counts' = [counts EXCEPT !.clients = counts.clients + 1]
      /\ history' = Moved(t, h)
  BY DEF Start
<1>2. /\ counts' \in [ops : Nat, faults : Nat, clients : Nat, agents : Nat]
      /\ counts'.clients = counts.clients + 1 /\ counts'.agents = counts.agents
      /\ counts'.ops = counts.ops /\ counts'.faults = counts.faults
  BY <1>1, Values DEF Typed, CountsTyped
<1>3. CountsTyped'
  BY <1>2 DEF Typed, CountsTyped
<1>4. AdapterTyped'
  BY <1>1, <1>2, Values DEF Typed, AdapterTyped, Clients, Known, Letta
<1>5. StoreTyped'
  BY <1>2, Frame
<1>6. TasksTyped'
  <2>1. PICK x : Fits(x) /\ task' = [task EXCEPT ![t] = x]
    BY StartFits DEF Start, Put
  <2> QED BY <1>2, <2>1, PutFits
<1> QED BY <1>1, <1>3, <1>4, <1>5, <1>6, HistoryTypes DEF Typed

LEMMA OnceStartedTyped ==
    ASSUME Typed, NEW t \in Tasks, NEW r, Whole(r), NEW p \in {"sweep", "wipe", "scope"}, Goes(r, p),
           NEW h \in History, OnceStarted(t, r, p, h), UNCHANGED <<system, started, agents, store>>
    PROVE  Typed'
<1>1. CASE Start(t, r, p, h)
  BY <1>1, StartTyped
<1>2. CASE started /\ Put(t, On(r, p)) /\ history' = h /\ UNCHANGED <<client, open, mem, counts>>
  <2>1. PICK x : Fits(x) /\ task' = [task EXCEPT ![t] = x]
    BY <1>2, OnFits DEF Put
  <2>2. UNCHANGED adapter /\ counts' = counts
    BY <1>2 DEF adapter
  <2>3. TasksTyped'
    BY <2>1, <2>2, PutFits
  <2>4. AdapterTyped' /\ StoreTyped' /\ CountsTyped'
    BY <2>2, Frame
  <2> QED BY <1>2, <2>3, <2>4 DEF Typed
<1> QED BY <1>1, <1>2 DEF OnceStarted

\* A step that changes nothing but a coroutine, and the history.
LEMMA TaskStep ==
    ASSUME Typed, TasksTyped', history' \in History, UNCHANGED <<system, adapter, store, counts>>
    PROVE  Typed'
<1>1. AdapterTyped' /\ StoreTyped' /\ CountsTyped'
  BY Frame
<1> QED BY <1>1 DEF Typed

\* A coroutine goes on to a call.
LEMMA CallStep ==
    ASSUME Typed, NEW t \in Tasks, NEW r, Whole(r), r.op # "none", NEW pc \in Calls,
           NEW kind \in Kinds, NEW in \in Addressees, NEW k \in Nat \cup {None},
           Suits(r, pc, kind, in), Put(t, Calling(r, pc, kind, in, k)), system' = system,
           counts'.agents = counts.agents
    PROVE  TasksTyped'
<1>1. PICK x : Fits(x) /\ task' = [task EXCEPT ![t] = x]
  BY CallPut DEF Put
<1> QED BY <1>1, PutFits

\* A coroutine goes on to some other await.
LEMMA AwaitStep ==
    ASSUME Typed, NEW t \in Tasks, NEW r, Whole(r), r.op # "none", NEW pc \in {"building", "index", "aclose"},
           pc = "building" => Mem0 /\ r.op = "reset_all" /\ r.then = "done",
           pc = "index" => Zep /\ r.op = "reset_all",
           pc = "aclose" => r.op = "close",
           Put(t, Awaiting(r, pc)), system' = system, counts'.agents = counts.agents
    PROVE  TasksTyped'
<1>1. r \in Coroutine /\ pc \in PCs
  BY DEF Whole, PCs, Starting
<1>2. PICK x : x = Awaiting(r, pc)
  OBVIOUS
<1>3. /\ task' = [task EXCEPT ![t] = x] /\ Same(x, r) /\ x.pc = pc /\ x.then = r.then
       /\ x.call = NoCall /\ x.reply = "none" /\ x.result = {} /\ x.agent = r.agent
       /\ x.todo = r.todo
  BY <1>1, <1>2, AwaitingFields DEF Put
<1>4. Whole(x)
  BY <1>3, SameWhole DEF Whole
<1>5. Placed(x)
  BY <1>3 DEF Placed, Same, Mem0, Letta
<1>6. CallFits(x) /\ ResultFits(x)
  BY <1>3, IdleFields DEF CallFits, ResultFits, Calls
<1> QED BY <1>3, <1>4, <1>5, <1>6, PutFits DEF Fits

LEMMA BuiltTyped == ASSUME Typed, NEW t \in Tasks, Built(t) PROVE Typed'
<1>1. /\ Whole(task[t]) /\ task[t].pc = "building" /\ task[t].op # "none" /\ ~ Letta /\ Busy(t)
      /\ Goes(task[t], task[t].then) \/ task[t].then = "done"
  BY Values DEF Built, At, Fits, Placed, Busy
<1>2. UNCHANGED <<system, counts, store>> /\ history \in History
  BY DEF Built, Typed
<1>3. AdapterTyped'
  BY <1>2 DEF Built, Typed, AdapterTyped, Clients, Known, Letta
<1>4. TasksTyped' /\ history' \in History
  <2>1. CASE task[t].then = "done"
    BY <1>1, <1>2, <2>1, FinishTyped DEF Built
  <2>2. CASE task[t].then # "done"
    <3>1. task[t].then \in {"sweep", "wipe", "scope"} /\ Goes(task[t], task[t].then)
      BY <1>1, <2>2 DEF Goes
    <3>2. PICK x : Fits(x) /\ task' = [task EXCEPT ![t] = x]
      BY <1>1, <2>2, <3>1, OnFits DEF Built, Put
    <3> QED BY <1>2, <2>2, <3>2, PutFits DEF Built
  <2> QED BY <2>1, <2>2
<1>5. StoreTyped' /\ CountsTyped'
  BY <1>2, Frame
<1> QED BY <1>2, <1>3, <1>4, <1>5 DEF Typed

LEMMA HealthyTyped == ASSUME Typed, NEW t \in Tasks, Healthy(t) PROVE Typed'
<1>1. /\ Whole(task[t]) /\ task[t].op # "none" /\ Letta /\ Goes(task[t], task[t].then)
  BY Values DEF Healthy, At, Fits, Placed
<1>2. Suits(task[t], "probe", "create", Probe)
  BY <1>1 DEF Suits
<1>3. /\ "probe" \in Calls /\ "create" \in Kinds /\ Probe \in Addressees /\ client \in Nat \cup {None}
  BY Values DEF Calls, Kinds, Addressees, Typed, AdapterTyped
<1>4. TasksTyped'
  BY <1>1, <1>2, <1>3, CallStep DEF Healthy, OnlyTask
<1> QED BY <1>4, TaskStep DEF Healthy, OnlyTask, Typed

LEMMA ProbedTyped == ASSUME Typed, NEW t \in Tasks, Probed(t) PROVE Typed'
<1>1. /\ Whole(task[t]) /\ task[t].op # "none" /\ Letta /\ Goes(task[t], task[t].then)
      /\ task[t].result \subseteq Known
  BY Values DEF Probed, Answered, At, Fits, Placed, CallFits, ResultFits, Suits, Calls
<1>2. PICK a \in task[t].result : Put(t, Calling(task[t], "unprobe", "delete", a, client))
  BY DEF Probed
<1>3. Suits(task[t], "unprobe", "delete", a)
  BY <1>1 DEF Suits
<1>4. /\ "unprobe" \in Calls /\ "delete" \in Kinds /\ a \in Addressees /\ client \in Nat \cup {None}
  BY <1>1, Values DEF Calls, Kinds, Addressees, Typed, AdapterTyped
<1>5. TasksTyped'
  BY <1>1, <1>2, <1>3, <1>4, CallStep DEF Probed, OnlyTask
<1> QED BY <1>5, TaskStep DEF Probed, OnlyTask, Typed

LEMMA UnprobedTyped == ASSUME Typed, NEW t \in Tasks, Unprobed(t) PROVE Typed'
<1>1. /\ Whole(task[t]) /\ Letta /\ Goes(task[t], task[t].then)
  BY Values DEF Unprobed, Answered, At, Fits, CallFits, Suits, Calls
<1>2. task[t].then \in {"sweep", "wipe", "scope"}
  BY <1>1 DEF Goes
<1>3. PICK x : Fits(x) /\ task' = [task EXCEPT ![t] = x]
  BY <1>1, <1>2, OnFits DEF Unprobed, Put
<1>4. UNCHANGED <<system, counts, store, history>> /\ history \in History
  BY DEF Unprobed, Typed
<1>5. AdapterTyped'
  BY <1>4 DEF Unprobed, Typed, AdapterTyped, Clients, Known, Letta
<1>6. TasksTyped'
  BY <1>3, <1>4, PutFits
<1>7. StoreTyped' /\ CountsTyped'
  BY <1>4, Frame
<1> QED BY <1>4, <1>5, <1>6, <1>7 DEF Typed

-----------------------------------------------------------------------------
(* Types: beginning, and the memory system.                                *)

\* Operations under way when one begins lose nothing but `alone`.
LEMMA NotAlone ==
    ASSUME NEW r, Fits(r), r.pc # "idle"
    PROVE  LET x == [r EXCEPT !.alone = FALSE] IN
           /\ Fits(x) /\ x \in Coroutine /\ x.op = r.op /\ x.s = r.s /\ x.pc = r.pc
           /\ x.then = r.then /\ x.call = r.call /\ x.reply = r.reply /\ x.result = r.result
           /\ x.agent = r.agent /\ x.todo = r.todo /\ x.w = r.w /\ x.gone = r.gone
           /\ x.void = r.void /\ x.alone = FALSE
<1>1. r \in Coroutine
  BY DEF Fits, Whole
<1>2. PICK x : x = [r EXCEPT !.alone = FALSE]
  OBVIOUS
<1>3. /\ x \in Coroutine /\ x.op = r.op /\ x.s = r.s /\ x.pc = r.pc
      /\ x.then = r.then /\ x.call = r.call /\ x.reply = r.reply /\ x.result = r.result
      /\ x.agent = r.agent /\ x.todo = r.todo /\ x.w = r.w /\ x.gone = r.gone
      /\ x.void = r.void /\ x.alone = FALSE
  BY <1>1, <1>2 DEF Coroutine
<1>4. Fits(x)
  BY <1>3 DEF Fits, Whole, Placed, CallFits, Suits, ResultFits, Goes
<1> QED BY <1>2, <1>3, <1>4

LEMMA UnderType == ASSUME Typed PROVE \A ss : Under(ss) \subseteq Writes
<1>1. history.ended \subseteq Writes
  BY DEF Typed, History
<1>2. \A u \in Tasks : task[u].op = "write" => task[u].w \in Writes
  BY Values DEF Fits, Whole
<1> QED BY <1>1, <1>2 DEF Under

\* What begins has its arguments.
Called(op, s) ==
    \/ op \in {"reset", "write", "read"} /\ s \in Sessions
    \/ op \in {"reset_all", "close"} /\ s = None

LEMMA BeginFacts ==
    ASSUME Typed, NEW t \in Tasks, NEW op, NEW s, Called(op, s), Begin(t, op, s)
    PROVE  /\ ~ Busy(t)
           /\ counts' = [counts EXCEPT !.ops = counts.ops + 1] /\ counts.ops < MaxOps
           /\ history' = IF Removes(op) THEN Unsettled(history, Concerns(op, s)) ELSE history
           /\ UNCHANGED <<system, adapter, store>>
           /\ DOMAIN task' = Tasks
           /\ LET x == task'[t] IN
              /\ x \in Coroutine /\ x.op = op /\ x.s = s /\ x.pc = "begun" /\ x.then = "done"
              /\ x.call = NoCall /\ x.reply = "none" /\ x.result = {} /\ x.agent = None /\ x.todo = {}
              /\ x.w = (IF op = "write" THEN [n |-> counts.ops + 1, s |-> s] ELSE None)
              /\ x.void = (IF op = "read" THEN history.void ELSE {})
              /\ x.gone = (IF Removes(op) THEN Under(Concerns(op, s)) ELSE {})
              /\ x.alone => \A u \in Tasks \ {t} :
                    Busy(u) => /\ task[u].s # s
                               /\ {op, task[u].op} \cap {"reset_all", "close"} = {}
           /\ \A u \in Tasks \ {t} :
              \/ task'[u] = task[u]
              \/ Busy(u) /\ task'[u] = [task[u] EXCEPT !.alone = FALSE]
           /\ \A u \in Tasks \ {t} :
                 task'[u].alone =>
                    \/ ~ Busy(u)
                    \/ task[u].s # s /\ {op, task[u].op} \cap {"reset_all", "close"} = {}
<1> DEFINE near == {u \in Tasks \ {t} : /\ Busy(u)
                                      /\ \/ task[u].s = s
                                         \/ {op, task[u].op} \cap {"reset_all", "close"} # {}}
           w == IF op = "write" THEN [n |-> counts.ops + 1, s |-> s] ELSE None
           void == IF op = "read" THEN history.void ELSE {}
           gone == IF Removes(op) THEN Under(Concerns(op, s)) ELSE {}
           alone == near = {}
           x == [Idle EXCEPT !.op = op, !.s = s, !.pc = "begun", !.w = w, !.void = void,
                             !.gone = gone, !.alone = alone]
<1>1. /\ ~ Busy(t) /\ counts.ops < MaxOps /\ counts' = [counts EXCEPT !.ops = counts.ops + 1]
      /\ history' = IF Removes(op) THEN Unsettled(history, Concerns(op, s)) ELSE history
      /\ UNCHANGED <<system, adapter, store>>
      /\ task' = [u \in Tasks |-> IF u = t THEN x ELSE IF u \in near THEN [task[u] EXCEPT !.alone = FALSE]
                                             ELSE task[u]]
  BY DEF Begin
<1>2. w \in Writes \cup {None}
  <2>1. counts.ops + 1 \in 1..MaxOps
    <3>1. counts.ops \in Nat /\ MaxOps \in Nat
      BY Values
    <3>2. counts.ops < MaxOps
      BY <1>1
    <3> QED BY <3>1, <3>2
  <2> QED BY <2>1 DEF Writes, Called
<1>3. void \subseteq Writes /\ gone \subseteq Writes
  BY UnderType DEF Typed, History
<1>4. alone \in BOOLEAN
  OBVIOUS
<1>5. alone => \A u \in Tasks \ {t} :
                  Busy(u) => /\ task[u].s # s
                             /\ {op, task[u].op} \cap {"reset_all", "close"} = {}
  OBVIOUS
<1>6. \A u \in near : Busy(u) /\ u \in Tasks \ {t}
  OBVIOUS
<1>6a. \A u \in Tasks \ {t} : u \notin near =>
          ~ Busy(u) \/ (task[u].s # s /\ {op, task[u].op} \cap {"reset_all", "close"} = {})
  OBVIOUS
<1>7. op \in Ops /\ s \in Sessions \cup {None}
  BY DEF Called, Ops
<1>8. \A u \in Tasks : task[u] \in Coroutine
  BY Values
<1> HIDE DEF near, w, void, gone, alone
<1>9. /\ x \in Coroutine /\ x.op = op /\ x.s = s /\ x.pc = "begun" /\ x.then = "done"
      /\ x.call = NoCall /\ x.reply = "none" /\ x.result = {} /\ x.agent = None /\ x.todo = {}
      /\ x.w = w /\ x.void = void /\ x.gone = gone /\ x.alone = alone
  <2>1. Idle \in Coroutine /\ "begun" \in PCs
    BY IdleFields DEF PCs
  <2>2. x \in Coroutine
    BY <1>2, <1>3, <1>4, <1>7, <2>1 DEF Coroutine
  <2>3. /\ x.op = op /\ x.s = s /\ x.pc = "begun" /\ x.then = Idle.then
        /\ x.call = Idle.call /\ x.reply = Idle.reply /\ x.result = Idle.result
        /\ x.agent = Idle.agent /\ x.todo = Idle.todo
        /\ x.w = w /\ x.void = void /\ x.gone = gone /\ x.alone = alone
    BY <2>1 DEF Coroutine
  <2> HIDE DEF x
  <2> QED BY <2>2, <2>3, IdleFields
<1> HIDE DEF x
<1>10. task'[t] = x /\ DOMAIN task' = Tasks
  BY <1>1
<1>11. \A u \in near : task'[u] = [task[u] EXCEPT !.alone = FALSE] /\ task'[u].alone = FALSE
  <2>1. \A u \in near : task'[u] = [task[u] EXCEPT !.alone = FALSE]
    BY <1>1, <1>6
  <2>2. \A u \in near : [task[u] EXCEPT !.alone = FALSE].alone = FALSE
    BY <1>6, <1>8 DEF Coroutine
  <2> QED BY <2>1, <2>2
<1>12. \A u \in Tasks \ {t} : u \notin near => task'[u] = task[u]
  BY <1>1
<1>13. LET y == task'[t] IN
       /\ y \in Coroutine /\ y.op = op /\ y.s = s /\ y.pc = "begun" /\ y.then = "done"
       /\ y.call = NoCall /\ y.reply = "none" /\ y.result = {} /\ y.agent = None /\ y.todo = {}
       /\ y.w = (IF op = "write" THEN [n |-> counts.ops + 1, s |-> s] ELSE None)
       /\ y.void = (IF op = "read" THEN history.void ELSE {})
       /\ y.gone = (IF Removes(op) THEN Under(Concerns(op, s)) ELSE {})
       /\ y.alone => \A u \in Tasks \ {t} :
             Busy(u) => /\ task[u].s # s
                        /\ {op, task[u].op} \cap {"reset_all", "close"} = {}
  BY <1>5, <1>9, <1>10 DEF w, void, gone
<1>14. \A u \in Tasks \ {t} :
              \/ task'[u] = task[u]
              \/ Busy(u) /\ task'[u] = [task[u] EXCEPT !.alone = FALSE]
  BY <1>6, <1>11, <1>12
<1>15. \A u \in Tasks \ {t} :
          task'[u].alone =>
             \/ ~ Busy(u)
             \/ task[u].s # s /\ {op, task[u].op} \cap {"reset_all", "close"} = {}
  BY <1>6a, <1>11
<1> QED BY <1>1, <1>10, <1>13, <1>14, <1>15

LEMMA BeginTyped ==
    ASSUME Typed, NEW t \in Tasks, NEW op, NEW s, Called(op, s), Begin(t, op, s) PROVE Typed'
<1>1. /\ counts' = [counts EXCEPT !.ops = counts.ops + 1] /\ counts.ops < MaxOps
      /\ UNCHANGED <<system, adapter, store>> /\ DOMAIN task' = Tasks
  BY BeginFacts
<1>2. /\ counts'.ops = counts.ops + 1 /\ counts'.agents = counts.agents
      /\ counts'.clients = counts.clients /\ counts'.faults = counts.faults /\ CountsTyped'
  BY <1>1, Values DEF Typed, CountsTyped
<1>3. AdapterTyped' /\ StoreTyped'
  BY <1>1, <1>2, Frame, Values
<1>4. history' \in History
  <2>1. history \in History
    BY DEF Typed
  <2>2. history' = IF Removes(op) THEN Unsettled(history, Concerns(op, s)) ELSE history
    BY BeginFacts
  <2> QED BY <2>1, <2>2, HistoryTypes
<1>5. Fits(task[t])'
  <2>1. PICK x : /\ x = task'[t] /\ x \in Coroutine /\ x.op = op /\ x.s = s /\ x.pc = "begun"
                 /\ x.then = "done" /\ x.call = NoCall /\ x.reply = "none" /\ x.result = {}
                 /\ x.agent = None /\ x.todo = {}
                 /\ x.w = (IF op = "write" THEN [n |-> counts.ops + 1, s |-> s] ELSE None)
                 /\ x.void = (IF op = "read" THEN history.void ELSE {})
                 /\ x.gone = (IF Removes(op) THEN Under(Concerns(op, s)) ELSE {})
    BY BeginFacts
  <2>2. Whole(x)
    <3>1. op = "write" => x.w \in Writes /\ x.w.s = s
      BY <1>1, <2>1, Values DEF Writes, Called
    <3> QED BY <2>1, <3>1, Values DEF Whole, Called
  <2>3. Placed(x)
    BY <2>1 DEF Placed, Called
  <2>4. CallFits(x) /\ ResultFits(x)
    BY <2>1, IdleFields DEF CallFits, ResultFits, Calls
  <2>5. Fits(x)
    BY <2>2, <2>3, <2>4 DEF Fits
  <2>6. Fits(x)'
    BY <1>1, <1>2, <2>5, FitsStays, Values
  <2> QED BY <2>1, <2>6
<1>6. ASSUME NEW u \in Tasks, u # t PROVE Fits(task[u])' /\ task'[u] \in Coroutine
  <2>1. PICK x : x = task'[u]
    OBVIOUS
  <2>2. Fits(x) /\ x \in Coroutine
    <3>1. Fits(task[u]) /\ task[u] \in Coroutine
      BY Values
    <3>2. \/ x = task[u]
          \/ task[u].pc # "idle" /\ x = [task[u] EXCEPT !.alone = FALSE]
      <4>1. \A v \in Tasks \ {t} :
               \/ task'[v] = task[v]
               \/ Busy(v) /\ task'[v] = [task[v] EXCEPT !.alone = FALSE]
        BY BeginFacts
      <4> QED BY <1>6, <2>1, <4>1 DEF Busy
    <3>3. CASE task[u].pc # "idle" /\ x = [task[u] EXCEPT !.alone = FALSE]
      BY <3>1, <3>3, NotAlone
    <3> QED BY <3>1, <3>2, <3>3
  <2>3. Fits(x)'
    BY <1>1, <1>2, <2>2, FitsStays, Values
  <2> QED BY <2>1, <2>2, <2>3
<1>7. TasksTyped'
  <2>1. task' = [u \in Tasks |-> task'[u]]
    BY <1>1 DEF Begin
  <2>2. \A u \in Tasks : task'[u] \in Coroutine
    BY <1>6, BeginFacts
  <2> QED BY <1>5, <1>6, <2>1, <2>2 DEF TasksTyped
<1> QED BY <1>1, <1>2, <1>3, <1>4, <1>7 DEF Typed

\* What a call does to the memory system.
LEMMA EffectFacts ==
    ASSUME Typed, NEW c \in Call, Effect(c)
    PROVE  /\ c.kind = "create" =>
                 /\ live' = live \cup {[id |-> counts.agents + 1, name |-> c.in]}
                 /\ counts'.agents = counts.agents + 1
           /\ c.kind # "create" => live' \subseteq live /\ counts' = counts
           /\ c.kind = "delete" => live' = {a \in live : a.id # c.in}
           /\ c.kind \notin {"create", "delete"} => live' = live
           /\ content' \subseteq content \cup {[in |-> c.in, w |-> c.w]}
           /\ c.kind = "add" => content' = content \cup {[in |-> c.in, w |-> c.w]}
           /\ c.kind # "add" => content' \subseteq content
           /\ c.kind \in {"delete", "clear"} => content' = {m \in content : m.in # c.in}
           /\ c.kind = "clearall" => content' = {}
           /\ c.kind \notin {"add", "delete", "clear", "clearall"} => content' = content
           /\ counts'.ops = counts.ops /\ counts'.faults = counts.faults
           /\ counts'.clients = counts.clients
           /\ counts'.agents \in Nat /\ counts.agents <= counts'.agents
           /\ counts' \in [ops : Nat, faults : Nat, clients : Nat, agents : Nat]
<1>1. CASE c.kind = "create"
  <2>1. counts' = [counts EXCEPT !.agents = counts.agents + 1]
    BY <1>1 DEF Effect
  <2>2. /\ counts'.ops = counts.ops /\ counts'.faults = counts.faults
        /\ counts'.clients = counts.clients /\ counts'.agents = counts.agents + 1
        /\ counts' \in [ops : Nat, faults : Nat, clients : Nat, agents : Nat]
    BY <2>1 DEF Typed, CountsTyped
  <2> QED BY <1>1, <2>2, Values DEF Effect
<1>2. CASE c.kind # "create"
  <2>1. counts' = counts /\ counts \in [ops : Nat, faults : Nat, clients : Nat, agents : Nat]
    BY <1>2 DEF Effect, Typed, CountsTyped
  <2> QED BY <1>2, <2>1, Values DEF Effect
<1> QED BY <1>1, <1>2

LEMMA EffectTyped ==
    ASSUME Typed, NEW c \in Call, Effect(c), late' \subseteq late,
           UNCHANGED <<system, adapter>>,
           c.kind = "create" => c.in \in Sessions \cup {Probe},
           c.kind = "add" => c.w \in Writes
    PROVE  AdapterTyped' /\ StoreTyped' /\ CountsTyped'
<1>1. Known \subseteq Known' /\ Clients' = Clients
  BY EffectFacts, Values DEF Known, Clients
<1>2. AdapterTyped'
  BY <1>1 DEF Typed, AdapterTyped, adapter, Letta
<1>3. live' \subseteq [id : Known', name : Sessions \cup {Probe}]
  <2>1. live \subseteq [id : Known', name : Sessions \cup {Probe}]
    BY <1>1 DEF Typed, StoreTyped
  <2>2. CASE c.kind = "create"
    <3>1. counts.agents + 1 \in Known'
      BY <2>2, EffectFacts, Values DEF Known
    <3> QED BY <2>1, <2>2, <3>1, EffectFacts
  <2>3. CASE c.kind # "create"
    BY <2>1, <2>3, EffectFacts
  <2> QED BY <2>2, <2>3
<1>4. content' \subseteq [in : Addressees, w : Writes]
  <2>1. content \subseteq [in : Addressees, w : Writes]
    BY DEF Typed, StoreTyped
  <2>2. CASE c.kind = "add"
    <3>1. c.in \in Addressees /\ c.w \in Writes
      BY <2>2 DEF Call
    <3> QED BY <2>1, <2>2, <3>1, EffectFacts
  <2>3. CASE c.kind # "add"
    BY <2>1, <2>3, EffectFacts
  <2> QED BY <2>2, <2>3
<1>5. \A d \in late' : LateFits(d)'
  BY <1>1 DEF Typed, StoreTyped, LateFits, Letta
<1>6. CountsTyped'
  BY EffectFacts DEF Typed, CountsTyped
<1> QED BY <1>2, <1>3, <1>4, <1>5, <1>6 DEF StoreTyped

LEMMA ResultTyped ==
    ASSUME Typed, NEW c \in Call
    PROVE  /\ c.kind \in {"count", "find"} => Result(c) \subseteq Writes
           /\ c.kind \in {"list", "listall"} => Result(c) \subseteq Ids(live) /\ Result(c) \subseteq Known
           /\ c.kind = "create" => Result(c) = {counts.agents + 1}
           /\ c.kind \notin {"count", "find", "list", "listall", "create"} => Result(c) = {}
<1>1. /\ live \subseteq [id : Known, name : Sessions \cup {Probe}]
      /\ content \subseteq [in : Addressees, w : Writes]
  BY DEF Typed, StoreTyped
<1>2. c.kind \in {"count", "find"} => Result(c) \subseteq Writes
  BY <1>1 DEF Result, In
<1>3. c.kind \in {"list", "listall"} => Result(c) \subseteq Ids(live) /\ Result(c) \subseteq Known
  BY <1>1 DEF Result, Ids
<1> QED BY <1>2, <1>3 DEF Result

\* The answer to a call.
LEMMA ReplyFields ==
    ASSUME NEW r \in Coroutine, NEW res \in SUBSET (Nat \cup Writes)
    PROVE  LET x == [r EXCEPT !.reply = "ok", !.result = res] IN
           /\ Same(x, r) /\ x.pc = r.pc /\ x.then = r.then /\ x.call = r.call /\ x.agent = r.agent
           /\ x.todo = r.todo /\ x.reply = "ok" /\ x.result = res
BY DEF Coroutine, Same

LEMMA ErrorFields ==
    ASSUME NEW r \in Coroutine
    PROVE  LET x == [r EXCEPT !.reply = "error"] IN
           /\ Same(x, r) /\ x.pc = r.pc /\ x.then = r.then /\ x.call = r.call /\ x.agent = r.agent
           /\ x.todo = r.todo /\ x.reply = "error" /\ x.result = r.result
BY DEF Coroutine, Same

\* What a call waiting for its answer is like.
LEMMA WaitFacts ==
    ASSUME Typed, NEW t \in Tasks, task[t].reply = "wait"
    PROVE  /\ task[t].pc \in Calls /\ Suits(task[t], task[t].pc, task[t].call.kind, task[t].call.in)
           /\ Whole(task[t]) /\ task[t].call \in Call /\ task[t].op # "none" /\ task[t].result = {}
           /\ task[t].call.w = (IF task[t].call.kind = "add" THEN task[t].w ELSE None)
           /\ task[t].call.kind = "create" => task[t].call.in \in Sessions \cup {Probe}
           /\ task[t].call.kind = "add" => task[t].call.w \in Writes /\ task[t].op = "write"
           /\ task[t].pc = "work" <=> task[t].call.kind \in {"add", "find"}
           /\ task[t].pc = "verify" <=> task[t].call.kind = "count"
<1> DEFINE r == task[t]
<1>1. Whole(r) /\ Placed(r) /\ CallFits(r) /\ ResultFits(r) /\ r \in Coroutine
  BY Values DEF Fits
<1> HIDE DEF r
<1>2. r.reply = "wait"
  BY DEF r
<1>3. /\ r.pc \in Calls /\ r.pc # "idle" /\ r.op # "none" /\ Suits(r, r.pc, r.call.kind, r.call.in)
      /\ r.result = {} /\ r.call.w = (IF r.call.kind = "add" THEN r.w ELSE None)
  BY <1>1, <1>2 DEF CallFits, ResultFits, Placed, Calls
<1>4. r.call \in Call
  BY <1>1, Fields
<1>5. r.call.kind = "create" => r.call.in \in Sessions \cup {Probe}
  <2>1. r.s \in Sessions \cup {None}
    BY <1>1, Fields
  <2> QED BY <1>1, <1>3, <2>1 DEF Suits, Calls, Goes, Whole, SweepKind
<1>6. r.call.kind = "add" => r.call.w \in Writes /\ r.op = "write"
  BY <1>1, <1>3 DEF Suits, Calls, Whole, SweepKind
<1>7. /\ r.pc = "work" <=> r.call.kind \in {"add", "find"}
      /\ r.pc = "verify" <=> r.call.kind = "count"
  BY <1>3 DEF Suits, Calls, SweepKind
<1> QED BY <1>1, <1>3, <1>4, <1>5, <1>6, <1>7 DEF r

\* What the system does about the call t waits for.
LEMMA HandleFacts ==
    ASSUME Typed, NEW t \in Tasks, Handle(t)
    PROVE  /\ task[t].reply = "wait" /\ task[t].call.client \in open
           /\ UNCHANGED <<system, adapter, late, history>> /\ DOMAIN task' = Tasks
           /\ LET x == task'[t] IN
              /\ Same(x, task[t]) /\ x.pc = task[t].pc /\ x.then = task[t].then
              /\ x.call = task[t].call /\ x.agent = task[t].agent /\ x.todo = task[t].todo
              /\ Fits(task[t])' /\ x \in Coroutine
              /\ \/ /\ x.reply = "ok" /\ x.result = Result(task[t].call)
                    /\ Works(task[t].call) /\ Effect(task[t].call)
                 \/ /\ x.reply = "error" /\ x.result = {}
                    /\ ~ Works(task[t].call) /\ UNCHANGED <<live, content, counts>>
              /\ task' = [task EXCEPT ![t] = x]
           /\ \A u \in Tasks \ {t} : task'[u] = task[u]
<1> DEFINE c == task[t].call
<1>1. /\ task[t].reply = "wait" /\ c.client \in open
      /\ UNCHANGED <<system, adapter, late, history>>
  BY DEF Handle
<1>2. task \in [Tasks -> Coroutine] /\ task[t] \in Coroutine /\ c \in Call /\ Whole(task[t])
  BY <1>1, Values, WaitFacts DEF Typed, TasksTyped
<1>3. Result(c) \in SUBSET (Nat \cup Writes)
  <2>1. counts.agents + 1 \in Nat /\ Known \subseteq Nat
    BY Values
  <2> QED BY <1>2, <2>1, ResultTyped DEF Call
<1>4. ASSUME Works(c), Effect(c), task' = [task EXCEPT ![t].reply = "ok", ![t].result = Result(c)]
      PROVE  LET x == task'[t] IN
              /\ Same(x, task[t]) /\ x.pc = task[t].pc /\ x.then = task[t].then
              /\ x.call = task[t].call /\ x.agent = task[t].agent /\ x.todo = task[t].todo
              /\ x \in Coroutine /\ x.reply = "ok" /\ x.result = Result(c) /\ Fits(task[t])'
              /\ task' = [task EXCEPT ![t] = x]
  <2>1. PICK x : x = [task[t] EXCEPT !.reply = "ok", !.result = Result(c)]
    OBVIOUS
  <2>2. task'[t] = x /\ task' = [task EXCEPT ![t] = x]
    BY <1>2, <1>4, <2>1
  <2>3. /\ Same(x, task[t]) /\ x.pc = task[t].pc /\ x.then = task[t].then /\ x.call = c
        /\ x.agent = task[t].agent /\ x.todo = task[t].todo /\ x.reply = "ok" /\ x.result = Result(c)
        /\ x \in Coroutine
    <3> DEFINE res == Result(c)
    <3>1. res \in SUBSET (Nat \cup Writes) /\ task[t] \in Coroutine
      BY <1>2, <1>3
    <3> HIDE DEF res
    <3>2. LET y == [task[t] EXCEPT !.reply = "ok", !.result = res] IN
          /\ Same(y, task[t]) /\ y.pc = task[t].pc /\ y.then = task[t].then
          /\ y.call = task[t].call /\ y.agent = task[t].agent
          /\ y.todo = task[t].todo /\ y.reply = "ok" /\ y.result = res
      BY <3>1, ReplyFields
    <3> QED BY <2>1, <3>2 DEF Same, res
  <2>4. counts.agents \in Nat /\ counts'.agents \in Nat /\ counts.agents <= counts'.agents
    BY <1>2, <1>4, EffectFacts, Values
  <2>5. Known \subseteq Known' /\ (c.kind = "create" => counts.agents + 1 \in Known')
    BY <1>2, <1>4, <2>4, EffectFacts, Values DEF Known
  <2> HIDE DEF c
  <2>6. /\ task[t].pc \in Calls /\ Suits(task[t], task[t].pc, c.kind, c.in)
        /\ c.w = (IF c.kind = "add" THEN task[t].w ELSE None)
        /\ task[t].pc = "work" <=> c.kind \in {"add", "find"}
        /\ task[t].pc = "verify" <=> c.kind = "count"
        /\ task[t].op # "none"
    BY <1>1, WaitFacts DEF c
  <2>7. Whole(x)
    BY <1>2, <2>3, SameWhole DEF Whole
  <2>8. Placed(x)
    BY <2>3, <2>6 DEF Placed, Calls, Starting, Same
  <2>9. Suits(x, x.pc, x.call.kind, x.call.in)
    BY <2>3, <2>6 DEF Suits, Same, Goes
  <2>10. CallFits(x)
    BY <2>3, <2>6, <2>9 DEF CallFits, Same
  <2>11. /\ x.pc \in {"verify", "work"} => x.result \subseteq Writes
         /\ x.pc \notin {"verify", "work"} => x.result \subseteq Known'
    BY <1>2, <2>3, <2>5, <2>6, ResultTyped
  <2>12. /\ Whole(x)' /\ Placed(x)' /\ CallFits(x)'
    BY <1>1, <2>5, <2>7, <2>8, <2>10 DEF Whole, Placed, CallFits, Suits, Goes, Letta, Mem0, Zep, SweepKind
  <2>13. ResultFits(x)'
    BY <2>3, <2>11 DEF ResultFits
  <2>14. Fits(task[t])'
    BY <2>2, <2>12, <2>13 DEF Fits
  <2> QED BY <2>2, <2>3, <2>14 DEF c
<1>5. ASSUME ~ Works(c), UNCHANGED <<live, content, counts>>, task' = [task EXCEPT ![t].reply = "error"]
      PROVE  LET x == task'[t] IN
              /\ Same(x, task[t]) /\ x.pc = task[t].pc /\ x.then = task[t].then
              /\ x.call = task[t].call /\ x.agent = task[t].agent /\ x.todo = task[t].todo
              /\ x \in Coroutine /\ x.reply = "error" /\ x.result = {} /\ Fits(task[t])'
              /\ task' = [task EXCEPT ![t] = x]
  <2>1. PICK x : x = [task[t] EXCEPT !.reply = "error"]
    OBVIOUS
  <2>2. task'[t] = x /\ task' = [task EXCEPT ![t] = x]
    BY <1>2, <1>5, <2>1
  <2>3. /\ Same(x, task[t]) /\ x.pc = task[t].pc /\ x.then = task[t].then /\ x.call = c
        /\ x.agent = task[t].agent /\ x.todo = task[t].todo /\ x.reply = "error"
        /\ x.result = {} /\ x \in Coroutine
    BY <1>1, <1>2, <2>1, ErrorFields, WaitFacts DEF Same
  <2> HIDE DEF c
  <2>6. /\ task[t].pc \in Calls /\ Suits(task[t], task[t].pc, c.kind, c.in)
        /\ c.w = (IF c.kind = "add" THEN task[t].w ELSE None) /\ task[t].op # "none"
    BY <1>1, WaitFacts DEF c
  <2>7. Whole(x)
    BY <1>2, <2>3, SameWhole DEF Whole
  <2>8. Placed(x)
    BY <2>3, <2>6 DEF Placed, Calls, Starting, Same
  <2>9. Suits(x, x.pc, x.call.kind, x.call.in)
    BY <2>3, <2>6 DEF Suits, Same, Goes
  <2>10. CallFits(x) /\ ResultFits(x)
    BY <2>3, <2>6, <2>9 DEF CallFits, Same, ResultFits
  <2>11. Fits(x)'
    BY <1>1, <1>5, <2>7, <2>8, <2>10, FitsStays, Values DEF Fits
  <2>12. Fits(task[t])'
    BY <2>2, <2>11
  <2> QED BY <2>2, <2>3, <2>12 DEF c
<1>6. \/ Works(c) /\ Effect(c) /\ task' = [task EXCEPT ![t].reply = "ok", ![t].result = Result(c)]
      \/ ~ Works(c) /\ UNCHANGED <<live, content, counts>> /\ task' = [task EXCEPT ![t].reply = "error"]
  BY DEF Handle
<1>7. DOMAIN task' = Tasks /\ \A u \in Tasks \ {t} : task'[u] = task[u]
  BY <1>2, <1>6
<1> QED BY <1>1, <1>4, <1>5, <1>6, <1>7

LEMMA HandleTyped == ASSUME Typed, NEW t \in Tasks, Handle(t) PROVE Typed'
<1>1. /\ task[t].reply = "wait" /\ UNCHANGED <<system, adapter, late, history>>
      /\ history \in History
  BY HandleFacts DEF Typed
<1>2. PICK x : x = task'[t]
  OBVIOUS
<1>2a. x \in Coroutine /\ task' = [task EXCEPT ![t] = x] /\ Fits(task[t])'
  BY <1>2, HandleFacts
<1>2b. Fits(x)'
  BY <1>2, <1>2a
<1>3. Effect(task[t].call) \/ UNCHANGED <<live, content, counts>>
  BY HandleFacts
<1>4. counts'.agents \in Nat /\ counts.agents <= counts'.agents
  BY <1>1, <1>3, EffectFacts, WaitFacts, Values
<1>5. TasksTyped'
  BY <1>1, <1>2a, <1>2b, <1>4, PutTyped
<1>6. AdapterTyped' /\ StoreTyped' /\ CountsTyped'
  <2>1. CASE Effect(task[t].call)
    BY <1>1, <2>1, EffectTyped, WaitFacts
  <2>2. CASE UNCHANGED <<live, content, counts>>
    BY <1>1, <2>2, Frame DEF store
  <2> QED BY <1>3, <2>1, <2>2
<1> QED BY <1>1, <1>5, <1>6 DEF Typed

LEMMA HandleLateTyped == ASSUME Typed, NEW c \in late, HandleLate(c) PROVE Typed'
<1>1. /\ UNCHANGED <<system, adapter, task, history>> /\ late' = late \ {c}
      /\ Effect(c) \/ UNCHANGED <<live, content, counts>>
  BY DEF HandleLate
<1>2. LateFits(c) /\ c \in Call
  BY DEF Typed, StoreTyped, LateFits
<1>3. /\ c.kind = "create" => c.in \in Sessions \cup {Probe}
      /\ c.kind = "add" => c.w \in Writes
  BY <1>2 DEF LateFits
<1>4. counts'.agents \in Nat /\ counts.agents <= counts'.agents /\ counts.agents \in Nat
  BY <1>1, <1>2, EffectFacts, Values
<1>5. AdapterTyped' /\ StoreTyped' /\ CountsTyped'
  <2>1. CASE Effect(c)
    BY <1>1, <1>2, <1>3, <2>1, EffectTyped
  <2>2. CASE UNCHANGED <<live, content, counts>>
    <3>1. AdapterTyped' /\ CountsTyped'
      BY <1>1, <2>2, Frame
    <3>2. StoreTyped'
      BY <1>1, <2>2 DEF Typed, StoreTyped, LateFits, Letta, Known
    <3> QED BY <3>1, <3>2
  <2> QED BY <1>1, <2>1, <2>2
<1>6. TasksTyped'
  <2>1. \A u \in Tasks : Fits(task[u])'
    <3> SUFFICES ASSUME NEW u \in Tasks, NEW r, r = task[u] PROVE Fits(r)'
      BY <1>1
    <3> QED BY <1>1, <1>4, FitsStays, Values
  <2> QED BY <1>1, <2>1 DEF Typed, TasksTyped
<1> QED BY <1>1, <1>5, <1>6 DEF Typed

-----------------------------------------------------------------------------
(* Types: reset, write and search.                                         *)

\* What holds of a coroutine wherever it is.
LEMMA Here ==
    ASSUME Typed, NEW t \in Tasks
    PROVE  /\ task \in [Tasks -> Coroutine] /\ task[t] \in Coroutine
           /\ Whole(task[t]) /\ Placed(task[t]) /\ CallFits(task[t]) /\ ResultFits(task[t])
           /\ task[t].s \in Sessions \cup {None} /\ client \in Nat \cup {None}
           /\ mem \in Nat \cup {None} /\ history \in History
           /\ agents \in [Sessions -> Known \cup {None}] /\ agents \in [Sessions -> Nat \cup {None}]
BY Values, Fields DEF Fits, Typed, TasksTyped, AdapterTyped

\* The same coroutine with another agent, or with more to delete.
LEMMA OtherFields ==
    ASSUME NEW r \in Coroutine
    PROVE  /\ \A a \in Nat \cup {None} :
                LET x == [r EXCEPT !.agent = a] IN
                /\ Same(x, r) /\ x.pc = r.pc /\ x.then = r.then /\ x.call = r.call /\ x.agent = a
                /\ x.todo = r.todo /\ x.reply = r.reply /\ x.result = r.result
           /\ \A todo \in SUBSET Nat :
                LET x == [r EXCEPT !.todo = todo] IN
                /\ Same(x, r) /\ x.pc = r.pc /\ x.then = r.then /\ x.call = r.call
                /\ x.agent = r.agent /\ x.todo = todo /\ x.reply = r.reply /\ x.result = r.result
           /\ \A p \in {"done", "sweep", "wipe", "scope", "restart"} :
                LET x == [r EXCEPT !.then = p] IN
                /\ Same(x, r) /\ x.pc = r.pc /\ x.then = p /\ x.call = r.call
                /\ x.agent = r.agent /\ x.todo = r.todo /\ x.reply = r.reply /\ x.result = r.result
BY DEF Coroutine, Same

LEMMA RunResetTyped == ASSUME Typed, NEW t \in Tasks, RunReset(t) PROVE Typed'
<1> DEFINE p == IF Mem0 THEN "scope" ELSE "sweep"
<1>1. p \in {"sweep", "wipe", "scope"} /\ Goes(task[t], p)
  BY DEF RunReset, Goes
<1>2. OnceStarted(t, task[t], p, history) /\ UNCHANGED <<system, started, agents, store>>
  BY DEF RunReset
<1> HIDE DEF p
<1> QED BY <1>1, <1>2, OnceStartedTyped, Here

LEMMA NextDeletionFacts ==
    ASSUME Typed, NEW r, Whole(r), Letta, Goes(r, "sweep"), NEW todo \in SUBSET Known
    PROVE  LET x == NextDeletion(r, todo) IN
           /\ Fits(x) /\ Same(x, r) /\ x.agent = r.agent /\ x.then = r.then /\ x.reply = "wait"
           /\ x.result = {} /\ x.call.client = client
           /\ todo = {} => x.pc = "create" /\ x.call.kind = "create" /\ x.call.in = r.s /\ x.todo = r.todo
           /\ todo # {} => /\ x.pc = "delete" /\ x.call.kind = "delete" /\ x.call.in \in todo
                           /\ x.todo = todo \ {x.call.in}
<1>0. /\ r \in Coroutine /\ r.op # "none" /\ client \in Nat \cup {None} /\ r.s \in Addressees
      /\ Known \subseteq Nat
  BY Fields, Values DEF Whole, Goes, Typed, AdapterTyped, Addressees
<1>1. CASE todo = {}
  <2>1. Suits(r, "create", "create", r.s) /\ "create" \in Calls /\ "create" \in Kinds
    BY DEF Suits, Calls, Kinds
  <2>2. LET x == Calling(r, "create", "create", r.s, client) IN
         /\ Fits(x) /\ Same(x, r) /\ x.pc = "create" /\ x.then = r.then /\ x.reply = "wait"
         /\ x.result = {} /\ x.agent = r.agent /\ x.todo = r.todo
         /\ x.call.kind = "create" /\ x.call.in = r.s /\ x.call.client = client
    BY <1>0, <2>1, CallPut
  <2> QED BY <1>1, <2>2 DEF NextDeletion
<1>2. CASE todo # {}
  <2>1. PICK a \in todo : a = CHOOSE x \in todo : TRUE
    BY <1>2
  <2>2. PICK q : q = [r EXCEPT !.todo = todo \ {a}]
    OBVIOUS
  <2>3. /\ Same(q, r) /\ q.then = r.then /\ q.agent = r.agent /\ q.todo = todo \ {a}
    <3>1. PICK rest \in SUBSET Nat : rest = todo \ {a}
      BY <1>0
    <3>2. LET y == [r EXCEPT !.todo = rest] IN
          Same(y, r) /\ y.then = r.then /\ y.agent = r.agent /\ y.todo = rest
      BY <1>0, OtherFields
    <3> QED BY <2>2, <3>1, <3>2
  <2>4. Whole(q) /\ Goes(q, "sweep") /\ q.op # "none" /\ q \in Coroutine
    BY <1>0, <2>3, SameWhole DEF Goes, Same
  <2>5. Suits(q, "delete", "delete", a) /\ "delete" \in Calls /\ "delete" \in Kinds /\ a \in Addressees
    BY <1>0, <2>4 DEF Suits, Calls, Kinds, Addressees
  <2>6. LET x == Calling(q, "delete", "delete", a, client) IN
         /\ Fits(x) /\ Same(x, q) /\ x.pc = "delete" /\ x.then = q.then /\ x.reply = "wait"
         /\ x.result = {} /\ x.agent = q.agent /\ x.todo = q.todo
         /\ x.call.kind = "delete" /\ x.call.in = a /\ x.call.client = client
    BY <1>0, <2>4, <2>5, CallPut
  <2>7. NextDeletion(r, todo) = Calling(q, "delete", "delete", a, client)
    BY <1>2, <2>1, <2>2 DEF NextDeletion
  <2>8. PICK x : x = Calling(q, "delete", "delete", a, client)
    OBVIOUS
  <2>9. /\ Fits(x) /\ Same(x, q) /\ x.pc = "delete" /\ x.then = q.then /\ x.reply = "wait"
        /\ x.result = {} /\ x.agent = q.agent /\ x.todo = q.todo
        /\ x.call.kind = "delete" /\ x.call.in = a /\ x.call.client = client
    BY <2>6, <2>8
  <2>10. Same(x, r)
    BY <2>3, <2>9 DEF Same
  <2> QED BY <1>2, <2>3, <2>7, <2>8, <2>9, <2>10
<1> QED BY <1>1, <1>2

LEMMA SweptTyped == ASSUME Typed, NEW t \in Tasks, Swept(t) PROVE Typed'
<1>1. /\ task[t].pc = "sweep" /\ task[t].op # "none" /\ task[t].result \subseteq Known
      /\ Goes(task[t], "sweep") \/ (Mem0 /\ task[t].op = "reset")
  BY Here DEF Swept, Answered, At, CallFits, ResultFits, Suits, Calls, Goes
<1>2. TasksTyped'
  <2>1. CASE Letta
    <3>1. Goes(task[t], "sweep")
      BY <1>1, <2>1 DEF Letta, Mem0
    <3>2. PICK x : x = NextDeletion(task[t], task[t].result)
      OBVIOUS
    <3>3. Fits(x)
      BY <1>1, <2>1, <3>1, <3>2, Here, NextDeletionFacts
    <3>4. task' = [task EXCEPT ![t] = x] /\ system' = system /\ counts' = counts
      BY <2>1, <3>2 DEF Swept, Put, OnlyTask
    <3> QED BY <3>3, <3>4, PutFits
  <2>2. CASE ~ Letta
    <3> DEFINE k == IF Mem0 THEN task[t].call.client ELSE client
    <3>1. Suits(task[t], "verify", "count", task[t].s)
      BY <1>1, <2>2 DEF Suits
    <3>2. "verify" \in Calls /\ "count" \in Kinds /\ task[t].s \in Addressees
      BY Here DEF Calls, Kinds, Addressees
    <3>3. k \in Nat \cup {None}
      <4>1. task[t].call \in Call
        BY Here, Fields
      <4> QED BY <4>1, Here DEF Call
    <3>4. Put(t, Calling(task[t], "verify", "count", task[t].s, k)) /\ system' = system /\ counts' = counts
      BY <2>2 DEF Swept, OnlyTask
    <3> HIDE DEF k
    <3> QED BY <1>1, <3>1, <3>2, <3>3, <3>4, Here, CallStep
  <2> QED BY <2>1, <2>2
<1> QED BY <1>2, Here, TaskStep DEF Swept, OnlyTask

LEMMA DeletedTyped == ASSUME Typed, NEW t \in Tasks, Deleted(t) PROVE Typed'
<1>1. Letta /\ Goes(task[t], "sweep") /\ task[t].todo \subseteq Known
  BY Here DEF Deleted, Answered, At, CallFits, Suits, Calls, Whole
<1>2. PICK x : x = NextDeletion(task[t], task[t].todo)
  OBVIOUS
<1>3. Fits(x)
  BY <1>1, <1>2, Here, NextDeletionFacts
<1>4. task' = [task EXCEPT ![t] = x] /\ system' = system /\ counts' = counts
  BY <1>2 DEF Deleted, Put, OnlyTask
<1>5. TasksTyped'
  BY <1>3, <1>4, PutFits
<1> QED BY <1>5, Here, TaskStep DEF Deleted, OnlyTask

LEMMA CreatedTyped == ASSUME Typed, NEW t \in Tasks, Created(t) PROVE Typed'
<1>1. /\ task[t].pc = "create" /\ Letta /\ Goes(task[t], "sweep") /\ task[t].result \subseteq Known
      /\ task[t].op # "none" /\ task[t].s \in Sessions
  BY Here DEF Created, Answered, At, CallFits, ResultFits, Suits, Calls, Goes, Whole
<1>2. PICK a \in task[t].result :
         /\ agents' = [agents EXCEPT ![task[t].s] = a]
         /\ Put(t, Calling(task[t], "verify", "count", a, client))
  BY DEF Created
<1>3. UNCHANGED <<system, started, client, mem, open, store, counts, history>>
  BY DEF Created
<1>4. a \in Known /\ a \in Addressees /\ "verify" \in Calls /\ "count" \in Kinds
  BY <1>1, Values DEF Addressees, Calls, Kinds
<1>5. Suits(task[t], "verify", "count", a)
  BY <1>1, <1>4 DEF Suits
<1>6. TasksTyped'
  BY <1>1, <1>2, <1>3, <1>4, <1>5, Here, CallStep
<1>7. AdapterTyped'
  BY <1>1, <1>2, <1>3, <1>4 DEF Typed, AdapterTyped, Clients, Known, Letta
<1>8. StoreTyped' /\ CountsTyped'
  BY <1>3, Frame
<1> QED BY <1>3, <1>6, <1>7, <1>8 DEF Typed

\* An operation that ends, and nothing else.
LEMMA EndStep ==
    ASSUME Typed, NEW t \in Tasks, Busy(t), Finish(t), UNCHANGED <<system, adapter, store, counts>>
    PROVE  Typed'
BY FinishTyped, TaskStep

LEMMA VerifiedTyped == ASSUME Typed, NEW t \in Tasks, Verified(t) PROVE Typed'
BY EndStep DEF Verified, Answered, At, Busy

LEMMA WorkedTyped == ASSUME Typed, NEW t \in Tasks, Worked(t) PROVE Typed'
BY EndStep DEF Worked, Answered, At, Busy

LEMMA IndexedTyped == ASSUME Typed, NEW t \in Tasks, Indexed(t) PROVE Typed'
BY EndStep DEF Indexed, At, Busy

LEMMA AclosedTyped == ASSUME Typed, NEW t \in Tasks, Aclosed(t) PROVE Typed'
BY EndStep DEF Aclosed, At, Busy

\* The operation that goes on with the agent of its session.
LEMMA AgentSet ==
    ASSUME Typed, NEW t \in Tasks, task[t].op \in {"write", "read"}, Letta => agents[task[t].s] # None
    PROVE  LET x == [task[t] EXCEPT !.agent = agents[task[t].s]] IN
           /\ Whole(x) /\ Goes(x, "scope") /\ Same(x, task[t]) /\ x.agent = agents[task[t].s]
           /\ x.todo = task[t].todo
<1>1. task[t].s \in Sessions
  BY Here DEF Whole
<1>2. agents[task[t].s] \in Nat \cup {None} /\ agents[task[t].s] \in Known \cup {None}
  BY <1>1, Here
<1>3. ~ Letta => agents[task[t].s] = None
  BY <1>1 DEF Typed, AdapterTyped
<1>4. PICK x : x = [task[t] EXCEPT !.agent = agents[task[t].s]]
  OBVIOUS
<1>5. /\ Same(x, task[t]) /\ x.agent = agents[task[t].s] /\ x.todo = task[t].todo
  <2>1. task[t] \in Coroutine
    BY Here
  <2>2. PICK b \in Nat \cup {None} : b = agents[task[t].s]
    BY <1>2
  <2>3. LET y == [task[t] EXCEPT !.agent = b] IN
        /\ Same(y, task[t]) /\ y.agent = b /\ y.todo = task[t].todo
    BY <2>1, OtherFields
  <2> QED BY <1>4, <2>2, <2>3
<1>6. Whole(x)
  BY <1>2, <1>3, <1>5, Here DEF Whole, Same
<1>7. Goes(x, "scope")
  BY <1>5 DEF Goes, Same
<1> QED BY <1>4, <1>5, <1>6, <1>7

LEMMA AgentMadeTyped == ASSUME Typed, NEW t \in Tasks, AgentMade(t) PROVE Typed'
<1>1. PICK r : r = [task[t] EXCEPT !.agent = agents[task[t].s]]
  OBVIOUS
<1> DEFINE h == IF r.alone THEN [history EXCEPT !.steady = history.steady \cup {r.s}] ELSE history
<1>2. /\ task[t].pc = "verify" /\ task[t].op \in {"write", "read"} /\ r.agent # None
      /\ OnceStarted(t, r, "scope", h) /\ UNCHANGED <<system, started, agents, store>>
  BY <1>1 DEF AgentMade, Answered, At
<1>3. task[t].s \in Sessions
  BY <1>2, Here DEF Whole
<1>4. agents[task[t].s] # None
  BY <1>1, <1>2, <1>3, Here, OtherFields
<1>5. Whole(r) /\ Goes(r, "scope") /\ r.s = task[t].s
  BY <1>1, <1>2, <1>4, AgentSet DEF Same
<1>6. h \in History
  BY <1>3, <1>5, Here DEF History
<1> HIDE DEF h
<1> QED BY <1>2, <1>5, <1>6, OnceStartedTyped

LEMMA RunWorkTyped == ASSUME Typed, NEW t \in Tasks, RunWork(t) PROVE Typed'
<1>1. /\ task[t].pc = "begun" /\ task[t].op \in {"write", "read"}
      /\ UNCHANGED <<system, started, agents, store>>
  BY DEF RunWork, At
<1>2. CASE Letta /\ agents[task[t].s] = None
  <2>1. OnceStarted(t, task[t], "sweep", Unsettled(history, {task[t].s}))
    BY <1>2 DEF RunWork
  <2>2. Goes(task[t], "sweep")
    BY <1>1, <1>2, Here DEF Goes, Placed
  <2>3. Unsettled(history, {task[t].s}) \in History
    BY Here, HistoryTypes
  <2> QED BY <1>1, <2>1, <2>2, <2>3, Here, OnceStartedTyped
<1>3. CASE ~ (Letta /\ agents[task[t].s] = None)
  <2>1. PICK r : r = [task[t] EXCEPT !.agent = agents[task[t].s]]
    OBVIOUS
  <2>2. OnceStarted(t, r, "scope", history)
    BY <1>3, <2>1 DEF RunWork
  <2>3. Whole(r) /\ Goes(r, "scope")
    BY <1>1, <1>3, <2>1, AgentSet
  <2> QED BY <1>1, <2>2, <2>3, Here, OnceStartedTyped
<1> QED BY <1>2, <1>3

LEMMA ScopedTyped == ASSUME Typed, NEW t \in Tasks, Scoped(t) PROVE Typed'
<1> DEFINE r == task[t]
           k == IF Letta THEN client ELSE mem
<1>1. /\ r.pc = "scope" /\ Goes(r, "scope") /\ r.op # "none" /\ Whole(r)
  BY Here DEF Scoped, At, Placed
<1>2. k \in Nat \cup {None} /\ r.s \in Addressees /\ (IF Letta THEN r.agent ELSE r.s) \in Addressees
  BY Here, Fields, <1>1 DEF Addressees
<1>3. {"sweep", "work"} \subseteq Calls /\ {"clear", "add", "find"} \subseteq Kinds
  BY DEF Calls, Kinds
<1>4. system' = system /\ counts' = counts
  BY DEF Scoped, OnlyTask
<1>5. Put(t, CASE r.op = "reset" -> Calling(r, "sweep", "clear", r.s, k)
                [] r.op = "write" -> Calling(r, "work", "add", IF Letta THEN r.agent ELSE r.s, k)
                [] r.op = "read" -> Calling(r, "work", "find", IF Letta THEN r.agent ELSE r.s, k))
  BY DEF Scoped
<1> HIDE DEF r, k
<1>6. TasksTyped'
  <2>1. CASE r.op = "reset"
    <3>1. Put(t, Calling(r, "sweep", "clear", r.s, k))
      BY <1>5, <2>1
    <3>2. Suits(r, "sweep", "clear", r.s)
      BY <1>1, <2>1 DEF Suits, Goes, SweepKind, Letta, Mem0
    <3> QED BY <1>1, <1>2, <1>3, <1>4, <3>1, <3>2, CallStep
  <2>2. CASE r.op = "write"
    <3>1. Put(t, Calling(r, "work", "add", IF Letta THEN r.agent ELSE r.s, k))
      BY <1>5, <2>2
    <3>2. Suits(r, "work", "add", IF Letta THEN r.agent ELSE r.s)
      BY <1>1, <2>2 DEF Suits
    <3> QED BY <1>1, <1>2, <1>3, <1>4, <3>1, <3>2, CallStep
  <2>3. CASE r.op = "read"
    <3>1. Put(t, Calling(r, "work", "find", IF Letta THEN r.agent ELSE r.s, k))
      BY <1>5, <2>3
    <3>2. Suits(r, "work", "find", IF Letta THEN r.agent ELSE r.s)
      BY <1>1, <2>3 DEF Suits
    <3> QED BY <1>1, <1>2, <1>3, <1>4, <3>1, <3>2, CallStep
  <2> QED BY <1>1, <2>1, <2>2, <2>3 DEF Goes
<1> QED BY <1>6, Here, TaskStep DEF Scoped, OnlyTask

-----------------------------------------------------------------------------
(* Types: reset_all, close and exceptions.                                 *)

LEMMA RunResetAllTyped == ASSUME Typed, NEW t \in Tasks, RunResetAll(t) PROVE Typed'
<1>1. Goes(task[t], "wipe")
  BY DEF RunResetAll, Goes
<1>2. OnceStarted(t, task[t], "wipe", history) /\ UNCHANGED <<system, started, agents, store>>
  BY DEF RunResetAll
<1> QED BY <1>1, <1>2, OnceStartedTyped, Here

\* A new client.
LEMMA ClientCounted ==
    ASSUME Typed, counts' = [counts EXCEPT !.clients = counts.clients + 1]
    PROVE  /\ counts'.clients = counts.clients + 1 /\ counts'.agents = counts.agents
           /\ CountsTyped' /\ Clients' = Clients \cup {counts.clients + 1}
<1>1. /\ counts' \in [ops : Nat, faults : Nat, clients : Nat, agents : Nat]
      /\ counts'.clients = counts.clients + 1 /\ counts'.agents = counts.agents
      /\ counts'.ops = counts.ops /\ counts'.faults = counts.faults
  BY Values DEF Typed, CountsTyped
<1>2. Clients' = Clients \cup {counts.clients + 1}
  BY <1>1, Values DEF Clients
<1> QED BY <1>1, <1>2 DEF Typed, CountsTyped

LEMMA RunResetAllMem0Facts ==
    ASSUME Typed, NEW t \in Tasks, RunResetAllMem0(t)
    PROVE  /\ Mem0 /\ task[t].op = "reset_all" /\ task[t].pc = "begun"
           /\ DOMAIN task' = Tasks
           /\ LET x == task'[t] IN
              /\ Fits(x) /\ Same(x, task[t]) /\ x.pc = "wipe"
              /\ x.then = (IF started THEN "restart" ELSE "done") /\ x.agent = None
              /\ x.todo = task[t].todo /\ x.result = {} /\ x.reply = "wait"
              /\ x.call.kind = "clearall" /\ x.call.client = counts.clients + 1 /\ x.call.w = None
              /\ task' = [task EXCEPT ![t] = x]
           /\ \A u \in Tasks \ {t} : task'[u] = task[u]
<1> DEFINE k == counts.clients + 1
           p == IF started THEN "restart" ELSE "done"
<1>1. /\ Mem0 /\ task[t].op = "reset_all" /\ task[t].pc = "begun" /\ ~ Letta
      /\ Put(t, [Calling(task[t], "wipe", "clearall", None, k) EXCEPT !.then = p])
  BY DEF RunResetAllMem0, At, Mem0, Letta
<1>2. /\ Whole(task[t]) /\ task[t].agent = None /\ task \in [Tasks -> Coroutine]
      /\ "wipe" \in Calls /\ "clearall" \in Kinds /\ None \in Addressees
  BY <1>1, Here DEF Whole, Calls, Kinds, Addressees
<1>3. Suits(task[t], "wipe", "clearall", None)
  BY <1>1 DEF Suits
<1>4. k \in Nat \cup {None} /\ p \in {"done", "restart"}
  BY Values
<1> HIDE DEF k, p
<1>5. PICK y : y = Calling(task[t], "wipe", "clearall", None, k)
  OBVIOUS
<1>6. /\ Fits(y) /\ Same(y, task[t]) /\ y.pc = "wipe" /\ y.reply = "wait" /\ y.result = {}
      /\ y.agent = task[t].agent /\ y.todo = task[t].todo /\ y.call.kind = "clearall"
      /\ y.call.in = None /\ y.call.client = k /\ y.call.w = None
  <2>1. LET z == Calling(task[t], "wipe", "clearall", None, k) IN
        /\ Fits(z) /\ Same(z, task[t]) /\ z.pc = "wipe" /\ z.reply = "wait" /\ z.result = {}
        /\ z.agent = task[t].agent /\ z.todo = task[t].todo /\ z.call.kind = "clearall"
        /\ z.call.in = None /\ z.call.client = k
        /\ z.call.w = IF "clearall" = "add" THEN task[t].w ELSE None
    BY <1>1, <1>2, <1>3, <1>4, CallPut
  <2> QED BY <1>5, <2>1
<1>7. PICK x : x = [y EXCEPT !.then = p]
  OBVIOUS
<1>8. /\ Same(x, y) /\ x.pc = y.pc /\ x.then = p /\ x.call = y.call
      /\ x.agent = y.agent /\ x.todo = y.todo /\ x.reply = y.reply /\ x.result = y.result
  <2>1. y \in Coroutine
    BY <1>6 DEF Same
  <2>2. p \in {"done", "sweep", "wipe", "scope", "restart"}
    BY <1>4
  <2>3. LET z == [y EXCEPT !.then = p] IN
        /\ Same(z, y) /\ z.pc = y.pc /\ z.then = p /\ z.call = y.call
        /\ z.agent = y.agent /\ z.todo = y.todo /\ z.reply = y.reply /\ z.result = y.result
    BY <2>1, <2>2, OtherFields
  <2> QED BY <1>7, <2>3
<1>9. Fits(x) /\ Same(x, task[t])
  <2>1. Whole(x)
    BY <1>6, <1>8, SameWhole DEF Fits, Whole
  <2>2. Placed(x)
    BY <1>6, <1>8 DEF Placed, Fits, Same, Starting
  <2>3. CallFits(x) /\ ResultFits(x)
    BY <1>6, <1>8 DEF CallFits, Fits, Same, ResultFits, Suits
  <2> QED BY <1>6, <1>8, <2>1, <2>2, <2>3 DEF Fits, Same
<1>10. task' = [task EXCEPT ![t] = x]
  BY <1>1, <1>5, <1>7 DEF Put
<1>11. task'[t] = x /\ DOMAIN task' = Tasks /\ \A u \in Tasks \ {t} : task'[u] = task[u]
  BY <1>2, <1>10
<1> QED BY <1>1, <1>2, <1>6, <1>8, <1>9, <1>10, <1>11 DEF k, p

LEMMA RunResetAllMem0Typed == ASSUME Typed, NEW t \in Tasks, RunResetAllMem0(t) PROVE Typed'
<1>1. /\ counts' = [counts EXCEPT !.clients = counts.clients + 1]
      /\ open' \subseteq open \cup {counts.clients + 1}
      /\ client' \in {client, None} /\ mem' \in {mem, None} /\ started' = FALSE
      /\ history' = Moved(t, history) /\ UNCHANGED <<system, agents, store>>
  BY DEF RunResetAllMem0, Released
<1>2. PICK x : Fits(x) /\ task' = [task EXCEPT ![t] = x]
  BY RunResetAllMem0Facts
<1>3. TasksTyped'
  BY <1>1, <1>2, ClientCounted, PutFits
<1>4. AdapterTyped'
  BY <1>1, ClientCounted DEF Typed, AdapterTyped, Letta, Known
<1>5. StoreTyped' /\ history' \in History
  BY <1>1, ClientCounted, Frame, Here, HistoryTypes
<1> QED BY <1>1, <1>3, <1>4, <1>5, ClientCounted DEF Typed

LEMMA WipedMem0Typed == ASSUME Typed, NEW t \in Tasks, WipedMem0(t) PROVE Typed'
<1> DEFINE k == counts.clients + 1
           r == [task[t] EXCEPT !.then = "done"]
<1>1. /\ task[t].pc = "wipe" /\ Mem0 /\ UNCHANGED <<system, started, mem, agents, store>>
  BY DEF WipedMem0, Answered, At
<1>2. task[t].op = "reset_all"
  BY <1>1, Here DEF CallFits, Suits, Calls
<1>3. PICK x : x = r
  OBVIOUS
<1>4. /\ Same(x, task[t]) /\ x.then = "done" /\ x.agent = task[t].agent /\ x.todo = task[t].todo
      /\ x.call = task[t].call
  BY <1>3, Here, OtherFields
<1>5. \/ /\ Put(t, Awaiting(x, "building")) /\ client' = k /\ open' = (open \ {x.call.client}) \cup {k}
         /\ counts' = [counts EXCEPT !.clients = k] /\ UNCHANGED history
      \/ Finish(t) /\ open' = open \ {x.call.client} /\ UNCHANGED <<client, counts>>
  BY <1>3 DEF WipedMem0
<1>6. CASE /\ Put(t, Awaiting(x, "building")) /\ client' = k /\ open' = (open \ {x.call.client}) \cup {k}
           /\ counts' = [counts EXCEPT !.clients = k] /\ UNCHANGED history
  <2>1. Whole(x)
    BY <1>4, Here, SameWhole DEF Whole
  <2>2. TasksTyped'
    BY <1>1, <1>2, <1>4, <1>6, <2>1, ClientCounted, AwaitStep DEF Same
  <2>3. AdapterTyped'
    BY <1>1, <1>6, ClientCounted DEF Typed, AdapterTyped, Letta, Known
  <2>4. StoreTyped'
    BY <1>1, <1>6, ClientCounted, Frame
  <2> QED BY <1>1, <1>6, <2>2, <2>3, <2>4, ClientCounted DEF Typed
<1>7. CASE Finish(t) /\ open' = open \ {x.call.client} /\ UNCHANGED <<client, counts>>
  <2>1. TasksTyped' /\ history' \in History
    BY <1>1, <1>7, FinishTyped DEF Busy
  <2>2. AdapterTyped'
    BY <1>1, <1>7 DEF Typed, AdapterTyped, Letta, Known, Clients
  <2>3. StoreTyped' /\ CountsTyped'
    BY <1>1, <1>7, Frame
  <2> QED BY <1>1, <2>1, <2>2, <2>3 DEF Typed
<1> QED BY <1>5, <1>6, <1>7

LEMMA WipedZepTyped == ASSUME Typed, NEW t \in Tasks, WipedZep(t) PROVE Typed'
<1>1. task[t].op = "reset_all" /\ Zep
  BY Here DEF WipedZep, Answered, At, CallFits, Suits, Calls
<1>2. TasksTyped'
  BY <1>1, Here, AwaitStep DEF WipedZep, OnlyTask
<1> QED BY <1>2, Here, TaskStep DEF WipedZep, OnlyTask

\* reset_all of Letta deletes another agent, or forgets them.
LEMMA WipedLettaFacts ==
    ASSUME Typed, NEW t \in Tasks, WipedLetta(t)
    PROVE  /\ Letta /\ task[t].pc \in {"wipe", "wiping"} /\ task[t].reply = "ok"
           /\ task[t].op = "reset_all"
           /\ UNCHANGED <<system, started, client, mem, open, store, counts>>
           /\ \/ agents' = Cleared /\ Finish(t)
              \/ /\ UNCHANGED <<agents, history>>
                 /\ \E x, a :
                       /\ a \in (IF At(t, "wipe") THEN task[t].result ELSE task[t].todo)
                       /\ task' = [task EXCEPT ![t] = x] /\ Fits(x)
                       /\ Same(x, task[t]) /\ x.pc = "wiping" /\ x.then = task[t].then
                       /\ x.agent = task[t].agent /\ x.reply = "wait" /\ x.result = {}
                       /\ x.call.kind = "delete" /\ x.call.in = a /\ x.call.client = client
                       /\ x.todo = (IF At(t, "wipe") THEN task[t].result ELSE task[t].todo) \ {a}
<1> DEFINE todo == IF At(t, "wipe") THEN task[t].result ELSE task[t].todo
<1>1. /\ Letta /\ task[t].pc \in {"wipe", "wiping"} /\ task[t].reply = "ok"
      /\ UNCHANGED <<system, started, client, mem, open, store, counts>>
  BY DEF WipedLetta, Answered, At
<1>2. task[t].op = "reset_all" /\ todo \subseteq Known
  BY <1>1, Here DEF CallFits, Suits, Calls, ResultFits, Whole, At
<1>3. \/ agents' = Cleared /\ Finish(t)
      \/ /\ UNCHANGED <<agents, history>> /\ todo # {}
         /\ LET a == CHOOSE x \in todo : TRUE IN
            Put(t, Calling([task[t] EXCEPT !.todo = todo \ {a}], "wiping", "delete", a, client))
  BY DEF WipedLetta
<1> HIDE DEF todo
<1>4. ASSUME UNCHANGED <<agents, history>>, todo # {},
             LET a == CHOOSE x \in todo : TRUE IN
             Put(t, Calling([task[t] EXCEPT !.todo = todo \ {a}], "wiping", "delete", a, client))
      PROVE  \E x, a :
                       /\ a \in todo /\ task' = [task EXCEPT ![t] = x] /\ Fits(x)
                       /\ Same(x, task[t]) /\ x.pc = "wiping" /\ x.then = task[t].then
                       /\ x.agent = task[t].agent /\ x.reply = "wait" /\ x.result = {}
                       /\ x.call.kind = "delete" /\ x.call.in = a /\ x.call.client = client
                       /\ x.todo = todo \ {a}
  <2>1. PICK a \in todo : a = CHOOSE x \in todo : TRUE
    BY <1>4
  <2>2. PICK rest \in SUBSET Nat : rest = todo \ {a} /\ rest \subseteq Known
    BY <1>2, Values
  <2>3. PICK q : q = [task[t] EXCEPT !.todo = rest]
    OBVIOUS
  <2>4. /\ Same(q, task[t]) /\ q.then = task[t].then /\ q.agent = task[t].agent /\ q.todo = rest
    <3>1. task[t] \in Coroutine
      BY Here
    <3>2. LET y == [task[t] EXCEPT !.todo = rest] IN
          Same(y, task[t]) /\ y.then = task[t].then /\ y.agent = task[t].agent /\ y.todo = rest
      BY <3>1, OtherFields
    <3> QED BY <2>3, <3>2
  <2>5. Whole(q) /\ q.op = "reset_all"
    BY <1>2, <2>2, <2>4, Here, SameWhole DEF Same
  <2>6. Suits(q, "wiping", "delete", a) /\ "wiping" \in Calls /\ "delete" \in Kinds /\ a \in Addressees
    BY <1>1, <1>2, <2>5, Values DEF Suits, Calls, Kinds, Addressees
  <2>7. LET x == Calling(q, "wiping", "delete", a, client) IN
         /\ Fits(x) /\ Same(x, q) /\ x.pc = "wiping" /\ x.then = q.then /\ x.reply = "wait"
         /\ x.result = {} /\ x.agent = q.agent /\ x.todo = q.todo
         /\ x.call.kind = "delete" /\ x.call.in = a /\ x.call.client = client
    <3>1. q.op # "none" /\ client \in Nat \cup {None}
      BY <2>5, Here
    <3> QED BY <2>5, <2>6, <3>1, CallPut
  <2>8. PICK x : x = Calling(q, "wiping", "delete", a, client)
    OBVIOUS
  <2>9. task' = [task EXCEPT ![t] = x]
    BY <1>4, <2>1, <2>2, <2>3, <2>8 DEF Put
  <2>10. /\ Fits(x) /\ Same(x, task[t]) /\ x.pc = "wiping" /\ x.then = task[t].then
         /\ x.agent = task[t].agent /\ x.reply = "wait" /\ x.result = {}
         /\ x.call.kind = "delete" /\ x.call.in = a /\ x.call.client = client
         /\ x.todo = todo \ {a}
    BY <2>2, <2>4, <2>7, <2>8 DEF Same
  <2> QED BY <2>9, <2>10
<1> QED BY <1>1, <1>2, <1>3, <1>4 DEF todo

LEMMA WipedLettaTyped == ASSUME Typed, NEW t \in Tasks, WipedLetta(t) PROVE Typed'
<1>1. /\ Letta /\ Busy(t) /\ UNCHANGED <<system, started, client, mem, open, store, counts>>
  BY WipedLettaFacts DEF Busy
<1>2. StoreTyped' /\ CountsTyped'
  BY <1>1, Frame
<1>3. CASE agents' = Cleared /\ Finish(t)
  <2>1. AdapterTyped'
    BY <1>1, <1>3 DEF Typed, AdapterTyped, Letta, Known, Clients, Cleared
  <2>2. TasksTyped' /\ history' \in History
    BY <1>1, <1>3, FinishTyped
  <2> QED BY <1>1, <1>2, <2>1, <2>2 DEF Typed
<1>4. CASE UNCHANGED <<agents, history>> /\ \E x : task' = [task EXCEPT ![t] = x] /\ Fits(x)
  <2>1. UNCHANGED adapter
    BY <1>1, <1>4 DEF adapter
  <2>2. TasksTyped'
    BY <1>1, <1>4, PutFits
  <2> QED BY <1>1, <1>4, <2>1, <2>2, Here, TaskStep
<1> QED BY <1>3, <1>4, WipedLettaFacts

\* A coroutine that awaits the closing of the proxy's client, the adapter having
\* forgotten its own.
LEMMA ForgetStep ==
    ASSUME Typed, NEW t \in Tasks, task[t].op = "close", Forget, open' \subseteq open,
           Put(t, Awaiting(task[t], "aclose")), UNCHANGED <<system, agents, store>>,
           counts'.agents = counts.agents, counts'.clients = counts.clients
    PROVE  AdapterTyped' /\ StoreTyped' /\ TasksTyped'
<1>1. AdapterTyped'
  BY DEF Forget, Typed, AdapterTyped, Letta, Known, Clients
<1>2. StoreTyped'
  BY Frame
<1>3. TasksTyped'
  BY Here, AwaitStep
<1> QED BY <1>1, <1>2, <1>3

LEMMA RunCloseTyped == ASSUME Typed, NEW t \in Tasks, RunClose(t) PROVE Typed'
<1>1. /\ task[t].pc = "begun" /\ task[t].op = "close" /\ history' = Moved(t, history)
      /\ UNCHANGED <<system, agents, store, counts>>
  BY DEF RunClose, At
<1>2. history' \in History /\ CountsTyped'
  BY <1>1, Here, HistoryTypes, Frame
<1>3. CASE Mem0 \/ client = None
  BY <1>1, <1>2, <1>3, ForgetStep DEF RunClose, Released, Typed
<1>4. CASE ~ (Mem0 \/ client = None)
  <2>1. /\ Put(t, Calling(task[t], "closing", "none", None, client)) /\ UNCHANGED adapter
    BY <1>1, <1>4 DEF RunClose, adapter
  <2>2. /\ Suits(task[t], "closing", "none", None) /\ "closing" \in Calls /\ "none" \in Kinds
        /\ None \in Addressees
    BY <1>1, <1>4 DEF Suits, Calls, Kinds, Addressees
  <2>3. TasksTyped'
    BY <1>1, <2>1, <2>2, Here, CallStep
  <2> QED BY <1>1, <1>2, <2>1, <2>3, TaskStep
<1> QED BY <1>3, <1>4

LEMMA ClosedTyped == ASSUME Typed, NEW t \in Tasks, Closed(t) PROVE Typed'
<1>1. task[t].op = "close"
  BY Here DEF Closed, At, CallFits, Suits, Calls
<1>2. /\ open' \subseteq open /\ Forget /\ Put(t, Awaiting(task[t], "aclose"))
      /\ UNCHANGED <<system, agents, store, counts, history>>
  BY DEF Closed
<1>3. AdapterTyped' /\ StoreTyped' /\ TasksTyped'
  BY <1>1, <1>2, ForgetStep
<1> QED BY <1>2, <1>3, Frame, Here DEF Typed

\* A fault more.
LEMMA FaultCounted ==
    ASSUME Typed, counts.faults < MaxFaults, counts' = [counts EXCEPT !.faults = counts.faults + 1]
    PROVE  counts'.clients = counts.clients /\ counts'.agents = counts.agents
           /\ counts'.ops = counts.ops /\ CountsTyped'
<1>1. /\ counts' \in [ops : Nat, faults : Nat, clients : Nat, agents : Nat]
      /\ counts'.clients = counts.clients /\ counts'.agents = counts.agents
      /\ counts'.ops = counts.ops /\ counts'.faults = counts.faults + 1
  BY Values DEF Typed, CountsTyped
<1> QED BY <1>1, Values DEF Typed, CountsTyped

LEMMA ClosedAnywayTyped == ASSUME Typed, NEW t \in Tasks, ClosedAnyway(t) PROVE Typed'
<1>1. task[t].op = "close"
  BY Here DEF ClosedAnyway, At, CallFits, Suits, Calls
<1>2. /\ open' \subseteq open /\ Forget /\ Put(t, Awaiting(task[t], "aclose"))
      /\ UNCHANGED <<system, agents, store>> /\ history' = [history EXCEPT !.calm = FALSE]
      /\ counts.faults < MaxFaults /\ counts' = [counts EXCEPT !.faults = counts.faults + 1]
  BY DEF ClosedAnyway
<1>3. AdapterTyped' /\ StoreTyped' /\ TasksTyped'
  BY <1>1, <1>2, FaultCounted, ForgetStep
<1>4. history' \in History
  BY <1>2, Here DEF History
<1> QED BY <1>2, <1>3, <1>4, FaultCounted DEF Typed

LEMMA FailFacts ==
    ASSUME Typed, NEW t \in Tasks, Fail(t)
    PROVE  /\ task[t].pc \notin {"idle", "begun"} /\ ~ (Zep /\ At(t, "closing"))
           /\ counts'.clients = counts.clients /\ counts'.agents = counts.agents
           /\ counts'.ops = counts.ops /\ CountsTyped'
           /\ \A c \in late' : \/ c \in late
                               \/ /\ c = task[t].call /\ Letta /\ task[t].reply = "wait" /\ LateFits(c)
                                  /\ c.kind \in {"create", "delete", "add"}
           /\ late \subseteq late'
           /\ open' = (IF Mem0 /\ At(t, "wipe") THEN open \ {task[t].call.client} ELSE open)
           /\ task' = [task EXCEPT ![t] = Idle] /\ history' = Ended(t, task[t], FALSE)
           /\ UNCHANGED <<system, started, client, mem, agents, live, content>>
<1>1. /\ task[t].pc \notin {"idle", "begun"} /\ ~ (Zep /\ At(t, "closing"))
      /\ late' = IF /\ Letta /\ task[t].reply = "wait" /\ task[t].call.client # None
                    /\ task[t].call.kind \in {"create", "delete", "add"}
                 THEN late \cup {task[t].call} ELSE late
      /\ open' = (IF Mem0 /\ At(t, "wipe") THEN open \ {task[t].call.client} ELSE open)
      /\ task' = [task EXCEPT ![t] = Idle] /\ history' = Ended(t, task[t], FALSE)
      /\ UNCHANGED <<system, started, client, mem, agents, live, content>>
  BY DEF Fail, Put
<1>2. \/ UNCHANGED counts
      \/ counts.faults < MaxFaults /\ counts' = [counts EXCEPT !.faults = counts.faults + 1]
  BY DEF Fail
<1>3. /\ counts'.clients = counts.clients /\ counts'.agents = counts.agents
      /\ counts'.ops = counts.ops /\ CountsTyped'
  BY <1>1, <1>2, FaultCounted, Frame
<1>4. ASSUME Letta, task[t].reply = "wait", NEW c, c = task[t].call,
             c.kind \in {"create", "delete", "add"}
      PROVE  LateFits(c)
  <2>1. PICK r : r = task[t]
    OBVIOUS
  <2>2. /\ r.pc \in Calls /\ Suits(r, r.pc, c.kind, c.in) /\ Whole(r) /\ c \in Call
        /\ c.kind = "create" => c.in \in Sessions \cup {Probe}
        /\ c.kind = "add" => c.w \in Writes /\ r.op = "write"
        /\ r.pc = "work" <=> c.kind \in {"add", "find"}
    BY <1>4, <2>1, WaitFacts
  <2>3. c.kind = "delete" => c.in \in Known
    BY <2>2 DEF Suits, Calls, SweepKind
  <2>4. c.kind = "add" => c.in \in Known
    BY <1>4, <2>2 DEF Suits, Goes, Whole
  <2> QED BY <1>4, <2>2, <2>3, <2>4 DEF LateFits
<1> QED BY <1>1, <1>3, <1>4

LEMMA FailTyped == ASSUME Typed, NEW t \in Tasks, Fail(t) PROVE Typed'
<1>1. /\ Whole(task[t]) /\ task[t].op # "none"
  BY Here, FailFacts DEF Placed
<1>2. history' \in History
  <2>1. Ended(t, task[t], FALSE) \in History
    BY <1>1, EndedType
  <2> QED BY <2>1, FailFacts
<1>3. Fits(Idle)
  BY IdleFields DEF Fits, Whole, Placed, CallFits, ResultFits, Calls, Removes
<1>4. TasksTyped' /\ CountsTyped'
  BY <1>3, FailFacts, PutFits
<1>5. AdapterTyped'
  BY FailFacts DEF Typed, AdapterTyped, Letta, Known, Clients
<1>6. StoreTyped'
  BY FailFacts DEF Typed, StoreTyped, LateFits, Letta, Known
<1> QED BY <1>2, <1>4, <1>5, <1>6, FailFacts DEF Typed

LEMMA NextTyped == Typed /\ [Next]_vars => Typed'
<1> SUFFICES ASSUME Typed, [Next]_vars PROVE Typed'
  OBVIOUS
<1>1. CASE UNCHANGED vars
  <2>1. UNCHANGED <<system, adapter, task, store, counts, history>>
    BY <1>1 DEF vars
  <2>2. \A u \in Tasks : Fits(task[u])'
    <3> SUFFICES ASSUME NEW u \in Tasks, NEW r, r = task[u] PROVE Fits(r)'
      BY <2>1
    <3> QED BY <2>1, FitsStays, Values
  <2>3. TasksTyped'
    BY <2>1, <2>2 DEF Typed, TasksTyped
  <2> QED BY <2>1, <2>3, TaskStep, Here DEF Typed
<1>2. ASSUME NEW t \in Tasks, NEW op, NEW s, Called(op, s), Begin(t, op, s) PROVE Typed'
  BY <1>2, BeginTyped
<1>3. ASSUME NEW t \in Tasks, Step(t) PROVE Typed'
  BY <1>3, BuiltTyped, HealthyTyped, ProbedTyped, UnprobedTyped, RunResetTyped, SweptTyped,
     DeletedTyped, CreatedTyped, VerifiedTyped, AgentMadeTyped, RunWorkTyped, ScopedTyped,
     WorkedTyped, RunResetAllTyped, RunResetAllMem0Typed, WipedMem0Typed, WipedZepTyped,
     IndexedTyped, WipedLettaTyped, RunCloseTyped, ClosedTyped, ClosedAnywayTyped, AclosedTyped,
     FailTyped DEF Step
<1>4. ASSUME NEW t \in Tasks, Handle(t) PROVE Typed'
  BY <1>4, HandleTyped
<1>5. ASSUME NEW c \in late, HandleLate(c) PROVE Typed'
  BY <1>5, HandleLateTyped
<1> QED BY <1>1, <1>2, <1>3, <1>4, <1>5 DEF Next, Called

\* The adapter, its coroutines and the memory system keep their types, for any
\* coroutines, sessions and numbers of operations and faults: the fields of
\* mem0.py:114-116, zep.py:142-144 and letta.py:109-113.
THEOREM TypeCorrect == Spec => []TypeOK
<1>1. Typed => TypeOK
  <2> SUFFICES ASSUME Typed PROVE TypeOK
    OBVIOUS
  <2>1. \A t \in Tasks : task[t].alone \in BOOLEAN /\ task[t].gone \subseteq Writes
    BY Values, Fields
  <2> QED BY <2>1, Values DEF Typed, AdapterTyped, StoreTyped, CountsTyped, TypeOK
<1> QED BY <1>1, InitTyped, NextTyped, PTL DEF Spec

-----------------------------------------------------------------------------
(* One client.                                                             *)

\* What is remembered of an operation that ends.
LEMMA EndedFacts ==
    ASSUME Typed, NEW t, NEW r, Whole(r), r.op # "none", NEW ok \in BOOLEAN
    PROVE  LET h == Ended(t, r, ok) IN
           /\ h.calm <=> history.calm /\ (ok \/ r.pc \notin Transitions)
           /\ h.ended = (IF r.op = "write" THEN history.ended \cup {r.w} ELSE history.ended)
           /\ h.kept = (IF ok /\ r.op = "write" /\ r.alone /\ r.s \in history.steady
                        THEN history.kept \cup {r.w} ELSE history.kept)
           /\ h.void = (IF ok /\ Removes(r.op) THEN history.void \cup r.gone ELSE history.void)
           /\ h.steady = (IF ok /\ Removes(r.op) /\ r.alone
                          THEN history.steady \cup Concerns(r.op, r.s) ELSE history.steady)
<1>1. history \in History
  BY DEF Typed
<1> DEFINE ended == IF r.op = "write" THEN history.ended \cup {r.w} ELSE history.ended
           kept == IF ok /\ r.op = "write" /\ r.alone /\ r.s \in history.steady
                   THEN history.kept \cup {r.w} ELSE history.kept
           void == IF ok /\ Removes(r.op) THEN history.void \cup r.gone ELSE history.void
           steady == IF ok /\ Removes(r.op) /\ r.alone
                     THEN history.steady \cup Concerns(r.op, r.s) ELSE history.steady
           calm == history.calm /\ (ok \/ r.pc \notin Transitions)
<1>2. Ended(t, r, ok) = [history EXCEPT !.ended = ended, !.kept = kept, !.void = void,
                                        !.steady = steady, !.calm = calm]
  BY DEF Ended
<1> HIDE DEF ended, kept, void, steady, calm
<1>3. LET h == Ended(t, r, ok) IN
      h.calm = calm /\ h.ended = ended /\ h.kept = kept /\ h.void = void /\ h.steady = steady
  BY <1>1, <1>2 DEF History
<1> QED BY <1>3 DEF ended, kept, void, steady, calm

\* What beginning to move the client changes in the history.
LEMMA MovedFacts ==
    ASSUME NEW h \in History, NEW t
    PROVE  LET g == Moved(t, h) IN
           /\ g.calm <=> h.calm /\ \A u \in Tasks \ {t} : ~ Moving(u)
           /\ g.ended = h.ended /\ g.kept = h.kept /\ g.void = h.void /\ g.steady = h.steady
<1> DEFINE alone == h.calm /\ \A u \in Tasks \ {t} : ~ Moving(u)
<1>1. Moved(t, h) = [h EXCEPT !.calm = alone]
  BY DEF Moved
<1> HIDE DEF alone
<1>2. LET g == Moved(t, h) IN
      /\ g.calm = alone
      /\ g.ended = h.ended /\ g.kept = h.kept /\ g.void = h.void /\ g.steady = h.steady
  BY <1>1 DEF History
<1> QED BY <1>2 DEF alone

\* The fields the invariant is about.
client_fields == <<system, started, client, mem, open>>
SameFor(u) == task'[u].pc = task[u].pc /\ task'[u].op = task[u].op /\ task'[u].call = task[u].call
Others(t) == \A u \in Tasks \ {t} : SameFor(u)

\* Nobody moves, or does anything to the client.
LEMMA Stays ==
    ASSUME Calm, UNCHANGED client_fields, \A u \in Tasks : SameFor(u), history'.calm => history.calm
    PROVE  Calm'
<1>1. \A u \in Tasks : Moving(u)' <=> Moving(u)
  BY DEF client_fields, Moving, SameFor, Mem0
<1>2. AtRest' <=> AtRest
  BY DEF client_fields, AtRest, Letta
<1>3. \A u \in Tasks : InMotion(u)' <=> InMotion(u)
  BY <1>2 DEF client_fields, InMotion, SameFor, Mem0, Zep
<1> QED BY <1>1, <1>2, <1>3 DEF Calm

\* t does not touch the client.
LEMMA Rests ==
    ASSUME Calm, UNCHANGED client_fields, history'.calm => history.calm, NEW t \in Tasks,
           Others(t), ~ Moving(t), ~ Moving(t)'
    PROVE  Calm'
<1>1. \A u \in Tasks : Moving(u)' <=> Moving(u)
  BY DEF client_fields, Moving, Others, SameFor, Mem0
<1>2. AtRest' <=> AtRest
  BY DEF client_fields, AtRest, Letta
<1>3. \A u \in Tasks \ {t} : InMotion(u)' <=> InMotion(u)
  BY <1>2 DEF client_fields, InMotion, Others, SameFor, Mem0, Zep
<1> QED BY <1>1, <1>2, <1>3 DEF Calm

\* t is moving the client.
LEMMA Moves ==
    ASSUME Calm, system' = system, history'.calm => history.calm, NEW t \in Tasks,
           Others(t), Moving(t),
           history.calm /\ InMotion(t) /\ Moving(t)' => InMotion(t)',
           history.calm /\ InMotion(t) /\ ~ Moving(t)' => AtRest'
    PROVE  Calm'
<1>1. \A u \in Tasks \ {t} : Moving(u)' <=> Moving(u)
  BY DEF Moving, Others, SameFor, Mem0
<1> QED BY <1>1 DEF Calm

\* t begins to move it.
LEMMA SetsOut ==
    ASSUME Calm, system' = system, NEW t \in Tasks, Others(t), ~ Moving(t),
           NEW h \in History, h.calm <=> history.calm, history' = Moved(t, h),
           AtRest => InMotion(t)' /\ Moving(t)'
    PROVE  Calm'
<1>1. \A u \in Tasks \ {t} : Moving(u)' <=> Moving(u)
  BY DEF Moving, Others, SameFor, Mem0
<1>2. history'.calm <=> history.calm /\ \A u \in Tasks \ {t} : ~ Moving(u)
  BY MovedFacts
<1> QED BY <1>1, <1>2 DEF Calm

\* The step of t leaves the other coroutines as they are.
LEMMA OnlyIts ==
    ASSUME Typed, NEW t \in Tasks, NEW x, task' = [task EXCEPT ![t] = x]
    PROVE  task'[t] = x /\ Others(t) /\ \A u \in Tasks \ {t} : task'[u] = task[u]
BY DEF Typed, TasksTyped, Others, SameFor

\* An operation that ends where it does not move the client.
LEMMA EndCalm ==
    ASSUME Typed, Calm, NEW t \in Tasks, Busy(t), ~ Moving(t), Finish(t), UNCHANGED client_fields
    PROVE  Calm'
<1>1. Whole(task[t]) /\ task[t].op # "none"
  BY Here DEF Busy, Placed
<1>2. history'.calm => history.calm
  BY <1>1, EndedFacts DEF Finish
<1>3. Others(t) /\ task'[t] = Idle
  BY OnlyIts DEF Finish, Put
<1>4. ~ Moving(t)'
  BY <1>3, IdleFields DEF Moving, Transitions
<1> QED BY <1>2, <1>3, <1>4, Rests

LEMMA OnceStartedCalm ==
    ASSUME Typed, Calm, NEW t \in Tasks, ~ Moving(t), NEW r, Whole(r),
           NEW p \in {"sweep", "wipe", "scope"}, Goes(r, p), NEW h \in History, h.calm <=> history.calm,
           OnceStarted(t, r, p, h), UNCHANGED <<system, started, agents, store>>
    PROVE  Calm'
<1>1. CASE Start(t, r, p, h) /\ ~ started
  <2>1. /\ client' = counts.clients + 1 /\ open' = open \cup {counts.clients + 1}
        /\ mem' = (IF Zep THEN counts.clients + 1 ELSE mem)
        /\ history' = Moved(t, h)
    BY <1>1 DEF Start
  <2>2. PICK x : /\ task' = [task EXCEPT ![t] = x]
                 /\ x.pc = (IF Letta THEN "starting" ELSE "building")
    <3>1. PICK x : x = [Awaiting(r, IF Letta THEN "starting" ELSE "building") EXCEPT !.then = p]
      OBVIOUS
    <3>2. x.pc = (IF Letta THEN "starting" ELSE "building")
      BY <3>1, StartFits
    <3> QED BY <1>1, <3>1, <3>2 DEF Start, Put
  <2>3. Others(t) /\ task'[t] = x
    BY <2>2, OnlyIts
  <2>4. counts.clients + 1 # None
    BY Values
  <2>5. AtRest => InMotion(t)' /\ Moving(t)'
    BY <1>1, <2>1, <2>2, <2>3, <2>4 DEF AtRest, InMotion, Moving, Transitions, Starting, Zep
  <2> QED BY <2>1, <2>3, <2>5, SetsOut
<1>2. CASE started /\ Put(t, On(r, p)) /\ history' = h /\ UNCHANGED <<client, open, mem, counts>>
  <2>1. PICK x : task' = [task EXCEPT ![t] = x] /\ Same(x, r) /\ x.pc = p
    <3>1. PICK x : x = On(r, p)
      OBVIOUS
    <3>2. Same(x, r) /\ x.pc = p
      BY <3>1, OnFits
    <3> QED BY <1>2, <3>1, <3>2 DEF Put
  <2>2. Others(t) /\ task'[t] = x
    BY <2>1, OnlyIts
  <2>3. ~ Moving(t)'
    BY <2>1, <2>2 DEF Moving, Transitions, Same, Goes, Mem0
  <2> QED BY <1>2, <2>2, <2>3, Rests DEF client_fields
<1> QED BY <1>1, <1>2 DEF OnceStarted

LEMMA BuiltCalm == ASSUME Typed, Calm, NEW t \in Tasks, Built(t) PROVE Calm'
<1>1. /\ Whole(task[t]) /\ task[t].pc = "building" /\ task[t].op # "none" /\ ~ Letta
      /\ Goes(task[t], task[t].then) \/ (Mem0 /\ task[t].op = "reset_all" /\ task[t].then = "done")
  BY Here DEF Built, At, Placed
<1>2. /\ UNCHANGED <<system, client, open>> /\ started' = TRUE
      /\ mem' = IF Mem0 THEN client ELSE mem
  BY DEF Built
<1>3. Moving(t) /\ (Mem0 \/ Zep)
  BY <1>1, Values DEF Moving, Transitions, Mem0, Zep, Letta
<1>4. InMotion(t) => AtRest'
  BY <1>1, <1>2, <1>3 DEF InMotion, AtRest, Starting, Mem0, Zep, Letta
<1>5. (history'.calm => history.calm) /\ Others(t) /\ ~ Moving(t)'
  <2>1. CASE task[t].then = "done"
    <3>1. Finish(t)
      BY <2>1 DEF Built
    <3>2. history'.calm => history.calm
      BY <1>1, <3>1, EndedFacts DEF Finish
    <3>3. Others(t) /\ task'[t] = Idle
      BY <3>1, OnlyIts DEF Finish, Put
    <3> QED BY <3>2, <3>3, IdleFields DEF Moving, Transitions
  <2>2. CASE task[t].then # "done"
    <3>1. task[t].then \in {"sweep", "wipe", "scope"} /\ Goes(task[t], task[t].then)
      BY <1>1, <2>2 DEF Goes
    <3>2. PICK x : /\ task' = [task EXCEPT ![t] = x] /\ Same(x, task[t]) /\ x.pc = task[t].then
      BY <1>1, <2>2, <3>1, OnFits DEF Built, Put
    <3>3. Others(t) /\ task'[t] = x
      BY <3>2, OnlyIts
    <3>4. ~ Moving(t)'
      BY <1>2, <3>1, <3>2, <3>3 DEF Moving, Transitions, Same, Goes, Mem0
    <3> QED BY <2>2, <3>3, <3>4 DEF Built
  <2> QED BY <2>1, <2>2
<1> QED BY <1>2, <1>3, <1>4, <1>5, Moves

\* A step of `start` that leaves the adapter as it is.
LEMMA StartingCalm ==
    ASSUME Typed, Calm, NEW t \in Tasks, task[t].pc \in Starting, NEW x, x.pc = "probe" \/ x.pc = "unprobe",
           task' = [task EXCEPT ![t] = x], UNCHANGED client_fields, UNCHANGED history
    PROVE  Calm'
<1>1. Moving(t) /\ Others(t) /\ task'[t] = x
  BY OnlyIts DEF Moving, Transitions, Starting
<1>2. InMotion(t) => InMotion(t)'
  BY <1>1 DEF InMotion, Starting, client_fields, Zep
<1>3. Moving(t)'
  BY <1>1 DEF Moving, Transitions
<1> QED BY <1>1, <1>2, <1>3, Moves DEF client_fields

LEMMA HealthyCalm == ASSUME Typed, Calm, NEW t \in Tasks, Healthy(t) PROVE Calm'
<1>1. PICK x : x = Calling(task[t], "probe", "create", Probe, client)
  OBVIOUS
<1>2. x.pc = "probe"
  <2>1. /\ "probe" \in PCs /\ "create" \in Kinds /\ Probe \in Addressees
        /\ client \in Nat \cup {None} /\ task[t] \in Coroutine
    BY Here DEF PCs, Calls, Kinds, Addressees
  <2> QED BY <1>1, <2>1, CallingFields
<1>3. /\ task[t].pc \in Starting /\ task' = [task EXCEPT ![t] = x]
      /\ UNCHANGED client_fields /\ UNCHANGED history
  BY <1>1 DEF Healthy, At, Starting, Put, OnlyTask, client_fields, adapter
<1> QED BY <1>2, <1>3, StartingCalm

LEMMA ProbedCalm == ASSUME Typed, Calm, NEW t \in Tasks, Probed(t) PROVE Calm'
<1>1. task[t].pc = "probe" /\ task[t].result \subseteq Known
  BY Here DEF Probed, Answered, At, ResultFits
<1>2. PICK a \in task[t].result : Put(t, Calling(task[t], "unprobe", "delete", a, client))
  BY DEF Probed
<1>3. PICK x : x = Calling(task[t], "unprobe", "delete", a, client)
  OBVIOUS
<1>4. x.pc = "unprobe"
  <2>1. /\ "unprobe" \in PCs /\ "delete" \in Kinds /\ a \in Addressees
        /\ client \in Nat \cup {None} /\ task[t] \in Coroutine
    BY <1>1, Here, Values DEF PCs, Calls, Kinds, Addressees
  <2>2. LET y == Calling(task[t], "unprobe", "delete", a, client) IN y.pc = "unprobe"
    BY <2>1, CallingFields
  <2> QED BY <1>3, <2>2
<1>5. /\ task[t].pc \in Starting /\ task' = [task EXCEPT ![t] = x]
      /\ UNCHANGED client_fields /\ UNCHANGED history
  BY <1>1, <1>2, <1>3 DEF Starting, Probed, Put, OnlyTask, client_fields, adapter
<1> QED BY <1>4, <1>5, StartingCalm

LEMMA UnprobedCalm == ASSUME Typed, Calm, NEW t \in Tasks, Unprobed(t) PROVE Calm'
<1>1. /\ Whole(task[t]) /\ Letta /\ Goes(task[t], task[t].then) /\ task[t].pc = "unprobe"
  BY Here DEF Unprobed, Answered, At, CallFits, Suits, Calls
<1>2. task[t].then \in {"sweep", "wipe", "scope"}
  BY <1>1 DEF Goes
<1>3. PICK x : task' = [task EXCEPT ![t] = x] /\ x.pc = task[t].then
  <2>1. PICK x : x = On(task[t], task[t].then)
    OBVIOUS
  <2>2. x.pc = task[t].then
    BY <1>1, <1>2, <2>1, OnFits
  <2> QED BY <2>1, <2>2 DEF Unprobed, Put
<1>4. Others(t) /\ task'[t] = x
  BY <1>3, OnlyIts
<1>5. UNCHANGED <<system, client, open, history>> /\ started' = TRUE
  BY DEF Unprobed
<1>6. Moving(t) /\ ~ Moving(t)'
  BY <1>1, <1>2, <1>3, <1>4, <1>5 DEF Moving, Transitions, Letta, Mem0
<1>7. InMotion(t) => AtRest'
  BY <1>1, <1>5 DEF InMotion, AtRest, Starting, Letta
<1> QED BY <1>4, <1>5, <1>6, <1>7, Moves

\* A step that neither moves the client nor leaves it moving: t goes on to x.
LEMMA QuietCalm ==
    ASSUME Typed, Calm, NEW t \in Tasks, NEW x, task' = [task EXCEPT ![t] = x],
           UNCHANGED client_fields, history'.calm => history.calm,
           task[t].pc \notin Transitions, x.pc \notin Transitions,
           Mem0 => task[t].op # "reset_all" /\ x.op # "reset_all"
    PROVE  Calm'
<1>1. Others(t) /\ task'[t] = x
  BY OnlyIts
<1>2. ~ Moving(t) /\ ~ Moving(t)'
  BY <1>1 DEF Moving, client_fields, Mem0
<1> QED BY <1>1, <1>2, Rests

LEMMA SweptCalm == ASSUME Typed, Calm, NEW t \in Tasks, Swept(t) PROVE Calm'
<1>1. /\ task[t].pc = "sweep" /\ task[t].op # "none" /\ task[t].result \subseteq Known
      /\ Goes(task[t], "sweep") \/ (Mem0 /\ task[t].op = "reset")
  BY Here DEF Swept, Answered, At, CallFits, ResultFits, Suits, Calls, Goes
<1>2. PICK x : /\ task' = [task EXCEPT ![t] = x] /\ x.pc \in {"create", "delete", "verify"}
               /\ x.op = task[t].op
  <2>1. CASE Letta
    <3>1. Goes(task[t], "sweep")
      BY <1>1, <2>1 DEF Letta, Mem0
    <3>2. PICK x : x = NextDeletion(task[t], task[t].result)
      OBVIOUS
    <3>3. x.pc \in {"create", "delete", "verify"} /\ Same(x, task[t])
      BY <1>1, <2>1, <3>1, <3>2, Here, NextDeletionFacts
    <3> QED BY <2>1, <3>2, <3>3 DEF Swept, Put, Same
  <2>2. CASE ~ Letta
    <3>1. PICK k : k = IF Mem0 THEN task[t].call.client ELSE client
      OBVIOUS
    <3>2. k \in Nat \cup {None} /\ task[t] \in Coroutine
      <4>1. task[t].call \in Call
        BY Here, Fields
      <4> QED BY <3>1, <4>1, Here DEF Call
    <3>3. "verify" \in PCs /\ "count" \in Kinds /\ task[t].s \in Addressees
      BY Here DEF PCs, Calls, Kinds, Addressees
    <3>4. PICK x : x = Calling(task[t], "verify", "count", task[t].s, k)
      OBVIOUS
    <3>5. x.pc = "verify" /\ x.op = task[t].op
      BY <3>2, <3>3, <3>4, CallingFields DEF Same
    <3>6. task' = [task EXCEPT ![t] = x]
      BY <2>2, <3>1, <3>4 DEF Swept, Put
    <3> QED BY <3>5, <3>6
  <2> QED BY <2>1, <2>2
<1>3. Mem0 => task[t].op # "reset_all"
  BY <1>1 DEF Goes, Mem0, Letta
<1> QED BY <1>1, <1>2, <1>3, QuietCalm DEF Transitions, Swept, OnlyTask, client_fields, adapter

LEMMA DeletedCalm == ASSUME Typed, Calm, NEW t \in Tasks, Deleted(t) PROVE Calm'
<1>1. /\ Letta /\ Goes(task[t], "sweep") /\ task[t].todo \subseteq Known /\ task[t].pc = "delete"
  BY Here DEF Deleted, Answered, At, CallFits, Suits, Calls, Whole
<1>2. PICK x : x = NextDeletion(task[t], task[t].todo)
  OBVIOUS
<1>3. x.pc \in {"create", "delete"}
  BY <1>1, <1>2, Here, NextDeletionFacts
<1>4. task' = [task EXCEPT ![t] = x]
  BY <1>2 DEF Deleted, Put
<1> QED BY <1>1, <1>3, <1>4, QuietCalm DEF Transitions, Deleted, OnlyTask, client_fields, adapter, Letta, Mem0

LEMMA CreatedCalm == ASSUME Typed, Calm, NEW t \in Tasks, Created(t) PROVE Calm'
<1>1. /\ task[t].pc = "create" /\ Letta /\ task[t].result \subseteq Known
  BY Here DEF Created, Answered, At, CallFits, ResultFits, Suits, Calls
<1>2. PICK a \in task[t].result : Put(t, Calling(task[t], "verify", "count", a, client))
  BY DEF Created
<1>3. PICK x : x = Calling(task[t], "verify", "count", a, client)
  OBVIOUS
<1>4. x.pc = "verify"
  <2>1. /\ "verify" \in PCs /\ "count" \in Kinds /\ a \in Addressees
        /\ client \in Nat \cup {None} /\ task[t] \in Coroutine
    BY <1>1, Here, Values DEF PCs, Calls, Kinds, Addressees
  <2>2. LET y == Calling(task[t], "verify", "count", a, client) IN y.pc = "verify"
    BY <2>1, CallingFields
  <2> QED BY <1>3, <2>2
<1>5. task' = [task EXCEPT ![t] = x]
  BY <1>2, <1>3 DEF Put
<1> QED BY <1>1, <1>4, <1>5, QuietCalm DEF Transitions, Created, client_fields, Letta, Mem0

LEMMA ScopedCalm == ASSUME Typed, Calm, NEW t \in Tasks, Scoped(t) PROVE Calm'
<1> DEFINE r == task[t]
           k == IF Letta THEN client ELSE mem
           a == IF Letta THEN r.agent ELSE r.s
<1>1. /\ r.pc = "scope" /\ Goes(r, "scope") /\ r \in Coroutine
  BY Here DEF Scoped, At, Placed
<1>2. k \in Nat \cup {None} /\ r.s \in Addressees /\ a \in Addressees
  BY Here, Fields, <1>1 DEF Addressees
<1>3. {"sweep", "work"} \subseteq PCs /\ {"clear", "add", "find"} \subseteq Kinds
  BY DEF PCs, Calls, Kinds
<1>4. task' = [task EXCEPT ![t] =
                CASE r.op = "reset" -> Calling(r, "sweep", "clear", r.s, k)
                  [] r.op = "write" -> Calling(r, "work", "add", a, k)
                  [] r.op = "read" -> Calling(r, "work", "find", a, k)]
  BY DEF Scoped, Put
<1>5. UNCHANGED client_fields /\ UNCHANGED history
  BY DEF Scoped, OnlyTask, client_fields, adapter
<1> HIDE DEF r, k, a
<1>6. PICK x : /\ task' = [task EXCEPT ![t] = x] /\ x.pc \in {"sweep", "work"} /\ x.op = r.op
  <2>1. CASE r.op = "reset"
    <3>1. PICK x : x = Calling(r, "sweep", "clear", r.s, k)
      OBVIOUS
    <3>2. x.pc = "sweep" /\ x.op = r.op
      BY <1>1, <1>2, <1>3, <3>1, CallingFields DEF Same
    <3> QED BY <1>4, <2>1, <3>1, <3>2
  <2>2. CASE r.op = "write"
    <3>1. PICK x : x = Calling(r, "work", "add", a, k)
      OBVIOUS
    <3>2. x.pc = "work" /\ x.op = r.op
      BY <1>1, <1>2, <1>3, <3>1, CallingFields DEF Same
    <3> QED BY <1>4, <2>2, <3>1, <3>2
  <2>3. CASE r.op = "read"
    <3>1. PICK x : x = Calling(r, "work", "find", a, k)
      OBVIOUS
    <3>2. x.pc = "work" /\ x.op = r.op
      BY <1>1, <1>2, <1>3, <3>1, CallingFields DEF Same
    <3> QED BY <1>4, <2>3, <3>1, <3>2
  <2> QED BY <1>1, <2>1, <2>2, <2>3 DEF Goes
<1>7. r.op # "reset_all"
  BY <1>1 DEF Goes
<1> QED BY <1>1, <1>5, <1>6, <1>7, QuietCalm DEF Transitions, r

LEMMA WipedZepCalm == ASSUME Typed, Calm, NEW t \in Tasks, WipedZep(t) PROVE Calm'
<1>1. PICK x : x = Awaiting(task[t], "index")
  OBVIOUS
<1>2. x.pc = "index"
  <2>1. task[t] \in Coroutine /\ "index" \in PCs
    BY Here DEF PCs
  <2> QED BY <1>1, <2>1, AwaitingFields
<1>3. task[t].pc = "wipe" /\ task' = [task EXCEPT ![t] = x] /\ ~ Mem0
  BY <1>1 DEF WipedZep, Answered, At, Put, Zep, Mem0
<1>4. UNCHANGED client_fields /\ UNCHANGED history
  BY DEF WipedZep, OnlyTask, client_fields, adapter
<1> QED BY <1>2, <1>3, <1>4, QuietCalm DEF Transitions

LEMMA WipedLettaCalm == ASSUME Typed, Calm, NEW t \in Tasks, WipedLetta(t) PROVE Calm'
<1>1. /\ Letta /\ task[t].pc \in {"wipe", "wiping"} /\ UNCHANGED client_fields /\ ~ Mem0
  BY WipedLettaFacts DEF client_fields, Letta, Mem0
<1>2. CASE Finish(t)
  BY <1>1, <1>2, EndCalm DEF Busy, Moving, Transitions
<1>3. CASE UNCHANGED history /\ \E x : task' = [task EXCEPT ![t] = x] /\ x.pc = "wiping"
  BY <1>1, <1>3, QuietCalm DEF Transitions
<1> QED BY <1>2, <1>3, WipedLettaFacts

LEMMA RunResetAllMem0Calm == ASSUME Typed, Calm, NEW t \in Tasks, RunResetAllMem0(t) PROVE Calm'
<1>1. PICK x : /\ task' = [task EXCEPT ![t] = x] /\ Same(x, task[t]) /\ x.pc = "wipe"
               /\ x.call.client = counts.clients + 1
  BY RunResetAllMem0Facts
<1>2. task[t].op = "reset_all" /\ task[t].pc = "begun" /\ Mem0 /\ task'[t] = x /\ Others(t)
  BY <1>1, OnlyIts, RunResetAllMem0Facts
<1>3. ~ Moving(t) /\ Moving(t)'
  BY <1>1, <1>2 DEF Moving, Transitions, Same, Mem0, RunResetAllMem0
<1>4. AtRest => InMotion(t)'
  BY <1>1, <1>2 DEF AtRest, InMotion, RunResetAllMem0, Released, Starting
<1>5. system' = system /\ history' = Moved(t, history)
  BY DEF RunResetAllMem0
<1> QED BY <1>2, <1>3, <1>4, <1>5, Here, SetsOut

LEMMA WipedMem0Calm == ASSUME Typed, Calm, NEW t \in Tasks, WipedMem0(t) PROVE Calm'
<1> DEFINE k == counts.clients + 1
<1>1. /\ task[t].pc = "wipe" /\ Mem0 /\ UNCHANGED <<system, started, mem>> /\ Busy(t)
  BY DEF WipedMem0, Answered, At, Busy
<1>2. task[t].op = "reset_all" /\ Moving(t) /\ Whole(task[t])
  BY <1>1, Here DEF CallFits, Suits, Calls, Moving
<1>3. PICK r : r = [task[t] EXCEPT !.then = "done"]
  OBVIOUS
<1>4. Same(r, task[t]) /\ r.call = task[t].call
  BY <1>3, Here, OtherFields
<1>5. \/ /\ Put(t, Awaiting(r, "building")) /\ client' = k /\ open' = (open \ {r.call.client}) \cup {k}
         /\ UNCHANGED history
      \/ Finish(t) /\ open' = open \ {r.call.client} /\ UNCHANGED client
  BY <1>3 DEF WipedMem0
<1>6. CASE /\ Put(t, Awaiting(r, "building")) /\ client' = k
           /\ open' = (open \ {r.call.client}) \cup {k} /\ UNCHANGED history
  <2>1. PICK x : x = Awaiting(r, "building")
    OBVIOUS
  <2>2. x.pc = "building"
    <3>1. r \in Coroutine /\ "building" \in PCs
      BY <1>4 DEF Same, PCs, Starting
    <3> QED BY <2>1, <3>1, AwaitingFields
  <2>3. Others(t) /\ task'[t] = x
    BY <1>6, <2>1, OnlyIts DEF Put
  <2>4. Moving(t)'
    BY <2>2, <2>3 DEF Moving, Transitions
  <2>5. InMotion(t) => InMotion(t)'
    BY <1>1, <1>4, <1>6, <2>2, <2>3, Values DEF InMotion, Starting, Mem0, Zep
  <2> QED BY <1>1, <1>2, <1>6, <2>3, <2>4, <2>5, Moves
<1>7. CASE Finish(t) /\ open' = open \ {r.call.client} /\ UNCHANGED client
  <2>1. Others(t) /\ task'[t] = Idle
    BY <1>7, OnlyIts DEF Finish, Put
  <2>2. ~ Moving(t)'
    BY <2>1, IdleFields DEF Moving, Transitions
  <2>3. InMotion(t) => AtRest'
    BY <1>1, <1>4, <1>7 DEF InMotion, AtRest, Mem0, Letta
  <2>4. history'.calm => history.calm
    BY <1>2, <1>7, EndedFacts DEF Finish
  <2> QED BY <1>1, <1>2, <2>1, <2>2, <2>3, <2>4, Moves
<1> QED BY <1>5, <1>6, <1>7

\* The coroutine that awaits the closing of the proxy's client.
LEMMA AclosePut ==
    ASSUME Typed, NEW t \in Tasks, Put(t, Awaiting(task[t], "aclose"))
    PROVE  Others(t) /\ task'[t].pc = "aclose" /\ task'[t].op = task[t].op
<1>1. PICK x : x = Awaiting(task[t], "aclose")
  OBVIOUS
<1>2. x.pc = "aclose" /\ x.op = task[t].op
  <2>1. task[t] \in Coroutine /\ "aclose" \in PCs
    BY Here DEF PCs
  <2> QED BY <1>1, <2>1, AwaitingFields DEF Same
<1> QED BY <1>1, <1>2, OnlyIts DEF Put

LEMMA RunCloseCalm == ASSUME Typed, Calm, NEW t \in Tasks, RunClose(t) PROVE Calm'
<1>1. /\ task[t].pc = "begun" /\ task[t].op = "close" /\ history' = Moved(t, history)
      /\ UNCHANGED system /\ ~ Moving(t)
  BY DEF RunClose, At, Moving, Transitions
<1>2. CASE Mem0 \/ client = None
  <2>1. Others(t) /\ task'[t].pc = "aclose"
    BY <1>2, AclosePut DEF RunClose
  <2>2. AtRest => InMotion(t)' /\ Moving(t)'
    BY <1>2, <2>1 DEF RunClose, AtRest, InMotion, Moving, Transitions, Starting, Forget, Released
  <2> QED BY <1>1, <2>1, <2>2, Here, SetsOut
<1>3. CASE ~ (Mem0 \/ client = None)
  <2>1. /\ Put(t, Calling(task[t], "closing", "none", None, client)) /\ UNCHANGED client_fields
    BY <1>1, <1>3 DEF RunClose, client_fields
  <2>2. PICK x : x = Calling(task[t], "closing", "none", None, client)
    OBVIOUS
  <2>3. x.pc = "closing" /\ x.call.client = client
    <3>1. /\ "closing" \in PCs /\ "none" \in Kinds /\ None \in Addressees
          /\ client \in Nat \cup {None} /\ task[t] \in Coroutine
      BY Here DEF PCs, Calls, Kinds, Addressees
    <3>2. LET y == Calling(task[t], "closing", "none", None, client) IN
          y.pc = "closing" /\ y.call.client = client
      BY <3>1, CallingFields
    <3> QED BY <2>2, <3>2
  <2>4. Others(t) /\ task'[t] = x
    BY <2>1, <2>2, OnlyIts DEF Put
  <2>5. AtRest => AtRest'
    BY <2>1 DEF AtRest, client_fields, Letta
  <2>6. AtRest => InMotion(t)' /\ Moving(t)'
    BY <1>3, <2>1, <2>3, <2>4, <2>5 DEF InMotion, Moving, Transitions, Starting, client_fields
  <2> QED BY <1>1, <2>4, <2>6, Here, SetsOut
<1> QED BY <1>2, <1>3

LEMMA ClosedCalm == ASSUME Typed, Calm, NEW t \in Tasks, Closed(t) PROVE Calm'
<1>1. /\ task[t].pc = "closing" /\ Forget /\ open' = open \ {task[t].call.client}
      /\ UNCHANGED <<system, history>> /\ Others(t) /\ task'[t].pc = "aclose"
  BY AclosePut DEF Closed, At
<1>2. Moving(t) /\ Moving(t)'
  BY <1>1 DEF Moving, Transitions
<1>3. InMotion(t) => InMotion(t)'
  BY <1>1 DEF InMotion, AtRest, Forget, Starting
<1> QED BY <1>1, <1>2, <1>3, Moves

LEMMA ClosedAnywayCalm == ASSUME Typed, Calm, NEW t \in Tasks, ClosedAnyway(t) PROVE Calm'
<1>1. history'.calm = FALSE
  BY Here DEF ClosedAnyway, History
<1> QED BY <1>1 DEF Calm

LEMMA AclosedCalm == ASSUME Typed, Calm, NEW t \in Tasks, Aclosed(t) PROVE Calm'
<1>1. /\ task[t].pc = "aclose" /\ Finish(t) /\ UNCHANGED <<system, adapter>>
  BY DEF Aclosed, At
<1>2. Others(t) /\ task'[t] = Idle
  BY <1>1, OnlyIts DEF Finish, Put
<1>3. Moving(t) /\ ~ Moving(t)'
  BY <1>1, <1>2, IdleFields DEF Moving, Transitions
<1>4. InMotion(t) => AtRest'
  BY <1>1 DEF InMotion, AtRest, adapter
<1>5. history'.calm => history.calm
  BY <1>1, Here, EndedFacts DEF Finish, Placed
<1> QED BY <1>1, <1>2, <1>3, <1>4, <1>5, Moves

LEMMA FailCalm == ASSUME Typed, Calm, NEW t \in Tasks, Fail(t) PROVE Calm'
<1>1. /\ task[t].pc \notin {"idle", "begun"} /\ UNCHANGED <<system, started, client, mem>>
      /\ open' = (IF Mem0 /\ At(t, "wipe") THEN open \ {task[t].call.client} ELSE open)
      /\ task' = [task EXCEPT ![t] = Idle] /\ history' = Ended(t, task[t], FALSE)
  BY FailFacts
<1>2. Others(t) /\ task'[t] = Idle
  BY <1>1, OnlyIts
<1>3. ~ Moving(t)'
  BY <1>2, IdleFields DEF Moving, Transitions
<1>4. history'.calm <=> history.calm /\ task[t].pc \notin Transitions
  BY <1>1, Here, EndedFacts DEF Placed
<1>5. CASE task[t].pc \in Transitions
  BY <1>4, <1>5 DEF Calm
<1>6. CASE task[t].pc \notin Transitions /\ Mem0 /\ task[t].op = "reset_all"
  <2>1. task[t].pc = "wipe"
    BY <1>1, <1>6, Here DEF Placed, CallFits, Suits, Calls, Goes, Transitions, Whole, Coroutine,
       PCs, Starting, Mem0, Letta, Zep
  <2>2. Moving(t)
    BY <1>6, <2>1 DEF Moving
  <2>3. InMotion(t) => AtRest'
    BY <1>1, <1>6, <2>1 DEF InMotion, AtRest, At
  <2> QED BY <1>1, <1>2, <1>3, <1>4, <2>2, <2>3, Moves
<1>7. CASE task[t].pc \notin Transitions /\ ~ (Mem0 /\ task[t].op = "reset_all")
  <2>1. ~ (Mem0 /\ At(t, "wipe"))
    BY <1>7, Here DEF At, CallFits, Suits, Calls
  <2>2. ~ Moving(t) /\ UNCHANGED client_fields
    BY <1>1, <1>7, <2>1 DEF Moving, client_fields
  <2> QED BY <1>2, <1>3, <1>4, <2>2, Rests
<1> QED BY <1>5, <1>6, <1>7

LEMMA BeginCalm ==
    ASSUME Typed, Calm, NEW t \in Tasks, NEW op, NEW s, Called(op, s), Begin(t, op, s) PROVE Calm'
<1>1. UNCHANGED client_fields /\ ~ Busy(t)
  BY BeginFacts DEF adapter, client_fields
<1>2. history'.calm => history.calm
  <2>1. history' = IF Removes(op) THEN Unsettled(history, Concerns(op, s)) ELSE history
    BY BeginFacts
  <2> QED BY <2>1, Here, HistoryTypes
<1>3. task'[t].pc = "begun"
  BY BeginFacts
<1>4. ASSUME NEW u \in Tasks \ {t} PROVE SameFor(u)
  <2>1. \A v \in Tasks \ {t} :
           \/ task'[v] = task[v]
           \/ Busy(v) /\ task'[v] = [task[v] EXCEPT !.alone = FALSE]
    BY BeginFacts
  <2>2. CASE Busy(u) /\ task'[u] = [task[u] EXCEPT !.alone = FALSE]
    BY <2>2, Values, NotAlone DEF Busy, SameFor
  <2> QED BY <2>1, <2>2 DEF SameFor
<1>5. ~ Moving(t) /\ ~ Moving(t)'
  BY <1>1, <1>3, Here, IdleFields DEF Moving, Transitions, Busy, Placed
<1> QED BY <1>1, <1>2, <1>4, <1>5, Rests DEF Others

LEMMA HandleCalm == ASSUME Typed, Calm, NEW t \in Tasks, Handle(t) PROVE Calm'
<1>1. UNCHANGED <<system, adapter, history>> /\ \A u \in Tasks \ {t} : task'[u] = task[u]
  BY HandleFacts
<1>2. SameFor(t)
  BY HandleFacts DEF Same, SameFor
<1> QED BY <1>1, <1>2, Stays DEF client_fields, adapter, SameFor

LEMMA OnceStartedsCalm ==
    ASSUME Typed, Calm, NEW t \in Tasks,
           RunReset(t) \/ RunWork(t) \/ RunResetAll(t) \/ AgentMade(t)
    PROVE  Calm'
<1>1. CASE RunReset(t)
  <2>1. PICK p \in {"sweep", "wipe", "scope"} :
           OnceStarted(t, task[t], p, history) /\ Goes(task[t], p)
    BY <1>1 DEF RunReset, Goes
  <2>2. ~ Moving(t) /\ UNCHANGED <<system, started, agents, store>>
    BY <1>1 DEF RunReset, At, Moving, Transitions
  <2> QED BY <2>1, <2>2, Here, OnceStartedCalm
<1>2. CASE RunResetAll(t)
  <2>1. OnceStarted(t, task[t], "wipe", history) /\ Goes(task[t], "wipe")
    BY <1>2 DEF RunResetAll, Goes
  <2>2. ~ Moving(t) /\ UNCHANGED <<system, started, agents, store>>
    BY <1>2 DEF RunResetAll, At, Moving, Transitions
  <2> QED BY <2>1, <2>2, Here, OnceStartedCalm
<1>3. CASE RunWork(t)
  <2>1. /\ task[t].pc = "begun" /\ task[t].op \in {"write", "read"} /\ ~ Moving(t)
        /\ UNCHANGED <<system, started, agents, store>>
    BY <1>3 DEF RunWork, At, Moving, Transitions
  <2>2. CASE Letta /\ agents[task[t].s] = None
    <3>1. OnceStarted(t, task[t], "sweep", Unsettled(history, {task[t].s}))
      BY <1>3, <2>2 DEF RunWork
    <3>2. Goes(task[t], "sweep")
      BY <2>1, <2>2, Here DEF Goes, Placed
    <3>3. /\ Unsettled(history, {task[t].s}) \in History
          /\ Unsettled(history, {task[t].s}).calm = history.calm
      BY Here, HistoryTypes
    <3> QED BY <2>1, <3>1, <3>2, <3>3, Here, OnceStartedCalm
  <2>3. CASE ~ (Letta /\ agents[task[t].s] = None)
    <3>1. PICK r : r = [task[t] EXCEPT !.agent = agents[task[t].s]]
      OBVIOUS
    <3>2. OnceStarted(t, r, "scope", history)
      BY <1>3, <2>3, <3>1 DEF RunWork
    <3>3. Whole(r) /\ Goes(r, "scope")
      BY <2>1, <2>3, <3>1, AgentSet
    <3> QED BY <2>1, <3>2, <3>3, Here, OnceStartedCalm
  <2> QED BY <2>2, <2>3
<1>4. CASE AgentMade(t)
  <2>1. PICK r : r = [task[t] EXCEPT !.agent = agents[task[t].s]]
    OBVIOUS
  <2>2. PICK h : h = IF r.alone THEN [history EXCEPT !.steady = history.steady \cup {r.s}] ELSE history
    OBVIOUS
  <2>3. /\ task[t].pc = "verify" /\ task[t].op \in {"write", "read"} /\ r.agent # None
        /\ OnceStarted(t, r, "scope", h) /\ UNCHANGED <<system, started, agents, store>>
    BY <1>4, <2>1, <2>2 DEF AgentMade, Answered, At
  <2>4. task[t].s \in Sessions
    BY <2>3, Here DEF Whole
  <2>5. agents[task[t].s] # None
    BY <2>1, <2>3, <2>4, Here, OtherFields
  <2>6. Whole(r) /\ Goes(r, "scope") /\ r.s = task[t].s
    BY <2>1, <2>3, <2>5, AgentSet DEF Same
  <2>7. h \in History /\ h.calm = history.calm
    BY <2>2, <2>4, <2>6, Here DEF History
  <2>8. ~ Moving(t)
    BY <2>3 DEF Moving, Transitions
  <2> QED BY <2>3, <2>6, <2>7, <2>8, OnceStartedCalm
<1> QED BY <1>1, <1>2, <1>3, <1>4

LEMMA EndsCalm ==
    ASSUME Typed, Calm, NEW t \in Tasks, Verified(t) \/ Worked(t) \/ Indexed(t)
    PROVE  Calm'
<1>1. Finish(t) /\ UNCHANGED client_fields /\ task[t].pc \in {"verify", "work", "index"}
  BY DEF Verified, Worked, Indexed, Answered, At, client_fields, adapter
<1>2. ~ (Mem0 /\ task[t].op = "reset_all")
  BY <1>1, Here DEF CallFits, Suits, Placed, Calls, Goes, Mem0, Zep, Letta
<1> QED BY <1>1, <1>2, EndCalm DEF Busy, Moving, Transitions

LEMMA NextCalm == Typed /\ Calm /\ [Next]_vars => Calm'
<1> SUFFICES ASSUME Typed, Calm, [Next]_vars PROVE Calm'
  OBVIOUS
<1>1. CASE UNCHANGED vars
  BY <1>1, Stays DEF vars, adapter, client_fields, SameFor
<1>2. ASSUME NEW t \in Tasks, NEW op, NEW s, Called(op, s), Begin(t, op, s) PROVE Calm'
  BY <1>2, BeginCalm
<1>3. ASSUME NEW t \in Tasks, Step(t) PROVE Calm'
  BY <1>3, BuiltCalm, HealthyCalm, ProbedCalm, UnprobedCalm, SweptCalm, DeletedCalm, CreatedCalm,
     ScopedCalm, RunResetAllMem0Calm, WipedMem0Calm, WipedZepCalm, WipedLettaCalm, RunCloseCalm,
     ClosedCalm, ClosedAnywayCalm, AclosedCalm, FailCalm, OnceStartedsCalm, EndsCalm DEF Step
<1>4. ASSUME NEW t \in Tasks, Handle(t) PROVE Calm'
  BY <1>4, HandleCalm
<1>5. ASSUME NEW c \in late, HandleLate(c) PROVE Calm'
  BY <1>5, Stays DEF HandleLate, adapter, client_fields, SameFor
<1> QED BY <1>1, <1>2, <1>3, <1>4, <1>5 DEF Next, Called

\* While no start or close failed or met another, one client at most is open,
\* and it is the current one (mem0.py:172-197, zep.py:200-237, letta.py:154-207).
THEOREM OneClientOnly == Spec => []OneClient
<1>1. Init => Calm
  BY IdleFields DEF Init, Calm, AtRest, Moving, Transitions
<1>2. Typed /\ Calm => OneClient
  <2> SUFFICES ASSUME Typed, Calm, history.calm, \A t \in Tasks : ~ Busy(t)
               PROVE  AtRest
    BY DEF OneClient, AtRest
  <2>1. \A t \in Tasks : ~ Moving(t)
    BY Here, IdleFields DEF Busy, Moving, Transitions, Placed
  <2> QED BY <2>1 DEF Calm
<1> QED BY <1>1, <1>2, InitTyped, NextTyped, NextCalm, PTL DEF Spec

-----------------------------------------------------------------------------
(* What a step does that agents, memories and settled sessions depend on.  *)

\* t goes on at x; the memory system is left alone, and nothing is to be
\* deleted that was not before.
Onward(t, x) ==
    /\ task' = [task EXCEPT ![t] = x]
    /\ Busy(t) /\ Same(x, task[t]) /\ x.pc # "idle" /\ x.result = {} /\ x.reply # "ok"
    /\ ToDelete(x) \subseteq ToDelete(task[t])
    /\ UNCHANGED <<system, store>> /\ counts'.ops = counts.ops /\ counts'.agents = counts.agents

HistoryOf(h) ==
    history'.ended = h.ended /\ history'.void = h.void /\ history'.kept = h.kept
    /\ history'.steady = h.steady

\* Nothing else.
Plain(t) ==
    \E x : /\ Onward(t, x) /\ x.agent = task[t].agent /\ agents' = agents /\ HistoryOf(history)
           /\ Sweeping(x) => Sweeping(task[t]) \/ Removes(task[t].op)
           /\ x.pc = "verify" => ~ Letta
           /\ Wiped(x) => Wiped(task[t])

\* A write or search turns to the agent of its session, and settles the session
\* if it has made the agent alone.
Chooses(t) ==
    \E x : /\ Onward(t, x) /\ agents' = agents
           /\ task[t].op \in {"write", "read"} /\ task[t].agent = None
           /\ x.agent = agents[task[t].s] /\ (Letta => x.agent # None)
           /\ ~ Sweeping(x) /\ ~ Wiped(x)
           /\ \/ HistoryOf(history)
              \/ /\ Letta /\ At(t, "verify") /\ task[t].alone
                 /\ HistoryOf([history EXCEPT !.steady = history.steady \cup {task[t].s}])

\* It makes an agent first.
Unsettles(t) ==
    \E x : /\ Onward(t, x) /\ x.agent = task[t].agent /\ agents' = agents /\ Letta
           /\ task[t].op \in {"write", "read"} /\ x.pc # "verify"
           /\ HistoryOf(Unsettled(history, {task[t].s}))

\* It has made it.
Makes(t) ==
    \E x : /\ Onward(t, x) /\ x.agent = task[t].agent /\ Letta /\ Goes(task[t], "sweep")
           /\ At(t, "create") /\ task[t].s \in Sessions /\ x.pc = "verify" /\ HistoryOf(history)
           /\ \E a \in task[t].result : agents' = [agents EXCEPT ![task[t].s] = a]

\* t is done.
Done(t) ==
    /\ Busy(t) /\ Finish(t) /\ UNCHANGED <<system, store, counts>>
    /\ task[t].op = "write" => task[t].pc = "work" /\ task[t].reply = "ok"
    /\ \/ agents' = agents /\ ~ Removes(task[t].op)
       \/ agents' = agents /\ Letta /\ task[t].op = "reset" /\ At(t, "verify")
       \/ agents' = Cleared /\ Letta /\ task[t].op = "reset_all"
       \/ agents' = agents /\ ~ Letta /\ Wiped(task[t])

\* A coroutine that goes on to a call or an await.
LEMMA CallOnward ==
    ASSUME Typed, NEW t \in Tasks, NEW x, Busy(t), task' = [task EXCEPT ![t] = x],
           Same(x, task[t]), x.pc # "idle", x.result = {}, x.reply # "ok",
           x.todo \subseteq ToDelete(task[t]),
           x.call.kind = "delete" => x.call.in \in ToDelete(task[t]),
           UNCHANGED <<system, store>>, counts'.ops = counts.ops, counts'.agents = counts.agents
    PROVE  Onward(t, x)
BY DEF Onward, ToDelete

LEMMA OnceStartedOnward ==
    ASSUME Typed, NEW t \in Tasks, Busy(t), NEW r, Whole(r), Same(r, task[t]), r.todo = task[t].todo,
           NEW p \in {"sweep", "wipe", "scope"}, Goes(r, p), NEW h \in History,
           OnceStarted(t, r, p, h), UNCHANGED <<system, started, agents, store>>
    PROVE  \E x : /\ Onward(t, x) /\ x.agent = r.agent /\ agents' = agents /\ HistoryOf(h)
                  /\ Sweeping(x) <=> p = "sweep"
                  /\ x.pc # "verify" /\ ~ Wiped(x)
<1>0. r.todo \subseteq ToDelete(task[t])
  BY DEF ToDelete
<1>1. CASE Start(t, r, p, h)
  <2>1. PICK x : x = [Awaiting(r, IF Letta THEN "starting" ELSE "building") EXCEPT !.then = p]
    OBVIOUS
  <2>2. /\ Fits(x) /\ Same(x, r) /\ x.pc = (IF Letta THEN "starting" ELSE "building")
        /\ x.then = p /\ x.agent = r.agent /\ x.todo = r.todo /\ x.result = {} /\ x.call = NoCall
    BY <2>1, StartFits
  <2>3. task' = [task EXCEPT ![t] = x] /\ history' = Moved(t, h)
    BY <1>1, <2>1 DEF Start, Put
  <2>4. counts'.ops = counts.ops /\ counts'.agents = counts.agents
    BY <1>1 DEF Start, Typed, CountsTyped
  <2>5. Same(x, task[t]) /\ x.reply # "ok"
    BY <2>2 DEF Same, Fits, CallFits, Calls
  <2>6. Onward(t, x)
    BY <1>0, <2>2, <2>3, <2>4, <2>5, IdleFields, CallOnward
  <2>7. HistoryOf(h)
    BY <2>3, MovedFacts DEF HistoryOf
  <2>8. ~ Wiped(x)
    BY <2>2 DEF Wiped, Goes, Same
  <2>9. Sweeping(x) <=> p = "sweep"
    BY <2>2 DEF Sweeping, Starting
  <2> QED BY <2>2, <2>6, <2>7, <2>8, <2>9
<1>2. CASE started /\ Put(t, On(r, p)) /\ history' = h /\ UNCHANGED <<client, open, mem, counts>>
  <2>1. PICK x : x = On(r, p)
    OBVIOUS
  <2>2. /\ Fits(x) /\ Same(x, r) /\ x.pc = p /\ x.agent = r.agent
        /\ x.todo = r.todo /\ x.result = {}
        /\ p = "scope" => x.call = NoCall
        /\ p = "sweep" => x.call.kind = SweepKind
        /\ p = "wipe" => x.call.kind = (IF Letta THEN "listall" ELSE "clearall")
    BY <2>1, OnFits
  <2>3. task' = [task EXCEPT ![t] = x]
    BY <1>2, <2>1 DEF Put
  <2>4. x.reply # "ok"
    <3>1. CASE p = "scope"
      BY <2>2, <3>1 DEF Fits, CallFits, Calls
    <3>2. CASE p = "sweep"
      BY <2>1, <3>2, OnFits
    <3>3. CASE p = "wipe"
      <4>1. x = Calling(r, "wipe", IF Letta THEN "listall" ELSE "clearall", None, client)
        BY <2>1, <3>3 DEF On
      <4>2. /\ r \in Coroutine /\ "wipe" \in PCs /\ (IF Letta THEN "listall" ELSE "clearall") \in Kinds
            /\ None \in Addressees /\ client \in Nat \cup {None}
        BY Here DEF Whole, PCs, Calls, Kinds, Addressees
      <4> QED BY <4>1, <4>2, CallingFields
    <3> QED BY <3>1, <3>2, <3>3
  <2>5. Same(x, task[t]) /\ x.call.kind # "delete"
    BY <2>2, IdleFields DEF Same, SweepKind
  <2>6. Onward(t, x)
    BY <1>0, <1>2, <2>2, <2>3, <2>4, <2>5, CallOnward
  <2>7. HistoryOf(h)
    BY <1>2 DEF HistoryOf
  <2>8. ~ Wiped(x) /\ (Sweeping(x) <=> p = "sweep")
    BY <2>2, <2>4 DEF Wiped, Sweeping, Starting
  <2> QED BY <2>2, <2>6, <2>7, <2>8
<1> QED BY <1>1, <1>2 DEF OnceStarted

LEMMA StartsForm ==
    ASSUME Typed, NEW t \in Tasks, RunReset(t) \/ RunResetAll(t)
    PROVE  Plain(t)
<1>1. /\ Busy(t) /\ UNCHANGED <<system, started, agents, store>> /\ Removes(task[t].op)
  BY DEF RunReset, RunResetAll, At, Busy, Removes
<1>2. PICK p \in {"sweep", "wipe", "scope"} :
         OnceStarted(t, task[t], p, history) /\ Goes(task[t], p)
  BY DEF RunReset, RunResetAll, Goes
<1>3. Whole(task[t]) /\ Same(task[t], task[t]) /\ history \in History
  BY Here DEF Same
<1> QED BY <1>1, <1>2, <1>3, OnceStartedOnward DEF Plain

LEMMA RunWorkForm == ASSUME Typed, NEW t \in Tasks, RunWork(t) PROVE Chooses(t) \/ Unsettles(t)
<1>1. /\ task[t].pc = "begun" /\ task[t].op \in {"write", "read"} /\ Busy(t)
      /\ UNCHANGED <<system, started, agents, store>>
  BY DEF RunWork, At, Busy
<1>2. task[t].agent = None /\ Whole(task[t]) /\ Same(task[t], task[t])
  BY <1>1, Here DEF Placed, Same
<1>3. CASE Letta /\ agents[task[t].s] = None
  <2>1. OnceStarted(t, task[t], "sweep", Unsettled(history, {task[t].s}))
    BY <1>3 DEF RunWork
  <2>2. Goes(task[t], "sweep")
    BY <1>1, <1>2, <1>3 DEF Goes
  <2>3. Unsettled(history, {task[t].s}) \in History
    BY Here, HistoryTypes
  <2> QED BY <1>1, <1>2, <1>3, <2>1, <2>2, <2>3, OnceStartedOnward DEF Unsettles
<1>4. CASE ~ (Letta /\ agents[task[t].s] = None)
  <2>1. PICK r : r = [task[t] EXCEPT !.agent = agents[task[t].s]]
    OBVIOUS
  <2>2. OnceStarted(t, r, "scope", history)
    BY <1>4, <2>1 DEF RunWork
  <2>3. /\ Whole(r) /\ Goes(r, "scope") /\ Same(r, task[t]) /\ r.agent = agents[task[t].s]
        /\ r.todo = task[t].todo
    BY <1>1, <1>4, <2>1, AgentSet
  <2> QED BY <1>1, <1>2, <1>4, <2>2, <2>3, Here, OnceStartedOnward DEF Chooses
<1> QED BY <1>3, <1>4

LEMMA AgentMadeForm == ASSUME Typed, NEW t \in Tasks, AgentMade(t) PROVE Chooses(t)
<1>1. PICK r : r = [task[t] EXCEPT !.agent = agents[task[t].s]]
  OBVIOUS
<1>2. PICK h : h = IF r.alone THEN [history EXCEPT !.steady = history.steady \cup {r.s}] ELSE history
  OBVIOUS
<1>3. /\ task[t].pc = "verify" /\ task[t].op \in {"write", "read"} /\ r.agent # None /\ Busy(t)
      /\ OnceStarted(t, r, "scope", h) /\ UNCHANGED <<system, started, agents, store>>
  BY <1>1, <1>2 DEF AgentMade, Answered, At, Busy
<1>4. task[t].s \in Sessions
  BY <1>3, Here DEF Whole
<1>5. agents[task[t].s] # None
  BY <1>1, <1>3, <1>4, Here, OtherFields
<1>6. /\ Whole(r) /\ Goes(r, "scope") /\ Same(r, task[t]) /\ r.agent = agents[task[t].s]
      /\ r.todo = task[t].todo
  BY <1>1, <1>3, <1>5, AgentSet
<1>7. h \in History
  BY <1>2, <1>4, <1>6, Here DEF History, Same
<1>8. Letta /\ task[t].agent = None
  BY <1>3, Here DEF CallFits, Suits, Calls, Goes
<1>9. PICK x : /\ Onward(t, x) /\ x.agent = r.agent /\ agents' = agents /\ HistoryOf(h)
               /\ ~ Sweeping(x) /\ ~ Wiped(x)
  BY <1>3, <1>6, <1>7, OnceStartedOnward
<1>10. \/ HistoryOf(history)
       \/ /\ task[t].alone
          /\ HistoryOf([history EXCEPT !.steady = history.steady \cup {task[t].s}])
  BY <1>2, <1>6, <1>9 DEF Same
<1> QED BY <1>3, <1>5, <1>6, <1>8, <1>9, <1>10 DEF Chooses, At

LEMMA CallPlain ==
    ASSUME Typed, NEW t \in Tasks, Busy(t), NEW r \in Coroutine, Same(r, task[t]),
           r.agent = task[t].agent, r.todo \subseteq ToDelete(task[t]), NEW pc \in Calls,
           NEW kind \in Kinds, NEW in \in Addressees, NEW k \in Nat \cup {None},
           kind = "delete" => in \in ToDelete(task[t]), Put(t, Calling(r, pc, kind, in, k)),
           UNCHANGED <<system, agents, store>>, counts'.ops = counts.ops,
           counts'.agents = counts.agents, HistoryOf(history),
           pc \in {"sweep", "delete", "create", "verify"} => Sweeping(task[t]) \/ Removes(task[t].op),
           pc = "verify" => ~ Letta /\ Wiped(task[t]),
           pc \in Starting => task[t].pc \in Starting /\ r.then = task[t].then
    PROVE  Plain(t)
<1>1. PICK x : x = Calling(r, pc, kind, in, k)
  OBVIOUS
<1>2. /\ Same(x, r) /\ x.pc = pc /\ x.then = r.then /\ x.reply = "wait" /\ x.result = {}
      /\ x.agent = r.agent /\ x.todo = r.todo /\ x.call.kind = kind /\ x.call.in = in
  <2>1. pc \in PCs
    BY DEF PCs
  <2>2. LET y == Calling(r, pc, kind, in, k) IN
      /\ Same(y, r) /\ y.pc = pc /\ y.then = r.then /\ y.reply = "wait" /\ y.result = {}
      /\ y.agent = r.agent /\ y.todo = r.todo /\ y.call.kind = kind /\ y.call.in = in
    BY <2>1, CallingFields
  <2> QED BY <1>1, <2>2
<1>3. Same(x, task[t]) /\ x.pc # "idle"
  BY <1>2 DEF Same, Calls
<1>4. task' = [task EXCEPT ![t] = x]
  BY <1>1 DEF Put
<1>5. Onward(t, x)
  BY <1>2, <1>3, <1>4, CallOnward
<1>6. Sweeping(x) => Sweeping(task[t]) \/ Removes(task[t].op)
  BY <1>2 DEF Sweeping
<1>7. Wiped(x) => Wiped(task[t])
  BY <1>2 DEF Wiped, Calls
<1> QED BY <1>2, <1>5, <1>6, <1>7 DEF Plain

LEMMA AwaitPlain ==
    ASSUME Typed, NEW t \in Tasks, Busy(t), NEW r \in Coroutine, Same(r, task[t]),
           r.agent = task[t].agent, r.todo = task[t].todo, NEW pc \in {"building", "index", "aclose"},
           Put(t, Awaiting(r, pc)), UNCHANGED <<system, agents, store>>, counts'.ops = counts.ops,
           counts'.agents = counts.agents, HistoryOf(history),
           pc = "building" => r.then = "done", pc # "aclose" => Wiped(task[t])
    PROVE  Plain(t)
<1>1. PICK x : x = Awaiting(r, pc)
  OBVIOUS
<1>2. /\ Same(x, r) /\ x.pc = pc /\ x.then = r.then /\ x.call = NoCall /\ x.reply = "none"
      /\ x.result = {} /\ x.agent = r.agent /\ x.todo = r.todo
  BY <1>1, AwaitingFields DEF PCs, Starting
<1>3. Same(x, task[t]) /\ x.pc # "idle" /\ x.todo \subseteq ToDelete(task[t]) /\ x.call.kind # "delete"
  BY <1>2, IdleFields DEF Same, ToDelete
<1>4. task' = [task EXCEPT ![t] = x]
  BY <1>1 DEF Put
<1>5. Onward(t, x)
  BY <1>2, <1>3, <1>4, CallOnward
<1>6. ~ Sweeping(x) /\ x.pc # "verify" /\ (Wiped(x) => Wiped(task[t]))
  BY <1>2 DEF Sweeping, Starting, Wiped
<1> QED BY <1>2, <1>5, <1>6 DEF Plain

\* Going on to place p.
LEMMA OnPlain ==
    ASSUME Typed, NEW t \in Tasks, Busy(t), NEW p \in {"sweep", "wipe", "scope"}, Goes(task[t], p),
           Put(t, On(task[t], p)), UNCHANGED <<system, agents, store>>, counts' = counts,
           HistoryOf(history), p = "sweep" => Sweeping(task[t])
    PROVE  Plain(t)
<1>1. PICK x : x = On(task[t], p)
  OBVIOUS
<1>2. /\ Fits(x) /\ Same(x, task[t]) /\ x.pc = p /\ x.agent = task[t].agent
      /\ x.todo = task[t].todo /\ x.result = {}
      /\ p = "scope" => x.call = NoCall
      /\ p = "sweep" => x.call.kind = SweepKind /\ x.reply = "wait"
      /\ p = "wipe" => x.call.kind = (IF Letta THEN "listall" ELSE "clearall")
  BY <1>1, Here, OnFits
<1>3. x.reply # "ok"
  <2>1. CASE p = "scope"
    BY <1>2, <2>1 DEF Fits, CallFits, Calls
  <2>2. CASE p = "sweep"
    BY <1>2, <2>2
  <2>3. CASE p = "wipe"
    <3>1. PICK kind \in Kinds : kind = IF Letta THEN "listall" ELSE "clearall"
      BY DEF Kinds
    <3>2. x = Calling(task[t], "wipe", kind, None, client)
      BY <1>1, <2>3, <3>1 DEF On
    <3>3. /\ task[t] \in Coroutine /\ "wipe" \in PCs /\ None \in Addressees
          /\ client \in Nat \cup {None}
      BY Here DEF PCs, Calls, Addressees
    <3> QED BY <3>2, <3>3, CallingFields
  <2> QED BY <2>1, <2>2, <2>3
<1>4. x.call.kind # "delete" /\ x.todo \subseteq ToDelete(task[t]) /\ x.pc # "idle"
  BY <1>2, IdleFields DEF SweepKind, ToDelete
<1>5. Onward(t, x)
  <2>1. task' = [task EXCEPT ![t] = x]
    BY <1>1 DEF Put
  <2> QED BY <1>2, <1>3, <1>4, <2>1, CallOnward
<1>6. ~ Wiped(x) /\ (Sweeping(x) => Sweeping(task[t])) /\ x.pc # "verify"
  BY <1>2, <1>3 DEF Wiped, Sweeping, Starting
<1> QED BY <1>2, <1>5, <1>6 DEF Plain

LEMMA BuiltForm == ASSUME Typed, NEW t \in Tasks, Built(t) PROVE Plain(t) \/ Done(t)
<1>1. /\ task[t].pc = "building" /\ ~ Letta /\ Busy(t) /\ UNCHANGED <<system, agents, store, counts>>
      /\ Goes(task[t], task[t].then) \/ (Mem0 /\ task[t].op = "reset_all" /\ task[t].then = "done")
  BY Here DEF Built, At, Placed, Busy
<1>2. CASE task[t].then = "done"
  <2>1. Mem0 /\ task[t].op = "reset_all" /\ Wiped(task[t])
    BY <1>1, <1>2 DEF Goes, Wiped
  <2> QED BY <1>1, <1>2, <2>1 DEF Done, Built, Removes
<1>3. CASE task[t].then # "done"
  <2>1. task[t].then \in {"sweep", "wipe", "scope"} /\ Goes(task[t], task[t].then)
    BY <1>1, <1>3 DEF Goes
  <2>2. Put(t, On(task[t], task[t].then)) /\ HistoryOf(history)
    BY <1>3 DEF Built, HistoryOf
  <2>3. task[t].then = "sweep" => Sweeping(task[t])
    BY <1>1 DEF Sweeping, Starting
  <2> QED BY <1>1, <2>1, <2>2, <2>3, OnPlain
<1> QED BY <1>2, <1>3

LEMMA StartingForm ==
    ASSUME Typed, NEW t \in Tasks, Healthy(t) \/ Probed(t) \/ Unprobed(t) PROVE Plain(t)
<1>0. /\ UNCHANGED <<system, agents, store>> /\ counts' = counts /\ HistoryOf(history)
      /\ counts'.ops = counts.ops /\ counts'.agents = counts.agents
      /\ Busy(t) /\ task[t].pc \in Starting
      /\ task[t] \in Coroutine /\ Same(task[t], task[t]) /\ task[t].todo \subseteq ToDelete(task[t])
      /\ client \in Nat \cup {None}
  BY Here DEF Healthy, Probed, Unprobed, OnlyTask, adapter, HistoryOf, At, Answered, Busy, Starting,
     Same, ToDelete
<1>1. CASE Healthy(t)
  <2>1. "probe" \in Calls /\ "create" \in Kinds /\ Probe \in Addressees
    BY DEF Calls, Kinds, Addressees
  <2>2. Put(t, Calling(task[t], "probe", "create", Probe, client))
    BY <1>1 DEF Healthy
  <2> QED BY <1>0, <2>1, <2>2, CallPlain
<1>2. CASE Probed(t)
  <2>1. task[t].pc = "probe" /\ task[t].result \subseteq Known
    BY <1>2, Here DEF Probed, Answered, At, ResultFits
  <2>2. PICK a \in task[t].result : Put(t, Calling(task[t], "unprobe", "delete", a, client))
    BY <1>2 DEF Probed
  <2>3. "unprobe" \in Calls /\ "delete" \in Kinds /\ a \in Addressees /\ a \in ToDelete(task[t])
    BY <2>1, Values DEF Calls, Kinds, Addressees, ToDelete
  <2> QED BY <1>0, <2>2, <2>3, CallPlain
<1>3. CASE Unprobed(t)
  <2>1. /\ Letta /\ Goes(task[t], task[t].then) /\ task[t].pc = "unprobe"
        /\ Put(t, On(task[t], task[t].then))
    BY <1>3, Here DEF Unprobed, Answered, At, CallFits, Suits, Calls
  <2>2. task[t].then \in {"sweep", "wipe", "scope"} /\ (task[t].then = "sweep" => Sweeping(task[t]))
    BY <2>1 DEF Goes, Sweeping, Starting
  <2> QED BY <1>0, <2>1, <2>2, OnPlain
<1> QED BY <1>1, <1>2, <1>3

\* The next deletion, or the new agent.
LEMMA NextDeletionPlain ==
    ASSUME Typed, NEW t \in Tasks, Busy(t), Letta, Goes(task[t], "sweep"), NEW todo \in SUBSET Known,
           todo \subseteq ToDelete(task[t]), Sweeping(task[t]), Put(t, NextDeletion(task[t], todo)),
           UNCHANGED <<system, agents, store>>, counts' = counts, HistoryOf(history)
    PROVE  Plain(t)
<1>1. PICK x : x = NextDeletion(task[t], todo)
  OBVIOUS
<1>2. /\ Fits(x) /\ Same(x, task[t]) /\ x.agent = task[t].agent /\ x.reply = "wait"
      /\ x.result = {}
      /\ todo = {} => x.pc = "create" /\ x.call.kind = "create" /\ x.todo = task[t].todo
      /\ todo # {} => /\ x.pc = "delete" /\ x.call.in \in todo /\ x.todo = todo \ {x.call.in}
  BY <1>1, Here, NextDeletionFacts
<1>3. /\ x.todo \subseteq ToDelete(task[t]) /\ x.pc \in {"create", "delete"}
      /\ x.call.kind = "delete" => x.call.in \in ToDelete(task[t])
  BY <1>2 DEF ToDelete
<1>4. Onward(t, x)
  <2>1. task' = [task EXCEPT ![t] = x]
    BY <1>1 DEF Put
  <2> QED BY <1>2, <1>3, <2>1, CallOnward
<1>5. ~ Wiped(x)
  BY <1>3 DEF Wiped
<1> QED BY <1>2, <1>3, <1>4, <1>5 DEF Plain

LEMMA SweptForm == ASSUME Typed, NEW t \in Tasks, Swept(t) PROVE Plain(t)
<1>1. /\ task[t].pc = "sweep" /\ task[t].reply = "ok" /\ task[t].result \subseteq Known /\ Busy(t)
      /\ Goes(task[t], "sweep") \/ (Mem0 /\ task[t].op = "reset")
      /\ Wiped(task[t])
  BY Here DEF Swept, Answered, At, CallFits, ResultFits, Suits, Calls, Busy, Sweeping, Wiped
<1>2. UNCHANGED <<system, agents, store>> /\ counts' = counts /\ HistoryOf(history) /\ Sweeping(task[t])
  BY <1>1 DEF Swept, OnlyTask, adapter, HistoryOf, Sweeping
<1>3. CASE Letta
  <2>1. Goes(task[t], "sweep") /\ task[t].result \subseteq ToDelete(task[t])
    BY <1>1, <1>3 DEF Letta, Mem0, ToDelete
  <2>2. Put(t, NextDeletion(task[t], task[t].result))
    BY <1>3 DEF Swept
  <2> QED BY <1>1, <1>2, <1>3, <2>1, <2>2, NextDeletionPlain
<1>4. CASE ~ Letta
  <2>1. PICK k : k = IF Mem0 THEN task[t].call.client ELSE client
    OBVIOUS
  <2>2. k \in Nat \cup {None}
    <3>1. task[t].call \in Call
      BY Here, Fields
    <3> QED BY <2>1, <3>1, Here DEF Call
  <2>3. Put(t, Calling(task[t], "verify", "count", task[t].s, k))
    BY <1>4, <2>1 DEF Swept
  <2>4. "verify" \in Calls /\ "count" \in Kinds /\ task[t].s \in Addressees
    BY Here DEF Calls, Kinds, Addressees
  <2>5. /\ task[t] \in Coroutine /\ Same(task[t], task[t]) /\ task[t].todo \subseteq ToDelete(task[t])
        /\ "verify" \notin Starting
    BY Here DEF Same, ToDelete, Starting
  <2> QED BY <1>1, <1>2, <1>4, <2>2, <2>3, <2>4, <2>5, CallPlain
<1> QED BY <1>3, <1>4

LEMMA DeletedForm == ASSUME Typed, NEW t \in Tasks, Deleted(t) PROVE Plain(t)
<1>1. /\ Letta /\ Goes(task[t], "sweep") /\ task[t].todo \subseteq Known /\ task[t].pc = "delete"
  BY Here DEF Deleted, Answered, At, CallFits, Suits, Calls, Whole
<1>2. /\ Busy(t) /\ Sweeping(task[t]) /\ task[t].todo \subseteq ToDelete(task[t])
      /\ Put(t, NextDeletion(task[t], task[t].todo))
      /\ UNCHANGED <<system, agents, store>> /\ counts' = counts /\ HistoryOf(history)
  BY <1>1 DEF Deleted, OnlyTask, adapter, HistoryOf, Busy, Sweeping, ToDelete
<1> QED BY <1>1, <1>2, NextDeletionPlain

LEMMA CreatedForm == ASSUME Typed, NEW t \in Tasks, Created(t) PROVE Makes(t)
<1>1. /\ task[t].pc = "create" /\ Letta /\ Goes(task[t], "sweep") /\ task[t].result \subseteq Known
      /\ task[t].s \in Sessions /\ Busy(t) /\ task[t].todo \subseteq ToDelete(task[t])
      /\ task[t] \in Coroutine /\ Same(task[t], task[t]) /\ client \in Nat \cup {None}
  BY Here DEF Created, Answered, At, CallFits, ResultFits, Suits, Calls, Goes, Whole, Busy, ToDelete, Same
<1>2. PICK a \in task[t].result :
         /\ agents' = [agents EXCEPT ![task[t].s] = a]
         /\ Put(t, Calling(task[t], "verify", "count", a, client))
  BY DEF Created
<1>3. UNCHANGED <<system, store>> /\ counts' = counts /\ HistoryOf(history)
  BY DEF Created, HistoryOf
<1>4. PICK x : x = Calling(task[t], "verify", "count", a, client)
  OBVIOUS
<1>5. /\ Same(x, task[t]) /\ x.pc = "verify" /\ x.reply = "wait" /\ x.result = {}
      /\ x.agent = task[t].agent /\ x.todo = task[t].todo /\ x.call.kind = "count"
  <2>1. "verify" \in PCs /\ "count" \in Kinds /\ a \in Addressees
    BY <1>1, Values DEF PCs, Calls, Kinds, Addressees
  <2>2. LET y == Calling(task[t], "verify", "count", a, client) IN
        /\ Same(y, task[t]) /\ y.pc = "verify" /\ y.reply = "wait" /\ y.result = {}
        /\ y.agent = task[t].agent /\ y.todo = task[t].todo /\ y.call.kind = "count"
    BY <1>1, <2>1, CallingFields
  <2> QED BY <1>4, <2>2
<1>6. Onward(t, x)
  <2>1. task' = [task EXCEPT ![t] = x]
    BY <1>2, <1>4 DEF Put
  <2> QED BY <1>1, <1>3, <1>5, <2>1, CallOnward
<1> QED BY <1>1, <1>2, <1>3, <1>5, <1>6 DEF Makes, At

LEMMA ScopedForm == ASSUME Typed, NEW t \in Tasks, Scoped(t) PROVE Plain(t)
<1> DEFINE r == task[t]
           k == IF Letta THEN client ELSE mem
           a == IF Letta THEN r.agent ELSE r.s
<1>1. /\ r.pc = "scope" /\ Goes(r, "scope") /\ r \in Coroutine /\ Busy(t)
      /\ Same(r, r) /\ r.todo \subseteq ToDelete(r)
  BY Here DEF Scoped, At, Placed, Busy, Same, ToDelete
<1>2. k \in Nat \cup {None} /\ r.s \in Addressees /\ a \in Addressees
  BY Here, Fields, <1>1 DEF Addressees
<1>3. {"sweep", "work"} \subseteq Calls /\ {"clear", "add", "find"} \subseteq Kinds
      /\ {"sweep", "work"} \cap Starting = {}
  BY DEF Calls, Kinds, Starting
<1>4. Put(t, CASE r.op = "reset" -> Calling(r, "sweep", "clear", r.s, k)
               [] r.op = "write" -> Calling(r, "work", "add", a, k)
               [] r.op = "read" -> Calling(r, "work", "find", a, k))
  BY DEF Scoped
<1>5. /\ UNCHANGED <<system, agents, store>> /\ counts'.ops = counts.ops
      /\ counts'.agents = counts.agents /\ HistoryOf(history)
  BY DEF Scoped, OnlyTask, adapter, HistoryOf
<1> HIDE DEF k, a
<1>6. CASE r.op = "reset"
  <2>1. Put(t, Calling(r, "sweep", "clear", r.s, k)) /\ Removes(r.op)
    BY <1>4, <1>6 DEF Removes
  <2> QED BY <1>1, <1>2, <1>3, <1>5, <2>1, CallPlain
<1>7. CASE r.op = "write"
  <2>1. Put(t, Calling(r, "work", "add", a, k))
    BY <1>4, <1>7
  <2> QED BY <1>1, <1>2, <1>3, <1>5, <2>1, CallPlain
<1>8. CASE r.op = "read"
  <2>1. Put(t, Calling(r, "work", "find", a, k))
    BY <1>4, <1>8
  <2> QED BY <1>1, <1>2, <1>3, <1>5, <2>1, CallPlain
<1> QED BY <1>1, <1>6, <1>7, <1>8 DEF Goes

LEMMA RunResetAllMem0Form == ASSUME Typed, NEW t \in Tasks, RunResetAllMem0(t) PROVE Plain(t)
<1>1. PICK x : x = task'[t]
  OBVIOUS
<1>2. /\ task[t].op = "reset_all" /\ task[t].pc = "begun" /\ task' = [task EXCEPT ![t] = x]
      /\ Same(x, task[t]) /\ x.pc = "wipe" /\ x.agent = None /\ x.todo = task[t].todo
      /\ x.result = {} /\ x.reply = "wait" /\ x.call.kind = "clearall"
  BY <1>1, RunResetAllMem0Facts
<1>3. /\ Busy(t) /\ x.todo \subseteq ToDelete(task[t]) /\ task[t].agent = None
  BY <1>2, Here DEF Busy, ToDelete, Whole
<1>4. /\ UNCHANGED <<system, store, agents>> /\ counts' = [counts EXCEPT !.clients = counts.clients + 1]
      /\ history' = Moved(t, history)
  BY DEF RunResetAllMem0
<1>5. counts'.ops = counts.ops /\ counts'.agents = counts.agents
  BY <1>4 DEF Typed, CountsTyped
<1>6. Onward(t, x)
  BY <1>2, <1>3, <1>4, <1>5, CallOnward
<1>7. HistoryOf(history)
  BY <1>4, Here, MovedFacts DEF HistoryOf
<1>8. ~ Sweeping(x) /\ ~ Wiped(x)
  BY <1>2 DEF Sweeping, Starting, Wiped
<1> QED BY <1>2, <1>3, <1>4, <1>6, <1>7, <1>8 DEF Plain

LEMMA WipedMem0Form == ASSUME Typed, NEW t \in Tasks, WipedMem0(t) PROVE Plain(t) \/ Done(t)
<1> DEFINE k == counts.clients + 1
<1>1. /\ task[t].pc = "wipe" /\ Mem0 /\ ~ Letta /\ UNCHANGED <<system, agents, store>> /\ Busy(t)
      /\ Wiped(task[t])
  BY DEF WipedMem0, Answered, At, Busy, Wiped, Mem0, Letta
<1>2. task[t].op = "reset_all"
  BY <1>1, Here DEF CallFits, Suits, Calls
<1>3. PICK r : r = [task[t] EXCEPT !.then = "done"]
  OBVIOUS
<1>4. /\ Same(r, task[t]) /\ r.then = "done" /\ r.agent = task[t].agent /\ r.todo = task[t].todo
      /\ r \in Coroutine
  <2>1. task[t] \in Coroutine
    BY Here
  <2> HIDE DEF k
  <2>2. r \in Coroutine /\ r.then = "done" /\ r.agent = task[t].agent /\ r.todo = task[t].todo
    BY <1>3, <2>1 DEF Coroutine
  <2>3. /\ r.op = task[t].op /\ r.s = task[t].s /\ r.w = task[t].w /\ r.alone = task[t].alone
        /\ r.gone = task[t].gone /\ r.void = task[t].void
    BY <1>3, <2>1 DEF Coroutine
  <2> QED BY <2>2, <2>3 DEF Same
<1>5. CASE /\ Put(t, Awaiting(r, "building")) /\ counts' = [counts EXCEPT !.clients = k]
           /\ UNCHANGED history
  <2>1. counts'.ops = counts.ops /\ counts'.agents = counts.agents
    BY <1>5 DEF Typed, CountsTyped
  <2>2. HistoryOf(history)
    BY <1>5 DEF HistoryOf
  <2> QED BY <1>1, <1>4, <1>5, <2>1, <2>2, AwaitPlain
<1>6. CASE Finish(t) /\ UNCHANGED counts
  BY <1>1, <1>2, <1>6 DEF Done, Removes
<1> QED BY <1>3, <1>5, <1>6 DEF WipedMem0

LEMMA WipedLettaForm == ASSUME Typed, NEW t \in Tasks, WipedLetta(t) PROVE Plain(t) \/ Done(t)
<1>1. /\ Letta /\ Busy(t) /\ task[t].op = "reset_all" /\ task[t].pc \in {"wipe", "wiping"}
      /\ UNCHANGED <<system, store, counts>>
  BY WipedLettaFacts DEF Busy
<1>2. CASE agents' = Cleared /\ Finish(t)
  BY <1>1, <1>2 DEF Done
<1>3. CASE ~ (agents' = Cleared /\ Finish(t))
  <2>1. PICK x, a :
           /\ a \in (IF At(t, "wipe") THEN task[t].result ELSE task[t].todo)
           /\ task' = [task EXCEPT ![t] = x] /\ Same(x, task[t]) /\ x.pc = "wiping"
           /\ x.agent = task[t].agent /\ x.reply = "wait" /\ x.result = {} /\ x.call.in = a
           /\ x.todo = (IF At(t, "wipe") THEN task[t].result ELSE task[t].todo) \ {a}
    BY <1>3, WipedLettaFacts
  <2>2. UNCHANGED <<agents, history>>
    BY <1>3, WipedLettaFacts
  <2>3. x.todo \subseteq ToDelete(task[t]) /\ x.call.in \in ToDelete(task[t])
    BY <1>1, <2>1 DEF ToDelete, At
  <2>4. Onward(t, x)
    BY <1>1, <2>1, <2>3, CallOnward
  <2>5. ~ Sweeping(x) /\ ~ Wiped(x) /\ HistoryOf(history)
    BY <2>1, <2>2 DEF Sweeping, Starting, Wiped, HistoryOf
  <2> QED BY <2>1, <2>2, <2>4, <2>5 DEF Plain
<1> QED BY <1>2, <1>3

\* The steps of closing, and Zep's new indices.
LEMMA ClosingForm ==
    ASSUME Typed, NEW t \in Tasks, RunClose(t) \/ Closed(t) \/ ClosedAnyway(t) \/ WipedZep(t)
    PROVE  Plain(t)
<1>1. /\ UNCHANGED <<system, agents, store>> /\ Busy(t)
      /\ task[t] \in Coroutine /\ Same(task[t], task[t]) /\ task[t].todo \subseteq ToDelete(task[t])
      /\ client \in Nat \cup {None}
  BY Here DEF RunClose, Closed, ClosedAnyway, WipedZep, OnlyTask, adapter, At, Answered, Busy, Same, ToDelete
<1>2. counts'.ops = counts.ops /\ counts'.agents = counts.agents
  BY DEF RunClose, Closed, ClosedAnyway, WipedZep, OnlyTask, Typed, CountsTyped
<1>3. HistoryOf(history)
  <2>1. CASE RunClose(t)
    BY <2>1, Here, MovedFacts DEF RunClose, HistoryOf
  <2>2. CASE ClosedAnyway(t)
    BY <2>2, Here DEF ClosedAnyway, HistoryOf, History
  <2>3. CASE Closed(t) \/ WipedZep(t)
    BY <2>3 DEF Closed, WipedZep, OnlyTask, HistoryOf
  <2> QED BY <2>1, <2>2, <2>3
<1>4. CASE Put(t, Awaiting(task[t], "aclose"))
  BY <1>1, <1>2, <1>3, <1>4, AwaitPlain
<1>5. CASE WipedZep(t)
  <2>1. Put(t, Awaiting(task[t], "index")) /\ Wiped(task[t])
    BY <1>5 DEF WipedZep, Answered, At, Wiped
  <2> QED BY <1>1, <1>2, <1>3, <2>1, AwaitPlain
<1>6. CASE Put(t, Calling(task[t], "closing", "none", None, client))
  <2>1. /\ "closing" \in Calls /\ "none" \in Kinds /\ None \in Addressees /\ "closing" \notin Starting
    BY DEF Calls, Kinds, Addressees, Starting
  <2> QED BY <1>1, <1>2, <1>3, <1>6, <2>1, CallPlain
<1> QED BY <1>4, <1>5, <1>6 DEF RunClose, Closed, ClosedAnyway

LEMMA EndsForm ==
    ASSUME Typed, NEW t \in Tasks, Verified(t) \/ Worked(t) \/ Indexed(t) \/ Aclosed(t)
    PROVE  Done(t)
<1>1. /\ Busy(t) /\ Finish(t) /\ UNCHANGED <<system, store, counts>> /\ agents' = agents
  BY DEF Verified, Worked, Indexed, Aclosed, At, Answered, Busy, adapter
<1>2. CASE Verified(t)
  <2>1. task[t].op = "reset" /\ At(t, "verify") /\ Wiped(task[t])
    BY <1>2 DEF Verified, Answered, At, Wiped
  <2> QED BY <1>1, <2>1 DEF Done
<1>3. CASE Worked(t)
  <2>1. task[t].pc = "work" /\ task[t].reply = "ok" /\ ~ Removes(task[t].op)
    BY <1>3, Here DEF Worked, Answered, At, CallFits, Suits, Calls, Goes, Removes
  <2> QED BY <1>1, <2>1 DEF Done
<1>4. CASE Indexed(t)
  <2>1. task[t].op = "reset_all" /\ ~ Letta /\ Wiped(task[t])
    BY <1>4, Here DEF Indexed, At, Placed, Wiped, Zep, Letta
  <2> QED BY <1>1, <2>1 DEF Done
<1>5. CASE Aclosed(t)
  <2>1. task[t].op = "close"
    BY <1>5, Here DEF Aclosed, At, Placed
  <2> QED BY <1>1, <2>1 DEF Done, Removes
<1> QED BY <1>2, <1>3, <1>4, <1>5

\* Every step of a coroutine has one of these forms.
LEMMA StepForms ==
    ASSUME Typed, NEW t \in Tasks, Step(t)
    PROVE  Plain(t) \/ Chooses(t) \/ Unsettles(t) \/ Makes(t) \/ Done(t) \/ Fail(t)
BY StartsForm, RunWorkForm, AgentMadeForm, BuiltForm, StartingForm, SweptForm, DeletedForm,
   CreatedForm, ScopedForm, RunResetAllMem0Form, WipedMem0Form, WipedLettaForm, ClosingForm,
   EndsForm DEF Step

-----------------------------------------------------------------------------
(* Settled sessions.                                                       *)

\* A session stays settled as long as whoever works on it does so alone.
Settled == AloneIsAlone /\ Unsettling /\ AgentsSafe /\ WritesKept

\* A step of t ends its operation, or goes on with the same one.
LEMMA StepTasks ==
    ASSUME Typed, NEW t \in Tasks, Step(t)
    PROVE  /\ Busy(t) /\ \A u \in Tasks \ {t} : task'[u] = task[u]
           /\ \/ task'[t] = Idle
              \/ /\ Same(task'[t], task[t]) /\ task'[t].pc # "idle" /\ task'[t].result = {}
                 /\ task'[t].reply # "ok"
<1>1. CASE \E x : Onward(t, x)
  BY <1>1, OnlyIts DEF Onward
<1>2. CASE Done(t)
  BY <1>2, OnlyIts DEF Done, Finish, Put
<1>3. CASE Fail(t)
  BY <1>3, OnlyIts, FailFacts DEF Busy
<1> QED BY <1>1, <1>2, <1>3, StepForms DEF Plain, Chooses, Unsettles, Makes

\* It condemns no agent.
LEMMA StepCondemns ==
    ASSUME Typed, NEW t \in Tasks, Step(t)
    PROVE  Condemned' \subseteq Condemned /\ UNCHANGED <<system, live, content>>
<1>1. CASE \E x : Onward(t, x)
  <2>1. PICK x : Onward(t, x)
    BY <1>1
  <2>2. task'[t] = x /\ (\A u \in Tasks \ {t} : task'[u] = task[u])
        /\ ToDelete(x) \subseteq ToDelete(task[t]) /\ UNCHANGED <<system, live, content, late>>
    BY <2>1, OnlyIts DEF Onward, store
  <2> QED BY <2>2 DEF Condemned
<1>2. CASE Done(t)
  <2>1. task'[t] = Idle /\ (\A u \in Tasks \ {t} : task'[u] = task[u])
        /\ UNCHANGED <<system, live, content, late>>
    BY <1>2, OnlyIts DEF Done, Finish, Put, store
  <2>2. ToDelete(Idle) = {}
    BY IdleFields DEF ToDelete
  <2> QED BY <2>1, <2>2 DEF Condemned
<1>3. CASE Fail(t)
  <2>1. task'[t] = Idle /\ \A u \in Tasks \ {t} : task'[u] = task[u]
    BY <1>3, OnlyIts, FailFacts
  <2>2. ToDelete(Idle) = {}
    BY IdleFields DEF ToDelete
  <2>3. \A c \in late' : c.kind = "delete" => c \in late \/ c.in \in ToDelete(task[t])
    BY <1>3, FailFacts DEF ToDelete
  <2>4. UNCHANGED <<system, live, content>>
    BY <1>3, FailFacts
  <2>5. ASSUME NEW a \in Condemned' PROVE a \in Condemned
    <3>1. CASE \E c \in late' : c.kind = "delete" /\ c.in = a
      BY <2>3, <3>1 DEF Condemned
    <3>2. CASE \E u \in Tasks : a \in ToDelete(task'[u])
      BY <2>1, <2>2, <3>2 DEF Condemned
    <3> QED BY <3>1, <3>2 DEF Condemned
  <2> QED BY <2>4, <2>5
<1> QED BY <1>1, <1>2, <1>3, StepForms DEF Plain, Chooses, Unsettles, Makes

LEMMA SafeStays ==
    ASSUME live' = live, Condemned' \subseteq Condemned
    PROVE  /\ \A a : Safe(a) => Safe(a)'
           /\ \A a, s : Named(a, s)' <=> Named(a, s)
BY DEF Safe, Named, Ids

\* What is condemned has been created.
LEMMA CondemnedKnown == ASSUME Typed, Letta PROVE Condemned \subseteq Known
<1>1. \A c \in late : c.kind = "delete" => c.in \in Known
  BY DEF Typed, StoreTyped, LateFits
<1>2. ASSUME NEW t \in Tasks PROVE ToDelete(task[t]) \subseteq Known
  <2>1. task[t].call.kind = "delete" /\ task[t].reply = "wait" => task[t].call.in \in Known
    <3>1. PICK r : r = task[t]
      OBVIOUS
    <3>2. r.call.kind = "delete" /\ r.reply = "wait" => Suits(r, r.pc, r.call.kind, r.call.in) /\ r.pc \in Calls
      BY <3>1, WaitFacts
    <3>3. r.call.kind = "delete" /\ r.reply = "wait" => r.call.in \in Known
      BY <3>2 DEF Suits, Calls, SweepKind
    <3> QED BY <3>1, <3>3
  <2>2. task[t].todo \subseteq Known
    BY Here DEF Whole
  <2>3. task[t].pc \in {"probe", "sweep", "wipe"} => task[t].result \subseteq Known
    BY Here DEF ResultFits
  <2> QED BY <2>1, <2>2, <2>3 DEF ToDelete
<1> QED BY <1>1, <1>2 DEF Condemned

LEMMA AloneKept ==
    ASSUME AloneIsAlone,
           \A u \in Tasks : \/ task'[u].pc = "idle"
                            \/ /\ task'[u].op = task[u].op /\ task'[u].s = task[u].s /\ Busy(u)
                               /\ task'[u].alone => task[u].alone
    PROVE  AloneIsAlone'
BY DEF AloneIsAlone, Busy

LEMMA StepAlone == ASSUME Typed, AloneIsAlone, NEW t \in Tasks, Step(t) PROVE AloneIsAlone'
<1>1. \A u \in Tasks : \/ task'[u].pc = "idle"
                       \/ /\ task'[u].op = task[u].op /\ task'[u].s = task[u].s /\ Busy(u)
                          /\ task'[u].alone => task[u].alone
  BY StepTasks, IdleFields DEF Same, Busy
<1> QED BY <1>1, AloneKept

LEMMA HandleAlone == ASSUME Typed, AloneIsAlone, NEW t \in Tasks, Handle(t) PROVE AloneIsAlone'
<1>1. Busy(t) /\ Same(task'[t], task[t]) /\ \A u \in Tasks \ {t} : task'[u] = task[u]
  BY HandleFacts, WaitFacts DEF Busy, Calls
<1>2. \A u \in Tasks : \/ task'[u].pc = "idle"
                       \/ /\ task'[u].op = task[u].op /\ task'[u].s = task[u].s /\ Busy(u)
                          /\ task'[u].alone => task[u].alone
  BY <1>1 DEF Same, Busy
<1> QED BY <1>2, AloneKept

\* What a beginning leaves of the others.
LEMMA BeginOthers ==
    ASSUME Typed, NEW t \in Tasks, NEW op, NEW s, Called(op, s), Begin(t, op, s), NEW u \in Tasks \ {t}
    PROVE  /\ task'[u].op = task[u].op /\ task'[u].s = task[u].s /\ task'[u].pc = task[u].pc
           /\ task'[u].then = task[u].then /\ task'[u].call = task[u].call
           /\ task'[u].reply = task[u].reply /\ task'[u].result = task[u].result
           /\ task'[u].agent = task[u].agent /\ task'[u].todo = task[u].todo
           /\ task'[u].w = task[u].w /\ task'[u].gone = task[u].gone /\ task'[u].void = task[u].void
           /\ task'[u].alone => task[u].alone
<1>1. \/ task'[u] = task[u]
      \/ Busy(u) /\ task'[u] = [task[u] EXCEPT !.alone = FALSE]
  BY BeginFacts
<1>2. CASE Busy(u) /\ task'[u] = [task[u] EXCEPT !.alone = FALSE]
  BY <1>2, Values, NotAlone DEF Busy
<1> QED BY <1>1, <1>2

\* x is operation op on s, begun in this state.
Begun(x, op, s) ==
    /\ x.op = op /\ x.s = s /\ x.pc = "begun"
    /\ x.call = NoCall /\ x.reply = "none" /\ x.result = {}
    /\ x.agent = None /\ x.todo = {}
    /\ x.w = (IF op = "write" THEN [n |-> counts.ops + 1, s |-> s] ELSE None)
    /\ x.void = (IF op = "read" THEN history.void ELSE {})
    /\ x.gone = (IF Removes(op) THEN Under(Concerns(op, s)) ELSE {})

\* And what begins.
LEMMA Beginner ==
    ASSUME Typed, NEW t \in Tasks, NEW op, NEW s, Called(op, s), Begin(t, op, s)
    PROVE  Begun(task'[t], op, s)
<1>1. LET x == task'[t] IN
      /\ x \in Coroutine /\ x.op = op /\ x.s = s /\ x.pc = "begun" /\ x.then = "done"
      /\ x.call = NoCall /\ x.reply = "none" /\ x.result = {} /\ x.agent = None /\ x.todo = {}
      /\ x.w = (IF op = "write" THEN [n |-> counts.ops + 1, s |-> s] ELSE None)
      /\ x.void = (IF op = "read" THEN history.void ELSE {})
      /\ x.gone = (IF Removes(op) THEN Under(Concerns(op, s)) ELSE {})
  BY BeginFacts
<1> QED BY <1>1 DEF Begun

LEMMA BeginnerAlone ==
    ASSUME Typed, NEW t \in Tasks, NEW op, NEW s, Called(op, s), Begin(t, op, s), task'[t].alone
    PROVE  \A u \in Tasks \ {t} :
              Busy(u) => task[u].s # s /\ {op, task[u].op} \cap {"reset_all", "close"} = {}
BY BeginFacts

LEMMA BeginAlone ==
    ASSUME Typed, AloneIsAlone, NEW t \in Tasks, NEW op, NEW s, Called(op, s), Begin(t, op, s)
    PROVE  AloneIsAlone'
<1>0. task'[t].op = op /\ task'[t].s = s
  <2>1. Begun(task'[t], op, s)
    BY Beginner
  <2> QED BY <2>1 DEF Begun
<1>1. ASSUME task'[t].alone
      PROVE  \A u \in Tasks \ {t} :
                Busy(u) => task[u].s # s /\ {op, task[u].op} \cap {"reset_all", "close"} = {}
  BY <1>1, BeginnerAlone
<1>2. \A u \in Tasks \ {t} :
         task'[u].alone =>
            ~ Busy(u) \/ (task[u].s # s /\ {op, task[u].op} \cap {"reset_all", "close"} = {})
  BY BeginFacts
<1>3. \A u \in Tasks \ {t} :
         /\ task'[u].op = task[u].op /\ task'[u].s = task[u].s /\ task'[u].pc = task[u].pc
         /\ task'[u].alone => task[u].alone
  BY BeginOthers
<1> SUFFICES ASSUME NEW u \in Tasks, NEW v \in Tasks, u # v, Busy(u)', Busy(v)', task'[u].alone
             PROVE  /\ task'[v].s # task'[u].s
                    /\ {task'[u].op, task'[v].op} \cap {"reset_all", "close"} = {}
  BY DEF AloneIsAlone
<1>4. CASE u = t
  BY <1>0, <1>1, <1>3, <1>4 DEF Busy
<1>5. CASE u # t /\ v = t
  BY <1>0, <1>2, <1>3, <1>5 DEF Busy
<1>6. CASE u # t /\ v # t
  BY <1>3, <1>6 DEF Busy, AloneIsAlone
<1> QED BY <1>4, <1>5, <1>6

\* Sessions are unsettled before anything is removed from them.
LEMMA UnsettlingKept ==
    ASSUME Typed, Unsettling, history'.steady \subseteq history.steady,
           \A u \in Tasks :
              /\ Removes(task'[u].op) => task'[u].op = task[u].op /\ task'[u].s = task[u].s
              /\ Sweeping(task'[u]) => /\ task'[u].s = task[u].s
                                       /\ Sweeping(task[u]) \/ Removes(task[u].op)
    PROVE  Unsettling'
<1>1. history.steady \subseteq Sessions /\ None \notin Sessions
  BY Values DEF Typed, History
<1>2. ASSUME NEW u \in Tasks, Removes(task'[u].op)
      PROVE  Concerns(task'[u].op, task'[u].s) \cap history'.steady = {}
  BY <1>2 DEF Unsettling
<1>3. ASSUME NEW u \in Tasks, Sweeping(task'[u]) PROVE task'[u].s \notin history'.steady
  <2>1. CASE Sweeping(task[u])
    BY <1>3, <2>1 DEF Unsettling
  <2>2. CASE Removes(task[u].op)
    <3>1. task[u].op = "reset_all" \/ Concerns(task[u].op, task[u].s) = {task[u].s}
      BY <2>2 DEF Concerns, Removes
    <3>2. task[u].op = "reset_all" => task[u].s = None
      BY Here DEF Whole
    <3> QED BY <1>1, <1>3, <2>2, <3>1, <3>2 DEF Unsettling
  <2> QED BY <1>3, <2>1, <2>2
<1>4. \A u \in Tasks : Removes(task[u].op)' <=> Removes(task'[u].op)
  BY DEF Removes
<1>5. \A u \in Tasks : Sweeping(task[u])' <=> Sweeping(task'[u])
  BY DEF Sweeping
<1>6. \A u \in Tasks : Concerns(task[u].op, task[u].s)' = Concerns(task'[u].op, task'[u].s)
  BY DEF Concerns
<1> QED BY <1>2, <1>3, <1>4, <1>5, <1>6 DEF Unsettling

\* An operation that is alone settles its session as it ends, or goes on.
LEMMA UnsettlingGrows ==
    ASSUME Typed, AloneIsAlone, Unsettling, NEW t \in Tasks, Busy(t), task[t].alone,
           NEW ss, history'.steady \subseteq history.steady \cup ss,
           ss \subseteq {task[t].s} \/ task[t].op = "reset_all",
           \A u \in Tasks \ {t} : task'[u] = task[u],
           ~ Removes(task'[t].op), ~ Sweeping(task'[t])
    PROVE  Unsettling'
<1>1. ASSUME NEW u \in Tasks, Removes(task'[u].op)
      PROVE  Concerns(task'[u].op, task'[u].s) \cap history'.steady = {}
  <2>1. u # t /\ task'[u] = task[u] /\ Removes(task[u].op)
    BY <1>1
  <2>2. Busy(u)
    BY <2>1, Here, IdleFields DEF Busy, Placed, Removes
  <2>3. task[u].s # task[t].s /\ {task[t].op, task[u].op} \cap {"reset_all", "close"} = {}
    BY <2>1, <2>2 DEF AloneIsAlone
  <2>4. Concerns(task[u].op, task[u].s) = {task[u].s} /\ ss \subseteq {task[t].s}
    BY <2>1, <2>3 DEF Concerns, Removes
  <2>5. Concerns(task[u].op, task[u].s) \cap history.steady = {}
    BY <2>1 DEF Unsettling
  <2> QED BY <2>1, <2>3, <2>4, <2>5
<1>2. ASSUME NEW u \in Tasks, Sweeping(task'[u]) PROVE task'[u].s \notin history'.steady
  <2>1. u # t /\ task'[u] = task[u] /\ Sweeping(task[u])
    BY <1>2
  <2>2. Busy(u)
    BY <2>1 DEF Busy, Sweeping, Starting
  <2>3. task[u].s # task[t].s /\ {task[t].op, task[u].op} \cap {"reset_all", "close"} = {}
    BY <2>1, <2>2 DEF AloneIsAlone
  <2> QED BY <2>1, <2>3 DEF Unsettling
<1>4. \A u \in Tasks : Removes(task[u].op)' <=> Removes(task'[u].op)
  BY DEF Removes
<1>5. \A u \in Tasks : Sweeping(task[u])' <=> Sweeping(task'[u])
  BY DEF Sweeping
<1>6. \A u \in Tasks : Concerns(task[u].op, task[u].s)' = Concerns(task'[u].op, task'[u].s)
  BY DEF Concerns
<1> QED BY <1>1, <1>2, <1>4, <1>5, <1>6 DEF Unsettling

\* The fields of the history that HistoryOf names.
LEMMA StepSteady ==
    ASSUME Typed, NEW h, history.steady \in SUBSET Sessions, NEW ss
    PROVE  /\ HistoryOf(history) => history'.steady = history.steady
           /\ HistoryOf([history EXCEPT !.steady = history.steady \cup ss])
              => history'.steady = history.steady \cup ss
           /\ HistoryOf(Unsettled(history, ss)) => history'.steady = history.steady \ ss
BY DEF HistoryOf, Unsettled, Typed, History

LEMMA StepUnsettling ==
    ASSUME Typed, AloneIsAlone, Unsettling, NEW t \in Tasks, Step(t) PROVE Unsettling'
<1>0. /\ Busy(t) /\ \A u \in Tasks \ {t} : task'[u] = task[u]
      /\ history.steady \in SUBSET Sessions
  BY StepTasks DEF Typed, History
<1>1. CASE Plain(t)
  <2>1. PICK x : /\ Onward(t, x) /\ HistoryOf(history)
                 /\ Sweeping(x) => Sweeping(task[t]) \/ Removes(task[t].op)
    BY <1>1 DEF Plain
  <2>2. task'[t] = x /\ Same(x, task[t])
    BY <2>1, OnlyIts DEF Onward
  <2>3. history'.steady = history.steady
    BY <1>0, <2>1, StepSteady
  <2> QED BY <1>0, <2>1, <2>2, <2>3, UnsettlingKept DEF Same
<1>2. CASE Chooses(t)
  <2>1. PICK x : /\ Onward(t, x) /\ task[t].op \in {"write", "read"} /\ ~ Sweeping(x)
                 /\ \/ HistoryOf(history)
                    \/ /\ task[t].alone
                       /\ HistoryOf([history EXCEPT !.steady = history.steady \cup {task[t].s}])
    BY <1>2 DEF Chooses
  <2>2. task'[t] = x /\ Same(x, task[t])
    BY <2>1, OnlyIts DEF Onward
  <2>3. ~ Removes(x.op)
    BY <2>1, <2>2 DEF Same, Removes
  <2>4. CASE HistoryOf(history)
    <3>1. history'.steady = history.steady
      BY <1>0, <2>4, StepSteady
    <3> QED BY <1>0, <2>1, <2>2, <2>3, <3>1, UnsettlingKept
  <2>5. CASE task[t].alone /\ HistoryOf([history EXCEPT !.steady = history.steady \cup {task[t].s}])
    <3>1. history'.steady = history.steady \cup {task[t].s}
      BY <1>0, <2>5, StepSteady
    <3> QED BY <1>0, <2>1, <2>2, <2>3, <2>5, <3>1, UnsettlingGrows
  <2> QED BY <2>1, <2>4, <2>5
<1>3. CASE Unsettles(t)
  <2>1. PICK x : Onward(t, x) /\ task[t].op \in {"write", "read"} /\ HistoryOf(Unsettled(history, {task[t].s}))
    BY <1>3 DEF Unsettles
  <2>2. task'[t] = x /\ Same(x, task[t])
    BY <2>1, OnlyIts DEF Onward
  <2>3. history'.steady = history.steady \ {task[t].s} /\ x.s = task[t].s /\ ~ Removes(x.op)
    BY <1>0, <2>1, <2>2, StepSteady DEF Same, Removes
  <2>4. \A u \in Tasks : Removes(task'[u].op) => Removes(task[u].op) /\ task'[u] = task[u]
    BY <1>0, <2>2, <2>3
  <2>5. \A u \in Tasks : Sweeping(task'[u]) => task'[u].s = task[t].s \/ (Sweeping(task[u]) /\ task'[u] = task[u])
    BY <1>0, <2>2, <2>3
  <2>6. /\ \A u \in Tasks : Removes(task[u].op)' <=> Removes(task'[u].op)
        /\ \A u \in Tasks : Sweeping(task[u])' <=> Sweeping(task'[u])
        /\ \A u \in Tasks : Concerns(task[u].op, task[u].s)' = Concerns(task'[u].op, task'[u].s)
    BY DEF Removes, Sweeping, Concerns
  <2> QED BY <2>3, <2>4, <2>5, <2>6 DEF Unsettling
<1>4. CASE Makes(t)
  <2>1. PICK x : Onward(t, x) /\ At(t, "create") /\ HistoryOf(history)
    BY <1>4 DEF Makes
  <2>2. task'[t] = x /\ Same(x, task[t])
    BY <2>1, OnlyIts DEF Onward
  <2>3. history'.steady = history.steady /\ Sweeping(task[t])
    BY <1>0, <2>1, StepSteady DEF Sweeping, At
  <2> QED BY <1>0, <2>2, <2>3, UnsettlingKept DEF Same
<1>5. CASE Done(t)
  <2>1. task'[t] = Idle /\ history' = Ended(t, task[t], TRUE) /\ ~ Removes(task'[t].op) /\ ~ Sweeping(task'[t])
    BY <1>5, OnlyIts, IdleFields DEF Done, Finish, Put, Removes, Sweeping, Starting
  <2>2. history'.steady = (IF TRUE /\ Removes(task[t].op) /\ task[t].alone
                           THEN history.steady \cup Concerns(task[t].op, task[t].s) ELSE history.steady)
    <3>1. Whole(task[t]) /\ task[t].op # "none"
      BY <1>0, Here DEF Placed, Busy
    <3> QED BY <2>1, <3>1, EndedFacts
  <2>3. CASE Removes(task[t].op) /\ task[t].alone
    <3>0. PICK ss : ss = Concerns(task[t].op, task[t].s)
      OBVIOUS
    <3>1. ss \subseteq {task[t].s} \/ task[t].op = "reset_all"
      BY <3>0 DEF Concerns
    <3>2. history'.steady \subseteq history.steady \cup ss
      BY <2>2, <2>3, <3>0
    <3> QED BY <1>0, <2>1, <2>3, <3>1, <3>2, UnsettlingGrows
  <2>4. CASE ~ (Removes(task[t].op) /\ task[t].alone)
    <3>1. history'.steady = history.steady
      BY <2>2, <2>4
    <3> QED BY <1>0, <2>1, <3>1, UnsettlingKept
  <2> QED BY <2>3, <2>4
<1>6. CASE Fail(t)
  <2>1. task'[t] = Idle /\ history' = Ended(t, task[t], FALSE) /\ ~ Removes(task'[t].op) /\ ~ Sweeping(task'[t])
    BY <1>6, OnlyIts, FailFacts, IdleFields DEF Removes, Sweeping, Starting
  <2>2. Whole(task[t]) /\ task[t].op # "none"
    BY <1>0, Here DEF Placed, Busy
  <2>3. history'.steady = history.steady
    BY <2>1, <2>2, EndedFacts
  <2> QED BY <1>0, <2>1, <2>3, UnsettlingKept
<1> QED BY <1>1, <1>2, <1>3, <1>4, <1>5, <1>6, StepForms

LEMMA HandleUnsettling ==
    ASSUME Typed, Unsettling, NEW t \in Tasks, Handle(t) PROVE Unsettling'
<1>1. /\ Same(task'[t], task[t]) /\ task'[t].pc = task[t].pc /\ task'[t].then = task[t].then
      /\ history' = history /\ \A u \in Tasks \ {t} : task'[u] = task[u]
  BY HandleFacts
<1>2. Sweeping(task'[t]) <=> Sweeping(task[t])
  BY <1>1 DEF Sweeping
<1> QED BY <1>1, <1>2, UnsettlingKept DEF Same

LEMMA BeginUnsettling ==
    ASSUME Typed, Unsettling, NEW t \in Tasks, NEW op, NEW s, Called(op, s), Begin(t, op, s)
    PROVE  Unsettling'
<1>1. /\ task'[t].op = op /\ task'[t].s = s /\ task'[t].pc = "begun"
      /\ history' = IF Removes(op) THEN Unsettled(history, Concerns(op, s)) ELSE history
  <2>1. Begun(task'[t], op, s)
    BY Beginner
  <2>2. history' = IF Removes(op) THEN Unsettled(history, Concerns(op, s)) ELSE history
    BY BeginFacts
  <2> QED BY <2>1, <2>2 DEF Begun
<1>2. history'.steady = (IF Removes(op) THEN history.steady \ Concerns(op, s) ELSE history.steady)
  BY <1>1 DEF Unsettled, Typed, History
<1>3. \A u \in Tasks \ {t} :
         task'[u].op = task[u].op /\ task'[u].s = task[u].s /\ task'[u].pc = task[u].pc
         /\ task'[u].then = task[u].then
  BY BeginOthers
<1>4. /\ \A u \in Tasks : Removes(task[u].op)' <=> Removes(task'[u].op)
      /\ \A u \in Tasks : Sweeping(task[u])' <=> Sweeping(task'[u])
      /\ \A u \in Tasks : Concerns(task[u].op, task[u].s)' = Concerns(task'[u].op, task'[u].s)
  BY DEF Removes, Sweeping, Concerns
<1>5. ASSUME NEW u \in Tasks, Removes(task'[u].op)
      PROVE  Concerns(task'[u].op, task'[u].s) \cap history'.steady = {}
  <2>1. CASE u = t
    BY <1>1, <1>2, <1>5, <2>1
  <2>2. CASE u # t
    BY <1>2, <1>3, <1>5, <2>2 DEF Unsettling
  <2> QED BY <2>1, <2>2
<1>6. ASSUME NEW u \in Tasks, Sweeping(task'[u]) PROVE task'[u].s \notin history'.steady
  <2>1. u # t
    BY <1>1, <1>6 DEF Sweeping, Starting
  <2>2. Sweeping(task[u])
    BY <1>3, <1>6, <2>1 DEF Sweeping
  <2> QED BY <1>2, <1>3, <2>1, <2>2 DEF Unsettling
<1> QED BY <1>4, <1>5, <1>6 DEF Unsettling

\* Who is at work on the agent of a session is in the middle of a sweep.
LEMMA AtWork ==
    ASSUME Typed, Letta, NEW t \in Tasks, At(t, "create") \/ At(t, "verify") \/ At(t, "sweep")
    PROVE  /\ task[t].s \in Sessions /\ Sweeping(task[t]) /\ Busy(t)
           /\ At(t, "create") => task[t].result \subseteq Known
<1>1. Goes(task[t], "sweep") \/ (Mem0 /\ task[t].op = "reset")
  BY Here DEF CallFits, Suits, Calls, At
<1>2. task[t].op \in {"reset", "write", "read"}
  BY <1>1 DEF Goes
<1> QED BY <1>2, Here DEF Whole, ResultFits, At, Busy, Sweeping

\* A step that leaves the memory system alone and condemns nothing.
LEMMA AgentsStep ==
    ASSUME Typed, AgentsSafe, NEW t \in Tasks, UNCHANGED <<system, live>>, Condemned' \subseteq Condemned,
           task'[t].result = {}, \A u \in Tasks \ {t} : task'[u] = task[u],
           Letta => \A s \in Sessions :
                       agents'[s] # None => agents'[s] = agents[s] \/ Named(agents'[s], s),
           Letta => \A s \in history'.steady :
                       agents'[s] # None => \/ agents'[s] = agents[s] /\ s \in history.steady
                                            \/ Safe(agents'[s]),
           Letta => \A u \in Tasks \ {t} :
                       At(u, "verify") /\ task[u].alone => agents'[task[u].s] = agents[task[u].s],
           Letta => (task'[t].pc = "verify" /\ task'[t].alone =>
                       agents'[task'[t].s] # None /\ Safe(agents'[task'[t].s]))
    PROVE  AgentsSafe'
<1>1. /\ \A a : Safe(a) => (a \in Ids(live))' /\ a \notin Condemned'
      /\ \A a, s : Named(a, s) => \A x \in live' : x.id = a => x.name = s
  BY DEF Safe, Named, Ids
<1> SUFFICES ASSUME Letta PROVE AgentsSafe'
  BY DEF AgentsSafe, Letta
<1>2. \A s \in Sessions : agents'[s] # None => \A x \in live' : x.id = agents'[s] => x.name = s
  BY <1>1 DEF AgentsSafe
<1>3. \A s \in history'.steady : agents'[s] # None => (agents'[s] \in Ids(live)' /\ agents'[s] \notin Condemned')
  BY <1>1 DEF AgentsSafe, Ids
<1>4. \A u \in Tasks : task'[u].pc = "create" => \A a \in task'[u].result :
          \A x \in live' : x.id = a => x.name = task'[u].s
  BY <1>1 DEF AgentsSafe, At
<1>5. \A u \in Tasks : task'[u].pc = "create" /\ task'[u].alone => \A a \in task'[u].result :
          a \in Ids(live)' /\ a \notin Condemned'
  BY <1>1 DEF AgentsSafe, At, Ids
<1>6. \A u \in Tasks : task'[u].pc = "verify" /\ task'[u].alone =>
          agents'[task'[u].s] # None /\ agents'[task'[u].s] \in Ids(live)' /\ agents'[task'[u].s] \notin Condemned'
  <2> TAKE u \in Tasks
  <2> HAVE task'[u].pc = "verify" /\ task'[u].alone
  <2>1. CASE u = t
    BY <1>1, <2>1 DEF Ids
  <2>2. CASE u # t
    <3>1. agents'[task'[u].s] = agents[task[u].s] /\ agents[task[u].s] # None /\ Safe(agents[task[u].s])
      BY <2>2 DEF AgentsSafe, At
    <3> QED BY <1>1, <3>1 DEF Ids
  <2> QED BY <2>1, <2>2
<1> QED BY <1>2, <1>3, <1>4, <1>5, <1>6 DEF AgentsSafe, Named, Safe, At

\* What a step on does for the agents.
LEMMA OnwardAgents ==
    ASSUME Typed, AgentsSafe, NEW t \in Tasks, Step(t), NEW x, Onward(t, x), agents' = agents,
           Letta => x.pc # "verify",
           Letta => \A s \in history'.steady :
                       agents[s] # None => s \in history.steady \/ Safe(agents[s])
    PROVE  AgentsSafe'
<1>1. /\ task'[t] = x /\ x.result = {} /\ (\A u \in Tasks \ {t} : task'[u] = task[u])
      /\ UNCHANGED <<system, live>> /\ Condemned' \subseteq Condemned
  BY OnlyIts, StepCondemns DEF Onward
<1> QED BY <1>1, AgentsStep

LEMMA StepAgents ==
    ASSUME Typed, AloneIsAlone, Unsettling, AgentsSafe, NEW t \in Tasks, Step(t) PROVE AgentsSafe'
<1>0. /\ Busy(t) /\ \A u \in Tasks \ {t} : task'[u] = task[u]
      /\ history.steady \in SUBSET Sessions
      /\ UNCHANGED <<system, live>> /\ Condemned' \subseteq Condemned
      /\ agents \in [Sessions -> Known \cup {None}] /\ None \notin Known
  BY StepTasks, StepCondemns, Here, Values DEF Typed, History
<1>1. CASE Plain(t)
  <2>1. PICK x : Onward(t, x) /\ HistoryOf(history) /\ agents' = agents /\ (x.pc = "verify" => ~ Letta)
    BY <1>1 DEF Plain
  <2>2. history'.steady = history.steady
    BY <1>0, <2>1, StepSteady
  <2> QED BY <2>1, <2>2, OnwardAgents
<1>2. CASE Chooses(t)
  <2>1. PICK x : /\ Onward(t, x) /\ ~ Sweeping(x) /\ agents' = agents
                 /\ \/ HistoryOf(history)
                    \/ /\ task[t].alone /\ At(t, "verify") /\ Letta
                       /\ HistoryOf([history EXCEPT !.steady = history.steady \cup {task[t].s}])
    BY <1>2 DEF Chooses
  <2>2. x.pc # "verify"
    BY <2>1 DEF Sweeping
  <2>3. CASE HistoryOf(history)
    <3>1. history'.steady = history.steady
      BY <1>0, <2>3, StepSteady
    <3> QED BY <2>1, <2>2, <3>1, OnwardAgents
  <2>4. CASE /\ task[t].alone /\ At(t, "verify") /\ Letta
             /\ HistoryOf([history EXCEPT !.steady = history.steady \cup {task[t].s}])
    <3>1. history'.steady = history.steady \cup {task[t].s}
      BY <1>0, <2>4, StepSteady
    <3>2. Safe(agents[task[t].s])
      BY <2>4 DEF AgentsSafe
    <3> QED BY <2>1, <2>2, <3>1, <3>2, OnwardAgents
  <2> QED BY <2>1, <2>3, <2>4
<1>3. CASE Unsettles(t)
  <2>1. PICK x : /\ Onward(t, x) /\ x.pc # "verify" /\ agents' = agents
                 /\ HistoryOf(Unsettled(history, {task[t].s}))
    BY <1>3 DEF Unsettles
  <2>2. history'.steady = history.steady \ {task[t].s}
    BY <1>0, <2>1, StepSteady
  <2> QED BY <2>1, <2>2, OnwardAgents
<1>4. CASE Makes(t)
  <2>1. PICK x : /\ Onward(t, x) /\ At(t, "create") /\ HistoryOf(history) /\ Letta
                 /\ task[t].s \in Sessions
                 /\ \E a \in task[t].result : agents' = [agents EXCEPT ![task[t].s] = a]
    BY <1>4 DEF Makes
  <2>2. PICK a \in task[t].result : agents' = [agents EXCEPT ![task[t].s] = a]
    BY <2>1
  <2>3. task'[t] = x /\ Same(x, task[t]) /\ x.result = {}
    BY <2>1, OnlyIts DEF Onward
  <2>4. history'.steady = history.steady /\ task[t].s \notin history.steady
    BY <1>0, <2>1, StepSteady, AtWork DEF Unsettling
  <2>5. agents'[task[t].s] = a /\ \A s \in Sessions \ {task[t].s} : agents'[s] = agents[s]
    BY <1>0, <2>1, <2>2
  <2>6. Named(a, task[t].s) /\ (task[t].alone => Safe(a)) /\ a # None
    BY <1>0, <2>1, AtWork DEF AgentsSafe
  <2>7. ASSUME NEW u \in Tasks \ {t}, At(u, "verify"), task[u].alone
        PROVE  agents'[task[u].s] = agents[task[u].s]
    <3>1. task[u].s \in Sessions /\ Busy(u)
      BY <2>1, <2>7, AtWork
    <3>2. task[t].s # task[u].s
      BY <1>0, <2>7, <3>1 DEF AloneIsAlone
    <3> QED BY <2>5, <3>1, <3>2
  <2>8. \A s \in Sessions : agents'[s] # None => agents'[s] = agents[s] \/ Named(agents'[s], s)
    BY <2>5, <2>6
  <2>9. \A s \in history'.steady : agents'[s] # None => agents'[s] = agents[s] /\ s \in history.steady
    BY <1>0, <2>4, <2>5
  <2>10. task'[t].alone => agents'[task'[t].s] # None /\ Safe(agents'[task'[t].s])
    BY <2>3, <2>5, <2>6 DEF Same
  <2> QED BY <1>0, <2>3, <2>7, <2>8, <2>9, <2>10, AgentsStep
<1>5. CASE Done(t) \/ Fail(t)
  <2>1. task'[t] = Idle /\ task'[t].result = {} /\ task'[t].pc # "verify"
    BY <1>5, OnlyIts, FailFacts, IdleFields DEF Done, Finish, Put
  <2>2. Whole(task[t]) /\ task[t].op # "none"
    BY <1>0, Here DEF Placed, Busy
  <2>3. history'.steady \subseteq (IF Done(t) /\ Removes(task[t].op) /\ task[t].alone
                                   THEN history.steady \cup Concerns(task[t].op, task[t].s)
                                   ELSE history.steady)
    <3>1. CASE Done(t)
      <4>1. history' = Ended(t, task[t], TRUE)
        BY <3>1 DEF Done, Finish
      <4>2. history'.steady = (IF TRUE /\ Removes(task[t].op) /\ task[t].alone
                               THEN history.steady \cup Concerns(task[t].op, task[t].s)
                               ELSE history.steady)
        BY <2>2, <4>1, EndedFacts
      <4> QED BY <3>1, <4>2
    <3>2. CASE Fail(t)
      <4>1. history' = Ended(t, task[t], FALSE)
        BY <3>2, FailFacts
      <4>2. history'.steady = history.steady
        BY <2>2, <4>1, EndedFacts
      <4> QED BY <4>2
    <3> QED BY <1>5, <3>1, <3>2
  <2>4. CASE agents' = agents /\ (history'.steady \subseteq history.steady \/ ~ Letta)
    BY <1>0, <2>1, <2>4, AgentsStep
  <2>5. CASE Done(t) /\ agents' = agents /\ Letta /\ task[t].op = "reset" /\ At(t, "verify")
    <3>1. history'.steady \subseteq history.steady \cup {task[t].s}
      BY <2>3, <2>5 DEF Concerns
    <3>2. history'.steady \subseteq history.steady \/ Safe(agents[task[t].s])
      BY <2>3, <2>5 DEF AgentsSafe
    <3>3. \A s \in history'.steady : s \in history.steady \/ Safe(agents[s])
      BY <3>1, <3>2
    <3> QED BY <1>0, <2>1, <2>5, <3>3, AgentsStep
  <2>6. CASE Done(t) /\ agents' = Cleared /\ Letta /\ task[t].op = "reset_all"
    <3>1. \A s \in Sessions : agents'[s] = None
      BY <2>6 DEF Cleared
    <3>2. history'.steady \subseteq Sessions
      <4>1. Concerns(task[t].op, task[t].s) = Sessions
        BY <2>6 DEF Concerns
      <4> QED BY <1>0, <2>3, <4>1
    <3>3. \A u \in Tasks \ {t} : ~ (At(u, "verify") /\ task[u].alone)
      BY <1>0, <2>6, AtWork DEF AloneIsAlone
    <3> QED BY <1>0, <2>1, <2>6, <3>1, <3>2, <3>3, AgentsStep
  <2>7. \/ agents' = agents /\ (history'.steady \subseteq history.steady \/ ~ Letta)
        \/ Done(t) /\ agents' = agents /\ Letta /\ task[t].op = "reset" /\ At(t, "verify")
        \/ Done(t) /\ agents' = Cleared /\ Letta /\ task[t].op = "reset_all"
    <3>1. CASE Done(t)
      BY <2>3, <3>1 DEF Done
    <3>2. CASE Fail(t)
      BY <2>3, <3>2, FailFacts DEF Done, Finish
    <3> QED BY <1>5, <3>1, <3>2
  <2> QED BY <2>4, <2>5, <2>6, <2>7
<1> QED BY <1>1, <1>2, <1>3, <1>4, <1>5, StepForms

\* Agent a is the one of a settled session s, or of one that an operation alone
\* makes it for.
Protected(a, s) ==
    \/ s \in history.steady /\ a = agents[s]
    \/ \E u \in Tasks : /\ task[u].alone /\ s = task[u].s
                        /\ \/ At(u, "create") /\ a \in task[u].result
                           \/ At(u, "verify") /\ a = agents[s]

LEMMA AgentsType ==
    ASSUME Typed
    PROVE  /\ agents \in [Sessions -> Known \cup {None}] /\ history.steady \subseteq Sessions
           /\ None \notin Known /\ None \notin Sessions
<1>1. None \notin Known /\ None \notin Sessions
  BY Values
<1> QED BY <1>1 DEF Typed, AdapterTyped, History

LEMMA ProtectedFacts ==
    ASSUME Typed, AgentsSafe, Letta, NEW a, a # None, NEW s, Protected(a, s)
    PROVE  Safe(a) /\ Named(a, s) /\ a \in Known /\ s \in Sessions
<1>1. history.steady \subseteq Sessions /\ agents \in [Sessions -> Known \cup {None}]
  BY AgentsType
<1>2. CASE s \in history.steady /\ a = agents[s]
  BY <1>1, <1>2 DEF AgentsSafe
<1>3. ASSUME NEW u \in Tasks, task[u].alone, s = task[u].s,
             \/ At(u, "create") /\ a \in task[u].result
             \/ At(u, "verify") /\ a = agents[s]
      PROVE  Safe(a) /\ Named(a, s) /\ a \in Known /\ s \in Sessions
  <2>1. s \in Sessions /\ (At(u, "create") => task[u].result \subseteq Known)
    BY <1>3, AtWork
  <2> QED BY <1>1, <1>3, <2>1 DEF AgentsSafe
<1> QED BY <1>2, <1>3 DEF Protected

\* What the memory system does leaves protected agents alone.
LEMMA AgentsKept ==
    ASSUME Typed, AgentsSafe, UNCHANGED <<system, agents, history>>,
           \A x \in live' : x \in live \/ x.id \notin Known,
           Letta => \A a, s : a # None /\ Protected(a, s) => Safe(a)',
           \A u \in Tasks : /\ task'[u].pc = task[u].pc /\ task'[u].s = task[u].s
                            /\ task'[u].alone = task[u].alone,
           Letta => \A u \in Tasks : At(u, "create") =>
              \/ task'[u].result \subseteq task[u].result
              \/ \A a \in task'[u].result : Named(a, task[u].s)' /\ Safe(a)'
    PROVE  AgentsSafe'
<1> SUFFICES ASSUME Letta PROVE AgentsSafe'
  BY DEF AgentsSafe, Letta
<1>0. agents \in [Sessions -> Known \cup {None}] /\ history.steady \subseteq Sessions /\ None \notin Known
  BY AgentsType
<1>1. ASSUME NEW s \in Sessions, agents'[s] # None PROVE Named(agents[s], s)'
  BY <1>0, <1>1 DEF AgentsSafe, Named
<1>2. ASSUME NEW s \in history'.steady, agents'[s] # None PROVE Safe(agents[s])'
  <2>1. Protected(agents[s], s)
    BY <1>2 DEF Protected
  <2> QED BY <1>2, <2>1
<1>3. ASSUME NEW u \in Tasks, task'[u].pc = "create", NEW a \in task'[u].result
      PROVE  Named(a, task[u].s)'
  <2>1. At(u, "create") /\ task'[u].s = task[u].s
    BY <1>3 DEF At
  <2>2. CASE a \in task[u].result
    <3>1. a \in Known /\ Named(a, task[u].s)
      BY <2>1, <2>2, AtWork DEF AgentsSafe
    <3> QED BY <2>1, <3>1 DEF Named
  <2>3. CASE \A b \in task'[u].result : Named(b, task[u].s)' /\ Safe(b)'
    BY <1>3, <2>3
  <2> QED BY <1>3, <2>1, <2>2, <2>3
<1>4. ASSUME NEW u \in Tasks, task'[u].pc = "create", task'[u].alone, NEW a \in task'[u].result
      PROVE  Safe(a)'
  <2>1. At(u, "create") /\ task[u].alone
    BY <1>4 DEF At
  <2>2. CASE a \in task[u].result
    <3>1. a \in Known
      BY <2>1, <2>2, AtWork
    <3>2. Protected(a, task[u].s)
      BY <2>1, <2>2 DEF Protected
    <3> QED BY <1>0, <3>1, <3>2
  <2>3. CASE \A b \in task'[u].result : Named(b, task[u].s)' /\ Safe(b)'
    BY <1>4, <2>3
  <2> QED BY <1>4, <2>1, <2>2, <2>3
<1>5. ASSUME NEW u \in Tasks, task'[u].pc = "verify", task'[u].alone
      PROVE  agents[task[u].s] # None /\ Safe(agents[task[u].s])'
  <2>1. At(u, "verify") /\ task[u].alone
    BY <1>5 DEF At
  <2>2. agents[task[u].s] # None
    BY <2>1 DEF AgentsSafe
  <2>3. Protected(agents[task[u].s], task[u].s)
    BY <2>1 DEF Protected
  <2> QED BY <2>2, <2>3
<1> QED BY <1>1, <1>2, <1>3, <1>4, <1>5 DEF AgentsSafe, At

\* Agents are lost by deletion alone.
LEMMA EffectKeeps ==
    ASSUME Typed, NEW c \in Call, Effect(c)
    PROVE  /\ \A a \in Ids(live) : (c.kind = "delete" => a # c.in) => a \in Ids(live')
           /\ \A x \in live' : x \in live \/ (x.id = counts.agents + 1 /\ x.name = c.in)
           /\ c.kind = "create" => counts.agents + 1 \in Ids(live')
           /\ counts.agents + 1 \notin Known
<1>1. counts.agents + 1 \notin Known
  BY Values DEF Known
<1>2. CASE c.kind = "create"
  <2>1. PICK x : x = [id |-> counts.agents + 1, name |-> c.in]
    OBVIOUS
  <2>2. live' = live \cup {x} /\ x.id = counts.agents + 1 /\ x.name = c.in
    BY <1>2, <2>1, EffectFacts
  <2> QED BY <1>1, <1>2, <2>2 DEF Ids
<1>3. CASE c.kind = "delete"
  <2>1. live' = {a \in live : a.id # c.in}
    BY <1>3, EffectFacts
  <2> QED BY <1>1, <1>3, <2>1 DEF Ids
<1>4. CASE c.kind \notin {"create", "delete"}
  BY <1>1, <1>4, EffectFacts DEF Ids
<1> QED BY <1>2, <1>3, <1>4

\* What an answer condemns is what the operation is going to delete.
LEMMA HandleCondemns ==
    ASSUME Typed, NEW t \in Tasks, Handle(t)
    PROVE  Condemned' \subseteq Condemned \cup
              (IF task'[t].reply = "ok" /\ task[t].pc \in {"probe", "sweep", "wipe"}
               THEN Result(task[t].call) ELSE {})
<1>1. /\ late' = late /\ (\A u \in Tasks \ {t} : task'[u] = task[u])
      /\ task'[t].todo = task[t].todo /\ task'[t].pc = task[t].pc
      /\ \/ task'[t].reply = "ok" /\ task'[t].result = Result(task[t].call)
         \/ task'[t].reply = "error" /\ task'[t].result = {}
  BY HandleFacts
<1>2. ToDelete(task'[t]) \subseteq ToDelete(task[t]) \cup
         (IF task'[t].reply = "ok" /\ task[t].pc \in {"probe", "sweep", "wipe"}
          THEN Result(task[t].call) ELSE {})
  BY <1>1 DEF ToDelete
<1>3. \A u \in Tasks : ToDelete(task'[u]) \subseteq Condemned \cup ToDelete(task'[t])
  BY <1>1 DEF Condemned
<1>4. ToDelete(task[t]) \subseteq Condemned
  BY DEF Condemned
<1>5. Condemned' = {c.in : c \in {d \in late : d.kind = "delete"}} \cup UNION {ToDelete(task'[u]) : u \in Tasks}
  BY <1>1 DEF Condemned, ToDelete
<1>6. {c.in : c \in {d \in late : d.kind = "delete"}} \subseteq Condemned
  BY DEF Condemned
<1> QED BY <1>2, <1>3, <1>4, <1>5, <1>6

\* A reset does not list an agent that is protected.
LEMMA NotListed ==
    ASSUME Typed, AloneIsAlone, Unsettling, AgentsSafe, Letta, NEW t \in Tasks, task[t].reply = "wait",
           task[t].pc \in {"probe", "sweep", "wipe"}, NEW a, a # None, NEW s, Protected(a, s)
    PROVE  a \notin Result(task[t].call)
<1>0. /\ Safe(a) /\ Named(a, s) /\ a \in Known /\ s \in Sessions
  BY ProtectedFacts
<1>1. PICK r : r = task[t]
  OBVIOUS
<1>2. PICK c : c = task[t].call
  OBVIOUS
<1>3. /\ Suits(r, r.pc, c.kind, c.in) /\ c \in Call /\ Busy(t)
  BY <1>1, <1>2, WaitFacts DEF Busy
<1>4. CASE r.pc = "probe"
  <2>1. Result(c) = {counts.agents + 1}
    BY <1>3, <1>4, ResultTyped DEF Suits
  <2> QED BY <1>0, <1>2, <2>1, Values DEF Known
<1>5. CASE r.pc = "sweep"
  <2>1. c.kind = "list" /\ c.in = r.s
    BY <1>3, <1>5 DEF Suits, SweepKind
  <2>2. Result(c) = Ids({x \in live : x.name = r.s})
    BY <2>1 DEF Result
  <2>3. a \in Result(c) => s = r.s
    BY <1>0, <2>2 DEF Ids, Named
  <2>4. s # r.s
    <3>1. r.s \notin history.steady
      BY <1>1, <1>5 DEF Unsettling, Sweeping
    <3>2. ASSUME NEW u \in Tasks, task[u].alone, s = task[u].s, At(u, "create") \/ At(u, "verify")
          PROVE  s # r.s
      <4>1. u # t /\ Busy(u)
        BY <1>1, <1>5, <3>2 DEF At, Busy
      <4> QED BY <1>1, <1>3, <3>2, <4>1 DEF AloneIsAlone
    <3> QED BY <3>1, <3>2 DEF Protected
  <2> QED BY <1>2, <2>3, <2>4
<1>6. CASE r.pc = "wipe"
  <2>1. task[t].op = "reset_all"
    BY <1>1, <1>3, <1>6 DEF Suits
  <2>2. history.steady = {}
    <3>1. Concerns(task[t].op, task[t].s) = Sessions
      BY <2>1 DEF Concerns
    <3>2. Removes(task[t].op)
      BY <2>1 DEF Removes
    <3> QED BY <3>1, <3>2, AgentsType DEF Unsettling
  <2>3. ASSUME NEW u \in Tasks, task[u].alone, At(u, "create") \/ At(u, "verify") PROVE FALSE
    <3>1. u # t /\ Busy(u)
      BY <1>1, <1>6, <2>3 DEF At, Busy
    <3> QED BY <1>3, <2>1, <2>3, <3>1 DEF AloneIsAlone
  <2> QED BY <2>2, <2>3 DEF Protected
<1> QED BY <1>1, <1>4, <1>5, <1>6

LEMMA HandleAgents ==
    ASSUME Typed, AloneIsAlone, Unsettling, AgentsSafe, NEW t \in Tasks, Handle(t)
    PROVE  AgentsSafe'
<1>0. PICK c : c = task[t].call
  OBVIOUS
<1>1. /\ task[t].reply = "wait" /\ UNCHANGED <<system, agents, history>>
      /\ (\A u \in Tasks \ {t} : task'[u] = task[u])
      /\ Same(task'[t], task[t]) /\ task'[t].pc = task[t].pc /\ task[t].result = {} /\ c \in Call
      /\ \/ task'[t].reply = "ok" /\ task'[t].result = Result(c) /\ Effect(c)
         \/ task'[t].reply = "error" /\ task'[t].result = {} /\ UNCHANGED <<live, content, counts>>
  BY <1>0, HandleFacts, WaitFacts DEF adapter
<1>2. \A u \in Tasks : /\ task'[u].pc = task[u].pc /\ task'[u].s = task[u].s
                       /\ task'[u].alone = task[u].alone
  BY <1>1 DEF Same
<1>3. CASE task'[t].reply = "error" /\ task'[t].result = {} /\ UNCHANGED <<live, content, counts>>
  <2>1. Condemned' \subseteq Condemned
    BY <1>3, HandleCondemns
  <2>2. Letta => \A a, s : a # None /\ Protected(a, s) => Safe(a)'
    BY <1>3, <2>1, ProtectedFacts, SafeStays
  <2>3. \A u \in Tasks : task'[u].result \subseteq task[u].result
    BY <1>1, <1>3
  <2> QED BY <1>1, <1>2, <1>3, <2>2, <2>3, AgentsKept
<1>4. CASE task'[t].reply = "ok" /\ task'[t].result = Result(c) /\ Effect(c)
  <2>1. /\ \A a \in Ids(live) : (c.kind = "delete" => a # c.in) => a \in Ids(live')
        /\ \A x \in live' : x \in live \/ (x.id = counts.agents + 1 /\ x.name = c.in)
        /\ c.kind = "create" => counts.agents + 1 \in Ids(live')
        /\ counts.agents + 1 \notin Known
    BY <1>1, <1>4, EffectKeeps
  <2>2. Condemned' \subseteq Condemned \cup (IF task[t].pc \in {"probe", "sweep", "wipe"} THEN Result(c) ELSE {})
    BY <1>0, <1>4, HandleCondemns
  <2>3. c.kind = "delete" => c.in \in Condemned
    BY <1>0, <1>1 DEF Condemned, ToDelete
  <2>4. ASSUME Letta, NEW a, a # None, NEW s, Protected(a, s) PROVE Safe(a)'
    <3>1. Safe(a)
      BY <2>4, ProtectedFacts
    <3>2. a \in Ids(live')
      BY <2>1, <2>3, <3>1 DEF Safe
    <3>3. task[t].pc \in {"probe", "sweep", "wipe"} => a \notin Result(c)
      BY <1>0, <1>1, <2>4, NotListed
    <3>4. a \notin Condemned'
      BY <2>2, <3>1, <3>3 DEF Safe
    <3> QED BY <3>2, <3>4 DEF Safe, Ids
  <2>5. ASSUME Letta, At(t, "create"), NEW a \in task'[t].result
        PROVE  Named(a, task[t].s)' /\ Safe(a)'
    <3>1. PICK r : r = task[t]
      OBVIOUS
    <3>2. Suits(r, r.pc, c.kind, c.in) /\ r.pc = "create"
      BY <1>0, <1>1, <2>5, <3>1, WaitFacts DEF At
    <3>3. c.kind = "create" /\ c.in = r.s
      BY <3>2 DEF Suits
    <3>4. a = counts.agents + 1
      BY <1>1, <1>4, <2>5, <3>3, ResultTyped
    <3>5. \A x \in live : x.id # a
      BY <2>1, <3>4 DEF Typed, StoreTyped
    <3>6. \A x \in live' : x.id = a => x.name = task[t].s
      BY <2>1, <3>1, <3>3, <3>5
    <3>7. a \notin Condemned'
      BY <2>1, <2>2, <2>5, <3>1, <3>2, <3>4, CondemnedKnown
    <3>8. task'[t].s = task[t].s
      BY <1>2
    <3> QED BY <2>1, <3>3, <3>4, <3>6, <3>7, <3>8 DEF Safe, Named, Ids
  <2>6. Letta => \A u \in Tasks : At(u, "create") =>
           \/ task'[u].result \subseteq task[u].result
           \/ \A a \in task'[u].result : Named(a, task[u].s)' /\ Safe(a)'
    BY <1>1, <2>5
  <2>7. \A x \in live' : x \in live \/ x.id \notin Known
    BY <2>1
  <2> QED BY <1>1, <1>2, <2>4, <2>6, <2>7, AgentsKept
<1> QED BY <1>1, <1>3, <1>4

LEMMA HandleLateAgents ==
    ASSUME Typed, AgentsSafe, NEW c \in late, HandleLate(c) PROVE AgentsSafe'
<1>1. /\ UNCHANGED <<system, agents, task, history>> /\ late' = late \ {c}
      /\ Effect(c) \/ UNCHANGED <<live, content, counts>>
  BY DEF HandleLate, adapter
<1>2. LateFits(c) /\ c \in Call
  BY DEF Typed, StoreTyped, LateFits
<1>3. Condemned' \subseteq Condemned
  BY <1>1 DEF Condemned, ToDelete
<1>4. c.kind = "delete" => c.in \in Condemned
  BY DEF Condemned
<1>5. CASE UNCHANGED <<live, content, counts>>
  <2>1. Letta => \A a, s : a # None /\ Protected(a, s) => Safe(a)'
    BY <1>3, <1>5, ProtectedFacts, SafeStays
  <2> QED BY <1>1, <1>5, <2>1, AgentsKept
<1>6. CASE Effect(c)
  <2>1. /\ \A a \in Ids(live) : (c.kind = "delete" => a # c.in) => a \in Ids(live')
        /\ \A x \in live' : x \in live \/ (x.id = counts.agents + 1 /\ x.name = c.in)
        /\ counts.agents + 1 \notin Known
    BY <1>2, <1>6, EffectKeeps
  <2>2. ASSUME Letta, NEW a, a # None, NEW s, Protected(a, s) PROVE Safe(a)'
    <3>1. Safe(a)
      BY <2>2, ProtectedFacts
    <3>2. a \in Ids(live')
      BY <1>4, <2>1, <3>1 DEF Safe
    <3> QED BY <1>3, <3>1, <3>2 DEF Safe, Ids
  <2>3. \A x \in live' : x \in live \/ x.id \notin Known
    BY <2>1
  <2> QED BY <1>1, <2>2, <2>3, AgentsKept
<1> QED BY <1>1, <1>5, <1>6

LEMMA BeginAgents ==
    ASSUME Typed, AgentsSafe, NEW t \in Tasks, NEW op, NEW s, Called(op, s), Begin(t, op, s)
    PROVE  AgentsSafe'
<1>1. /\ task'[t].pc = "begun" /\ task'[t].result = {} /\ task'[t].todo = {} /\ task'[t].call = NoCall
      /\ UNCHANGED <<system, agents, live, late>>
      /\ history' = IF Removes(op) THEN Unsettled(history, Concerns(op, s)) ELSE history
  <2>1. Begun(task'[t], op, s)
    BY Beginner
  <2>2. UNCHANGED <<system, adapter, store>>
    BY BeginFacts
  <2>3. history' = IF Removes(op) THEN Unsettled(history, Concerns(op, s)) ELSE history
    BY BeginFacts
  <2> QED BY <2>1, <2>2, <2>3 DEF Begun, adapter, store
<1>2. \A u \in Tasks \ {t} :
         /\ task'[u].s = task[u].s /\ task'[u].pc = task[u].pc /\ task'[u].call = task[u].call
         /\ task'[u].reply = task[u].reply /\ task'[u].result = task[u].result
         /\ task'[u].todo = task[u].todo /\ (task'[u].alone => task[u].alone)
  BY BeginOthers
<1>3. history'.steady \subseteq history.steady
  BY <1>1 DEF Unsettled, Typed, History
<1>4. Condemned' \subseteq Condemned
  <2>1. ToDelete(task'[t]) = {}
    BY <1>1, IdleFields DEF ToDelete
  <2>2. \A u \in Tasks \ {t} : ToDelete(task'[u]) = ToDelete(task[u])
    BY <1>2 DEF ToDelete
  <2>3. Condemned' = {c.in : c \in {d \in late : d.kind = "delete"}} \cup UNION {ToDelete(task'[u]) : u \in Tasks}
    BY <1>1 DEF Condemned, ToDelete
  <2> QED BY <2>1, <2>2, <2>3 DEF Condemned
<1>5. /\ \A a : Safe(a) => Safe(a)'
      /\ \A a, z : Named(a, z)' <=> Named(a, z)
  BY <1>1, <1>4, SafeStays
<1> SUFFICES ASSUME Letta PROVE AgentsSafe'
  BY <1>1 DEF AgentsSafe, Letta
<1>6. \A u \in Tasks : At(u, "create")' => u # t /\ At(u, "create")
  BY <1>1, <1>2 DEF At
<1>7. \A u \in Tasks : At(u, "verify")' => u # t /\ At(u, "verify")
  BY <1>1, <1>2 DEF At
<1>8. \A z \in Sessions : agents'[z] # None => Named(agents[z], z)'
  BY <1>1, <1>5 DEF AgentsSafe
<1>9. \A z \in history'.steady : agents'[z] # None => Safe(agents[z])'
  BY <1>1, <1>3, <1>5 DEF AgentsSafe
<1>10. \A u \in Tasks : At(u, "create")' => \A a \in task'[u].result : Named(a, task[u].s)'
  BY <1>2, <1>5, <1>6 DEF AgentsSafe
<1>11. \A u \in Tasks : At(u, "create")' /\ task'[u].alone => \A a \in task'[u].result : Safe(a)'
  BY <1>2, <1>5, <1>6 DEF AgentsSafe
<1>12. \A u \in Tasks : At(u, "verify")' /\ task'[u].alone =>
          agents[task[u].s]' # None /\ Safe(agents[task[u].s])'
  <2> TAKE u \in Tasks
  <2> HAVE At(u, "verify")' /\ task'[u].alone
  <2>1. At(u, "verify") /\ task[u].alone /\ task'[u].s = task[u].s
    BY <1>2, <1>7
  <2>2. agents[task[u].s] # None /\ Safe(agents[task[u].s])
    BY <2>1 DEF AgentsSafe
  <2>3. Safe(agents[task[u].s])'
    BY <1>1, <1>4, <2>1, <2>2 DEF Safe, Ids
  <2> QED BY <1>1, <2>1, <2>2, <2>3
<1> QED BY <1>8, <1>9, <1>10, <1>11, <1>12 DEF AgentsSafe

\* Where the memories of a session are looked for.
Place(s) == IF Letta THEN agents[s] ELSE s

LEMMA WorksAt ==
    ASSUME Typed, WritesKept, NEW t \in Tasks, At(t, "work"), task[t].alone
    PROVE  task[t].call.in = Place(task[t].s) /\ (Letta => task[t].call.in \in Known)
<1>1. PICK r : r = task[t]
  OBVIOUS
<1>2. Suits(r, r.pc, r.call.kind, r.call.in) /\ r.pc = "work" /\ Whole(r)
  BY <1>1, Here DEF CallFits, Calls, At
<1>3. /\ r.call.in = IF Letta THEN r.agent ELSE r.s
      /\ Letta => r.agent # None
  BY <1>2 DEF Suits, Goes
<1>4. Letta => r.agent = agents[r.s] /\ r.agent \in Known
  BY <1>1, <1>2, <1>3 DEF WritesKept, Whole
<1> QED BY <1>1, <1>3, <1>4 DEF Place

\* A step that leaves the memories alone.
LEMMA WritesStep ==
    ASSUME Typed, WritesKept, NEW t \in Tasks, UNCHANGED <<system, content>>,
           \A u \in Tasks \ {t} : task'[u] = task[u],
           \A w \in history'.kept : /\ w.s \in history'.steady
                                    /\ w \in In(IF Letta THEN agents'[w.s] ELSE w.s),
           \A u \in Tasks : task'[u].alone /\ task'[u].agent # None =>
                               task'[u].agent = agents'[task'[u].s],
           task'[t].reply # "ok",
           \A u \in Tasks \ {t} : Busy(u) /\ task[u].alone /\ task[u].s \in history'.steady =>
                                     task[u].s \in history.steady
    PROVE  WritesKept'
<1>1. \A c : In(c)' = In(c)
  BY DEF In
<1>2. ASSUME NEW w \in history'.kept PROVE w \in In(IF Letta THEN agents[w.s] ELSE w.s)'
  BY DEF In, Letta
<1>3. ASSUME NEW u \in Tasks, task'[u].pc = "work", task'[u].reply = "ok", task'[u].op = "write",
             task'[u].alone, task'[u].s \in history'.steady
      PROVE  task'[u].w \in In(task[u].call.in)'
  <2>1. u # t /\ task'[u] = task[u] /\ Busy(u)
    BY <1>3 DEF Busy
  <2>2. Answered(u, "work") /\ task[u].op = "write" /\ task[u].alone /\ task[u].s \in history.steady
    BY <1>3, <2>1 DEF Answered, At
  <2>3. task[u].w \in In(task[u].call.in)
    BY <2>2 DEF WritesKept
  <2> QED BY <2>1, <2>3 DEF In
<1> QED BY <1>2, <1>3 DEF WritesKept, AckedWritesStay, Answered, At

\* A step on, with the same agents.
LEMMA OnwardWrites ==
    ASSUME Typed, WritesKept, NEW t \in Tasks, Step(t), NEW x, Onward(t, x), agents' = agents,
           x.agent \in {task[t].agent, agents[task[t].s]},
           \A w \in history'.kept : w \in history.kept /\ w.s \in history'.steady,
           \A u \in Tasks \ {t} : Busy(u) /\ task[u].alone /\ task[u].s \in history'.steady =>
                                     task[u].s \in history.steady
    PROVE  WritesKept'
<1>1. /\ task'[t] = x /\ Same(x, task[t]) /\ x.reply # "ok"
      /\ (\A u \in Tasks \ {t} : task'[u] = task[u]) /\ UNCHANGED <<system, content>>
  BY OnlyIts, StepCondemns DEF Onward
<1>2. \A u \in Tasks : task'[u].alone /\ task'[u].agent # None => task'[u].agent = agents'[task'[u].s]
  <2> TAKE u \in Tasks
  <2> HAVE task'[u].alone /\ task'[u].agent # None
  <2>1. CASE u = t
    BY <1>1, <2>1 DEF WritesKept, Same
  <2>2. CASE u # t
    BY <1>1, <2>2 DEF WritesKept
  <2> QED BY <2>1, <2>2
<1>3. \A w \in history'.kept : w \in In(IF Letta THEN agents'[w.s] ELSE w.s)
  BY DEF WritesKept, AckedWritesStay
<1> QED BY <1>1, <1>2, <1>3, WritesStep

\* The fields of the history that HistoryOf names.
LEMMA StepKept ==
    ASSUME Typed, NEW ss
    PROVE  /\ HistoryOf(history) => history'.kept = history.kept /\ history'.steady = history.steady
           /\ HistoryOf([history EXCEPT !.steady = history.steady \cup ss])
              => history'.kept = history.kept /\ history'.steady = history.steady \cup ss
           /\ HistoryOf(Unsettled(history, ss))
              => /\ history'.kept = {w \in history.kept : w.s \notin ss}
                 /\ history'.steady = history.steady \ ss
BY DEF HistoryOf, Unsettled, Typed, History

LEMMA StepWrites ==
    ASSUME Typed, AloneIsAlone, Unsettling, WritesKept, NEW t \in Tasks, Step(t) PROVE WritesKept'
<1>0. /\ Busy(t) /\ (\A u \in Tasks \ {t} : task'[u] = task[u]) /\ UNCHANGED <<system, content>>
      /\ agents \in [Sessions -> Known \cup {None}] /\ None \notin Known
      /\ Whole(task[t]) /\ task[t].op # "none"
  BY StepTasks, StepCondemns, AgentsType, Here DEF Placed, Busy
<1>1. CASE Plain(t)
  <2>1. PICK x : Onward(t, x) /\ HistoryOf(history) /\ agents' = agents /\ x.agent = task[t].agent
    BY <1>1 DEF Plain
  <2>2. history'.steady = history.steady /\ history'.kept = history.kept
    BY <2>1, StepKept
  <2> QED BY <2>1, <2>2, OnwardWrites DEF WritesKept
<1>2. CASE Chooses(t)
  <2>1. PICK x : /\ Onward(t, x) /\ agents' = agents /\ x.agent = agents[task[t].s]
                 /\ \/ HistoryOf(history)
                    \/ /\ task[t].alone
                       /\ HistoryOf([history EXCEPT !.steady = history.steady \cup {task[t].s}])
    BY <1>2 DEF Chooses
  <2>2. CASE HistoryOf(history)
    <3>1. history'.steady = history.steady /\ history'.kept = history.kept
      BY <2>2, StepKept
    <3> QED BY <2>1, <3>1, OnwardWrites DEF WritesKept
  <2>3. CASE /\ task[t].alone
             /\ HistoryOf([history EXCEPT !.steady = history.steady \cup {task[t].s}])
    <3>1. history'.steady = history.steady \cup {task[t].s} /\ history'.kept = history.kept
      BY <2>3, StepKept
    <3>2. \A u \in Tasks \ {t} : Busy(u) => task[u].s # task[t].s
      BY <1>0, <2>3 DEF AloneIsAlone
    <3> QED BY <2>1, <3>1, <3>2, OnwardWrites DEF WritesKept
  <2> QED BY <2>1, <2>2, <2>3
<1>3. CASE Unsettles(t)
  <2>1. PICK x : /\ Onward(t, x) /\ x.agent = task[t].agent /\ agents' = agents
                 /\ HistoryOf(Unsettled(history, {task[t].s}))
    BY <1>3 DEF Unsettles
  <2>2. /\ history'.kept = {w \in history.kept : w.s \notin {task[t].s}}
        /\ history'.steady = history.steady \ {task[t].s}
    BY <2>1, StepKept
  <2> QED BY <2>1, <2>2, OnwardWrites DEF WritesKept
<1>4. CASE Makes(t)
  <2>1. PICK x : /\ Onward(t, x) /\ x.agent = task[t].agent /\ At(t, "create") /\ HistoryOf(history)
                 /\ Letta /\ Goes(task[t], "sweep") /\ task[t].s \in Sessions
                 /\ \E a \in task[t].result : agents' = [agents EXCEPT ![task[t].s] = a]
    BY <1>4 DEF Makes
  <2>2. task'[t] = x /\ x.reply # "ok"
    BY <2>1, OnlyIts DEF Onward
  <2>3. \A s \in Sessions \ {task[t].s} : agents'[s] = agents[s]
    BY <1>0, <2>1
  <2>4. /\ history'.steady = history.steady /\ history'.kept = history.kept
        /\ task[t].s \notin history.steady
    BY <2>1, StepKept, AtWork DEF Unsettling
  <2>5. x.agent = None
    BY <1>0, <2>1 DEF Goes, Whole
  <2>6. \A w \in history'.kept : /\ w.s \in history'.steady
                                 /\ w \in In(IF Letta THEN agents'[w.s] ELSE w.s)
    <3> TAKE w \in history'.kept
    <3>1. w.s \in history.steady /\ w \in In(agents[w.s])
      BY <2>1, <2>4 DEF WritesKept, AckedWritesStay
    <3> QED BY <2>1, <2>3, <2>4, <3>1, AgentsType
  <2>7. \A u \in Tasks : task'[u].alone /\ task'[u].agent # None => task'[u].agent = agents'[task'[u].s]
    <3> TAKE u \in Tasks
    <3> HAVE task'[u].alone /\ task'[u].agent # None
    <3>1. u # t /\ task'[u] = task[u]
      BY <1>0, <2>2, <2>5
    <3>2. Busy(u) /\ task[u].s \in Sessions
      BY <3>1, Here, IdleFields DEF Placed, Busy, Whole
    <3>3. task[u].s # task[t].s /\ task[u].agent = agents[task[u].s]
      BY <1>0, <3>1, <3>2 DEF AloneIsAlone, WritesKept
    <3> QED BY <2>3, <3>1, <3>2, <3>3
  <2>8. \A u \in Tasks \ {t} : Busy(u) /\ task[u].alone /\ task[u].s \in history'.steady =>
                                  task[u].s \in history.steady
    BY <2>4
  <2> QED BY <1>0, <2>2, <2>6, <2>7, <2>8, WritesStep
<1>5. CASE Done(t)
  <2>1. task'[t] = Idle /\ history' = Ended(t, task[t], TRUE) /\ task'[t].reply # "ok" /\ Idle.agent = None
    BY <1>5, OnlyIts, IdleFields DEF Done, Finish, Put
  <2>2. /\ history'.steady = (IF TRUE /\ Removes(task[t].op) /\ task[t].alone
                              THEN history.steady \cup Concerns(task[t].op, task[t].s) ELSE history.steady)
        /\ history'.kept = (IF TRUE /\ task[t].op = "write" /\ task[t].alone /\ task[t].s \in history.steady
                            THEN history.kept \cup {task[t].w} ELSE history.kept)
    BY <1>0, <2>1, EndedFacts
  <2>3. \A u \in Tasks \ {t} : Busy(u) /\ task[u].alone /\ task[u].s \in history'.steady =>
                                  task[u].s \in history.steady
    <3> SUFFICES ASSUME NEW u \in Tasks \ {t}, Busy(u), task[u].alone, task[u].s \in history'.steady,
                        Removes(task[t].op), task[t].alone
                 PROVE  task[u].s \in history.steady
      BY <2>2
    <3>1. task[u].s # task[t].s /\ task[t].op # "reset_all"
      BY <1>0 DEF AloneIsAlone
    <3>2. Concerns(task[t].op, task[t].s) = {task[t].s}
      BY <3>1 DEF Concerns, Removes
    <3> QED BY <2>2, <3>1, <3>2
  <2>4. CASE agents' = agents
    <3>1. \A w \in history'.kept : /\ w.s \in history'.steady
                                   /\ w \in In(IF Letta THEN agents'[w.s] ELSE w.s)
      <4> TAKE w \in history'.kept
      <4>1. CASE w \in history.kept
        BY <2>2, <2>4, <4>1 DEF WritesKept, AckedWritesStay
      <4>2. CASE w \notin history.kept
        <5>1. w = task[t].w /\ task[t].op = "write" /\ task[t].alone /\ task[t].s \in history.steady
          BY <2>2, <4>2
        <5>2. w.s = task[t].s /\ Answered(t, "work")
          BY <1>0, <1>5, <5>1 DEF Whole, Done, Answered, At
        <5>3. w \in In(task[t].call.in)
          BY <5>1, <5>2 DEF WritesKept
        <5>4. task[t].call.in = (IF Letta THEN agents[w.s] ELSE w.s)
          BY <5>1, <5>2, WorksAt DEF Place, Answered
        <5> QED BY <2>2, <2>4, <5>1, <5>2, <5>3, <5>4
      <4> QED BY <4>1, <4>2
    <3>2. \A u \in Tasks : task'[u].alone /\ task'[u].agent # None => task'[u].agent = agents'[task'[u].s]
      BY <1>0, <2>1, <2>4 DEF WritesKept
    <3> QED BY <1>0, <2>1, <2>3, <3>1, <3>2, WritesStep
  <2>5. CASE agents' = Cleared /\ Letta /\ task[t].op = "reset_all"
    <3>1. history.steady = {}
      <4>1. Concerns(task[t].op, task[t].s) = Sessions /\ Removes(task[t].op)
        BY <2>5 DEF Concerns, Removes
      <4> QED BY <4>1, AgentsType DEF Unsettling
    <3>2. history'.kept = {}
      BY <2>2, <2>5, <3>1 DEF WritesKept
    <3>3. \A u \in Tasks : ~ (task'[u].alone /\ task'[u].agent # None)
      <4> SUFFICES ASSUME NEW u \in Tasks, task'[u].alone, task'[u].agent # None PROVE FALSE
        OBVIOUS
      <4>1. u # t /\ task'[u] = task[u]
        BY <1>0, <2>1
      <4>2. Busy(u)
        BY <4>1, Here, IdleFields DEF Placed, Busy
      <4> QED BY <1>0, <2>5, <4>1, <4>2 DEF AloneIsAlone
    <3> QED BY <1>0, <2>1, <2>3, <3>2, <3>3, WritesStep
  <2> QED BY <1>5, <2>4, <2>5 DEF Done
<1>6. CASE Fail(t)
  <2>1. /\ task'[t] = Idle /\ history' = Ended(t, task[t], FALSE) /\ task'[t].reply # "ok"
        /\ Idle.agent = None /\ agents' = agents
    BY <1>6, OnlyIts, FailFacts, IdleFields
  <2>2. history'.steady = history.steady /\ history'.kept = history.kept
    <3>1. PICK h : h = Ended(t, task[t], FALSE)
      OBVIOUS
    <3>2. h.steady = history.steady /\ h.kept = history.kept
      <4>1. Whole(task[t]) /\ task[t].op # "none" /\ FALSE \in BOOLEAN
        BY <1>0
      <4> QED BY <3>1, <4>1, EndedFacts
    <3> QED BY <2>1, <3>1, <3>2
  <2>3. \A w \in history'.kept : /\ w.s \in history'.steady
                                 /\ w \in In(IF Letta THEN agents'[w.s] ELSE w.s)
    <3>1. \A w \in history.kept : /\ w.s \in history.steady
                                  /\ w \in In(IF Letta THEN agents[w.s] ELSE w.s)
      BY DEF WritesKept, AckedWritesStay
    <3>2. agents' = agents
      BY <2>1
    <3> QED BY <2>2, <3>1, <3>2
  <2>4. ASSUME NEW u \in Tasks, task'[u].alone, task'[u].agent # None
        PROVE  task'[u].agent = agents'[task'[u].s]
    <3>1. u # t
      BY <2>1, <2>4
    <3>2. task'[u] = task[u]
      BY <1>0, <3>1
    <3>3. agents' = agents
      BY <2>1
    <3> QED BY <2>4, <3>2, <3>3 DEF WritesKept
  <2> QED BY <1>0, <2>1, <2>2, <2>3, <2>4, WritesStep
<1> QED BY <1>1, <1>2, <1>3, <1>4, <1>5, <1>6, StepForms

\* The memory system keeps the memories of settled sessions.
LEMMA WritesRemain ==
    ASSUME Typed, WritesKept, UNCHANGED <<system, agents, history>>,
           \A s \in history.steady : \A m \in content : m.in = Place(s) => m \in content',
           \A u \in Tasks : /\ Same(task'[u], task[u]) /\ task'[u].pc = task[u].pc
                            /\ task'[u].agent = task[u].agent /\ task'[u].call = task[u].call,
           \A u \in Tasks : task'[u].reply = "ok" /\ At(u, "work") /\ task[u].op = "write" =>
              \/ task[u].reply = "ok"
              \/ \E m \in content' : m.in = task[u].call.in /\ m.w = task[u].w
    PROVE  WritesKept'
<1>1. \A s \in history.steady : \A w \in In(Place(s)) : \E m \in content' : m.in = Place(s) /\ m.w = w
  BY DEF In
<1>2. ASSUME NEW w \in history'.kept
      PROVE  w \in In(IF Letta THEN agents[w.s] ELSE w.s)'
  <2>1. w.s \in history.steady /\ w \in In(Place(w.s))
    BY <1>2 DEF WritesKept, AckedWritesStay, Place
  <2>2. \E m \in content' : m.in = Place(w.s) /\ m.w = w
    BY <1>1, <2>1
  <2> QED BY <2>2 DEF In, Place, Letta
<1>3. ASSUME NEW u \in Tasks, task'[u].pc = "work", task'[u].reply = "ok", task'[u].op = "write",
             task'[u].alone, task'[u].s \in history'.steady
      PROVE  task'[u].w \in In(task[u].call.in)'
  <2>0. /\ task'[u].w = task[u].w /\ task'[u].call = task[u].call /\ At(u, "work")
        /\ task[u].op = "write" /\ task[u].alone /\ task[u].s \in history.steady
    BY <1>3 DEF Same, At
  <2>1. \E m \in content' : m.in = task[u].call.in /\ m.w = task[u].w
    <3>1. CASE task[u].reply = "ok"
      <4>1. task[u].w \in In(task[u].call.in)
        BY <2>0, <3>1 DEF WritesKept, Answered
      <4>2. task[u].call.in = Place(task[u].s)
        BY <2>0, WorksAt
      <4> QED BY <1>1, <2>0, <4>1, <4>2
    <3>2. CASE task[u].reply # "ok"
      BY <1>3, <2>0, <3>2
    <3> QED BY <3>1, <3>2
  <2> QED BY <2>0, <2>1 DEF In
<1>4. \A u \in Tasks : task'[u].alone /\ task'[u].agent # None => task'[u].agent = agents'[task'[u].s]
  BY DEF WritesKept, Same
<1>5. \A w \in history'.kept : w.s \in history'.steady
  BY DEF WritesKept
<1> QED BY <1>2, <1>3, <1>4, <1>5 DEF WritesKept, AckedWritesStay, Answered, At

\* No deletion is of the agent of a settled session.
LEMMA DeletedElsewhere ==
    ASSUME Typed, AgentsSafe, Letta, NEW a \in Condemned, NEW s \in history.steady
    PROVE  a # Place(s)
<1>1. a \in Known /\ a # None
  BY CondemnedKnown, AgentsType
<1>2. agents[s] # None => agents[s] \notin Condemned
  BY DEF AgentsSafe, Safe
<1> QED BY <1>1, <1>2 DEF Place

LEMMA HandleWrites ==
    ASSUME Typed, AloneIsAlone, Unsettling, AgentsSafe, WritesKept, NEW t \in Tasks, Handle(t)
    PROVE  WritesKept'
<1>0. PICK c : c = task[t].call
  OBVIOUS
<1>1. /\ task[t].reply = "wait" /\ UNCHANGED <<system, agents, history>>
      /\ (\A u \in Tasks \ {t} : task'[u] = task[u])
      /\ Same(task'[t], task[t]) /\ task'[t].pc = task[t].pc /\ task'[t].agent = task[t].agent
      /\ task'[t].call = task[t].call /\ c \in Call
      /\ \/ task'[t].reply = "ok" /\ Effect(c)
         \/ task'[t].reply = "error" /\ UNCHANGED <<live, content, counts>>
  BY <1>0, HandleFacts, WaitFacts DEF adapter
<1>2. PICK r : r = task[t]
  OBVIOUS
<1>3. Suits(r, r.pc, c.kind, c.in) /\ r.pc \in Calls /\ c.w = (IF c.kind = "add" THEN r.w ELSE None)
  BY <1>0, <1>1, <1>2, WaitFacts
<1>4. \A u \in Tasks : /\ Same(task'[u], task[u]) /\ task'[u].pc = task[u].pc
                       /\ task'[u].agent = task[u].agent /\ task'[u].call = task[u].call
  BY <1>1, Here DEF Same
<1>5. CASE task'[t].reply = "error" /\ UNCHANGED <<live, content, counts>>
  BY <1>1, <1>4, <1>5, WritesRemain
<1>6. CASE task'[t].reply = "ok" /\ Effect(c)
  <2>1. ASSUME NEW s \in history.steady, NEW m \in content, m.in = Place(s) PROVE m \in content'
    <3>1. CASE c.kind = "delete"
      <4>1. Letta
        BY <1>3, <3>1 DEF Suits, Calls, SweepKind
      <4>2. c.in \in Condemned
        BY <1>0, <1>1, <3>1 DEF Condemned, ToDelete
      <4>3. c.in # Place(s)
        BY <4>1, <4>2, DeletedElsewhere
      <4> QED BY <1>1, <1>6, <2>1, <3>1, <4>3, EffectFacts
    <3>2. CASE c.kind = "clear"
      <4>1. r.pc = "sweep" /\ ~ Letta /\ c.in = r.s
        BY <1>3, <3>2 DEF Suits, Calls, SweepKind
      <4>2. r.s \notin history.steady
        BY <1>2, <4>1 DEF Unsettling, Sweeping
      <4>3. c.in # Place(s)
        BY <4>1, <4>2 DEF Place
      <4> QED BY <1>1, <1>6, <2>1, <3>2, <4>3, EffectFacts
    <3>3. CASE c.kind = "clearall"
      <4>1. r.op = "reset_all"
        BY <1>3, <3>3 DEF Suits, Calls, SweepKind
      <4>2. Concerns(r.op, r.s) = Sessions /\ Removes(r.op)
        BY <4>1 DEF Concerns, Removes
      <4>3. history.steady = {}
        BY <1>2, <4>2, AgentsType DEF Unsettling
      <4> QED BY <4>3
    <3>4. CASE c.kind = "add"
      BY <1>1, <1>6, <3>4, EffectFacts
    <3>5. CASE c.kind \notin {"add", "delete", "clear", "clearall"}
      BY <1>1, <1>6, <3>5, EffectFacts
    <3> QED BY <3>1, <3>2, <3>3, <3>4, <3>5
  <2>2. ASSUME At(t, "work"), task[t].op = "write"
        PROVE  \E m \in content' : m.in = task[t].call.in /\ m.w = task[t].w
    <3>1. c.kind = "add"
      BY <1>2, <1>3, <2>2 DEF Suits, At
    <3>2. PICK m : m = [in |-> c.in, w |-> c.w]
      OBVIOUS
    <3>3. m \in content' /\ m.in = c.in /\ m.w = c.w
      BY <1>1, <1>6, <3>1, <3>2, EffectFacts
    <3> QED BY <1>0, <1>2, <1>3, <3>1, <3>3
  <2>3. \A u \in Tasks : task'[u].reply = "ok" /\ At(u, "work") /\ task[u].op = "write" =>
           \/ task[u].reply = "ok"
           \/ \E m \in content' : m.in = task[u].call.in /\ m.w = task[u].w
    BY <1>1, <2>2
  <2>4. \A s \in history.steady : \A m \in content : m.in = Place(s) => m \in content'
    BY <2>1
  <2> QED BY <1>1, <1>4, <2>3, <2>4, WritesRemain
<1> QED BY <1>1, <1>5, <1>6

LEMMA HandleLateWrites ==
    ASSUME Typed, AgentsSafe, WritesKept, NEW c \in late, HandleLate(c) PROVE WritesKept'
<1>1. /\ UNCHANGED <<system, agents, task, history>>
      /\ Effect(c) \/ UNCHANGED <<live, content, counts>>
  BY DEF HandleLate, adapter
<1>2. LateFits(c) /\ c \in Call /\ Letta /\ c.kind \in {"create", "delete", "add"}
  BY DEF Typed, StoreTyped, LateFits
<1>3. \A u \in Tasks : Same(task'[u], task[u])
  BY <1>1, Here DEF Same
<1>4. \A s \in history.steady : \A m \in content : m.in = Place(s) => m \in content'
  <2> TAKE s \in history.steady
  <2> TAKE m \in content
  <2> HAVE m.in = Place(s)
  <2>1. CASE UNCHANGED <<live, content, counts>>
    BY <2>1
  <2>2. CASE Effect(c) /\ c.kind = "delete"
    <3>1. c.in \in Condemned
      BY <2>2 DEF Condemned
    <3>2. c.in # Place(s)
      BY <1>2, <3>1, DeletedElsewhere
    <3> QED BY <1>2, <2>2, <3>2, EffectFacts
  <2>3. CASE Effect(c) /\ c.kind = "add"
    BY <1>2, <2>3, EffectFacts
  <2>4. CASE Effect(c) /\ c.kind = "create"
    BY <1>2, <2>4, EffectFacts
  <2> QED BY <1>1, <1>2, <2>1, <2>2, <2>3, <2>4
<1> QED BY <1>1, <1>3, <1>4, WritesRemain

LEMMA BeginWrites ==
    ASSUME Typed, WritesKept, NEW t \in Tasks, NEW op, NEW s, Called(op, s), Begin(t, op, s)
    PROVE  WritesKept'
<1>1. /\ task'[t].pc = "begun" /\ task'[t].agent = None
      /\ UNCHANGED <<system, agents, content>>
      /\ history' = IF Removes(op) THEN Unsettled(history, Concerns(op, s)) ELSE history
  <2>1. Begun(task'[t], op, s)
    BY Beginner
  <2>2. UNCHANGED <<system, adapter, store>>
    BY BeginFacts
  <2>3. history' = IF Removes(op) THEN Unsettled(history, Concerns(op, s)) ELSE history
    BY BeginFacts
  <2> QED BY <2>1, <2>2, <2>3 DEF Begun, adapter, store
<1>2. \A u \in Tasks \ {t} :
         /\ task'[u].op = task[u].op /\ task'[u].s = task[u].s /\ task'[u].pc = task[u].pc
         /\ task'[u].call = task[u].call /\ task'[u].reply = task[u].reply /\ task'[u].w = task[u].w
         /\ task'[u].agent = task[u].agent /\ (task'[u].alone => task[u].alone)
  BY BeginOthers
<1>3. history'.steady \subseteq history.steady /\ \A w \in history'.kept : w \in history.kept /\ w.s \in history'.steady
  <2>1. CASE Removes(op)
    <3>1. PICK ss : ss = Concerns(op, s)
      OBVIOUS
    <3>2. /\ history'.kept = {w \in history.kept : w.s \notin ss}
          /\ history'.steady = history.steady \ ss
      BY <1>1, <2>1, <3>1 DEF Unsettled, Typed, History
    <3> QED BY <3>2 DEF WritesKept
  <2>2. CASE ~ Removes(op)
    BY <1>1, <2>2 DEF WritesKept
  <2> QED BY <2>1, <2>2
<1>4. \A w \in history'.kept : w \in In(IF Letta THEN agents[w.s] ELSE w.s)'
  <2> TAKE w \in history'.kept
  <2>1. w \in In(IF Letta THEN agents[w.s] ELSE w.s)
    BY <1>3 DEF WritesKept, AckedWritesStay
  <2> QED BY <1>1, <2>1 DEF In, Letta
<1>5. \A u \in Tasks : task'[u].alone /\ task'[u].agent # None => task'[u].agent = agents'[task'[u].s]
  BY <1>1, <1>2 DEF WritesKept
<1>6. ASSUME NEW u \in Tasks, task'[u].pc = "work", task'[u].reply = "ok", task'[u].op = "write",
             task'[u].alone, task'[u].s \in history'.steady
      PROVE  task'[u].w \in In(task[u].call.in)'
  <2>1. u # t
    BY <1>1, <1>6
  <2>2. Answered(u, "work") /\ task[u].op = "write" /\ task[u].alone /\ task[u].s \in history.steady
    BY <1>2, <1>3, <1>6, <2>1 DEF Answered, At
  <2>3. task[u].w \in In(task[u].call.in)
    BY <2>2 DEF WritesKept
  <2>4. task'[u].call = task[u].call /\ task'[u].w = task[u].w
    BY <1>2, <2>1
  <2> QED BY <1>1, <2>3, <2>4 DEF In
<1> QED BY <1>3, <1>4, <1>5, <1>6 DEF WritesKept, AckedWritesStay, Answered, At

LEMMA InitSettled == Init => Settled
<1> SUFFICES ASSUME Init PROVE Settled
  OBVIOUS
<1> USE DEF Init
<1>1. AloneIsAlone
  BY IdleFields DEF AloneIsAlone, Busy
<1>2. Unsettling
  BY DEF Unsettling
<1>3. AgentsSafe
  BY IdleFields DEF AgentsSafe, At
<1>4. WritesKept
  BY IdleFields DEF WritesKept, AckedWritesStay
<1> QED BY <1>1, <1>2, <1>3, <1>4 DEF Settled

LEMMA NextSettled == Typed /\ Settled /\ [Next]_vars => Settled'
<1> SUFFICES ASSUME Typed, Settled, [Next]_vars PROVE Settled'
  OBVIOUS
<1> USE DEF Settled
<1>1. CASE UNCHANGED vars
  <2>1. UNCHANGED <<system, agents, task, live, content, late, history>>
    BY <1>1 DEF vars, adapter, store
  <2>2. AloneIsAlone' /\ Unsettling'
    BY <2>1 DEF AloneIsAlone, Unsettling, Busy
  <2>3. AgentsSafe'
    BY <2>1 DEF AgentsSafe, Safe, Named, Ids, Condemned, At, Letta
  <2>4. WritesKept'
    BY <2>1 DEF WritesKept, AckedWritesStay, In, Letta, Answered, At
  <2> QED BY <2>2, <2>3, <2>4
<1>2. ASSUME NEW t \in Tasks, NEW op, NEW s, Called(op, s), Begin(t, op, s) PROVE Settled'
  BY <1>2, BeginAlone, BeginUnsettling, BeginAgents, BeginWrites
<1>3. ASSUME NEW t \in Tasks, Step(t) PROVE Settled'
  BY <1>3, StepAlone, StepUnsettling, StepAgents, StepWrites
<1>4. ASSUME NEW t \in Tasks, Handle(t) PROVE Settled'
  BY <1>4, HandleAlone, HandleUnsettling, HandleAgents, HandleWrites
<1>5. ASSUME NEW c \in late, HandleLate(c) PROVE Settled'
  <2>1. UNCHANGED <<task, history>>
    BY <1>5 DEF HandleLate
  <2>2. AloneIsAlone' /\ Unsettling'
    BY <2>1 DEF AloneIsAlone, Unsettling, Busy
  <2> QED BY <1>5, <2>2, HandleLateAgents, HandleLateWrites
<1> QED BY <1>1, <1>2, <1>3, <1>4, <1>5 DEF Next, Called

\* The agent Letta has for a session exists, unless the session's last reset
\* failed or met another operation: for any coroutines and sessions, with
\* requests that time out and are carried out late (letta.py:219-222, 234-245).
THEOREM AgentsExist == Spec => []NoDanglingAgent
<1>1. Settled => NoDanglingAgent
  BY DEF Settled, AgentsSafe, Safe, NoDanglingAgent
<1> QED BY <1>1, InitTyped, NextTyped, InitSettled, NextSettled, PTL DEF Spec

\* A write acknowledged in a settled session is where reads of the session
\* look until it is reset again, whatever starts, closes, fails or times out.
THEOREM WritesStay == Spec => []AckedWritesStay
<1>1. Settled => AckedWritesStay
  BY DEF Settled, WritesKept
<1> QED BY <1>1, InitTyped, NextTyped, InitSettled, NextSettled, PTL DEF Spec

-----------------------------------------------------------------------------
(* What a reset forgets.                                                   *)

\* The fields HistoryOf names, in each of its forms.
LEMMA StepHistory ==
    ASSUME Typed, NEW ss, \/ HistoryOf(history)
                          \/ HistoryOf([history EXCEPT !.steady = history.steady \cup ss])
                          \/ HistoryOf(Unsettled(history, ss))
    PROVE  history'.ended = history.ended /\ history'.void = history.void
BY DEF HistoryOf, Unsettled, Typed, History

\* What a step does to what is over and what is to be forgotten.
LEMMA StepEnds ==
    ASSUME Typed, NEW t \in Tasks, Step(t)
    PROVE  /\ Whole(task[t]) /\ \A u \in Tasks \ {t} : task'[u] = task[u]
           /\ \/ /\ \E x : Onward(t, x)
                 /\ Same(task'[t], task[t]) /\ history'.ended = history.ended
                 /\ history'.void = history.void
              \/ /\ Done(t) \/ Fail(t)
                 /\ task'[t] = Idle
                 /\ history'.ended = (IF task[t].op = "write" THEN history.ended \cup {task[t].w}
                                      ELSE history.ended)
                 /\ history'.void = (IF Done(t) /\ Removes(task[t].op)
                                     THEN history.void \cup task[t].gone ELSE history.void)
<1>0. Whole(task[t]) /\ task[t].op # "none" /\ \A u \in Tasks \ {t} : task'[u] = task[u]
  BY StepTasks, Here DEF Placed, Busy
<1>1. CASE \E x, ss : /\ Onward(t, x)
                      /\ \/ HistoryOf(history)
                         \/ HistoryOf([history EXCEPT !.steady = history.steady \cup ss])
                         \/ HistoryOf(Unsettled(history, ss))
  <2>1. PICK x, ss : /\ Onward(t, x)
                     /\ \/ HistoryOf(history)
                        \/ HistoryOf([history EXCEPT !.steady = history.steady \cup ss])
                        \/ HistoryOf(Unsettled(history, ss))
    BY <1>1
  <2>2. task'[t] = x /\ Same(x, task[t])
    BY <2>1, OnlyIts DEF Onward
  <2>3. history'.ended = history.ended /\ history'.void = history.void
    BY <2>1, StepHistory
  <2> QED BY <1>0, <2>1, <2>2, <2>3
<1>2. CASE Done(t)
  <2>1. task'[t] = Idle /\ history' = Ended(t, task[t], TRUE)
    BY <1>2, OnlyIts DEF Done, Finish, Put
  <2>2. /\ history'.ended = (IF task[t].op = "write" THEN history.ended \cup {task[t].w}
                             ELSE history.ended)
        /\ history'.void = (IF TRUE /\ Removes(task[t].op)
                            THEN history.void \cup task[t].gone ELSE history.void)
    BY <1>0, <2>1, EndedFacts
  <2> QED BY <1>0, <1>2, <2>1, <2>2
<1>3. CASE Fail(t) /\ ~ Done(t)
  <2>1. task'[t] = Idle /\ history' = Ended(t, task[t], FALSE)
    BY <1>3, OnlyIts, FailFacts
  <2>2. /\ history'.ended = (IF task[t].op = "write" THEN history.ended \cup {task[t].w}
                             ELSE history.ended)
        /\ history'.void = history.void
    BY <1>0, <2>1, EndedFacts
  <2> QED BY <1>0, <1>3, <2>1, <2>2
<1> QED BY <1>1, <1>2, <1>3, StepForms DEF Plain, Chooses, Unsettles, Makes

\* No step begins anything.
LEMMA StepOps ==
    ASSUME Typed, NEW t \in Tasks, Step(t)
    PROVE  /\ counts'.ops = counts.ops /\ counts'.agents = counts.agents
           /\ \A c \in late' : \/ c \in late
                               \/ /\ c = task[t].call /\ Letta /\ task[t].reply = "wait" /\ LateFits(c)
                                  /\ Fail(t)
<1>1. CASE \E x : Onward(t, x)
  BY <1>1 DEF Onward, store
<1>2. CASE Done(t)
  BY <1>2 DEF Done, store
<1>3. CASE Fail(t)
  BY <1>3, FailFacts
<1> QED BY <1>1, <1>2, <1>3, StepForms DEF Plain, Chooses, Unsettles, Makes

LEMMA StepNumbered == ASSUME Typed, Numbered, NEW t \in Tasks, Step(t) PROVE Numbered'
<1>1. /\ counts'.ops = counts.ops /\ history.ended \subseteq history'.ended
      /\ \A w \in history'.ended : \/ w \in history.ended
                                   \/ /\ task[t].op = "write" /\ w = task[t].w /\ task'[t] = Idle
  BY StepEnds, StepOps
<1>2. \A u \in Tasks : task'[u].op = "write" =>
         task[u].op = "write" /\ task'[u].w = task[u].w /\ (u = t => task'[t] # Idle)
  BY StepEnds, IdleFields DEF Same
<1>3. \A w \in history'.ended : w.n <= counts'.ops
  BY <1>1 DEF Numbered
<1>4. \A u \in Tasks : task'[u].op = "write" =>
         task'[u].w.n <= counts'.ops /\ task'[u].w \notin history'.ended
  BY <1>1, <1>2 DEF Numbered
<1>5. \A u, v \in Tasks : u # v /\ task'[u].op = "write" /\ task'[v].op = "write" =>
         task'[u].w.n # task'[v].w.n
  BY <1>2 DEF Numbered
<1>6. \A c \in late' : c.kind = "add" => c.w \in history'.ended
  <2> TAKE c \in late'
  <2> HAVE c.kind = "add"
  <2>1. CASE c \in late
    BY <1>1, <2>1 DEF Numbered
  <2>2. CASE c = task[t].call /\ Letta /\ task[t].reply = "wait" /\ Fail(t)
    <3>1. c.w = task[t].w /\ task[t].op = "write"
      BY <2>2, WaitFacts
    <3>2. task'[t] = Idle /\ Idle.op # "write"
      BY <2>2, OnlyIts, FailFacts, IdleFields
    <3>3. task[t].w \in history'.ended
      BY <3>1, <3>2, StepEnds DEF Same
    <3> QED BY <3>1, <3>3
  <2> QED BY <2>1, <2>2, StepOps
<1> QED BY <1>3, <1>4, <1>5, <1>6 DEF Numbered

LEMMA HandleNumbered == ASSUME Typed, Numbered, NEW t \in Tasks, Handle(t) PROVE Numbered'
<1>1. /\ Same(task'[t], task[t]) /\ (\A u \in Tasks \ {t} : task'[u] = task[u])
      /\ UNCHANGED <<late, history>> /\ counts'.ops = counts.ops
  <2>1. counts'.ops = counts.ops
    BY HandleFacts, WaitFacts, EffectFacts
  <2> QED BY <2>1, HandleFacts
<1>2. \A u \in Tasks : task'[u].op = task[u].op /\ task'[u].w = task[u].w
  BY <1>1 DEF Same
<1> QED BY <1>1, <1>2 DEF Numbered

LEMMA HandleLateNumbered == ASSUME Typed, Numbered, NEW c \in late, HandleLate(c) PROVE Numbered'
<1>1. UNCHANGED <<task, history>> /\ late' \subseteq late
  BY DEF HandleLate
<1>2. counts'.ops = counts.ops
  <2>1. c \in Call
    BY DEF Typed, StoreTyped, LateFits
  <2> QED BY <2>1, EffectFacts DEF HandleLate
<1> QED BY <1>1, <1>2 DEF Numbered

LEMMA BeginHistory ==
    ASSUME Typed, NEW t \in Tasks, NEW op, NEW s, Called(op, s), Begin(t, op, s)
    PROVE  history'.ended = history.ended /\ history'.void = history.void
<1>1. history' = IF Removes(op) THEN Unsettled(history, Concerns(op, s)) ELSE history
  BY BeginFacts
<1>2. PICK ss : ss = Concerns(op, s)
  OBVIOUS
<1>3. Unsettled(history, ss).ended = history.ended /\ Unsettled(history, ss).void = history.void
  BY DEF Unsettled, Typed, History
<1> QED BY <1>1, <1>2, <1>3

LEMMA BeginNumbered ==
    ASSUME Typed, Numbered, NEW t \in Tasks, NEW op, NEW s, Called(op, s), Begin(t, op, s)
    PROVE  Numbered'
<1>1. /\ task'[t].op = op
      /\ task'[t].w = (IF op = "write" THEN [n |-> counts.ops + 1, s |-> s] ELSE None)
      /\ UNCHANGED late /\ history'.ended = history.ended
  <2>1. history'.ended = history.ended
    BY BeginHistory
  <2>2. Begun(task'[t], op, s)
    BY Beginner
  <2>3. UNCHANGED <<system, adapter, store>>
    BY BeginFacts
  <2> QED BY <2>1, <2>2, <2>3 DEF Begun, store
<1>2. counts'.ops = counts.ops + 1 /\ counts.ops \in Nat
  BY BeginFacts, Values DEF Typed, CountsTyped
<1>3. \A u \in Tasks \ {t} : task'[u].op = task[u].op /\ task'[u].w = task[u].w
  BY BeginOthers
<1>4. \A w \in history.ended : w.n \in Nat
  BY DEF Typed, History, Writes
<1>5. \A u \in Tasks : task[u].op = "write" => task[u].w.n \in Nat /\ task[u].w.n <= counts.ops
  <2> SUFFICES ASSUME NEW u \in Tasks, task[u].op = "write" PROVE task[u].w.n \in Nat
    BY DEF Numbered
  <2>1. task[u].w \in Writes
    BY Here DEF Whole
  <2> QED BY <2>1 DEF Writes
<1>6. op = "write" => task'[t].w.n = counts.ops + 1
  BY <1>1
<1>7. \A w \in history'.ended : w.n <= counts'.ops
  BY <1>1, <1>2, <1>4 DEF Numbered
<1>8. \A u \in Tasks : task'[u].op = "write" => task'[u].w.n <= counts'.ops
  BY <1>1, <1>2, <1>3, <1>5, <1>6
<1>9. \A u \in Tasks : task'[u].op = "write" => task'[u].w \notin history'.ended
  <2> TAKE u \in Tasks
  <2> HAVE task'[u].op = "write"
  <2>1. CASE u = t
    <3>1. \A w \in history.ended : w.n # counts.ops + 1
      BY <1>2, <1>4 DEF Numbered
    <3> QED BY <1>1, <1>6, <2>1, <3>1
  <2>2. CASE u # t
    BY <1>1, <1>3, <2>2 DEF Numbered
  <2> QED BY <2>1, <2>2
<1>10. \A u, v \in Tasks : u # v /\ task'[u].op = "write" /\ task'[v].op = "write" =>
         task'[u].w.n # task'[v].w.n
  <2> TAKE u, v \in Tasks
  <2> HAVE u # v /\ task'[u].op = "write" /\ task'[v].op = "write"
  <2>1. CASE u = t
    BY <1>1, <1>2, <1>3, <1>5, <1>6, <2>1
  <2>2. CASE v = t
    BY <1>1, <1>2, <1>3, <1>5, <1>6, <2>2
  <2>3. CASE u # t /\ v # t
    BY <1>3, <2>3 DEF Numbered
  <2> QED BY <2>1, <2>2, <2>3
<1>11. \A c \in late' : c.kind = "add" => c.w \in history'.ended
  BY <1>1 DEF Numbered
<1> QED BY <1>7, <1>8, <1>9, <1>10, <1>11 DEF Numbered

\* Mem0 and Zep: a step that leaves the memory system alone.
LEMMA BySessionStep ==
    ASSUME Typed, ForgottenBySession, ~ Letta, UNCHANGED <<system, content>>,
           history.ended \subseteq history'.ended,
           \A w \in history'.void : w \in history'.ended /\ \A m \in content : m.w # w,
           \A u \in Tasks :
              \/ task'[u].gone = {}
              \/ /\ task'[u].gone = task[u].gone /\ task'[u].op = task[u].op /\ task'[u].s = task[u].s
                 /\ Wiped(task'[u]) => Wiped(task[u])
    PROVE  ForgottenBySession'
<1>1. \A m \in content' : m.in = m.w.s
  BY DEF ForgottenBySession
<1>2. history'.void \subseteq history'.ended /\ Absent(history'.void)
  BY DEF Absent
<1>3. ASSUME NEW u \in Tasks
      PROVE  /\ task'[u].gone \subseteq history'.ended
             /\ \A w \in task'[u].gone : w.s \in Concerns(task'[u].op, task'[u].s)
             /\ Wiped(task'[u]) => Absent(task'[u].gone)
  BY DEF ForgottenBySession, Absent
<1>4. /\ \A ws : Absent(ws)' <=> Absent(ws)
      /\ \A r : Wiped(r)' <=> Wiped(r)
      /\ \A op, s : Concerns(op, s)' = Concerns(op, s)
  BY DEF Absent, Wiped, Mem0, Concerns
<1>5. Absent(history.void)'
  BY <1>2 DEF Absent
<1>6. ASSUME NEW u \in Tasks
      PROVE  /\ \A w \in task'[u].gone : w.s \in Concerns(task[u].op, task[u].s)'
             /\ Wiped(task[u])' => Absent(task[u].gone)'
  <2>1. Concerns(task[u].op, task[u].s)' = Concerns(task'[u].op, task'[u].s)
    BY DEF Concerns
  <2>2. Wiped(task[u])' <=> Wiped(task'[u])
    BY DEF Wiped, Mem0
  <2>3. Absent(task[u].gone)' <=> Absent(task'[u].gone)
    BY DEF Absent
  <2> QED BY <1>3, <2>1, <2>2, <2>3
<1> QED BY <1>1, <1>2, <1>3, <1>5, <1>6 DEF ForgottenBySession

LEMMA StepBySession ==
    ASSUME Typed, Numbered, ForgottenBySession, NEW t \in Tasks, Step(t)
    PROVE  ForgottenBySession'
<1> SUFFICES ASSUME ~ Letta PROVE ForgottenBySession'
  BY StepCondemns DEF ForgottenBySession, Letta
<1>1. /\ UNCHANGED <<system, content>> /\ history.ended \subseteq history'.ended
      /\ Whole(task[t]) /\ \A u \in Tasks \ {t} : task'[u] = task[u]
  BY StepCondemns, StepEnds
<1>2. ASSUME NEW x, Onward(t, x), Wiped(x) => Wiped(task[t]), history'.void = history.void
      PROVE  ForgottenBySession'
  <2>1. task'[t] = x /\ Same(x, task[t])
    BY <1>2, OnlyIts DEF Onward
  <2>2. \A w \in history'.void : w \in history'.ended /\ \A m \in content : m.w # w
    BY <1>1, <1>2 DEF ForgottenBySession, Absent
  <2>3. \A u \in Tasks :
           \/ task'[u].gone = {}
           \/ /\ task'[u].gone = task[u].gone /\ task'[u].op = task[u].op /\ task'[u].s = task[u].s
              /\ Wiped(task'[u]) => Wiped(task[u])
    BY <1>1, <1>2, <2>1 DEF Same
  <2> QED BY <1>1, <2>2, <2>3, BySessionStep
<1>3. ASSUME Plain(t) \/ Chooses(t) PROVE ForgottenBySession'
  <2>1. PICK x, ss : /\ Onward(t, x) /\ (Wiped(x) => Wiped(task[t]))
                     /\ \/ HistoryOf(history)
                        \/ HistoryOf([history EXCEPT !.steady = history.steady \cup ss])
                        \/ HistoryOf(Unsettled(history, ss))
    BY <1>3 DEF Plain, Chooses
  <2>2. history'.void = history.void
    BY <2>1, StepHistory
  <2> QED BY <1>2, <2>1, <2>2
<1>4. ASSUME Done(t) \/ Fail(t) PROVE ForgottenBySession'
  <2>1. task'[t] = Idle /\ Idle.gone = {}
    BY <1>4, OnlyIts, FailFacts, IdleFields DEF Done, Finish, Put
  <2>2. ASSUME NEW w \in history'.void
        PROVE  w \in history'.ended /\ \A m \in content : m.w # w
    <3>1. CASE w \in history.void
      BY <1>1, <3>1 DEF ForgottenBySession, Absent
    <3>2. CASE w \notin history.void
      <4>1. Done(t) /\ Removes(task[t].op) /\ w \in task[t].gone
        BY <2>1, <2>2, <3>2, StepEnds DEF Same
      <4>2. Wiped(task[t])
        BY <4>1 DEF Done
      <4> QED BY <1>1, <4>1, <4>2 DEF ForgottenBySession, Absent
    <3> QED BY <3>1, <3>2
  <2>3. \A u \in Tasks :
           \/ task'[u].gone = {}
           \/ /\ task'[u].gone = task[u].gone /\ task'[u].op = task[u].op /\ task'[u].s = task[u].s
              /\ Wiped(task'[u]) => Wiped(task[u])
    BY <1>1, <2>1
  <2> QED BY <1>1, <2>2, <2>3, BySessionStep
<1> QED BY <1>3, <1>4, StepForms DEF Unsettles, Makes

LEMMA BeginBySession ==
    ASSUME Typed, ForgottenBySession, NEW t \in Tasks, NEW op, NEW s, Called(op, s), Begin(t, op, s)
    PROVE  ForgottenBySession'
<1>0. /\ task'[t].op = op /\ task'[t].s = s /\ task'[t].pc = "begun"
      /\ task'[t].gone = (IF Removes(op) THEN Under(Concerns(op, s)) ELSE {})
  <2>1. Begun(task'[t], op, s)
    BY Beginner
  <2> QED BY <2>1 DEF Begun
<1>1. /\ task'[t].op = op /\ task'[t].s = s /\ task'[t].pc = "begun"
      /\ task'[t].gone \subseteq Under(Concerns(op, s))
      /\ UNCHANGED <<system, content>>
  <2>1. UNCHANGED <<system, adapter, store>>
    BY BeginFacts
  <2> QED BY <1>0, <2>1 DEF store
<1>2. history'.ended = history.ended /\ history'.void = history.void
  BY BeginHistory
<1> SUFFICES ASSUME ~ Letta PROVE ForgottenBySession'
  BY <1>1 DEF ForgottenBySession, Letta
<1>3. /\ task'[t].gone \subseteq history.ended
      /\ \A w \in task'[t].gone : w.s \in Concerns(op, s)
  BY <1>1 DEF Under
<1>4. \A u \in Tasks \ {t} :
         /\ task'[u].op = task[u].op /\ task'[u].s = task[u].s /\ task'[u].pc = task[u].pc
         /\ task'[u].reply = task[u].reply /\ task'[u].gone = task[u].gone
  BY BeginOthers
<1>5. ASSUME NEW u \in Tasks
      PROVE  /\ task'[u].gone \subseteq history'.ended
             /\ \A w \in task'[u].gone : w.s \in Concerns(task[u].op, task[u].s)'
             /\ Wiped(task[u])' => Absent(task[u].gone)'
  <2>1. Concerns(task[u].op, task[u].s)' = Concerns(task'[u].op, task'[u].s)
    BY DEF Concerns
  <2>2. Wiped(task[u])' <=> Wiped(task'[u])
    BY <1>1 DEF Wiped, Mem0
  <2>3. Absent(task[u].gone)' <=> Absent(task'[u].gone)
    BY <1>1 DEF Absent
  <2>4. CASE u = t
    <3>1. ~ Wiped(task'[t])
      BY <1>1 DEF Wiped
    <3> QED BY <1>1, <1>2, <1>3, <2>1, <2>2, <2>4, <3>1
  <2>5. CASE u # t
    <3>1. Wiped(task'[u]) <=> Wiped(task[u])
      BY <1>4, <2>5 DEF Wiped
    <3> QED BY <1>2, <1>4, <2>1, <2>2, <2>3, <2>5, <3>1 DEF ForgottenBySession
  <2> QED BY <2>4, <2>5
<1>6. Absent(history.void)' /\ history'.void \subseteq history'.ended /\ \A m \in content' : m.in = m.w.s
  BY <1>1, <1>2 DEF ForgottenBySession, Absent
<1> QED BY <1>5, <1>6 DEF ForgottenBySession

LEMMA HandleBySession ==
    ASSUME Typed, Numbered, ForgottenBySession, NEW t \in Tasks, Handle(t)
    PROVE  ForgottenBySession'
<1>0. PICK c : c = task[t].call
  OBVIOUS
<1>00. PICK r : r = task[t]
  OBVIOUS
<1>1. /\ r.reply = "wait" /\ UNCHANGED <<system, history>>
      /\ (\A u \in Tasks \ {t} : task'[u] = task[u])
      /\ Same(task'[t], r) /\ task'[t].pc = r.pc /\ c \in Call
      /\ \/ task'[t].reply = "ok" /\ Effect(c)
         \/ task'[t].reply = "error" /\ UNCHANGED <<live, content, counts>>
      /\ Suits(r, r.pc, c.kind, c.in) /\ r.pc \in Calls /\ Whole(r)
      /\ c.w = (IF c.kind = "add" THEN r.w ELSE None)
  BY <1>0, <1>00, HandleFacts, WaitFacts
<1> SUFFICES ASSUME ~ Letta PROVE ForgottenBySession'
  BY <1>1 DEF ForgottenBySession, Letta
<1>2. /\ \A m \in content : m.in = m.w.s
      /\ history.void \subseteq history.ended /\ Absent(history.void)
      /\ \A u \in Tasks : /\ task[u].gone \subseteq history.ended
                          /\ \A w \in task[u].gone : w.s \in Concerns(task[u].op, task[u].s)
                          /\ Wiped(task[u]) => Absent(task[u].gone)
  BY DEF ForgottenBySession
<1>3. \A m \in content' : m \in content \/ (m.in = m.w.s /\ m.w \notin history.ended)
  <2>1. CASE UNCHANGED content
    BY <2>1
  <2>2. CASE Effect(c) /\ c.kind = "add"
    <3>1. PICK m : m = [in |-> c.in, w |-> c.w]
      OBVIOUS
    <3>2. content' = content \cup {m} /\ m.in = c.in /\ m.w = c.w
      BY <1>1, <2>2, <3>1, EffectFacts
    <3>3. r.op = "write" /\ c.in = r.s
      BY <1>1, <2>2 DEF Suits, Calls, SweepKind
    <3>4. c.w = r.w /\ r.w.s = r.s /\ r.w \notin history.ended
      BY <1>00, <1>1, <2>2, <3>3 DEF Whole, Numbered
    <3> QED BY <3>2, <3>3, <3>4
  <2>3. CASE Effect(c) /\ c.kind # "add"
    BY <1>1, <2>3, EffectFacts
  <2> QED BY <1>1, <2>1, <2>2, <2>3
<1>4. \A ws : ws \subseteq history.ended /\ Absent(ws) => Absent(ws)'
  BY <1>3 DEF Absent
<1>5. ASSUME Wiped(task'[t]) PROVE \A m \in content' : m.w \notin task'[t].gone
  <2>0. task'[t].gone = r.gone /\ task'[t].op = r.op /\ task'[t].s = r.s
    BY <1>1 DEF Same
  <2>1. CASE Wiped(r)
    <3>1. PICK ws : ws = r.gone
      OBVIOUS
    <3>2. Absent(ws)'
      BY <1>00, <1>2, <1>4, <2>1, <3>1
    <3> QED BY <2>0, <3>1, <3>2 DEF Absent
  <2>2. CASE ~ Wiped(r)
    <3>1. r.pc \in {"sweep", "wipe"} /\ Effect(c)
      BY <1>1, <1>5, <2>0, <2>2 DEF Wiped
    <3>2. CASE r.pc = "sweep"
      <4>1. c.kind = "clear" /\ c.in = r.s /\ r.op = "reset"
        BY <1>1, <3>2 DEF Suits, SweepKind, Goes
      <4>2. \A m \in content' : m \in content /\ m.in # r.s
        BY <1>1, <3>1, <4>1, EffectFacts
      <4>3. \A w \in r.gone : w.s = r.s
        BY <1>00, <1>2, <4>1 DEF Concerns
      <4>4. \A m \in content' : m.w.s # r.s
        BY <1>2, <4>2
      <4> QED BY <2>0, <4>3, <4>4
    <3>3. CASE r.pc = "wipe"
      <4>1. c.kind = "clearall"
        BY <1>1, <3>3 DEF Suits
      <4>2. content' = {}
        BY <1>1, <3>1, <4>1, EffectFacts
      <4> QED BY <4>2
    <3> QED BY <3>1, <3>2, <3>3
  <2> QED BY <2>1, <2>2
<1>6. ASSUME NEW u \in Tasks
      PROVE  /\ task'[u].gone \subseteq history'.ended
             /\ \A w \in task'[u].gone : w.s \in Concerns(task[u].op, task[u].s)'
             /\ Wiped(task[u])' => Absent(task[u].gone)'
  <2>1. Concerns(task[u].op, task[u].s)' = Concerns(task'[u].op, task'[u].s)
    BY DEF Concerns
  <2>2. Wiped(task[u])' <=> Wiped(task'[u])
    BY <1>1 DEF Wiped, Mem0
  <2>3. task'[u].gone = task[u].gone /\ task'[u].op = task[u].op /\ task'[u].s = task[u].s
    BY <1>00, <1>1 DEF Same
  <2>4. CASE u = t
    <3>1. Wiped(task[u])' => Absent(task[u].gone)'
      BY <1>5, <2>2, <2>4 DEF Absent
    <3> QED BY <1>1, <1>2, <2>1, <2>3, <3>1
  <2>5. CASE u # t
    <3>1. Wiped(task[u]) => Absent(task[u].gone)'
      <4>1. PICK ws : ws = task[u].gone
        OBVIOUS
      <4>2. Wiped(task[u]) => Absent(ws)'
        BY <1>2, <1>4, <4>1
      <4> QED BY <2>3, <4>1, <4>2 DEF Absent
    <3> QED BY <1>1, <1>2, <2>1, <2>2, <2>3, <2>5, <3>1
  <2> QED BY <2>4, <2>5
<1>7. Absent(history.void)'
  <2>1. PICK ws : ws = history.void
    OBVIOUS
  <2>2. Absent(ws)'
    BY <1>2, <1>4, <2>1
  <2> QED BY <1>1, <2>1, <2>2 DEF Absent
<1>8. \A m \in content' : m.in = m.w.s
  BY <1>2, <1>3
<1> QED BY <1>1, <1>2, <1>6, <1>7, <1>8 DEF ForgottenBySession

\* Letta: an agent holds no more than it did.
LEMMA HeldKept ==
    ASSUME \A w, a : [in |-> a, w |-> w] \in content' => [in |-> a, w |-> w] \in content \/ Held(w, a),
           \A c \in late' : c.kind = "add" => c \in late \/ Held(c.w, c.in),
           \A u \in Tasks : task'[u].op = "write" /\ task'[u].agent # None =>
              /\ task[u].op = "write" /\ task'[u].w = task[u].w /\ task'[u].agent = task[u].agent
    PROVE  \A w, a : Held(w, a)' => Held(w, a)
<1> SUFFICES ASSUME NEW w, NEW a, Held(w, a)' PROVE Held(w, a)
  OBVIOUS
<1>1. a # None /\ Reaches(w, a)'
  BY DEF Held
<1>2. CASE [in |-> a, w |-> w] \in content'
  BY <1>1, <1>2 DEF Held, Reaches
<1>3. ASSUME NEW c \in late', c.kind = "add", c.w = w, c.in = a PROVE Held(w, a)
  BY <1>1, <1>3 DEF Held, Reaches
<1>4. ASSUME NEW u \in Tasks, task'[u].op = "write", task'[u].w = w, task'[u].agent = a PROVE Held(w, a)
  BY <1>1, <1>4 DEF Held, Reaches
<1> QED BY <1>1, <1>2, <1>3, <1>4 DEF Reaches

\* A write that has its agent keeps it.
LEMMA ChosenKept ==
    ASSUME counts.ops \in Nat, counts'.ops \in Nat, counts.ops <= counts'.ops,
           NEW w, w.n \in Nat, Chosen(w),
           \A u \in Tasks : task'[u].op = "write" /\ task'[u].w = w =>
              task'[u].agent # None \/ (task[u].op = "write" /\ task[u].w = w /\ task[u].agent = None)
    PROVE  Chosen(w)'
BY DEF Chosen

\* The session of an agent at work, after a step.
LEMMA AtWorkNext ==
    ASSUME Typed', Letta', NEW t \in Tasks, At(t, "verify")'
    PROVE  (task[t].s \in Sessions)'
<1>1. PICK x : x = task'[t]
  OBVIOUS
<1>2. Fits(x)' /\ x.pc = "verify"
  BY <1>1 DEF Typed, TasksTyped, At
<1>3. (Goes(x, "sweep") \/ (Mem0 /\ x.op = "reset"))'
  BY <1>2 DEF Fits, CallFits, Suits, Calls
<1>4. x.op \in {"reset", "write", "read"}
  BY <1>3 DEF Goes
<1>5. x.s \in Sessions
  <2>1. x \in Coroutine /\ x.s # None
    BY <1>2, <1>4 DEF Fits, Whole
  <2> QED BY <2>1, Fields
<1> QED BY <1>1, <1>5

\* What keeps forgotten what is.
LEMMA ByAgentKept ==
    ASSUME Typed, Letta, ForgottenByAgent, system' = system, Known \subseteq Known', Typed',
           \A w \in Writes, a \in Nat : Held(w, a)' =>
              \/ Held(w, a)
              \/ ~ Chosen(w) /\ w.s \in Sessions /\ a = agents[w.s] /\ agents' = agents,
           \A w \in Writes : Chosen(w) => Chosen(w)',
           \A u \in Tasks : task'[u].pc = "create" => \A a \in task'[u].result :
              /\ \A s \in Sessions : agents'[s] # a
              /\ \A v \in Tasks : v # u /\ task'[v].pc = "create" => a \notin task'[v].result
              /\ a \in Nat /\ (a \in Fresh(u) \/ a \notin Known),
           \A s, z \in Sessions : agents'[s] # None /\ agents'[s] = agents'[z] => s = z,
           \A s \in Sessions : \/ agents'[s] \in {agents[s], None}
                               \/ \A w \in Writes : ~ Held(w, agents'[s]),
           \A w \in history'.void : \/ w \in history.void
                                    \/ Chosen(w) /\ \A s \in Sessions : ~ Held(w, agents'[s]),
           \A u \in Tasks :
              \/ task'[u].gone = {}
              \/ /\ task'[u].gone = task[u].gone /\ task'[u].op = task[u].op /\ task'[u].s = task[u].s
                 /\ task'[u].pc = "verify" =>
                       \/ task[u].pc = "verify"
                       \/ \A w \in Writes : ~ Held(w, agents'[task[u].s])
              \/ /\ task'[u].pc # "verify"
                 /\ \A w \in task'[u].gone : Chosen(w) /\ w.s \in Concerns(task'[u].op, task'[u].s),
           \A u \in Tasks : \A w \in task'[u].void : ~ Held(w, task[u].agent)'
    PROVE  ForgottenByAgent'
<1>0. /\ agents \in [Sessions -> Known \cup {None}] /\ agents' \in [Sessions -> Known' \cup {None}]
      /\ None \notin Nat /\ Known \subseteq Nat /\ Known' \subseteq Nat
      /\ history.void \subseteq Writes /\ history'.void \subseteq Writes
      /\ \A w : ~ Held(w, None)
  <2>1. Known' \subseteq Nat
    BY DEF Typed, CountsTyped, Known
  <2>2. \A w : ~ Held(w, None)
    BY DEF Held
  <2>3. history.void \subseteq Writes /\ history'.void \subseteq Writes
    BY DEF Typed, History
  <2> QED BY <2>1, <2>2, <2>3, AgentsType, Values DEF Typed, AdapterTyped
<1>1. ASSUME NEW u \in Tasks, task'[u].pc = "create", NEW a \in task'[u].result, NEW w \in Writes
      PROVE  ~ Held(w, a)'
  <2>1. a \in Nat /\ ~ Held(w, a)
    <3>1. CASE a \in Fresh(u)
      BY <1>1, <3>1 DEF ForgottenByAgent
    <3>2. CASE a \notin Known
      BY <1>1, <3>2 DEF ForgottenByAgent
    <3> QED BY <1>1, <3>1, <3>2
  <2>2. ~ (w.s \in Sessions /\ a = agents[w.s] /\ agents' = agents)
    BY <1>1
  <2> QED BY <2>1, <2>2
<1>2. ASSUME NEW w \in Writes, NEW a \in Nat, Held(w, a)', NEW s \in Sessions, agents'[s] = a
      PROVE  a \in Known' /\ s = w.s
  <2>1. CASE Held(w, a)
    <3>1. a \in Known /\ (agents[s] = a => s = w.s)
      BY <2>1 DEF ForgottenByAgent
    <3>2. agents'[s] = agents[s]
      BY <1>0, <1>2, <2>1
    <3> QED BY <1>2, <3>1, <3>2
  <2>2. CASE ~ Chosen(w) /\ w.s \in Sessions /\ a = agents[w.s] /\ agents' = agents
    <3>1. agents[s] = a /\ a # None
      BY <1>0, <1>2, <2>2
    <3>2. s = w.s
      BY <2>2, <3>1 DEF ForgottenByAgent
    <3> QED BY <1>0, <2>2, <3>1, <3>2
  <2> QED BY <1>2, <2>1, <2>2
<1>2a. ASSUME NEW w \in Writes, NEW a \in Nat, Held(w, a)' PROVE a \in Known'
  <2>1. CASE Held(w, a)
    BY <2>1 DEF ForgottenByAgent
  <2>2. CASE w.s \in Sessions /\ a = agents[w.s]
    BY <1>0, <1>2a, <2>2
  <2> QED BY <1>2a, <2>1, <2>2
<1>3. ASSUME NEW w \in Writes, Chosen(w), NEW a \in Nat \cup {None}, ~ Held(w, a)
      PROVE  ~ Held(w, a)'
  <2>1. CASE a = None
    BY <2>1 DEF Held
  <2>2. CASE a \in Nat
    BY <1>3, <2>2
  <2> QED BY <2>1, <2>2
<1>4. ASSUME NEW w \in history'.void PROVE Chosen(w)' /\ \A s \in Sessions : ~ Held(w, agents[s])'
  <2>1. Chosen(w) /\ \A s \in Sessions : ~ Held(w, agents'[s])
    <3>1. CASE w \in history.void
      <4>1. Chosen(w) /\ \A s \in Sessions : ~ Held(w, agents[s])
        BY <3>1 DEF ForgottenByAgent
      <4> QED BY <1>0, <3>1, <4>1
    <3>2. CASE w \notin history.void
      BY <1>4, <3>2
    <3> QED BY <3>1, <3>2
  <2>2. ASSUME NEW s \in Sessions PROVE ~ Held(w, agents[s])'
    <3>1. PICK a : a = agents'[s]
      OBVIOUS
    <3>2. a \in Nat \cup {None} /\ ~ Held(w, a)
      BY <1>0, <2>1, <3>1
    <3>3. ~ Held(w, a)'
      BY <1>0, <1>3, <2>1, <3>2
    <3> QED BY <3>1, <3>3
  <2> QED BY <1>0, <2>1, <2>2
<1>5. ASSUME NEW u \in Tasks, NEW w \in task'[u].gone
      PROVE  /\ Chosen(w)' /\ w.s \in Concerns(task'[u].op, task'[u].s)
             /\ task'[u].pc = "verify" => ~ Held(w, agents[task[u].s])'
  <2>0. w \in Writes
    <3>1. task'[u] \in Coroutine
      BY DEF Typed, TasksTyped
    <3> QED BY <3>1, Fields
  <2>1. CASE /\ task'[u].pc # "verify"
             /\ Chosen(w) /\ w.s \in Concerns(task'[u].op, task'[u].s)
    BY <2>0, <2>1
  <2>2. CASE /\ task'[u].gone = task[u].gone /\ task'[u].op = task[u].op /\ task'[u].s = task[u].s
             /\ task'[u].pc = "verify" =>
                   task[u].pc = "verify" \/ \A v \in Writes : ~ Held(v, agents'[task[u].s])
    <3>1. Chosen(w) /\ w.s \in Concerns(task[u].op, task[u].s)
      BY <2>2 DEF ForgottenByAgent
    <3>2. ASSUME task'[u].pc = "verify" PROVE ~ Held(w, agents[task[u].s])'
      <4>0. task[u].s \in Sessions
        <5>1. At(u, "verify")'
          BY <3>2 DEF At
        <5>2. Letta'
          BY DEF Letta
        <5>3. (task[u].s \in Sessions)'
          BY <5>1, <5>2, AtWorkNext
        <5> QED BY <2>2, <5>3
      <4>1. PICK a : a = agents'[task[u].s]
        OBVIOUS
      <4>2. ~ Held(w, a)
        <5>1. CASE \A v \in Writes : ~ Held(v, agents'[task[u].s])
          BY <2>0, <4>1, <5>1
        <5>2. CASE task[u].pc = "verify" /\ a \in {agents[task[u].s], None}
          <6>1. ~ Held(w, agents[task[u].s])
            BY <2>2, <5>2 DEF ForgottenByAgent, At
          <6> QED BY <1>0, <5>2, <6>1
        <5> QED BY <2>2, <3>2, <4>0, <4>1, <5>1, <5>2
      <4>3. a \in Nat \cup {None}
        BY <1>0, <4>0, <4>1
      <4>4. ~ Held(w, a)'
        BY <1>3, <2>0, <3>1, <4>2, <4>3
      <4> QED BY <2>2, <4>1, <4>4
    <3> QED BY <2>0, <2>2, <3>1, <3>2
  <2> QED BY <1>5, <2>1, <2>2
<1>6. \A u \in Tasks : Concerns(task[u].op, task[u].s)' = Concerns(task'[u].op, task'[u].s)
  BY DEF Concerns
<1>7. \A u \in Tasks : Fresh(u)' = IF task'[u].pc = "create" THEN task'[u].result ELSE {}
  BY DEF Fresh, At
<1>8. \A u \in Tasks : \A a \in Fresh(u)' :
         /\ \A s \in Sessions : agents'[s] # a
         /\ \A v \in Tasks : v # u => a \notin Fresh(v)'
         /\ \A w \in Writes : ~ Held(w, a)'
  BY <1>1, <1>7
<1>9. \A w \in Writes, a \in Nat : Held(w, a)' => a \in Known' /\ \A s \in Sessions : agents'[s] = a => s = w.s
  BY <1>2, <1>2a
<1>10. \A w \in history'.void : Chosen(w)' /\ \A s \in Sessions : ~ Held(w, agents[s])'
  BY <1>4
<1>11. \A u \in Tasks : \A w \in task'[u].gone :
             /\ Chosen(w)'
             /\ w.s \in Concerns(task[u].op, task[u].s)'
             /\ At(u, "verify")' => ~ Held(w, agents[task[u].s])'
  BY <1>5, <1>6 DEF At
<1>12. \A s, z \in Sessions : agents'[s] # None /\ agents'[s] = agents'[z] => s = z
  OBVIOUS
<1>13. \A u \in Tasks : \A w \in task'[u].void : ~ Held(w, task[u].agent)'
  OBVIOUS
<1> QED BY <1>8, <1>9, <1>10, <1>11, <1>12, <1>13 DEF ForgottenByAgent

\* Nothing that waits for an agent has been chosen one.
LEMMA StepChosen ==
    ASSUME Typed, Letta, NEW t \in Tasks, Step(t) PROVE \A w \in Writes : Chosen(w) => Chosen(w)'
<1>1. \A u \in Tasks \ {t} : task'[u] = task[u]
  BY StepTasks
<1>2. task'[t].op = "write" =>
         /\ task[t].op = "write" /\ task'[t].w = task[t].w
         /\ task'[t].agent = task[t].agent \/ task'[t].agent # None
  <2>1. CASE \E x : Onward(t, x) /\ (x.agent = task[t].agent \/ x.agent # None)
    BY <2>1, OnlyIts DEF Onward, Same
  <2>2. CASE Done(t) \/ Fail(t)
    BY <2>2, OnlyIts, FailFacts, IdleFields DEF Done, Finish, Put
  <2> QED BY <2>1, <2>2, StepForms DEF Plain, Chooses, Unsettles, Makes
<1>3. \A w \in Writes : w.n \in Nat
  BY DEF Writes
<1>4. counts.ops \in Nat /\ counts'.ops = counts.ops /\ counts.ops <= counts'.ops
  BY StepOps, Values
<1> TAKE w \in Writes
<1> HAVE Chosen(w)
<1>5. \A u \in Tasks : task'[u].op = "write" /\ task'[u].w = w =>
         task'[u].agent # None \/ (task[u].op = "write" /\ task[u].w = w /\ task[u].agent = None)
  BY <1>1, <1>2
<1> QED BY <1>3, <1>4, <1>5, ChosenKept

\* A step gives an agent to no write but its own.
LEMMA StepHeld ==
    ASSUME Typed, Letta, NEW t \in Tasks, Step(t)
    PROVE  \A w, a : Held(w, a)' =>
              \/ Held(w, a)
              \/ /\ task[t].op = "write" /\ task[t].agent = None /\ w = task[t].w
                 /\ task'[t].op = "write" /\ a = task'[t].agent
<1>1. content' = content /\ \A u \in Tasks \ {t} : task'[u] = task[u]
  BY StepTasks, StepCondemns
<1>2. \A c \in late' : c.kind = "add" => c \in late \/ Held(c.w, c.in)
  <2> TAKE c \in late'
  <2> HAVE c.kind = "add"
  <2>1. CASE c = task[t].call /\ task[t].reply = "wait"
    <3>1. PICK r : r = task[t]
      OBVIOUS
    <3>2. /\ Suits(r, r.pc, c.kind, c.in) /\ r.pc = "work" /\ Whole(r)
          /\ c.w = r.w /\ r.op = "write"
      BY <2>1, <3>1, WaitFacts
    <3>3. c.in = r.agent /\ r.agent # None
      BY <3>2 DEF Suits, Goes
    <3> QED BY <3>1, <3>2, <3>3 DEF Held, Reaches
  <2> QED BY <2>1, StepOps
<1>3. task'[t].op = "write" =>
         /\ task[t].op = "write" /\ task'[t].w = task[t].w
         /\ task'[t].agent = task[t].agent \/ task[t].agent = None
  <2>1. CASE \E x : Onward(t, x) /\ (x.agent = task[t].agent \/ task[t].agent = None)
    BY <2>1, OnlyIts DEF Onward, Same
  <2>2. CASE Done(t) \/ Fail(t)
    BY <2>2, OnlyIts, FailFacts, IdleFields DEF Done, Finish, Put
  <2> QED BY <2>1, <2>2, StepForms DEF Plain, Chooses, Unsettles, Makes
<1> SUFFICES ASSUME NEW w, NEW a, Held(w, a)'
             PROVE  \/ Held(w, a)
                    \/ /\ task[t].op = "write" /\ task[t].agent = None /\ w = task[t].w
                       /\ task'[t].op = "write" /\ a = task'[t].agent
  OBVIOUS
<1>4. a # None /\ Reaches(w, a)'
  BY DEF Held
<1>5. CASE [in |-> a, w |-> w] \in content'
  BY <1>1, <1>4, <1>5 DEF Held, Reaches
<1>6. ASSUME NEW c \in late', c.kind = "add", c.w = w, c.in = a PROVE Held(w, a)
  BY <1>2, <1>4, <1>6 DEF Held, Reaches
<1>7. ASSUME NEW u \in Tasks, task'[u].op = "write", task'[u].w = w, task'[u].agent = a
      PROVE \/ Held(w, a)
            \/ /\ task[t].op = "write" /\ task[t].agent = None /\ w = task[t].w
               /\ task'[t].op = "write" /\ a = task'[t].agent
  <2>1. CASE u # t
    BY <1>1, <1>4, <1>7, <2>1 DEF Held, Reaches
  <2>2. CASE u = t
    BY <1>3, <1>4, <1>7, <2>2 DEF Held, Reaches
  <2> QED BY <2>1, <2>2
<1> QED BY <1>4, <1>5, <1>6, <1>7 DEF Reaches

\* What a step leaves forgotten.
LEMMA StepForgets ==
    ASSUME Typed, Typed', Letta, ForgottenByAgent, Voided, NEW t \in Tasks, Step(t),
           task[t].op = "write" /\ task[t].agent = None =>
              task'[t].agent = None \/ (task'[t].agent = agents[task[t].s] /\ agents' = agents),
           \A s \in Sessions : agents'[s] \in {agents[s], None} \/ agents'[s] \in Fresh(t),
           \A s, z \in Sessions : agents'[s] # None /\ agents'[s] = agents'[z] => s = z,
           \A w \in history'.void : \/ w \in history.void
                                    \/ Chosen(w) /\ \A s \in Sessions : ~ Held(w, agents'[s]),
           \/ task'[t] = Idle
           \/ /\ Same(task'[t], task[t]) /\ task'[t].result = {}
              /\ task'[t].pc = "verify" => agents'[task[t].s] \in Fresh(t)
              /\ task'[t].agent \in {task[t].agent, agents[task[t].s]}
              /\ task[t].s \notin Sessions => task'[t].agent = task[t].agent
    PROVE  ForgottenByAgent'
<1>0. /\ system' = system /\ counts'.agents = counts.agents
      /\ \A u \in Tasks \ {t} : task'[u] = task[u]
  BY StepTasks, StepCondemns, StepOps
<1>1. Known' = Known /\ Known \subseteq Nat /\ None \notin Nat
  BY <1>0, Values DEF Known
<1>2. Fresh(t) \subseteq Known /\ \A a \in Fresh(t) : \A w \in Writes : ~ Held(w, a)
  BY AtWork DEF Fresh, ForgottenByAgent
<1>3. \A w \in Writes, a \in Nat : Held(w, a)' =>
              \/ Held(w, a)
              \/ ~ Chosen(w) /\ w.s \in Sessions /\ a = agents[w.s] /\ agents' = agents
  <2> TAKE w \in Writes, a \in Nat
  <2> HAVE Held(w, a)'
  <2>1. CASE /\ task[t].op = "write" /\ task[t].agent = None /\ w = task[t].w
             /\ task'[t].op = "write" /\ a = task'[t].agent
    <3>1. ~ Chosen(w)
      BY <2>1 DEF Chosen
    <3>2. w.s = task[t].s /\ task[t].s \in Sessions
      BY <2>1, Here DEF Whole
    <3>3. a = agents[task[t].s] /\ agents' = agents
      BY <1>1, <2>1
    <3> QED BY <3>1, <3>2, <3>3
  <2> QED BY <2>1, StepHeld
<1>4. \A w \in Writes : Chosen(w) => Chosen(w)'
  BY StepChosen
<1>5. \A u \in Tasks : task'[u].pc = "create" => \A a \in task'[u].result :
              /\ \A s \in Sessions : agents'[s] # a
              /\ \A v \in Tasks : v # u /\ task'[v].pc = "create" => a \notin task'[v].result
              /\ a \in Nat /\ (a \in Fresh(u) \/ a \notin Known)
  <2> TAKE u \in Tasks
  <2> HAVE task'[u].pc = "create"
  <2> TAKE a \in task'[u].result
  <2>1. u # t /\ task'[u] = task[u]
    BY <1>0, IdleFields
  <2>2. a \in Fresh(u) /\ a \in Known
    BY <2>1, AtWork DEF Fresh, At
  <2>3. \A s \in Sessions : agents'[s] # a
    BY <1>1, <2>1, <2>2 DEF ForgottenByAgent
  <2>4. \A v \in Tasks : v # u /\ task'[v].pc = "create" => a \notin task'[v].result
    <3> TAKE v \in Tasks
    <3> HAVE v # u /\ task'[v].pc = "create"
    <3>1. v = t => task'[v].result = {}
      BY IdleFields
    <3>2. v # t => a \notin Fresh(v) /\ task'[v] = task[v]
      BY <1>0, <2>2 DEF ForgottenByAgent
    <3> QED BY <3>1, <3>2 DEF Fresh, At
  <2> QED BY <1>1, <2>2, <2>3, <2>4
<1>6. \A s \in Sessions : \/ agents'[s] \in {agents[s], None}
                          \/ \A w \in Writes : ~ Held(w, agents'[s])
  BY <1>2
<1>7. \A u \in Tasks :
              \/ task'[u].gone = {}
              \/ /\ task'[u].gone = task[u].gone /\ task'[u].op = task[u].op /\ task'[u].s = task[u].s
                 /\ task'[u].pc = "verify" =>
                       \/ task[u].pc = "verify"
                       \/ \A w \in Writes : ~ Held(w, agents'[task[u].s])
              \/ /\ task'[u].pc # "verify"
                 /\ \A w \in task'[u].gone : Chosen(w) /\ w.s \in Concerns(task'[u].op, task'[u].s)
  <2> TAKE u \in Tasks
  <2>1. CASE u # t
    BY <1>0, <2>1
  <2>2. CASE u = t
    BY <1>2, <2>2, IdleFields DEF Same
  <2> QED BY <2>1, <2>2
<1>8. \A u \in Tasks : \A w \in task'[u].void : ~ Held(w, task[u].agent)'
  <2> TAKE u \in Tasks
  <2> TAKE w \in task'[u].void
  <2>0. task[u] \in Coroutine /\ task'[u] \in Coroutine
    BY Here DEF Typed, TasksTyped
  <2>1. task'[u].void = task[u].void /\ w \in history.void /\ w \in Writes
    <3>1. w \in Writes
      BY <2>0, Fields
    <3>2. task'[u].void = task[u].void
      BY <1>0, IdleFields DEF Same
    <3> QED BY <3>1, <3>2 DEF Voided
  <2>2. Chosen(w) /\ (\A s \in Sessions : ~ Held(w, agents[s])) /\ ~ Held(w, task[u].agent)
    BY <2>1 DEF ForgottenByAgent
  <2>3. PICK a : a = task'[u].agent
    OBVIOUS
  <2>4. ~ Held(w, a)
    <3>1. CASE u # t
      BY <1>0, <2>2, <2>3, <3>1
    <3>2. CASE u = t
      <4>1. task'[t] # Idle
        BY <3>2, IdleFields
      <4> QED BY <2>2, <2>3, <3>2, <4>1
    <3> QED BY <3>1, <3>2
  <2>5. a = None \/ a \in Nat
    BY <2>0, <2>3, Fields
  <2>6. ~ Held(w, a)'
    <3>1. CASE a = None
      BY <3>1 DEF Held
    <3>2. CASE a \in Nat
      BY <1>3, <2>1, <2>2, <2>4, <3>2
    <3> QED BY <2>5, <3>1, <3>2
  <2> QED BY <2>3, <2>6
<1> QED BY <1>0, <1>1, <1>3, <1>4, <1>5, <1>6, <1>7, <1>8, ByAgentKept

LEMMA StepByAgent ==
    ASSUME Typed, Typed', Voided, ForgottenByAgent, NEW t \in Tasks, Step(t) PROVE ForgottenByAgent'
<1> SUFFICES ASSUME Letta PROVE ForgottenByAgent'
  BY StepCondemns DEF ForgottenByAgent, Letta
<1>0. /\ \A s, z \in Sessions : agents[s] # None /\ agents[s] = agents[z] => s = z
      /\ Whole(task[t]) /\ agents \in [Sessions -> Known \cup {None}] /\ None \notin Known
      /\ Known \subseteq Nat
  BY Here, AgentsType, Values DEF ForgottenByAgent
<1>1. ASSUME NEW x, Onward(t, x), agents' = agents, history'.void = history.void, x.pc # "verify",
             x.agent = task[t].agent \/ (x.agent = agents[task[t].s] /\ task[t].s \in Sessions)
      PROVE  ForgottenByAgent'
  <2>1. task'[t] = x /\ Same(x, task[t]) /\ x.result = {}
    BY <1>1, OnlyIts DEF Onward
  <2> QED BY <1>0, <1>1, <2>1, StepForgets
<1>2. CASE Plain(t)
  <2>1. PICK x : /\ Onward(t, x) /\ x.agent = task[t].agent /\ agents' = agents /\ HistoryOf(history)
                 /\ x.pc # "verify"
    BY <1>2 DEF Plain
  <2>2. history'.void = history.void
    BY <2>1, StepHistory
  <2> QED BY <1>1, <2>1, <2>2
<1>3. CASE Chooses(t)
  <2>1. PICK x : /\ Onward(t, x) /\ agents' = agents /\ task[t].op \in {"write", "read"}
                 /\ x.agent = agents[task[t].s] /\ ~ Sweeping(x)
                 /\ \/ HistoryOf(history)
                    \/ HistoryOf([history EXCEPT !.steady = history.steady \cup {task[t].s}])
    BY <1>3 DEF Chooses
  <2>2. history'.void = history.void
    BY <2>1, StepHistory
  <2>3. x.pc # "verify" /\ task[t].s \in Sessions
    <3>1. x.pc # "verify"
      BY <2>1 DEF Sweeping
    <3> QED BY <2>1, <3>1, Here DEF Whole
  <2> QED BY <1>1, <2>1, <2>2, <2>3
<1>4. CASE Unsettles(t)
  <2>1. PICK x : /\ Onward(t, x) /\ x.agent = task[t].agent /\ agents' = agents /\ x.pc # "verify"
                 /\ HistoryOf(Unsettled(history, {task[t].s}))
    BY <1>4 DEF Unsettles
  <2>2. history'.void = history.void
    BY <2>1, StepHistory
  <2> QED BY <1>1, <2>1, <2>2
<1>5. CASE Makes(t)
  <2>1. PICK x : /\ Onward(t, x) /\ x.agent = task[t].agent /\ At(t, "create") /\ HistoryOf(history)
                 /\ task[t].s \in Sessions
                 /\ \E a \in task[t].result : agents' = [agents EXCEPT ![task[t].s] = a]
    BY <1>5 DEF Makes
  <2>2. PICK a \in task[t].result : agents' = [agents EXCEPT ![task[t].s] = a]
    BY <2>1
  <2>3. history'.void = history.void
    BY <2>1, StepHistory
  <2>4. task'[t] = x /\ Same(x, task[t]) /\ x.result = {}
    BY <2>1, OnlyIts DEF Onward
  <2>5. a \in Fresh(t) /\ \A s \in Sessions : agents[s] # a
    BY <2>1 DEF Fresh, ForgottenByAgent
  <2>6. agents'[task[t].s] = a /\ \A s \in Sessions : s # task[t].s => agents'[s] = agents[s]
    BY <1>0, <2>1, <2>2
  <2>7. \A s, z \in Sessions : agents'[s] # None /\ agents'[s] = agents'[z] => s = z
    BY <1>0, <2>5, <2>6
  <2>8. \A s \in Sessions : agents'[s] \in {agents[s], None} \/ agents'[s] \in Fresh(t)
    BY <2>5, <2>6
  <2> QED BY <2>1, <2>3, <2>4, <2>5, <2>6, <2>7, <2>8, StepForgets
<1>6. CASE Done(t) \/ Fail(t)
  <2>1. task'[t] = Idle /\ Idle.agent = None
    BY <1>6, OnlyIts, FailFacts, IdleFields DEF Done, Finish, Put
  <2>2. agents' = agents \/ agents' = Cleared
    BY <1>6, FailFacts DEF Done
  <2>3. \A s \in Sessions : agents'[s] \in {agents[s], None}
    BY <2>2 DEF Cleared
  <2>4. \A s, z \in Sessions : agents'[s] # None /\ agents'[s] = agents'[z] => s = z
    BY <1>0, <2>2 DEF Cleared
  <2>5. ASSUME NEW w \in history'.void, w \notin history.void
        PROVE  Chosen(w) /\ \A s \in Sessions : ~ Held(w, agents'[s])
    <3>1. Done(t) /\ Removes(task[t].op) /\ w \in task[t].gone
      BY <2>1, <2>5, StepEnds DEF Same
    <3>2. /\ Chosen(w) /\ w.s \in Concerns(task[t].op, task[t].s)
          /\ At(t, "verify") => ~ Held(w, agents[task[t].s])
      BY <3>1 DEF ForgottenByAgent
    <3>3. w \in Writes
      <4>1. task[t] \in Coroutine
        BY Here
      <4> QED BY <3>1, <4>1, Fields
    <3>4. CASE agents' = Cleared
      BY <3>2, <3>4 DEF Cleared, Held
    <3>5. CASE agents' = agents /\ task[t].op = "reset" /\ At(t, "verify")
      <4>1. w.s = task[t].s
        BY <3>2, <3>5 DEF Concerns
      <4>2. ASSUME NEW s \in Sessions PROVE ~ Held(w, agents[s])
        <5>1. CASE agents[s] = None
          BY <5>1 DEF Held
        <5>2. CASE agents[s] # None
          <6>1. PICK a : a = agents[s]
            OBVIOUS
          <6>2. a \in Nat
            BY <1>0, <5>2, <6>1
          <6>3. Held(w, a) => s = task[t].s
            BY <3>3, <4>1, <6>1, <6>2 DEF ForgottenByAgent
          <6> QED BY <3>2, <3>5, <6>1, <6>3
        <5> QED BY <5>1, <5>2
      <4> QED BY <3>2, <3>5, <4>2
    <3> QED BY <3>1, <3>4, <3>5 DEF Done
  <2>6. task[t].op = "write" => agents' = agents
    BY <1>6, FailFacts DEF Done
  <2> QED BY <2>1, <2>3, <2>4, <2>5, <2>6, StepForgets
<1> QED BY <1>2, <1>3, <1>4, <1>5, <1>6, StepForms

\* What the memory system does, answered or late, leaves forgotten.
LEMMA SystemForgets ==
    ASSUME Typed, Typed', Letta, Voided, ForgottenByAgent, UNCHANGED <<system, agents, history>>,
           counts.agents <= counts'.agents, counts'.ops = counts.ops,
           \A w, a : Held(w, a)' => Held(w, a),
           \A u \in Tasks : /\ Same(task'[u], task[u]) /\ task'[u].pc = task[u].pc
                            /\ task'[u].agent = task[u].agent,
           \A u \in Tasks : At(u, "create") =>
              \A a \in task'[u].result :
                 \/ a \in task[u].result
                 \/ /\ a = counts.agents + 1
                    /\ \A v \in Tasks : v # u /\ At(v, "create") => task'[v].result = task[v].result
    PROVE  ForgottenByAgent'
<1>0. /\ agents \in [Sessions -> Known \cup {None}] /\ None \notin Known /\ Known \subseteq Nat
      /\ counts.agents \in Nat /\ counts.agents + 1 \notin Known /\ counts.agents + 1 \in Nat
      /\ None \notin Nat
  BY AgentsType, Values DEF Known
<1>1. Known \subseteq Known'
  BY Values DEF Known, Typed, CountsTyped
<1>2. \A w \in Writes : Chosen(w) => Chosen(w)'
  BY DEF Chosen, Same
<1>3. \A u \in Tasks : task'[u].pc = "create" => \A a \in task'[u].result :
              /\ \A s \in Sessions : agents'[s] # a
              /\ \A v \in Tasks : v # u /\ task'[v].pc = "create" => a \notin task'[v].result
              /\ a \in Nat /\ (a \in Fresh(u) \/ a \notin Known)
  <2> TAKE u \in Tasks
  <2> HAVE task'[u].pc = "create"
  <2> TAKE a \in task'[u].result
  <2>0. At(u, "create")
    BY DEF At
  <2>1. CASE a \in task[u].result
    <3>1. a \in Fresh(u) /\ a \in Known
      BY <2>0, <2>1, AtWork DEF Fresh
    <3>2. \A v \in Tasks : v # u /\ task'[v].pc = "create" => a \notin task'[v].result
      <4> TAKE v \in Tasks
      <4> HAVE v # u /\ task'[v].pc = "create"
      <4>1. At(v, "create") /\ a \notin task[v].result
        BY <3>1 DEF At, Fresh, ForgottenByAgent
      <4> QED BY <1>0, <3>1, <4>1
    <3> QED BY <1>0, <3>1, <3>2 DEF ForgottenByAgent
  <2>2. CASE /\ a = counts.agents + 1
             /\ \A v \in Tasks : v # u /\ At(v, "create") => task'[v].result = task[v].result
    <3>1. \A v \in Tasks : v # u /\ task'[v].pc = "create" => a \notin task'[v].result
      BY <1>0, <2>2, AtWork DEF At
    <3> QED BY <1>0, <2>2, <3>1
  <2> QED BY <2>0, <2>1, <2>2
<1>4. \A s, z \in Sessions : agents'[s] # None /\ agents'[s] = agents'[z] => s = z
  BY DEF ForgottenByAgent
<1>5. \A u \in Tasks :
              /\ task'[u].gone = task[u].gone /\ task'[u].op = task[u].op /\ task'[u].s = task[u].s
              /\ task'[u].pc = "verify" => task[u].pc = "verify"
  BY DEF Same
<1>6. \A u \in Tasks : \A w \in task'[u].void : ~ Held(w, task[u].agent)'
  BY DEF Same, ForgottenByAgent
<1> QED BY <1>0, <1>1, <1>2, <1>3, <1>4, <1>5, <1>6, ByAgentKept

LEMMA HandleByAgent ==
    ASSUME Typed, Typed', Voided, ForgottenByAgent, NEW t \in Tasks, Handle(t)
    PROVE  ForgottenByAgent'
<1>0. PICK c : c = task[t].call
  OBVIOUS
<1>1. /\ task[t].reply = "wait" /\ UNCHANGED <<system, agents, late, history>>
      /\ (\A u \in Tasks \ {t} : task'[u] = task[u])
      /\ Same(task'[t], task[t]) /\ task'[t].pc = task[t].pc /\ task'[t].agent = task[t].agent
      /\ task[t].result = {} /\ c \in Call
      /\ \/ task'[t].result = Result(c) /\ Effect(c)
         \/ task'[t].result = {} /\ UNCHANGED <<live, content, counts>>
  BY <1>0, HandleFacts, WaitFacts DEF adapter
<1> SUFFICES ASSUME Letta PROVE ForgottenByAgent'
  BY <1>1 DEF ForgottenByAgent, Letta
<1>2. PICK r : r = task[t]
  OBVIOUS
<1>3. /\ Suits(r, r.pc, c.kind, c.in) /\ r.pc \in Calls /\ c.w = (IF c.kind = "add" THEN r.w ELSE None)
      /\ c.kind = "add" => r.op = "write"
      /\ r.pc = "work" <=> c.kind \in {"add", "find"}
  BY <1>0, <1>1, <1>2, WaitFacts
<1>4. counts.agents <= counts'.agents /\ counts'.ops = counts.ops
  BY <1>1, EffectFacts, Values
<1>5. \A w, a : [in |-> a, w |-> w] \in content' => [in |-> a, w |-> w] \in content \/ Held(w, a)
  <2>1. CASE UNCHANGED content
    BY <2>1
  <2>2. CASE Effect(c) /\ c.kind # "add"
    BY <1>1, <2>2, EffectFacts
  <2>3. CASE Effect(c) /\ c.kind = "add"
    <3>1. c.in = r.agent /\ r.agent # None /\ c.w = r.w
      BY <1>3, <2>3 DEF Suits, Goes
    <3>2. Held(c.w, c.in)
      BY <1>2, <1>3, <2>3, <3>1 DEF Held, Reaches
    <3>3. content' = content \cup {[in |-> c.in, w |-> c.w]}
      BY <1>1, <2>3, EffectFacts
    <3> QED BY <3>2, <3>3
  <2> QED BY <1>1, <2>1, <2>2, <2>3
<1>6. \A u \in Tasks : /\ Same(task'[u], task[u]) /\ task'[u].pc = task[u].pc
                       /\ task'[u].agent = task[u].agent
  BY <1>1, Here DEF Same
<1>7. \A w, a : Held(w, a)' => Held(w, a)
  <2>1. \A u \in Tasks : task'[u].op = "write" /\ task'[u].agent # None =>
           /\ task[u].op = "write" /\ task'[u].w = task[u].w /\ task'[u].agent = task[u].agent
    BY <1>6 DEF Same
  <2> QED BY <1>1, <1>5, <2>1, HeldKept
<1>8. \A u \in Tasks : At(u, "create") =>
         \A a \in task'[u].result :
            \/ a \in task[u].result
            \/ /\ a = counts.agents + 1
               /\ \A v \in Tasks : v # u /\ At(v, "create") => task'[v].result = task[v].result
  <2> TAKE u \in Tasks
  <2> HAVE At(u, "create")
  <2> TAKE a \in task'[u].result
  <2>1. CASE u # t
    BY <1>1, <2>1
  <2>2. CASE u = t
    <3>1. c.kind = "create"
      BY <1>2, <1>3, <2>2 DEF Suits, At
    <3>2. Result(c) = {counts.agents + 1}
      BY <1>1, <3>1, ResultTyped
    <3> QED BY <1>1, <2>2, <3>2
  <2> QED BY <2>1, <2>2
<1> QED BY <1>1, <1>4, <1>6, <1>7, <1>8, SystemForgets

LEMMA HandleLateByAgent ==
    ASSUME Typed, Typed', Voided, ForgottenByAgent, NEW c \in late, HandleLate(c)
    PROVE  ForgottenByAgent'
<1>1. /\ UNCHANGED <<system, agents, task, history>> /\ late' \subseteq late
      /\ Effect(c) \/ UNCHANGED <<live, content, counts>>
  BY DEF HandleLate, adapter
<1>2. LateFits(c) /\ c \in Call /\ Letta
  BY DEF Typed, StoreTyped, LateFits
<1>3. counts.agents <= counts'.agents /\ counts'.ops = counts.ops
  BY <1>1, <1>2, EffectFacts, Values
<1>4. \A w, a : [in |-> a, w |-> w] \in content' => [in |-> a, w |-> w] \in content \/ Held(w, a)
  <2>1. CASE UNCHANGED content
    BY <2>1
  <2>2. CASE Effect(c) /\ c.kind # "add"
    BY <1>2, <2>2, EffectFacts
  <2>3. CASE Effect(c) /\ c.kind = "add"
    <3>1. Held(c.w, c.in)
      <4>1. c.in # None
        BY <1>2, <2>3, AgentsType DEF LateFits
      <4> QED BY <2>3, <4>1 DEF Held, Reaches
    <3>2. content' = content \cup {[in |-> c.in, w |-> c.w]}
      BY <1>2, <2>3, EffectFacts
    <3> QED BY <3>1, <3>2
  <2> QED BY <1>1, <2>1, <2>2, <2>3
<1>5. \A w, a : Held(w, a)' => Held(w, a)
  BY <1>1, <1>4, HeldKept
<1>6. \A u \in Tasks : Same(task'[u], task[u])
  BY <1>1, Here DEF Same
<1> QED BY <1>1, <1>2, <1>3, <1>5, <1>6, SystemForgets

LEMMA BeginByAgent ==
    ASSUME Typed, Typed', Numbered, Voided, ForgottenByAgent,
           NEW t \in Tasks, NEW op, NEW s, Called(op, s), Begin(t, op, s)
    PROVE  ForgottenByAgent'
<1>1. /\ task'[t].op = op /\ task'[t].s = s /\ task'[t].pc = "begun" /\ task'[t].agent = None
      /\ task'[t].w = (IF op = "write" THEN [n |-> counts.ops + 1, s |-> s] ELSE None)
      /\ task'[t].gone = (IF Removes(op) THEN Under(Concerns(op, s)) ELSE {})
  <2>1. Begun(task'[t], op, s)
    BY Beginner
  <2> QED BY <2>1 DEF Begun
<1>2. /\ UNCHANGED <<system, agents, content, late>>
      /\ counts' = [counts EXCEPT !.ops = counts.ops + 1]
  BY BeginFacts DEF adapter, store
<1>3. history'.ended = history.ended /\ history'.void = history.void
  BY BeginHistory
<1> SUFFICES ASSUME Letta PROVE ForgottenByAgent'
  BY <1>2 DEF ForgottenByAgent, Letta
<1>4. /\ counts'.ops = counts.ops + 1 /\ counts'.agents = counts.agents /\ counts.ops \in Nat
      /\ counts'.ops \in Nat /\ counts.ops <= counts'.ops
  <2>1. counts'.ops = counts.ops + 1 /\ counts'.agents = counts.agents
    BY <1>2 DEF Typed, CountsTyped
  <2> QED BY <2>1, Values
<1>5. \A u \in Tasks \ {t} :
         /\ task'[u].op = task[u].op /\ task'[u].s = task[u].s /\ task'[u].pc = task[u].pc
         /\ task'[u].result = task[u].result /\ task'[u].agent = task[u].agent
         /\ task'[u].w = task[u].w /\ task'[u].gone = task[u].gone /\ task'[u].void = task[u].void
  BY BeginOthers
<1>6. Known' = Known /\ Known \subseteq Nat /\ None \notin Nat
  BY <1>4, Values DEF Known
<1>7. \A w, a : Held(w, a)' => Held(w, a)
  <2>1. \A u \in Tasks : task'[u].op = "write" /\ task'[u].agent # None =>
           /\ task[u].op = "write" /\ task'[u].w = task[u].w /\ task'[u].agent = task[u].agent
    BY <1>1, <1>5
  <2> QED BY <1>2, <2>1, HeldKept
<1>8. \A w \in Writes : Chosen(w) => Chosen(w)'
  <2> TAKE w \in Writes
  <2> HAVE Chosen(w)
  <2>1. w.n \in Nat /\ w.n <= counts.ops
    BY DEF Writes, Chosen
  <2>2. task'[t].op = "write" => task'[t].w # w
    <3>1. op = "write" => task'[t].w.n = counts.ops + 1
      BY <1>1
    <3> QED BY <1>1, <1>4, <2>1, <3>1
  <2>3. \A u \in Tasks : task'[u].op = "write" /\ task'[u].w = w =>
           task'[u].agent # None \/ (task[u].op = "write" /\ task[u].w = w /\ task[u].agent = None)
    BY <1>5, <2>2
  <2> QED BY <1>4, <2>1, <2>3, ChosenKept
<1>9. \A u \in Tasks : task'[u].pc = "create" => \A a \in task'[u].result :
              /\ \A z \in Sessions : agents'[z] # a
              /\ \A v \in Tasks : v # u /\ task'[v].pc = "create" => a \notin task'[v].result
              /\ a \in Nat /\ (a \in Fresh(u) \/ a \notin Known)
  <2> TAKE u \in Tasks
  <2> HAVE task'[u].pc = "create"
  <2> TAKE a \in task'[u].result
  <2>1. At(u, "create") /\ a \in Fresh(u) /\ a \in Known
    BY <1>1, <1>5, AtWork DEF Fresh, At
  <2>2. \A v \in Tasks : v # u /\ task'[v].pc = "create" => a \notin task'[v].result
    <3> TAKE v \in Tasks
    <3> HAVE v # u /\ task'[v].pc = "create"
    <3>1. At(v, "create") /\ task'[v].result = Fresh(v)
      BY <1>1, <1>5 DEF At, Fresh
    <3> QED BY <2>1, <3>1 DEF ForgottenByAgent
  <2> QED BY <1>2, <1>6, <2>1, <2>2 DEF ForgottenByAgent
<1>10. Removes(op) => \A w \in task'[t].gone : Chosen(w) /\ w.s \in Concerns(op, s)
  <2> SUFFICES ASSUME Removes(op), NEW w \in Under(Concerns(op, s))
               PROVE  Chosen(w) /\ w.s \in Concerns(op, s)
    BY <1>1
  <2>1. CASE w \in history.ended /\ w.s \in Concerns(op, s)
    BY <2>1 DEF Numbered, Chosen
  <2>2. ASSUME NEW u \in Tasks, task[u].op = "write", task[u].s \in Concerns(op, s),
               task[u].agent # None, w = task[u].w
        PROVE  Chosen(w) /\ w.s \in Concerns(op, s)
    <3>1. w.s \in Concerns(op, s)
      BY <2>2, Here DEF Whole
    <3>2. Chosen(w)
      BY <2>2 DEF Numbered, Chosen
    <3> QED BY <3>1, <3>2
  <2> QED BY <2>1, <2>2 DEF Under
<1>11. \A u \in Tasks :
              \/ task'[u].gone = {}
              \/ /\ task'[u].gone = task[u].gone /\ task'[u].op = task[u].op /\ task'[u].s = task[u].s
                 /\ task'[u].pc = "verify" =>
                       \/ task[u].pc = "verify"
                       \/ \A w \in Writes : ~ Held(w, agents'[task[u].s])
              \/ /\ task'[u].pc # "verify"
                 /\ \A w \in task'[u].gone : Chosen(w) /\ w.s \in Concerns(task'[u].op, task'[u].s)
  <2> TAKE u \in Tasks
  <2>1. CASE u = t
    BY <1>1, <1>10, <2>1
  <2>2. CASE u # t
    BY <1>5, <2>2
  <2> QED BY <2>1, <2>2
<1>12. \A u \in Tasks : \A w \in task'[u].void : ~ Held(w, task[u].agent)'
  <2> TAKE u \in Tasks
  <2> TAKE w \in task'[u].void
  <2>1. PICK a : a = task'[u].agent
    OBVIOUS
  <2>2. a # None => ~ Held(w, a)
    BY <1>1, <1>5, <2>1 DEF ForgottenByAgent
  <2>3. ~ Held(w, a)'
    BY <1>7, <2>2 DEF Held
  <2> QED BY <2>1, <2>3
<1>13. /\ \A y, z \in Sessions : agents'[y] # None /\ agents'[y] = agents'[z] => y = z
       /\ \A z \in Sessions : agents'[z] = agents[z]
  BY <1>2 DEF ForgottenByAgent
<1> QED BY <1>2, <1>3, <1>6, <1>7, <1>8, <1>9, <1>11, <1>12, <1>13, ByAgentKept

\* Reads remember what was to be forgotten as they began.
LEMMA VoidedKept ==
    ASSUME Voided, history.void \subseteq history'.void,
           \A u \in Tasks : task'[u].void \subseteq task[u].void \cup history'.void
    PROVE  Voided'
BY DEF Voided

\* What the read t is about to return holds nothing it is to have forgotten.
LEMMA FindForgets ==
    ASSUME Typed, Voided, ForgottenBySession, ForgottenByAgent, NEW t \in Tasks,
           task[t].reply = "wait", At(t, "work"), task[t].void # {}
    PROVE  Result(task[t].call) \cap task[t].void = {}
<1>1. PICK r : r = task[t]
  OBVIOUS
<1>2. PICK c : c = task[t].call
  OBVIOUS
<1>3. Suits(r, r.pc, c.kind, c.in) /\ Whole(r) /\ r.pc = "work" /\ r.void # {}
  BY <1>1, <1>2, WaitFacts DEF At
<1>4. r.op = "read" /\ c.kind = "find" /\ c.in = (IF Letta THEN r.agent ELSE r.s)
      /\ (Letta => r.agent # None)
  BY <1>3 DEF Suits, Whole, Goes
<1>5. Result(c) = In(c.in)
  BY <1>4 DEF Result
<1>6. content \subseteq [in : Addressees, w : Writes]
  BY DEF Typed, StoreTyped
<1>7. CASE Letta
  <2>1. ASSUME NEW w \in In(c.in) PROVE Held(w, r.agent)
    <3>1. PICK m \in content : m.in = c.in /\ m.w = w
      BY <2>1 DEF In
    <3>2. m = [in |-> r.agent, w |-> w]
      BY <1>4, <1>6, <1>7, <3>1
    <3> QED BY <1>4, <1>7, <3>1, <3>2 DEF Held, Reaches
  <2>2. \A w \in r.void : ~ Held(w, r.agent)
    BY <1>1, <1>7 DEF ForgottenByAgent
  <2> QED BY <1>1, <1>2, <1>5, <2>1, <2>2
<1>8. CASE ~ Letta
  <2>1. r.void \subseteq history.void /\ Absent(history.void)
    BY <1>1, <1>8 DEF Voided, ForgottenBySession
  <2> QED BY <1>1, <1>2, <1>5, <2>1 DEF In, Absent
<1> QED BY <1>7, <1>8

LEMMA InitForgotten == Init => Forgotten
<1> SUFFICES ASSUME Init PROVE Forgotten
  OBVIOUS
<1> USE DEF Init
<1>1. Numbered /\ Voided /\ ResetForgets
  BY IdleFields DEF Numbered, Voided, ResetForgets, Answered, At
<1>2. ForgottenBySession
  BY IdleFields DEF ForgottenBySession, Absent
<1>3. ForgottenByAgent
  <2>1. \A w, a : ~ Held(w, a)
    BY IdleFields DEF Held, Reaches
  <2> QED BY <2>1, IdleFields DEF ForgottenByAgent, Fresh, At
<1> QED BY <1>1, <1>2, <1>3 DEF Forgotten

LEMMA StepForgotten ==
    ASSUME Typed, Typed', Forgotten, NEW t \in Tasks, Step(t) PROVE Forgotten'
<1>1. /\ \A u \in Tasks \ {t} : task'[u] = task[u]
      /\ task'[t] = Idle \/ (Same(task'[t], task[t]) /\ task'[t].reply # "ok")
  BY StepTasks
<1>2. history.void \subseteq history'.void
  BY StepEnds
<1>3. \A u \in Tasks : task'[u].void \subseteq task[u].void
  BY <1>1, IdleFields DEF Same
<1>4. Voided'
  BY <1>2, <1>3, VoidedKept DEF Forgotten
<1>5. \A u \in Tasks : Answered(u, "work")' => Answered(u, "work") /\ task'[u] = task[u]
  BY <1>1, IdleFields DEF Answered, At
<1>6. ResetForgets'
  BY <1>5 DEF Forgotten, ResetForgets
<1> QED BY <1>4, <1>6, StepNumbered, StepBySession, StepByAgent DEF Forgotten

LEMMA HandleForgotten ==
    ASSUME Typed, Typed', Forgotten, NEW t \in Tasks, Handle(t) PROVE Forgotten'
<1>0. PICK c : c = task[t].call
  OBVIOUS
<1>1. /\ task[t].reply = "wait" /\ history' = history
      /\ (\A u \in Tasks \ {t} : task'[u] = task[u])
      /\ task'[t].void = task[t].void /\ task'[t].pc = task[t].pc
      /\ \/ task'[t].result = Result(c)
         \/ task'[t].result = {}
  BY <1>0, HandleFacts DEF Same
<1>2. Voided'
  BY <1>1, VoidedKept DEF Forgotten
<1>3. ASSUME NEW u \in Tasks, Answered(u, "work")'
      PROVE  task'[u].result \cap task'[u].void = {}
  <2>1. CASE u # t
    BY <1>1, <1>3, <2>1 DEF Forgotten, ResetForgets, Answered, At
  <2>2. CASE u = t
    <3>1. At(t, "work")
      BY <1>1, <1>3, <2>2 DEF Answered, At
    <3>2. task[t].void # {} => Result(c) \cap task[t].void = {}
      BY <1>0, <1>1, <3>1, FindForgets DEF Forgotten
    <3> QED BY <1>1, <2>2, <3>2
  <2> QED BY <2>1, <2>2
<1>4. ResetForgets'
  BY <1>3 DEF ResetForgets
<1> QED BY <1>2, <1>4, HandleNumbered, HandleBySession, HandleByAgent DEF Forgotten

LEMMA HandleLateForgotten ==
    ASSUME Typed, Typed', Forgotten, NEW c \in late, HandleLate(c) PROVE Forgotten'
<1>1. UNCHANGED <<system, task, history>>
  BY DEF HandleLate
<1>2. Letta /\ Letta'
  BY <1>1 DEF Typed, StoreTyped, LateFits, Letta
<1>3. Voided' /\ ResetForgets'
  BY <1>1 DEF Forgotten, Voided, ResetForgets, Answered, At
<1>4. ForgottenBySession'
  BY <1>2 DEF ForgottenBySession
<1> QED BY <1>3, <1>4, HandleLateNumbered, HandleLateByAgent DEF Forgotten

LEMMA BeginForgotten ==
    ASSUME Typed, Typed', Forgotten, NEW t \in Tasks, NEW op, NEW s, Called(op, s), Begin(t, op, s)
    PROVE  Forgotten'
<1>1. /\ task'[t].pc = "begun"
      /\ task'[t].void = (IF op = "read" THEN history.void ELSE {})
  <2>1. Begun(task'[t], op, s)
    BY Beginner
  <2> QED BY <2>1 DEF Begun
<1>2. history'.void = history.void
  BY BeginHistory
<1>3. \A u \in Tasks \ {t} :
         /\ task'[u].pc = task[u].pc /\ task'[u].reply = task[u].reply
         /\ task'[u].result = task[u].result /\ task'[u].void = task[u].void
  BY BeginOthers
<1>4. \A u \in Tasks : task'[u].void \subseteq task[u].void \cup history'.void
  BY <1>1, <1>2, <1>3
<1>5. Voided'
  BY <1>2, <1>4, VoidedKept DEF Forgotten
<1>6. \A u \in Tasks : Answered(u, "work")' => u # t /\ Answered(u, "work")
  BY <1>1, <1>3 DEF Answered, At
<1>7. ResetForgets'
  BY <1>3, <1>6 DEF Forgotten, ResetForgets
<1> QED BY <1>5, <1>7, BeginNumbered, BeginBySession, BeginByAgent DEF Forgotten

LEMMA NextForgotten == Typed /\ Typed' /\ Forgotten /\ [Next]_vars => Forgotten'
<1> SUFFICES ASSUME Typed, Typed', Forgotten, [Next]_vars PROVE Forgotten'
  OBVIOUS
<1>1. CASE UNCHANGED vars
  <2>1. UNCHANGED <<system, agents, task, content, late, counts, history>>
    BY <1>1 DEF vars, adapter, store
  <2>2. Numbered' /\ Voided' /\ ResetForgets'
    BY <2>1 DEF Forgotten, Numbered, Voided, ResetForgets, Answered, At
  <2>3. ForgottenBySession'
    BY <2>1 DEF Forgotten, ForgottenBySession, Absent, Wiped, Letta, Mem0
  <2>4. ForgottenByAgent'
    BY <2>1 DEF Forgotten, ForgottenByAgent, Fresh, Held, Reaches, Chosen, Known, At, Letta
  <2> QED BY <2>2, <2>3, <2>4 DEF Forgotten
<1>2. ASSUME NEW t \in Tasks, NEW op, NEW s, Called(op, s), Begin(t, op, s) PROVE Forgotten'
  BY <1>2, BeginForgotten
<1>3. ASSUME NEW t \in Tasks, Step(t) PROVE Forgotten'
  BY <1>3, StepForgotten
<1>4. ASSUME NEW t \in Tasks, Handle(t) PROVE Forgotten'
  BY <1>4, HandleForgotten
<1>5. ASSUME NEW c \in late, HandleLate(c) PROVE Forgotten'
  BY <1>5, HandleLateForgotten
<1> QED BY <1>1, <1>2, <1>3, <1>4, <1>5 DEF Next, Called

\* A read that begins after a reset has returned finds nothing that was written
\* before that reset began, whatever else ran meanwhile, failed, timed out or
\* was carried out late: base.py:5 of the hooks at mem0.py:219-226,
\* zep.py:270-278 and letta.py:234-245.
THEOREM ResetsForget == Spec => []ResetForgets
<1>1. Forgotten => ResetForgets
  BY DEF Forgotten
<1> QED BY <1>1, InitTyped, NextTyped, InitForgotten, NextForgotten, PTL DEF Spec
=============================================================================
