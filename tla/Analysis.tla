------------------------------ MODULE Analysis ------------------------------
(***************************************************************************)
(* The numbers computed from the logs (analysis/ingest.py, validation.py,  *)
(* metrics.py, statistics.py, rank.py, load/histogram.py), as operators.   *)
(*                                                                         *)
(* Events are records with the fields the computations read.  Fractions    *)
(* are kept exact: an operator that returns one says what it is scaled by. *)
(* Intervals of the normal distribution and bootstraps are left out.       *)
(***************************************************************************)
EXTENDS Naturals, Integers, Sequences, FiniteSets, TLC
LOCAL INSTANCE SequencesExt
LOCAL INSTANCE FiniteSetsExt

CONSTANT NULL   \* a missing value

Minimum(a, b) == IF a <= b THEN a ELSE b

Sorted(values) == SortSeq(values, <)

----------------------------------------------------------------------------
(* statistics.py and histogram.py.                                         *)

CeilDiv(a, b) == (a + b - 1) \div b

\* Nearest rank among the values that are not missing.
Percentile(values, q) ==
    LET vals == Sorted(SelectSeq(values, LAMBDA v : v # NULL))
        rank == CeilDiv(q * Len(vals), 100)
    IN  IF vals = <<>> THEN NULL ELSE vals[IF rank = 0 THEN 1 ELSE rank]

\* The quantile at num / den, interpolated, times den.
Quantile(values, num, den) ==
    LET xs == Sorted(values)
        pos == (Len(xs) - 1) * num
        lo == 1 + pos \div den
        hi == 1 + CeilDiv(pos, den)
    IN  IF values = <<>> THEN NULL ELSE xs[lo] * den + (xs[hi] - xs[lo]) * (pos % den)

Quantiles(values, p99) ==
    [p50 |-> Quantile(values, 50, 100), p95 |-> Quantile(values, 95, 100),
     p99 |-> IF p99 THEN Quantile(values, 99, 100) ELSE NULL]

\* Below Enough samples (100) no p99 is given.
Summary(values, Enough) == Quantiles(values, Len(values) >= Enough)

\* latency_of: the spread of the middle half, and the same threshold for a p99.
Samples(values, Enough) ==
    [n |-> Len(values), median |-> Quantile(values, 50, 100),
     iqr |-> IF values = <<>> THEN NULL
             ELSE Quantile(values, 75, 100) - Quantile(values, 25, 100),
     p99 |-> Summary(values, Enough).p99]

Choose(n, k) == Cardinality({s \in SUBSET (1..n) : Cardinality(s) = k})

\* McNemar: how many pairs disagree each way, and the p-value times 2^n.
McNemar(a, b) ==
    LET b01 == Cardinality({i \in DOMAIN a : ~a[i] /\ b[i]})
        b10 == Cardinality({i \in DOMAIN a : a[i] /\ ~b[i]})
        n == b01 + b10
        tail == MapThenSumSet(LAMBDA k : Choose(n, k), 0..Minimum(b01, b10))
    IN  [b01 |-> b01, b10 |-> b10, p |-> IF n = 0 THEN 1 ELSE Minimum(2^n, 2 * tail)]

----------------------------------------------------------------------------
(* rank.py: a row has a system, an accuracy, a p99 and its tokens.         *)

Dominates(o, r) ==
    /\ o.accuracy >= r.accuracy /\ o.p99 <= r.p99
    /\ o.accuracy > r.accuracy \/ o.p99 < r.p99

Pareto(rows) == SelectSeq(rows, LAMBDA r : ~\E o \in ToSet(rows) : Dominates(o, r))

Admissible(row, maxP99, maxTokens) ==
    /\ maxP99 = NULL \/ row.p99 <= maxP99
    /\ maxTokens = NULL \/ row.tokens <= maxTokens

\* The admissible rows, the most accurate first, the fastest among equals; the
\* sort is stable.
ConstrainedRank(rows, maxP99, maxTokens) ==
    LET ok == SelectSeq(rows, LAMBDA r : Admissible(r, maxP99, maxTokens))
        better(r, s) == r.accuracy > s.accuracy \/ (r.accuracy = s.accuracy /\ r.p99 < s.p99)
        before(i, j) == better(ok[i], ok[j]) \/ (~better(ok[j], ok[i]) /\ i < j)
        order == SortSeq([i \in DOMAIN ok |-> i], before)
    IN  [i \in DOMAIN ok |-> ok[order[i]]]

Inversion(rows, maxP99, maxTokens) ==
    LET base == ConstrainedRank(rows, NULL, NULL)
        constrained == ConstrainedRank(rows, maxP99, maxTokens)
    IN  base # <<>> /\ constrained # <<>> /\ base[1].system # constrained[1].system

----------------------------------------------------------------------------
(* ingest.py and validation.py.                                            *)

Of(events, type) == SelectSeq(events, LAMBDA e : e.event_type = type)

\* A log is read as a whole or not at all: a blank line is nothing, a corrupt
\* one an error.
ReadsJsonl(lines) == Of(lines, "corrupt") = <<>>

ReadJsonl(lines) == SelectSeq(lines, LAMBDA l : l.event_type # "blank")

\* load_run takes a run with exactly one RUN_START, its own.
LoadsRun(events, run) ==
    LET starts == Of(events, "RUN_START")
    IN  Len(starts) = 1 /\ starts[1].run_id = run

\* The model calls of a run, from the proxy logs it is given.
ModelCalls(logs, run) ==
    SelectSeq(FlattenSeq(logs), LAMBDA e : e.event_type = "MODEL_CALL" /\ e.run_id = run)

\* The checks of validate_run on the events of one log (the fields of
\* RUN_START are abstracted to whether they make the run canonical).
Validates(events) ==
    LET starts == Of(events, "RUN_START")
    IN  /\ Len(starts) = 1 /\ Len(Of(events, "RUN_END")) = 1
        /\ starts[1].run_id # NULL /\ starts[1].canonical
        /\ \A i \in DOMAIN events : events[i].run_id \in {NULL, starts[1].run_id}

----------------------------------------------------------------------------
(* metrics.py.                                                             *)

Total(rows, value(_)) == FoldLeft(LAMBDA sum, r : sum + value(r), 0, rows)

Count(rows, test(_)) == Len(SelectSeq(rows, test))

\* Verdicts and errors of a run; the denominators of the two accuracies are
\* judged and instances.
Accuracy(events) ==
    LET judged == Of(events, "JUDGE_END")
        ends == Of(events, "INSTANCE_END")
        types == {e.question_type : e \in ToSet(judged)}
        ofType(t) == SelectSeq(judged, LAMBDA e : e.question_type = t)
        right(e) == e.correct
    IN  [judged |-> Len(judged), correct |-> Count(judged, right),
         errored |-> Count(ends, LAMBDA e : e.error), instances |-> Len(ends),
         per_type |-> [t \in types |-> [n |-> Len(ofType(t)), correct |-> Count(ofType(t), right)]]]

Succeeded(call) == call.status = "success"

\* fillna(0)
Tokens(call) == IF call.total_tokens = NULL THEN 0 ELSE call.total_tokens

\* Faulty variant: groupby leaves out the calls without an operation.
NamedOperations(calls) == {c.operation : c \in ToSet(calls)} \ {NULL}

\* The groups of groupby("operation", dropna=False).
Operations(calls) == {c.operation : c \in ToSet(calls)}

\* Calls, errors and tokens, in all and by operation; the tokens of the
\* sessions leave out the calls that have none.  Without calls there is no cost.
Cost(calls) ==
    LET ok(rows) == SelectSeq(rows, Succeeded)
        group(op) == SelectSeq(calls, LAMBDA c : c.operation = op)
        session(s) == SelectSeq(ok(calls), LAMBDA c : c.session_id = s)
        sessions == {c.session_id : c \in ToSet(ok(calls))} \ {NULL}
        figures(rows) == [calls |-> Len(rows), errors |-> Len(rows) - Len(ok(rows)),
                          tokens |-> Total(ok(rows), Tokens)]
    IN  IF calls = <<>> THEN [available |-> FALSE]
        ELSE [available |-> TRUE,
              all |-> figures(calls),
              by_operation |-> [op \in Operations(calls) |-> figures(group(op))],
              per_session |-> [s \in sessions |-> Total(session(s), Tokens)]]

Field(rows, field) == [k \in DOMAIN rows |-> rows[k][field]]

Percentiles(values) ==
    [p50 |-> Percentile(values, 50), p95 |-> Percentile(values, 95),
     p99 |-> Percentile(values, 99), n |-> Count(values, LAMBDA v : v # NULL)]

\* The waits of a run: how many settled, how many at the first poll, their lags.
SettlementOf(events) ==
    LET settled == Of(events, "WRITE_SETTLED")
    IN  [n_settled |-> Len(settled), n_timeouts |-> Len(Of(events, "SETTLEMENT_TIMEOUT")),
         first_poll |-> Count(settled, LAMBDA e : e.polls = 1),
         lag |-> Percentiles(Field(settled, "lag"))]

\* The reads of a run are those of the benchmark, not the polls.
Latency(events) ==
    LET reads == SelectSeq(Of(events, "READ_END"), LAMBDA e : e.operation = "read")
    IN  [write_ack |-> Percentiles(Field(Of(events, "WRITE_ACK"), "lag")),
         read |-> Percentiles(Field(reads, "lag"))]

\* The bounds of the settled canaries.
VisibilityIntervals(events) ==
    LET shown == SelectSeq(events, LAMBDA e : e.event_type = "WRITE_SETTLED" /\ e.lag # NULL)
    IN  [k \in DOMAIN shown |-> <<shown[k].lower, shown[k].lag>>]

=============================================================================
