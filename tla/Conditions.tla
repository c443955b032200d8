------------------------------ MODULE Conditions ------------------------------
(***************************************************************************)
(* The condition language of event triggers (apps/observer/triggers) over  *)
(* the ticks that evaluate it: what build_snapshot records for the leaves  *)
(* of the live triggers, in document order, the last values it keeps in    *)
(* Redis for the crossing operators, and what the evaluator makes of them. *)
(* The leaves are about one symbol: its price, and an indicator (rsi, for  *)
(* all of them) with its default period spelled out or left out. The guard *)
(* of a thesis is such a condition.                                        *)
(***************************************************************************)
EXTENDS Integers, Sequences

CONSTANTS
    Quotes,       \* values a metric takes, integers
    Levels,       \* the values leaves compare with
    NoValue,      \* None: no quote, or a key that is not there
    MaxLeaves     \* bound: leaves of a condition

ASSUME ConditionsAssumption ==
    /\ Quotes \subseteq Int /\ Levels \subseteq Int /\ NoValue \notin Int /\ MaxLeaves \in Nat

VARIABLES
    condition,    \* all, any or not, over leaves
    stored,       \* trigger:last:{key} in Redis
    metrics,      \* the snapshot of this tick: values by key, and _prior: values
    before        \* history: what each key's value was at the last tick that had one

conditionsVars == <<condition, stored, metrics, before>>

\* leaf_key: what the evaluator looks up.
Keys == {"price", "rsi:14", "rsi:None"}

\* leaf_key of the leaf with resolved_params.
Resolved(key) == IF key = "rsi:None" THEN "rsi:14" ELSE key

CrossingOps == {"crosses_above", "crosses_below"}
Leaf        == [key : Keys, op : CrossingOps \cup {">", "<="}, value : Levels]   \* other comparisons are like these

\* validate_condition admits any nesting; one group, which "not" may wrap.
Condition ==
    [negated : BOOLEAN, group : {"all", "any"}, leaves : UNION {[1 .. n -> Leaf] : n \in 1 .. MaxLeaves}]

\* build_guard_condition; a level that is not set has no leaf.
Guard(bearish, target, invalidation) ==
    LET leaf(op, level) ==
            IF level = NoValue THEN <<>> ELSE <<[key |-> "price", op |-> op, value |-> level]>>
    IN  [negated |-> FALSE, group |-> "any", leaves |->
            leaf(IF bearish THEN "crosses_below" ELSE "crosses_above", target) \o
            leaf(IF bearish THEN "crosses_above" ELSE "crosses_below", invalidation)]

Nothing == [k \in Keys |-> NoValue]
Reading == Quotes \cup {NoValue}

ConditionsInit ==
    /\ condition \in Condition
    /\ stored = Nothing /\ metrics = [values |-> Nothing, priors |-> Nothing] /\ before = Nothing

-----------------------------------------------------------------------------
(* build_snapshot                                                          *)

Known(new, old) == IF new = NoValue THEN old ELSE new

\* Mutant: the last price is stored before the prior is read.
RecordLast(acc, leaf, quote) ==
    LET last == Known(quote, acc.stored["price"])
    IN  [acc EXCEPT !.values["price"] = quote,
                    !.priors["price"] = IF leaf.op \in CrossingOps THEN last ELSE @,
                    !.stored["price"] = last]

\* _record_last_metric: once for every leaf, each reading what the one before wrote.
RecordPrice(acc, leaf, quote) ==
    [acc EXCEPT !.values["price"] = quote,
                !.priors["price"] = IF leaf.op \in CrossingOps THEN acc.stored["price"] ELSE @,
                !.stored["price"] = Known(quote, @)]

\* _record_indicator: once for every key, for the first leaf that has it.
RecordIndicator(acc, leaf, value) ==
    LET key == Resolved(leaf.key)
    IN  IF key \in acc.seen THEN acc
        ELSE [acc EXCEPT !.seen = @ \cup {key},
                         !.values[key] = value,
                         !.priors[key] = IF leaf.op \in CrossingOps THEN acc.stored[key] ELSE @,
                         !.stored[key] = IF leaf.op \in CrossingOps THEN Known(value, @) ELSE @]

RecordLeaf(acc, leaf, value) ==
    IF leaf.key = "price" THEN RecordPrice(acc, leaf, value) ELSE RecordIndicator(acc, leaf, value)

\* The leaves in document order, each on top of what those before it recorded.
Snapshot(value) ==
    LET leaves == condition.leaves
        taken[i \in 0 .. Len(leaves)] ==
            IF i = 0 THEN [values |-> Nothing, priors |-> Nothing, stored |-> stored, seen |-> {}]
                     ELSE RecordLeaf(taken[i - 1], leaves[i], value)
    IN  taken[Len(leaves)]

\* One tick of build_snapshot: the quote, from which the indicator follows, or none.
MetricsTick(value) ==
    LET taken == Snapshot(value)
    IN  /\ metrics' = [values |-> taken.values, priors |-> taken.priors]
        /\ stored' = taken.stored
    /\ before' = [k \in Keys |-> Known(metrics.values[k], before[k])]
    /\ UNCHANGED condition

\* The stored value outlives its TTL (60 s for prices, an hour for indicators)
\* before the next tick. The values of this tick have been evaluated by then.
PriorExpires(key) ==
    /\ stored[key] # NoValue
    /\ stored' = [stored EXCEPT ![key] = NoValue]
    /\ before' = [before EXCEPT ![key] = NoValue]
    /\ metrics' = [metrics EXCEPT !.values[key] = NoValue, !.priors[key] = NoValue]
    /\ UNCHANGED condition

ConditionsNext ==
    \/ \E value \in Quotes \cup {NoValue} : MetricsTick(value)
    \/ \E key \in Keys : PriorExpires(key)

ConditionsSpec == ConditionsInit /\ [][ConditionsNext]_conditionsVars

-----------------------------------------------------------------------------
(* The evaluator                                                           *)

\* Mutant: reaching the level is crossing it.
EvalTouch(leaf) ==
    LET current == metrics.values[leaf.key]
        prior   == metrics.priors[leaf.key]
    IN  /\ current # NoValue
        /\ \/ leaf.op = ">" /\ current > leaf.value
           \/ leaf.op = "<=" /\ current <= leaf.value
           \/ leaf.op = "crosses_above" /\ prior # NoValue /\ prior <= leaf.value /\ leaf.value <= current
           \/ leaf.op = "crosses_below" /\ prior # NoValue /\ prior >= leaf.value /\ leaf.value > current

EvalLeaf(leaf) ==
    LET current == metrics.values[leaf.key]
        prior   == metrics.priors[leaf.key]
    IN  /\ current # NoValue
        /\ \/ leaf.op = ">" /\ current > leaf.value
           \/ leaf.op = "<=" /\ current <= leaf.value
           \/ leaf.op = "crosses_above" /\ prior # NoValue /\ prior <= leaf.value /\ leaf.value < current
           \/ leaf.op = "crosses_below" /\ prior # NoValue /\ prior >= leaf.value /\ leaf.value > current

Evaluate(c) ==
    LET matched == IF c.group = "all" THEN \A i \in DOMAIN c.leaves : EvalLeaf(c.leaves[i])
                                      ELSE \E i \in DOMAIN c.leaves : EvalLeaf(c.leaves[i])
    IN  c.negated # matched

-----------------------------------------------------------------------------
(* Properties                                                              *)

\* The condition is one, and what is recorded of its metrics are readings.
ConditionsTypeOK ==
    /\ condition.leaves \in Seq(Leaf)
    /\ stored \in [Keys -> Reading] /\ before \in [Keys -> Reading]
    /\ metrics \in [values : [Keys -> Reading], priors : [Keys -> Reading]]

\* What the operators are to mean: the value was on one side of the level, or on it,
\* and has gone over to the other side.
Crossed(leaf) ==
    LET old == before[leaf.key]
        new == metrics.values[leaf.key]
    IN  /\ old # NoValue /\ new # NoValue
        /\ \/ leaf.op = "crosses_above" /\ ~(old > leaf.value) /\ new > leaf.value
           \/ leaf.op = "crosses_below" /\ ~(old < leaf.value) /\ new < leaf.value

\* However leaves share a stored value, none matches a cross that was not one; and
\* a crossing leaf that is alone, and spells out its parameters, matches every
\* cross, whatever quotes were missing, until the stored value expires.
CrossesAreReal ==
    \A i \in DOMAIN condition.leaves :
        LET leaf  == condition.leaves[i]
            alone == Len(condition.leaves) = 1 /\ leaf.key = Resolved(leaf.key)
        IN  leaf.op \in CrossingOps =>
                /\ EvalLeaf(leaf) => Crossed(leaf)
                /\ alone /\ Crossed(leaf) => EvalLeaf(leaf)

\* "the price guard fires a capture + AI run on every cross": a guard matches when
\* one of its levels was crossed. Violated by every guard with both levels: the
\* second leaf reads as its prior the price the first one has just stored.
GuardSeesEveryCross ==
    \A bearish \in BOOLEAN, target, invalidation \in Levels \cup {NoValue} :
        condition = Guard(bearish, target, invalidation) /\
        (\E i \in DOMAIN condition.leaves : Crossed(condition.leaves[i])) => Evaluate(condition)
==============================================================================
