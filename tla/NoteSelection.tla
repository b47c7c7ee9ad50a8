--------------------------- MODULE NoteSelection ---------------------------
(***************************************************************************)
(* What a transaction of the wallet spends and pays (pay/fee.rs,           *)
(* pay/solve.rs and the pure core of pay/plan.rs): the ZIP 317 fee, the    *)
(* choice of notes that keeps value within its pool, the change.           *)
(*                                                                         *)
(* A note is a record with its pool, its value in zatoshis and `big`, for  *)
(* a transparent coin held by an uncompressed key; an output has a pool, a *)
(* value and `own`, for what comes back to the wallet.  ZEC only.          *)
(***************************************************************************)
EXTENDS Integers, Sequences, FiniteSetsExt

Transparent == 0
Sapling == 1
Orchard == 2
Ironwood == 3
Pools == {Transparent, Sapling, Orchard, Ironwood}
Shielded == Pools \ {Transparent}

ValueOf(notes) == MapThenSumSet(LAMBDA n : n.value, notes)
Of(notes, p) == {n \in notes : n.pool = p}

PaidTo(outs, pools) ==
    MapThenSumSet(LAMBDA i : outs[i].value, {i \in DOMAIN outs : outs[i].pool \in pools})
Paid(outs) == PaidTo(outs, Pools)
Counts(outs) == [p \in Pools |-> Cardinality({i \in DOMAIN outs : outs[i].pool = p})]

-----------------------------------------------------------------------------
\* The fee.  Transparent inputs are priced by their bytes; a shielded bundle
\* has two actions at least.  In a migration an Orchard action holds a spend
\* or an output and not both.

InputSize(n) == IF n.big THEN 181 ELSE 150
ByteActions(coins) == (MapThenSumSet(InputSize, coins) + 149) \div 150
Padded(actions) == IF actions = 0 THEN 0 ELSE Max({actions, 2})

LogicalActions(notes, counts, migration) ==
    LET inputs(p) == Cardinality(Of(notes, p))
        most(p) == Max({inputs(p), counts[p]})
        transparent == Max({ByteActions(Of(notes, Transparent)), counts[Transparent]})
        orchard == IF migration THEN inputs(Orchard) + counts[Orchard] ELSE most(Orchard)
    IN  Max({2, transparent + Padded(most(Sapling)) + Padded(orchard) + Padded(most(Ironwood))})

Fee(notes, counts, migration, cost) == cost * LogicalActions(notes, counts, migration)

-----------------------------------------------------------------------------
\* The search.  A wish `w` holds the outputs, the marginal fee `cost`, and
\* whether the first recipient pays the fee.  The fee is that of a
\* transaction with a change output in pool `cp`, whatever the change.

FeeWithChange(notes, cp, w) ==
    Fee(notes, [Counts(w.outs) EXCEPT ![cp] = @ + 1], w.migration, w.cost)

Needed(notes, cp, w) == Paid(w.outs) + IF w.payer THEN 0 ELSE FeeWithChange(notes, cp, w)

Feasible(notes, cp, w) ==
    /\ w.payer => FeeWithChange(notes, cp, w) <= w.outs[1].value
    /\ ValueOf(notes) >= Needed(notes, cp, w)

\* The value that crosses from a pool to another, in the open.
Turnstile(notes, cp, w) ==
    LET change == ValueOf(notes) - Needed(notes, cp, w)
        balance(p) == ValueOf(Of(notes, p)) - PaidTo(w.outs, {p})
                        - IF p = cp THEN change ELSE 0
    IN  ValueOf(Of(notes, Transparent)) + PaidTo(w.outs, {Transparent})
            + MapThenSumSet(LAMBDA p : Max({balance(p), -balance(p)}), Shielded)

ChangePools(notes, w) == {cp \in Pools : Feasible(notes, cp, w)}

\* Privacy first, then the fee.
Better(a, b) == a[1] < b[1] \/ (a[1] = b[1] /\ a[2] < b[2])

\* The first pool among those of the best score, and that score.
Scores(notes, w) ==
    [cp \in ChangePools(notes, w) |-> <<Turnstile(notes, cp, w), FeeWithChange(notes, cp, w)>>]

ChangePool(notes, w) ==
    LET score == Scores(notes, w)
    IN  Min({cp \in DOMAIN score : \A q \in DOMAIN score : ~Better(score[q], score[cp])})

BestScore(notes, w) == Scores(notes, w)[ChangePool(notes, w)]

\* The largest notes first, until they are enough.
Largest(taken, notes) == \A n \in taken, m \in notes \ taken : n.value >= m.value

Greedy(notes, w) ==
    LET enough == {taken \in SUBSET notes : Largest(taken, notes) /\ ChangePools(taken, w) # {}}
    IN  {taken \in enough : ~\E fewer \in enough : fewer \subseteq taken /\ fewer # taken}

\* The search stops when its time or its nodes run out: it returns the
\* greedy choice, or one that scores better.  No choice is an error.
SelectNotes(notes, w) ==
    LET usable == {n \in notes : n.value >= w.cost}
        greedy == {BestScore(taken, w) : taken \in Greedy(usable, w)}
    IN  {taken \in SUBSET usable :
            /\ ChangePools(taken, w) # {}
            /\ \E score \in greedy : ~Better(score, BestScore(taken, w))}

-----------------------------------------------------------------------------
\* plan_outputs: the request `r` restricts the notes, `tip` is the height it
\* is planned at.  A plan is what is spent, the outputs and the change.

Candidates(notes, r, tip) ==
    {n \in notes : /\ n.pool \in r.pools
                   /\ n.height <= Max({0, tip - r.confirmations})
                   /\ r.migration => n.id \in r.notes}

PlanOf(taken, w) ==
    LET pool == ChangePool(taken, w)
        fee == FeeWithChange(taken, pool, w)
        outs == IF w.payer THEN [w.outs EXCEPT ![1].value = @ - fee] ELSE w.outs
    IN  [notes |-> taken, outs |-> outs, pool |-> pool, fee |-> fee,
         change |-> ValueOf(taken) - Paid(outs) - fee]

Plans(notes, r, tip, cost) ==
    LET w == [outs |-> r.outs, cost |-> cost, payer |-> r.payer, migration |-> r.migration]
    IN  {PlanOf(taken, w) : taken \in SelectNotes(Candidates(notes, r, tip), w)}

\* The outputs of the transaction: there is no change of zero.
Outputs(plan) ==
    plan.outs \o IF plan.change = 0 THEN <<>>
                 ELSE <<[pool |-> plan.pool, value |-> plan.change, own |-> TRUE]>>

\* The outputs that are built: a transparent one of zero is not.
Built(outs) ==
    [p \in Pools |-> Cardinality({i \in DOMAIN outs :
        outs[i].pool = p /\ (p = Transparent => outs[i].value # 0)})]

\* The builder takes no other fee than that of the transaction it is given.
Balances(plan, migration, cost) ==
    plan.fee = Fee(plan.notes, Built(Outputs(plan)), migration, cost)

-----------------------------------------------------------------------------
\* The denominations of a migration: a power of ten of at least 100_000, and
\* in Orchard the fee of its move to Ironwood on top.  The code goes up to
\* 10^15.

MaxExponent == 8
Exponents == 5..MaxExponent

MinSD(cost) == 100 * cost
FeePad(cost) == 4 * cost
IsIwSD(value) == \E k \in Exponents : value = 10^k
IsSD(value, pad) == value > pad /\ IsIwSD(value - pad)

\* As many of each denomination as fit, the largest first.
DecomposeToSD(total, pad) ==
    LET denom(k) == 10^k + pad
        left[k \in 5..MaxExponent + 1] ==
            IF k > MaxExponent THEN total ELSE left[k + 1] % denom(k)
        units[k \in 5..MaxExponent + 1] ==
            IF k > MaxExponent THEN <<>>
            ELSE units[k + 1] \o [i \in 1..(left[k + 1] \div denom(k)) |-> denom(k)]
    IN  units[5]

SumOf(values, n) == MapThenSumSet(LAMBDA i : values[i], 1..n)

\* Mutant: the change output is not priced.
SplitFeeNoChange(inputs, outputs, cost) == cost * Max({2, inputs + outputs})

SplitFee(inputs, outputs, cost) == cost * Max({2, inputs + outputs + 1})

\* The smallest denominations are dropped until what is left pays the fee.
PlanSplit(total, inputs, cost) ==
    LET units == DecomposeToSD(total, FeePad(cost))
        paid(n) == SplitFee(inputs, n, cost) <= total - SumOf(units, n)
        kept == CHOOSE n \in 0..Len(units) :
                    /\ n = 0 \/ paid(n)
                    /\ \A m \in (n + 1)..Len(units) : ~paid(m)
    IN  IF total < MinSD(cost) THEN <<>> ELSE SubSeq(units, 1, kept)
=============================================================================
