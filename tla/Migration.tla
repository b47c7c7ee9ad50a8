----------------------------- MODULE Migration -----------------------------
(***************************************************************************)
(* The migration of an account's Orchard notes to Ironwood (migrate/, and  *)
(* the loop of api/migrate.rs): observe the wallet, decide the next task,  *)
(* check it against a second observation, carry it out through the         *)
(* planner of payments, wait, and again.  Users of the same wallet pay     *)
(* meanwhile, and blocks, synchronizations, rewinds and locks fall         *)
(* anywhere.  The server's single step decides and acts without the check. *)
(***************************************************************************)
EXTENDS Spending

CONSTANTS Migrator,       \* the sender that the migration is
          Requests,       \* what the users ask for
          Bucket,         \* anchor_bucket_size
          MaxSplitInputs  \* MAX_SPLIT_INPUTS

ASSUME MigrationAssumption ==
    /\ Migrator \in Senders
    /\ Bucket \in Nat \ {0}
    /\ MaxSplitInputs \in Nat \ {0}
    /\ \A r \in Requests :
           /\ r.kind \notin {"none", "split", "hop"} /\ ~r.migration
           /\ r.outs \in Seq([pool : Pools, value : Nat, own : BOOLEAN])
           /\ r.payer => r.outs # <<>>

VARIABLES run,   \* where the loop stands, or "once" in a single step
          task,
          sent,  \* the transaction of the task, once accepted
          last,  \* Pacing: last_action_height (its delay is any time)
          acts   \* history: the tips at which this run had a transaction accepted

runVars == <<run, task, sent, last, acts>>
vars == <<spendVars, runVars>>

Users == Senders \ {Migrator}
NoTask == NoRequest
NoHeight == -1

TypeOK ==
    /\ SpendingTypeOK
    /\ run \in {"off", "loop", "check", "execute", "once"}
    /\ task.kind \in {"none", "split", "hop"}
    /\ sent \in 0..Len(txs)
    /\ last \in 0..MaxHeight \cup {NoHeight}
    /\ \A i \in DOMAIN acts : acts[i] \in 0..MaxHeight
    /\ pc[Migrator] # "idle" \/ sent # 0 => run \in {"execute", "once"} /\ task = NoTask

Init ==
    /\ SpendingInit
    /\ run = "off" /\ task = NoTask
    /\ sent = 0 /\ last = NoHeight
    /\ acts = <<>>

-----------------------------------------------------------------------------
\* observe and next_task.

Pad == FeePad(CostPerAction(Tip + 1))
OrchardNotes == Of(FreeNotes, Orchard)
SdNotes == {n \in OrchardNotes : IsSD(n.value, Pad)}
NonSdNotes == OrchardNotes \ SdNotes

\* The largest, as many as a split may spend.
CappedNonSd ==
    CHOOSE notes \in SUBSET NonSdNotes :
        /\ Cardinality(notes) = Min({MaxSplitInputs, Cardinality(NonSdNotes)})
        /\ Largest(notes, NonSdNotes)

SplitOutputs == PlanSplit(ValueOf(CappedNonSd), Cardinality(CappedNonSd), CostPerAction(Tip + 1))

OwnOutputTo(p, value) == [pool |-> p, value |-> value, own |-> TRUE]

Task(kind, notes, outs, anchor) ==
    [kind |-> kind, outs |-> outs, pools |-> {Orchard}, payer |-> FALSE, confirmations |-> 0,
     migration |-> TRUE, notes |-> {n.id : n \in notes}, anchor |-> anchor]

Splits ==
    IF SplitOutputs = <<>> THEN {}
    ELSE {Task("split", CappedNonSd,
               [i \in DOMAIN SplitOutputs |-> OwnOutputTo(Orchard, SplitOutputs[i])], 0)}

SpendableAt(anchor) == {n \in SdNotes : n.height <= anchor}
Hop(n) == Task("hop", {n}, <<OwnOutputTo(Ironwood, n.value - Pad)>>, checkpoint)

\* Mutant: the wallet need not stand on a boundary.
HopsAnywhere == {Hop(n) : n \in SpendableAt(checkpoint)}

\* pick_sd takes the largest commitment, which is any.
Hops == {Hop(n) : n \in {m \in SpendableAt(checkpoint) : checkpoint % Bucket = 0}}

Done == Splits = {} /\ SdNotes = {}
MayAct == last = NoHeight \/ Tip > last
Effects == IF Splits # {} THEN Splits ELSE Hops

\* is_satisfied_by.
Satisfied(t) ==
    \/ t.kind = "split" /\ t.notes \subseteq {n.id : n \in NonSdNotes}
    \/ /\ t.kind = "hop" /\ checkpoint = t.anchor /\ t.anchor % Bucket = 0
       /\ t.notes \subseteq {n.id : n \in SpendableAt(t.anchor)}

-----------------------------------------------------------------------------
\* The loop.

StartRun ==
    /\ run = "off" /\ run' = "loop"
    /\ UNCHANGED <<spendVars, task, sent, last, acts>>

NextTask ==
    /\ run = "loop" /\ ~Done /\ MayAct
    /\ task' \in Effects
    /\ run' = "check"
    /\ UNCHANGED <<spendVars, sent, last, acts>>

Revalidate ==
    /\ run = "check"
    /\ \/ Satisfied(task) /\ run' = "execute" /\ task' = task
       \/ ~Satisfied(task) /\ run' = "loop" /\ task' = NoTask
    /\ UNCHANGED <<spendVars, sent, last, acts>>

\* step_once: no delay to serve, no second look.
StepOnce ==
    /\ run = "off" /\ ~Done
    /\ task' \in Effects
    /\ run' = "once"
    /\ UNCHANGED <<spendVars, sent, last, acts>>

\* execute: plan_transaction, and send.
PlanTask ==
    /\ run \in {"execute", "once"} /\ task # NoTask
    /\ PlanTx(Migrator, task)
    /\ task' = NoTask
    /\ UNCHANGED <<run, sent, last, acts>>

SendTask ==
    /\ \/ BuildTx(Migrator) /\ UNCHANGED <<sent, acts>>
       \/ Post(Migrator) /\ sent' = Len(txs') /\ acts' = Append(acts, Tip)
    /\ UNCHANGED <<run, task, last>>

SentAndRecorded == run = "execute" /\ sent # 0 /\ sent \notin queued

\* Mutant: the height is the one the transaction was planned at.
AfterEffectPlanned ==
    /\ SentAndRecorded
    /\ run' = "loop" /\ last' = txs[sent].expiry - ExpiryDelta /\ sent' = 0
    /\ UNCHANGED <<spendVars, task, acts>>

\* The record is applied, or failed, or was never queued.  The height is read
\* after that.
AfterEffect ==
    /\ SentAndRecorded
    /\ run' = "loop" /\ last' = Tip /\ sent' = 0
    /\ UNCHANGED <<spendVars, task, acts>>

\* The loop reports Done, a step is over, an error ends either, or a cancel
\* drops the task wherever it stands.
Stops ==
    /\ run' = "off" /\ task' = NoTask /\ sent' = 0
    /\ last' = NoHeight /\ acts' = <<>>

\* Mutant: the transaction under way is not dropped.
EndRunOnly == run # "off" /\ Stops /\ UNCHANGED spendVars

EndRun ==
    /\ run # "off"
    /\ Forget(Migrator)
    /\ Stops

-----------------------------------------------------------------------------
UserStep(s) ==
    /\ \/ \E r \in Requests : PlanTx(s, r)
       \/ BuildTx(s) \/ Post(s)
       \/ pc[s] # "idle" /\ Forget(s)
    /\ UNCHANGED runVars

Crash == Die /\ Stops

Next ==
    \/ StartRun \/ NextTask \/ Revalidate \/ StepOnce \/ PlanTask \/ SendTask
    \/ AfterEffect \/ EndRun
    \/ \E s \in Users : UserStep(s)
    \/ Around /\ UNCHANGED runVars
    \/ Crash

Spec == Init /\ [][Next]_vars

-----------------------------------------------------------------------------
\* Whatever moved between the decision and the transaction (a block, a
\* synchronization, the fee's schedule, another payment), what is accepted
\* as a move to Ironwood tells as little as it should: it spends one Orchard
\* note against a shared boundary, and mints one power of ten (next_task,
\* is_satisfied_by, plan_transaction's check of the anchor).
HopIsStandard ==
    \A t \in DOMAIN txs : txs[t].kind = "hop" =>
        /\ txs[t].anchor % Bucket = 0
        /\ Cardinality(txs[t].spends) = 1
        /\ \A id \in txs[t].spends : HeightOf(id[1]) <= txs[t].anchor
        /\ \A i \in DOMAIN txs[t].outs :
            IF i = 1 THEN txs[t].outs[i].pool = Ironwood /\ IsIwSD(txs[t].outs[i].value)
                     ELSE txs[t].outs[i].pool = Orchard

\* A run never has two transactions accepted at one height (Pacing), though
\* each is posted long after the tip was read.
OncePerBlock == \A i, j \in DOMAIN acts : i < j => acts[i] < acts[j]

\* A task that still holds can be paid: the split's and the hop's own
\* arithmetic (plan_split, the pad) agree with the planner and the builder.
\* Not when the split leaves no change at all: see the README.
TaskIsPayable ==
    run = "execute" /\ task # NoTask /\ Satisfied(task) =>
        /\ OrderedPlans(task) # {}
        /\ \A p \in OrderedPlans(task) :
            p.change > 0 \/ task.kind = "hop" =>
                Balances(p, TRUE, CostPerAction(Tip + 1))
=============================================================================
