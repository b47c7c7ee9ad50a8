------------------------------ MODULE Spending ------------------------------
(***************************************************************************)
(* How the wallet spends (pay/plan.rs, pay/material.rs, pay/broadcast.rs,  *)
(* api/pay.rs, and the notes, spends and locks of sync/chain_log.rs): a    *)
(* sender plans from the notes the database shows, builds, posts outside   *)
(* the sync session, and queues the record of what it sent on the sync     *)
(* driver.  A recorded transaction locks its notes until a synchronization *)
(* finds it mined.                                                         *)
(*                                                                         *)
(* The node and the chain are external.  The chain does not reorganize     *)
(* here: what a reorganization does to the tables is a rewind.             *)
(***************************************************************************)
EXTENDS NoteSelection

CONSTANTS Senders,      \* each is one task that sends
          Fundings,     \* the notes an account may begin with, as sequences
          ReducedFrom,  \* the height of ZIP 2009's fee
          ExpiryDelta,  \* blocks after its planning that a transaction is valid
          MaxHeight,    \* bound on the chain
          MaxSent,      \* bound on the transactions accepted
          MaxDeeds      \* bound on the user's payments, rewinds and lock changes

ASSUME SpendingAssumption ==
    /\ Fundings \subseteq Seq([pool : Pools, value : Nat, big : BOOLEAN])
    /\ ReducedFrom \in Nat /\ ExpiryDelta \in Nat
    /\ MaxHeight \in Nat /\ MaxSent \in Nat /\ MaxDeeds \in Nat

VARIABLES funding,    \* the notes the account began with
          chain,      \* the transactions of each block
          mempool,    \* accepted and not mined
          txs,        \* every transaction accepted
          have,       \* rows of notes
          spent,      \* rows of spends
          locked,     \* notes.locked
          checkpoint, \* sync_heights
          pc, plan,   \* of each sender
          queued,     \* records waiting in the sync driver
          deeds,      \* the user's payments, rewinds and lock changes so far
          held        \* history: notes of recorded transactions, whose lock or
                      \* spend neither the user nor a rewind undid

chainVars == <<funding, chain, mempool, txs>>
dbVars == <<have, spent, locked, checkpoint, held>>
senderVars == <<pc, plan>>
spendVars == <<chainVars, dbVars, senderVars, queued, deeds>>

Tip == Len(chain)

CostPerAction(height) == IF height >= ReducedFrom THEN 1000 ELSE 5000

-----------------------------------------------------------------------------
\* A note is named by its transaction, 0 for the funding, and its output.

NoteAt(id) == IF id[1] = 0 THEN funding[id[2]] ELSE txs[id[1]].outs[id[2]]

MinedBetween(low, high) == UNION {chain[h] : h \in (low + 1)..high}
HeightOf(t) == IF t = 0 THEN 0 ELSE CHOOSE h \in 1..Tip : t \in chain[h]

OwnNotes(t) == {<<t, i>> : i \in {j \in DOMAIN txs[t].outs : txs[t].outs[j].own}}

\* What the blocks above `low`, up to `high`, give and take.
NotesBetween(low, high) == UNION {OwnNotes(t) : t \in MinedBetween(low, high)}
SpendsBetween(low, high) == UNION {txs[t].spends : t \in MinedBetween(low, high)}

\* fetch_unspent_notes: neither spent nor locked.
Free == have \ (spent \cup locked)

Row(id) == [id |-> id, pool |-> NoteAt(id).pool, value |-> NoteAt(id).value,
            big |-> id[1] = 0 /\ NoteAt(id).big, height |-> HeightOf(id[1])]
FreeNotes == {Row(id) : id \in Free}

-----------------------------------------------------------------------------
NoRequest == [kind |-> "none", outs |-> <<>>, pools |-> {}, payer |-> FALSE,
              confirmations |-> 0, migration |-> FALSE, notes |-> {}, anchor |-> 0]
NoPlan == [kind |-> "none", spends |-> {}, outs |-> <<>>, anchor |-> 0, expiry |-> 0]

SpendingInit ==
    /\ funding \in Fundings
    /\ chain = <<>> /\ mempool = {} /\ txs = <<>>
    /\ have = {<<0, i>> : i \in DOMAIN funding}
    /\ spent = {} /\ locked = {} /\ checkpoint = 0 /\ held = {}
    /\ pc = [s \in Senders |-> "idle"]
    /\ plan = [s \in Senders |-> NoPlan]
    /\ queued = {} /\ deeds = 0

Deed == deeds < MaxDeeds /\ deeds' = deeds + 1

\* The first half of plan_transaction, for the request `r` (prepare, or a
\* task of a migration): the notes, the tip, plan_outputs.
OrderedPlans(r) == Plans(FreeNotes, r, Tip, CostPerAction(Tip + 1))

PlanTx(s, r) ==
    /\ pc[s] = "idle"
    /\ \/ r.migration /\ UNCHANGED deeds
       \/ ~r.migration /\ Deed
    /\ pc' = [pc EXCEPT ![s] = "planned"]
    /\ \E p \in OrderedPlans(r) :
        /\ Balances(p, r.migration, CostPerAction(Tip + 1))
        /\ plan' = [plan EXCEPT ![s] =
                [kind |-> r.kind, spends |-> {n.id : n \in p.notes}, outs |-> Outputs(p),
                 anchor |-> r.anchor, expiry |-> Tip + ExpiryDelta]]
    /\ UNCHANGED <<chainVars, dbVars, queued>>

\* The second half, after the tree state came from the network: the anchor
\* (that of a hop must be where the wallet stands, any other is where it
\* stands), the rows of the notes, which nobody looks at again, the builder.
BuildTx(s) ==
    /\ pc[s] = "planned"
    /\ plan[s].kind = "hop" => plan[s].anchor = checkpoint
    /\ plan[s].spends \subseteq have
    /\ pc' = [pc EXCEPT ![s] = "built"]
    /\ UNCHANGED <<chainVars, dbVars, plan, queued, deeds>>

\* The node takes no expired transaction and none that spends what another
\* spends.
Live == mempool \cup MinedBetween(0, Tip)

Accepts(p) ==
    /\ Tip < p.expiry
    /\ \A t \in Live : txs[t].spends \cap p.spends = {}

\* post, whose record is then queued on the sync driver, or never: the answer
\* is lost, or the driver is gone.  The transaction is sent all the same.
Post(s) ==
    /\ pc[s] = "built" /\ Len(txs) < MaxSent
    /\ Accepts(plan[s])
    /\ LET t == Len(txs) + 1
       IN  /\ txs' = Append(txs, plan[s])
           /\ mempool' = mempool \cup {t}
           /\ queued' \in {queued, queued \cup {t}}
    /\ pc' = [pc EXCEPT ![s] = "idle"] /\ plan' = [plan EXCEPT ![s] = NoPlan]
    /\ UNCHANGED <<funding, chain, dbVars, deeds>>

\* record_sent, under the session: whatever of its notes has a row is locked.
Record(t) ==
    /\ t \in queued
    /\ queued' = queued \ {t}
    /\ \/ /\ locked' = locked \cup (txs[t].spends \cap have)
          /\ held' = held \cup (txs[t].spends \cap have)
       \/ UNCHANGED <<locked, held>>
    /\ UNCHANGED <<chainVars, have, spent, checkpoint, senderVars, deeds>>

\* The sender ends, by an error (of the network, of the database, of the
\* planner), or is dropped wherever it stands.
Forget(s) ==
    /\ pc' = [pc EXCEPT ![s] = "idle"]
    /\ plan' = [plan EXCEPT ![s] = NoPlan]
    /\ UNCHANGED <<chainVars, dbVars, queued, deeds>>

\* The process dies.
Die ==
    /\ pc' = [s \in Senders |-> "idle"]
    /\ plan' = [s \in Senders |-> NoPlan]
    /\ queued' = {}
    /\ UNCHANGED <<chainVars, dbVars, deeds>>

-----------------------------------------------------------------------------
\* The chain: a block takes some of the mempool, which drops the expired.

Mine ==
    /\ Tip < MaxHeight
    /\ \E block \in SUBSET mempool :
        /\ chain' = Append(chain, block)
        /\ mempool' = {t \in mempool \ block : Tip + 1 < txs[t].expiry}
    /\ UNCHANGED <<funding, txs, dbVars, senderVars, queued, deeds>>

\* Mutant: the lock is released, and the spend is forgotten.
RecordedUnlockOnly(taken) == spent' = spent /\ locked' = locked \ taken

\* A synchronization, of which any part may have been committed: record_note,
\* and record_spend, which releases the lock.
Recorded(taken) == spent' = spent \cup taken /\ locked' = locked \ taken

Sync ==
    \E h \in (checkpoint + 1)..Tip :
        /\ have' = have \cup NotesBetween(checkpoint, h)
        /\ Recorded(SpendsBetween(checkpoint, h) \cap have')
        /\ checkpoint' = h
        /\ UNCHANGED <<chainVars, held, senderVars, queued, deeds>>

\* trim_to, when the user rewinds.
Rewind ==
    /\ Deed
    /\ \E h \in 0..(checkpoint - 1) :
        /\ have' = {id \in have : HeightOf(id[1]) <= h}
        /\ spent' = spent \cap SpendsBetween(0, h)
        /\ locked' = locked \cap have'
        /\ held' = {id \in held \cap have' : id \in spent => id \in spent'}
        /\ checkpoint' = h
    /\ UNCHANGED <<chainVars, senderVars, queued>>

\* apply_lock: one note, every note above a height, none, or all the others.
LockChanges ==
    {locked \cup {id} : id \in have} \cup {locked \ {id} : id \in have}
        \cup {locked \cup {id \in have : HeightOf(id[1]) > h} : h \in 0..Tip}
        \cup {{}, have \ locked}

UserLock ==
    /\ Deed
    /\ locked' \in LockChanges
    /\ held' = held \ (locked \ locked')
    /\ UNCHANGED <<chainVars, have, spent, checkpoint, senderVars, queued>>

Around == (\E t \in queued : Record(t)) \/ Mine \/ Sync \/ Rewind \/ UserLock

-----------------------------------------------------------------------------
Stages == {"idle", "planned", "built"}
Ids == (0..MaxSent) \X Nat

SpendingTypeOK ==
    /\ funding \in Fundings
    /\ Tip <= MaxHeight /\ Len(txs) <= MaxSent
    /\ \A h \in 1..Tip : chain[h] \subseteq DOMAIN txs
    /\ mempool \subseteq DOMAIN txs
    /\ have \subseteq Ids /\ spent \subseteq have /\ locked \subseteq have /\ held \subseteq have
    /\ checkpoint \in 0..Tip
    /\ pc \in [Senders -> Stages]
    /\ queued \subseteq DOMAIN txs
    /\ deeds \in 0..MaxDeeds

\* Notes of a recorded transaction are out of every plan until a rewind or
\* the user brings them back, wherever its block, the synchronization that
\* meets it, the record and a late record of it fall (lock_spent_notes,
\* record_spend, fetch_unspent_notes).
RecordedNotReplanned ==
    [][\A s \in Senders : pc[s] = "idle" /\ pc'[s] = "planned"
            => plan'[s].spends \cap held = {}]_spendVars
=============================================================================
