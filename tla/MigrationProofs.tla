-------------------------- MODULE MigrationProofs --------------------------
(***************************************************************************)
(* Proofs about Spending and Migration, for any senders, notes, requests,  *)
(* fees and bounds: the notes of a recorded transaction, the pace of a     *)
(* run, the types, what a hop tells, and that a task can be paid.          *)
(***************************************************************************)
EXTENDS Migration, NoteSelectionProofs

-----------------------------------------------------------------------------
\* Sequences of whatever they hold.

IsSequence(s) == \E T : s \in Seq(T)

\* Appending makes a sequence one longer.
LEMMA Appended ==
    ASSUME NEW s, NEW e, IsSequence(s)
    PROVE  /\ IsSequence(Append(s, e))
           /\ Len(s) \in Nat /\ Len(Append(s, e)) = Len(s) + 1
<1>1. PICK T : s \in Seq(T)
  BY DEF IsSequence
<1>2. s \in Seq(T \cup {e})
  BY <1>1
<1>3. Append(s, e) \in Seq(T \cup {e}) /\ Len(s) \in Nat /\ Len(Append(s, e)) = Len(s) + 1
  BY <1>2
<1>. QED
  BY <1>3 DEF IsSequence

-----------------------------------------------------------------------------
\* A plan spends notes that the database shows as free.

\* What the solver takes is among the notes it is given.
LEMMA PlansFromFree ==
    ASSUME NEW r, NEW p \in OrderedPlans(r)
    PROVE  {n.id : n \in p.notes} \subseteq Free
<1>1. p.notes \subseteq FreeNotes
  <2>1. PICK w : \E taken \in SelectNotes(Candidates(FreeNotes, r, Tip), w) : p = PlanOf(taken, w)
    BY Zenon DEF OrderedPlans, Plans
  <2>2. PICK taken \in SelectNotes(Candidates(FreeNotes, r, Tip), w) : p = PlanOf(taken, w)
    BY <2>1
  <2>3. p.notes = taken
    BY <2>2 DEF PlanOf
  <2>4. taken \subseteq Candidates(FreeNotes, r, Tip)
    BY <2>2 DEF SelectNotes
  <2>. QED
    BY <2>3, <2>4 DEF Candidates
<1>2. \A n \in FreeNotes : n.id \in Free
  BY DEF FreeNotes, Row
<1>. QED
  BY <1>1, <1>2

-----------------------------------------------------------------------------
\* The senders, and the notes that recorded transactions hold.

SenderInv == pc \in [Senders -> Stages] /\ plan = [s \in Senders |-> plan[s]]

\* A row that was held is locked or spent, until the user or a rewind undoes it.
HeldInv == held \subseteq locked \cup spent

\* Every step moves the senders among their stages.
LEMMA SenderStep == SenderInv /\ [Next]_vars => SenderInv'
<1>. SUFFICES ASSUME SenderInv, [Next]_vars PROVE SenderInv'
  OBVIOUS
<1>. USE DEF SenderInv, Stages
<1>1. ASSUME NEW s \in Senders, NEW r, PlanTx(s, r) PROVE SenderInv'
  BY <1>1 DEF PlanTx
<1>2. ASSUME NEW s \in Senders, BuildTx(s) \/ Post(s) \/ Forget(s) PROVE SenderInv'
  BY <1>2 DEF BuildTx, Post, Forget
<1>3. ASSUME Die PROVE SenderInv'
  BY <1>3 DEF Die
<1>4. ASSUME Around PROVE SenderInv'
  BY <1>4 DEF Around, Record, Mine, Sync, Rewind, UserLock, senderVars
<1>5. ASSUME UNCHANGED spendVars PROVE SenderInv'
  BY <1>5 DEF spendVars, senderVars
<1>6. Migrator \in Senders
  BY MigrationAssumption
<1>. QED
  BY <1>1, <1>2, <1>3, <1>4, <1>5, <1>6
  DEF Next, StartRun, NextTask, Revalidate, StepOnce, PlanTask, SendTask, AfterEffect, EndRun,
      UserStep, Users, Crash, vars

\* The rows that are held stay so, whatever is synchronized, rewound, locked
\* or unlocked.
LEMMA HeldStep == HeldInv /\ [Next]_vars => HeldInv'
<1>. SUFFICES ASSUME HeldInv, [Next]_vars PROVE HeldInv'
  OBVIOUS
<1>. USE DEF HeldInv
<1>1. ASSUME UNCHANGED dbVars PROVE HeldInv'
  BY <1>1 DEF dbVars
<1>2. ASSUME NEW t, Record(t) PROVE HeldInv'
  BY <1>2 DEF Record
<1>3. ASSUME Sync PROVE HeldInv'
  BY <1>3 DEF Sync, Recorded
<1>4. ASSUME Rewind PROVE HeldInv'
  BY <1>4 DEF Rewind
<1>5. ASSUME UserLock PROVE HeldInv'
  BY <1>5 DEF UserLock
<1>6. ASSUME NEW s, NEW r, PlanTx(s, r) \/ BuildTx(s) \/ Post(s) \/ Forget(s) PROVE HeldInv'
  BY <1>1, <1>6 DEF PlanTx, BuildTx, Post, Forget
<1>7. ASSUME Die \/ Mine \/ UNCHANGED spendVars PROVE HeldInv'
  BY <1>1, <1>7 DEF Die, Mine, spendVars
<1>. QED
  BY <1>2, <1>3, <1>4, <1>5, <1>6, <1>7
  DEF Next, StartRun, NextTask, Revalidate, StepOnce, PlanTask, SendTask, AfterEffect, EndRun,
      UserStep, Crash, Around, vars

\* What a step plans, it plans from free notes.
LEMMA PlanStep ==
    ASSUME SenderInv, HeldInv, [Next]_vars,
           NEW s \in Senders, pc[s] = "idle", pc'[s] = "planned"
    PROVE  plan'[s].spends \cap held = {}
<1>1. PICK q \in Senders : \E r : PlanTx(q, r)
  <2>1. ASSUME NEW q \in Senders, BuildTx(q) \/ Post(q) \/ Forget(q) PROVE pc'[s] # "planned"
    BY <2>1 DEF SenderInv, BuildTx, Post, Forget
  <2>2. ASSUME Die \/ Around \/ UNCHANGED spendVars PROVE pc'[s] # "planned"
    BY <2>2 DEF SenderInv, Die, Around, Record, Mine, Sync, Rewind, UserLock, spendVars, senderVars
  <2>3. Migrator \in Senders
    BY MigrationAssumption
  <2>. QED
    BY <2>1, <2>2, <2>3
    DEF Next, StartRun, NextTask, Revalidate, StepOnce, PlanTask, SendTask, AfterEffect, EndRun,
        UserStep, Users, Crash, vars
<1>2. PICK r : PlanTx(q, r)
  BY <1>1
<1>3. s = q
  BY <1>2 DEF PlanTx, SenderInv
<1>4. PICK p \in OrderedPlans(r) :
        plan' = [plan EXCEPT ![q] =
            [kind |-> r.kind, spends |-> {n.id : n \in p.notes}, outs |-> Outputs(p),
             anchor |-> r.anchor, expiry |-> Tip + ExpiryDelta]]
  BY <1>2 DEF PlanTx
<1>5. plan'[q].spends = {n.id : n \in p.notes}
  <2>. DEFINE made == [kind |-> r.kind, spends |-> {n.id : n \in p.notes}, outs |-> Outputs(p),
                       anchor |-> r.anchor, expiry |-> Tip + ExpiryDelta]
  <2>1. plan'[q] = made
    BY <1>4 DEF SenderInv
  <2>2. made.spends = {n.id : n \in p.notes}
    OBVIOUS
  <2>. QED
    BY <2>1, <2>2
<1>6. {n.id : n \in p.notes} \subseteq Free
  BY PlansFromFree
<1>. QED
  BY <1>3, <1>5, <1>6 DEF HeldInv, Free

-----------------------------------------------------------------------------
\* The pace of a run.

\* A transaction of the migration is under way only in a run, for a task that
\* was taken, and one at a time.
Clean ==
    /\ pc[Migrator] # "idle" => run \in {"execute", "once"} /\ sent = 0 /\ task = NoTask
    /\ sent # 0 => run \in {"execute", "once"} /\ task = NoTask
    /\ run \in {"off", "loop"} => task = NoTask

\* Between two transactions of a run the last action covers every height it
\* acted at; and a task is carried out above that height.
Paced ==
    /\ IsSequence(chain) /\ IsSequence(txs)
    /\ last \in Int /\ last <= Tip
    /\ acts \in Seq(Int)
    /\ \A i \in DOMAIN acts : acts[i] <= (IF sent = 0 THEN last ELSE Tip)
    /\ run \in {"off", "once"} => last = NoHeight
    /\ run \in {"check", "execute"} /\ sent = 0 => last < Tip

PaceInv == SenderInv /\ Clean /\ Paced /\ OncePerBlock

\* What moves neither the run nor the migration's transactions, and the chain
\* at most forward.
LEMMA PaceAround ==
    ASSUME PaceInv, UNCHANGED runVars, pc'[Migrator] = pc[Migrator],
           IsSequence(chain'), IsSequence(txs'), Tip' >= Tip, Tip' \in Nat
    PROVE  (Clean /\ Paced /\ OncePerBlock)'
<1>. USE DEF PaceInv, runVars
<1>1. Clean'
  BY DEF Clean
<1>2. Paced'
  <2>1. Tip \in Nat
    BY Appended DEF Paced, Tip
  <2>. QED
    BY <2>1 DEF Paced
<1>. QED
  BY <1>1, <1>2 DEF OncePerBlock

\* The steps of the other senders, of the chain and of the database.
LEMMA OthersPace ==
    ASSUME PaceInv, UNCHANGED runVars,
           (\E s \in Users : \E r : PlanTx(s, r) \/ BuildTx(s) \/ Post(s) \/ Forget(s)) \/ Around
    PROVE  (Clean /\ Paced /\ OncePerBlock)'
<1>. USE DEF PaceInv
<1>1. IsSequence(chain) /\ IsSequence(txs)
  BY DEF Paced
<1>2. Tip \in Nat
  BY <1>1, Appended DEF Tip
<1>3. Migrator \in Senders
  BY MigrationAssumption
<1>4. CASE \E s \in Users : \E r : PlanTx(s, r) \/ BuildTx(s) \/ Post(s) \/ Forget(s)
  <2>0. PICK s \in Users : \E r : PlanTx(s, r) \/ BuildTx(s) \/ Post(s) \/ Forget(s)
    BY <1>4
  <2>1. PICK r : PlanTx(s, r) \/ BuildTx(s) \/ Post(s) \/ Forget(s)
    BY <2>0
  <2>2. pc'[Migrator] = pc[Migrator]
    BY <1>3, <2>1 DEF PlanTx, BuildTx, Post, Forget, SenderInv, Users
  <2>3. IsSequence(txs') /\ chain' = chain
    <3>1. CASE PlanTx(s, r) \/ BuildTx(s) \/ Forget(s)
      BY <1>1, <3>1 DEF PlanTx, BuildTx, Forget, chainVars
    <3>2. CASE Post(s)
      <4>1. txs' = Append(txs, plan[s]) /\ chain' = chain
        BY <3>2 DEF Post
      <4>. QED
        BY <1>1, <4>1, Appended
    <3>. QED
      BY <2>1, <3>1, <3>2
  <2>. QED
    BY <1>1, <1>2, <2>2, <2>3, PaceAround DEF Tip
<1>5. CASE Mine
  <2>1. PICK block : chain' = Append(chain, block)
    BY <1>5 DEF Mine
  <2>2. IsSequence(chain') /\ Tip' = Tip + 1
    BY <1>1, <2>1, Appended DEF Tip
  <2>3. pc' = pc /\ txs' = txs
    BY <1>5 DEF Mine, senderVars
  <2>. QED
    BY <1>1, <1>2, <2>2, <2>3, PaceAround
<1>6. CASE Sync \/ Rewind \/ UserLock \/ \E t \in queued : Record(t)
  <2>1. UNCHANGED <<pc, chain, txs>>
    BY <1>6 DEF Sync, Rewind, UserLock, Record, senderVars, chainVars
  <2>. QED
    BY <1>1, <1>2, <2>1, PaceAround DEF Tip
<1>. QED
  BY <1>4, <1>5, <1>6 DEF Around

\* Every step keeps the pace.
LEMMA PaceStep == PaceInv /\ [Next]_vars => PaceInv'
<1>. SUFFICES ASSUME PaceInv, [Next]_vars PROVE (Clean /\ Paced /\ OncePerBlock)'
  BY SenderStep DEF PaceInv
<1>1. SenderInv /\ Clean /\ Paced /\ OncePerBlock
  BY DEF PaceInv
<1>2. IsSequence(chain) /\ IsSequence(txs) /\ Tip \in Nat
  BY <1>1, Appended DEF Paced, Tip
<1>3. Migrator \in Senders
  BY MigrationAssumption
<1>4. ASSUME StartRun \/ NextTask \/ Revalidate \/ StepOnce
      PROVE  (Clean /\ Paced /\ OncePerBlock)'
  <2>1. UNCHANGED <<pc, chain, txs, sent, last, acts>>
    BY <1>4 DEF StartRun, NextTask, Revalidate, StepOnce, spendVars, senderVars, chainVars
  <2>2. Clean'
    BY <1>1, <1>4, <2>1 DEF Clean, StartRun, NextTask, Revalidate, StepOnce
  <2>3. Paced'
    BY <1>1, <1>2, <1>4, <2>1
    DEF Paced, Clean, Tip, StartRun, NextTask, Revalidate, StepOnce, MayAct, NoHeight
  <2>. QED
    BY <1>1, <2>1, <2>2, <2>3 DEF OncePerBlock
<1>5. ASSUME PlanTask PROVE (Clean /\ Paced /\ OncePerBlock)'
  <2>1. UNCHANGED <<chain, txs, run, sent, last, acts>>
    BY <1>5 DEF PlanTask, PlanTx, chainVars
  <2>2. Clean'
    BY <1>1, <1>5, <2>1 DEF Clean, PlanTask
  <2>. QED
    BY <1>1, <2>1, <2>2 DEF Paced, Tip, OncePerBlock
<1>6. ASSUME SendTask PROVE (Clean /\ Paced /\ OncePerBlock)'
  <2>1. UNCHANGED <<chain, run, task, last>>
    BY <1>6 DEF SendTask, BuildTx, Post, chainVars
  <2>2. CASE BuildTx(Migrator) /\ UNCHANGED <<sent, acts>>
    <3>1. UNCHANGED txs
      BY <2>2 DEF BuildTx, chainVars
    <3>2. Clean'
      BY <1>1, <1>3, <2>1, <2>2 DEF Clean, BuildTx, SenderInv
    <3>. QED
      BY <1>1, <2>1, <2>2, <3>1, <3>2 DEF Paced, Tip, OncePerBlock
  <2>3. CASE Post(Migrator) /\ sent' = Len(txs') /\ acts' = Append(acts, Tip)
    <3>1. IsSequence(txs') /\ sent' # 0
      BY <1>2, <2>3, Appended DEF Post
    <3>2. run \in {"execute", "once"} /\ sent = 0 /\ task = NoTask
      BY <1>1, <2>3 DEF Clean, Post
    <3>3. Clean'
      BY <1>1, <1>3, <2>1, <2>3, <3>1, <3>2 DEF Clean, Post, SenderInv
    <3>4. last < Tip
      BY <1>1, <1>2, <3>2 DEF Paced, NoHeight
    <3>5. acts \in Seq(Int) /\ \A i \in DOMAIN acts : acts[i] <= last
      BY <1>1, <3>2 DEF Paced
    <3>6. Tip' = Tip /\ last' = last /\ last \in Int
      BY <1>1, <2>1 DEF Tip, Paced
    <3>7. acts' \in Seq(Int) /\ \A i \in DOMAIN acts' : acts'[i] <= Tip
      BY <1>2, <2>3, <3>4, <3>5, <3>6
    <3>8. Paced'
      BY <1>1, <1>2, <2>1, <3>1, <3>2, <3>6, <3>7 DEF Paced
    <3>9. OncePerBlock'
      BY <1>1, <1>2, <2>3, <3>4, <3>5, <3>6 DEF OncePerBlock
    <3>. QED
      BY <3>3, <3>8, <3>9
  <2>. QED
    BY <1>6, <2>2, <2>3 DEF SendTask
<1>7. ASSUME AfterEffect PROVE (Clean /\ Paced /\ OncePerBlock)'
  <2>1. UNCHANGED <<pc, chain, txs, task, acts>>
    BY <1>7 DEF AfterEffect, spendVars, senderVars, chainVars
  <2>2. Clean'
    BY <1>1, <1>7, <2>1 DEF Clean, AfterEffect, SentAndRecorded
  <2>3. Paced'
    BY <1>1, <1>2, <1>7, <2>1 DEF Paced, Tip, AfterEffect, SentAndRecorded
  <2>. QED
    BY <1>1, <2>1, <2>2, <2>3 DEF OncePerBlock
<1>8. ASSUME EndRun \/ Crash PROVE (Clean /\ Paced /\ OncePerBlock)'
  <2>1. Stops /\ UNCHANGED chainVars /\ pc'[Migrator] = "idle"
    BY <1>1, <1>3, <1>8 DEF EndRun, Crash, Forget, Die, SenderInv
  <2>2. acts' = <<>> /\ last' = NoHeight /\ sent' = 0 /\ run' = "off" /\ task' = NoTask
    BY <2>1 DEF Stops
  <2>3. Clean' /\ OncePerBlock'
    BY <2>1, <2>2 DEF Clean, OncePerBlock
  <2>4. Paced'
    BY <1>2, <2>1, <2>2 DEF Paced, Tip, NoHeight, chainVars
  <2>. QED
    BY <2>3, <2>4
<1>9. ASSUME NEW s \in Users, UserStep(s) PROVE (Clean /\ Paced /\ OncePerBlock)'
  <2>1. UNCHANGED runVars /\ \E r : PlanTx(s, r) \/ BuildTx(s) \/ Post(s) \/ Forget(s)
    BY <1>9 DEF UserStep
  <2>. QED
    BY <2>1, OthersPace
<1>10. ASSUME Around /\ UNCHANGED runVars PROVE (Clean /\ Paced /\ OncePerBlock)'
  BY <1>10, OthersPace
<1>11. ASSUME UNCHANGED vars PROVE (Clean /\ Paced /\ OncePerBlock)'
  BY <1>1, <1>11
  DEF vars, spendVars, runVars, senderVars, chainVars, Clean, Paced, Tip, OncePerBlock
<1>. QED
  BY <1>4, <1>5, <1>6, <1>7, <1>8, <1>9, <1>10, <1>11 DEF Next

-----------------------------------------------------------------------------
\* At the start nothing is held and nothing was done.
LEMMA Initially == Init => PaceInv /\ HeldInv
<1>. SUFFICES ASSUME Init PROVE PaceInv /\ HeldInv
  OBVIOUS
<1>1. SenderInv /\ HeldInv /\ Clean /\ OncePerBlock
  BY MigrationAssumption
  DEF Init, SpendingInit, SenderInv, Stages, HeldInv, Clean, OncePerBlock
<1>2. <<>> \in Seq({})
  OBVIOUS
<1>3. Paced
  BY <1>2 DEF Init, SpendingInit, Paced, IsSequence, Tip, NoHeight
<1>. QED
  BY <1>1, <1>3 DEF PaceInv

\* The notes of a recorded transaction are in no plan, of whichever sender,
\* until a rewind or the user brings them back (lock_spent_notes,
\* record_spend, fetch_unspent_notes_by_pool).
THEOREM HeldNotReplanned == Spec => RecordedNotReplanned
<1>1. Init => SenderInv /\ HeldInv
  BY Initially DEF PaceInv
<1>2. SenderInv /\ HeldInv /\ [Next]_vars => (SenderInv /\ HeldInv)'
  BY SenderStep, HeldStep
<1>3. SenderInv /\ HeldInv /\ [Next]_vars =>
        [\A s \in Senders : pc[s] = "idle" /\ pc'[s] = "planned"
            => plan'[s].spends \cap held = {}]_spendVars
  BY PlanStep
<1>. QED
  BY <1>1, <1>2, <1>3, PTL DEF Spec, RecordedNotReplanned

\* A run of the migration never has two transactions accepted at one height,
\* however long each takes from its plan to the node (Pacing, run_migration).
THEOREM RunIsPaced == Spec => []OncePerBlock
<1>1. PaceInv => OncePerBlock
  BY DEF PaceInv
<1>. QED
  BY Initially, PaceStep, <1>1, PTL DEF Spec

-----------------------------------------------------------------------------
\* The chain, the transactions and the rows.

\* What an append leaves and what it adds.
LEMMA AppendedAt ==
    ASSUME NEW s, NEW e, IsSequence(s)
    PROVE  /\ \A i \in 1..Len(s) : Append(s, e)[i] = s[i]
           /\ Append(s, e)[Len(s) + 1] = e
           /\ DOMAIN s = 1..Len(s) /\ DOMAIN Append(s, e) = 1..(Len(s) + 1)
           /\ Len(s) \in Nat
<1>1. PICK T : s \in Seq(T)
  BY DEF IsSequence
<1>2. s \in Seq(T \cup {e})
  BY <1>1
<1>. QED
  BY <1>2

\* The transaction, or the funding, is in a block of height at most h.
MinedBy(t, h) == t = 0 \/ \E g \in 1..h : t \in chain[g]

\* A transaction is mined once.
MinedOnce ==
    /\ \A g, h \in 1..Tip : g # h => chain[g] \cap chain[h] = {}
    /\ \A h \in 1..Tip : mempool \cap chain[h] = {}

\* The transactions under way, accepted and mined, within the bounds.
ChainInv ==
    /\ IsSequence(chain) /\ IsSequence(txs)
    /\ Tip <= MaxHeight /\ Len(txs) <= MaxSent
    /\ \A h \in 1..Tip : chain[h] \subseteq DOMAIN txs
    /\ mempool \subseteq DOMAIN txs
    /\ queued \subseteq DOMAIN txs
    /\ MinedOnce

\* A transaction spends notes that were mined before it.
SpendsInv ==
    /\ \A s \in Senders : \A id \in plan[s].spends : MinedBy(id[1], Tip)
    /\ \A t \in DOMAIN txs : \A id \in txs[t].spends : MinedBy(id[1], Tip)
    /\ \A h \in 1..Tip : \A t \in chain[h] : \A id \in txs[t].spends : MinedBy(id[1], h)

\* The outputs of a transaction are numbered.
OutsInv ==
    /\ DOMAIN funding \subseteq Nat
    /\ \A s \in Senders : DOMAIN plan[s].outs \subseteq Nat
    /\ \A t \in DOMAIN txs : DOMAIN txs[t].outs \subseteq Nat

\* A row was synchronized from a block up to the checkpoint; spends, locks and
\* what is held are of rows.
RowsInv ==
    /\ checkpoint \in 0..Tip
    /\ have \subseteq Ids
    /\ \A id \in have : MinedBy(id[1], checkpoint)
    /\ spent \subseteq have /\ locked \subseteq have /\ held \subseteq have

LedgerInv == ChainInv /\ SpendsInv /\ OutsInv /\ RowsInv

\* The height of a mined transaction is that of its block.
LEMMA HeightOfMined ==
    ASSUME ChainInv, NEW h \in 0..Tip, NEW t, MinedBy(t, Tip)
    PROVE  /\ HeightOf(t) \in 0..Tip
           /\ HeightOf(t) <= h <=> MinedBy(t, h)
<1>0. Tip \in Nat
  BY AppendedAt DEF ChainInv, Tip
<1>1. CASE t = 0
  BY <1>0, <1>1 DEF HeightOf, MinedBy
<1>2. CASE t # 0
  <2>1. PICK g \in 1..Tip : t \in chain[g]
    BY <1>2 DEF MinedBy
  <2>2. \A k \in 1..Tip : t \in chain[k] => k = g
    BY <2>1 DEF ChainInv, MinedOnce
  <2>3. HeightOf(t) = CHOOSE k \in 1..Tip : t \in chain[k]
    BY <1>2 DEF HeightOf
  <2>4. HeightOf(t) = g
    BY <2>1, <2>2, <2>3
  <2>5. MinedBy(t, h) <=> \E k \in 1..h : t \in chain[k]
    BY <1>2 DEF MinedBy
  <2>. QED
    BY <1>0, <2>1, <2>2, <2>4, <2>5
<1>. QED
  BY <1>1, <1>2

\* Nothing is mined or synchronized at the start.
LEMMA LedgerInit == Init => LedgerInv
<1>. SUFFICES ASSUME Init PROVE LedgerInv
  OBVIOUS
<1>1. chain = <<>> /\ txs = <<>> /\ mempool = {} /\ queued = {} /\ Tip = 0
  BY DEF Init, SpendingInit, Tip
<1>2. <<>> \in Seq({}) /\ DOMAIN txs = {}
  BY <1>1
<1>3. ChainInv
  BY <1>1, <1>2, SpendingAssumption DEF ChainInv, IsSequence, MinedOnce
<1>4. \A s \in Senders : plan[s] = NoPlan
  BY DEF Init, SpendingInit
<1>5. NoPlan.spends = {} /\ DOMAIN NoPlan.outs = {}
  BY DEF NoPlan
<1>6. SpendsInv
  BY <1>1, <1>2, <1>4, <1>5 DEF SpendsInv
<1>7. DOMAIN funding \subseteq Nat
  <2>1. funding \in Seq([pool : Pools, value : Nat, big : BOOLEAN])
    BY SpendingAssumption DEF Init, SpendingInit
  <2>. QED
    BY <2>1
<1>8. OutsInv
  BY <1>2, <1>4, <1>5, <1>7 DEF OutsInv
<1>9. RowsInv
  <2>1. /\ have = {<<0, i>> : i \in DOMAIN funding} /\ checkpoint = 0
        /\ spent = {} /\ locked = {} /\ held = {}
    BY DEF Init, SpendingInit
  <2>. QED
    BY <1>1, <1>7, <2>1, SpendingAssumption DEF RowsInv, Ids, MinedBy
<1>. QED
  BY <1>3, <1>6, <1>8, <1>9 DEF LedgerInv

\* A plan spends rows, and rows were mined.
LEMMA PlanSpendsMined ==
    ASSUME LedgerInv, NEW r, NEW p \in OrderedPlans(r), NEW n \in p.notes
    PROVE  n.id \in have /\ MinedBy(n.id[1], Tip)
<1>1. n.id \in have
  BY PlansFromFree DEF Free
<1>2. MinedBy(n.id[1], checkpoint) /\ checkpoint \in 0..Tip
  BY <1>1 DEF LedgerInv, RowsInv
<1>3. Tip \in Nat
  BY AppendedAt DEF LedgerInv, ChainInv, Tip
<1>. QED
  BY <1>1, <1>2, <1>3 DEF MinedBy

\* A step of a sender before it posts: what it plans, builds or drops.
LEMMA SenderKeepsLedger ==
    ASSUME LedgerInv, SenderInv,
           (\E s \in Senders : \E r : PlanTx(s, r) \/ BuildTx(s) \/ Forget(s)) \/ Die
    PROVE  LedgerInv'
<1>1. UNCHANGED <<chainVars, dbVars>> /\ queued' \subseteq queued
  BY DEF PlanTx, BuildTx, Forget, Die
<1>2. ASSUME NEW s \in Senders
      PROVE  /\ \A id \in plan'[s].spends : MinedBy(id[1], Tip)
             /\ DOMAIN plan'[s].outs \subseteq Nat
  <2>0. /\ \A id \in plan[s].spends : MinedBy(id[1], Tip)
        /\ DOMAIN plan[s].outs \subseteq Nat
    BY DEF LedgerInv, SpendsInv, OutsInv
  <2>1. CASE plan'[s] = plan[s]
    BY <2>0, <2>1
  <2>2. CASE plan'[s] = NoPlan
    BY <2>2 DEF NoPlan
  <2>3. CASE \E r : \E p \in OrderedPlans(r) : \E e :
                 plan'[s] = [kind |-> r.kind, spends |-> {n.id : n \in p.notes},
                             outs |-> Outputs(p), anchor |-> r.anchor, expiry |-> e]
    <3>1. PICK r : \E p \in OrderedPlans(r) : \E e :
                 plan'[s] = [kind |-> r.kind, spends |-> {n.id : n \in p.notes},
                             outs |-> Outputs(p), anchor |-> r.anchor, expiry |-> e]
      BY <2>3
    <3>2. PICK p \in OrderedPlans(r) :
                 plan'[s].spends = {n.id : n \in p.notes} /\ plan'[s].outs = Outputs(p)
      BY <3>1
    <3>3. DOMAIN Outputs(p) \subseteq Nat
      <4>1. PICK t : Outputs(p) = p.outs \o t
        BY DEF Outputs
      <4>2. DOMAIN (p.outs \o t) \subseteq Nat
        OBVIOUS
      <4>. QED
        BY <4>1, <4>2
    <3>4. \A n \in p.notes : MinedBy(n.id[1], Tip)
      BY PlanSpendsMined
    <3>5. \A id \in plan'[s].spends : MinedBy(id[1], Tip)
      BY <3>2, <3>4
    <3>. QED
      BY <3>2, <3>3, <3>5
  <2>4. ASSUME NEW q \in Senders, NEW r, PlanTx(q, r)
        PROVE  \/ plan'[s] = plan[s]
               \/ \E p \in OrderedPlans(r) : \E e :
                     plan'[s] = [kind |-> r.kind, spends |-> {n.id : n \in p.notes},
                                 outs |-> Outputs(p), anchor |-> r.anchor, expiry |-> e]
    BY <2>4 DEF PlanTx, SenderInv
  <2>5. ASSUME NEW q \in Senders, BuildTx(q) \/ Forget(q) \/ Die
        PROVE  plan'[s] \in {plan[s], NoPlan}
    BY <2>5 DEF BuildTx, Forget, Die, SenderInv
  <2>. QED
    BY <2>1, <2>2, <2>3, <2>4, <2>5
<1>3. ChainInv'
  BY <1>1 DEF LedgerInv, ChainInv, MinedOnce, chainVars, Tip
<1>4. SpendsInv'
  BY <1>1, <1>2 DEF LedgerInv, SpendsInv, chainVars, Tip, MinedBy
<1>5. OutsInv'
  BY <1>1, <1>2 DEF LedgerInv, OutsInv, chainVars
<1>6. RowsInv'
  BY <1>1 DEF LedgerInv, RowsInv, chainVars, dbVars, Tip, MinedBy
<1>. QED
  BY <1>3, <1>4, <1>5, <1>6 DEF LedgerInv

\* A transaction is accepted.
LEMMA PostKeepsLedger ==
    ASSUME LedgerInv, SenderInv, NEW s \in Senders, Post(s)
    PROVE  LedgerInv'
<1>0. IsSequence(txs) /\ Tip \in Nat
  BY AppendedAt DEF LedgerInv, ChainInv, Tip
<1>1. /\ UNCHANGED <<funding, chain, dbVars>>
      /\ txs' = Append(txs, plan[s]) /\ Len(txs) < MaxSent
      /\ mempool' = mempool \cup {Len(txs) + 1}
      /\ queued' \subseteq queued \cup {Len(txs) + 1}
      /\ \A q \in Senders : plan'[q] \in {plan[q], NoPlan}
  BY DEF Post, SenderInv
<1>2. /\ \A t \in DOMAIN txs : txs'[t] = txs[t]
      /\ txs'[Len(txs) + 1] = plan[s]
      /\ DOMAIN txs = 1..Len(txs) /\ DOMAIN txs' = 1..(Len(txs) + 1)
      /\ Len(txs) \in Nat /\ Len(txs') = Len(txs) + 1
      /\ IsSequence(txs')
  BY <1>0, <1>1, Appended, AppendedAt
<1>3. ChainInv'
  <2>1. MinedOnce'
    BY <1>1, <1>2 DEF LedgerInv, ChainInv, MinedOnce, Tip
  <2>. QED
    BY <1>1, <1>2, <2>1, SpendingAssumption DEF LedgerInv, ChainInv, Tip
<1>4. \A id \in NoPlan.spends : FALSE
  BY DEF NoPlan
<1>5. SpendsInv'
  <2>1. \A q \in Senders : \A id \in plan'[q].spends : MinedBy(id[1], Tip)'
    BY <1>1, <1>4 DEF LedgerInv, SpendsInv, MinedBy, Tip
  <2>2. \A t \in DOMAIN txs' : \A id \in txs'[t].spends : MinedBy(id[1], Tip)'
    BY <1>1, <1>2 DEF LedgerInv, SpendsInv, MinedBy, Tip
  <2>3. \A h \in 1..Tip : \A t \in chain[h] : t \in DOMAIN txs
    BY DEF LedgerInv, ChainInv
  <2>4. \A h \in 1..Tip' : \A t \in chain'[h] : \A id \in txs'[t].spends : MinedBy(id[1], h)'
    BY <1>1, <1>2, <2>3 DEF LedgerInv, SpendsInv, MinedBy, Tip
  <2>. QED
    BY <2>1, <2>2, <2>4 DEF SpendsInv
<1>6. OutsInv'
  <2>1. DOMAIN NoPlan.outs \subseteq Nat
    BY DEF NoPlan
  <2>. QED
    BY <1>1, <1>2, <2>1 DEF LedgerInv, OutsInv
<1>7. RowsInv'
  BY <1>1 DEF LedgerInv, RowsInv, dbVars, Tip, MinedBy
<1>. QED
  BY <1>3, <1>5, <1>6, <1>7 DEF LedgerInv

\* A block is mined: what it holds spends notes of the blocks before.
LEMMA MineKeepsLedger ==
    ASSUME LedgerInv, Mine
    PROVE  LedgerInv'
<1>0. IsSequence(chain) /\ Tip \in Nat
  BY AppendedAt DEF LedgerInv, ChainInv, Tip
<1>1. PICK block \in SUBSET mempool : chain' = Append(chain, block) /\ mempool' \subseteq mempool \ block
  BY DEF Mine
<1>2. /\ \A h \in 1..Tip : chain'[h] = chain[h]
      /\ chain'[Tip + 1] = block
      /\ Tip' = Tip + 1 /\ IsSequence(chain')
  BY <1>0, <1>1, Appended, AppendedAt DEF Tip
<1>3. UNCHANGED <<funding, txs, dbVars, plan, queued>> /\ Tip < MaxHeight
  BY DEF Mine, senderVars
<1>b. block \subseteq DOMAIN txs /\ \A h \in 1..Tip : block \cap chain[h] = {}
  BY <1>1 DEF LedgerInv, ChainInv, MinedOnce
<1>4. MinedOnce'
  <2>1. \A h \in 1..Tip' : h \in 1..Tip \/ h = Tip + 1
    BY <1>0, <1>2
  <2>2. MinedOnce
    BY DEF LedgerInv, ChainInv
  <2>3. ASSUME NEW g \in 1..Tip', NEW h \in 1..Tip', g # h PROVE chain'[g] \cap chain'[h] = {}
    <3>1. CASE g \in 1..Tip /\ h \in 1..Tip
      BY <1>2, <2>2, <2>3, <3>1 DEF MinedOnce
    <3>2. CASE g = Tip + 1 /\ h \in 1..Tip
      BY <1>2, <1>b, <3>2
    <3>3. CASE g \in 1..Tip /\ h = Tip + 1
      BY <1>2, <1>b, <3>3
    <3>. QED
      BY <2>1, <2>3, <3>1, <3>2, <3>3
  <2>4. ASSUME NEW h \in 1..Tip' PROVE mempool' \cap chain'[h] = {}
    <3>1. CASE h \in 1..Tip
      BY <1>1, <1>2, <2>2, <3>1 DEF MinedOnce
    <3>2. CASE h = Tip + 1
      BY <1>1, <1>2, <3>2
    <3>. QED
      BY <2>1, <3>1, <3>2
  <2>. QED
    BY <2>3, <2>4 DEF MinedOnce
<1>5. ChainInv'
  <2>1. \A h \in 1..Tip' : chain'[h] \subseteq DOMAIN txs'
    BY <1>0, <1>2, <1>3, <1>b DEF LedgerInv, ChainInv
  <2>2. Tip' <= MaxHeight
    BY <1>0, <1>2, <1>3, SpendingAssumption
  <2>. QED
    BY <1>1, <1>2, <1>3, <1>4, <2>1, <2>2 DEF LedgerInv, ChainInv
<1>6. \A t, h : h \in 0..Tip /\ MinedBy(t, h) => MinedBy(t, h)'
  BY <1>0, <1>2 DEF MinedBy
<1>7. \A t : MinedBy(t, Tip) => MinedBy(t, Tip)'
  BY <1>0, <1>2 DEF MinedBy
<1>8. SpendsInv'
  <2>1. /\ \A q \in Senders : \A id \in plan'[q].spends : MinedBy(id[1], Tip)'
        /\ \A t \in DOMAIN txs' : \A id \in txs'[t].spends : MinedBy(id[1], Tip)'
    BY <1>3, <1>7 DEF LedgerInv, SpendsInv
  <2>2. ASSUME NEW h \in 1..Tip', NEW t \in chain'[h], NEW id \in txs'[t].spends
        PROVE  MinedBy(id[1], h)'
    <3>1. CASE h \in 1..Tip
      BY <1>0, <1>2, <1>3, <1>6, <3>1 DEF LedgerInv, SpendsInv
    <3>2. CASE h = Tip + 1
      BY <1>2, <1>3, <1>7, <1>b, <3>2 DEF LedgerInv, SpendsInv
    <3>. QED
      BY <1>0, <1>2, <3>1, <3>2
  <2>. QED
    BY <2>1, <2>2 DEF SpendsInv
<1>9. OutsInv'
  BY <1>3 DEF LedgerInv, OutsInv
<1>10. RowsInv'
  BY <1>0, <1>2, <1>3, <1>6 DEF LedgerInv, RowsInv, dbVars
<1>. QED
  BY <1>5, <1>8, <1>9, <1>10 DEF LedgerInv

\* The steps of the database: records, synchronizations, rewinds and locks.
LEMMA RowsKeepLedger ==
    ASSUME LedgerInv, (\E t \in queued : Record(t)) \/ Sync \/ Rewind \/ UserLock
    PROVE  LedgerInv'
<1>0. Tip \in Nat /\ checkpoint \in 0..Tip
  BY AppendedAt DEF LedgerInv, ChainInv, RowsInv, Tip
<1>1. UNCHANGED <<chainVars, plan>> /\ queued' \subseteq queued
  BY DEF Record, Sync, Rewind, UserLock, senderVars
<1>2. ChainInv'
  BY <1>1 DEF LedgerInv, ChainInv, MinedOnce, chainVars, Tip
<1>3. SpendsInv'
  BY <1>1 DEF LedgerInv, SpendsInv, chainVars, Tip, MinedBy
<1>4. OutsInv'
  BY <1>1 DEF LedgerInv, OutsInv, chainVars
<1>m. \A t, h : MinedBy(t, h)' <=> MinedBy(t, h)
  BY <1>1 DEF MinedBy, chainVars
<1>5. CASE \E t \in queued : Record(t)
  <2>1. /\ UNCHANGED <<have, spent, checkpoint>>
        /\ locked' \subseteq locked \cup have /\ held' \subseteq held \cup have
    BY <1>5 DEF Record
  <2>2. RowsInv'
    BY <1>1, <1>m, <2>1 DEF LedgerInv, RowsInv, chainVars, Tip
  <2>. QED
    BY <1>2, <1>3, <1>4, <2>2 DEF LedgerInv
<1>6. CASE Sync
  <2>1. PICK h \in (checkpoint + 1)..Tip :
          /\ have' = have \cup NotesBetween(checkpoint, h)
          /\ Recorded(SpendsBetween(checkpoint, h) \cap have')
          /\ checkpoint' = h
    BY <1>6 DEF Sync
  <2>2. ASSUME NEW id \in NotesBetween(checkpoint, h)
        PROVE  id \in Ids /\ MinedBy(id[1], h)
    <3>1. PICK t \in MinedBetween(checkpoint, h) : id \in OwnNotes(t)
      BY <2>2 DEF NotesBetween
    <3>2. PICK g \in (checkpoint + 1)..h : t \in chain[g]
      BY <3>1 DEF MinedBetween
    <3>3. PICK i \in DOMAIN txs[t].outs : id = <<t, i>>
      BY <3>1 DEF OwnNotes
    <3>4. g \in 1..Tip /\ g \in 1..h
      BY <1>0, <2>1, <3>2
    <3>5. t \in DOMAIN txs /\ DOMAIN txs = 1..Len(txs) /\ Len(txs) <= MaxSent /\ Len(txs) \in Nat
      BY <3>2, <3>4, AppendedAt DEF LedgerInv, ChainInv
    <3>6. t \in 0..MaxSent /\ i \in Nat
      BY <3>3, <3>5, SpendingAssumption DEF LedgerInv, OutsInv
    <3>. QED
      BY <3>2, <3>3, <3>4, <3>6 DEF Ids, MinedBy
  <2>3. \A id \in have : MinedBy(id[1], h)
    BY <1>0, <2>1 DEF LedgerInv, RowsInv, MinedBy
  <2>4. /\ have' \subseteq Ids /\ have \subseteq have'
        /\ \A id \in have' : MinedBy(id[1], checkpoint)'
    BY <1>m, <2>1, <2>2, <2>3 DEF LedgerInv, RowsInv
  <2>5. spent' \subseteq have' /\ locked' \subseteq have' /\ held' \subseteq have'
    BY <1>6, <2>1, <2>4 DEF LedgerInv, RowsInv, Recorded, Sync
  <2>6. checkpoint' \in 0..Tip'
    BY <1>0, <1>1, <2>1 DEF chainVars, Tip
  <2>7. RowsInv'
    BY <2>4, <2>5, <2>6 DEF RowsInv
  <2>. QED
    BY <1>2, <1>3, <1>4, <2>7 DEF LedgerInv
<1>7. CASE Rewind
  <2>1. PICK h \in 0..(checkpoint - 1) :
          /\ have' = {id \in have : HeightOf(id[1]) <= h}
          /\ spent' = spent \cap SpendsBetween(0, h)
          /\ locked' = locked \cap have'
          /\ held' \subseteq have'
          /\ checkpoint' = h
    BY <1>7 DEF Rewind
  <2>2. h \in 0..Tip
    BY <1>0, <2>1
  <2>3. \A id \in have : MinedBy(id[1], Tip)
    BY <1>0 DEF LedgerInv, RowsInv, MinedBy
  <2>4. \A id \in have : HeightOf(id[1]) <= h <=> MinedBy(id[1], h)
    BY <2>2, <2>3, HeightOfMined DEF LedgerInv
  <2>5. ASSUME NEW id \in spent' PROVE id \in have'
    <3>1. PICK t \in MinedBetween(0, h) : id \in txs[t].spends
      BY <2>1, <2>5 DEF SpendsBetween
    <3>2. PICK g \in 1..h : t \in chain[g]
      BY <3>1 DEF MinedBetween
    <3>3. MinedBy(id[1], g)
      BY <1>0, <2>2, <3>1, <3>2 DEF LedgerInv, SpendsInv
    <3>4. MinedBy(id[1], h) /\ id \in have
      BY <2>1, <2>2, <2>5, <3>2, <3>3 DEF MinedBy, LedgerInv, RowsInv
    <3>. QED
      BY <2>1, <2>4, <3>4
  <2>6. RowsInv'
    <3>1. checkpoint' \in 0..Tip'
      BY <1>1, <2>1, <2>2 DEF chainVars, Tip
    <3>2. have' \subseteq Ids /\ \A id \in have' : MinedBy(id[1], checkpoint)'
      BY <1>m, <2>1, <2>4 DEF LedgerInv, RowsInv
    <3>. QED
      BY <2>1, <2>5, <3>1, <3>2 DEF RowsInv
  <2>. QED
    BY <1>2, <1>3, <1>4, <2>6 DEF LedgerInv
<1>8. CASE UserLock
  <2>1. UNCHANGED <<have, spent, checkpoint>> /\ locked' \in LockChanges /\ held' \subseteq held
    BY <1>8 DEF UserLock
  <2>2. locked' \subseteq have
    BY <2>1 DEF LockChanges, LedgerInv, RowsInv
  <2>3. RowsInv'
    BY <1>1, <1>m, <2>1, <2>2 DEF LedgerInv, RowsInv, chainVars, Tip
  <2>. QED
    BY <1>2, <1>3, <1>4, <2>3 DEF LedgerInv
<1>. QED
  BY <1>5, <1>6, <1>7, <1>8

\* Every step keeps the ledger.
LEMMA LedgerStep == LedgerInv /\ SenderInv /\ [Next]_vars => LedgerInv'
<1>. SUFFICES ASSUME LedgerInv, SenderInv, [Next]_vars PROVE LedgerInv'
  OBVIOUS
<1>1. Migrator \in Senders
  BY MigrationAssumption
<1>2. ASSUME UNCHANGED spendVars PROVE LedgerInv'
  BY <1>2
  DEF LedgerInv, ChainInv, SpendsInv, OutsInv, RowsInv, MinedOnce, MinedBy, Tip,
      spendVars, chainVars, dbVars, senderVars
<1>3. CASE StartRun \/ NextTask \/ Revalidate \/ StepOnce \/ AfterEffect \/ UNCHANGED vars
  BY <1>2, <1>3 DEF StartRun, NextTask, Revalidate, StepOnce, AfterEffect, vars
<1>4. CASE PlanTask \/ EndRun \/ Crash
  BY <1>1, <1>4, SenderKeepsLedger DEF PlanTask, EndRun, Crash
<1>5. CASE SendTask
  BY <1>1, <1>5, SenderKeepsLedger, PostKeepsLedger DEF SendTask
<1>6. CASE \E s \in Users : UserStep(s)
  BY <1>6, SenderKeepsLedger, PostKeepsLedger DEF UserStep, Users
<1>7. CASE Around
  BY <1>7, MineKeepsLedger, RowsKeepLedger DEF Around
<1>. QED
  BY <1>3, <1>4, <1>5, <1>6, <1>7 DEF Next

-----------------------------------------------------------------------------
\* The types that the ledger and the pace leave.

RestInv ==
    /\ funding \in Fundings
    /\ deeds \in 0..MaxDeeds
    /\ run \in {"off", "loop", "check", "execute", "once"}
    /\ task.kind \in {"none", "split", "hop"}
    /\ sent \in 0..Len(txs)
    /\ last \in 0..MaxHeight \cup {NoHeight}
    /\ \A i \in DOMAIN acts : acts[i] \in 0..MaxHeight

\* A task is a split or a hop.
LEMMA EffectKinds == \A t \in Effects : t.kind \in {"split", "hop"}
<1>1. \A k, n, o, a : Task(k, n, o, a).kind = k
  BY DEF Task
<1>2. \A t \in Splits : t.kind = "split"
  BY <1>1 DEF Splits
<1>3. \A t \in Hops : t.kind = "hop"
  <2>1. ASSUME NEW t \in Hops PROVE \E n : t = Hop(n)
    BY <2>1 DEF Hops
  <2>2. \A n : Hop(n).kind = "hop"
    BY <1>1 DEF Hop
  <2>. QED
    BY <2>1, <2>2
<1>. QED
  BY <1>2, <1>3 DEF Effects

\* The steps of the senders, of the chain and of the database leave the
\* funding, and the bounds hold.
LEMMA SpendingRest ==
    ASSUME RestInv, IsSequence(txs),
           \/ \E s \in Senders : \E r : PlanTx(s, r) \/ BuildTx(s) \/ Post(s) \/ Forget(s)
           \/ Die \/ Around \/ UNCHANGED spendVars
    PROVE  /\ funding' \in Fundings /\ deeds' \in 0..MaxDeeds
           /\ Len(txs) \in Nat /\ Len(txs') \in {Len(txs), Len(txs) + 1}
<1>. USE SpendingAssumption DEF RestInv
<1>0. Len(txs) \in Nat
  BY AppendedAt
<1>1. CASE \E s \in Senders : \E r : PlanTx(s, r) \/ BuildTx(s) \/ Forget(s)
  BY <1>0, <1>1 DEF PlanTx, BuildTx, Forget, Deed, chainVars
<1>2. CASE \E s \in Senders : Post(s)
  BY <1>0, <1>2, Appended DEF Post
<1>3. CASE Die \/ UNCHANGED spendVars
  BY <1>0, <1>3 DEF Die, spendVars, chainVars
<1>4. CASE Around
  <2>1. UNCHANGED <<funding, txs>> /\ (UNCHANGED deeds \/ Deed)
    BY <1>4 DEF Around, Record, Mine, Sync, Rewind, UserLock, chainVars
  <2>. QED
    BY <1>0, <2>1 DEF Deed
<1>. QED
  BY <1>1, <1>2, <1>3, <1>4

\* Every step keeps the rest.
LEMMA RestStep == RestInv /\ LedgerInv /\ PaceInv /\ [Next]_vars => RestInv'
<1>. SUFFICES ASSUME RestInv, LedgerInv, PaceInv, [Next]_vars PROVE RestInv'
  OBVIOUS
<1>1. Migrator \in Senders /\ SpendingAssumption
  BY MigrationAssumption, SpendingAssumption
<1>2. IsSequence(chain) /\ IsSequence(txs) /\ Tip \in 0..MaxHeight
  BY SpendingAssumption, AppendedAt DEF LedgerInv, ChainInv, Tip
<1>3. NoTask.kind = "none"
  BY DEF NoTask, NoRequest
<1>4. CASE StartRun \/ NextTask \/ Revalidate \/ StepOnce
  <2>1. UNCHANGED <<spendVars, sent, last, acts>>
    BY <1>4 DEF StartRun, NextTask, Revalidate, StepOnce
  <2>2. task'.kind \in {"none", "split", "hop"} /\ run' \in {"off", "loop", "check", "execute", "once"}
    BY <1>3, <1>4, EffectKinds DEF RestInv, StartRun, NextTask, Revalidate, StepOnce
  <2>. QED
    BY <2>1, <2>2 DEF RestInv, spendVars, chainVars
<1>5. CASE PlanTask
  <2>1. UNCHANGED <<txs, run, sent, last, acts>> /\ task' = NoTask
    BY <1>5 DEF PlanTask, PlanTx, chainVars
  <2>2. funding' \in Fundings /\ deeds' \in 0..MaxDeeds
    BY <1>1, <1>2, <1>5, SpendingRest DEF PlanTask
  <2>. QED
    BY <1>3, <2>1, <2>2 DEF RestInv
<1>6. CASE SendTask
  <2>1. /\ funding' \in Fundings /\ deeds' \in 0..MaxDeeds
        /\ Len(txs) \in Nat /\ Len(txs') \in {Len(txs), Len(txs) + 1}
    BY <1>1, <1>2, <1>6, SpendingRest DEF SendTask
  <2>2. UNCHANGED <<run, task, last>> /\ sent' \in {sent, Len(txs')}
    BY <1>6 DEF SendTask
  <2>3. acts' \in {acts, Append(acts, Tip)}
    BY <1>6 DEF SendTask
  <2>4. acts \in Seq(Int)
    BY DEF PaceInv, Paced
  <2>5. \A i \in DOMAIN acts' : acts'[i] \in 0..MaxHeight
    BY <1>2, <2>3, <2>4 DEF RestInv
  <2>. QED
    BY <2>1, <2>2, <2>5 DEF RestInv
<1>7. CASE AfterEffect
  BY <1>2, <1>7, AppendedAt DEF AfterEffect, SentAndRecorded, RestInv, spendVars, chainVars
<1>8. CASE EndRun \/ Crash
  <2>1. /\ funding' \in Fundings /\ deeds' \in 0..MaxDeeds
        /\ Len(txs) \in Nat /\ Len(txs') \in {Len(txs), Len(txs) + 1}
    BY <1>1, <1>2, <1>8, SpendingRest DEF EndRun, Crash
  <2>2. run' = "off" /\ task' = NoTask /\ sent' = 0 /\ last' = NoHeight /\ acts' = <<>>
    BY <1>8 DEF EndRun, Crash, Stops
  <2>. QED
    BY <1>3, <2>1, <2>2 DEF RestInv
<1>9. CASE (\E s \in Users : UserStep(s)) \/ (Around /\ UNCHANGED runVars) \/ UNCHANGED vars
  <2>1. /\ funding' \in Fundings /\ deeds' \in 0..MaxDeeds
        /\ Len(txs) \in Nat /\ Len(txs') \in {Len(txs), Len(txs) + 1}
    BY <1>1, <1>2, <1>9, SpendingRest DEF UserStep, Users, vars
  <2>2. UNCHANGED runVars
    BY <1>9 DEF UserStep, vars
  <2>. QED
    BY <2>1, <2>2 DEF RestInv, runVars
<1>. QED
  BY <1>4, <1>5, <1>6, <1>7, <1>8, <1>9 DEF Next

\* All that the theorems below rest on.
BaseInv == PaceInv /\ LedgerInv /\ RestInv

\* It holds at the start.
LEMMA BaseInit == Init => BaseInv
<1>. SUFFICES ASSUME Init PROVE RestInv
  BY Initially, LedgerInit DEF BaseInv
<1>. QED
  BY SpendingAssumption
  DEF Init, SpendingInit, RestInv, NoTask, NoRequest

\* Every step keeps it.
LEMMA BaseStep == BaseInv /\ [Next]_vars => BaseInv'
  BY PaceStep, LedgerStep, RestStep DEF BaseInv, PaceInv

\* The rows, the spends, the locks and what is held are of notes that exist,
\* under the bounds, whatever is paid, mined, synchronized and rewound
\* (chain_log's tables), and a transaction of the migration is under way only
\* in a run that took its task.
THEOREM MigrationTypes == Spec => []TypeOK
<1>1. ASSUME BaseInv PROVE TypeOK
  <2>1. SpendingTypeOK
    BY <1>1 DEF BaseInv, PaceInv, SenderInv, LedgerInv, ChainInv, RowsInv, RestInv, SpendingTypeOK
  <2>. QED
    BY <1>1, <2>1 DEF BaseInv, PaceInv, Clean, RestInv, TypeOK
<1>. QED
  BY <1>1, BaseInit, BaseStep, PTL DEF Spec

-----------------------------------------------------------------------------
\* The notes that there are, and what they are worth.

NoteIds ==
    {<<0, i>> : i \in DOMAIN funding}
        \cup UNION {{<<t, i>> : i \in DOMAIN txs[t].outs} : t \in DOMAIN txs}

Rows(ids) == {Row(id) : id \in ids}

TxsTyped == \A t \in DOMAIN txs : txs[t].outs \in Seq(Output)

\* The image of a finite set is finite.
LEMMA ImageFinite ==
    ASSUME NEW S, IsFiniteSet(S), NEW f
    PROVE  IsFiniteSet({f[x] : x \in S})
<1>. DEFINE T == {f[x] : x \in S}
            g == [x \in S |-> f[x]]
<1>1. g \in Surjection(S, T)
  BY DEF Surjection
<1>. QED
  BY <1>1, FS_Surjection

\* There are finitely many notes.
LEMMA NoteIdsFinite ==
    ASSUME TxsTyped, LedgerInv, funding \in Fundings
    PROVE  IsFiniteSet(NoteIds)
<1>. DEFINE own(t) == {<<t, i>> : i \in DOMAIN txs[t].outs}
            first == {<<0, i>> : i \in DOMAIN funding}
            others == {own(t) : t \in DOMAIN txs}
<1>1. IsFiniteSet(DOMAIN funding)
  <2>1. PICK k \in Nat : DOMAIN funding = 1..k
    BY SpendingAssumption
  <2>. QED
    BY <2>1, FS_Interval
<1>2. IsFiniteSet(DOMAIN txs)
  <2>1. PICK k \in Nat : DOMAIN txs = 1..k
    BY AppendedAt DEF LedgerInv, ChainInv
  <2>. QED
    BY <2>1, FS_Interval
<1>3. IsFiniteSet(first)
  <2>1. PICK f : f = [i \in DOMAIN funding |-> <<0, i>>]
    OBVIOUS
  <2>2. first = {f[i] : i \in DOMAIN funding}
    BY <2>1
  <2>. QED
    BY <1>1, <2>2, ImageFinite
<1>4. ASSUME NEW t \in DOMAIN txs PROVE IsFiniteSet(own(t))
  <2>1. IsFiniteSet(DOMAIN txs[t].outs)
    BY PlacesFinite DEF TxsTyped
  <2>2. PICK f : f = [i \in DOMAIN txs[t].outs |-> <<t, i>>]
    OBVIOUS
  <2>3. own(t) = {f[i] : i \in DOMAIN txs[t].outs}
    BY <2>2
  <2>. QED
    BY <2>1, <2>3, ImageFinite
<1>5. IsFiniteSet(others)
  <2>1. PICK f : f = [t \in DOMAIN txs |-> own(t)]
    OBVIOUS
  <2>2. others = {f[t] : t \in DOMAIN txs}
    BY <2>1
  <2>. HIDE DEF own, others
  <2>. QED
    BY <1>2, <2>2, ImageFinite
<1>6. \A s \in others : IsFiniteSet(s)
  BY <1>4
<1>. HIDE DEF own, first, others
<1>7. IsFiniteSet(UNION others)
  BY <1>5, <1>6, FS_UNION
<1>8. IsFiniteSet(first \cup UNION others)
  BY <1>3, <1>7, FS_Union
<1>. QED
  BY <1>8 DEF NoteIds, own, first, others

\* A note has a value in a pool.
LEMMA RowTyped ==
    ASSUME TxsTyped, LedgerInv, funding \in Fundings, NEW id \in NoteIds
    PROVE  /\ Row(id).id = id /\ Row(id).value = NoteAt(id).value /\ Row(id).pool = NoteAt(id).pool
           /\ Row(id).value \in Nat /\ Row(id).pool \in Pools
<1>1. NoteAt(id).value \in Nat /\ NoteAt(id).pool \in Pools
  <2>1. CASE \E i \in DOMAIN funding : id = <<0, i>>
    <3>1. PICK i \in DOMAIN funding : id = <<0, i>>
      BY <2>1
    <3>. DEFINE R == [pool : Pools, value : Nat, big : BOOLEAN]
    <3>2. funding \in Seq(R) /\ \A n \in R : n.value \in Nat /\ n.pool \in Pools
      BY SpendingAssumption
    <3>. HIDE DEF R
    <3>3. funding[i] \in R
      BY <3>2
    <3>4. NoteAt(id) = funding[i]
      BY <3>1 DEF NoteAt
    <3>. QED
      BY <3>2, <3>3, <3>4
  <2>2. CASE \E t \in DOMAIN txs : \E i \in DOMAIN txs[t].outs : id = <<t, i>>
    <3>0. PICK t \in DOMAIN txs : \E i \in DOMAIN txs[t].outs : id = <<t, i>>
      BY <2>2
    <3>1. PICK i \in DOMAIN txs[t].outs : id = <<t, i>>
      BY <3>0
    <3>2. txs[t].outs \in Seq(Output)
      BY DEF TxsTyped
    <3>3. txs[t].outs[i] \in Output
      BY <3>2
    <3>4. t # 0
      BY AppendedAt DEF LedgerInv, ChainInv
    <3>5. NoteAt(id) = txs[t].outs[i]
      BY <3>1, <3>4 DEF NoteAt
    <3>. QED
      BY <3>3, <3>5, OutputFields
  <2>. QED
    BY <2>1, <2>2 DEF NoteIds
<1>. QED
  BY <1>1 DEF Row

\* What the planner is given.
LEMMA FreeNotesOK ==
    ASSUME TxsTyped, LedgerInv, funding \in Fundings, have \subseteq NoteIds
    PROVE  /\ NotesOK(FreeNotes)
           /\ \A n \in FreeNotes : n.id \in Free /\ n.id \in NoteIds /\ n = Row(n.id)
           /\ \A n \in FreeNotes : n.height \in 0..Tip
<1>1. Free \subseteq NoteIds /\ Free \subseteq have
  BY DEF Free
<1>2. IsFiniteSet(FreeNotes)
  <2>1. IsFiniteSet(Free)
    BY <1>1, NoteIdsFinite, FS_Subset
  <2>2. PICK f : f = [id \in Free |-> Row(id)]
    OBVIOUS
  <2>3. FreeNotes = {f[id] : id \in Free}
    BY <2>2 DEF FreeNotes
  <2>. QED
    BY <2>1, <2>3, ImageFinite
<1>3. ASSUME NEW n \in FreeNotes
      PROVE  /\ n.id \in Free /\ n.id \in NoteIds /\ n = Row(n.id)
             /\ n.value \in Nat /\ n.pool \in Pools
             /\ n.height \in 0..Tip
  <2>1. PICK id \in Free : n = Row(id)
    BY DEF FreeNotes
  <2>2. n.id = id /\ n.height = HeightOf(id[1])
    BY <2>1 DEF Row
  <2>3. Tip \in Nat /\ checkpoint \in 0..Tip
    BY AppendedAt DEF LedgerInv, ChainInv, RowsInv, Tip
  <2>4. MinedBy(id[1], Tip)
    <3>1. MinedBy(id[1], checkpoint)
      BY <1>1 DEF LedgerInv, RowsInv
    <3>. QED
      BY <2>3, <3>1 DEF MinedBy
  <2>5. HeightOf(id[1]) \in 0..Tip
    BY <2>3, <2>4, HeightOfMined DEF LedgerInv
  <2>. QED
    BY <1>1, <2>1, <2>2, <2>5, RowTyped
<1>. QED
  BY <1>2, <1>3 DEF NotesOK

-----------------------------------------------------------------------------
\* What is accepted stays, and what is mined.

Grows ==
    /\ UNCHANGED funding
    /\ txs' = txs \/ \E e : txs' = Append(txs, e)
    /\ chain' = chain \/ \E b : chain' = Append(chain, b)

\* Every step adds a transaction or a block, or neither.
LEMMA StepGrows == [Next]_vars => Grows
<1>. SUFFICES ASSUME [Next]_vars PROVE Grows
  OBVIOUS
<1>1. ASSUME UNCHANGED chainVars PROVE Grows
  BY <1>1 DEF Grows, chainVars
<1>2. CASE StartRun \/ NextTask \/ Revalidate \/ StepOnce \/ AfterEffect \/ UNCHANGED vars
  BY <1>1, <1>2 DEF StartRun, NextTask, Revalidate, StepOnce, AfterEffect, vars, spendVars
<1>3. CASE PlanTask \/ EndRun \/ Crash
  BY <1>1, <1>3 DEF PlanTask, EndRun, Crash, PlanTx, Forget, Die
<1>4. ASSUME NEW s, BuildTx(s) \/ Post(s) \/ Forget(s) PROVE Grows
  <2>1. CASE Post(s)
    BY <2>1 DEF Post, Grows
  <2>2. CASE BuildTx(s) \/ Forget(s)
    BY <1>1, <2>2 DEF BuildTx, Forget
  <2>. QED
    BY <1>4, <2>1, <2>2
<1>5. CASE SendTask \/ \E s \in Users : UserStep(s)
  <2>1. ASSUME NEW s, \E r \in Requests : PlanTx(s, r) PROVE Grows
    BY <1>1, <2>1 DEF PlanTx
  <2>. QED
    BY <1>4, <1>5, <2>1 DEF SendTask, UserStep
<1>6. CASE Around
  <2>1. CASE Mine
    BY <2>1 DEF Mine, Grows
  <2>2. CASE (\E t \in queued : Record(t)) \/ Sync \/ Rewind \/ UserLock
    BY <1>1, <2>2 DEF Record, Sync, Rewind, UserLock
  <2>. QED
    BY <1>6, <2>1, <2>2 DEF Around
<1>. QED
  BY <1>2, <1>3, <1>5, <1>6 DEF Next

\* The chain and the transactions, after a step.
LEMMA GrowsBy ==
    ASSUME Grows, LedgerInv
    PROVE  /\ Tip \in Nat /\ Tip' \in Nat /\ Tip <= Tip'
           /\ \A h \in 1..Tip : chain'[h] = chain[h]
           /\ \A t \in DOMAIN txs : t \in DOMAIN txs' /\ txs'[t] = txs[t]
           /\ 0 \notin DOMAIN txs /\ 0 \notin DOMAIN txs'
<1>1. IsSequence(chain) /\ IsSequence(txs)
  BY DEF LedgerInv, ChainInv
<1>2. /\ Tip \in Nat /\ Tip' \in Nat /\ Tip <= Tip'
      /\ \A h \in 1..Tip : chain'[h] = chain[h]
  <2>1. CASE chain' = chain
    BY <1>1, <2>1, AppendedAt DEF Tip
  <2>2. CASE \E b : chain' = Append(chain, b)
    <3>1. PICK b : chain' = Append(chain, b)
      BY <2>2
    <3>2. Len(chain) \in Nat /\ Len(Append(chain, b)) = Len(chain) + 1
      BY <1>1, Appended
    <3>3. \A h \in 1..Len(chain) : Append(chain, b)[h] = chain[h]
      BY <1>1, AppendedAt
    <3>. QED
      BY <3>1, <3>2, <3>3 DEF Tip
  <2>. QED
    BY <2>1, <2>2 DEF Grows
<1>3. /\ \A t \in DOMAIN txs : t \in DOMAIN txs' /\ txs'[t] = txs[t]
      /\ 0 \notin DOMAIN txs /\ 0 \notin DOMAIN txs'
  <2>1. CASE txs' = txs
    BY <1>1, <2>1, AppendedAt
  <2>2. CASE \E e : txs' = Append(txs, e)
    <3>1. PICK e : txs' = Append(txs, e)
      BY <2>2
    <3>2. /\ DOMAIN txs = 1..Len(txs) /\ DOMAIN Append(txs, e) = 1..(Len(txs) + 1)
          /\ Len(txs) \in Nat
          /\ \A i \in 1..Len(txs) : Append(txs, e)[i] = txs[i]
      BY <1>1, AppendedAt
    <3>. QED
      BY <3>1, <3>2
  <2>. QED
    BY <2>1, <2>2 DEF Grows
<1>. QED
  BY <1>2, <1>3

\* The notes stay, with their value and height, and the fee does not rise.
LEMMA GrowsKeeps ==
    ASSUME Grows, LedgerInv, LedgerInv'
    PROVE  /\ NoteIds \subseteq NoteIds'
           /\ \A id \in NoteIds : NoteAt(id)' = NoteAt(id)
           /\ \A h \in 0..Tip : \A t : MinedBy(t, h) => MinedBy(t, h)'
           /\ \A t : MinedBy(t, Tip) => MinedBy(t, Tip)' /\ HeightOf(t)' = HeightOf(t)
           /\ \A id \in NoteIds : MinedBy(id[1], Tip) => Row(id)' = Row(id)
           /\ CostPerAction(Tip + 1) \in {1000, 5000} /\ CostPerAction(Tip' + 1) \in {1000, 5000}
           /\ CostPerAction(Tip' + 1) <= CostPerAction(Tip + 1)
<1>1. NoteIds \subseteq NoteIds'
  BY GrowsBy DEF Grows, NoteIds
<1>2. ASSUME NEW id \in NoteIds PROVE NoteAt(id)' = NoteAt(id)
  <2>1. id[1] = 0 \/ id[1] \in DOMAIN txs
    BY DEF NoteIds
  <2>. QED
    BY <2>1, GrowsBy DEF Grows, NoteAt
<1>3. ASSUME NEW h \in 0..Tip, NEW t, MinedBy(t, h) PROVE MinedBy(t, h)'
  BY <1>3, GrowsBy DEF MinedBy
<1>4. ASSUME NEW t, MinedBy(t, Tip) PROVE MinedBy(t, Tip)' /\ HeightOf(t)' = HeightOf(t)
  <2>1. MinedBy(t, Tip)'
    BY <1>4, GrowsBy DEF MinedBy
  <2>2. CASE t = 0
    BY <2>1, <2>2 DEF HeightOf
  <2>3. CASE t # 0
    <3>1. PICK g \in 1..Tip : t \in chain[g]
      BY <1>4, <2>3 DEF MinedBy
    <3>2. g \in 1..Tip' /\ t \in chain'[g]
      BY <3>1, GrowsBy
    <3>3. /\ \A k \in 1..Tip : t \in chain[k] => k = g
          /\ \A k \in 1..Tip' : t \in chain'[k] => k = g
      BY <3>1, <3>2 DEF LedgerInv, ChainInv, MinedOnce
    <3>4. HeightOf(t) = g
      BY <2>3, <3>1, <3>3 DEF HeightOf
    <3>5. HeightOf(t)' = g
      BY <2>3, <3>2, <3>3 DEF HeightOf
    <3>. QED
      BY <2>1, <3>4, <3>5
  <2>. QED
    BY <2>2, <2>3
<1>5. ASSUME NEW id \in NoteIds, MinedBy(id[1], Tip) PROVE Row(id)' = Row(id)
  <2>1. NoteAt(id)' = NoteAt(id) /\ HeightOf(id[1])' = HeightOf(id[1])
    BY <1>2, <1>4, <1>5
  <2>. QED
    BY <2>1 DEF Row
<1>6. /\ CostPerAction(Tip + 1) \in {1000, 5000} /\ CostPerAction(Tip' + 1) \in {1000, 5000}
      /\ CostPerAction(Tip' + 1) <= CostPerAction(Tip + 1)
  BY GrowsBy, SpendingAssumption DEF CostPerAction
<1>. QED
  BY <1>1, <1>2, <1>3, <1>4, <1>5, <1>6

-----------------------------------------------------------------------------
\* The tasks.

\* A hop is of a note that stood on the boundary of its anchor.
HopOf(t) ==
    /\ HopRequest(t) /\ IsIwSD(t.outs[1].value) /\ t.confirmations = 0
    /\ t.anchor \in 0..Tip /\ t.anchor % Bucket = 0
    /\ \E id \in NoteIds :
           /\ t.notes = {id} /\ MinedBy(id[1], t.anchor)
           /\ NoteAt(id).value - t.outs[1].value \in {4000, 20000}

\* The notes of a split are worth its outputs and its fee, also at a later
\* height.
SplitOf(t) ==
    /\ t.outs # <<>> /\ t.payer = FALSE /\ t.migration = TRUE
    /\ t.pools = {Orchard} /\ t.confirmations = 0
    /\ Counts(t.outs) = [q \in Pools |-> IF q = Orchard THEN Len(t.outs) ELSE 0]
    /\ t.notes \subseteq NoteIds
    /\ \A id \in t.notes : MinedBy(id[1], Tip)
    /\ ValueOf(Rows(t.notes)) >= Paid(t.outs)
           + SplitFee(Cardinality(Rows(t.notes)), Len(t.outs), CostPerAction(Tip + 1))

TaskInv(t) ==
    /\ RequestOK(t)
    /\ t.kind = "hop" => HopOf(t)
    /\ t.kind = "split" => SplitOf(t)

\* What the state of the wallet promises to the planner.
WalletOK ==
    /\ LedgerInv /\ TxsTyped
    /\ funding \in Fundings
    /\ have \subseteq NoteIds

\* The sums to move are powers of ten.
LEMMA IwSDValues == \A v : IsIwSD(v) => v \in {100000, 1000000, 10000000, 100000000}
<1>. SUFFICES ASSUME NEW v, IsIwSD(v) PROVE v \in {100000, 1000000, 10000000, 100000000}
  OBVIOUS
<1>1. Exponents = 5..8
  BY DEF Exponents, MaxExponent
<1>2. IsIwSD(v) <=> \E k \in Exponents : v = Power(k)
  BY DEF IsIwSD, Power
<1>3. PICK k \in 5..8 : v = Power(k)
  BY <1>1, <1>2
<1>. QED
  BY <1>3, PowersOfTen

\* A note that fits is moved.
LEMMA HopMade ==
    ASSUME WalletOK, NEW t \in Hops
    PROVE  TaskInv(t)
<1>1. PICK n \in SpendableAt(checkpoint) : t = Hop(n) /\ checkpoint % Bucket = 0
  BY DEF Hops
<1>2. /\ n \in FreeNotes /\ n.pool = Orchard
      /\ n.value > Pad /\ IsIwSD(n.value - Pad) /\ n.height <= checkpoint
  BY DEF SpendableAt, SdNotes, OrchardNotes, Of, IsSD
<1>3. n.id \in have /\ n.id \in NoteIds /\ n = Row(n.id) /\ n.value \in Nat
  BY <1>2, FreeNotesOK DEF WalletOK, NotesOK, Free
<1>4. NoteAt(n.id).value = n.value
  BY <1>3, RowTyped DEF WalletOK
<1>5. checkpoint \in 0..Tip /\ MinedBy(n.id[1], checkpoint)
  BY <1>3 DEF WalletOK, LedgerInv, RowsInv
<1>6. Pad \in {4000, 20000}
  BY DEF Pad, FeePad, CostPerAction
<1>. DEFINE v == n.value - Pad
            o == OwnOutputTo(Ironwood, v)
<1>7. v \in Nat /\ v > 0 /\ n.value - v \in {4000, 20000} /\ IsIwSD(v)
  BY <1>2, <1>3, <1>6
<1>8. o \in Output /\ o.pool = Ironwood /\ o.value = v
  BY <1>7, PoolsApart DEF Output, OwnOutputTo
<1>9. /\ t.kind = "hop" /\ t.outs = <<o>> /\ t.pools = {Orchard} /\ t.payer = FALSE
      /\ t.confirmations = 0 /\ t.migration = TRUE /\ t.notes = {n.id} /\ t.anchor = checkpoint
  <2>1. t = Task("hop", {n}, <<o>>, checkpoint)
    BY <1>1 DEF Hop
  <2>2. {m.id : m \in {n}} = {n.id}
    OBVIOUS
  <2>. HIDE DEF o
  <2>. QED
    BY <2>1, <2>2 DEF Task
<1>. HIDE DEF o, v
<1>10. t.outs[1] = o
  BY <1>9
<1>11. HopRequest(t)
  BY <1>7, <1>8, <1>9 DEF HopRequest
<1>12. HopOf(t)
  <2>1. t.outs[1].value = v
    BY <1>8, <1>10
  <2>2. /\ t.notes = {n.id} /\ MinedBy(n.id[1], t.anchor)
        /\ NoteAt(n.id).value - t.outs[1].value \in {4000, 20000}
    BY <1>4, <1>5, <1>7, <1>9, <2>1
  <2>. QED
    BY <1>1, <1>3, <1>5, <1>7, <1>9, <1>11, <2>1, <2>2 DEF HopOf
<1>13. RequestOK(t)
  BY <1>8, <1>9, OneOutput DEF RequestOK
<1>. QED
  BY <1>9, <1>12, <1>13 DEF TaskInv

\* The notes that a split takes.
LEMMA CappedNotes ==
    ASSUME WalletOK
    PROVE  /\ CappedNonSd \subseteq NonSdNotes /\ NotesOK(CappedNonSd)
           /\ CappedNonSd \subseteq FreeNotes /\ \A n \in CappedNonSd : n.pool = Orchard
<1>1. NonSdNotes \subseteq FreeNotes /\ \A n \in NonSdNotes : n.pool = Orchard
  BY DEF NonSdNotes, OrchardNotes, Of
<1>2. NotesOK(NonSdNotes)
  BY <1>1, FreeNotesOK, PartOK DEF WalletOK
<1>3. PICK c \in Nat : c = Cardinality(NonSdNotes)
  BY <1>2, FS_CardinalityType DEF NotesOK
<1>4. PICK k \in Nat : k = Min({MaxSplitInputs, Cardinality(NonSdNotes)}) /\ k <= Cardinality(NonSdNotes)
  BY <1>3, MigrationAssumption DEF Min
<1>5. \E T \in SUBSET NonSdNotes : Cardinality(T) = k /\ Largest(T, NonSdNotes)
  BY <1>2, <1>4, LargestExist
<1>6. CappedNonSd \in SUBSET NonSdNotes
  BY <1>4, <1>5 DEF CappedNonSd
<1>. QED
  BY <1>1, <1>2, <1>6, PartOK

\* The rest are cut.
LEMMA SplitMade ==
    ASSUME WalletOK, NEW t \in Splits
    PROVE  TaskInv(t)
<1>. DEFINE S == CappedNonSd
            cost == CostPerAction(Tip + 1)
            values == SplitOutputs
            outs == [i \in DOMAIN values |-> OwnOutputTo(Orchard, values[i])]
<1>1. NotesOK(S) /\ S \subseteq FreeNotes /\ IsFiniteSet(S)
  BY CappedNotes DEF NotesOK
<1>2. /\ cost \in Nat
      /\ \E total \in Nat : total = ValueOf(S)
      /\ \E inputs \in Nat : inputs = Cardinality(S)
  BY <1>1, ValueNat, FS_CardinalityType DEF CostPerAction
<1>3. values # <<>> /\ t = Task("split", S, outs, 0)
  BY DEF Splits
<1>4. /\ values \in Seq(Nat)
      /\ SplitFee(Cardinality(S), Len(values), cost) <= ValueOf(S) - SumOf(values, Len(values))
  <2>1. values = PlanSplit(ValueOf(S), Cardinality(S), cost)
    BY DEF SplitOutputs
  <2>. HIDE DEF values, S, cost
  <2>. QED
    BY <1>2, <1>3, <2>1, SplitPays
<1>. HIDE DEF values, S, cost
<1>5. /\ outs \in Seq(Output) /\ Len(outs) = Len(values)
      /\ Paid(outs) = SumOf(values, Len(values))
      /\ Counts(outs) = [q \in Pools |-> IF q = Orchard THEN Len(values) ELSE 0]
  <2>1. outs = OwnOutputs(Orchard, values)
    BY DEF OwnOutputTo, OwnOutputs
  <2>. HIDE DEF outs
  <2>. QED
    BY <1>4, <2>1, SplitWish, PoolsApart
<1>6. /\ t.kind = "split" /\ t.outs = outs /\ t.pools = {Orchard} /\ t.payer = FALSE
      /\ t.confirmations = 0 /\ t.migration = TRUE /\ t.notes = {n.id : n \in S}
  <2>. HIDE DEF outs
  <2>. QED
    BY <1>3 DEF Task
<1>. HIDE DEF outs
<1>7. \A n \in S : n.id \in have /\ n.id \in NoteIds /\ n = Row(n.id)
  BY <1>1, FreeNotesOK DEF WalletOK, Free
<1>8. Rows(t.notes) = S
  BY <1>6, <1>7 DEF Rows
<1>9. \A id \in t.notes : id \in NoteIds /\ MinedBy(id[1], Tip)
  <2>1. checkpoint \in 0..Tip /\ Tip \in Nat
    BY AppendedAt DEF WalletOK, LedgerInv, RowsInv, ChainInv, Tip
  <2>2. \A id \in t.notes : id \in have /\ id \in NoteIds
    BY <1>6, <1>7
  <2>3. \A id \in have : MinedBy(id[1], checkpoint)
    BY DEF WalletOK, LedgerInv, RowsInv
  <2>. QED
    BY <2>1, <2>2, <2>3 DEF MinedBy
<1>10. outs # <<>>
  BY <1>3, <1>4, <1>5
<1>11. ValueOf(S) >= Paid(outs) + SplitFee(Cardinality(S), Len(outs), cost)
  <2>1. Paid(outs) \in Nat
    BY <1>5, PaidNat DEF Paid
  <2>2. PICK f \in Nat : f = SplitFee(Cardinality(S), Len(outs), cost)
    <3>1. PICK a \in Nat, b \in Nat, c \in Nat : a = Cardinality(S) /\ b = Len(outs) /\ c = cost
      BY <1>2, <1>5
    <3>2. a + b + 1 \in Nat
      OBVIOUS
    <3>3. Max({2, a + b + 1}) \in Nat
      BY <3>2, MaxOfTwo
    <3>. QED
      BY <3>1, <3>3 DEF SplitFee
  <2>3. f <= ValueOf(S) - Paid(outs)
    BY <1>4, <1>5, <2>2
  <2>. QED
    BY <1>2, <2>1, <2>2, <2>3
<1>12. SplitOf(t)
  BY <1>5, <1>6, <1>8, <1>9, <1>10, <1>11 DEF SplitOf, cost
<1>. QED
  BY <1>5, <1>6, <1>12 DEF TaskInv, RequestOK

\* A task stays what it is, whatever is accepted and mined.
LEMMA TaskKeeps ==
    ASSUME WalletOK, LedgerInv', Grows, NEW t, TaskInv(t)
    PROVE  TaskInv(t)'
<1>0. LedgerInv /\ TxsTyped /\ funding \in Fundings
  BY DEF WalletOK
<1>1. RequestOK(t)'
  BY DEF TaskInv, RequestOK
<1>2. Tip \in Nat /\ Tip' \in Nat /\ Tip <= Tip'
  BY <1>0, GrowsBy
<1>3. ASSUME t.kind = "hop" PROVE HopOf(t)'
  <2>1. HopOf(t)
    BY <1>3 DEF TaskInv
  <2>2. PICK id \in NoteIds :
            /\ t.notes = {id} /\ MinedBy(id[1], t.anchor)
            /\ NoteAt(id).value - t.outs[1].value \in {4000, 20000}
    BY <2>1 DEF HopOf
  <2>3. t.anchor \in 0..Tip /\ t.anchor \in 0..Tip'
    BY <1>2, <2>1 DEF HopOf
  <2>4. id \in NoteIds' /\ NoteAt(id)' = NoteAt(id) /\ MinedBy(id[1], t.anchor)'
    BY <1>0, <2>2, <2>3, GrowsKeeps
  <2>. QED
    BY <2>1, <2>2, <2>3, <2>4 DEF HopOf
<1>4. ASSUME t.kind = "split" PROVE SplitOf(t)'
  <2>1. SplitOf(t)
    BY <1>4 DEF TaskInv
  <2>2. \A id \in t.notes : id \in NoteIds /\ MinedBy(id[1], Tip)
    BY <2>1 DEF SplitOf
  <2>3. \A id \in t.notes : id \in NoteIds' /\ MinedBy(id[1], Tip)' /\ Row(id)' = Row(id)
    BY <1>0, <2>2, GrowsKeeps
  <2>4. Rows(t.notes)' = Rows(t.notes)
    BY <2>3 DEF Rows
  <2>5. PICK S : S = Rows(t.notes)
    OBVIOUS
  <2>6. IsFiniteSet(S) /\ NotesOK(S)
    <3>1. IsFiniteSet(t.notes)
      BY <1>0, <2>2, NoteIdsFinite, FS_Subset
    <3>2. PICK f : f = [id \in t.notes |-> Row(id)]
      OBVIOUS
    <3>3. S = {f[id] : id \in t.notes}
      BY <2>5, <3>2 DEF Rows
    <3>4. IsFiniteSet(S)
      BY <3>1, <3>3, ImageFinite
    <3>5. \A n \in S : n.value \in Nat /\ n.pool \in Pools
      BY <1>0, <2>2, <2>5, RowTyped DEF Rows
    <3>. QED
      BY <3>4, <3>5 DEF NotesOK
  <2>7. PICK a \in Nat, b \in Nat, paid \in Nat, v \in Nat :
            a = Cardinality(S) /\ b = Len(t.outs) /\ paid = Paid(t.outs) /\ v = ValueOf(S)
    <3>1. t.outs \in Seq(Output)
      BY DEF TaskInv, RequestOK
    <3>2. Len(t.outs) \in Nat /\ Paid(t.outs) \in Nat
      BY <3>1, PaidNat DEF Paid
    <3>3. Cardinality(S) \in Nat /\ ValueOf(S) \in Nat
      BY <2>6, FS_CardinalityType, ValueNat
    <3>. QED
      BY <3>2, <3>3
  <2>8. PICK c \in {1000, 5000}, d \in {1000, 5000} :
            c = CostPerAction(Tip + 1) /\ d = CostPerAction(Tip' + 1) /\ d <= c
    BY <1>0, GrowsKeeps
  <2>9. PICK m \in Nat : m = Max({2, a + b + 1})
    <3>1. a + b + 1 \in Int
      OBVIOUS
    <3>2. Max({2, a + b + 1}) \in Nat
      BY <3>1, MaxOfTwo
    <3>. QED
      BY <3>2
  <2>10. \A x : SplitFee(a, b, x) = x * m
    BY <2>9 DEF SplitFee
  <2>11. v >= paid + SplitFee(a, b, c)
    BY <2>1, <2>5, <2>7, <2>8 DEF SplitOf
  <2>12. d * m <= c * m
    <3>1. 1000 * m <= 5000 * m
      OBVIOUS
    <3>2. (c = 1000 /\ d = 1000) \/ (c = 5000 /\ d = 5000) \/ (c = 5000 /\ d = 1000)
      BY <2>8
    <3>. QED
      BY <3>1, <3>2
  <2>13. v >= paid + SplitFee(a, b, d)
    <3>1. PICK x \in Nat, y \in Nat : x = c * m /\ y = d * m /\ y <= x
      BY <2>12
    <3>. QED
      BY <2>10, <2>11, <3>1
  <2>14. ValueOf(S) >= Paid(t.outs) + SplitFee(Cardinality(S), Len(t.outs), CostPerAction(Tip' + 1))
    BY <2>7, <2>8, <2>13
  <2>. QED
    BY <2>1, <2>3, <2>4, <2>5, <2>14 DEF SplitOf, CostPerAction
<1>. QED
  BY <1>1, <1>3, <1>4 DEF TaskInv

\* What a user asks for is no task of a migration.
LEMMA RequestsOK == \A r \in Requests : TaskInv(r)
<1>. SUFFICES ASSUME NEW r \in Requests PROVE TaskInv(r)
  OBVIOUS
<1>1. r.outs \in Seq(Output) /\ (r.payer => r.outs # <<>>) /\ r.kind \notin {"none", "split", "hop"}
  BY MigrationAssumption DEF Output
<1>. QED
  BY <1>1 DEF TaskInv, RequestOK

\* A new task is what it should be.
LEMMA EffectsOK == WalletOK => \A t \in Effects : TaskInv(t)
  BY HopMade, SplitMade DEF Effects

\* That there is no task is fine too.
LEMMA NoTaskOK == TaskInv(NoTask) /\ TaskInv(NoTask)'
  BY DEF TaskInv, NoTask, NoRequest, RequestOK

-----------------------------------------------------------------------------
\* What is planned and accepted.

\* A transaction that moves a note to Ironwood.
HopTx(p) ==
    p.kind = "hop" =>
        /\ p.anchor \in 0..Tip /\ p.anchor % Bucket = 0
        /\ \E id \in p.spends : p.spends = {id} /\ MinedBy(id[1], p.anchor)
        /\ \A i \in DOMAIN p.outs :
               IF i = 1 THEN p.outs[i].pool = Ironwood /\ IsIwSD(p.outs[i].value)
                        ELSE p.outs[i].pool = Orchard

TxOK(p) == p.outs \in Seq(Output) /\ HopTx(p)

\* What was planned stays what it is.
LEMMA TxKeeps ==
    ASSUME LedgerInv, Grows, LedgerInv', NEW p, TxOK(p)
    PROVE  TxOK(p)'
<1>1. Tip \in Nat /\ Tip' \in Nat /\ Tip <= Tip'
  BY GrowsBy
<1>2. ASSUME p.kind = "hop"
      PROVE  /\ p.anchor \in 0..Tip' /\ p.anchor % Bucket = 0
             /\ \E id \in p.spends : p.spends = {id} /\ MinedBy(id[1], p.anchor)'
  <2>1. p.anchor \in 0..Tip /\ p.anchor % Bucket = 0
    BY <1>2 DEF TxOK, HopTx
  <2>2. PICK id \in p.spends : p.spends = {id} /\ MinedBy(id[1], p.anchor)
    BY <1>2 DEF TxOK, HopTx
  <2>3. MinedBy(id[1], p.anchor)'
    BY <2>1, <2>2, GrowsKeeps
  <2>. QED
    BY <1>1, <2>1, <2>2, <2>3
<1>. QED
  BY <1>2 DEF TxOK, HopTx

\* Nothing planned breaks nothing.
LEMMA NoPlanOK == TxOK(NoPlan) /\ TxOK(NoPlan)'
  BY DEF TxOK, HopTx, NoPlan

\* What a plan makes of a task.
LEMMA Planned ==
    ASSUME WalletOK, NEW r, TaskInv(r), NEW p \in OrderedPlans(r), NEW e,
           NEW q, q = [kind |-> r.kind, spends |-> {n.id : n \in p.notes}, outs |-> Outputs(p),
                       anchor |-> r.anchor, expiry |-> e]
    PROVE  TxOK(q)
<1>. DEFINE cost == CostPerAction(Tip + 1)
<1>0. cost \in Nat /\ cost > 0 /\ p \in Plans(FreeNotes, r, Tip, cost)
  BY DEF CostPerAction, OrderedPlans
<1>. HIDE DEF cost
<1>1. NotesOK(FreeNotes)
  BY FreeNotesOK DEF WalletOK
<1>2. RequestOK(r)
  BY DEF TaskInv
<1>3. Outputs(p) \in Seq(Output) /\ p.change \in Nat
  BY <1>0, <1>1, <1>2, PlansConserve
<1>4. /\ q.kind = r.kind /\ q.spends = {n.id : n \in p.notes} /\ q.outs = Outputs(p)
      /\ q.anchor = r.anchor
  OBVIOUS
<1>5. ASSUME r.kind = "hop" PROVE HopTx(q)
  <2>1. HopOf(r)
    BY <1>5 DEF TaskInv
  <2>2. PICK id \in NoteIds : r.notes = {id} /\ MinedBy(id[1], r.anchor)
    BY <2>1 DEF HopOf
  <2>3. HopRequest(r)
    BY <2>1 DEF HopOf
  <2>4. \A m \in FreeNotes : m.id \in r.notes => m = Row(id)
    BY <2>2, FreeNotesOK DEF WalletOK
  <2>5. /\ p.notes = {Row(id)} /\ Row(id).id \in r.notes
        /\ p.pool = Orchard /\ p.outs = r.outs
    BY <1>0, <1>1, <2>3, <2>4, HopPlans
  <2>6. q.spends = {id}
    BY <1>4, <2>2, <2>5
  <2>7. PICK o \in Output : r.outs = <<o>> /\ o.pool = Ironwood
    BY <2>3 DEF HopRequest
  <2>8. r.outs \in Seq(Output) /\ DOMAIN r.outs = {1} /\ r.outs[1] = o
    BY <2>7, OneOutput
  <2>9. \A i \in DOMAIN Outputs(p) :
            \/ i \in DOMAIN p.outs /\ Outputs(p)[i] = p.outs[i]
            \/ i \notin DOMAIN p.outs /\ Outputs(p)[i].pool = p.pool
    BY <1>3, <2>5, <2>8, OutputsAt, PoolsApart
  <2>10. \A i \in DOMAIN q.outs :
            IF i = 1 THEN q.outs[i].pool = Ironwood /\ IsIwSD(q.outs[i].value)
                     ELSE q.outs[i].pool = Orchard
    <3>1. IsIwSD(o.value)
      BY <2>1, <2>8 DEF HopOf
    <3>. QED
      BY <1>4, <2>5, <2>7, <2>8, <2>9, <3>1
  <2>11. q.anchor \in 0..Tip /\ q.anchor % Bucket = 0
    BY <1>4, <2>1 DEF HopOf
  <2>12. \E i \in q.spends : q.spends = {i} /\ MinedBy(i[1], q.anchor)
    BY <1>4, <2>2, <2>6
  <2>. QED
    BY <2>10, <2>11, <2>12 DEF HopTx
<1>. QED
  BY <1>3, <1>4, <1>5 DEF TxOK, HopTx

-----------------------------------------------------------------------------
\* The plans, the transactions, the rows and the task, after a step.

\* A sender keeps its plan, drops it, or plans what is asked for.
LEMMA PlansStep ==
    ASSUME SenderInv, [Next]_vars, NEW s \in Senders
    PROVE  \/ plan'[s] \in {plan[s], NoPlan}
           \/ \E r \in Requests \cup {task} : \E p \in OrderedPlans(r) : \E e :
                  plan'[s] = [kind |-> r.kind, spends |-> {n.id : n \in p.notes},
                              outs |-> Outputs(p), anchor |-> r.anchor, expiry |-> e]
<1>. DEFINE same == plan'[s] \in {plan[s], NoPlan}
            made(r) == \E p \in OrderedPlans(r) : \E e :
                  plan'[s] = [kind |-> r.kind, spends |-> {n.id : n \in p.notes},
                              outs |-> Outputs(p), anchor |-> r.anchor, expiry |-> e]
<1>1. ASSUME NEW q \in Senders, NEW r, PlanTx(q, r) PROVE same \/ made(r)
  BY <1>1 DEF PlanTx, SenderInv
<1>2. ASSUME NEW q \in Senders, BuildTx(q) \/ Post(q) \/ Forget(q) PROVE same
  BY <1>2 DEF BuildTx, Post, Forget, SenderInv
<1>3. ASSUME Die \/ Around \/ UNCHANGED spendVars PROVE same
  BY <1>3 DEF Die, Around, Record, Mine, Sync, Rewind, UserLock, spendVars, senderVars, SenderInv
<1>. HIDE DEF same, made
<1>4. Migrator \in Senders
  BY MigrationAssumption
<1>5. ASSUME NEW q \in Users, UserStep(q) PROVE same \/ \E r \in Requests : made(r)
  BY <1>1, <1>2, <1>5 DEF UserStep, Users
<1>6. same \/ \E r \in Requests \cup {task} : made(r)
  BY <1>1, <1>2, <1>3, <1>4, <1>5
  DEF Next, StartRun, NextTask, Revalidate, StepOnce, PlanTask, SendTask, AfterEffect, EndRun,
      Crash, vars
<1>. QED
  BY <1>6 DEF same, made

\* What is accepted was a plan.
LEMMA TxsStep ==
    ASSUME SenderInv, [Next]_vars
    PROVE  txs' = txs \/ \E s \in Senders : txs' = Append(txs, plan[s])
<1>1. ASSUME NEW s \in Senders, NEW r, PlanTx(s, r) \/ BuildTx(s) \/ Forget(s) PROVE txs' = txs
  BY <1>1 DEF PlanTx, BuildTx, Forget, chainVars
<1>2. ASSUME NEW s \in Senders, Post(s) PROVE txs' = Append(txs, plan[s])
  BY <1>2 DEF Post
<1>3. ASSUME Die \/ Around \/ UNCHANGED spendVars PROVE txs' = txs
  BY <1>3 DEF Die, Around, Record, Mine, Sync, Rewind, UserLock, spendVars, chainVars
<1>4. Migrator \in Senders
  BY MigrationAssumption
<1>. QED
  BY <1>1, <1>2, <1>3, <1>4
  DEF Next, StartRun, NextTask, Revalidate, StepOnce, PlanTask, SendTask, AfterEffect, EndRun,
      UserStep, Users, Crash, vars

\* A task stays, is dropped, or is decided.
LEMMA TaskStep == [Next]_vars => task' \in {task, NoTask} \cup Effects
  BY DEF Next, StartRun, NextTask, Revalidate, StepOnce, PlanTask, SendTask, AfterEffect, EndRun,
         Stops, UserStep, Crash, vars, runVars

\* A synchronization adds the outputs of transactions.
LEMMA HaveStep ==
    ASSUME LedgerInv, [Next]_vars
    PROVE  have' \subseteq have \cup NoteIds
<1>1. ASSUME UNCHANGED dbVars PROVE have' \subseteq have \cup NoteIds
  BY <1>1 DEF dbVars
<1>2. ASSUME NEW s, NEW r, PlanTx(s, r) \/ BuildTx(s) \/ Post(s) \/ Forget(s)
      PROVE  UNCHANGED dbVars
  BY <1>2 DEF PlanTx, BuildTx, Post, Forget
<1>3. ASSUME Die \/ Mine \/ UNCHANGED spendVars PROVE UNCHANGED dbVars
  BY <1>3 DEF Die, Mine, spendVars
<1>4. ASSUME NEW t, Record(t) \/ Rewind \/ UserLock PROVE have' \subseteq have
  BY <1>4 DEF Record, Rewind, UserLock
<1>5. ASSUME Sync PROVE have' \subseteq have \cup NoteIds
  <2>1. PICK h \in (checkpoint + 1)..Tip : have' = have \cup NotesBetween(checkpoint, h)
    BY <1>5 DEF Sync
  <2>2. checkpoint \in 0..Tip /\ Tip \in Nat
    BY AppendedAt DEF LedgerInv, RowsInv, ChainInv, Tip
  <2>3. ASSUME NEW id \in NotesBetween(checkpoint, h) PROVE id \in NoteIds
    <3>1. PICK t \in MinedBetween(checkpoint, h) : id \in OwnNotes(t)
      BY <2>3 DEF NotesBetween
    <3>2. PICK g \in (checkpoint + 1)..h : t \in chain[g]
      BY <3>1 DEF MinedBetween
    <3>3. t \in DOMAIN txs
      BY <2>1, <2>2, <3>2 DEF LedgerInv, ChainInv
    <3>. QED
      BY <3>1, <3>3 DEF OwnNotes, NoteIds
  <2>. QED
    BY <2>1, <2>3
<1>. QED
  BY <1>1, <1>2, <1>3, <1>4, <1>5
  DEF Next, StartRun, NextTask, Revalidate, StepOnce, PlanTask, SendTask, AfterEffect, EndRun,
      UserStep, Crash, Around, vars

-----------------------------------------------------------------------------
\* What is asked for, planned and accepted is as it should be.

PaysInv ==
    /\ have \subseteq NoteIds
    /\ TaskInv(task)
    /\ \A s \in Senders : TxOK(plan[s])
    /\ \A t \in DOMAIN txs : TxOK(txs[t])

\* It holds at the start.
LEMMA PaysInit == Init => PaysInv
<1>. SUFFICES ASSUME Init PROVE PaysInv
  OBVIOUS
<1>1. have \subseteq NoteIds
  BY DEF Init, SpendingInit, NoteIds
<1>2. TaskInv(task)
  BY NoTaskOK DEF Init
<1>3. \A s \in Senders : plan[s] = NoPlan
  BY DEF Init, SpendingInit
<1>4. txs = <<>>
  BY DEF Init, SpendingInit
<1>5. DOMAIN txs = {}
  BY <1>4
<1>. QED
  BY <1>1, <1>2, <1>3, <1>5, NoPlanOK DEF PaysInv

\* Every step keeps it: what is asked for stays payable, what is planned and
\* accepted stays what it was.
LEMMA PaysStep == BaseInv /\ PaysInv /\ [Next]_vars => PaysInv'
<1>. SUFFICES ASSUME BaseInv, PaysInv, [Next]_vars PROVE PaysInv'
  OBVIOUS
<1>1. SenderInv /\ LedgerInv /\ LedgerInv'
  BY BaseStep DEF BaseInv, PaceInv
<1>2. Grows
  BY StepGrows
<1>3. WalletOK
  BY DEF WalletOK, BaseInv, RestInv, PaysInv, TxsTyped, TxOK
<1>4. have' \subseteq NoteIds'
  BY <1>1, <1>2, HaveStep, GrowsKeeps DEF PaysInv
<1>5. TaskInv(task)'
  <2>1. PICK t : t = task'
    OBVIOUS
  <2>2. TaskInv(t)
    <3>1. \A x \in Effects : TaskInv(x)
      BY <1>3, EffectsOK
    <3>2. TaskInv(task) /\ TaskInv(NoTask)
      BY NoTaskOK DEF PaysInv
    <3>. QED
      BY <2>1, <3>1, <3>2, TaskStep
  <2>3. TaskInv(t)'
    BY <1>1, <1>2, <1>3, <2>2, TaskKeeps
  <2>. QED
    BY <2>1, <2>3 DEF TaskInv, RequestOK, HopOf, HopRequest, SplitOf
<1>6. ASSUME NEW s \in Senders PROVE TxOK(plan[s])'
  <2>1. PICK q : q = plan'[s]
    OBVIOUS
  <2>2. TxOK(q)
    <3>1. CASE plan'[s] \in {plan[s], NoPlan}
      BY <2>1, <3>1, NoPlanOK DEF PaysInv
    <3>2. CASE \E r \in Requests \cup {task} : \E p \in OrderedPlans(r) : \E e :
                  plan'[s] = [kind |-> r.kind, spends |-> {n.id : n \in p.notes},
                              outs |-> Outputs(p), anchor |-> r.anchor, expiry |-> e]
      <4>1. PICK r \in Requests \cup {task} : \E p \in OrderedPlans(r) : \E e :
                  plan'[s] = [kind |-> r.kind, spends |-> {n.id : n \in p.notes},
                              outs |-> Outputs(p), anchor |-> r.anchor, expiry |-> e]
        BY <3>2
      <4>2. PICK p \in OrderedPlans(r) : \E e :
                  plan'[s] = [kind |-> r.kind, spends |-> {n.id : n \in p.notes},
                              outs |-> Outputs(p), anchor |-> r.anchor, expiry |-> e]
        BY <4>1
      <4>3. PICK e : q = [kind |-> r.kind, spends |-> {n.id : n \in p.notes},
                          outs |-> Outputs(p), anchor |-> r.anchor, expiry |-> e]
        BY <2>1, <4>2
      <4>4. TaskInv(r)
        BY RequestsOK DEF PaysInv
      <4>. QED
        BY <1>3, <4>3, <4>4, Planned
    <3>. QED
      BY <1>1, <3>1, <3>2, PlansStep
  <2>3. TxOK(q)'
    BY <1>1, <1>2, <2>2, TxKeeps
  <2>. QED
    BY <2>1, <2>3 DEF TxOK, HopTx
<1>7. ASSUME NEW t \in DOMAIN txs' PROVE TxOK(txs[t])'
  <2>1. PICK q : q = txs'[t]
    OBVIOUS
  <2>2. TxOK(q)
    <3>1. CASE txs' = txs
      BY <2>1, <3>1 DEF PaysInv
    <3>2. CASE \E s \in Senders : txs' = Append(txs, plan[s])
      <4>1. PICK s \in Senders : txs' = Append(txs, plan[s])
        BY <3>2
      <4>2. PICK e : e = plan[s]
        OBVIOUS
      <4>3. IsSequence(txs)
        BY <1>1 DEF LedgerInv, ChainInv
      <4>4. /\ \A i \in 1..Len(txs) : txs'[i] = txs[i]
            /\ txs'[Len(txs) + 1] = e
            /\ DOMAIN txs = 1..Len(txs) /\ DOMAIN txs' = 1..(Len(txs) + 1)
            /\ Len(txs) \in Nat
        BY <4>1, <4>2, <4>3, AppendedAt
      <4>5. q = e \/ \E i \in DOMAIN txs : q = txs[i]
        BY <2>1, <4>4
      <4>. QED
        BY <4>2, <4>5 DEF PaysInv
    <3>. QED
      BY <1>1, <3>1, <3>2, TxsStep
  <2>3. TxOK(q)'
    BY <1>1, <1>2, <2>2, TxKeeps
  <2>. QED
    BY <2>1, <2>3 DEF TxOK, HopTx
<1>. QED
  BY <1>4, <1>5, <1>6, <1>7 DEF PaysInv

-----------------------------------------------------------------------------
\* What is asked for can be paid.

\* The value of a note and the sum that it moves, both powers of ten with
\* their pads, leave one pad.
LEMMA OnePad ==
    ASSUME NEW n \in Nat, NEW v \in Nat, NEW pad \in {4000, 20000},
           IsIwSD(v), IsIwSD(n - pad), n - v \in {4000, 20000}
    PROVE  n = v + pad
<1>1. v \in {100000, 1000000, 10000000, 100000000}
  BY IwSDValues
<1>2. n - pad \in {100000, 1000000, 10000000, 100000000}
  BY IwSDValues
<1>3. n = (n - pad) + pad /\ n = v + (n - v)
  OBVIOUS
<1>4. PICK a \in {100000, 1000000, 10000000, 100000000}, d \in {4000, 20000} :
          n = a + pad /\ n = v + d
  BY <1>2, <1>3
<1>5. pad = 4000 \/ pad = 20000
  OBVIOUS
<1>6. d = 4000 \/ d = 20000
  OBVIOUS
<1>. QED
  BY <1>1, <1>4, <1>5, <1>6

\* A hop that still holds.
LEMMA HopPayable ==
    ASSUME WalletOK, HopOf(task), task.kind = "hop", Satisfied(task)
    PROVE  /\ OrderedPlans(task) # {}
           /\ \A p \in OrderedPlans(task) : Balances(p, TRUE, CostPerAction(Tip + 1))
<1>. DEFINE cost == CostPerAction(Tip + 1)
<1>1. cost \in Nat /\ cost > 0 /\ Pad = 4 * cost /\ Pad \in {4000, 20000}
  BY DEF CostPerAction, Pad, FeePad
<1>2. PICK id \in NoteIds : task.notes = {id} /\ NoteAt(id).value - task.outs[1].value \in {4000, 20000}
  BY DEF HopOf
<1>3. task.notes \subseteq {n.id : n \in SpendableAt(task.anchor)}
  BY DEF Satisfied
<1>4. PICK n \in SpendableAt(task.anchor) : n.id = id
  BY <1>2, <1>3
<1>5. n \in FreeNotes /\ n.pool = Orchard /\ n.value > Pad /\ IsIwSD(n.value - Pad)
  BY <1>4 DEF SpendableAt, SdNotes, OrchardNotes, Of, IsSD
<1>6. /\ n = Row(id) /\ n.value = NoteAt(id).value /\ n.value \in Nat /\ n.height \in 0..Tip
      /\ NotesOK(FreeNotes)
  BY <1>2, <1>4, <1>5, FreeNotesOK, RowTyped DEF WalletOK
<1>7. HopRequest(task) /\ IsIwSD(task.outs[1].value) /\ task.confirmations = 0
  BY DEF HopOf
<1>8. PICK o \in Output : task.outs = <<o>> /\ o.value > 0
  BY <1>7 DEF HopRequest
<1>9. PICK v \in Nat : v = task.outs[1].value
  <2>1. task.outs[1] = o
    BY <1>8
  <2>. QED
    BY <1>8, <2>1, OutputFields
<1>10. n.value = v + Pad
  BY <1>1, <1>2, <1>5, <1>6, <1>7, <1>9, OnePad
<1>11. Tip \in Nat
  BY AppendedAt DEF WalletOK, LedgerInv, ChainInv, Tip
<1>12. n \in Candidates(FreeNotes, task, Tip)
  <2>1. Tip - task.confirmations = Tip
    BY <1>7, <1>11
  <2>2. Max({0, Tip}) = Tip
    BY <1>11, MaxOfTwo
  <2>3. n.height <= Max({0, Tip - task.confirmations})
    BY <1>6, <1>11, <2>1, <2>2
  <2>4. n.id \in task.notes /\ n.pool \in task.pools
    BY <1>2, <1>4, <1>5, <1>7 DEF HopRequest
  <2>. QED
    BY <1>5, <2>3, <2>4 DEF Candidates
<1>13. \A m \in FreeNotes : m.id \in task.notes => m = n
  BY <1>2, <1>6, FreeNotesOK DEF WalletOK
<1>14. n.value = task.outs[1].value + 4 * cost
  BY <1>1, <1>9, <1>10
<1>15. n \in FreeNotes /\ n.id \in task.notes
  BY <1>2, <1>4, <1>5
<1>16. task.migration = TRUE
  BY <1>7 DEF HopRequest
<1>. HIDE DEF cost
<1>17. /\ Plans(FreeNotes, task, Tip, cost) # {}
       /\ \A p \in Plans(FreeNotes, task, Tip, cost) : Balances(p, task.migration, cost)
  BY <1>1, <1>6, <1>7, <1>12, <1>13, <1>14, <1>15, HopPays
<1>. QED
  BY <1>16, <1>17 DEF OrderedPlans, cost

\* A split that still holds.
LEMMA SplitPayable ==
    ASSUME WalletOK, RequestOK(task), SplitOf(task), task.kind = "split", Satisfied(task)
    PROVE  /\ OrderedPlans(task) # {}
           /\ \A p \in OrderedPlans(task) :
                 p.change > 0 => Balances(p, TRUE, CostPerAction(Tip + 1))
<1>. DEFINE cost == CostPerAction(Tip + 1)
            S == Candidates(FreeNotes, task, Tip)
<1>1. cost \in Nat
  BY DEF CostPerAction
<1>2. NotesOK(FreeNotes) /\ \A n \in FreeNotes : n = Row(n.id) /\ n.height \in 0..Tip
  BY FreeNotesOK DEF WalletOK
<1>3. /\ task.outs \in Seq(Output) /\ task.outs # <<>> /\ task.payer = FALSE /\ task.migration = TRUE
      /\ task.pools = {Orchard} /\ task.confirmations = 0
      /\ Counts(task.outs) = [q \in Pools |-> IF q = Orchard THEN Len(task.outs) ELSE 0]
      /\ ValueOf(Rows(task.notes)) >= Paid(task.outs)
           + SplitFee(Cardinality(Rows(task.notes)), Len(task.outs), cost)
  BY DEF SplitOf, RequestOK
<1>4. Tip \in Nat
  BY AppendedAt DEF WalletOK, LedgerInv, ChainInv, Tip
<1>5. \A id \in task.notes : \E n \in FreeNotes : n.id = id /\ n.pool = Orchard
  BY DEF Satisfied, NonSdNotes, OrchardNotes, Of
<1>6. Rows(task.notes) = S
  <2>1. Tip - task.confirmations = Tip
    BY <1>3, <1>4
  <2>2. Max({0, Tip}) = Tip
    BY <1>4, MaxOfTwo
  <2>3. \A n \in FreeNotes : n.height <= Max({0, Tip - task.confirmations})
    BY <1>2, <1>4, <2>1, <2>2
  <2>4. S = {n \in FreeNotes : n.pool = Orchard /\ n.id \in task.notes}
    BY <1>3, <2>3 DEF Candidates
  <2>. HIDE DEF S
  <2>5. ASSUME NEW n \in S PROVE n \in Rows(task.notes)
    BY <1>2, <2>4, <2>5 DEF Rows
  <2>6. ASSUME NEW id \in task.notes PROVE Row(id) \in S
    BY <1>2, <1>5, <2>4
  <2>. QED
    BY <2>5, <2>6 DEF Rows
<1>. HIDE DEF cost
<1>7. PICK T : T = S
  OBVIOUS
<1>8. T = Candidates(FreeNotes, task, Tip)
  BY <1>7
<1>. HIDE DEF S
<1>9. ValueOf(T) >= Paid(task.outs) + SplitFee(Cardinality(T), Len(task.outs), cost)
  BY <1>3, <1>6, <1>7
<1>10. Plans(FreeNotes, task, Tip, cost) # {}
  BY <1>1, <1>2, <1>3, <1>8, <1>9, SplitPlans
<1>11. ASSUME NEW p \in Plans(FreeNotes, task, Tip, cost), p.change > 0
       PROVE  Balances(p, TRUE, cost)
  <2>0. AllBuilt(task.outs)
    <3>1. ASSUME NEW i \in DOMAIN task.outs PROVE task.outs[i].pool # Transparent
      BY <1>3, NoneCounted, PoolsApart
    <3>. QED
      BY <3>1 DEF AllBuilt
  <2>1. Balances(p, task.migration, cost)
    <3>1. p.outs = task.outs
      BY <1>1, <1>2, <1>3, <1>11, PlansConserve
    <3>. QED
      BY <1>1, <1>2, <1>11, <2>0, <3>1, PlansConserve
  <2>. QED
    BY <1>3, <2>1, Zenon DEF Balances
<1>. QED
  BY <1>10, <1>11 DEF OrderedPlans, cost

-----------------------------------------------------------------------------
\* Hence it holds throughout.
LEMMA PaysAlways == Spec => [](BaseInv /\ PaysInv)
<1>1. Init => BaseInv /\ PaysInv
  BY BaseInit, PaysInit
<1>2. BaseInv /\ PaysInv /\ [Next]_vars => (BaseInv /\ PaysInv)'
  BY BaseStep, PaysStep
<1>. QED
  BY <1>1, <1>2, PTL DEF Spec

\* Whatever moved between the decision and the transaction, what is accepted
\* as a move to Ironwood spends one Orchard note against a shared boundary
\* and mints one power of ten (next_task, is_satisfied_by, the check of the
\* anchor in plan_transaction).
THEOREM HopsStandard == Spec => []HopIsStandard
<1>1. ASSUME BaseInv, PaysInv PROVE HopIsStandard
  <2>. SUFFICES ASSUME NEW t \in DOMAIN txs, txs[t].kind = "hop"
                PROVE  /\ txs[t].anchor % Bucket = 0
                       /\ Cardinality(txs[t].spends) = 1
                       /\ \A id \in txs[t].spends : HeightOf(id[1]) <= txs[t].anchor
                       /\ \A i \in DOMAIN txs[t].outs :
                            IF i = 1
                            THEN txs[t].outs[i].pool = Ironwood /\ IsIwSD(txs[t].outs[i].value)
                            ELSE txs[t].outs[i].pool = Orchard
    BY DEF HopIsStandard
  <2>1. HopTx(txs[t])
    BY <1>1 DEF PaysInv, TxOK
  <2>2. PICK id : txs[t].spends = {id} /\ MinedBy(id[1], txs[t].anchor)
    BY <2>1 DEF HopTx
  <2>3. Cardinality({id}) = 1
    BY FS_Singleton
  <2>4. MinedBy(id[1], Tip) /\ ChainInv
    BY <1>1, <2>2 DEF BaseInv, LedgerInv, SpendsInv
  <2>5. txs[t].anchor \in 0..Tip
    BY <2>1 DEF HopTx
  <2>6. HeightOf(id[1]) <= txs[t].anchor
    BY <2>2, <2>4, <2>5, HeightOfMined
  <2>. QED
    BY <2>1, <2>2, <2>3, <2>6 DEF HopTx
<1>. QED
  BY <1>1, PaysAlways, PTL

\* A task that still holds when it is looked at again can be planned, and the
\* builder agrees with the fee it was planned with (plan_split, the pad,
\* plan_outputs), whatever was paid, mined and synchronized since.
THEOREM TasksPayable == Spec => []TaskIsPayable
<1>1. ASSUME BaseInv, PaysInv PROVE TaskIsPayable
  <2>. SUFFICES ASSUME Satisfied(task)
                PROVE  /\ OrderedPlans(task) # {}
                       /\ \A p \in OrderedPlans(task) :
                            p.change > 0 \/ task.kind = "hop" =>
                                Balances(p, TRUE, CostPerAction(Tip + 1))
    BY DEF TaskIsPayable
  <2>1. WalletOK
    BY <1>1 DEF WalletOK, BaseInv, RestInv, PaysInv, TxsTyped, TxOK
  <2>2. TaskInv(task)
    BY <1>1 DEF PaysInv
  <2>3. CASE task.kind = "hop"
    BY <2>1, <2>2, <2>3, HopPayable DEF TaskInv
  <2>4. CASE task.kind = "split"
    BY <2>1, <2>2, <2>4, SplitPayable DEF TaskInv
  <2>. QED
    BY <2>3, <2>4 DEF Satisfied
<1>. QED
  BY <1>1, PaysAlways, PTL
=============================================================================
