----------------------------- MODULE DkgProofs -----------------------------
(***************************************************************************)
(* Proofs about Dkg, for any participants and any bounds: the types, intent*)
(* before publish, the agreement on the key, the funds waits, and that no  *)
(* restart splits the key.                                                 *)
(***************************************************************************)
EXTENDS Dkg, TLAPS

-----------------------------------------------------------------------------
\* The planner.

\* The planner stops at a round or past the last one.
LEMMA RoundType == ASSUME NEW p \in Participants PROVE Round(p) \in 0..3
BY DEF Round

\* A round is published whose package does not exist, with no message of ours
\* under way.
LEMMA PublishPlan ==
    ASSUME NEW p \in Participants, NextTask(p) = "PublishRound"
    PROVE  /\ Round(p) \in Rounds
           /\ secret[p][Round(p)] = 0
           /\ ~Unmined(p)
           /\ pending[p] = NoMessage
BY RoundType DEF NextTask, RoundTask, FinalTask, Rounds

\* A wait on our own message has a message.
LEMMA WaitPlan ==
    ASSUME NEW p \in Participants, NextTask(p) = "WaitOwnPublish"
    PROVE  Unmined(p)
BY DEF NextTask, RoundTask, FinalTask

\* A resend has something to send.
LEMMA ResendPlan ==
    ASSUME NEW p \in Participants, NextTask(p) = "ResendPending"
    PROVE  pending[p] # NoMessage
BY DEF NextTask, RoundTask, FinalTask

\* The key is computed once every round is settled, among equal versions.
LEMMA FinalizePlan ==
    ASSUME NEW p \in Participants, NextTask(p) = "FinalizeKey"
    PROVE  /\ ~VersionMismatch(p)
           /\ Settled(p, 0) /\ Settled(p, 1) /\ Settled(p, 2)
           /\ key[p] = {}
<1>1. Round(p) = 3 /\ ~VersionMismatch(p) /\ key[p] = {}
  BY RoundType DEF NextTask, RoundTask, FinalTask
<1>2. Settled(p, 0) /\ Settled(p, 1) /\ Settled(p, 2)
  BY <1>1 DEF Round
<1> QED  BY <1>1, <1>2

-----------------------------------------------------------------------------
\* Types.

\* What the labels say of the state: something to publish, something to send,
\* and a finalization that is through only at the end.
Labels ==
    \A p \in Participants :
        /\ pc[p] = "publish" => pending[p] # NoMessage
        /\ pc[p] = "send" => staged[p] # NoMessage
        /\ final[p] = 6 => pc[p] = "done"

TypeInv == TypeOK /\ Labels

\* Everything has its type at the start.
LEMMA TypeInit == Init => TypeInv
BY DkgAssumption, OutboxAssumption
   DEF Init, OutboxInit, TypeInv, TypeOK, OutboxTypeOK, Labels, PCs, Rounds

\* Every step keeps the types.
LEMMA TypeNext == TypeInv /\ [Next]_vars => TypeInv'
<1> SUFFICES ASSUME TypeInv, [Next]_vars PROVE TypeInv'
  OBVIOUS
<1> USE DkgAssumption, OutboxAssumption DEF TypeInv, TypeOK, OutboxTypeOK, Labels, PCs, Goto
<1>1. ASSUME NEW p \in Participants, BeginPass(p) PROVE TypeInv'
  <2>1. Visible(p) \subseteq Packages
    BY DEF Visible
  <2> QED  BY <1>1, <2>1 DEF BeginPass, ScanOwn
<1>2. ASSUME NEW p \in Participants, EnsureAccounts(p) PROVE TypeInv'
  BY <1>2 DEF EnsureAccounts, outboxVars
<1>3. ASSUME NEW p \in Participants, Wait(p) PROVE TypeInv'
  BY <1>3 DEF Wait, Planned, outboxVars, dkgVars
<1>4. ASSUME NEW p \in Participants, WaitOwnPublish(p) PROVE TypeInv'
  <2>1. staged[p] \in Packages /\ pc[p] = "pass"
    BY <1>4, WaitPlan DEF WaitOwnPublish, Planned, Unmined
  <2>2. CASE GiveUp(p) /\ UNCHANGED <<mempool, pc>>
    BY <1>4, <2>1, <2>2 DEF WaitOwnPublish, GiveUp, dkgVars
  <2>3. CASE Post(staged[p]) /\ Goto(p, "idle") /\ UNCHANGED <<spent, staged>>
    BY <1>4, <2>1, <2>3 DEF WaitOwnPublish, Post, dkgVars
  <2> QED  BY <1>4, <2>2, <2>3 DEF WaitOwnPublish
<1>5. ASSUME NEW p \in Participants, Stage(p) PROVE TypeInv'
  <2> DEFINE r == Round(p)
  <2>1. r \in Rounds /\ Fresh(p, r) \in 1..MaxPackages /\ pc[p] = "pass"
    <3>1. r \in Rounds
      BY <1>5, PublishPlan DEF Stage, Planned
    <3>2. r = 2 => secret[p][1] # 0
      BY <1>5 DEF Stage, Round, Settled
    <3> QED  BY <1>5, <3>1, <3>2 DEF Stage, Planned, Fresh, Rounds
  <2>2. secret' \in [Participants -> [Rounds -> 0..MaxPackages]]
    BY <1>5, <2>1 DEF Stage
  <2>3. pending' \in [Participants -> Packages \cup {NoMessage}] /\ pending'[p] # NoMessage
    BY <1>5, <2>1 DEF Stage, Packages
  <2>4. made' \in [Participants -> 0..MaxPackages]
    BY <1>5, <2>1 DEF Stage, Fresh
  <2>5. \A q \in Participants : q # p => pending'[q] = pending[q]
    BY <1>5 DEF Stage
  <2> HIDE DEF r
  <2> QED  BY <1>5, <2>1, <2>2, <2>3, <2>4, <2>5 DEF Stage, outboxVars
<1>6. ASSUME NEW p \in Participants, ResendPending(p) PROVE TypeInv'
  BY <1>6, ResendPlan DEF ResendPending, Planned, outboxVars, dkgVars
<1>7. ASSUME NEW p \in Participants, PublishStaged(p) PROVE TypeInv'
  <2>1. CASE Fundable(p)
    BY <1>7, <2>1 DEF PublishStaged, StagePublish
  <2>2. CASE ~Fundable(p)
    BY <1>7, <2>2 DEF PublishStaged
  <2> QED  BY <2>1, <2>2
<1>8. ASSUME NEW p \in Participants, Send(p) PROVE TypeInv'
  BY <1>8 DEF Send, Post, dkgVars
<1>9. ASSUME NEW p \in Participants, FinalizeKey(p) PROVE TypeInv'
  <2>1. NextTask(p) = "FinalizeKey" /\ pc[p] = "pass"
    BY <1>9 DEF FinalizeKey, Planned
  <2>2. Package(p, 1) \in Packages
    BY <2>1, FinalizePlan DEF Package, Packages, Settled, Rounds
  <2>3. key' \in [Participants -> SUBSET Packages]
    BY <1>9, <2>2 DEF FinalizeKey
  <2>4. pc' \in [Participants -> PCs] /\ \A q \in Participants : q # p => pc'[q] = pc[q]
    BY <1>9 DEF FinalizeKey
  <2>5. pc'[p] \in {"idle", "pass"}
    BY <1>9, <2>1 DEF FinalizeKey
  <2>6. TypeOK'
    BY <1>9, <2>3, <2>4 DEF FinalizeKey, outboxVars
  <2>7. Labels'
    BY <1>9, <2>1, <2>4, <2>5 DEF FinalizeKey, outboxVars
  <2> QED  BY <2>6, <2>7
<1>10. ASSUME NEW p \in Participants, CreateFrostAccount(p) PROVE TypeInv'
  BY <1>10 DEF CreateFrostAccount, Planned, Steps, outboxVars
<1>11. ASSUME NEW p \in Participants, CompleteFinalize(p) PROVE TypeInv'
  <2>1. final[p] \in 0..5 /\ pc[p] \in {"pass", "teardown"}
    BY <1>11 DEF CompleteFinalize, Planned
  <2>2. final' \in [Participants -> 0..6] /\ \A q \in Participants : q # p => final'[q] = final[q]
    BY <1>11, <2>1 DEF CompleteFinalize
  <2>3. pc' \in [Participants -> PCs] /\ \A q \in Participants : q # p => pc'[q] = pc[q]
    BY <1>11 DEF CompleteFinalize
  <2>4. pc'[p] = IF final'[p] = 6 THEN "done" ELSE "teardown"
    BY <1>11, <2>3 DEF CompleteFinalize, Steps
  <2>5. CASE final'[p] = 6
    <3>1. staged' \in [Participants -> Packages \cup {NoMessage}] /\ helpers' \in [Participants -> BOOLEAN]
      BY <1>11, <2>5 DEF CompleteFinalize, Steps, Forget
    <3>2. \A q \in Participants : q # p => staged'[q] = staged[q]
      BY <1>11, <2>5 DEF CompleteFinalize, Steps, Forget
    <3> QED  BY <1>11, <2>2, <2>3, <2>4, <2>5, <3>1, <3>2 DEF CompleteFinalize
  <2>6. CASE final'[p] # 6
    <3>1. UNCHANGED <<staged, helpers>>
      BY <1>11, <2>6 DEF CompleteFinalize, Steps
    <3> QED  BY <1>11, <2>2, <2>3, <2>4, <2>6, <3>1 DEF CompleteFinalize
  <2> QED  BY <2>5, <2>6
<1>12. ASSUME NEW p \in Participants, CancelState(p) PROVE TypeInv'
  <2>1. /\ secret' \in [Participants -> [Rounds -> 0..MaxPackages]]
        /\ pending' \in [Participants -> Packages \cup {NoMessage}]
        /\ key' \in [Participants -> SUBSET Packages]
        /\ \A q \in Participants : q # p => pending'[q] = pending[q]
    <3>1. CASE UNCHANGED <<secret, pending, key>>
      BY <3>1
    <3>2. CASE /\ secret' = [secret EXCEPT ![p] = [r \in Rounds |-> 0]]
               /\ pending' = [pending EXCEPT ![p] = NoMessage]
               /\ key' = [key EXCEPT ![p] = {}]
      <4>1. [r \in Rounds |-> 0] \in [Rounds -> 0..MaxPackages]
        OBVIOUS
      <4> QED  BY <3>2, <4>1
    <3> QED  BY <1>12, <3>1, <3>2 DEF CancelState
  <2> QED  BY <1>12, <2>1 DEF CancelState, outboxVars
<1>13. ASSUME NEW p \in Participants, CancelPeers(p) PROVE TypeInv'
  BY <1>13 DEF CancelPeers, outboxVars
<1>14. ASSUME NEW p \in Participants, CancelRest(p) PROVE TypeInv'
  BY <1>14 DEF CancelRest, Forget
<1>15. ASSUME NEW p \in Participants, Crash(p) PROVE TypeInv'
  BY <1>15 DEF Crash, Fault, Unsent, dkgVars
<1>16. ASSUME OutboxNext, UNCHANGED <<pc, dkgVars>> PROVE TypeInv'
  <2>1. ASSUME NEW m \in mempool \cup {staged[p] : p \in Participants}, Mine(m) PROVE TypeInv'
    BY <1>16, <2>1 DEF Mine, dkgVars
  <2>2. ASSUME NEW m \in mempool \cup {staged[p] : p \in Participants}, Drop(m) PROVE TypeInv'
    BY <1>16, <2>2 DEF Drop, Fault, dkgVars
  <2>3. ASSUME NEW m \in mempool \cup {staged[p] : p \in Participants}, Expire(m) PROVE TypeInv'
    BY <1>16, <2>3 DEF Expire, Fault, dkgVars
  <2>4. ASSUME NEW p \in Participants, UserPays(p) \/ PaymentMined(p) PROVE TypeInv'
    <3>1. paying' \in [Participants -> BOOLEAN]
      BY <2>4, Zenon DEF UserPays, PaymentMined
    <3>2. faults' \in 0..MaxFaults
      BY <2>4 DEF UserPays, PaymentMined, Fault
    <3>3. UNCHANGED <<spent, staged, mempool, mined, expired, lost>>
      BY <2>4 DEF UserPays, PaymentMined
    <3> QED  BY <1>16, <3>1, <3>2, <3>3 DEF dkgVars
  <2> QED  BY <1>16, <2>1, <2>2, <2>3, <2>4 DEF OutboxNext
<1>17. CASE UNCHANGED vars
  BY <1>17 DEF vars, outboxVars, dkgVars
<1> QED
  BY <1>1, <1>2, <1>3, <1>4, <1>5, <1>6, <1>7, <1>8, <1>9, <1>10, <1>11, <1>12, <1>13,
     <1>14, <1>15, <1>16, <1>17 DEF Next, DriverStep

\* Type correctness: every variable of the DKG keeps its type, for any number
\* of participants, packages and faults.
THEOREM TypeCorrect == Spec => []TypeOK
<1>1. TypeInv /\ [Next]_vars => TypeInv'
  BY TypeNext
<1>2. TypeInv => TypeOK
  BY DEF TypeInv
<1> QED  BY <1>1, <1>2, TypeInit, PTL DEF Spec

-----------------------------------------------------------------------------
\* Intent before publish.

\* What a participant has staged or pending is a package of its own, and it is
\* the one of the secret it stores.
MessageInv ==
    /\ \A p \in Participants :
           /\ staged[p] # NoMessage => staged[p].from = p
           /\ pending[p] # NoMessage => pending[p].from = p
    /\ IntentBeforePublish

\* The messages of a sender: pending, staged, sent or mined.
Known(m) == m \in mempool \cup mined \cup {staged[m.from], pending[m.from]}

\* A step that stores no secret and shows no new message keeps the invariant.
LEMMA NoNews ==
    ASSUME MessageInv, TypeOK,
           UNCHANGED secret,
           wiped \subseteq wiped',
           \A m \in Packages : Known(m)' => Known(m)
    PROVE  IntentBeforePublish'
<1> SUFFICES ASSUME NEW m \in Packages, m.from \notin wiped', Known(m)'
             PROVE  m = Package(m.from, m.round)'
  BY DEF IntentBeforePublish, Known
<1>1. m.from \notin wiped /\ Known(m)
  OBVIOUS
<1>2. m = Package(m.from, m.round)
  BY <1>1 DEF MessageInv, IntentBeforePublish, Known
<1> QED  BY <1>2 DEF Package

\* No message is anywhere at the start.
LEMMA MessageInit == Init => MessageInv
<1> SUFFICES ASSUME Init PROVE MessageInv
  OBVIOUS
<1>1. \A p \in Participants : staged[p] = NoMessage /\ pending[p] = NoMessage
  BY DEF Init, OutboxInit
<1>2. \A m \in Packages : m.from \in Participants /\ m # NoMessage
  BY DkgAssumption DEF Packages
<1>3. mempool = {} /\ mined = {}
  BY DEF Init, OutboxInit
<1> QED  BY <1>1, <1>2, <1>3 DEF MessageInv, IntentBeforePublish

\* Every step keeps what the messages say.
LEMMA MessageNext == TypeInv /\ MessageInv /\ [Next]_vars => MessageInv'
<1> SUFFICES ASSUME TypeInv, MessageInv, [Next]_vars PROVE MessageInv'
  OBVIOUS
<1> DEFINE Own == \A p \in Participants :
                      /\ staged[p] # NoMessage => staged[p].from = p
                      /\ pending[p] # NoMessage => pending[p].from = p
<1>0. Own /\ TypeOK /\ Labels
  BY DEF MessageInv, TypeInv
<1>s. ASSUME UNCHANGED <<secret, staged, pending, mempool, mined>>, wiped \subseteq wiped'
      PROVE  MessageInv'
  <2>1. \A m \in Packages : Known(m)' => Known(m)
    BY <1>s DEF Known
  <2>2. IntentBeforePublish'
    BY <1>0, <1>s, <2>1, NoNews
  <2> QED  BY <1>0, <1>s, <2>2 DEF MessageInv
<1> USE DkgAssumption
<1>1. ASSUME NEW p \in Participants, BeginPass(p) PROVE MessageInv'
  <2>1. /\ UNCHANGED <<secret, wiped, pending, mempool, mined>>
        /\ \A q \in Participants : staged'[q] \in {staged[q], NoMessage}
    BY <1>0, <1>1 DEF BeginPass, ScanOwn, TypeOK, OutboxTypeOK
  <2>2. \A m \in Packages : Known(m)' => Known(m)
    BY <2>1 DEF Known, Packages
  <2>3. IntentBeforePublish'
    BY <1>0, <2>1, <2>2, NoNews
  <2> QED  BY <1>0, <2>1, <2>3 DEF MessageInv
<1>2. ASSUME NEW p \in Participants, EnsureAccounts(p) PROVE MessageInv'
  BY <1>s, <1>2 DEF EnsureAccounts, outboxVars
<1>3. ASSUME NEW p \in Participants, Wait(p) PROVE MessageInv'
  BY <1>s, <1>3 DEF Wait, outboxVars, dkgVars
<1>4. ASSUME NEW p \in Participants, WaitOwnPublish(p) PROVE MessageInv'
  <2>0. staged[p] # NoMessage /\ staged[p] \in Packages
    BY <1>0, <1>4, WaitPlan DEF WaitOwnPublish, Planned, Unmined, TypeOK, OutboxTypeOK
  <2>1. /\ UNCHANGED <<secret, wiped, pending, mined>>
        /\ \A q \in Participants : staged'[q] \in {staged[q], NoMessage}
        /\ mempool' \subseteq mempool \cup {staged[p]}
    BY <1>0, <1>4 DEF WaitOwnPublish, GiveUp, Post, dkgVars, TypeOK, OutboxTypeOK
  <2>2. \A m \in Packages : Known(m)' => Known(m)
    BY <1>0, <2>0, <2>1 DEF Known, Packages
  <2>3. IntentBeforePublish'
    BY <1>0, <2>1, <2>2, NoNews
  <2> QED  BY <1>0, <2>1, <2>3 DEF MessageInv
<1>5. ASSUME NEW p \in Participants, Stage(p) PROVE MessageInv'
  <2>0. Round(p) \in Rounds /\ secret[p][Round(p)] = 0
    BY <1>5, PublishPlan DEF Stage, Planned
  <2>1. PICK r \in Rounds : r = Round(p) /\ secret[p][r] = 0
    BY <2>0
  <2>n. PICK n : n = Fresh(p, r)
    OBVIOUS
  <2> DEFINE new == [from |-> p, round |-> r, number |-> n]
  <2>2. /\ secret' = [secret EXCEPT ![p][r] = n]
        /\ pending' = [pending EXCEPT ![p] = new]
        /\ UNCHANGED <<mempool, mined, staged, wiped>>
    BY <1>5, <2>1, <2>n DEF Stage, outboxVars
  <2>3. \A q \in Participants, i \in Rounds :
            secret'[q][i] = IF q = p /\ i = r THEN n ELSE secret[q][i]
    BY <1>0, <2>1, <2>2 DEF TypeOK
  <2>4. Package(p, r)' = new
    BY <2>1, <2>3 DEF Package
  <2>5. ASSUME NEW m \in Packages, m.from \notin wiped', Known(m)'
        PROVE  m = Package(m.from, m.round)'
    <3>1. m.from \in Participants /\ m.round \in Rounds /\ m.number \in 1..MaxPackages
      BY DEF Packages
    <3>2. CASE m = new
      BY <2>4, <3>2
    <3>3. CASE m # new
      <4>1. Known(m)
        BY <1>0, <2>2, <2>5, <3>1, <3>3 DEF Known, TypeOK
      <4>2. m = Package(m.from, m.round)
        BY <2>2, <2>5, <4>1 DEF MessageInv, IntentBeforePublish, Known
      <4>3. m.number = secret[m.from][m.round]
        BY <4>2 DEF Package
      <4>4. ~(m.from = p /\ m.round = r)
        BY <2>1, <3>1, <4>3
      <4> QED  BY <2>3, <3>1, <4>2, <4>4 DEF Package
    <3> QED  BY <3>2, <3>3
  <2>6. IntentBeforePublish'
    BY <2>5 DEF IntentBeforePublish, Known
  <2>7. Own'
    BY <1>0, <2>2 DEF TypeOK
  <2> QED  BY <2>6, <2>7 DEF MessageInv
<1>6. ASSUME NEW p \in Participants, ResendPending(p) PROVE MessageInv'
  BY <1>s, <1>6 DEF ResendPending, outboxVars, dkgVars
<1>7. ASSUME NEW p \in Participants, PublishStaged(p) PROVE MessageInv'
  <2>1. /\ UNCHANGED <<secret, wiped, mempool, mined>>
        /\ \A q \in Participants : /\ staged'[q] \in {staged[q], pending[q]}
                                   /\ pending'[q] \in {pending[q], NoMessage}
    BY <1>0, <1>7 DEF PublishStaged, StagePublish, TypeOK, OutboxTypeOK
  <2>2. \A m \in Packages : Known(m)' => Known(m)
    BY <2>1 DEF Known, Packages
  <2>3. IntentBeforePublish'
    BY <1>0, <2>1, <2>2, NoNews
  <2> QED  BY <1>0, <2>1, <2>3 DEF MessageInv
<1>8. ASSUME NEW p \in Participants, Send(p) PROVE MessageInv'
  <2>0. staged[p] # NoMessage /\ staged[p] \in Packages
    BY <1>0, <1>8 DEF Send, Labels, TypeOK, OutboxTypeOK
  <2>1. /\ UNCHANGED <<secret, wiped, pending, mined, staged>>
        /\ mempool' \subseteq mempool \cup {staged[p]}
    BY <1>8 DEF Send, Post, dkgVars
  <2>2. \A m \in Packages : Known(m)' => Known(m)
    BY <1>0, <2>0, <2>1 DEF Known, Packages
  <2>3. IntentBeforePublish'
    BY <1>0, <2>1, <2>2, NoNews
  <2> QED  BY <1>0, <2>1, <2>3 DEF MessageInv
<1>9. ASSUME NEW p \in Participants, FinalizeKey(p) PROVE MessageInv'
  BY <1>s, <1>9 DEF FinalizeKey, outboxVars
<1>10. ASSUME NEW p \in Participants, CreateFrostAccount(p) PROVE MessageInv'
  BY <1>s, <1>10 DEF CreateFrostAccount, outboxVars
<1>11. ASSUME NEW p \in Participants, CompleteFinalize(p) \/ CancelRest(p) PROVE MessageInv'
  <2>1. /\ UNCHANGED <<secret, wiped, pending, mined, mempool>>
        /\ \A q \in Participants : staged'[q] \in {staged[q], NoMessage}
    BY <1>0, <1>11 DEF CompleteFinalize, CancelRest, Forget, TypeOK, OutboxTypeOK
  <2>2. \A m \in Packages : Known(m)' => Known(m)
    BY <2>1 DEF Known, Packages
  <2>3. IntentBeforePublish'
    BY <1>0, <2>1, <2>2, NoNews
  <2> QED  BY <1>0, <2>1, <2>3 DEF MessageInv
<1>12. ASSUME NEW p \in Participants, CancelState(p) PROVE MessageInv'
  <2>1. /\ UNCHANGED <<staged, mined, mempool>>
        /\ wiped' = wiped \cup {p}
        /\ \A q \in Participants : /\ pending'[q] \in {pending[q], NoMessage}
                                   /\ q # p => secret'[q] = secret[q]
    BY <1>0, <1>12 DEF CancelState, outboxVars, TypeOK
  <2>2. ASSUME NEW m \in Packages, m.from \notin wiped', Known(m)'
        PROVE  m = Package(m.from, m.round)'
    <3>1. m.from \in Participants /\ m.from # p /\ m.from \notin wiped
      BY <2>1, <2>2 DEF Packages
    <3>2. Known(m)
      BY <2>1, <2>2, <3>1 DEF Known
    <3>3. m = Package(m.from, m.round)
      BY <3>1, <3>2 DEF MessageInv, IntentBeforePublish, Known
    <3> QED  BY <2>1, <3>1, <3>3 DEF Package
  <2>3. IntentBeforePublish'
    BY <2>2 DEF IntentBeforePublish, Known
  <2> QED  BY <1>0, <2>1, <2>3 DEF MessageInv
<1>13. ASSUME NEW p \in Participants, CancelPeers(p) PROVE MessageInv'
  BY <1>s, <1>13 DEF CancelPeers, outboxVars
<1>14. ASSUME NEW p \in Participants, Crash(p) PROVE MessageInv'
  BY <1>s, <1>14 DEF Crash, dkgVars
<1>15. ASSUME OutboxNext, UNCHANGED <<pc, dkgVars>> PROVE MessageInv'
  <2>1. /\ UNCHANGED <<secret, wiped, pending, staged>>
        /\ mempool' \cup mined' \subseteq mempool \cup mined
    BY <1>15 DEF OutboxNext, Mine, Drop, Expire, UserPays, PaymentMined, dkgVars
  <2>2. \A m \in Packages : Known(m)' => Known(m)
    BY <2>1 DEF Known
  <2>3. IntentBeforePublish'
    BY <1>0, <2>1, <2>2, NoNews
  <2> QED  BY <1>0, <2>1, <2>3 DEF MessageInv
<1>16. CASE UNCHANGED vars
  BY <1>s, <1>16 DEF vars, outboxVars, dkgVars
<1> QED
  BY <1>1, <1>2, <1>3, <1>4, <1>5, <1>6, <1>7, <1>8, <1>9, <1>10, <1>11, <1>12, <1>13,
     <1>14, <1>15, <1>16 DEF Next, DriverStep

\* Intent before publish, for any participants: a crash, a resend or a funds
\* wait never shows the peers a second package for a round, nor one whose
\* secret is not stored.
THEOREM IntentCorrect == Spec => []IntentBeforePublish
<1>1. TypeInv /\ MessageInv /\ [Next]_vars => TypeInv' /\ MessageInv'
  BY TypeNext, MessageNext
<1>2. MessageInv => IntentBeforePublish
  BY DEF MessageInv
<1> QED  BY <1>1, <1>2, TypeInit, MessageInit, PTL DEF Spec

-----------------------------------------------------------------------------
\* The agreement on the key.

\* A package ingested was mined, and a key sums up the round-1 packages that
\* all the participants store for good, among equal versions.
KeyInv ==
    /\ \A p \in Participants : got[p] \subseteq mined
    /\ wiped = {} =>
           \A p \in Participants : key[p] # {} =>
               /\ key[p] = {Package(q, 1) : q \in Participants}
               /\ \A q \in Participants : secret[q][1] # 0 /\ version[q] = version[p]

\* No participant has a key at the start.
LEMMA KeyInit == Init => KeyInv
BY DEF Init, OutboxInit, KeyInv

\* A step that computes no key, and stores a secret only where there was none.
LEMMA KeyStable ==
    ASSUME KeyInv,
           UNCHANGED version,
           \A p \in Participants : key'[p] \in {key[p], {}},
           wiped \subseteq wiped',
           wiped' = {} => \A q \in Participants : secret[q][1] # 0 => secret'[q][1] = secret[q][1],
           \A p \in Participants : got'[p] \subseteq mined'
    PROVE  KeyInv'
<1> SUFFICES ASSUME wiped' = {}, NEW p \in Participants, key'[p] # {}
             PROVE  /\ key'[p] = {Package(q, 1)' : q \in Participants}
                    /\ \A q \in Participants : secret'[q][1] # 0 /\ version'[q] = version'[p]
  BY DEF KeyInv
<1>1. key'[p] = key[p] /\ wiped = {}
  OBVIOUS
<1>2. /\ key[p] = {Package(q, 1) : q \in Participants}
      /\ \A q \in Participants : secret[q][1] # 0 /\ version[q] = version[p]
  BY <1>1 DEF KeyInv
<1>3. \A q \in Participants : Package(q, 1)' = Package(q, 1) /\ secret'[q][1] # 0
  BY <1>2 DEF Package
<1> QED  BY <1>1, <1>2, <1>3

\* Every step keeps what the keys are made of.
LEMMA KeyNext == TypeInv /\ MessageInv /\ KeyInv /\ [Next]_vars => KeyInv'
<1> SUFFICES ASSUME TypeInv, MessageInv, KeyInv, [Next]_vars PROVE KeyInv'
  OBVIOUS
<1>0. TypeOK /\ OutboxTypeOK(Packages)
  BY DEF TypeInv, TypeOK
<1>g. \A p \in Participants : got[p] \subseteq mined
  BY DEF KeyInv
<1>s. ASSUME UNCHANGED <<version, key, wiped, secret, got>>, mined \subseteq mined' PROVE KeyInv'
  BY <1>g, <1>s, KeyStable
<1>1. ASSUME NEW p \in Participants, BeginPass(p) PROVE KeyInv'
  <2>1. \A q \in Participants : got'[q] \subseteq mined'
    BY <1>0, <1>1, <1>g DEF BeginPass, Visible, TypeOK
  <2> QED  BY <1>1, <2>1, KeyStable DEF BeginPass
<1>2. ASSUME NEW p \in Participants, EnsureAccounts(p) PROVE KeyInv'
  BY <1>s, <1>2 DEF EnsureAccounts, outboxVars
<1>3. ASSUME NEW p \in Participants, Wait(p) PROVE KeyInv'
  BY <1>s, <1>3 DEF Wait, outboxVars, dkgVars
<1>4. ASSUME NEW p \in Participants, WaitOwnPublish(p) PROVE KeyInv'
  BY <1>s, <1>4 DEF WaitOwnPublish, dkgVars
<1>5. ASSUME NEW p \in Participants, Stage(p) PROVE KeyInv'
  <2>1. Round(p) \in Rounds /\ secret[p][Round(p)] = 0
    BY <1>5, PublishPlan DEF Stage, Planned
  <2>2. \A q \in Participants : secret[q][1] # 0 => secret'[q][1] = secret[q][1]
    BY <1>0, <1>5, <2>1 DEF Stage, TypeOK, Rounds
  <2> QED  BY <1>5, <1>g, <2>2, KeyStable DEF Stage, outboxVars
<1>6. ASSUME NEW p \in Participants, ResendPending(p) PROVE KeyInv'
  BY <1>s, <1>6 DEF ResendPending, outboxVars, dkgVars
<1>7. ASSUME NEW p \in Participants, PublishStaged(p) PROVE KeyInv'
  BY <1>s, <1>7 DEF PublishStaged
<1>8. ASSUME NEW p \in Participants, Send(p) PROVE KeyInv'
  BY <1>s, <1>8 DEF Send, dkgVars
<1>9. ASSUME NEW p \in Participants, FinalizeKey(p) PROVE KeyInv'
  <2>0. UNCHANGED <<version, secret, got, wiped, mined>>
    BY <1>9 DEF FinalizeKey, outboxVars
  <2>1. CASE ~SharesMatch(p)
    BY <1>9, <1>s, <2>0, <2>1 DEF FinalizeKey
  <2>2. CASE SharesMatch(p)
    <3> DEFINE sum == {m \in got[p] : m.round = 1 /\ m.from # p} \cup {Package(p, 1)}
    <3>1. key' = [key EXCEPT ![p] = sum]
      BY <1>9, <2>2 DEF FinalizeKey
    <3>2. Settled(p, 0) /\ Settled(p, 1) /\ ~VersionMismatch(p)
      BY <1>9, FinalizePlan DEF FinalizeKey, Planned
    <3>3. ASSUME wiped = {}, NEW m \in got[p]
          PROVE  m = Package(m.from, m.round) /\ m \in Packages
      <4>1. m \in mined /\ m \in Packages
        BY <1>0, <1>g DEF OutboxTypeOK
      <4> QED  BY <3>3, <4>1 DEF MessageInv, IntentBeforePublish
    <3>4. ASSUME wiped = {}, NEW q \in Participants, q # p
          PROVE  /\ Package(q, 1) \in got[p]
                 /\ secret[q][1] # 0
                 /\ version[q] = version[p]
      <4>1. PICK m \in got[p] : m.from = q /\ m.round = 1
        BY <3>2, <3>4 DEF Settled, RoundComplete
      <4>2. m = Package(q, 1) /\ m \in Packages
        BY <3>3, <3>4, <4>1
      <4>3. secret[q][1] # 0
        BY <4>2 DEF Package, Packages
      <4>4. PICK o \in got[p] : o.from = q /\ o.round = 0
        BY <3>2, <3>4 DEF Settled, RoundComplete
      <4>5. version[q] = version[p]
        BY <3>2, <4>4 DEF VersionMismatch, Settled
      <4> QED  BY <4>1, <4>2, <4>3, <4>5
    <3>5. ASSUME wiped = {} PROVE sum = {Package(q, 1) : q \in Participants}
      <4>1. ASSUME NEW m \in sum PROVE \E q \in Participants : m = Package(q, 1)
        <5>1. CASE m = Package(p, 1)
          BY <5>1
        <5>2. CASE m \in got[p] /\ m.round = 1
          <6>1. m = Package(m.from, 1) /\ m.from \in Participants
            BY <3>3, <3>5, <5>2 DEF Packages
          <6> QED  BY <6>1
        <5> QED  BY <5>1, <5>2
      <4>2. ASSUME NEW q \in Participants PROVE Package(q, 1) \in sum
        <5>1. CASE q = p
          BY <5>1
        <5>2. CASE q # p
          <6>1. Package(q, 1) \in got[p]
            BY <3>4, <3>5, <5>2
          <6>2. Package(q, 1).round = 1 /\ Package(q, 1).from # p
            BY <5>2 DEF Package
          <6> QED  BY <6>1, <6>2
        <5> QED  BY <5>1, <5>2
      <4> QED  BY <4>1, <4>2
    <3> HIDE DEF sum
    <3>6. \A q \in Participants : key'[q] = IF q = p THEN sum ELSE key[q]
      BY <1>0, <3>1 DEF TypeOK
    <3>7. ASSUME wiped' = {}, NEW q \in Participants, key'[q] # {}
          PROVE  /\ key'[q] = {Package(i, 1)' : i \in Participants}
                 /\ \A i \in Participants : secret'[i][1] # 0 /\ version'[i] = version'[q]
      <4>1. \A i \in Participants : Package(i, 1)' = Package(i, 1)
        BY <2>0 DEF Package
      <4>2. CASE q = p
        <5>1. secret[p][1] # 0
          BY <3>2 DEF Settled
        <5> QED  BY <2>0, <3>4, <3>5, <3>6, <3>7, <4>1, <4>2, <5>1
      <4>3. CASE q # p
        BY <2>0, <3>6, <3>7, <4>1, <4>3 DEF KeyInv
      <4> QED  BY <4>2, <4>3
    <3> QED  BY <1>g, <2>0, <3>7 DEF KeyInv
  <2> QED  BY <2>1, <2>2
<1>10. ASSUME NEW p \in Participants, CreateFrostAccount(p) PROVE KeyInv'
  BY <1>s, <1>10 DEF CreateFrostAccount, outboxVars
<1>11. ASSUME NEW p \in Participants, CompleteFinalize(p) PROVE KeyInv'
  BY <1>s, <1>11 DEF CompleteFinalize
<1>12. ASSUME NEW p \in Participants, CancelState(p) PROVE KeyInv'
  <2>1. \A q \in Participants : key'[q] \in {key[q], {}}
    BY <1>0, <1>12 DEF CancelState, TypeOK
  <2>2. UNCHANGED <<version, got, mined>> /\ wiped' = wiped \cup {p}
    BY <1>12 DEF CancelState, outboxVars
  <2> QED  BY <1>g, <2>1, <2>2, KeyStable
<1>13. ASSUME NEW p \in Participants, CancelPeers(p) PROVE KeyInv'
  <2>1. \A q \in Participants : got'[q] \subseteq mined'
    BY <1>0, <1>13, <1>g DEF CancelPeers, outboxVars, TypeOK
  <2> QED  BY <1>13, <2>1, KeyStable DEF CancelPeers
<1>14. ASSUME NEW p \in Participants, CancelRest(p) PROVE KeyInv'
  BY <1>s, <1>14 DEF CancelRest
<1>15. ASSUME NEW p \in Participants, Crash(p) PROVE KeyInv'
  BY <1>s, <1>15 DEF Crash, dkgVars
<1>16. ASSUME OutboxNext, UNCHANGED <<pc, dkgVars>> PROVE KeyInv'
  <2>1. mined \subseteq mined'
    BY <1>16 DEF OutboxNext, Mine, Drop, Expire, UserPays, PaymentMined
  <2> QED  BY <1>s, <1>16, <2>1 DEF dkgVars
<1>17. CASE UNCHANGED vars
  BY <1>s, <1>17 DEF vars, outboxVars, dkgVars
<1> QED
  BY <1>1, <1>2, <1>3, <1>4, <1>5, <1>6, <1>7, <1>8, <1>9, <1>10, <1>11, <1>12, <1>13,
     <1>14, <1>15, <1>16, <1>17 DEF Next, DriverStep

\* The all-n discipline, for any participants: as long as nobody cancels, all
\* that finish have the key of the same packages and run the same version.
THEOREM AgreementCorrect == Spec => []KeyAgreement
<1>1. TypeInv /\ MessageInv /\ KeyInv /\ [Next]_vars => TypeInv' /\ MessageInv' /\ KeyInv'
  BY TypeNext, MessageNext, KeyNext
<1>2. KeyInv => KeyAgreement
  BY DEF KeyInv, KeyAgreement, Finished
<1> QED  BY <1>1, <1>2, TypeInit, MessageInit, KeyInit, PTL DEF Spec

-----------------------------------------------------------------------------
\* The funds waits.

\* The note is held by the message under way, until the session is torn down
\* and its marker forgotten; nothing is pending while a message is under way.
FundsInv ==
    \A p \in Participants :
        /\ spent[p] # NoMessage => spent[p] = staged[p] \/ pc[p] \in {"done", "cancelled"}
        /\ pending[p] # NoMessage => staged[p] = NoMessage

\* Nobody waits for funds at the start.
LEMMA FundsInit == Init => FundsInv
BY DEF Init, OutboxInit, FundsInv

\* Every step keeps what a wait for funds says.
LEMMA FundsNext == TypeInv /\ FundsInv /\ [Next]_vars => FundsInv'
<1> SUFFICES ASSUME TypeInv, FundsInv, [Next]_vars PROVE FundsInv'
  OBVIOUS
<1> USE DEF FundsInv, TypeInv, TypeOK, OutboxTypeOK
<1>1. ASSUME NEW p \in Participants, BeginPass(p) PROVE FundsInv'
  BY <1>1 DEF BeginPass, ScanOwn, Goto
<1>2. ASSUME NEW p \in Participants, EnsureAccounts(p) PROVE FundsInv'
  BY <1>2 DEF EnsureAccounts, outboxVars
<1>3. ASSUME NEW p \in Participants, Wait(p) PROVE FundsInv'
  BY <1>3 DEF Wait, Planned, Goto, outboxVars, dkgVars
<1>4. ASSUME NEW p \in Participants, WaitOwnPublish(p) PROVE FundsInv'
  BY <1>4 DEF WaitOwnPublish, Planned, GiveUp, Goto, dkgVars
<1>5. ASSUME NEW p \in Participants, Stage(p) PROVE FundsInv'
  <2>1. staged[p] = NoMessage /\ pc[p] = "pass"
    BY <1>5, PublishPlan DEF Stage, Planned, Unmined
  <2>2. \A q \in Participants : q # p => pending'[q] = pending[q] /\ pc'[q] = pc[q]
    BY <1>5 DEF Stage, Goto
  <2> QED  BY <1>5, <2>1, <2>2 DEF Stage, outboxVars
<1>6. ASSUME NEW p \in Participants, ResendPending(p) PROVE FundsInv'
  BY <1>6 DEF ResendPending, Planned, Goto, outboxVars, dkgVars
<1>7. ASSUME NEW p \in Participants, PublishStaged(p) PROVE FundsInv'
  BY <1>7 DEF PublishStaged, StagePublish, Goto
<1>8. ASSUME NEW p \in Participants, Send(p) PROVE FundsInv'
  BY <1>8 DEF Send, Goto, dkgVars
<1>9. ASSUME NEW p \in Participants, FinalizeKey(p) PROVE FundsInv'
  BY <1>9 DEF FinalizeKey, Planned, Goto, outboxVars
<1>10. ASSUME NEW p \in Participants, CreateFrostAccount(p) PROVE FundsInv'
  BY <1>10 DEF CreateFrostAccount, outboxVars
<1>11. ASSUME NEW p \in Participants, CompleteFinalize(p) PROVE FundsInv'
  BY <1>11 DEF CompleteFinalize, Planned, Forget, Goto
<1>12. ASSUME NEW p \in Participants, CancelState(p) PROVE FundsInv'
  BY <1>12 DEF CancelState, Goto, outboxVars
<1>13. ASSUME NEW p \in Participants, CancelPeers(p) PROVE FundsInv'
  BY <1>13 DEF CancelPeers, Goto, outboxVars
<1>14. ASSUME NEW p \in Participants, CancelRest(p) PROVE FundsInv'
  BY <1>14 DEF CancelRest, Forget, Goto
<1>15. ASSUME NEW p \in Participants, Crash(p) PROVE FundsInv'
  BY <1>15 DEF Crash, Goto, dkgVars
<1>16. ASSUME OutboxNext, UNCHANGED <<pc, dkgVars>> PROVE FundsInv'
  <2>1. UNCHANGED <<spent, staged>>
    BY <1>16 DEF OutboxNext, Mine, Drop, Expire, UserPays, PaymentMined
  <2> QED  BY <1>16, <2>1 DEF dkgVars
<1>17. CASE UNCHANGED vars
  BY <1>17 DEF vars, outboxVars, dkgVars
<1> QED
  BY <1>1, <1>2, <1>3, <1>4, <1>5, <1>6, <1>7, <1>8, <1>9, <1>10, <1>11, <1>12, <1>13,
     <1>14, <1>15, <1>16, <1>17 DEF Next, DriverStep

\* A participant about to stage a message never waits for the change of its
\* last one: what it meets locked is locked by a payment of the user.
THEOREM FundsCorrect == Spec => []FundsWaitIsShortFunds
<1>1. TypeInv /\ FundsInv /\ [Next]_vars => TypeInv' /\ FundsInv'
  BY TypeNext, FundsNext
<1>2. TypeInv /\ FundsInv => FundsWaitIsShortFunds
  BY DEF TypeInv, Labels, FundsInv, FundsWaitIsShortFunds
<1> QED  BY <1>1, <1>2, TypeInit, FundsInit, PTL DEF Spec

-----------------------------------------------------------------------------
\* No split key.

\* The participant has left the protocol: its driver does not step again.
Over(p) == pc[p] \in {"done", "cancelled"}

\* The peers may have seen the package, or may see it yet.
Published(m) == m \in mined \cup mempool \cup {staged[m.from]}

\* A round is produced after the one before it was mined, and a package of a
\* stored secret is pending, staged or mined.
Stored ==
    \A p \in Participants : \A r \in {0, 1} :
        /\ secret[p][r + 1] # 0 => secret[p][r] # 0 /\ Package(p, r) \in mined
        /\ secret[p][r] # 0 /\ ~Over(p) => Package(p, r) \in mined \cup {staged[p], pending[p]}

\* What is pending is the package of a stored secret, and a round-1 package
\* pending is the first one.
PendingFirst ==
    \A p \in Participants : pending[p] # NoMessage =>
        /\ pending[p] = Package(p, pending[p].round)
        /\ pending[p].round = 1 =>
               \A m \in Packages : m.from = p /\ m.round = 1 => ~Published(m)

\* The number of a package is one of those drawn.
Counted ==
    \A p \in Participants :
        /\ \A r \in Rounds : secret[p][r] <= made[p]
        /\ \A m \in Packages : m.from = p /\ Published(m) => m.number <= made[p]

\* A participant that publishes follows the mailbox all share.
Helped ==
    \A p \in Participants :
        ~Over(p) /\ (pending[p] # NoMessage \/ \E m \in Packages : m.from = p /\ Published(m))
        => helpers[p]

\* Nothing is published before the sender's round 0 was mined.
Follows ==
    \A m \in Packages : Published(m) /\ m.round # 0 =>
        \E o \in mined : o.from = m.from /\ o.round = 0

\* A participant publishes at most one round-1 package.
OneCommitment ==
    \A m, o \in Packages :
        /\ m.from = o.from
        /\ m.round = 1 /\ o.round = 1
        /\ Published(m) /\ Published(o)
        => m = o

\* One that lost the secret of its round-1 package does not get past round 0
\* again: its first round-0 package conflicts with every later one.
Restarted ==
    \A m \in Packages :
        m.round = 1 /\ Published(m) /\ secret[m.from][1] = 0 /\ ~Over(m.from) =>
            /\ \/ secret[m.from][0] = 0
               \/ pending[m.from] # NoMessage
               \/ staged[m.from] = Package(m.from, 0)
            /\ \E o \in mined : o.from = m.from /\ o.round = 0 /\ o # Package(m.from, 0)

\* A key sums up a mined round-1 package of every participant.
KeyOfMined ==
    \A p \in Participants : key[p] # {} =>
        /\ \A m \in key[p] : m \in mined /\ m.round = 1
        /\ \A q \in Participants : \E m \in key[p] : m.from = q

\* As long as no message expires.
PublishedOnce ==
    /\ Stored
    /\ PendingFirst
    /\ Counted
    /\ Helped
    /\ Follows
    /\ OneCommitment
    /\ Restarted

SplitInv == expired = {} => PublishedOnce /\ KeyOfMined

\* Nothing is stored or published at the start.
LEMMA SplitInit == Init => SplitInv
<1> SUFFICES ASSUME Init PROVE PublishedOnce /\ KeyOfMined
  BY DEF SplitInv
<1>1. \A m \in Packages : m.from \in Participants /\ m # NoMessage
  BY DkgAssumption DEF Packages
<1>2. \A m \in Packages : ~Published(m)
  BY <1>1 DEF Init, OutboxInit, Published
<1>3. Stored /\ Counted
  BY <1>2 DEF Init, Stored, Counted, Rounds
<1>4. PendingFirst /\ Helped /\ KeyOfMined
  BY <1>2 DEF Init, PendingFirst, Helped, KeyOfMined
<1>5. Follows /\ OneCommitment /\ Restarted
  BY <1>2 DEF Follows, OneCommitment, Restarted
<1> QED  BY <1>3, <1>4, <1>5 DEF PublishedOnce

\* A step that stores, draws and publishes nothing.  A marker goes only when
\* its message is mined, and is the only round-0 package if it is one, or
\* when the participant leaves.
LEMMA QuietStep ==
    ASSUME PublishedOnce, TypeOK,
           UNCHANGED <<secret, pending, made>>,
           mined \subseteq mined',
           \A m \in Packages : Published(m)' => Published(m),
           \A p \in Participants : Over(p) => Over(p)',
           \A p \in Participants : helpers[p] => helpers'[p] \/ Over(p)',
           \A p \in Participants :
               \/ staged'[p] = staged[p]
               \/ Over(p)'
               \/ /\ staged[p] \in mined
                  /\ \A o \in mined : staged[p].round = 0 /\ staged[p].from = p
                                      /\ o.from = p /\ o.round = 0 => o = staged[p]
    PROVE  PublishedOnce'
<1>0. \A p \in Participants, r \in {0, 1, 2} : Package(p, r)' = Package(p, r)
  BY DEF Package
<1>p. \A m \in Packages : m.from \in Participants /\ m.round \in {0, 1, 2}
  BY DEF Packages, Rounds
<1>1. Stored'
  BY <1>0 DEF PublishedOnce, Stored
<1>2. PendingFirst'
  <2>1. ASSUME NEW p \in Participants, pending[p] # NoMessage
        PROVE  pending[p].round \in {0, 1, 2}
    BY <2>1 DEF TypeOK, Packages, Rounds
  <2> QED  BY <1>0, <2>1 DEF PublishedOnce, PendingFirst
<1>3. Counted'
  BY DEF PublishedOnce, Counted
<1>4. Helped'
  BY DEF PublishedOnce, Helped
<1>5. Follows'
  BY DEF PublishedOnce, Follows
<1>6. OneCommitment'
  BY DEF PublishedOnce, OneCommitment
<1>7. Restarted'
  <2> SUFFICES ASSUME NEW m \in Packages, m.round = 1, Published(m)',
                      secret'[m.from][1] = 0, ~Over(m.from)'
               PROVE  /\ \/ secret'[m.from][0] = 0
                         \/ pending'[m.from] # NoMessage
                         \/ staged'[m.from] = Package(m.from, 0)'
                      /\ \E o \in mined' : /\ o.from = m.from
                                           /\ o.round = 0
                                           /\ o # Package(m.from, 0)'
    BY DEF Restarted
  <2>1. /\ \/ secret[m.from][0] = 0
           \/ pending[m.from] # NoMessage
           \/ staged[m.from] = Package(m.from, 0)
        /\ \E o \in mined : o.from = m.from /\ o.round = 0 /\ o # Package(m.from, 0)
    BY <1>p DEF PublishedOnce, Restarted
  <2>2. PICK o \in mined : o.from = m.from /\ o.round = 0 /\ o # Package(m.from, 0)
    BY <2>1
  <2>3. CASE staged'[m.from] = staged[m.from]
    BY <1>0, <1>p, <2>1, <2>2, <2>3
  <2>4. CASE staged'[m.from] # staged[m.from]
    <3>1. staged[m.from] # Package(m.from, 0)
      <4>1. Package(m.from, 0).round = 0 /\ Package(m.from, 0).from = m.from
        BY DEF Package
      <4> QED  BY <1>p, <2>2, <2>4, <4>1
    <3> QED  BY <1>0, <1>p, <2>1, <2>2, <3>1
  <2> QED  BY <2>3, <2>4
<1> QED  BY <1>1, <1>2, <1>3, <1>4, <1>5, <1>6, <1>7 DEF PublishedOnce

\* A pass clears the marker of a message it finds, unless it finds two for
\* one slot.
LEMMA ScanClears ==
    ASSUME TypeInv, Helped, NEW p \in Participants, BeginPass(p), staged'[p] # staged[p]
    PROVE  /\ staged[p] \in mined
           /\ \A o \in mined : staged[p].round = 0 /\ staged[p].from = p
                               /\ o.from = p /\ o.round = 0 => o = staged[p]
<1> DEFINE all == got[p] \cup Visible(p)
<1>0. TypeOK /\ OutboxTypeOK(Packages)
  BY DEF TypeInv, TypeOK
<1>1. staged[p] \in mined /\ ~Conflicting(all) /\ pc[p] = "idle"
  BY <1>0 DEF BeginPass, ScanOwn, OutboxTypeOK
<1>2. ASSUME NEW o \in mined, staged[p].round = 0, staged[p].from = p, o.from = p, o.round = 0
      PROVE  o = staged[p]
  <2>1. staged[p] \in Packages /\ Published(staged[p]) /\ ~Over(p)
    BY <1>0, <1>1, <1>2 DEF OutboxTypeOK, Published, Over
  <2>2. helpers[p]
    BY <1>2, <2>1 DEF Helped
  <2>3. o \in all /\ staged[p] \in all
    BY <1>1, <1>2, <2>2 DEF Visible
  <2> QED  BY <1>1, <1>2, <2>3 DEF Conflicting
<1> QED  BY <1>1, <1>2

\* The number of a new package, and what is published when it is produced.
LEMMA StageFresh ==
    ASSUME TypeInv, MessageInv, PublishedOnce, NEW p \in Participants, Stage(p)
    PROVE  \E r \in Rounds, n \in 1..MaxPackages :
               /\ secret[p][r] = 0
               /\ secret' = [secret EXCEPT ![p][r] = n]
               /\ pending' = [pending EXCEPT ![p] = [from |-> p, round |-> r, number |-> n]]
               /\ made' = [made EXCEPT ![p] = IF r = 2 THEN @ ELSE @ + 1]
               /\ n = (IF r = 2 THEN secret[p][1] ELSE made[p] + 1)
               /\ pending[p] = NoMessage /\ staged[p] = NoMessage
               /\ \A i \in Rounds : i < r => secret[p][i] # 0
               /\ helpers[p] /\ pc[p] = "pass" /\ pc' = [pc EXCEPT ![p] = "publish"]
               /\ UNCHANGED <<mined, mempool, staged, helpers>>
<1>0. TypeOK /\ OutboxTypeOK(Packages)
  BY DEF TypeInv, TypeOK
<1>1. PICK r : r = Round(p)
  OBVIOUS
<1>2. r \in Rounds /\ secret[p][r] = 0 /\ staged[p] = NoMessage /\ pending[p] = NoMessage
  BY <1>1, PublishPlan DEF Stage, Planned, Unmined
<1>3. helpers[p]
  BY DEF Stage, Planned, NextTask
<1>4. \A i \in Rounds : i < r => secret[p][i] # 0
  <2>1. CASE r = 0
    BY <2>1 DEF Rounds
  <2>2. CASE r = 1
    BY <1>1, <2>2 DEF Round, Settled, Rounds
  <2>3. CASE r = 2
    <3>1. secret[p][0] # 0 /\ secret[p][1] # 0
      BY <1>1, <2>3 DEF Round, Settled
    <3> QED  BY <2>3, <3>1 DEF Rounds
  <2> QED  BY <1>2, <2>1, <2>2, <2>3 DEF Rounds
<1>5. PICK n : n = Fresh(p, r)
  OBVIOUS
<1>6. n \in 1..MaxPackages
  <2>1. n <= MaxPackages
    BY <1>1, <1>5 DEF Stage
  <2>2. CASE r = 2
    <3>1. n = secret[p][1] /\ secret[p][1] # 0
      BY <1>4, <1>5, <2>2 DEF Fresh, Rounds
    <3> QED  BY <1>0, <2>1, <3>1 DEF TypeOK, Rounds
  <2>3. CASE r # 2
    BY <1>0, <1>5, <2>1, <2>3, DkgAssumption DEF TypeOK, Fresh
  <2> QED  BY <2>2, <2>3
<1>7. /\ secret' = [secret EXCEPT ![p][r] = n]
      /\ pending' = [pending EXCEPT ![p] = [from |-> p, round |-> r, number |-> n]]
      /\ made' = [made EXCEPT ![p] = IF r = 2 THEN @ ELSE @ + 1]
      /\ pc[p] = "pass" /\ pc' = [pc EXCEPT ![p] = "publish"]
      /\ UNCHANGED <<mined, mempool, staged, helpers>>
  BY <1>1, <1>5 DEF Stage, Planned, Goto, outboxVars
<1>8. n = (IF r = 2 THEN secret[p][1] ELSE made[p] + 1)
  BY <1>5 DEF Fresh
<1> QED  BY <1>2, <1>3, <1>4, <1>6, <1>7, <1>8

\* A package is produced: its number is new, or that of the round-1 package
\* it belongs to, and round 1 is reached with round 0 mined and alone.
LEMMA StageOnce ==
    ASSUME TypeInv, MessageInv, PublishedOnce, NEW p \in Participants, Stage(p)
    PROVE  PublishedOnce'
<1>0. TypeOK /\ OutboxTypeOK(Packages)
  BY DEF TypeInv, TypeOK
<1>1. PICK r \in Rounds, n \in 1..MaxPackages :
          /\ secret[p][r] = 0
          /\ secret' = [secret EXCEPT ![p][r] = n]
          /\ pending' = [pending EXCEPT ![p] = [from |-> p, round |-> r, number |-> n]]
          /\ made' = [made EXCEPT ![p] = IF r = 2 THEN @ ELSE @ + 1]
          /\ n = (IF r = 2 THEN secret[p][1] ELSE made[p] + 1)
          /\ pending[p] = NoMessage /\ staged[p] = NoMessage
          /\ \A i \in Rounds : i < r => secret[p][i] # 0
          /\ helpers[p] /\ pc[p] = "pass" /\ pc' = [pc EXCEPT ![p] = "publish"]
          /\ UNCHANGED <<mined, mempool, staged, helpers>>
  BY StageFresh
<1>2. /\ \A q \in Participants, i \in Rounds :
             secret'[q][i] = IF q = p /\ i = r THEN n ELSE secret[q][i]
      /\ \A q \in Participants : q # p => pending'[q] = pending[q]
      /\ pending'[p] = [from |-> p, round |-> r, number |-> n]
      /\ \A q \in Participants : q # p => made'[q] = made[q]
      /\ made'[p] = IF r = 2 THEN made[p] ELSE made[p] + 1
      /\ \A q \in Participants : Over(q)' = Over(q)
  BY <1>0, <1>1 DEF TypeOK, Over
<1>3. \A m : Published(m)' = Published(m)
  BY <1>1 DEF Published
<1>4. /\ \A q \in Participants, i \in Rounds : ~(q = p /\ i = r) => Package(q, i)' = Package(q, i)
      /\ Package(p, r)' = pending'[p]
  BY <1>2 DEF Package
<1>p. Rounds = {0, 1, 2} /\ \A m \in Packages : m.from \in Participants /\ m.round \in Rounds
  BY DEF Packages, Rounds
<1>l. \A i \in {0, 1} : secret[p][i + 1] # 0 => secret[p][i] # 0
  BY DEF PublishedOnce, Stored
<1>m. ASSUME NEW i \in {0, 1}, secret[p][i] # 0 PROVE Package(p, i) \in mined
  <2>1. Package(p, i) # NoMessage /\ ~Over(p)
    <3>1. Package(p, i) \in Packages
      BY <1>0, <1>m, <1>p DEF Package, Packages, TypeOK
    <3> QED  BY <1>1, <3>1, DkgAssumption DEF Over
  <2> QED  BY <1>1, <1>m, <2>1 DEF PublishedOnce, Stored
<1>5. Stored'
  <2> SUFFICES ASSUME NEW q \in Participants, NEW i \in {0, 1}
               PROVE  /\ secret'[q][i + 1] # 0 => secret'[q][i] # 0 /\ Package(q, i)' \in mined'
                      /\ secret'[q][i] # 0 /\ ~Over(q)'
                             => Package(q, i)' \in mined' \cup {staged'[q], pending'[q]}
    BY DEF Stored
  <2>1. CASE q # p
    <3>1. secret'[q][i] = secret[q][i] /\ secret'[q][i + 1] = secret[q][i + 1]
      BY <1>2, <1>p, <2>1
    <3>2. Package(q, i)' = Package(q, i)
      BY <1>4, <1>p, <2>1
    <3> QED  BY <1>1, <1>2, <2>1, <3>1, <3>2 DEF PublishedOnce, Stored
  <2>2. CASE q = p /\ i = r
    <3>1. secret[p][i + 1] = 0 /\ i + 1 \in Rounds
      BY <1>1, <1>l, <1>p, <2>2
    <3>2. secret'[p][i + 1] = 0
      BY <1>2, <2>2, <3>1
    <3> QED  BY <1>4, <2>2, <3>2
  <2>3. CASE q = p /\ i # r
    <3>1. secret'[p][i] = secret[p][i] /\ Package(p, i)' = Package(p, i)
      BY <1>2, <1>4, <1>p, <2>3
    <3>2. secret[p][i] # 0 => Package(p, i) \in mined'
      BY <1>1, <1>m
    <3>3. secret'[p][i + 1] # 0 => secret[p][i] # 0
      <4>1. CASE i + 1 = r
        BY <1>1, <1>p, <2>3, <4>1
      <4>2. CASE i + 1 # r
        BY <1>2, <1>l, <1>p, <4>2
      <4> QED  BY <4>1, <4>2
    <3> QED  BY <2>3, <3>1, <3>2, <3>3
  <2> QED  BY <2>1, <2>2, <2>3
<1>6. PendingFirst'
  <2>1. ASSUME r = 1, NEW m \in Packages, m.from = p, m.round = 1 PROVE ~Published(m)
    <3> SUFFICES ASSUME Published(m) PROVE FALSE
      OBVIOUS
    <3>1. secret[p][1] = 0 /\ secret[p][0] # 0 /\ ~Over(p)
      BY <1>1, <1>p, <2>1 DEF Over
    <3>2. staged[p] = Package(p, 0)
      BY <1>1, <2>1, <3>1 DEF PublishedOnce, Restarted
    <3>3. Package(p, 0) \in Packages
      BY <1>0, <1>p, <3>1 DEF Package, Packages, TypeOK
    <3> QED  BY <1>1, <3>2, <3>3, DkgAssumption
  <2>2. ASSUME NEW q \in Participants, pending'[q] # NoMessage
        PROVE  (pending[q] = Package(q, pending[q].round))'
    <3>1. CASE q = p
      <4>1. secret'[p][r] = n
        BY <1>2
      <4> QED  BY <1>2, <3>1, <4>1 DEF Package
    <3>2. CASE q # p
      <4>1. pending[q] \in Packages /\ pending'[q] = pending[q]
        BY <1>0, <1>2, <2>2, <3>2 DEF TypeOK
      <4>2. pending[q] = Package(q, pending[q].round)
        BY <2>2, <4>1 DEF PublishedOnce, PendingFirst
      <4>3. secret'[q][pending[q].round] = secret[q][pending[q].round]
        BY <1>2, <1>p, <3>2, <4>1
      <4> QED  BY <4>1, <4>2, <4>3 DEF Package
    <3> QED  BY <3>1, <3>2
  <2>3. ASSUME NEW q \in Participants, pending'[q] # NoMessage, pending'[q].round = 1,
               NEW m \in Packages, m.from = q, m.round = 1
        PROVE  ~Published(m)'
    <3>1. CASE q = p
      BY <1>2, <1>3, <2>1, <2>3, <3>1
    <3>2. CASE q # p
      BY <1>2, <1>3, <2>3, <3>2 DEF PublishedOnce, PendingFirst
    <3> QED  BY <3>1, <3>2
  <2> QED  BY <2>2, <2>3 DEF PendingFirst
<1>7. Counted'
  <2>1. made[p] \in Nat /\ made[p] <= made'[p]
    BY <1>0, <1>2, DkgAssumption DEF TypeOK
  <2>2. ASSUME NEW q \in Participants, NEW i \in Rounds PROVE secret'[q][i] <= made'[q]
    <3>1. secret[q][i] <= made[q] /\ secret[q][i] \in Nat
      BY <1>0 DEF PublishedOnce, Counted, TypeOK
    <3>2. secret[p][1] <= made[p]
      BY <1>p DEF PublishedOnce, Counted
    <3>3. CASE q = p /\ i = r
      BY <1>1, <1>2, <2>1, <3>2, <3>3
    <3>4. CASE q = p /\ i # r
      BY <1>2, <2>1, <3>1, <3>4
    <3>5. CASE q # p
      BY <1>2, <3>1, <3>5
    <3> QED  BY <3>3, <3>4, <3>5
  <2>3. ASSUME NEW q \in Participants, NEW m \in Packages, m.from = q, Published(m)'
        PROVE  m.number <= made'[q]
    <3>1. m.number <= made[q] /\ m.number \in Nat
      BY <1>3, <2>3 DEF PublishedOnce, Counted, Packages
    <3>2. CASE q = p
      BY <1>2, <2>1, <3>1, <3>2
    <3>3. CASE q # p
      BY <1>2, <3>1, <3>3
    <3> QED  BY <3>2, <3>3
  <2> QED  BY <2>2, <2>3 DEF Counted
<1>8. Helped'
  BY <1>1, <1>2, <1>3 DEF PublishedOnce, Helped
<1>9. Follows' /\ OneCommitment'
  BY <1>1, <1>3 DEF PublishedOnce, Follows, OneCommitment
<1>10. Restarted'
  <2> SUFFICES ASSUME NEW m \in Packages, m.round = 1, Published(m)',
                      secret'[m.from][1] = 0, ~Over(m.from)'
               PROVE  /\ \/ secret'[m.from][0] = 0
                         \/ pending'[m.from] # NoMessage
                         \/ staged'[m.from] = Package(m.from, 0)'
                      /\ \E o \in mined' : /\ o.from = m.from
                                           /\ o.round = 0
                                           /\ o # Package(m.from, 0)'
    BY DEF Restarted
  <2>0. m.from \in Participants /\ Published(m) /\ ~Over(m.from)
    BY <1>2, <1>3, <1>p
  <2>1. secret[m.from][1] = 0
    BY <1>2, <1>p, <2>0, <1>1
  <2>2. /\ \/ secret[m.from][0] = 0
           \/ pending[m.from] # NoMessage
           \/ staged[m.from] = Package(m.from, 0)
        /\ \E o \in mined : o.from = m.from /\ o.round = 0 /\ o # Package(m.from, 0)
    BY <2>0, <2>1 DEF PublishedOnce, Restarted
  <2>3. CASE m.from # p
    BY <1>1, <1>2, <1>4, <1>p, <2>0, <2>2, <2>3
  <2>4. CASE m.from = p
    <3>1. pending'[p] # NoMessage
      <4>1. pending'[p] \in Packages
        BY <1>2 DEF Packages
      <4> QED  BY <4>1, DkgAssumption
    <3>2. PICK o \in mined : o.from = p /\ o.round = 0 /\ o # Package(p, 0)
      BY <2>2, <2>4
    <3>3. CASE r = 0
      <4>1. o.number <= made[p] /\ o.number \in Nat
        <5>1. o \in Packages /\ Published(o)
          BY <1>0, <3>2 DEF OutboxTypeOK, Published
        <5> QED  BY <3>2, <5>1 DEF PublishedOnce, Counted, Packages
      <4>2. Package(p, 0)'.number = made[p] + 1
        BY <1>1, <1>2, <1>4, <3>3
      <4>3. o # Package(p, 0)'
        BY <1>0, <4>1, <4>2, DkgAssumption DEF TypeOK
      <4> QED  BY <1>1, <2>4, <3>1, <3>2, <4>3
    <3>4. CASE r # 0
      BY <1>1, <1>4, <1>p, <2>4, <3>1, <3>2, <3>4
    <3> QED  BY <3>3, <3>4
  <2> QED  BY <2>3, <2>4
<1> QED  BY <1>5, <1>6, <1>7, <1>8, <1>9, <1>10 DEF PublishedOnce

\* A package is published: it is the pending one, and nothing else of its
\* sender is under way.
LEMMA PublishOnce ==
    ASSUME TypeInv, FundsInv, PublishedOnce, NEW p \in Participants, PublishStaged(p)
    PROVE  PublishedOnce'
<1>0. TypeOK /\ OutboxTypeOK(Packages) /\ pc[p] = "publish" /\ pending[p] # NoMessage
  BY DEF TypeInv, TypeOK, Labels, PublishStaged
<1>1. CASE ~Fundable(p)
  <2>1. /\ UNCHANGED <<secret, pending, made, mined, mempool, staged, helpers>>
        /\ pc' = [pc EXCEPT ![p] = "idle"]
    BY <1>1 DEF PublishStaged, Goto
  <2>2. \A q \in Participants : Over(q) => Over(q)'
    BY <1>0, <2>1 DEF TypeOK, Over
  <2> QED  BY <1>0, <2>1, <2>2, QuietStep DEF Published
<1>2. CASE Fundable(p)
  <2>0. PICK new : new = pending[p]
    OBVIOUS
  <2>n. new = Package(p, new.round) /\ new \in Packages /\ new.from = p /\ new.round \in Rounds
    BY <1>0, <2>0 DEF PublishedOnce, PendingFirst, TypeOK, Package, Packages
  <2>s. secret[p][new.round] # 0 /\ staged[p] = NoMessage
    <3>1. new.number = secret[p][new.round]
      BY <2>n DEF Package
    <3>2. new.number # 0
      BY <2>n DEF Packages
    <3> QED  BY <1>0, <3>1, <3>2 DEF FundsInv
  <2>1. /\ UNCHANGED <<secret, made, mined, mempool, helpers>>
        /\ \A q \in Participants : q # p => staged'[q] = staged[q] /\ pending'[q] = pending[q]
        /\ staged'[p] = new /\ pending'[p] = NoMessage
        /\ \A q \in Participants : Over(q)' = Over(q)
    BY <1>0, <1>2, <2>0 DEF PublishStaged, StagePublish, Goto, Over, TypeOK, OutboxTypeOK
  <2>2. \A m \in Packages : Published(m)' => Published(m) \/ m = new
    BY <2>1 DEF Published, Packages
  <2>3. \A q \in Participants, i \in {0, 1, 2} : Package(q, i)' = Package(q, i)
    BY <2>1 DEF Package
  <2>p. Rounds = {0, 1, 2} /\ \A m \in Packages : m.from \in Participants /\ m.round \in Rounds
    BY DEF Packages, Rounds
  <2>4. Stored'
    <3> SUFFICES ASSUME NEW q \in Participants, NEW i \in {0, 1}
                 PROVE  /\ secret'[q][i + 1] # 0 => secret'[q][i] # 0 /\ Package(q, i)' \in mined'
                        /\ secret'[q][i] # 0 /\ ~Over(q)'
                               => Package(q, i)' \in mined' \cup {staged'[q], pending'[q]}
      BY DEF Stored
    <3>0. /\ secret[q][i + 1] # 0 => secret[q][i] # 0 /\ Package(q, i) \in mined
          /\ secret[q][i] # 0 /\ ~Over(q) => Package(q, i) \in mined \cup {staged[q], pending[q]}
      BY DEF PublishedOnce, Stored
    <3>1. CASE q # p
      BY <2>1, <2>3, <3>0, <3>1
    <3>2. CASE q = p
      <4>1. secret[p][i] # 0 => Package(p, i) # NoMessage
        <5>1. secret[p][i] # 0 => Package(p, i) \in Packages
          BY <1>0, <2>p DEF TypeOK, Package, Packages
        <5> QED  BY <5>1, DkgAssumption
      <4> QED  BY <2>0, <2>1, <2>3, <2>s, <3>0, <3>2, <4>1
    <3> QED  BY <3>1, <3>2
  <2>5. PendingFirst'
    <3> SUFFICES ASSUME NEW q \in Participants, pending'[q] # NoMessage
                 PROVE  /\ (pending[q] = Package(q, pending[q].round))'
                        /\ pending'[q].round = 1 =>
                               \A m \in Packages : m.from = q /\ m.round = 1 => ~Published(m)'
      BY DEF PendingFirst
    <3>1. q # p /\ pending'[q] = pending[q]
      BY <2>1
    <3>2. /\ pending[q] = Package(q, pending[q].round)
          /\ pending[q].round = 1 =>
                 \A m \in Packages : m.from = q /\ m.round = 1 => ~Published(m)
      BY <3>1 DEF PublishedOnce, PendingFirst
    <3>3. (pending[q] = Package(q, pending[q].round))'
      BY <2>1, <3>1, <3>2 DEF Package
    <3>4. \A m \in Packages : m.from = q => m # new
      BY <2>n, <3>1
    <3> QED  BY <2>2, <3>1, <3>2, <3>3, <3>4
  <2>6. Counted'
    <3>1. new.number <= made[p]
      BY <2>n DEF PublishedOnce, Counted, Package
    <3> QED  BY <2>1, <2>2, <2>n, <3>1 DEF PublishedOnce, Counted
  <2>7. Helped'
    <3>1. ~Over(p) => helpers[p]
      BY <1>0 DEF PublishedOnce, Helped
    <3> QED  BY <2>1, <2>2, <2>n, <3>1 DEF PublishedOnce, Helped
  <2>8. Follows'
    <3>1. ASSUME new.round # 0 PROVE \E o \in mined : o.from = p /\ o.round = 0
      <4>1. secret[p][1] # 0
        BY <2>n, <2>p, <2>s, <3>1 DEF PublishedOnce, Stored
      <4>2. Package(p, 0) \in mined
        BY <4>1 DEF PublishedOnce, Stored
      <4>3. Package(p, 0).from = p /\ Package(p, 0).round = 0
        BY DEF Package
      <4> QED  BY <4>2, <4>3
    <3> QED  BY <2>1, <2>2, <2>n, <3>1 DEF PublishedOnce, Follows
  <2>9. OneCommitment'
    <3>1. new.round = 1 => \A m \in Packages : m.from = p /\ m.round = 1 => ~Published(m)
      BY <1>0, <2>0 DEF PublishedOnce, PendingFirst
    <3>2. ASSUME NEW m \in Packages, NEW o \in Packages, m.from = o.from,
                 m.round = 1, o.round = 1, Published(m)', Published(o)'
          PROVE  m = o
      <4>1. CASE m = new
        BY <2>2, <2>n, <3>1, <3>2, <4>1
      <4>2. CASE o = new
        BY <2>2, <2>n, <3>1, <3>2, <4>2
      <4>3. CASE m # new /\ o # new
        BY <2>2, <3>2, <4>3 DEF PublishedOnce, OneCommitment
      <4> QED  BY <4>1, <4>2, <4>3
    <3> QED  BY <3>2 DEF OneCommitment
  <2>10. Restarted'
    <3> SUFFICES ASSUME NEW m \in Packages, m.round = 1, Published(m)',
                        secret'[m.from][1] = 0, ~Over(m.from)'
                 PROVE  /\ \/ secret'[m.from][0] = 0
                           \/ pending'[m.from] # NoMessage
                           \/ staged'[m.from] = Package(m.from, 0)'
                        /\ \E o \in mined' : /\ o.from = m.from
                                             /\ o.round = 0
                                             /\ o # Package(m.from, 0)'
      BY DEF Restarted
    <3>1. m # new /\ m.from \in Participants
      BY <2>1, <2>n, <2>p, <2>s
    <3>2. /\ \/ secret[m.from][0] = 0
             \/ pending[m.from] # NoMessage
             \/ staged[m.from] = Package(m.from, 0)
          /\ \E o \in mined : o.from = m.from /\ o.round = 0 /\ o # Package(m.from, 0)
      BY <2>1, <2>2, <3>1 DEF PublishedOnce, Restarted
    <3>3. CASE m.from # p
      BY <2>1, <2>3, <3>1, <3>2, <3>3
    <3>4. CASE m.from = p
      <4>1. new.round = 0
        BY <2>1, <2>n, <2>p, <2>s, <3>4 DEF PublishedOnce, Stored
      <4>2. staged'[p] = Package(p, 0)
        BY <2>1, <2>n, <4>1
      <4> QED  BY <2>1, <2>3, <3>2, <3>4, <4>2
    <3> QED  BY <3>3, <3>4
  <2> QED  BY <2>4, <2>5, <2>6, <2>7, <2>8, <2>9, <2>10 DEF PublishedOnce
<1> QED  BY <1>1, <1>2

\* A cancel starts: the secrets are gone, and the first round-0 package of a
\* round-1 package published is mined and stays.
LEMMA CancelOnce ==
    ASSUME TypeInv, PublishedOnce, NEW p \in Participants, CancelState(p)
    PROVE  PublishedOnce'
<1>0. TypeOK /\ OutboxTypeOK(Packages) /\ UNCHANGED <<made, mined, mempool, staged, helpers>>
  BY DEF TypeInv, TypeOK, CancelState, outboxVars
<1>1. \A q \in Participants : Over(q)' = Over(q)
  BY <1>0 DEF CancelState, Goto, TypeOK, Over
<1>2. CASE UNCHANGED <<secret, pending, key>>
  BY <1>0, <1>1, <1>2, QuietStep DEF Published
<1>3. CASE /\ secret' = [secret EXCEPT ![p] = [r \in Rounds |-> 0]]
           /\ pending' = [pending EXCEPT ![p] = NoMessage]
  <2>p. Rounds = {0, 1, 2} /\ \A m \in Packages : m.from \in Participants /\ m.round \in Rounds
    BY DEF Packages, Rounds
  <2>1. /\ \A q \in Participants : q # p => pending'[q] = pending[q] /\ secret'[q] = secret[q]
        /\ pending'[p] = NoMessage
        /\ \A i \in Rounds : secret'[p][i] = 0
    BY <1>0, <1>3 DEF TypeOK
  <2>2. \A m : Published(m)' = Published(m)
    BY <1>0 DEF Published
  <2>3. \A q \in Participants, i \in Rounds : q # p => Package(q, i)' = Package(q, i)
    BY <2>1 DEF Package
  <2>4. Stored'
    <3>1. \A i \in {0, 1} : secret'[p][i] = 0 /\ secret'[p][i + 1] = 0
      BY <2>1, <2>p
    <3> QED  BY <1>0, <1>1, <2>1, <2>3, <2>p, <3>1 DEF PublishedOnce, Stored
  <2>5. PendingFirst'
    <3> SUFFICES ASSUME NEW q \in Participants, pending'[q] # NoMessage
                 PROVE  /\ (pending[q] = Package(q, pending[q].round))'
                        /\ pending'[q].round = 1 =>
                               \A m \in Packages : m.from = q /\ m.round = 1 => ~Published(m)'
      BY DEF PendingFirst
    <3>1. q # p /\ pending'[q] = pending[q] /\ secret'[q] = secret[q]
      BY <2>1
    <3>2. pending[q] = Package(q, pending[q].round)
      BY <3>1 DEF PublishedOnce, PendingFirst
    <3>3. (pending[q] = Package(q, pending[q].round))'
      BY <3>1, <3>2 DEF Package
    <3> QED  BY <2>2, <3>1, <3>3 DEF PublishedOnce, PendingFirst
  <2>6. Counted'
    <3>1. made[p] >= 0
      BY <1>0, DkgAssumption DEF TypeOK
    <3>2. \A i \in Rounds : secret'[p][i] <= made[p]
      BY <1>0, <2>1, <3>1, DkgAssumption DEF TypeOK
    <3> QED  BY <1>0, <2>1, <2>2, <3>2 DEF PublishedOnce, Counted
  <2>7. Helped'
    BY <1>0, <1>1, <2>1, <2>2 DEF PublishedOnce, Helped
  <2>8. Follows' /\ OneCommitment'
    BY <1>0, <2>2 DEF PublishedOnce, Follows, OneCommitment
  <2>9. Restarted'
    <3> SUFFICES ASSUME NEW m \in Packages, m.round = 1, Published(m)',
                        secret'[m.from][1] = 0, ~Over(m.from)'
                 PROVE  /\ \/ secret'[m.from][0] = 0
                           \/ pending'[m.from] # NoMessage
                           \/ staged'[m.from] = Package(m.from, 0)'
                        /\ \E o \in mined' : /\ o.from = m.from
                                             /\ o.round = 0
                                             /\ o # Package(m.from, 0)'
      BY DEF Restarted
    <3>0. m.from \in Participants /\ Published(m) /\ ~Over(m.from)
      BY <1>1, <2>2, <2>p
    <3>1. CASE m.from # p
      BY <1>0, <2>1, <2>3, <2>p, <3>0, <3>1 DEF PublishedOnce, Restarted
    <3>2. CASE m.from = p
      <4>1. PICK o \in mined : o.from = p /\ o.round = 0
        BY <3>0, <3>2 DEF PublishedOnce, Follows
      <4>2. o.number # 0
        BY <1>0, <4>1 DEF OutboxTypeOK, Packages
      <4>3. Package(p, 0)'.number = 0
        BY <2>1, <2>p DEF Package
      <4> QED  BY <1>0, <2>1, <2>p, <3>2, <4>1, <4>2, <4>3
    <3> QED  BY <3>1, <3>2
  <2> QED  BY <2>4, <2>5, <2>6, <2>7, <2>8, <2>9 DEF PublishedOnce
<1> QED  BY <1>2, <1>3 DEF CancelState

\* Every step keeps what is published single, until a message expires.
LEMMA PublishedNext ==
    TypeInv /\ MessageInv /\ FundsInv /\ expired' = {} /\ PublishedOnce /\ [Next]_vars
        => PublishedOnce'
<1> SUFFICES ASSUME TypeInv, MessageInv, FundsInv, expired' = {}, PublishedOnce, [Next]_vars
             PROVE  PublishedOnce'
  OBVIOUS
<1>0. TypeOK /\ OutboxTypeOK(Packages)
  BY DEF TypeInv, TypeOK
<1>q. ASSUME UNCHANGED <<secret, pending, made, staged>>,
             mined \subseteq mined',
             \A m \in Packages : Published(m)' => Published(m),
             \A q \in Participants : Over(q) => Over(q)',
             \A q \in Participants : helpers[q] => helpers'[q]
      PROVE  PublishedOnce'
  BY <1>0, <1>q, QuietStep
<1>r. ASSUME UNCHANGED <<secret, pending, made, staged, mined, mempool, helpers>>,
             NEW p \in Participants, ~Over(p), \A q \in Participants : q # p => pc'[q] = pc[q]
      PROVE  PublishedOnce'
  BY <1>q, <1>r DEF Published, Over
<1>1. ASSUME NEW p \in Participants, BeginPass(p) PROVE PublishedOnce'
  <2>1. /\ UNCHANGED <<secret, pending, made, mined, mempool, helpers>>
        /\ \A q \in Participants : Over(q) => Over(q)'
        /\ \A q \in Participants : staged'[q] \in {staged[q], NoMessage}
        /\ \A q \in Participants : q # p => staged'[q] = staged[q]
    BY <1>0, <1>1 DEF BeginPass, ScanOwn, Goto, TypeOK, OutboxTypeOK, Over
  <2>2. \A m \in Packages : Published(m)' => Published(m)
    BY <2>1, DkgAssumption DEF Published, Packages
  <2>3. staged'[p] # staged[p] =>
            /\ staged[p] \in mined
            /\ \A o \in mined : staged[p].round = 0 /\ staged[p].from = p
                                /\ o.from = p /\ o.round = 0 => o = staged[p]
    BY <1>1, ScanClears DEF PublishedOnce
  <2> QED  BY <1>0, <2>1, <2>2, <2>3, QuietStep
<1>2. ASSUME NEW p \in Participants, EnsureAccounts(p) PROVE PublishedOnce'
  <2>1. \A q \in Participants : helpers[q] => helpers'[q]
    BY <1>0, <1>2 DEF EnsureAccounts, TypeOK
  <2> QED  BY <1>2, <1>q, <2>1 DEF EnsureAccounts, outboxVars, Published, Over
<1>3. ASSUME NEW p \in Participants,
             Wait(p) \/ ResendPending(p) \/ FinalizeKey(p) \/ CreateFrostAccount(p)
      PROVE  PublishedOnce'
  <2>1. UNCHANGED <<secret, pending, made, staged, mined, mempool, helpers>> /\ ~Over(p)
    BY <1>3 DEF Wait, ResendPending, FinalizeKey, CreateFrostAccount, Planned, Over,
                outboxVars, dkgVars
  <2>2. \A q \in Participants : q # p => pc'[q] = pc[q]
    BY <1>0, <1>3 DEF Wait, ResendPending, FinalizeKey, CreateFrostAccount, Goto, TypeOK
  <2> QED  BY <1>r, <2>1, <2>2
<1>4. ASSUME NEW p \in Participants, WaitOwnPublish(p) \/ Send(p) PROVE PublishedOnce'
  <2>0. staged[p] # NoMessage /\ staged[p] \in Packages /\ staged[p].from = p
    <3>1. staged[p] # NoMessage
      BY <1>4, WaitPlan DEF WaitOwnPublish, Send, Planned, Unmined, TypeInv, Labels
    <3> QED  BY <1>0, <3>1 DEF OutboxTypeOK, MessageInv
  <2>1. /\ UNCHANGED <<secret, pending, made, staged, mined, helpers, expired>>
        /\ mempool' \subseteq mempool \cup {staged[p]}
        /\ pc[p] \in {"pass", "send"} /\ \A q \in Participants : q # p => pc'[q] = pc[q]
    BY <1>0, <1>4 DEF WaitOwnPublish, Send, GiveUp, Planned, Post, Goto, dkgVars, TypeOK
  <2>2. \A m \in Packages : Published(m)' => Published(m)
    BY <2>0, <2>1 DEF Published
  <2> QED  BY <1>q, <2>1, <2>2 DEF Over
<1>5. ASSUME NEW p \in Participants, Stage(p) PROVE PublishedOnce'
  BY <1>5, StageOnce
<1>6. ASSUME NEW p \in Participants, PublishStaged(p) PROVE PublishedOnce'
  BY <1>6, PublishOnce
<1>7. ASSUME NEW p \in Participants, CompleteFinalize(p) \/ CancelRest(p) PROVE PublishedOnce'
  <2>1. /\ UNCHANGED <<secret, pending, made, mined, mempool>>
        /\ ~Over(p)
        /\ \A q \in Participants : q # p => /\ staged'[q] = staged[q]
                                            /\ helpers'[q] = helpers[q]
                                            /\ pc'[q] = pc[q]
    BY <1>0, <1>7 DEF CompleteFinalize, CancelRest, Planned, Forget, Goto, Over, TypeOK,
                      OutboxTypeOK
  <2>2. UNCHANGED <<staged, helpers>> \/ (Over(p)' /\ staged'[p] = NoMessage)
    <3>1. CASE CancelRest(p)
      BY <1>0, <3>1 DEF CancelRest, Forget, Goto, Over, TypeOK, OutboxTypeOK
    <3>2. CASE CompleteFinalize(p)
      BY <1>0, <3>2 DEF CompleteFinalize, Forget, Goto, Over, TypeOK, OutboxTypeOK
    <3> QED  BY <1>7, <3>1, <3>2
  <2>3. \A m \in Packages : Published(m)' => Published(m)
    BY <2>1, <2>2, DkgAssumption DEF Published, Packages
  <2>4. \A q \in Participants : Over(q) => Over(q)'
    BY <2>1 DEF Over
  <2>5. \A q \in Participants : helpers[q] => helpers'[q] \/ Over(q)'
    BY <2>1, <2>2
  <2>6. \A q \in Participants : staged'[q] = staged[q] \/ Over(q)'
    BY <2>1, <2>2
  <2> QED  BY <1>0, <2>1, <2>3, <2>4, <2>5, <2>6, QuietStep
<1>8. ASSUME NEW p \in Participants, CancelState(p) PROVE PublishedOnce'
  BY <1>8, CancelOnce
<1>9. ASSUME NEW p \in Participants, CancelPeers(p) \/ Crash(p) PROVE PublishedOnce'
  <2>1. UNCHANGED <<secret, pending, made, staged, mined, mempool, helpers>> /\ ~Over(p)
    BY <1>9 DEF CancelPeers, Crash, Over, outboxVars, dkgVars
  <2>2. \A q \in Participants : q # p => pc'[q] = pc[q]
    BY <1>0, <1>9 DEF CancelPeers, Crash, Goto, TypeOK
  <2> QED  BY <1>r, <2>1, <2>2
<1>10. ASSUME OutboxNext, UNCHANGED <<pc, dkgVars>> PROVE PublishedOnce'
  <2>1. /\ UNCHANGED <<secret, pending, made, staged, helpers, pc>>
        /\ mined \subseteq mined'
        /\ mempool' \cup mined' \subseteq mempool \cup mined
    BY <1>10 DEF OutboxNext, Mine, Drop, Expire, UserPays, PaymentMined, dkgVars
  <2>2. \A m \in Packages : Published(m)' => Published(m)
    BY <2>1 DEF Published
  <2> QED  BY <1>q, <2>1, <2>2 DEF Over
<1>11. CASE UNCHANGED vars
  BY <1>11, <1>q DEF vars, outboxVars, dkgVars, Published, Over
<1> QED
  BY <1>1, <1>2, <1>3, <1>4, <1>5, <1>6, <1>7, <1>8, <1>9, <1>10, <1>11 DEF Next, DriverStep

\* A step that computes no key.
LEMMA KeyKept ==
    ASSUME KeyOfMined,
           \A p \in Participants : key'[p] \in {key[p], {}},
           mined \subseteq mined'
    PROVE  KeyOfMined'
BY DEF KeyOfMined

\* Every step keeps the keys sums of mined packages.
LEMMA KeyOfMinedNext ==
    TypeInv /\ KeyInv /\ PublishedOnce /\ KeyOfMined /\ [Next]_vars => KeyOfMined'
<1> SUFFICES ASSUME TypeInv, KeyInv, PublishedOnce, KeyOfMined, [Next]_vars PROVE KeyOfMined'
  OBVIOUS
<1>0. TypeOK
  BY DEF TypeInv
<1>1. ASSUME NEW p \in Participants, FinalizeKey(p) PROVE KeyOfMined'
  <2> DEFINE sum == {m \in got[p] : m.round = 1 /\ m.from # p} \cup {Package(p, 1)}
  <2>0. UNCHANGED mined
    BY <1>1 DEF FinalizeKey, outboxVars
  <2>1. Settled(p, 1) /\ Settled(p, 2)
    BY <1>1, FinalizePlan DEF FinalizeKey, Planned
  <2>2. Package(p, 1) \in mined
    BY <2>1 DEF Settled, PublishedOnce, Stored
  <2>3. \A m \in sum : m \in mined /\ m.round = 1
    <3>1. Package(p, 1).round = 1
      BY DEF Package
    <3> QED  BY <2>2, <3>1 DEF KeyInv
  <2>4. \A q \in Participants : \E m \in sum : m.from = q
    <3>1. Package(p, 1).from = p
      BY DEF Package
    <3>2. ASSUME NEW q \in Participants, q # p PROVE \E m \in sum : m.from = q
      <4>1. PICK m \in got[p] : m.from = q /\ m.round = 1
        BY <2>1, <3>2 DEF Settled, RoundComplete
      <4> QED  BY <3>2, <4>1
    <3> QED  BY <3>1, <3>2
  <2>5. \A q \in Participants : key'[q] = key[q] \/ (q = p /\ key'[q] = sum)
    BY <1>0, <1>1 DEF FinalizeKey, TypeOK
  <2> HIDE DEF sum
  <2>6. ASSUME NEW q \in Participants, key'[q] # {}
        PROVE  /\ \A m \in key'[q] : m \in mined' /\ m.round = 1
               /\ \A i \in Participants : \E m \in key'[q] : m.from = i
    <3>1. CASE key'[q] = key[q]
      BY <2>0, <2>6, <3>1 DEF KeyOfMined
    <3>2. CASE key'[q] = sum
      BY <2>0, <2>3, <2>4, <3>2
    <3> QED  BY <2>5, <3>1, <3>2
  <2> QED  BY <2>6 DEF KeyOfMined
<1>2. ASSUME NEW p \in Participants, DriverStep(p) \/ CancelState(p) \/ Crash(p), ~FinalizeKey(p)
      PROVE  KeyOfMined'
  <2>1. UNCHANGED mined
    BY <1>2 DEF DriverStep, BeginPass, EnsureAccounts, Wait, WaitOwnPublish, Stage, ResendPending,
                PublishStaged, Send, CreateFrostAccount, CompleteFinalize, CancelPeers,
                CancelRest, CancelState, Crash, outboxVars
  <2>2. CASE CancelState(p)
    <3>1. \A q \in Participants : key'[q] \in {key[q], {}}
      BY <1>0, <2>2 DEF CancelState, TypeOK
    <3> QED  BY <2>1, <3>1, KeyKept
  <2>3. CASE ~CancelState(p)
    <3>1. UNCHANGED key
      BY <1>2, <2>3 DEF DriverStep, BeginPass, EnsureAccounts, Wait, WaitOwnPublish, Stage,
                ResendPending, PublishStaged, Send, CreateFrostAccount, CompleteFinalize,
                CancelPeers, CancelRest, Crash, dkgVars
    <3> QED  BY <2>1, <3>1, KeyKept
  <2> QED  BY <2>2, <2>3
<1>3. ASSUME OutboxNext, UNCHANGED <<pc, dkgVars>> PROVE KeyOfMined'
  <2>1. mined \subseteq mined'
    BY <1>3 DEF OutboxNext, Mine, Drop, Expire, UserPays, PaymentMined
  <2> QED  BY <1>3, <2>1, KeyKept DEF dkgVars
<1>4. CASE UNCHANGED vars
  BY <1>4, KeyKept DEF vars, outboxVars, dkgVars
<1> QED  BY <1>1, <1>2, <1>3, <1>4 DEF Next, DriverStep

\* A message that expired has expired for good.
LEMMA ExpiredForGood == [Next]_vars => expired \subseteq expired'
BY DEF Next, vars, outboxVars, dkgVars, DriverStep, BeginPass, EnsureAccounts, Wait, WaitOwnPublish,
       Stage, ResendPending, PublishStaged, Send, FinalizeKey, CreateFrostAccount,
       CompleteFinalize, CancelPeers, CancelRest, CancelState, Crash, OutboxNext, Mine, Drop,
       Expire, UserPays, PaymentMined

\* The conflict check keeps the group whole, for any participants and whoever
\* cancels, is interrupted and starts over: unless a message expires, all that
\* finish have one key.
THEOREM NoSplitCorrect == Spec => []NoSplitKey
<1>1. /\ TypeInv /\ MessageInv /\ KeyInv /\ FundsInv /\ SplitInv
      /\ [Next]_vars
      => TypeInv' /\ MessageInv' /\ KeyInv' /\ FundsInv' /\ SplitInv'
  <2> SUFFICES ASSUME TypeInv, MessageInv, KeyInv, FundsInv, SplitInv, [Next]_vars
               PROVE  SplitInv'
    BY TypeNext, MessageNext, KeyNext, FundsNext
  <2> SUFFICES ASSUME expired' = {} PROVE PublishedOnce' /\ KeyOfMined'
    BY DEF SplitInv
  <2>1. PublishedOnce /\ KeyOfMined
    BY ExpiredForGood DEF SplitInv
  <2> QED  BY <2>1, PublishedNext, KeyOfMinedNext
<1>2. TypeInv /\ SplitInv => NoSplitKey
  <2> SUFFICES ASSUME TypeInv, SplitInv, expired = {}, NEW p \in Participants, NEW q \in Participants,
                      Finished(p), Finished(q), NEW m \in key[p]
               PROVE  m \in key[q]
    BY DEF NoSplitKey, Finished
  <2>1. m \in mined /\ m.round = 1 /\ m \in Packages
    BY DEF SplitInv, KeyOfMined, Finished, TypeInv, TypeOK, OutboxTypeOK
  <2>2. PICK o \in key[q] : o.from = m.from /\ o.round = 1 /\ o \in mined /\ o \in Packages
    <3>1. m.from \in Participants
      BY <2>1 DEF Packages
    <3>2. KeyOfMined /\ mined \subseteq Packages
      BY DEF SplitInv, TypeInv, TypeOK, OutboxTypeOK
    <3> QED  BY <3>1, <3>2 DEF KeyOfMined, Finished
  <2>3. OneCommitment
    BY DEF SplitInv, PublishedOnce
  <2>4. Published(m) /\ Published(o)
    BY <2>1, <2>2 DEF Published
  <2>5. m = o
    BY <2>1, <2>2, <2>3, <2>4 DEF OneCommitment
  <2> QED  BY <2>2, <2>5
<1> QED
  BY <1>1, <1>2, TypeInit, MessageInit, KeyInit, FundsInit, SplitInit, PTL DEF Spec
=============================================================================
