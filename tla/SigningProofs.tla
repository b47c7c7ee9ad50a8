--------------------------- MODULE SigningProofs ---------------------------
(***************************************************************************)
(* Proofs about Signing, for any group, threshold and bounds: the types,   *)
(* one message of a kind, the package that a share is over, the one share  *)
(* of a participant, and the funds waits.                                  *)
(***************************************************************************)
EXTENDS Signing, FiniteSetTheorems, TLAPS

-----------------------------------------------------------------------------
\* The planner.

\* A commitment is sent when there is none of ours, and nothing is under way.
LEMMA CommitPlan ==
    ASSUME NEW p \in Participants, NextTask(p) = "SendCommitments"
    PROVE  commitment[p][p] = 0 /\ knows[p] /\ ~Unmined(p)
BY DEF NextTask, PackageTask, LastTask, Needing

\* The coordinator makes a package when it has none and its own commitment.
LEMMA PackagePlan ==
    ASSUME NEW p \in Participants, NextTask(p) = "MakeSigpackages"
    PROVE  commitment[p][p] # 0 /\ package[p] = {} /\ knows[p] /\ ~Unmined(p)
BY DEF NextTask, PackageTask, LastTask, Needing

\* A share is computed once, over a package.
LEMMA SharePlan ==
    ASSUME NEW p \in Participants, NextTask(p) = "SendSigshares"
    PROVE  commitment[p][p] # 0 /\ ~share[p] /\ knows[p] /\ ~Unmined(p)
BY DEF NextTask, PackageTask, LastTask, Needing

\* A session ends, or aggregates, after its commitment.
LEMMA EndPlan ==
    ASSUME NEW p \in Participants, NextTask(p) \in {"Done", "Abort", "Aggregate"}
    PROVE  commitment[p][p] # 0
BY DEF NextTask, PackageTask, LastTask, Needing

\* A wait on our own message has a message.
LEMMA WaitPlan ==
    ASSUME NEW p \in Participants, NextTask(p) = "WaitOwnPublish"
    PROVE  Unmined(p)
BY DEF NextTask, PackageTask, LastTask, Needing

\* An announcement comes before anything is known.
LEMMA AnnouncePlan ==
    ASSUME NEW p \in Participants, NextTask(p) = "AnnounceCoordinator"
    PROVE  ~knows[p]
BY DEF NextTask, PackageTask, LastTask, Needing

-----------------------------------------------------------------------------
\* Types.

\* A participant works in an open session; a closed one has left no nonce and
\* no commitment of its own.
Labels ==
    \A p \in Participants :
        /\ pc[p] # "idle" => open[p]
        /\ ~open[p] => nonce[p] = 0 /\ commitment[p][p] = 0

TypeInv == TypeOK /\ Labels

\* Everything has its type at the start.
LEMMA TypeInit == Init => TypeInv
<1> SUFFICES ASSUME Init PROVE TypeInv
  OBVIOUS
<1>1. OutboxTypeOK(Messages)
  BY OutboxAssumption DEF Init, OutboxInit, OutboxTypeOK
<1>2. [p \in Participants |-> [q \in Participants |-> 0]] \in [Participants -> [Participants -> 0..MaxNonces]]
  BY SigningAssumption
<1>3. TypeOK
  BY <1>1, <1>2, SigningAssumption DEF Init, TypeOK
<1>4. Labels
  BY DEF Init, Labels
<1> QED  BY <1>3, <1>4 DEF TypeInv

\* A published message keeps the types of the outbox.
LEMMA PublishType ==
    ASSUME TypeOK, NEW p \in Participants, NEW m \in Messages, Publish(p, m)
    PROVE  /\ OutboxTypeOK(Messages)'
           /\ pc' \in [Participants -> {"idle", "pass", "end"}]
           /\ pc'[p] \in {pc[p], "idle"}
           /\ \A q \in Participants : q # p => pc'[q] = pc[q]
<1>1. /\ spent' \in [Participants -> Messages \cup {NoMessage}]
      /\ staged' \in [Participants -> Messages \cup {NoMessage}]
      /\ expired' \subseteq Messages
  BY DEF TypeOK, OutboxTypeOK, Publish, StagePublish
<1>2. CASE mempool' = mempool \cup ({m} \ mined) /\ UNCHANGED <<pc, lost, faults>>
  BY <1>1, <1>2 DEF TypeOK, OutboxTypeOK, Publish
<1>3. CASE Fault /\ lost' = lost \cup {m} /\ Goto(p, "idle") /\ UNCHANGED mempool
  <2>1. faults' \in 0..MaxFaults
    BY <1>3, OutboxAssumption DEF Fault, TypeOK, OutboxTypeOK
  <2> QED  BY <1>1, <1>3, <2>1 DEF TypeOK, OutboxTypeOK, Publish, Goto
<1> QED  BY <1>2, <1>3 DEF Publish

\* A row is offered nonces.
LEMMA OffersType ==
    ASSUME TypeOK, NEW p \in Participants, NEW q \in Participants
    PROVE  Offers(p, q) \subseteq 0..MaxNonces
<1>1. Announced(p) \subseteq Commitments
  BY DEF Announced, Visible, Messages, TypeOK, OutboxTypeOK
<1>2. Received(p) \subseteq Commitments
  BY DEF Received
<1> QED  BY <1>1, <1>2, SigningAssumption DEF Offers, Commitments, TypeOK

\* Every step keeps the types.
LEMMA TypeNext == TypeInv /\ [Next]_vars => TypeInv'
<1> SUFFICES ASSUME TypeInv, [Next]_vars PROVE TypeInv'
  OBVIOUS
<1> USE SigningAssumption, OutboxAssumption DEF TypeInv, TypeOK, OutboxTypeOK, Labels, Goto
<1>1. ASSUME NEW p \in Participants, Join(p) PROVE TypeInv'
  BY <1>1 DEF Join, outboxVars
<1>2. ASSUME NEW p \in Participants, Cancel(p) PROVE TypeInv'
  BY <1>2 DEF Cancel, Fault
<1>3. ASSUME NEW p \in Participants, BeginPass(p) PROVE TypeInv'
  <2>1. \A q \in Participants : Offers(p, q) \subseteq 0..MaxNonces
    BY OffersType
  <2>2. PICK row \in [Participants -> UNION {Offers(p, q) : q \in Participants}] :
            /\ \A q \in Participants : row[q] \in Offers(p, q)
            /\ commitment' = [commitment EXCEPT ![p] = row]
            /\ package' = [package EXCEPT ![p] = Assemble(p, row)]
            /\ knows' = [knows EXCEPT ![p] = @ \/ Visible(p, "address") # {}]
            /\ IF p = Coordinator
               THEN \E last \in [Members -> UNION {Answers(row, m) : m \in Members}] :
                        /\ \A m \in Members : last[m] \in Answers(row, m)
                        /\ answer' = last
               ELSE UNCHANGED answer
    BY <1>3 DEF BeginPass
  <2>3. row \in [Participants -> 0..MaxNonces]
    BY <2>1, <2>2
  <2>4. commitment' \in [Participants -> [Participants -> 0..MaxNonces]]
    BY <2>2, <2>3
  <2>5. package' \in [Participants -> SUBSET Commitments]
    <3>1. Assemble(p, row) \in SUBSET Commitments
      BY DEF Assemble, RowsOf
    <3> QED  BY <2>2, <3>1
  <2>6. answer' \in [Members -> Messages \cup {NoMessage}]
    <3>1. \A m \in Members : Answers(row, m) \subseteq Messages \cup {NoMessage}
      BY DEF Answers, Visible
    <3>2. CASE p = Coordinator
      <4>1. PICK last \in [Members -> UNION {Answers(row, m) : m \in Members}] :
                /\ \A m \in Members : last[m] \in Answers(row, m)
                /\ answer' = last
        BY <2>2, <3>2
      <4>2. last \in [Members -> Messages \cup {NoMessage}]
        BY <3>1, <4>1
      <4> QED  BY <4>1, <4>2
    <3>3. CASE p # Coordinator
      BY <2>2, <3>3
    <3> QED  BY <3>2, <3>3
  <2>7. knows' \in [Participants -> BOOLEAN]
    BY <2>2
  <2>8. /\ spent' \in [Participants -> Messages \cup {NoMessage}]
        /\ staged' \in [Participants -> Messages \cup {NoMessage}]
    BY <1>3 DEF BeginPass, ScanOwn
  <2>9. /\ pc' = [pc EXCEPT ![p] = "pass"] /\ open[p]
        /\ UNCHANGED <<paying, mempool, mined, expired, lost, faults>>
        /\ UNCHANGED <<open, accounts, nonce, share, transaction, over, drawn, restarted>>
    BY <1>3 DEF BeginPass
  <2>10. \A q \in Participants : q # p => commitment'[q] = commitment[q]
    BY <2>2
  <2>11. TypeOK'
    BY <2>4, <2>5, <2>6, <2>7, <2>8, <2>9
  <2>12. Labels'
    BY <2>9, <2>10
  <2> QED  BY <2>11, <2>12
<1>4. ASSUME NEW p \in Participants, EnsureMailbox(p) PROVE TypeInv'
  BY <1>4 DEF EnsureMailbox, outboxVars
<1>5. ASSUME NEW p \in Participants, Wait(p) \/ Unfunded(p) PROVE TypeInv'
  BY <1>5 DEF Wait, Unfunded, outboxVars, signVars
<1>6. ASSUME NEW p \in Participants, WaitOwnPublish(p) PROVE TypeInv'
  <2>1. staged[p] \in Messages
    BY <1>6, WaitPlan DEF WaitOwnPublish, Planned, Unmined
  <2>2. CASE GiveUp(p) /\ UNCHANGED <<mempool, pc>>
    BY <1>6, <2>2 DEF WaitOwnPublish, GiveUp, signVars
  <2>3. CASE Post(staged[p]) /\ Goto(p, "idle") /\ UNCHANGED <<spent, staged>>
    BY <1>6, <2>1, <2>3 DEF WaitOwnPublish, Post, signVars
  <2> QED  BY <1>6, <2>2, <2>3 DEF WaitOwnPublish
<1>7. ASSUME NEW p \in Participants, AnnounceCoordinator(p) PROVE TypeInv'
  <2>1. Address(p) \in Messages
    BY DEF Address, Messages, Kinds
  <2>2. /\ OutboxTypeOK(Messages)'
        /\ pc' \in [Participants -> {"idle", "pass", "end"}]
        /\ pc'[p] \in {pc[p], "idle"}
        /\ \A q \in Participants : q # p => pc'[q] = pc[q]
    BY <1>7, <2>1, PublishType DEF AnnounceCoordinator
  <2> QED  BY <1>7, <2>2 DEF AnnounceCoordinator
<1>8. ASSUME NEW p \in Participants, SendCommitments(p) PROVE TypeInv'
  <2>1. drawn[p] + 1 \in 1..MaxNonces /\ open[p]
    BY <1>8 DEF SendCommitments, Planned
  <2>2. /\ OutboxTypeOK(Messages)'
        /\ pc' \in [Participants -> {"idle", "pass", "end"}]
        /\ pc'[p] \in {pc[p], "idle"}
        /\ \A q \in Participants : q # p => pc'[q] = pc[q]
    <3>1. CASE p = Coordinator
      BY <1>8, <3>1 DEF SendCommitments, outboxVars
    <3>2. CASE p # Coordinator
      <4>1. Commit(p, drawn[p] + 1) \in Messages
        BY <2>1 DEF Commit, Messages, Kinds
      <4> QED  BY <1>8, <3>2, <4>1, PublishType DEF SendCommitments
    <3> QED  BY <3>1, <3>2
  <2>3. /\ drawn' \in [Participants -> 0..MaxNonces]
        /\ nonce' \in [Participants -> 0..MaxNonces]
        /\ commitment' \in [Participants -> [Participants -> 0..MaxNonces]]
    BY <1>8, <2>1 DEF SendCommitments
  <2>4. /\ UNCHANGED <<open, accounts, knows, package, share, answer, transaction, over, restarted>>
        /\ \A q \in Participants : q # p => nonce'[q] = nonce[q] /\ commitment'[q] = commitment[q]
    BY <1>8 DEF SendCommitments
  <2> QED  BY <2>1, <2>2, <2>3, <2>4
<1>9. ASSUME NEW p \in Participants, MakeSigpackages(p) PROVE TypeInv'
  <2>1. RowsOf(commitment[p]) \in SUBSET Commitments
    BY DEF RowsOf
  <2>2. Parts(p, RowsOf(commitment[p])) \in Messages
    BY <2>1 DEF Parts, Messages, Kinds
  <2>3. /\ OutboxTypeOK(Messages)'
        /\ pc' \in [Participants -> {"idle", "pass", "end"}]
        /\ pc'[p] \in {pc[p], "idle"}
        /\ \A q \in Participants : q # p => pc'[q] = pc[q]
    BY <1>9, <2>2, PublishType DEF MakeSigpackages
  <2>4. package' \in [Participants -> SUBSET Commitments]
    BY <1>9, <2>1 DEF MakeSigpackages
  <2> QED  BY <1>9, <2>3, <2>4 DEF MakeSigpackages
<1>10. ASSUME NEW p \in Participants, SendSigshares(p) PROVE TypeInv'
  <2>1. Share(p) \in Messages
    BY DEF Share, Messages, Kinds
  <2>2. /\ OutboxTypeOK(Messages)'
        /\ pc' \in [Participants -> {"idle", "pass", "end"}]
        /\ pc'[p] \in {pc[p], "idle"}
        /\ \A q \in Participants : q # p => pc'[q] = pc[q]
    <3>1. CASE UNCHANGED <<outboxVars, pc>>
      BY <3>1 DEF outboxVars
    <3>2. CASE Publish(p, Share(p))
      BY <2>1, <3>2, PublishType
    <3>3. CASE Goto(p, "idle") /\ UNCHANGED outboxVars
      BY <3>3 DEF outboxVars
    <3> QED  BY <1>10, <3>1, <3>2, <3>3 DEF SendSigshares
  <2>3. share' \in [Participants -> BOOLEAN]
    BY <1>10 DEF SendSigshares
  <2> QED  BY <1>10, <2>2, <2>3 DEF SendSigshares
<1>11. ASSUME NEW p \in Participants, Aggregate(p) PROVE TypeInv'
  BY <1>11 DEF Aggregate, Planned, outboxVars
<1>12. ASSUME NEW p \in Participants, EndSession(p) PROVE TypeInv'
  BY <1>12 DEF EndSession, Planned, outboxVars, signVars
<1>13. ASSUME NEW p \in Participants, DeleteState(p) PROVE TypeInv'
  <2>0. [q \in Participants |-> 0] \in [Participants -> 0..MaxNonces]
    OBVIOUS
  <2>1. /\ nonce' = [nonce EXCEPT ![p] = 0]
        /\ package' = [package EXCEPT ![p] = {}]
        /\ share' = [share EXCEPT ![p] = FALSE]
        /\ pc' = [pc EXCEPT ![p] = "idle"]
        /\ UNCHANGED <<spent, paying, mempool, mined, expired, lost, transaction, over, drawn>>
    BY <1>13 DEF DeleteState, DeleteSignatures
  <2>2. CASE DeleteCommitments(p) /\ DeleteProps(p) /\ UNCHANGED <<faults, restarted>>
    BY <2>0, <2>1, <2>2 DEF DeleteCommitments, DeleteProps, Forget
  <2>3. CASE /\ Fault
             /\ DeleteCommitments(p) \/ UNCHANGED <<commitment, answer>>
             /\ restarted' = restarted \cup {p}
             /\ UNCHANGED <<staged, open, knows, accounts>>
    <3>1. /\ commitment' \in [Participants -> [Participants -> 0..MaxNonces]]
          /\ answer' \in [Members -> Messages \cup {NoMessage}]
          /\ \A q \in Participants : commitment'[q][q] \in {commitment[q][q], 0}
      <4>1. CASE UNCHANGED <<commitment, answer>>
        BY <4>1
      <4>2. CASE DeleteCommitments(p)
        <5>1. /\ commitment' = [commitment EXCEPT ![p] = [q \in Participants |-> 0]]
              /\ answer' \in {[m \in Members |-> NoMessage], answer}
          BY <4>2 DEF DeleteCommitments
        <5>2. commitment' \in [Participants -> [Participants -> 0..MaxNonces]]
          BY <2>0, <5>1
        <5>3. \A q \in Participants : commitment'[q][q] \in {commitment[q][q], 0}
          BY <5>1
        <5> QED  BY <5>1, <5>2, <5>3
      <4> QED  BY <2>3, <4>1, <4>2
    <3>2. faults' \in 0..MaxFaults
      <4>1. faults \in 0..MaxFaults /\ faults < MaxFaults /\ faults' = faults + 1
        BY <2>3 DEF Fault
      <4> QED  BY <4>1
    <3>3. TypeOK'
      <4>1. /\ nonce' \in [Participants -> 0..MaxNonces]
            /\ package' \in [Participants -> SUBSET Commitments]
            /\ share' \in [Participants -> BOOLEAN]
            /\ pc' \in [Participants -> {"idle", "pass", "end"}]
        BY <2>1
      <4>2. restarted' \subseteq Participants /\ UNCHANGED <<staged, open, knows, accounts>>
        BY <2>3
      <4> QED  BY <2>1, <3>1, <3>2, <4>1, <4>2
    <3>4. \A q \in Participants : pc'[q] \in {pc[q], "idle"} /\ nonce'[q] \in {nonce[q], 0}
      BY <2>1
    <3>5. Labels'
      BY <2>3, <3>1, <3>4
    <3> QED  BY <3>3, <3>5
  <2> QED  BY <1>13, <2>2, <2>3 DEF DeleteState
<1>14. ASSUME NEW p \in Participants, Crash(p) PROVE TypeInv'
  BY <1>14 DEF Crash, Fault, signVars
<1>15. CASE Recorded \/ PassExpiry
  BY <1>15 DEF Recorded, PassExpiry, outboxVars
<1>16. ASSUME OutboxNext, UNCHANGED <<pc, signVars>> PROVE TypeInv'
  <2>1. ASSUME NEW m \in mempool \cup {staged[p] : p \in Participants}, Mine(m) PROVE TypeInv'
    BY <1>16, <2>1 DEF Mine, signVars
  <2>2. ASSUME NEW m \in mempool \cup {staged[p] : p \in Participants}, Drop(m) PROVE TypeInv'
    BY <1>16, <2>2 DEF Drop, Fault, signVars
  <2>3. ASSUME NEW m \in mempool \cup {staged[p] : p \in Participants}, Expire(m) PROVE TypeInv'
    BY <1>16, <2>3 DEF Expire, Fault, signVars
  <2>4. ASSUME NEW p \in Participants, UserPays(p) \/ PaymentMined(p) PROVE TypeInv'
    <3>1. paying' \in [Participants -> BOOLEAN]
      BY <2>4, Zenon DEF UserPays, PaymentMined
    <3>2. faults' \in 0..MaxFaults
      BY <2>4 DEF UserPays, PaymentMined, Fault
    <3>3. UNCHANGED <<spent, staged, mempool, mined, expired, lost>>
      BY <2>4 DEF UserPays, PaymentMined
    <3> QED  BY <1>16, <3>1, <3>2, <3>3 DEF signVars
  <2> QED  BY <1>16, <2>1, <2>2, <2>3, <2>4 DEF OutboxNext
<1>17. CASE UNCHANGED vars
  BY <1>17 DEF vars, outboxVars, signVars
<1> QED
  BY <1>1, <1>2, <1>3, <1>4, <1>5, <1>6, <1>7, <1>8, <1>9, <1>10, <1>11, <1>12, <1>13,
     <1>14, <1>15, <1>16, <1>17 DEF Next, DriverStep

\* Type correctness: every variable of the signing session keeps its type, for
\* any group, threshold, number of restarts and faults.
THEOREM SigningTypes == Spec => []TypeOK
<1>1. TypeInv => TypeOK
  BY DEF TypeInv
<1> QED  BY <1>1, TypeInit, TypeNext, PTL DEF Spec

-----------------------------------------------------------------------------
\* One message of a kind.

\* A participant that does not start again draws one nonce, and it is the one
\* of its row and of every commitment that others have.
Drawn ==
    \A p \in Participants \ restarted :
        /\ drawn[p] \in {0, 1}
        /\ open[p] => nonce[p] = drawn[p] /\ commitment[p][p] = drawn[p]
        /\ \A q \in Participants : commitment[q][p] \in {0, drawn[p]}

\* A commitment to the nonce its signer drew.
Genuine(c) == c.signer \notin restarted => c.nonce = drawn[c.signer]

Packaged ==
    /\ \A q \in Participants : \A c \in package[q] : Genuine(c)
    /\ \A m \in Published : \A c \in m.package : Genuine(c)

\* A message is the one that its sender's rows tell of: what it says is stored
\* and is not stored twice.
Told(m) ==
    m.from \notin restarted =>
        /\ m.kind = "address" => m = Address(m.from)
        /\ m.kind = "commit" => m = Commit(m.from, 1)
        /\ m.kind = "parts" => m = Parts(m.from, m.package)
        /\ m.kind = "share" => m.nonce = 1
        /\ m.kind # "address" => drawn[m.from] = 1
        /\ m.kind \in {"parts", "share"} =>
               m.package # {} /\ (open[m.from] => package[m.from] = m.package)
        /\ m.kind = "share" /\ open[m.from] => share[m.from]

NonceInv ==
    /\ Drawn
    /\ Packaged
    /\ \A m \in Published : Told(m)
    /\ OneMessageEach

\* No nonce is committed to at the start.
LEMMA NonceInit == Init => NonceInv
<1> SUFFICES ASSUME Init PROVE NonceInv
  OBVIOUS
<1>1. Published = {}
  BY DEF Init, OutboxInit, Published
<1>2. Drawn
  BY DEF Init, Drawn
<1>3. Packaged
  BY <1>1 DEF Init, Packaged
<1> QED  BY <1>1, <1>2, <1>3 DEF NonceInv, OneMessageEach

\* What a member has published are messages.
LEMMA PublishedType == TypeOK => Published \subseteq Messages
BY DEF TypeOK, OutboxTypeOK, Published

\* Steps that draw nothing and keep the rows that messages tell of, or close
\* the session, keep all of it: they say only what is told and not said yet.
LEMMA NonceStable ==
    ASSUME TypeOK, NonceInv,
           UNCHANGED drawn,
           restarted \subseteq restarted',
           NEW News, Published' \subseteq Published \cup News,
           \A m \in News :
               /\ Told(m)'
               /\ \A c \in m.package : Genuine(c)
               /\ \A o \in Published \cup News :
                      o.from = m.from /\ o.kind = m.kind /\ m.from \notin restarted => o = m,
           \A p \in Participants \ restarted' :
               /\ open'[p] => /\ nonce'[p] = drawn[p] /\ commitment'[p][p] = drawn[p]
                              /\ drawn[p] # 0 => open[p]
                              /\ open[p] /\ share[p] => share'[p]
                              /\ open[p] /\ package[p] # {} => package'[p] = package[p]
               /\ \A q \in Participants : commitment'[q][p] \in {0, drawn[p]},
           \A q \in Participants : \A c \in package'[q] : Genuine(c)
    PROVE  NonceInv'
<1>1. Drawn'
  BY DEF Drawn, NonceInv
<1>2. Packaged'
  <2>1. \A c : Genuine(c) => Genuine(c)'
    BY DEF Genuine
  <2> QED  BY <2>1 DEF Packaged, NonceInv
<1>3. ASSUME NEW m \in Published' PROVE Told(m)'
  <2> SUFFICES ASSUME m.from \notin restarted', m \notin News PROVE Told(m)'
    BY DEF Told
  <2>1. m \in Published /\ m \in Messages /\ m.from \in Participants \ restarted' /\ m.from \notin restarted
    BY PublishedType DEF Messages
  <2>2. Told(m)
    BY <2>1 DEF NonceInv
  <2>3. m.kind # "address" => drawn[m.from] = 1 /\ (open'[m.from] => open[m.from])
    BY <2>1, <2>2 DEF Told
  <2> QED  BY <2>1, <2>2, <2>3 DEF Told, Address, Commit, Parts
<1>4. OneMessageEach'
  <2> SUFFICES ASSUME NEW m \in Published', NEW o \in Published',
                      m.from = o.from, m.kind = o.kind, m.from \notin restarted'
               PROVE  m = o
    BY DEF OneMessageEach
  <2>1. m.from \notin restarted
    OBVIOUS
  <2>2. CASE m \in News \/ o \in News
    BY <2>1, <2>2
  <2>3. CASE m \in Published /\ o \in Published
    BY <2>1, <2>3 DEF NonceInv, OneMessageEach
  <2> QED  BY <2>2, <2>3
<1> QED  BY <1>1, <1>2, <1>3, <1>4 DEF NonceInv

\* The same of a step that says nothing.
LEMMA NonceQuiet ==
    ASSUME TypeOK, NonceInv,
           UNCHANGED drawn,
           restarted \subseteq restarted',
           Published' \subseteq Published,
           \A p \in Participants \ restarted' :
               /\ open'[p] => /\ nonce'[p] = drawn[p] /\ commitment'[p][p] = drawn[p]
                              /\ drawn[p] # 0 => open[p]
                              /\ open[p] /\ share[p] => share'[p]
                              /\ open[p] /\ package[p] # {} => package'[p] = package[p]
               /\ \A q \in Participants : commitment'[q][p] \in {0, drawn[p]},
           \A q \in Participants : \A c \in package'[q] : Genuine(c)
    PROVE  NonceInv'
<1>1. PICK News : News = {}
  OBVIOUS
<1>2. Published' \subseteq Published \cup News
  OBVIOUS
<1>3. \A m \in News :
          /\ Told(m)'
          /\ \A c \in m.package : Genuine(c)
          /\ \A o \in Published \cup News :
                 o.from = m.from /\ o.kind = m.kind /\ m.from \notin restarted => o = m
  BY <1>1
<1> QED  BY <1>2, <1>3, NonceStable

\* The node, the chain, a scan and a resend say nothing new.
LEMMA OutboxNews == OutboxNext => Published' \subseteq Published
BY DEF OutboxNext, Mine, Drop, Expire, UserPays, PaymentMined, Published

\* A wait on the own message publishes nothing new.
LEMMA WaitNews ==
    ASSUME TypeOK, NEW p \in Participants, WaitOwnPublish(p)
    PROVE  Published' \subseteq Published
<1>1. staged[p] # NoMessage
  BY WaitPlan DEF WaitOwnPublish, Planned, Unmined
<1>2. \A q \in Participants : staged'[q] \in {staged[q], NoMessage}
  BY DEF WaitOwnPublish, GiveUp, TypeOK, OutboxTypeOK
<1>3. mempool' \subseteq mempool \cup {staged[p]} /\ UNCHANGED <<mined, expired, lost>>
  BY DEF WaitOwnPublish, Post
<1> QED  BY <1>1, <1>2, <1>3 DEF Published

\* A pass publishes the one message it was asked to.
LEMMA PublishNews ==
    ASSUME TypeOK, NEW p \in Participants, NEW m, Publish(p, m)
    PROVE  Published' \subseteq Published \cup {m}
BY DEF Publish, StagePublish, Published, TypeOK, OutboxTypeOK

\* The commitments of a participant's rows are genuine.
LEMMA RowsGenuine ==
    ASSUME Drawn, NEW row,
           \A q \in Participants \ restarted : row[q] \in {0, drawn[q]}
    PROVE  \A c \in RowsOf(row) : Genuine(c)
<1> SUFFICES ASSUME NEW c \in Commitments, row[c.signer] = c.nonce, c.signer \notin restarted
             PROVE  c.nonce = drawn[c.signer]
  BY DEF RowsOf, Genuine
<1>1. c.signer \in Participants \ restarted /\ c.nonce \in 1..MaxNonces
  BY DEF Commitments
<1> QED  BY <1>1

\* Every step keeps what the nonces are bound to.
LEMMA NonceNext == TypeInv /\ NonceInv /\ [Next]_vars => NonceInv'
<1> SUFFICES ASSUME TypeInv, NonceInv, [Next]_vars PROVE NonceInv'
  OBVIOUS
<1>0. /\ TypeOK /\ OutboxTypeOK(Messages) /\ Labels
      /\ Drawn /\ Packaged /\ OneMessageEach
      /\ \A m \in Published : Told(m)
  BY DEF TypeInv, TypeOK, NonceInv
<1>p. \A q \in Participants : \A c \in package[q] : Genuine(c)
  BY <1>0 DEF Packaged
<1>s. ASSUME UNCHANGED <<nonce, commitment, package, share, drawn, open>>,
             restarted \subseteq restarted', Published' \subseteq Published
      PROVE  NonceInv'
  <2>1. \A p \in Participants \ restarted' :
           /\ open'[p] => /\ nonce'[p] = drawn[p] /\ commitment'[p][p] = drawn[p]
                          /\ drawn[p] # 0 => open[p]
                          /\ open[p] /\ share[p] => share'[p]
                          /\ open[p] /\ package[p] # {} => package'[p] = package[p]
           /\ \A q \in Participants : commitment'[q][p] \in {0, drawn[p]}
    BY <1>0, <1>s DEF Drawn
  <2> QED  BY <1>0, <1>s, <1>p, <2>1, NonceQuiet
<1>1. ASSUME NEW p \in Participants, Join(p) PROVE NonceInv'
  <2>1. /\ UNCHANGED <<nonce, commitment, package, share, drawn>>
        /\ open' = [open EXCEPT ![p] = TRUE] /\ ~open[p]
        /\ restarted' = IF drawn[p] > 0 THEN restarted \cup {p} ELSE restarted
    BY <1>1 DEF Join
  <2>2. Published' \subseteq Published
    BY <1>1 DEF Join, outboxVars, Published
  <2>3. ASSUME NEW q \in Participants \ restarted'
        PROVE  /\ open'[q] => /\ nonce'[q] = drawn[q] /\ commitment'[q][q] = drawn[q]
                              /\ drawn[q] # 0 => open[q]
                              /\ open[q] /\ share[q] => share'[q]
                              /\ open[q] /\ package[q] # {} => package'[q] = package[q]
               /\ \A i \in Participants : commitment'[i][q] \in {0, drawn[q]}
    <3>1. q \in Participants \ restarted
      BY <2>1
    <3>2. CASE q # p
      BY <1>0, <2>1, <3>1, <3>2 DEF Drawn, TypeOK
    <3>3. CASE q = p
      <4>1. drawn[p] = 0
        BY <1>0, <2>1, <3>3 DEF Drawn, TypeOK
      <4> QED  BY <1>0, <2>1, <3>1, <3>3, <4>1 DEF Drawn, Labels
    <3> QED  BY <3>2, <3>3
  <2>4. restarted \subseteq restarted'
    BY <2>1
  <2> QED  BY <1>0, <1>p, <2>1, <2>2, <2>3, <2>4, NonceQuiet
<1>2. ASSUME NEW p \in Participants, Cancel(p) PROVE NonceInv'
  BY <1>s, <1>2 DEF Cancel, Published
<1>3. ASSUME NEW p \in Participants, BeginPass(p) PROVE NonceInv'
  <2>1. PICK row \in [Participants -> UNION {Offers(p, q) : q \in Participants}] :
            /\ \A q \in Participants : row[q] \in Offers(p, q)
            /\ commitment' = [commitment EXCEPT ![p] = row]
            /\ package' = [package EXCEPT ![p] = Assemble(p, row)]
    BY <1>3 DEF BeginPass
  <2>2. /\ open[p] /\ UNCHANGED <<open, nonce, share, drawn, restarted, mempool, mined, expired, lost>>
        /\ Published' \subseteq Published
    <3>1. \A q \in Participants : staged'[q] \in {staged[q], NoMessage}
      BY <1>0, <1>3 DEF BeginPass, ScanOwn, OutboxTypeOK
    <3> QED  BY <1>3, <3>1 DEF BeginPass, Published
  <2>3. mined \subseteq Published /\ mined \subseteq Messages
    BY <1>0 DEF Published, OutboxTypeOK
  <2>4. ASSUME NEW q \in Participants \ restarted PROVE Offers(p, q) \subseteq {0, drawn[q]}
    <3>1. ASSUME NEW c \in Received(p), c.signer = q PROVE c.nonce = drawn[q]
      <4>1. Commit(q, c.nonce) \in Published
        BY <2>3, <3>1 DEF Received, Visible
      <4>2. Told(Commit(q, c.nonce))
        BY <1>0, <4>1
      <4> QED  BY <4>2 DEF Told, Commit
    <3>2. ASSUME NEW c \in Announced(p), c.signer = q PROVE c.nonce = drawn[q]
      BY <1>0, <2>3, <3>2 DEF Announced, Visible, Packaged, Genuine
    <3>3. commitment[p][q] \in {0, drawn[q]}
      BY <1>0 DEF Drawn
    <3> QED  BY <3>1, <3>2, <3>3 DEF Offers
  <2>5. \A q \in Participants \ restarted : row[q] \in {0, drawn[q]}
    BY <2>1, <2>4
  <2>6. \A c \in Assemble(p, row) : Genuine(c)
    BY <1>0, <1>p, <2>5, RowsGenuine DEF Assemble
  <2>7. \A q \in Participants : \A c \in package'[q] : Genuine(c)
    BY <1>0, <1>p, <2>1, <2>6 DEF TypeOK
  <2>8. p \notin restarted => row[p] = drawn[p]
    <3>1. SUFFICES ASSUME p \notin restarted PROVE row[p] = drawn[p]
      OBVIOUS
    <3>2. commitment[p][p] = drawn[p]
      BY <1>0, <2>2, <3>1 DEF Drawn
    <3>3. CASE commitment[p][p] # 0
      BY <2>1, <3>2, <3>3 DEF Offers
    <3>4. CASE commitment[p][p] = 0
      BY <2>5, <3>1, <3>2, <3>4
    <3> QED  BY <3>3, <3>4
  <2>9. ASSUME NEW q \in Participants \ restarted'
        PROVE  /\ open'[q] => /\ nonce'[q] = drawn[q] /\ commitment'[q][q] = drawn[q]
                              /\ drawn[q] # 0 => open[q]
                              /\ open[q] /\ share[q] => share'[q]
                              /\ open[q] /\ package[q] # {} => package'[q] = package[q]
               /\ \A i \in Participants : commitment'[i][q] \in {0, drawn[q]}
    <3>1. q \in Participants \ restarted
      BY <2>2
    <3>2. \A i \in Participants : commitment'[i] = IF i = p THEN row ELSE commitment[i]
      BY <1>0, <2>1 DEF TypeOK
    <3>3. package[q] # {} => package'[q] = package[q]
      BY <1>0, <2>1 DEF Assemble, TypeOK
    <3>4. /\ open[q] => nonce[q] = drawn[q] /\ commitment[q][q] = drawn[q]
          /\ \A i \in Participants : commitment[i][q] \in {0, drawn[q]}
      BY <1>0, <3>1 DEF Drawn
    <3>5. open[q] => commitment'[q][q] = drawn[q]
      BY <2>8, <3>1, <3>2, <3>4
    <3>6. \A i \in Participants : commitment'[i][q] \in {0, drawn[q]}
      BY <2>5, <3>1, <3>2, <3>4
    <3> QED  BY <2>2, <3>3, <3>4, <3>5, <3>6
  <2> QED  BY <1>0, <2>2, <2>7, <2>9, NonceQuiet
<1>4. ASSUME NEW p \in Participants, EnsureMailbox(p) PROVE NonceInv'
  BY <1>s, <1>4 DEF EnsureMailbox, outboxVars, Published
<1>5. ASSUME NEW p \in Participants, Wait(p) \/ Unfunded(p) PROVE NonceInv'
  BY <1>s, <1>5 DEF Wait, Unfunded, outboxVars, signVars, Published
<1>6. ASSUME NEW p \in Participants, WaitOwnPublish(p) PROVE NonceInv'
  BY <1>0, <1>s, <1>6, WaitNews DEF WaitOwnPublish, signVars
<1>7. ASSUME NEW p \in Participants, AnnounceCoordinator(p) PROVE NonceInv'
  <2>1. Published' \subseteq Published \cup {Address(p)}
    BY <1>0, <1>7, PublishNews DEF AnnounceCoordinator
  <2>2. UNCHANGED <<nonce, commitment, package, share, drawn, open, restarted>>
    BY <1>7 DEF AnnounceCoordinator
  <2>3. Told(Address(p))'
    BY DEF Told, Address
  <2>4. \A o \in Published :
            o.from = Address(p).from /\ o.kind = Address(p).kind /\ p \notin restarted => o = Address(p)
    BY <1>0 DEF Told, Address
  <2>5. \A m \in {Address(p)} :
            /\ Told(m)'
            /\ \A c \in m.package : Genuine(c)
            /\ \A o \in Published \cup {Address(p)} :
                   o.from = m.from /\ o.kind = m.kind /\ m.from \notin restarted => o = m
    BY <2>3, <2>4 DEF Address
  <2>6. \A q \in Participants \ restarted' :
            /\ open'[q] => /\ nonce'[q] = drawn[q] /\ commitment'[q][q] = drawn[q]
                           /\ drawn[q] # 0 => open[q]
                           /\ open[q] /\ share[q] => share'[q]
                           /\ open[q] /\ package[q] # {} => package'[q] = package[q]
            /\ \A i \in Participants : commitment'[i][q] \in {0, drawn[q]}
    BY <1>0, <2>2 DEF Drawn
  <2> QED  BY <1>0, <1>p, <2>1, <2>2, <2>5, <2>6, NonceStable
<1>8. ASSUME NEW p \in Participants, SendCommitments(p) PROVE NonceInv'
  <2> DEFINE n == drawn[p] + 1
  <2>1. /\ commitment[p][p] = 0 /\ open[p]
        /\ drawn' = [drawn EXCEPT ![p] = n]
        /\ nonce' = [nonce EXCEPT ![p] = n]
        /\ commitment' = [commitment EXCEPT ![p][p] = n]
        /\ UNCHANGED <<open, package, share, restarted>>
    BY <1>0, <1>8, CommitPlan DEF SendCommitments, Planned, Labels
  <2>2. p \notin restarted => drawn[p] = 0 /\ n = 1
    BY <1>0, <2>1 DEF Drawn
  <2>3. Published' \subseteq Published \cup {Commit(p, n)}
    <3>1. CASE p = Coordinator
      BY <1>8, <3>1 DEF SendCommitments, outboxVars, Published
    <3>2. CASE p # Coordinator
      BY <1>0, <1>8, <3>2, PublishNews DEF SendCommitments
    <3> QED  BY <3>1, <3>2
  <2>4. \A q \in Participants : /\ drawn'[q] = IF q = p THEN n ELSE drawn[q]
                                /\ nonce'[q] = IF q = p THEN n ELSE nonce[q]
    BY <1>0, <2>1 DEF TypeOK
  <2>5. \A i, q \in Participants :
            commitment'[i][q] = IF i = p /\ q = p THEN n ELSE commitment[i][q]
    BY <1>0, <2>1 DEF TypeOK
  <2>6. ASSUME NEW m \in Published, m.from \notin restarted
        PROVE  /\ Told(m)'
               /\ m.from = p => m.kind = "address"
    <3>1. Told(m) /\ m.from \in Participants
      BY <1>0, PublishedType DEF Messages
    <3>2. m.from = p => m.kind = "address"
      BY <2>2, <2>6, <3>1 DEF Told
    <3>3. CASE m.from = p
      BY <2>1, <3>1, <3>2, <3>3 DEF Told, Address
    <3>4. CASE m.from # p
      BY <2>1, <2>4, <3>1, <3>4 DEF Told, Address, Commit, Parts
    <3> QED  BY <3>2, <3>3, <3>4
  <2>7. \A m : m = Commit(p, n) => Told(m)'
    <3>1. PICK msg : msg = Commit(p, n)
      OBVIOUS
    <3>2. Told(msg)'
      BY <2>1, <2>2, <2>4, <3>1 DEF Told, Commit
    <3> QED  BY <3>1, <3>2
  <2>8. ASSUME NEW c \in Commitments, Genuine(c) PROVE Genuine(c)'
    <3>1. c.signer \in Participants /\ c.nonce \in 1..MaxNonces
      BY DEF Commitments
    <3>2. CASE c.signer = p /\ p \notin restarted
      BY <2>2, <2>8, <3>1, <3>2 DEF Genuine
    <3>3. CASE c.signer # p
      BY <2>1, <2>4, <2>8, <3>1, <3>3 DEF Genuine
    <3>4. CASE p \in restarted /\ c.signer = p
      BY <2>1, <3>4 DEF Genuine
    <3> QED  BY <3>2, <3>3, <3>4
  <2>9. Packaged'
    <3>1. ASSUME NEW q \in Participants, NEW c \in package[q] PROVE Genuine(c)'
      <4>1. c \in Commitments
        BY <1>0 DEF TypeOK
      <4> QED  BY <1>p, <2>8, <4>1
    <3>2. ASSUME NEW m \in Published', NEW c \in m.package PROVE Genuine(c)'
      <4>1. m \in Published
        BY <2>3, <3>2 DEF Commit
      <4>2. c \in Commitments
        BY <1>0, <4>1, PublishedType DEF Messages
      <4> QED  BY <1>0, <2>8, <4>1, <4>2 DEF Packaged
    <3> QED  BY <2>1, <3>1, <3>2 DEF Packaged
  <2>10. Drawn'
    <3> SUFFICES ASSUME NEW q \in Participants \ restarted
                 PROVE  /\ drawn'[q] \in {0, 1}
                        /\ open[q] => nonce'[q] = drawn'[q] /\ commitment'[q][q] = drawn'[q]
                        /\ \A i \in Participants : commitment'[i][q] \in {0, drawn'[q]}
      BY <2>1 DEF Drawn
    <3>1. CASE q = p
      BY <1>0, <2>2, <2>4, <2>5, <3>1 DEF Drawn
    <3>2. CASE q # p
      BY <1>0, <2>4, <2>5, <3>2 DEF Drawn
    <3> QED  BY <3>1, <3>2
  <2>11. \A m \in Published' : Told(m)'
    <3>1. \A m : m.from \in restarted => Told(m)'
      BY <2>1 DEF Told
    <3>2. ASSUME NEW m \in Published', m.from \notin restarted PROVE Told(m)'
      <4>1. CASE m = Commit(p, n)
        BY <2>7, <4>1
      <4>2. CASE m \in Published
        BY <2>6, <3>2, <4>2
      <4> QED  BY <2>3, <4>1, <4>2
    <3> QED  BY <3>1, <3>2
  <2>12. OneMessageEach'
    <3> SUFFICES ASSUME NEW m \in Published', NEW o \in Published',
                        m.from = o.from, m.kind = o.kind, m.from \notin restarted
                 PROVE  m = o
      BY <2>1 DEF OneMessageEach
    <3>1. Commit(p, n).from = p /\ Commit(p, n).kind = "commit"
      BY DEF Commit
    <3>2. CASE m \in Published /\ o \in Published
      BY <1>0, <3>2 DEF OneMessageEach
    <3>3. CASE m = Commit(p, n) \/ o = Commit(p, n)
      <4> HIDE DEF n
      <4> QED  BY <2>3, <2>6, <3>1, <3>3
    <3> QED  BY <2>3, <3>2, <3>3
  <2> QED  BY <2>9, <2>10, <2>11, <2>12 DEF NonceInv
<1>9. ASSUME NEW p \in Participants, MakeSigpackages(p) PROVE NonceInv'
  <2> DEFINE made == RowsOf(commitment[p])
  <2>1. commitment[p][p] # 0 /\ package[p] = {} /\ open[p]
    BY <1>0, <1>9, PackagePlan DEF MakeSigpackages, Planned, Labels
  <2>2. /\ Published' \subseteq Published \cup {Parts(p, made)}
        /\ package' = [package EXCEPT ![p] = IF nonce[p] # 0 THEN made ELSE {}]
        /\ UNCHANGED <<open, nonce, share, commitment, drawn, restarted>>
    BY <1>0, <1>9, PublishNews DEF MakeSigpackages
  <2>3. \A c \in made : Genuine(c)
    BY <1>0, RowsGenuine DEF Drawn
  <2>4. made # {}
    <3>1. commitment[p][p] \in 1..MaxNonces
      BY <1>0, <2>1, SigningAssumption DEF TypeOK
    <3>2. [signer |-> p, nonce |-> commitment[p][p]] \in made
      BY <3>1 DEF RowsOf, Commitments
    <3> QED  BY <3>2
  <2>5. p \notin restarted => nonce[p] # 0 /\ drawn[p] = 1
    BY <1>0, <2>1 DEF Drawn
  <2> HIDE DEF made
  <2>6. \A q \in Participants : package'[q] = IF q = p THEN (IF nonce[p] # 0 THEN made ELSE {})
                                                       ELSE package[q]
    BY <1>0, <2>2 DEF TypeOK
  <2>m. PICK msg : msg = Parts(p, made)
    OBVIOUS
  <2>s. msg.from = p /\ msg.kind = "parts" /\ msg.package = made /\ msg = Parts(msg.from, msg.package)
    BY <2>m DEF Parts
  <2>7. Told(msg)'
    BY <2>2, <2>4, <2>5, <2>6, <2>s DEF Told, Parts
  <2>8. ASSUME NEW o \in Published, o.from = p, o.kind = "parts", p \notin restarted PROVE FALSE
    <3>1. Told(o)
      BY <1>0
    <3> QED  BY <2>1, <2>8, <3>1 DEF Told
  <2>9. \A m \in {msg} :
            /\ Told(m)'
            /\ \A c \in m.package : Genuine(c)
            /\ \A o \in Published \cup {msg} :
                   o.from = m.from /\ o.kind = m.kind /\ m.from \notin restarted => o = m
    BY <2>3, <2>7, <2>8, <2>s
  <2>10. \A q \in Participants \ restarted' :
            /\ open'[q] => /\ nonce'[q] = drawn[q] /\ commitment'[q][q] = drawn[q]
                           /\ drawn[q] # 0 => open[q]
                           /\ open[q] /\ share[q] => share'[q]
                           /\ open[q] /\ package[q] # {} => package'[q] = package[q]
            /\ \A i \in Participants : commitment'[i][q] \in {0, drawn[q]}
    BY <1>0, <2>1, <2>2, <2>6 DEF Drawn
  <2>11. \A q \in Participants : \A c \in package'[q] : Genuine(c)
    BY <1>p, <2>3, <2>6
  <2> QED  BY <1>0, <2>2, <2>m, <2>9, <2>10, <2>11, NonceStable
<1>10. ASSUME NEW p \in Participants, SendSigshares(p) PROVE NonceInv'
  <2>1. commitment[p][p] # 0 /\ ~share[p] /\ open[p]
    BY <1>0, <1>10, SharePlan DEF SendSigshares, Planned, Labels
  <2>2. /\ UNCHANGED <<open, nonce, package, commitment, drawn, restarted>>
        /\ \A q \in Participants : share[q] => share'[q]
    BY <1>0, <1>10 DEF SendSigshares, TypeOK
  <2>3. \A q \in Participants \ restarted' :
            /\ open'[q] => /\ nonce'[q] = drawn[q] /\ commitment'[q][q] = drawn[q]
                           /\ drawn[q] # 0 => open[q]
                           /\ open[q] /\ share[q] => share'[q]
                           /\ open[q] /\ package[q] # {} => package'[q] = package[q]
            /\ \A i \in Participants : commitment'[i][q] \in {0, drawn[q]}
    BY <1>0, <2>2 DEF Drawn
  <2>4. CASE UNCHANGED outboxVars
    <3>1. Published' \subseteq Published
      BY <2>4 DEF outboxVars, Published
    <3> QED  BY <1>0, <1>p, <2>2, <2>3, <3>1, NonceQuiet
  <2>5. CASE /\ Publish(p, Share(p))
             /\ [signer |-> p, nonce |-> nonce[p]] \in package[p]
             /\ share' = [share EXCEPT ![p] = TRUE]
    <3>1. Published' \subseteq Published \cup {Share(p)}
      BY <1>0, <2>5, PublishNews
    <3>2. p \notin restarted => nonce[p] = 1 /\ drawn[p] = 1
      BY <1>0, <2>1 DEF Drawn
    <3>3. share'[p] /\ package[p] # {}
      BY <1>0, <2>5 DEF TypeOK
    <3>m. PICK msg : msg = Share(p)
      OBVIOUS
    <3>4. Told(msg)'
      BY <2>2, <3>2, <3>3, <3>m DEF Told, Share
    <3>5. ASSUME NEW o \in Published, o.from = p, o.kind = "share", p \notin restarted PROVE FALSE
      <4>1. Told(o)
        BY <1>0
      <4> QED  BY <2>1, <3>5, <4>1 DEF Told
    <3>s. msg.from = p /\ msg.kind = "share" /\ msg.package = package[p]
      BY <3>m DEF Share
    <3>6. \A m \in {msg} :
              /\ Told(m)'
              /\ \A c \in m.package : Genuine(c)
              /\ \A o \in Published \cup {msg} :
                     o.from = m.from /\ o.kind = m.kind /\ m.from \notin restarted => o = m
      BY <1>p, <3>4, <3>5, <3>s
    <3> QED  BY <1>0, <1>p, <2>2, <2>3, <3>1, <3>m, <3>6, NonceStable
  <2> QED  BY <1>10, <2>4, <2>5 DEF SendSigshares
<1>11. ASSUME NEW p \in Participants, Aggregate(p) PROVE NonceInv'
  BY <1>s, <1>11 DEF Aggregate, outboxVars, Published
<1>12. ASSUME NEW p \in Participants, EndSession(p) PROVE NonceInv'
  BY <1>s, <1>12 DEF EndSession, outboxVars, signVars, Published
<1>13. ASSUME NEW p \in Participants, DeleteState(p) PROVE NonceInv'
  <2>1. /\ UNCHANGED <<drawn, mempool, mined, expired, lost>>
        /\ \A q \in Participants : /\ package'[q] \subseteq package[q]
                                   /\ q # p => /\ nonce'[q] = nonce[q]
                                               /\ package'[q] = package[q]
                                               /\ share'[q] = share[q]
    BY <1>0, <1>13 DEF DeleteState, DeleteSignatures, TypeOK
  <2>2. \A c : \A q \in Participants : c \in package'[q] => Genuine(c)
    BY <1>p, <2>1
  <2>3. \A i, q \in Participants : /\ commitment'[i][q] \in {commitment[i][q], 0}
                                   /\ i # p => commitment'[i][q] = commitment[i][q]
    <3>1. commitment' \in {[commitment EXCEPT ![p] = [q \in Participants |-> 0]], commitment}
      BY <1>13 DEF DeleteState, DeleteCommitments
    <3> QED  BY <1>0, <3>1 DEF TypeOK
  <2>4. \A q \in Participants : staged'[q] \in {staged[q], NoMessage}
    BY <1>0, <1>13 DEF DeleteState, DeleteProps, Forget, OutboxTypeOK
  <2>5. Published' \subseteq Published
    BY <2>1, <2>4 DEF Published
  <2>6. /\ restarted \subseteq restarted'
        /\ p \notin restarted' => open' = [open EXCEPT ![p] = FALSE]
        /\ \A q \in Participants : q # p => open'[q] = open[q]
    BY <1>0, <1>13 DEF DeleteState, DeleteProps, TypeOK
  <2>7. ASSUME NEW q \in Participants \ restarted'
        PROVE  /\ open'[q] => /\ nonce'[q] = drawn[q] /\ commitment'[q][q] = drawn[q]
                              /\ drawn[q] # 0 => open[q]
                              /\ open[q] /\ share[q] => share'[q]
                              /\ open[q] /\ package[q] # {} => package'[q] = package[q]
               /\ \A i \in Participants : commitment'[i][q] \in {0, drawn[q]}
    <3>1. q \notin restarted /\ \A i \in Participants : commitment[i][q] \in {0, drawn[q]}
      BY <1>0, <2>6 DEF Drawn
    <3>2. \A i \in Participants : commitment'[i][q] \in {0, drawn[q]}
      BY <2>3, <3>1
    <3>3. CASE q = p
      <4>1. ~open'[q]
        BY <1>0, <2>6, <3>3 DEF TypeOK
      <4> QED  BY <3>2, <4>1
    <3>4. CASE q # p
      BY <1>0, <2>1, <2>3, <2>6, <3>1, <3>2, <3>4 DEF Drawn
    <3> QED  BY <3>3, <3>4
  <2> QED  BY <1>0, <2>1, <2>2, <2>5, <2>6, <2>7, NonceQuiet
<1>14. ASSUME NEW p \in Participants, Crash(p) PROVE NonceInv'
  BY <1>s, <1>14 DEF Crash, signVars, Published
<1>15. CASE Recorded \/ PassExpiry
  BY <1>s, <1>15 DEF Recorded, PassExpiry, outboxVars, Published
<1>16. CASE OutboxNext /\ UNCHANGED <<pc, signVars>>
  BY <1>s, <1>16, OutboxNews DEF signVars
<1>17. CASE UNCHANGED vars
  BY <1>s, <1>17 DEF vars, outboxVars, signVars, Published
<1> QED
  BY <1>1, <1>2, <1>3, <1>4, <1>5, <1>6, <1>7, <1>8, <1>9, <1>10, <1>11, <1>12, <1>13,
     <1>14, <1>15, <1>16, <1>17 DEF Next, DriverStep

\* One message of a kind, for any group: through crashes, funds waits, resends
\* and late members, a participant that does not start again commits to one
\* nonce, makes one package and discloses one share.
THEOREM MessagesOnce == Spec => []OneMessageEach
<1>1. TypeInv /\ NonceInv /\ [Next]_vars => TypeInv' /\ NonceInv'
  BY TypeNext, NonceNext
<1>2. NonceInv => OneMessageEach
  BY DEF NonceInv
<1> QED  BY <1>1, <1>2, TypeInit, NonceInit, PTL DEF Spec

-----------------------------------------------------------------------------
\* The package that a share is over.

\* The coordinator sends packages of t commitments, one for a signer.
Whole(P) ==
    /\ IsFiniteSet(P)
    /\ Cardinality(P) = T
    /\ \A c, d \in P : c.signer = d.signer => c = d

\* A member knows the commitments of the others from the parts only, and what
\* it assembles is what the parts were made of.
ShareInv ==
    /\ \A m \in Published : m.kind = "parts" => m.from = Coordinator /\ Whole(m.package)
    /\ \A p \in Members, q \in Participants : q # p /\ commitment[p][q] # 0 =>
           \E m \in mined : /\ m.kind = "parts"
                            /\ [signer |-> q, nonce |-> commitment[p][q]] \in m.package
    /\ Coordinator \notin restarted =>
           /\ \A p \in Members \ restarted : package[p] # {} => Parts(Coordinator, package[p]) \in mined
           /\ ShareAnswersCoordinator

\* There is no share at the start.
LEMMA ShareInit == Init => ShareInv
<1> SUFFICES ASSUME Init PROVE ShareInv
  OBVIOUS
<1>1. Published = {}
  BY DEF Init, OutboxInit, Published
<1> QED  BY <1>1 DEF Init, ShareInv, ShareAnswersCoordinator, Members

\* The rows of a participant are finitely many and one for a signer.
LEMMA RowsFinite ==
    ASSUME NEW row
    PROVE  /\ IsFiniteSet(RowsOf(row))
           /\ Cardinality(RowsOf(row)) \in Nat
           /\ \A c, d \in RowsOf(row) : c.signer = d.signer => c = d
<1>1. \A c, d \in RowsOf(row) : c.signer = d.signer => c = d
  BY DEF RowsOf, Commitments
<1> DEFINE f == [c \in RowsOf(row) |-> c.signer]
<1>2. f \in Injection(RowsOf(row), Participants)
  BY <1>1 DEF Injection, IsInjective, RowsOf, Commitments
<1>3. IsFiniteSet(RowsOf(row))
  BY <1>2, FS_Injection, SigningAssumption
<1> QED  BY <1>1, <1>3, FS_CardinalityType

\* What the coordinator sends is whole.
LEMMA PartsPlan ==
    ASSUME NEW p \in Participants, NextTask(p) = "MakeSigpackages"
    PROVE  p = Coordinator /\ Whole(RowsOf(commitment[p]))
<1>1. /\ p = Coordinator
      /\ ~(Cardinality(RowsOf(commitment[p])) > T)
      /\ ~(Cardinality(RowsOf(commitment[p])) < T)
  BY DEF NextTask, PackageTask, LastTask, Needing
<1>2. T \in Nat
  <2>1. IsFiniteSet(Agreed)
    BY SigningAssumption, FS_Subset
  <2> QED  BY <2>1, SigningAssumption, FS_CardinalityType
<1> QED  BY <1>1, <1>2, RowsFinite DEF Whole

\* A step that deletes rows of members at most, and says parts that are whole
\* and shares that the parts cover.
LEMMA ShareStable ==
    ASSUME ShareInv,
           mined \subseteq mined', restarted \subseteq restarted',
           \A m \in Published' \ Published :
               /\ m.kind = "parts" => m.from = Coordinator /\ Whole(m.package)
               /\ m.kind = "share" /\ m.from \notin restarted /\ Coordinator \notin restarted =>
                      Parts(Coordinator, m.package) \in mined,
           \A p \in Members : package'[p] \in {package[p], {}},
           \A p \in Members, q \in Participants : q # p =>
               commitment'[p][q] \in {commitment[p][q], 0}
    PROVE  ShareInv'
<1>1. \A m \in Published' : m.kind = "parts" => m.from = Coordinator /\ Whole(m.package)
  BY DEF ShareInv
<1>2. ASSUME NEW p \in Members, NEW q \in Participants, q # p, commitment'[p][q] # 0
      PROVE  \E m \in mined' : /\ m.kind = "parts"
                               /\ [signer |-> q, nonce |-> commitment'[p][q]] \in m.package
  BY <1>2 DEF ShareInv
<1>3. ASSUME Coordinator \notin restarted'
      PROVE  /\ \A p \in Members \ restarted' :
                    package'[p] # {} => Parts(Coordinator, package'[p]) \in mined'
             /\ ShareAnswersCoordinator'
  <2>1. Coordinator \notin restarted
    BY <1>3
  <2>2. \A p \in Members \ restarted' : package'[p] # {} => Parts(Coordinator, package'[p]) \in mined'
    BY <2>1 DEF ShareInv
  <2>3. ShareAnswersCoordinator'
    BY <2>1 DEF ShareInv, ShareAnswersCoordinator, Parts
  <2> QED  BY <2>2, <2>3
<1>4. \A P : Whole(P)' <=> Whole(P)
  BY DEF Whole
<1> QED  BY <1>1, <1>2, <1>3, <1>4 DEF ShareInv, Whole, Members

\* What a member that does not start again assembles is what the parts were
\* made of: its own commitment has to be among them for the count to be t.
LEMMA AssembledParts ==
    ASSUME TypeInv, NonceInv, ShareInv,
           Coordinator \notin restarted,
           NEW p \in Members \ restarted,
           NEW row \in [Participants -> 0..MaxNonces],
           \A q \in Participants : row[q] \in Offers(p, q),
           open[p],
           nonce[p] # 0, Visible(p, "parts") # {}, Cardinality(RowsOf(row)) = T
    PROVE  Parts(Coordinator, RowsOf(row)) \in mined
<1>0. /\ TypeOK /\ OutboxTypeOK(Messages) /\ Drawn /\ Packaged /\ OneMessageEach
      /\ p \in Participants /\ p # Coordinator
      /\ mined \subseteq Published /\ mined \subseteq Messages
  BY DEF TypeInv, TypeOK, OutboxTypeOK, NonceInv, Published, Members
<1>1. PICK m \in mined : m.kind = "parts" /\ accounts[p]
  BY DEF Visible
<1> DEFINE P == m.package
<1>2. m.from = Coordinator /\ Whole(P) /\ m = Parts(Coordinator, P)
  <2>1. m.from = Coordinator /\ Whole(P)
    BY <1>0, <1>1 DEF ShareInv
  <2>2. Told(m)
    BY <1>0 DEF NonceInv
  <2> QED  BY <1>1, <2>1, <2>2 DEF Told
<1>3. \A o \in mined : o.kind = "parts" => o = m
  BY <1>0, <1>1, <1>2 DEF ShareInv, OneMessageEach
<1>4. Announced(p) = P
  BY <1>1, <1>3 DEF Announced, Visible
<1>5. P \subseteq Commitments
  BY <1>0 DEF Messages
<1> DEFINE own == [signer |-> p, nonce |-> nonce[p]]
<1>6. commitment[p][p] = nonce[p] /\ drawn[p] = nonce[p] /\ nonce[p] \in 1..MaxNonces
  BY <1>0 DEF Drawn, TypeOK
<1>7. row[p] = nonce[p]
  BY <1>0, <1>6 DEF Offers
<1>8. own \in RowsOf(row)
  BY <1>0, <1>6, <1>7 DEF RowsOf, Commitments
<1> HIDE DEF P
<1>9. ASSUME NEW q \in Participants, q # p, commitment[p][q] # 0
      PROVE  [signer |-> q, nonce |-> commitment[p][q]] \in P
  BY <1>0, <1>1, <1>3, <1>9 DEF ShareInv, P
<1>10. ASSUME NEW c \in RowsOf(row) PROVE c \in P \cup {own}
  <2>1. /\ c \in Commitments /\ c = [signer |-> c.signer, nonce |-> c.nonce]
        /\ row[c.signer] = c.nonce /\ c.nonce # 0 /\ c.signer \in Participants
    BY DEF RowsOf, Commitments
  <2>2. CASE c.signer = p
    BY <1>7, <2>1, <2>2
  <2>3. CASE c.signer # p
    <3>1. CASE commitment[p][c.signer] # 0
      <4>1. c.nonce = commitment[p][c.signer]
        BY <2>1, <3>1 DEF Offers
      <4> QED  BY <1>9, <2>1, <2>3, <3>1, <4>1
    <3>2. CASE commitment[p][c.signer] = 0
      <4>1. Received(p) = {}
        BY <1>0 DEF Received
      <4>2. c.nonce \in {d.nonce : d \in {d \in P : d.signer = c.signer}}
        BY <1>4, <2>1, <3>2, <4>1 DEF Offers
      <4>3. PICK d \in P : d.signer = c.signer /\ d.nonce = c.nonce
        BY <4>2
      <4>4. d = c
        BY <1>5, <2>1, <4>3 DEF Commitments
      <4> QED  BY <4>3, <4>4
    <3> QED  BY <3>1, <3>2
  <2> QED  BY <2>2, <2>3
<1>11. ASSUME NEW c \in P PROVE c \in RowsOf(row)
  <2>1. c \in Commitments /\ c.signer \in Participants /\ c.nonce # 0
    BY <1>5 DEF Commitments
  <2>2. CASE c.signer = p
    <3>1. Genuine(c)
      BY <1>0 DEF Packaged, P
    <3> QED  BY <1>6, <1>7, <2>1, <2>2, <3>1 DEF Genuine, RowsOf
  <2>3. CASE c.signer # p
    <3>1. CASE commitment[p][c.signer] # 0
      <4>1. c = [signer |-> c.signer, nonce |-> commitment[p][c.signer]]
        BY <1>2, <1>9, <2>1, <2>3, <3>1 DEF Whole
      <4>2. row[c.signer] = commitment[p][c.signer]
        BY <2>1, <3>1 DEF Offers
      <4>3. c.nonce = commitment[p][c.signer]
        BY <4>1
      <4> QED  BY <2>1, <4>2, <4>3 DEF RowsOf
    <3>2. CASE commitment[p][c.signer] = 0
      <4>1. Received(p) = {}
        BY <1>0 DEF Received
      <4>2. row[c.signer] \in {d.nonce : d \in {d \in P : d.signer = c.signer}}
        BY <1>4, <2>1, <3>2, <4>1 DEF Offers
      <4>3. row[c.signer] = c.nonce
        BY <1>2, <4>2 DEF Whole
      <4> QED  BY <2>1, <4>3 DEF RowsOf
    <3> QED  BY <3>1, <3>2
  <2> QED  BY <2>2, <2>3
<1>12. RowsOf(row) = P \cup {own}
  BY <1>8, <1>10, <1>11
<1>13. own \in P
  <2>1. IsFiniteSet(P) /\ Cardinality(P) = T /\ Cardinality(P) \in Nat
    BY <1>2, FS_CardinalityType DEF Whole
  <2>2. Cardinality(P \cup {own}) = IF own \in P THEN Cardinality(P) ELSE Cardinality(P) + 1
    BY <2>1, FS_AddElement
  <2> QED  BY <1>12, <2>1, <2>2
<1>14. RowsOf(row) = P
  BY <1>12, <1>13
<1> QED  BY <1>2, <1>14

\* Every step keeps what the shares are over.
LEMMA ShareNext == TypeInv /\ NonceInv /\ ShareInv /\ [Next]_vars => ShareInv'
<1> SUFFICES ASSUME TypeInv, NonceInv, ShareInv, [Next]_vars PROVE ShareInv'
  OBVIOUS
<1>0. /\ TypeOK /\ OutboxTypeOK(Messages) /\ Labels /\ Drawn
      /\ SigningAssumption
  BY SigningAssumption DEF TypeInv, TypeOK, NonceInv
<1>s. ASSUME UNCHANGED <<commitment, package>>,
             restarted \subseteq restarted', Published' \subseteq Published, mined \subseteq mined'
      PROVE  ShareInv'
  BY <1>s, ShareStable
<1>1. ASSUME NEW p \in Participants, Join(p) PROVE ShareInv'
  BY <1>s, <1>1 DEF Join, outboxVars, Published
<1>2. ASSUME NEW p \in Participants, Cancel(p) PROVE ShareInv'
  BY <1>s, <1>2 DEF Cancel, Published
<1>3. ASSUME NEW p \in Participants, BeginPass(p) PROVE ShareInv'
  <2>1. PICK row \in [Participants -> UNION {Offers(p, q) : q \in Participants}] :
            /\ \A q \in Participants : row[q] \in Offers(p, q)
            /\ commitment' = [commitment EXCEPT ![p] = row]
            /\ package' = [package EXCEPT ![p] = Assemble(p, row)]
    BY <1>3 DEF BeginPass
  <2>2. /\ open[p] /\ UNCHANGED <<open, restarted, mempool, mined, expired, lost>>
        /\ Published' \subseteq Published
    <3>1. \A q \in Participants : staged'[q] \in {staged[q], NoMessage}
      BY <1>0, <1>3 DEF BeginPass, ScanOwn, OutboxTypeOK
    <3> QED  BY <1>3, <3>1 DEF BeginPass, Published
  <2>3. \A i \in Participants : /\ commitment'[i] = IF i = p THEN row ELSE commitment[i]
                                /\ package'[i] = IF i = p THEN Assemble(p, row) ELSE package[i]
    BY <1>0, <2>1 DEF TypeOK
  <2>4. CASE p = Coordinator
    BY <2>2, <2>3, <2>4, ShareStable DEF Members
  <2>5. CASE p # Coordinator
    <3>1. row \in [Participants -> 0..MaxNonces]
      BY <1>0, <2>1, OffersType
    <3>2. ASSUME NEW q \in Participants, q # p, row[q] # 0
          PROVE  \E m \in mined : m.kind = "parts" /\ [signer |-> q, nonce |-> row[q]] \in m.package
      <4>1. CASE commitment[p][q] # 0
        <5>1. row[q] = commitment[p][q]
          BY <2>1, <4>1 DEF Offers
        <5> QED  BY <2>5, <3>2, <4>1, <5>1 DEF ShareInv, Members
      <4>2. CASE commitment[p][q] = 0
        <5>1. row[q] \in {c.nonce : c \in {c \in Announced(p) : c.signer = q}}
          BY <2>1, <2>5, <3>2, <4>2 DEF Offers, Received
        <5>2. PICK c \in Announced(p) : c.signer = q /\ c.nonce = row[q]
          BY <5>1
        <5>3. PICK m \in mined : m.kind = "parts" /\ c \in m.package
          BY <5>2 DEF Announced, Visible
        <5>4. c \in Commitments
          BY <1>0, <5>3 DEF OutboxTypeOK, Messages
        <5>5. c = [signer |-> q, nonce |-> row[q]]
          BY <5>2, <5>4 DEF Commitments
        <5> QED  BY <5>3, <5>5
      <4> QED  BY <4>1, <4>2
    <3>3. ASSUME Coordinator \notin restarted, p \notin restarted, Assemble(p, row) # {}
          PROVE  Parts(Coordinator, Assemble(p, row)) \in mined
      <4>1. CASE package[p] # {}
        BY <2>5, <3>3, <4>1 DEF Assemble, ShareInv, Members
      <4>2. CASE package[p] = {}
        <5>1. /\ nonce[p] # 0 /\ Visible(p, "parts") # {} /\ Cardinality(RowsOf(row)) = T
              /\ Assemble(p, row) = RowsOf(row)
          BY <3>3, <4>2 DEF Assemble
        <5>2. p \in Members \ restarted
          BY <2>5, <3>3 DEF Members
        <5> QED  BY <2>1, <2>2, <3>1, <3>3, <5>1, <5>2, AssembledParts
      <4> QED  BY <4>1, <4>2
    <3>4. \A m \in Published' : m.kind = "parts" => m.from = Coordinator /\ Whole(m.package)
      BY <2>2 DEF ShareInv
    <3>5. \A i \in Members, q \in Participants : q # i /\ commitment'[i][q] # 0 =>
              \E m \in mined : /\ m.kind = "parts"
                               /\ [signer |-> q, nonce |-> commitment'[i][q]] \in m.package
      BY <2>3, <3>2 DEF ShareInv, Members
    <3>6. Coordinator \notin restarted =>
              /\ \A i \in Members \ restarted :
                     package'[i] # {} => Parts(Coordinator, package'[i]) \in mined
              /\ ShareAnswersCoordinator'
      <4> SUFFICES ASSUME Coordinator \notin restarted
                   PROVE  /\ \A i \in Members \ restarted :
                                 package'[i] # {} => Parts(Coordinator, package'[i]) \in mined
                          /\ ShareAnswersCoordinator'
        OBVIOUS
      <4>1. \A i \in Members \ restarted : package'[i] # {} => Parts(Coordinator, package'[i]) \in mined
        BY <2>3, <3>3 DEF ShareInv, Members
      <4>2. ShareAnswersCoordinator'
        BY <2>2 DEF ShareInv, ShareAnswersCoordinator, Parts
      <4> QED  BY <4>1, <4>2
    <3> QED  BY <2>2, <3>4, <3>5, <3>6 DEF ShareInv, Whole, Members
  <2> QED  BY <2>4, <2>5
<1>4. ASSUME NEW p \in Participants, EnsureMailbox(p) PROVE ShareInv'
  BY <1>s, <1>4 DEF EnsureMailbox, outboxVars, Published
<1>5. ASSUME NEW p \in Participants, Wait(p) \/ Unfunded(p) PROVE ShareInv'
  BY <1>s, <1>5 DEF Wait, Unfunded, outboxVars, signVars, Published
<1>6. ASSUME NEW p \in Participants, WaitOwnPublish(p) PROVE ShareInv'
  BY <1>0, <1>s, <1>6, WaitNews DEF WaitOwnPublish, signVars
<1>7. ASSUME NEW p \in Participants, AnnounceCoordinator(p) PROVE ShareInv'
  <2>1. Published' \subseteq Published \cup {Address(p)}
    BY <1>0, <1>7, PublishNews DEF AnnounceCoordinator
  <2>2. UNCHANGED <<commitment, package, restarted, mined>>
    BY <1>7 DEF AnnounceCoordinator, Publish
  <2>3. Address(p).kind = "address"
    BY DEF Address
  <2> QED  BY <2>1, <2>2, <2>3, ShareStable
<1>8. ASSUME NEW p \in Participants, SendCommitments(p) PROVE ShareInv'
  <2> DEFINE n == drawn[p] + 1
  <2>1. Published' \subseteq Published \cup {Commit(p, n)} /\ mined' = mined
    <3>1. CASE p = Coordinator
      BY <1>8, <3>1 DEF SendCommitments, outboxVars, Published
    <3>2. CASE p # Coordinator
      BY <1>0, <1>8, <3>2, PublishNews DEF SendCommitments, Publish
    <3> QED  BY <3>1, <3>2
  <2>2. /\ UNCHANGED <<package, restarted>>
        /\ \A i, q \in Participants : q # i => commitment'[i][q] = commitment[i][q]
    BY <1>0, <1>8 DEF SendCommitments, TypeOK
  <2>3. Commit(p, n).kind = "commit"
    BY DEF Commit
  <2> QED  BY <2>1, <2>2, <2>3, ShareStable DEF Members
<1>9. ASSUME NEW p \in Participants, MakeSigpackages(p) PROVE ShareInv'
  <2> DEFINE made == RowsOf(commitment[p])
  <2>1. p = Coordinator /\ Whole(made)
    BY <1>9, PartsPlan DEF MakeSigpackages, Planned
  <2>2. Published' \subseteq Published \cup {Parts(p, made)}
    BY <1>0, <1>9, PublishNews DEF MakeSigpackages
  <2>3. /\ UNCHANGED <<commitment, restarted, mined>>
        /\ \A i \in Members : package'[i] = package[i]
    BY <1>0, <1>9, <2>1 DEF MakeSigpackages, Publish, Members, TypeOK
  <2> HIDE DEF made
  <2>4. /\ Parts(p, made).kind = "parts" /\ Parts(p, made).from = p
        /\ Parts(p, made).package = made
    BY DEF Parts
  <2> QED  BY <2>1, <2>2, <2>3, <2>4, ShareStable
<1>10. ASSUME NEW p \in Participants, SendSigshares(p) PROVE ShareInv'
  <2>1. UNCHANGED <<package, commitment, restarted>>
    BY <1>10 DEF SendSigshares
  <2>2. CASE UNCHANGED outboxVars
    BY <1>s, <2>1, <2>2 DEF outboxVars, Published
  <2>3. CASE /\ Publish(p, Share(p)) /\ p # Coordinator
             /\ [signer |-> p, nonce |-> nonce[p]] \in package[p]
    <3>1. Published' \subseteq Published \cup {Share(p)} /\ mined' = mined
      BY <1>0, <2>3, PublishNews DEF Publish
    <3>2. Share(p).kind = "share" /\ Share(p).from = p /\ Share(p).package = package[p]
      BY DEF Share
    <3>3. p \notin restarted /\ Coordinator \notin restarted => Parts(Coordinator, package[p]) \in mined
      BY <2>3 DEF ShareInv, Members
    <3> QED  BY <2>1, <3>1, <3>2, <3>3, ShareStable
  <2> QED  BY <1>10, <2>2, <2>3 DEF SendSigshares
<1>11. ASSUME NEW p \in Participants, Aggregate(p) \/ EndSession(p) PROVE ShareInv'
  BY <1>s, <1>11 DEF Aggregate, EndSession, outboxVars, signVars, Published
<1>12. ASSUME NEW p \in Participants, DeleteState(p) PROVE ShareInv'
  <2>1. /\ UNCHANGED <<mempool, mined, expired, lost>>
        /\ restarted \subseteq restarted'
        /\ \A q \in Participants : package'[q] \in {package[q], {}}
        /\ \A q \in Participants : staged'[q] \in {staged[q], NoMessage}
    BY <1>0, <1>12 DEF DeleteState, DeleteSignatures, DeleteProps, Forget, TypeOK, OutboxTypeOK
  <2>2. \A i, q \in Participants : commitment'[i][q] \in {commitment[i][q], 0}
    <3>1. commitment' \in {[commitment EXCEPT ![p] = [q \in Participants |-> 0]], commitment}
      BY <1>12 DEF DeleteState, DeleteCommitments
    <3> QED  BY <1>0, <3>1 DEF TypeOK
  <2>3. Published' \subseteq Published
    BY <2>1 DEF Published
  <2> QED  BY <2>1, <2>2, <2>3, ShareStable DEF Members
<1>13. ASSUME NEW p \in Participants, Crash(p) PROVE ShareInv'
  BY <1>s, <1>13 DEF Crash, signVars, Published
<1>14. CASE Recorded \/ PassExpiry
  BY <1>s, <1>14 DEF Recorded, PassExpiry, outboxVars, Published
<1>15. CASE OutboxNext /\ UNCHANGED <<pc, signVars>>
  <2>1. mined \subseteq mined'
    BY <1>15 DEF OutboxNext, Mine, Drop, Expire, UserPays, PaymentMined
  <2> QED  BY <1>s, <1>15, <2>1, OutboxNews DEF signVars
<1>16. CASE UNCHANGED vars
  BY <1>s, <1>16 DEF vars, outboxVars, signVars, Published
<1> QED
  BY <1>1, <1>2, <1>3, <1>4, <1>5, <1>6, <1>7, <1>8, <1>9, <1>10, <1>11, <1>12, <1>13,
     <1>14, <1>15, <1>16 DEF Next, DriverStep

\* A share is over what the coordinator sent, for any threshold, whoever else
\* joins or starts again, as long as the coordinator does not: a
\* commitment that came some other way is never part of what a member signs.
THEOREM SharesCovered == Spec => [](Coordinator \notin restarted => ShareAnswersCoordinator)
<1>1. TypeInv /\ NonceInv /\ ShareInv /\ [Next]_vars => TypeInv' /\ NonceInv' /\ ShareInv'
  BY TypeNext, NonceNext, ShareNext
<1>2. ShareInv => (Coordinator \notin restarted => ShareAnswersCoordinator)
  BY DEF ShareInv
<1> QED  BY <1>1, <1>2, TypeInit, NonceInit, ShareInit, PTL DEF Spec

-----------------------------------------------------------------------------
\* One share, also of participants that start again.

\* The parts of some package that was mined have a commitment of the participant.
Listed(p) == \E d \in mined : d.kind = "parts" /\ \E c \in d.package : c.signer = p

\* A member that has shared is listed in mined parts.  A nonce it has by then is
\* the one it shared with, and it draws no other: a pass that gets to the planner
\* with a mailbox and a coordinator has met its own commitment in the parts.
Past(m) ==
    m.kind = "share" =>
        /\ m.from # Coordinator
        /\ Listed(m.from)
        /\ nonce[m.from] # 0 => share[m.from]
        /\ pc[m.from] = "pass" /\ knows[m.from] => commitment[m.from][m.from] # 0

OnceInv ==
    /\ \A p \in Participants : knows[p] => accounts[p]
    /\ \A p \in Members : \A c \in package[p] : Listed(c.signer)
    /\ \A m \in Published : Past(m)
    /\ OneShareEver

Sharer(p) == \E m \in Published : m.kind = "share" /\ m.from = p

\* Nothing is shared at the start.
LEMMA OnceInit == Init => OnceInv
<1>1. Init => Published = {}
  BY DEF Init, OutboxInit, Published
<1> QED  BY <1>1 DEF Init, OnceInv, OneShareEver, Members

\* Steps that publish no share keep it, if they give none that has shared
\* another nonce, and a pass only with its commitment.
LEMMA OnceStable ==
    ASSUME TypeOK, OnceInv,
           mined \subseteq mined',
           NEW News, Published' \subseteq Published \cup News,
           \A m \in News : m.kind # "share",
           \A p \in Participants : knows'[p] => accounts'[p],
           \A p \in Members : \A c \in package'[p] : Listed(c.signer),
           \A p \in Members : Sharer(p) =>
               /\ nonce'[p] \in {nonce[p], 0}
               /\ nonce'[p] # 0 /\ share[p] => share'[p]
               /\ pc'[p] = "pass" /\ knows'[p] /\ commitment'[p][p] = 0 =>
                      pc[p] = "pass" /\ knows[p] /\ commitment[p][p] = 0
    PROVE  OnceInv'
<1>1. ASSUME NEW m \in Published', m.kind = "share" PROVE m \in Published /\ Past(m)'
  <2>1. m \in Published /\ m.from \in Members /\ Past(m)
    BY <1>1, PublishedType DEF OnceInv, Past, Messages, Members
  <2>2. Sharer(m.from)
    BY <1>1, <2>1 DEF Sharer
  <2>3. Listed(m.from)'
    BY <1>1, <2>1 DEF Past, Listed
  <2>4. nonce'[m.from] # 0 => share'[m.from]
    BY <1>1, <2>1, <2>2 DEF Past
  <2>5. pc'[m.from] = "pass" /\ knows'[m.from] => commitment'[m.from][m.from] # 0
    BY <1>1, <2>1, <2>2 DEF Past
  <2> QED  BY <2>1, <2>3, <2>4, <2>5 DEF Past
<1>2. \A m \in Published' : Past(m)'
  BY <1>1 DEF Past
<1>3. OneShareEver'
  BY <1>1 DEF OnceInv, OneShareEver
<1>4. \A q : Listed(q) => Listed(q)'
  BY DEF Listed
<1>5. \A p \in Members : \A c \in package'[p] : Listed(c.signer)'
  BY <1>4
<1> QED  BY <1>2, <1>3, <1>5 DEF OnceInv, Members

\* A member offers itself the commitment that mined parts have of it.
LEMMA ListedOffers ==
    ASSUME TypeOK, NEW p \in Members, accounts[p], NEW q \in Participants, Listed(q)
    PROVE  0 \notin Offers(p, q)
<1>1. PICK d \in mined : d.kind = "parts" /\ \E c \in d.package : c.signer = q
  BY DEF Listed
<1>2. PICK c \in d.package : c.signer = q
  BY <1>1
<1>3. c \in Announced(p)
  BY <1>1, <1>2 DEF Announced, Visible
<1>4. \A e \in Announced(p) : e.nonce \in 1..MaxNonces
  BY DEF Announced, Visible, Messages, Commitments, TypeOK, OutboxTypeOK
<1>5. Received(p) = {}
  BY DEF Received, Members
<1> DEFINE offered == {e.nonce : e \in {e \in Announced(p) : e.signer = q}}
<1>6. c.nonce \in offered
  BY <1>2, <1>3
<1>7. 0 \notin offered
  BY <1>4, SigningAssumption
<1> QED  BY <1>5, <1>6, <1>7 DEF Offers

\* The signers of an assembled package are those of any parts seen: these are t
\* too, and all of them are among its rows.
LEMMA AssembledListed ==
    ASSUME TypeOK, ShareInv, NEW p \in Members,
           NEW row \in [Participants -> 0..MaxNonces],
           \A q \in Participants : row[q] \in Offers(p, q),
           Visible(p, "parts") # {}, Cardinality(RowsOf(row)) = T
    PROVE  \A c \in RowsOf(row) : Listed(c.signer)
<1>1. PICK d \in mined : d.kind = "parts" /\ accounts[p]
  BY DEF Visible
<1>2. Whole(d.package) /\ d.package \subseteq Commitments
  <2>1. d \in Published /\ d \in Messages
    BY DEF Published, TypeOK, OutboxTypeOK
  <2> QED  BY <1>1, <2>1 DEF ShareInv, Messages
<1> DEFINE f == [e \in d.package |-> [signer |-> e.signer, nonce |-> row[e.signer]]]
<1>3. ASSUME NEW e \in d.package PROVE f[e] \in RowsOf(row) /\ f[e].signer = e.signer
  <2>1. e.signer \in Participants /\ Listed(e.signer)
    BY <1>1, <1>2 DEF Listed, Commitments
  <2>2. row[e.signer] \in 1..MaxNonces
    <3>1. row[e.signer] # 0 /\ row[e.signer] \in 0..MaxNonces
      BY <1>1, <2>1, ListedOffers
    <3> QED  BY <3>1, SigningAssumption
  <2>3. f[e] \in Commitments
    BY <2>1, <2>2 DEF Commitments
  <2> QED  BY <2>3 DEF RowsOf
<1>4. f \in Injection(d.package, RowsOf(row))
  <2>1. f \in [d.package -> RowsOf(row)]
    BY <1>3
  <2>2. \A e, o \in d.package : f[e] = f[o] => e = o
    <3>1. \A e, o \in d.package : f[e] = f[o] => e.signer = o.signer
      BY <1>3
    <3> QED  BY <1>2, <3>1 DEF Whole
  <2> HIDE DEF f
  <2> QED  BY <2>1, <2>2 DEF Injection, IsInjective
<1>5. f \in Surjection(d.package, RowsOf(row))
  BY <1>2, <1>4, RowsFinite, FS_Injection DEF Whole
<1> SUFFICES ASSUME NEW c \in RowsOf(row) PROVE Listed(c.signer)
  OBVIOUS
<1>6. PICK e \in d.package : f[e] = c
  <2> HIDE DEF f
  <2> QED  BY <1>5 DEF Surjection
<1>7. e.signer = c.signer
  BY <1>3, <1>6
<1> QED  BY <1>1, <1>7 DEF Listed

\* Every step keeps what the members have shared.
LEMMA OnceNext == TypeInv /\ ShareInv /\ OnceInv /\ [Next]_vars => OnceInv'
<1> SUFFICES ASSUME TypeInv, ShareInv, OnceInv, [Next]_vars PROVE OnceInv'
  OBVIOUS
<1>0. /\ TypeOK /\ OutboxTypeOK(Messages)
      /\ \A p \in Participants : knows[p] => accounts[p]
      /\ \A p \in Members : \A c \in package[p] : Listed(c.signer)
      /\ Members \subseteq Participants /\ Coordinator \notin Members
  BY DEF TypeInv, TypeOK, OnceInv, Members
\* A step that leaves the rows alone, starts no pass and publishes no share.
<1>s. ASSUME UNCHANGED <<nonce, package, share, commitment, knows>>,
             \A p \in Participants : accounts[p] => accounts'[p],
             \A p \in Participants : pc'[p] = "pass" => pc[p] = "pass",
             mined \subseteq mined',
             NEW News, Published' \subseteq Published \cup News,
             \A m \in News : m.kind # "share"
      PROVE  OnceInv'
  <2>1. \A p \in Participants : knows'[p] => accounts'[p]
    BY <1>0, <1>s
  <2>2. \A p \in Members : \A c \in package'[p] : Listed(c.signer)
    BY <1>0, <1>s
  <2>3. \A p \in Members : Sharer(p) =>
            /\ nonce'[p] \in {nonce[p], 0}
            /\ nonce'[p] # 0 /\ share[p] => share'[p]
            /\ pc'[p] = "pass" /\ knows'[p] /\ commitment'[p][p] = 0 =>
                   pc[p] = "pass" /\ knows[p] /\ commitment[p][p] = 0
    BY <1>0, <1>s
  <2> QED  BY <1>0, <1>s, <2>1, <2>2, <2>3, OnceStable
<1>q. ASSUME UNCHANGED <<nonce, package, share, commitment, knows>>,
             \A p \in Participants : accounts[p] => accounts'[p],
             \A p \in Participants : pc'[p] = "pass" => pc[p] = "pass",
             mined \subseteq mined',
             Published' \subseteq Published
      PROVE  OnceInv'
  <2>1. PICK News : News = {}
    OBVIOUS
  <2> QED  BY <1>s, <1>q, <2>1
<1>1. ASSUME NEW p \in Participants, Join(p) \/ Cancel(p) PROVE OnceInv'
  <2>1. /\ UNCHANGED <<nonce, package, share, commitment, knows, accounts>>
        /\ UNCHANGED <<staged, mempool, mined, expired, lost>>
    BY <1>1 DEF Join, Cancel, outboxVars
  <2>2. \A q \in Participants : pc'[q] = "pass" => pc[q] = "pass"
    BY <1>0, <1>1 DEF Join, Cancel, Goto, TypeOK
  <2> QED  BY <1>q, <2>1, <2>2 DEF Published
<1>2. ASSUME NEW p \in Participants, BeginPass(p) PROVE OnceInv'
  <2>1. PICK row \in [Participants -> UNION {Offers(p, q) : q \in Participants}] :
            /\ \A q \in Participants : row[q] \in Offers(p, q)
            /\ commitment' = [commitment EXCEPT ![p] = row]
            /\ package' = [package EXCEPT ![p] = Assemble(p, row)]
            /\ knows' = [knows EXCEPT ![p] = @ \/ Visible(p, "address") # {}]
    BY <1>2 DEF BeginPass
  <2>2. /\ UNCHANGED <<nonce, share, accounts, mempool, mined, expired, lost>>
        /\ pc' = [pc EXCEPT ![p] = "pass"]
        /\ Published' \subseteq Published
    <3>1. \A q \in Participants : staged'[q] \in {staged[q], NoMessage}
      BY <1>0, <1>2 DEF BeginPass, ScanOwn, OutboxTypeOK
    <3> QED  BY <1>2, <3>1 DEF BeginPass, Goto, Published
  <2>3. \A q \in Participants :
            /\ commitment'[q] = IF q = p THEN row ELSE commitment[q]
            /\ package'[q] = IF q = p THEN Assemble(p, row) ELSE package[q]
            /\ q # p => knows'[q] = knows[q] /\ pc'[q] = pc[q]
    BY <1>0, <2>1, <2>2 DEF TypeOK
  <2>4. \A q \in Participants : knows'[q] => accounts'[q]
    <3>1. knows'[p] => accounts[p]
      BY <1>0, <2>1 DEF Visible, TypeOK
    <3> QED  BY <1>0, <2>2, <2>3, <3>1
  <2>5. ASSUME NEW q \in Members, NEW c \in package'[q] PROVE Listed(c.signer)
    <3>1. CASE q # p \/ Assemble(p, row) = package[p]
      BY <1>0, <2>3, <2>5, <3>1
    <3>2. CASE q = p /\ Assemble(p, row) # package[p]
      <4>1. /\ Assemble(p, row) = RowsOf(row)
            /\ Visible(p, "parts") # {} /\ Cardinality(RowsOf(row)) = T
        BY <3>2 DEF Assemble
      <4>2. row \in [Participants -> 0..MaxNonces]
        BY <1>0, <2>1, OffersType
      <4> QED  BY <1>0, <2>1, <2>3, <2>5, <3>2, <4>1, <4>2, AssembledListed
    <3> QED  BY <3>1, <3>2
  <2>6. ASSUME NEW q \in Members, Sharer(q)
        PROVE  pc'[q] = "pass" /\ knows'[q] /\ commitment'[q][q] = 0 =>
                   pc[q] = "pass" /\ knows[q] /\ commitment[q][q] = 0
    <3>1. CASE q # p
      BY <1>0, <2>3, <3>1
    <3>2. CASE q = p
      <4>1. Listed(p)
        BY <2>6, <3>2 DEF Sharer, OnceInv, Past
      <4>2. knows'[p] => row[p] # 0
        BY <1>0, <2>1, <2>2, <2>4, <3>2, <4>1, ListedOffers
      <4> QED  BY <1>0, <2>3, <3>2, <4>2
    <3> QED  BY <3>1, <3>2
  <2>7. PICK News : News = {}
    OBVIOUS
  <2>8. /\ Published' \subseteq Published \cup News /\ mined \subseteq mined'
        /\ \A m \in News : m.kind # "share"
    BY <2>2, <2>7
  <2>9. \A q \in Members : Sharer(q) =>
            /\ nonce'[q] \in {nonce[q], 0}
            /\ nonce'[q] # 0 /\ share[q] => share'[q]
            /\ pc'[q] = "pass" /\ knows'[q] /\ commitment'[q][q] = 0 =>
                   pc[q] = "pass" /\ knows[q] /\ commitment[q][q] = 0
    BY <2>2, <2>6
  <2> QED  BY <1>0, <2>4, <2>5, <2>8, <2>9, OnceStable
<1>3. ASSUME NEW p \in Participants, EnsureMailbox(p) PROVE OnceInv'
  <2>1. /\ UNCHANGED <<nonce, package, share, commitment, knows, pc>>
        /\ UNCHANGED <<staged, mempool, mined, expired, lost>>
        /\ \A q \in Participants : accounts[q] => accounts'[q]
    BY <1>0, <1>3 DEF EnsureMailbox, outboxVars, TypeOK
  <2> QED  BY <1>q, <2>1 DEF Published
<1>4. ASSUME NEW p \in Participants, Wait(p) \/ Unfunded(p) PROVE OnceInv'
  <2>1. \A q \in Participants : pc'[q] = "pass" => pc[q] = "pass"
    BY <1>0, <1>4 DEF Wait, Unfunded, Goto, TypeOK
  <2> QED  BY <1>q, <1>4, <2>1 DEF Wait, Unfunded, outboxVars, signVars, Published
<1>5. ASSUME NEW p \in Participants, WaitOwnPublish(p) PROVE OnceInv'
  <2>1. \A q \in Participants : pc'[q] = "pass" => pc[q] = "pass"
    BY <1>0, <1>5 DEF WaitOwnPublish, Goto, TypeOK
  <2> QED  BY <1>0, <1>q, <1>5, <2>1, WaitNews DEF WaitOwnPublish, signVars
<1>p. ASSUME NEW p \in Participants, NEW m, Publish(p, m)
      PROVE  /\ \A q \in Participants : pc'[q] = "pass" => pc[q] = "pass"
             /\ mined' = mined /\ Published' \subseteq Published \cup {m}
  <2>1. \A q \in Participants : pc'[q] = "pass" => pc[q] = "pass"
    BY <1>0, <1>p DEF Publish, Goto, TypeOK
  <2> QED  BY <1>0, <1>p, <2>1, PublishNews DEF Publish
<1>6. ASSUME NEW p \in Participants, AnnounceCoordinator(p) PROVE OnceInv'
  <2>n. PICK News : News = {Address(p)}
    OBVIOUS
  <2>1. p = Coordinator /\ accounts[p]
    BY <1>6 DEF AnnounceCoordinator, Planned, NextTask, PackageTask, LastTask, Needing
  <2>2. /\ UNCHANGED <<nonce, package, share, commitment, accounts, mined>>
        /\ Published' \subseteq Published \cup News
        /\ \A q \in Participants : pc'[q] = "pass" => pc[q] = "pass"
        /\ \A q \in Participants : q # p => knows'[q] = knows[q]
    BY <1>0, <1>6, <1>p, <2>n DEF AnnounceCoordinator, TypeOK
  <2>3. \A q \in Participants : knows'[q] => accounts'[q]
    BY <1>0, <2>1, <2>2
  <2>4. \A m \in News : m.kind # "share"
    BY <2>n DEF Address
  <2>5. \A q \in Members : knows'[q] = knows[q]
    BY <1>0, <2>1, <2>2
  <2>6. \A q \in Members : \A c \in package'[q] : Listed(c.signer)
    BY <1>0, <2>2
  <2>7. \A q \in Members : Sharer(q) =>
            /\ nonce'[q] \in {nonce[q], 0}
            /\ nonce'[q] # 0 /\ share[q] => share'[q]
            /\ pc'[q] = "pass" /\ knows'[q] /\ commitment'[q][q] = 0 =>
                   pc[q] = "pass" /\ knows[q] /\ commitment[q][q] = 0
    BY <1>0, <2>2, <2>5
  <2> QED  BY <1>0, <2>2, <2>3, <2>4, <2>6, <2>7, OnceStable
<1>7. ASSUME NEW p \in Participants, SendCommitments(p) PROVE OnceInv'
  <2>n. PICK News : News = {Commit(p, drawn[p] + 1)}
    OBVIOUS
  <2>1. pc[p] = "pass" /\ knows[p] /\ commitment[p][p] = 0
    BY <1>7, CommitPlan DEF SendCommitments, Planned
  <2>2. p \in Members => ~Sharer(p)
    BY <2>1 DEF Sharer, OnceInv, Past
  <2>3. /\ UNCHANGED <<package, share, knows, accounts, mined>>
        /\ Published' \subseteq Published \cup News
        /\ \A q \in Participants : pc'[q] = "pass" => pc[q] = "pass"
    <3>1. CASE p = Coordinator
      BY <1>7, <3>1 DEF SendCommitments, outboxVars, Published
    <3>2. CASE p # Coordinator
      BY <1>p, <1>7, <2>n, <3>2 DEF SendCommitments
    <3> QED  BY <3>1, <3>2
  <2>4. \A q \in Participants : q # p => nonce'[q] = nonce[q] /\ commitment'[q] = commitment[q]
    BY <1>0, <1>7 DEF SendCommitments, TypeOK
  <2>5. \A m \in News : m.kind # "share"
    BY <2>n DEF Commit
  <2>6. \A q \in Members : Sharer(q) =>
            /\ nonce'[q] \in {nonce[q], 0}
            /\ nonce'[q] # 0 /\ share[q] => share'[q]
            /\ pc'[q] = "pass" /\ knows'[q] /\ commitment'[q][q] = 0 =>
                   pc[q] = "pass" /\ knows[q] /\ commitment[q][q] = 0
    BY <1>0, <2>2, <2>3, <2>4
  <2>7. /\ \A q \in Participants : knows'[q] => accounts'[q]
        /\ \A q \in Members : \A c \in package'[q] : Listed(c.signer)
    BY <1>0, <2>3
  <2> QED  BY <1>0, <2>3, <2>5, <2>6, <2>7, OnceStable
<1>8. ASSUME NEW p \in Participants, MakeSigpackages(p) PROVE OnceInv'
  <2>n. PICK News : News = {Parts(p, RowsOf(commitment[p]))}
    OBVIOUS
  <2>1. p = Coordinator
    BY <1>8, PartsPlan DEF MakeSigpackages, Planned
  <2>2. /\ UNCHANGED <<nonce, share, commitment, knows, accounts, mined>>
        /\ Published' \subseteq Published \cup News
        /\ \A q \in Participants : pc'[q] = "pass" => pc[q] = "pass"
        /\ \A q \in Members : package'[q] = package[q]
    BY <1>0, <1>p, <1>8, <2>n, <2>1 DEF MakeSigpackages, TypeOK
  <2>3. \A m \in News : m.kind # "share"
    BY <2>n DEF Parts
  <2>4. \A q \in Members : Sharer(q) =>
            /\ nonce'[q] \in {nonce[q], 0}
            /\ nonce'[q] # 0 /\ share[q] => share'[q]
            /\ pc'[q] = "pass" /\ knows'[q] /\ commitment'[q][q] = 0 =>
                   pc[q] = "pass" /\ knows[q] /\ commitment[q][q] = 0
    BY <1>0, <2>2
  <2>5. /\ \A q \in Participants : knows'[q] => accounts'[q]
        /\ \A q \in Members : \A c \in package'[q] : Listed(c.signer)
    BY <1>0, <2>2
  <2> QED  BY <1>0, <2>2, <2>3, <2>4, <2>5, OnceStable
<1>9. ASSUME NEW p \in Participants, SendSigshares(p) PROVE OnceInv'
  <2>1. ~share[p] /\ commitment[p][p] # 0
    BY <1>9, SharePlan DEF SendSigshares, Planned
  <2>2. /\ UNCHANGED <<nonce, package, commitment, knows, accounts>>
        /\ \A q \in Participants : share[q] => share'[q]
    BY <1>0, <1>9 DEF SendSigshares, TypeOK
  <2>3. ASSUME Published' \subseteq Published, mined' = mined,
               \A q \in Participants : pc'[q] = "pass" => pc[q] = "pass"
        PROVE  OnceInv'
    <3>1. PICK News : News = {}
      OBVIOUS
    <3>2. \A q \in Members : Sharer(q) =>
              /\ nonce'[q] \in {nonce[q], 0}
              /\ nonce'[q] # 0 /\ share[q] => share'[q]
              /\ pc'[q] = "pass" /\ knows'[q] /\ commitment'[q][q] = 0 =>
                     pc[q] = "pass" /\ knows[q] /\ commitment[q][q] = 0
      BY <1>0, <2>2, <2>3
    <3>3. /\ \A q \in Participants : knows'[q] => accounts'[q]
          /\ \A q \in Members : \A c \in package'[q] : Listed(c.signer)
      BY <1>0, <2>2
    <3>4. /\ Published' \subseteq Published \cup News /\ mined \subseteq mined'
          /\ \A m \in News : m.kind # "share"
      BY <2>3, <3>1
    <3> QED  BY <1>0, <3>2, <3>3, <3>4, OnceStable
  <2>4. CASE UNCHANGED outboxVars
    <3>1. \A q \in Participants : pc'[q] = "pass" => pc[q] = "pass"
      BY <1>0, <1>9, <2>4 DEF SendSigshares, Publish, Goto, TypeOK
    <3> QED  BY <2>3, <2>4, <3>1 DEF outboxVars, Published
  <2>5. CASE /\ Publish(p, Share(p)) /\ p # Coordinator
             /\ [signer |-> p, nonce |-> nonce[p]] \in package[p]
    <3>1. /\ Published' \subseteq Published \cup {Share(p)} /\ mined' = mined
          /\ \A q \in Participants : pc'[q] = "pass" => pc[q] = "pass"
      BY <1>p, <2>5
    <3>2. p \in Members /\ Listed(p)
      BY <1>0, <2>5 DEF Members
    <3>3. nonce[p] # 0
      <4>1. [signer |-> p, nonce |-> nonce[p]] \in Commitments
        BY <1>0, <2>5 DEF TypeOK
      <4>2. nonce[p] \in 1..MaxNonces
        BY <4>1 DEF Commitments
      <4> QED  BY <4>2, SigningAssumption
    <3>4. share'[p]
      BY <1>0, <1>9, <2>5 DEF SendSigshares, TypeOK
    <3>5. ~Sharer(p)
      BY <2>1, <3>3 DEF Sharer, OnceInv, Past
    <3>m. PICK msg : msg = Share(p)
      OBVIOUS
    <3>6. msg.kind = "share" /\ msg.from = p
      BY <3>m DEF Share
    <3>7. ASSUME NEW m \in Published, m.kind = "share" PROVE Past(m)' /\ m.from # p
      <4>1. Past(m) /\ m.from \in Members /\ m.from # p
        BY <3>5, <3>7, PublishedType, <1>0 DEF OnceInv, Past, Sharer, Messages, Members
      <4>2. Listed(m.from)'
        BY <3>1, <3>7, <4>1 DEF Past, Listed
      <4> QED  BY <1>0, <2>2, <3>1, <3>7, <4>1, <4>2 DEF Past
    <3>8. Past(msg)'
      <4>1. Listed(p)'
        BY <3>1, <3>2 DEF Listed
      <4> QED  BY <2>1, <2>2, <2>5, <3>4, <3>6, <4>1 DEF Past
    <3>9. \A m \in Published' : Past(m)'
      BY <3>1, <3>m, <3>7, <3>8 DEF Past
    <3>10. OneShareEver'
      <4> SUFFICES ASSUME NEW m \in Published', NEW o \in Published',
                          m.kind = "share", o.kind = "share", m.from = o.from
                   PROVE  m = o
        BY DEF OneShareEver
      <4>1. CASE m \in Published /\ o \in Published
        BY <4>1 DEF OnceInv, OneShareEver
      <4>2. CASE m = msg \/ o = msg
        BY <3>1, <3>m, <3>6, <3>7, <4>2
      <4> QED  BY <3>1, <3>m, <4>1, <4>2
    <3>11. \A q \in Members : \A c \in package'[q] : Listed(c.signer)'
      BY <1>0, <2>2, <3>1 DEF Listed
    <3>12. \A q \in Participants : knows'[q] => accounts'[q]
      BY <1>0, <2>2
    <3> QED  BY <3>9, <3>10, <3>11, <3>12 DEF OnceInv, Members
  <2> QED  BY <1>9, <2>4, <2>5 DEF SendSigshares
<1>10. ASSUME NEW p \in Participants, Aggregate(p) \/ EndSession(p) \/ Crash(p) PROVE OnceInv'
  <2>1. \A q \in Participants : pc'[q] = "pass" => pc[q] = "pass"
    BY <1>0, <1>10 DEF Aggregate, EndSession, Crash, Goto, TypeOK
  <2> QED  BY <1>q, <1>10, <2>1 DEF Aggregate, EndSession, Crash, outboxVars, signVars, Published
<1>11. ASSUME NEW p \in Participants, DeleteState(p) PROVE OnceInv'
  <2>1. /\ UNCHANGED <<mempool, mined, expired, lost>>
        /\ pc' = [pc EXCEPT ![p] = "idle"]
        /\ nonce' = [nonce EXCEPT ![p] = 0]
        /\ package' = [package EXCEPT ![p] = {}]
        /\ share' = [share EXCEPT ![p] = FALSE]
    BY <1>11 DEF DeleteState, DeleteSignatures, Goto
  <2>2. /\ \A q \in Participants : staged'[q] \in {staged[q], NoMessage}
        /\ \A q \in Participants : q # p => knows'[q] = knows[q] /\ accounts'[q] = accounts[q]
        /\ knows'[p] => knows[p] /\ accounts'[p] = accounts[p]
    BY <1>0, <1>11 DEF DeleteState, DeleteProps, Forget, TypeOK, OutboxTypeOK
  <2>3. \A q \in Participants : q # p => commitment'[q] = commitment[q]
    BY <1>0, <1>11 DEF DeleteState, DeleteCommitments, TypeOK
  <2>4. Published' \subseteq Published
    BY <2>1, <2>2 DEF Published
  <2>5. \A q \in Participants :
            /\ pc'[q] = IF q = p THEN "idle" ELSE pc[q]
            /\ nonce'[q] = IF q = p THEN 0 ELSE nonce[q]
            /\ package'[q] = IF q = p THEN {} ELSE package[q]
            /\ share'[q] = IF q = p THEN FALSE ELSE share[q]
    BY <1>0, <2>1 DEF TypeOK
  <2>6. \A q \in Members : Sharer(q) =>
            /\ nonce'[q] \in {nonce[q], 0}
            /\ nonce'[q] # 0 /\ share[q] => share'[q]
            /\ pc'[q] = "pass" /\ knows'[q] /\ commitment'[q][q] = 0 =>
                   pc[q] = "pass" /\ knows[q] /\ commitment[q][q] = 0
    BY <1>0, <2>2, <2>3, <2>5
  <2>7. /\ \A q \in Participants : knows'[q] => accounts'[q]
        /\ \A q \in Members : \A c \in package'[q] : Listed(c.signer)
    BY <1>0, <2>2, <2>5
  <2>8. PICK News : News = {}
    OBVIOUS
  <2>9. /\ Published' \subseteq Published \cup News /\ mined \subseteq mined'
        /\ \A m \in News : m.kind # "share"
    BY <2>1, <2>4, <2>8
  <2> QED  BY <1>0, <2>6, <2>7, <2>9, OnceStable
<1>12. CASE Recorded \/ PassExpiry
  BY <1>q, <1>12 DEF Recorded, PassExpiry, outboxVars, Published
<1>13. CASE OutboxNext /\ UNCHANGED <<pc, signVars>>
  <2>1. mined \subseteq mined'
    BY <1>13 DEF OutboxNext, Mine, Drop, Expire, UserPays, PaymentMined
  <2> QED  BY <1>q, <1>13, <2>1, OutboxNews DEF signVars
<1>14. CASE UNCHANGED vars
  BY <1>q, <1>14 DEF vars, outboxVars, signVars, Published
<1> QED
  BY <1>1, <1>2, <1>3, <1>4, <1>5, <1>6, <1>7, <1>8, <1>9, <1>10, <1>11, <1>12, <1>13, <1>14
  DEF Next, DriverStep

\* A participant discloses one share, for any group, threshold, number of
\* restarts and faults, and without an excuse for those that start again or
\* whose teardown was cut short: what it met in the parts keeps it from drawing
\* the nonce of a second share.
THEOREM SharesOnce == Spec => []OneShareEver
<1>1. TypeInv /\ NonceInv /\ ShareInv /\ OnceInv /\ [Next]_vars
          => TypeInv' /\ NonceInv' /\ ShareInv' /\ OnceInv'
  BY TypeNext, NonceNext, ShareNext, OnceNext
<1>2. OnceInv => OneShareEver
  BY DEF OnceInv
<1> QED  BY <1>1, <1>2, TypeInit, NonceInit, ShareInit, OnceInit, PTL DEF Spec

-----------------------------------------------------------------------------
\* The funds waits.

\* In an open session the note is held by the message under way, that came
\* after the announcement.  A session that may be joined finds the note free.
FundsInv ==
    \A p \in Participants \ restarted :
        /\ open[p] /\ spent[p] # NoMessage => staged[p] = spent[p] /\ knows[p]
        /\ ~open[p] /\ drawn[p] = 0 /\ ~over => spent[p] = NoMessage
        /\ pc[p] = "end" => drawn[p] # 0

\* Nobody waits for funds at the start.
LEMMA FundsInit == Init => FundsInv
BY DEF Init, OutboxInit, FundsInv

\* Every step keeps what a wait for funds says.
LEMMA FundsNext == TypeInv /\ NonceInv /\ FundsInv /\ [Next]_vars => FundsInv'
<1> SUFFICES ASSUME TypeInv, NonceInv, FundsInv, [Next]_vars PROVE FundsInv'
  OBVIOUS
<1>0. TypeOK /\ OutboxTypeOK(Messages) /\ Labels /\ Drawn
  BY DEF TypeInv, TypeOK, NonceInv
<1> USE DEF FundsInv, TypeOK, OutboxTypeOK
\* A message published in an open session that knows its coordinator by then.
<1>m. ASSUME NEW p \in Participants, NEW m, Publish(p, m),
             open[p], pc[p] = "pass", knows'[p],
             UNCHANGED <<open, over, restarted>>,
             \A q \in Participants : q # p => drawn'[q] = drawn[q] /\ knows'[q] = knows[q],
             drawn[p] # 0 => drawn'[p] # 0
      PROVE  FundsInv'
  <2>1. \A q \in Participants : q # p => /\ spent'[q] = spent[q]
                                         /\ staged'[q] = staged[q]
                                         /\ pc'[q] = pc[q]
    BY <1>0, <1>m DEF Publish, StagePublish, Goto
  <2>2. spent'[p] = m /\ staged'[p] = m /\ pc'[p] # "end"
    BY <1>0, <1>m DEF Publish, StagePublish, Goto
  <2> QED  BY <1>m, <2>1, <2>2
<1>1. ASSUME NEW p \in Participants, Join(p) PROVE FundsInv'
  <2>1. p \notin restarted' => drawn[p] = 0
    BY <1>0, <1>1 DEF Join
  <2> QED  BY <1>0, <1>1, <2>1 DEF Join, outboxVars
<1>2. ASSUME NEW p \in Participants, Cancel(p) PROVE FundsInv'
  BY <1>0, <1>2 DEF Cancel, Goto
<1>3. ASSUME NEW p \in Participants, BeginPass(p) PROVE FundsInv'
  <2>1. /\ UNCHANGED <<open, drawn, over, restarted>>
        /\ \A q \in Participants : /\ pc'[q] = IF q = p THEN "pass" ELSE pc[q]
                                   /\ knows[q] => knows'[q]
                                   /\ spent[q] = staged[q] => spent'[q] = staged'[q]
                                   /\ spent'[q] \in {spent[q], NoMessage}
    BY <1>0, <1>3 DEF BeginPass, ScanOwn, Goto
  <2> QED  BY <2>1
<1>4. ASSUME NEW p \in Participants, EnsureMailbox(p) PROVE FundsInv'
  BY <1>4 DEF EnsureMailbox, outboxVars
<1>5. ASSUME NEW p \in Participants, Wait(p) \/ Unfunded(p) PROVE FundsInv'
  BY <1>0, <1>5 DEF Wait, Unfunded, Goto, outboxVars, signVars
<1>6. ASSUME NEW p \in Participants, WaitOwnPublish(p) PROVE FundsInv'
  BY <1>0, <1>6 DEF WaitOwnPublish, GiveUp, Goto, signVars
<1>7. ASSUME NEW p \in Participants, AnnounceCoordinator(p) PROVE FundsInv'
  <2>1. open[p] /\ pc[p] = "pass" /\ NextTask(p) = "AnnounceCoordinator"
    BY <1>0, <1>7 DEF AnnounceCoordinator, Planned, Labels
  <2>2. knows'[p] /\ \A q \in Participants : q # p => knows'[q] = knows[q]
    BY <1>0, <1>7 DEF AnnounceCoordinator
  <2>3. Publish(p, Address(p)) /\ UNCHANGED <<open, over, drawn, restarted>>
    BY <1>7 DEF AnnounceCoordinator
  <2> QED  BY <1>m, <2>1, <2>2, <2>3
<1>8. ASSUME NEW p \in Participants, SendCommitments(p) PROVE FundsInv'
  <2>1. open[p] /\ pc[p] = "pass" /\ knows[p] /\ NextTask(p) = "SendCommitments"
    BY <1>0, <1>8, CommitPlan DEF SendCommitments, Planned, Labels
  <2>2. /\ UNCHANGED <<open, over, restarted, knows>>
        /\ \A q \in Participants : q # p => drawn'[q] = drawn[q]
        /\ drawn'[p] # 0
    BY <1>0, <1>8 DEF SendCommitments
  <2>3. CASE p = Coordinator
    BY <1>8, <2>2, <2>3 DEF SendCommitments, outboxVars
  <2>4. CASE p # Coordinator
    BY <1>m, <1>8, <2>1, <2>2, <2>4 DEF SendCommitments
  <2> QED  BY <2>3, <2>4
<1>9. ASSUME NEW p \in Participants, MakeSigpackages(p) PROVE FundsInv'
  <2>1. open[p] /\ pc[p] = "pass" /\ knows[p] /\ NextTask(p) = "MakeSigpackages"
    BY <1>0, <1>9, PackagePlan DEF MakeSigpackages, Planned, Labels
  <2> QED  BY <1>m, <1>9, <2>1 DEF MakeSigpackages
<1>10. ASSUME NEW p \in Participants, SendSigshares(p) PROVE FundsInv'
  <2>1. open[p] /\ pc[p] = "pass" /\ knows[p] /\ NextTask(p) = "SendSigshares"
    BY <1>0, <1>10, SharePlan DEF SendSigshares, Planned, Labels
  <2>2. UNCHANGED <<open, over, restarted, knows, drawn>>
    BY <1>10 DEF SendSigshares
  <2>3. CASE UNCHANGED outboxVars /\ (UNCHANGED pc \/ Goto(p, "idle"))
    BY <1>0, <2>2, <2>3 DEF Goto, outboxVars
  <2>4. CASE Publish(p, Share(p))
    BY <1>m, <2>1, <2>2, <2>4
  <2> QED  BY <1>10, <2>3, <2>4 DEF SendSigshares
<1>11. ASSUME NEW p \in Participants, Aggregate(p) \/ EndSession(p) PROVE FundsInv'
  <2>1. NextTask(p) \in {"Done", "Abort", "Aggregate"} /\ pc[p] = "pass"
    BY <1>11 DEF Aggregate, EndSession, Planned
  <2>2. p \notin restarted => drawn[p] # 0
    BY <1>0, <2>1, EndPlan DEF Drawn, Labels
  <2> QED  BY <1>0, <1>11, <2>2 DEF Aggregate, EndSession, Goto, outboxVars, signVars
<1>12. ASSUME NEW p \in Participants, DeleteState(p) PROVE FundsInv'
  <2>1. /\ UNCHANGED <<spent, over, drawn>>
        /\ pc[p] = "end" \/ over
        /\ \A q \in Participants : pc'[q] = IF q = p THEN "idle" ELSE pc[q]
    BY <1>0, <1>12 DEF DeleteState, Overdue, Goto
  <2>2. /\ restarted \subseteq restarted'
        /\ p \notin restarted' => ~open'[p]
        /\ \A q \in Participants : q # p => /\ open'[q] = open[q]
                                            /\ staged'[q] = staged[q]
                                            /\ knows'[q] = knows[q]
    BY <1>0, <1>12 DEF DeleteState, DeleteProps, Forget
  <2> QED  BY <2>1, <2>2
<1>13. ASSUME NEW p \in Participants, Crash(p) PROVE FundsInv'
  BY <1>0, <1>13 DEF Crash, Goto, signVars
<1>14. CASE Recorded \/ PassExpiry
  BY <1>0, <1>14 DEF Recorded, PassExpiry, outboxVars
<1>15. CASE OutboxNext /\ UNCHANGED <<pc, signVars>>
  <2>1. UNCHANGED <<spent, staged>>
    BY <1>15 DEF OutboxNext, Mine, Drop, Expire, UserPays, PaymentMined
  <2> QED  BY <1>15, <2>1 DEF signVars
<1>16. CASE UNCHANGED vars
  BY <1>16 DEF vars, outboxVars, signVars
<1> QED
  BY <1>1, <1>2, <1>3, <1>4, <1>5, <1>6, <1>7, <1>8, <1>9, <1>10, <1>11, <1>12, <1>13,
     <1>14, <1>15, <1>16 DEF Next, DriverStep

\* A participant that does not start again never waits for the change of its
\* own last message when it is about to send: what holds the note is a payment.
THEOREM SigningFunds == Spec => []FundsWaitIsShortFunds
<1>1. TypeInv /\ NonceInv /\ FundsInv /\ [Next]_vars => TypeInv' /\ NonceInv' /\ FundsInv'
  BY TypeNext, NonceNext, FundsNext
<1>2. TypeInv /\ FundsInv => FundsWaitIsShortFunds
  <2> SUFFICES ASSUME TypeInv, FundsInv, NEW p \in Participants \ restarted, pc[p] = "pass",
                      NextTask(p) \in {"AnnounceCoordinator", "SendCommitments",
                                       "MakeSigpackages", "SendSigshares"}
               PROVE  spent[p] = NoMessage
    BY DEF FundsWaitIsShortFunds
  <2>1. open[p]
    BY DEF TypeInv, Labels
  <2>2. ~knows[p] \/ ~Unmined(p)
    BY AnnouncePlan, CommitPlan, PackagePlan, SharePlan
  <2> QED  BY <2>1, <2>2 DEF FundsInv, Unmined
<1> QED  BY <1>1, <1>2, TypeInit, NonceInit, FundsInit, PTL DEF Spec
=============================================================================
