------------------------------ MODULE Signing ------------------------------
(***************************************************************************)
(* The signing session of a FROST group (frost/sign): a coordinator and    *)
(* the members that joined sign one input of one transaction.  Members     *)
(* send their commitments, the coordinator answers with the parts of the   *)
(* signing package once it has exactly t of them, members send signature   *)
(* shares, and the coordinator aggregates and broadcasts.  Like the DKG,   *)
(* each wallet runs a planner of its own and they meet in mined memos.     *)
(*                                                                         *)
(* A nonce is a number no other nonce of its signer has; a commitment is   *)
(* the signer and the nonce.  The same message produced twice is one       *)
(* message: the readers tell nothing by its second transaction.            *)
(***************************************************************************)
EXTENDS Outbox

CONSTANTS Coordinator,
          Agreed,    \* the signing set agreed out of band: these do join
          T,         \* the threshold
          Restarters, \* participants whose user may cancel and join again
          MaxNonces  \* bound on the sessions a participant draws a nonce in

ASSUME SigningAssumption ==
    /\ Coordinator \in Agreed
    /\ Agreed \subseteq Participants
    /\ T = Cardinality(Agreed)
    /\ MaxNonces \in Nat \ {0}
    /\ IsFiniteSet(Participants)

Members == Participants \ {Coordinator}
Kinds == {"address", "commit", "parts", "share"}
Commitments == [signer : Participants, nonce : 1..MaxNonces]

\* An announcement carries neither a nonce nor a package, a commitment a
\* nonce, the parts a package, a share both.
Messages == [kind : Kinds, from : Participants, nonce : 0..MaxNonces, package : SUBSET Commitments]

VARIABLES pc,
          open,       \* props frost_pczt and frost_sign_params
          accounts,   \* whether the mailbox and the broadcast account exist
          knows,      \* prop frost_coordinator_address
          nonce,      \* frost_signatures.nonce, 0 without a row
          package,    \* frost_signatures.sigpackage
          share,      \* whether frost_signatures.sigshare is set
          commitment, \* frost_commitments.commitment by signer, 0 without a row
          answer,     \* frost_commitments.sigshare of the coordinator, by member
          transaction, \* of the session: not sent, sent, or in the chain and scanned
          over,       \* the tip passed the expiry of the transaction to sign
          drawn,      \* history: the nonces drawn
          restarted   \* history: who cancelled, joined again or was
                      \* interrupted in a teardown

signVars == <<open, accounts, knows, nonce, package, share, commitment, answer,
              transaction, over, drawn, restarted>>
vars == <<outboxVars, pc, signVars>>

TypeOK ==
    /\ OutboxTypeOK(Messages)
    /\ pc \in [Participants -> {"idle", "pass", "end"}]
    /\ open \in [Participants -> BOOLEAN]
    /\ accounts \in [Participants -> BOOLEAN]
    /\ knows \in [Participants -> BOOLEAN]
    /\ nonce \in [Participants -> 0..MaxNonces]
    /\ package \in [Participants -> SUBSET Commitments]
    /\ share \in [Participants -> BOOLEAN]
    /\ commitment \in [Participants -> [Participants -> 0..MaxNonces]]
    /\ answer \in [Members -> Messages \cup {NoMessage}]
    /\ transaction \in {"unsent", "sent", "recorded"}
    /\ over \in BOOLEAN
    /\ drawn \in [Participants -> 0..MaxNonces]
    /\ restarted \subseteq Participants

Init ==
    /\ OutboxInit
    /\ pc = [p \in Participants |-> "idle"]
    /\ open = [p \in Participants |-> FALSE]
    /\ accounts = [p \in Participants |-> FALSE]
    /\ knows = [p \in Participants |-> FALSE]
    /\ nonce = [p \in Participants |-> 0]
    /\ package = [p \in Participants |-> {}]
    /\ share = [p \in Participants |-> FALSE]
    /\ commitment = [p \in Participants |-> [q \in Participants |-> 0]]
    /\ answer = [m \in Members |-> NoMessage]
    /\ transaction = "unsent"
    /\ over = FALSE
    /\ drawn = [p \in Participants |-> 0]
    /\ restarted = {}

-----------------------------------------------------------------------------
\* The messages a participant would send.

Address(p) == [kind |-> "address", from |-> p, nonce |-> 0, package |-> {}]
Commit(p, n) == [kind |-> "commit", from |-> p, nonce |-> n, package |-> {}]
Parts(p, P) == [kind |-> "parts", from |-> p, nonce |-> 0, package |-> P]
Share(p) == [kind |-> "share", from |-> p, nonce |-> nonce[p], package |-> package[p]]

\* The rows of a participant as commitments.
RowsOf(row) == {c \in Commitments : row[c.signer] = c.nonce}

-----------------------------------------------------------------------------
\* What a pass takes in: observe_sign, after the synchronization.  The
\* coordinator reads its mailbox and the broadcast account, a member's own
\* mailbox receives nothing.

Visible(p, kind) == {m \in mined : m.kind = kind /\ accounts[p]}

Received(p) == {c \in Commitments : /\ p = Coordinator
                                    /\ Commit(c.signer, c.nonce) \in Visible(p, "commit")}
Announced(p) == UNION {m.package : m \in Visible(p, "parts")}

\* Mutant: a participant does not take its own commitment from the parts.
OffersOfOthers(p, q) ==
    LET received == {c.nonce : c \in {c \in Received(p) : c.signer = q}}
        announced == {c.nonce : c \in {c \in Announced(p) : c.signer = q /\ q # p}}
    IN  IF commitment[p][q] # 0 THEN {commitment[p][q]}
        ELSE IF received # {} THEN received
        ELSE IF announced # {} THEN announced
        ELSE {0}

\* "ON CONFLICT DO NOTHING": a row stays what it was first.  Among several
\* offers the order of the memos decides, commitments before parts.
Offers(p, q) ==
    LET received == {c.nonce : c \in {c \in Received(p) : c.signer = q}}
        announced == {c.nonce : c \in {c \in Announced(p) : c.signer = q}}
    IN  IF commitment[p][q] # 0 THEN {commitment[p][q]}
        ELSE IF received # {} THEN received
        ELSE IF announced # {} THEN announced
        ELSE {0}

\* Mutant: a package of more than t commitments will do.
AssembleAny(p, row) ==
    IF /\ package[p] = {}
       /\ nonce[p] # 0
       /\ Visible(p, "parts") # {}
       /\ Cardinality(RowsOf(row)) >= T
    THEN RowsOf(row)
    ELSE package[p]

\* assemble_sigpackages: the package of exactly t commitments, once a part
\* brought the randomizer to the row our nonce is in.
Assemble(p, row) ==
    IF /\ package[p] = {}
       /\ nonce[p] # 0
       /\ Visible(p, "parts") # {}
       /\ Cardinality(RowsOf(row)) = T
    THEN RowsOf(row)
    ELSE package[p]

\* A share updates the row of its signer, if it is there: the last one stays.
Answers(row, m) ==
    LET shares == {o \in Visible(Coordinator, "share") : o.from = m}
    IN  IF row[m] # 0 /\ shares # {} THEN shares ELSE {answer[m]}

-----------------------------------------------------------------------------
\* The planner: next_sign_task of sign/plan.rs.

Needing(p, task) == IF Unmined(p) THEN "WaitOwnPublish" ELSE task

PackageTask(p) ==
    LET count == Cardinality(RowsOf(commitment[p]))
    IN  IF p # Coordinator THEN "WaitSigpackages"
        ELSE IF count > T THEN "Abort"
        ELSE IF count < T THEN "WaitCommitments"
        ELSE Needing(p, "MakeSigpackages")

ShareCount ==
    Cardinality({m \in Members : answer[m] # NoMessage})
    + IF share[Coordinator] /\ commitment[Coordinator][Coordinator] # 0 THEN 1 ELSE 0

LastTask(p) ==
    IF p # Coordinator THEN Needing(p, "Done")
    ELSE IF ShareCount < T THEN "WaitSigshares"
    ELSE "Aggregate"

NextTask(p) ==
    IF ~accounts[p] THEN "EnsureMailbox"
    ELSE IF ~knows[p] THEN IF p = Coordinator THEN "AnnounceCoordinator" ELSE "WaitCoordinator"
    ELSE IF commitment[p][p] = 0 THEN Needing(p, "SendCommitments")
    ELSE IF package[p] = {} THEN PackageTask(p)
    ELSE IF ~share[p] THEN Needing(p, "SendSigshares")
    ELSE LastTask(p)

Planned(p, task) == pc[p] = "pass" /\ NextTask(p) = task

Goto(p, label) == pc' = [pc EXCEPT ![p] = label]

-----------------------------------------------------------------------------
\* The user.

\* init_sign.  It does not look at the expiry; a session started past it is
\* left out, the next pass would end it.
Join(p) ==
    /\ pc[p] = "idle"
    /\ ~open[p]
    /\ ~over
    /\ drawn[p] < MaxNonces
    /\ drawn[p] > 0 => p \in Restarters
    /\ open' = [open EXCEPT ![p] = TRUE]
    /\ restarted' = IF drawn[p] > 0 THEN restarted \cup {p} ELSE restarted
    /\ UNCHANGED <<outboxVars, pc, accounts, knows, nonce, package, share, commitment,
                   answer, transaction, over, drawn>>

\* reset_sign, between two passes.
Cancel(p) ==
    /\ Fault
    /\ p \in Restarters
    /\ pc[p] = "idle"
    /\ open[p]
    /\ restarted' = restarted \cup {p}
    /\ Goto(p, "end")
    /\ UNCHANGED <<spent, paying, staged, mempool, mined, expired, lost>>
    /\ UNCHANGED <<open, accounts, knows, nonce, package, share, commitment,
                   answer, transaction, over, drawn>>

-----------------------------------------------------------------------------
\* The pass.

\* Mutant: the expiry of the transaction is not looked at.
NeverOver == FALSE

\* do_sign_impl ends a session whose transaction can no longer be mined.
Overdue == over

\* A synchronization, then the memos are taken in.  Nothing else
\* synchronizes while the pass lasts.
BeginPass(p) ==
    /\ pc[p] = "idle"
    /\ open[p]
    /\ ~Overdue
    /\ ScanOwn(p, TRUE)
    /\ \E row \in [Participants -> UNION {Offers(p, q) : q \in Participants}] :
           /\ \A q \in Participants : row[q] \in Offers(p, q)
           /\ commitment' = [commitment EXCEPT ![p] = row]
           /\ package' = [package EXCEPT ![p] = Assemble(p, row)]
           /\ knows' = [knows EXCEPT ![p] = @ \/ Visible(p, "address") # {}]
           /\ IF p = Coordinator
              THEN \E last \in [Members -> UNION {Answers(row, m) : m \in Members}] :
                       /\ \A m \in Members : last[m] \in Answers(row, m)
                       /\ answer' = last
              ELSE UNCHANGED answer
    /\ Goto(p, "pass")
    /\ UNCHANGED <<paying, mempool, mined, expired, lost, faults>>
    /\ UNCHANGED <<open, accounts, nonce, share, transaction, over, drawn, restarted>>

EnsureMailbox(p) ==
    /\ Planned(p, "EnsureMailbox")
    /\ accounts' = [accounts EXCEPT ![p] = TRUE]
    /\ UNCHANGED <<outboxVars, pc, open, knows, nonce, package, share, commitment, answer,
                   transaction, over, drawn, restarted>>

\* A wait on the others ends the pass.
Wait(p) ==
    /\ \E task \in {"WaitCoordinator", "WaitCommitments", "WaitSigpackages", "WaitSigshares"} :
           Planned(p, task)
    /\ Goto(p, "idle")
    /\ UNCHANGED <<outboxVars, signVars>>

\* Mutant: our message is waited on and not sent again.
WaitIdly(p) ==
    /\ Planned(p, "WaitOwnPublish")
    /\ \/ GiveUp(p) /\ UNCHANGED <<mempool, pc>>
       \/ /\ staged[p] \notin expired
          /\ Goto(p, "idle")
          /\ UNCHANGED <<spent, staged, mempool>>
    /\ UNCHANGED <<paying, mined, expired, lost, faults, signVars>>

\* own_publish: the message is given up and the pass plans again, or it is
\* sent again and the pass ends.
WaitOwnPublish(p) ==
    /\ Planned(p, "WaitOwnPublish")
    /\ \/ GiveUp(p) /\ UNCHANGED <<mempool, pc>>
       \/ /\ staged[p] \notin expired
          /\ Post(staged[p])
          /\ Goto(p, "idle")
          /\ UNCHANGED <<spent, staged>>
    /\ UNCHANGED <<paying, mined, expired, lost, faults, signVars>>

\* A message and the rows it comes with are one transaction of the database;
\* without a note to spend all of it is rolled back and the pass ends.  Then
\* the message is sent and the pass goes on, or the wallet is closed before
\* that, or the node refuses: nobody else can tell when in between.  A message
\* produced again is a new transaction with an expiry of its own.
Publish(p, m) ==
    /\ Fundable(p)
    /\ StagePublish(p, m)
    /\ expired' = expired \ {m}
    /\ \/ /\ mempool' = mempool \cup ({m} \ mined)
          /\ UNCHANGED <<pc, lost, faults>>
       \/ /\ Fault
          /\ lost' = lost \cup {m}
          /\ Goto(p, "idle")
          /\ UNCHANGED mempool
    /\ UNCHANGED <<paying, mined>>

Unfunded(p) ==
    /\ \/ Planned(p, "AnnounceCoordinator")
       \/ Planned(p, "MakeSigpackages")
       \/ p # Coordinator /\ Planned(p, "SendCommitments")
       \/ /\ p # Coordinator
          /\ Planned(p, "SendSigshares")
          /\ [signer |-> p, nonce |-> nonce[p]] \in package[p]
    /\ ~Fundable(p)
    /\ Goto(p, "idle")
    /\ UNCHANGED <<outboxVars, signVars>>

AnnounceCoordinator(p) ==
    /\ Planned(p, "AnnounceCoordinator")
    /\ Publish(p, Address(p))
    /\ knows' = [knows EXCEPT ![p] = TRUE]
    /\ UNCHANGED <<open, accounts, nonce, package, share, commitment, answer, transaction, over,
                   drawn, restarted>>

\* Mutant: the commitment goes out and its row is left for later.
CommitAlone(p) ==
    /\ Planned(p, "SendCommitments")
    /\ drawn[p] < MaxNonces
    /\ IF p = Coordinator
       THEN UNCHANGED <<outboxVars, pc>>
       ELSE Publish(p, Commit(p, drawn[p] + 1))
    /\ drawn' = [drawn EXCEPT ![p] = @ + 1]
    /\ nonce' = [nonce EXCEPT ![p] = drawn[p] + 1]
    /\ UNCHANGED <<open, accounts, knows, package, share, commitment, answer, transaction, over,
                   restarted>>

\* The coordinator sends itself nothing.
SendCommitments(p) ==
    /\ Planned(p, "SendCommitments")
    /\ drawn[p] < MaxNonces
    /\ IF p = Coordinator
       THEN UNCHANGED <<outboxVars, pc>>
       ELSE Publish(p, Commit(p, drawn[p] + 1))
    /\ drawn' = [drawn EXCEPT ![p] = @ + 1]
    /\ nonce' = [nonce EXCEPT ![p] = drawn[p] + 1]
    /\ commitment' = [commitment EXCEPT ![p][p] = drawn[p] + 1]
    /\ UNCHANGED <<open, accounts, knows, package, share, answer, transaction, over, restarted>>

\* The package is kept in the row of our nonce, if there is one.
MakeSigpackages(p) ==
    LET made == RowsOf(commitment[p]) IN
    /\ Planned(p, "MakeSigpackages")
    /\ Publish(p, Parts(p, made))
    /\ package' = [package EXCEPT ![p] = IF nonce[p] # 0 THEN made ELSE {}]
    /\ UNCHANGED <<open, accounts, knows, nonce, share, commitment, answer, transaction, over,
                   drawn, restarted>>

\* sign() fails unless the package has the commitment to our nonce, and the
\* pass with it.
SendSigshares(p) ==
    /\ Planned(p, "SendSigshares")
    /\ IF [signer |-> p, nonce |-> nonce[p]] \in package[p]
       THEN /\ IF p = Coordinator
               THEN UNCHANGED <<outboxVars, pc>>
               ELSE Publish(p, Share(p))
            /\ share' = [share EXCEPT ![p] = TRUE]
       ELSE /\ Goto(p, "idle")
            /\ UNCHANGED <<outboxVars, share>>
    /\ UNCHANGED <<open, accounts, knows, nonce, package, commitment, answer, transaction, over,
                   drawn, restarted>>

\* The shares are those of the package's signers, over that package.
Aggregates ==
    LET P == package[Coordinator] IN
    /\ {m \in Members : answer[m] # NoMessage} \cup {Coordinator} = {c.signer : c \in P}
    /\ \A m \in Members : answer[m] # NoMessage =>
           answer[m].package = P /\ [signer |-> m, nonce |-> answer[m].nonce] \in P

\* aggregate_and_send: a signature that does not verify, or a transaction
\* the node refuses, fails the pass and the next one tries again.
Aggregate(p) ==
    /\ Planned(p, "Aggregate")
    /\ IF Aggregates /\ (transaction = "recorded" \/ (transaction = "unsent" /\ ~over))
       THEN /\ Goto(p, "end")
            /\ transaction' = IF transaction = "unsent" THEN "sent" ELSE transaction
       ELSE Goto(p, "idle") /\ UNCHANGED transaction
    /\ UNCHANGED <<outboxVars, open, accounts, knows, nonce, package, share, commitment, answer,
                   over, drawn, restarted>>

\* Mutant: the session is declared finished and its state is kept.
KeepSession(p) ==
    /\ Planned(p, "Done") \/ Planned(p, "Abort")
    /\ Goto(p, "finished")
    /\ UNCHANGED <<outboxVars, signVars>>

\* A member is done; a coordinator with too many commitments gives up.
EndSession(p) ==
    /\ Planned(p, "Done") \/ Planned(p, "Abort")
    /\ Goto(p, "end")
    /\ UNCHANGED <<outboxVars, signVars>>

-----------------------------------------------------------------------------
\* The teardown: delete_frost_state, one table after the other: our nonce with
\* its package, the rows of the commitments, the props with the marker and,
\* after these, the accounts.  Closed before the props are deleted the wallet
\* comes back to the session.

DeleteSignatures(p) ==
    /\ nonce' = [nonce EXCEPT ![p] = 0]
    /\ package' = [package EXCEPT ![p] = {}]
    /\ share' = [share EXCEPT ![p] = FALSE]

DeleteCommitments(p) ==
    /\ commitment' = [commitment EXCEPT ![p] = [q \in Participants |-> 0]]
    /\ answer' = IF p = Coordinator THEN [m \in Members |-> NoMessage] ELSE answer

DeleteProps(p) ==
    /\ Forget(p)
    /\ open' = [open EXCEPT ![p] = FALSE]
    /\ knows' = [knows EXCEPT ![p] = FALSE]
    /\ accounts' = [accounts EXCEPT ![p] = FALSE]

DeleteState(p) ==
    /\ pc[p] = "end" \/ (pc[p] = "idle" /\ open[p] /\ Overdue)
    /\ DeleteSignatures(p)
    /\ \/ DeleteCommitments(p) /\ DeleteProps(p) /\ UNCHANGED <<faults, restarted>>
       \/ /\ Fault
          /\ drawn[p] < MaxNonces
          /\ DeleteCommitments(p) \/ UNCHANGED <<commitment, answer>>
          /\ restarted' = restarted \cup {p}
          /\ UNCHANGED <<staged, open, knows, accounts>>
    /\ Goto(p, "idle")
    /\ UNCHANGED <<spent, paying, mempool, mined, expired, lost, transaction, over, drawn>>

\* The wallet is closed, or killed, between two tasks and opened again.
Crash(p) ==
    /\ Fault
    /\ pc[p] # "idle"
    /\ Goto(p, "idle")
    /\ UNCHANGED <<spent, paying, staged, mempool, mined, expired, lost, signVars>>

-----------------------------------------------------------------------------
\* The chain: the transaction of the session is scanned, or its expiry passes.

Recorded ==
    /\ transaction = "sent"
    /\ transaction' = "recorded"
    /\ UNCHANGED <<outboxVars, pc, open, accounts, knows, nonce, package, share, commitment,
                   answer, over, drawn, restarted>>

PassExpiry ==
    /\ ~over
    /\ over' = TRUE
    /\ UNCHANGED <<outboxVars, pc, open, accounts, knows, nonce, package, share, commitment,
                   answer, transaction, drawn, restarted>>

DriverStep(p) ==
    \/ BeginPass(p)
    \/ EnsureMailbox(p)
    \/ Wait(p)
    \/ WaitOwnPublish(p)
    \/ Unfunded(p)
    \/ AnnounceCoordinator(p)
    \/ SendCommitments(p)
    \/ MakeSigpackages(p)
    \/ SendSigshares(p)
    \/ Aggregate(p)
    \/ EndSession(p)
    \/ DeleteState(p)

Next ==
    \/ \E p \in Participants : DriverStep(p) \/ Join(p) \/ Cancel(p) \/ Crash(p)
    \/ Recorded
    \/ PassExpiry
    \/ OutboxNext /\ UNCHANGED <<pc, signVars>>

\* The signers agreed on do join; nobody else has to, or again.
Fairness ==
    /\ \A p \in Participants : WF_vars(DriverStep(p))
    /\ WF_vars(\E p \in Agreed : drawn[p] = 0 /\ Join(p))
    /\ OutboxFairness

Spec == Init /\ [][Next]_vars /\ Fairness

-----------------------------------------------------------------------------
\* Properties.

Published ==
    mempool \cup mined \cup expired \cup lost
        \cup ({staged[p] : p \in Participants} \ {NoMessage})

\* "exactly t commitments, the count the coordinator requires"
\* (sign/state.rs): a share that a participant discloses is over a package
\* whose parts the coordinator has sent, whoever else joined and however the
\* commitments and the parts crossed, unless the participant started again.
ShareAnswersCoordinator ==
    \A m \in Published : m.kind = "share" /\ m.from \notin restarted =>
        Parts(Coordinator, m.package) \in mined

\* A nonce is drawn, a package made and a share computed once: through
\* crashes, funds waits and resends a participant that does not start again
\* never sends two different messages of one kind (sign/exec.rs).
OneMessageEach ==
    \A m, o \in Published :
        m.from = o.from /\ m.kind = o.kind /\ m.from \notin restarted => m = o

\* delete_frost_state deletes one table after the other, the nonce first: a
\* participant discloses one share, whatever is cancelled, torn down halfway or
\* started again afterwards, although a session met twice has the commitments
\* and the parts of the first before it, and a new nonce.
OneShareEver ==
    \A m, o \in Published :
        m.kind = "share" /\ o.kind = "share" /\ m.from = o.from => m = o

\* send() of next_sign_task: a funds wait means short funds.  A participant
\* that does not start again never meets the note of its own last message.
FundsWaitIsShortFunds ==
    \A p \in Participants \ restarted :
        /\ pc[p] = "pass"
        /\ NextTask(p) \in {"AnnounceCoordinator", "SendCommitments",
                            "MakeSigpackages", "SendSigshares"}
        => spent[p] = NoMessage

\* do_sign_impl: past the transaction's expiry every session ends, in
\* whatever state it is stuck and whatever was interrupted.
SessionEnds == over ~> \A p \in Participants : ~open[p]

\* What a session does not survive: a message given up is not sent again, a
\* lost commitment is not either, a session started again meets the messages
\* of the first, and the set that joined may be too large.
Excused ==
    \/ over
    \/ expired # {}
    \/ restarted # {}
    \/ \E m \in lost : m.kind = "commit"
    \/ \A p \in Participants : open[p]

\* Every other crash, funds wait, refused broadcast and lost message is
\* repaired: the transaction is sent.
Completes == <>(Excused \/ transaction # "unsent")
=============================================================================
