------------------------------- MODULE Outbox -------------------------------
(***************************************************************************)
(* The publishing of protocol messages (frost/protocol.rs), shared by the  *)
(* DKG and the signing session.  A message is a transaction paid from a    *)
(* note of the participant's funding account and it is published write     *)
(* ahead: the signed transaction, its marker and the lock on the note are  *)
(* committed before it is broadcast.  The marker is cleared when a scan    *)
(* finds the message in the chain, or when it is given up past its expiry. *)
(*                                                                         *)
(* The funding account is one note: its change is the next one.  The node  *)
(* and the chain are external: a mempool that may forget a transaction and *)
(* a set of mined ones, without forks (these are in WalletSync).           *)
(***************************************************************************)
EXTENDS Naturals, FiniteSets

CONSTANTS Participants,
          NoMessage,
          MaxFaults \* bound on crashes, lost and expired messages and payments
                    \* the users make meanwhile

ASSUME OutboxAssumption == MaxFaults \in Nat

VARIABLES spent,    \* the message that holds the funding note, or NoMessage
          paying,   \* whether a payment of the user holds it
          staged,   \* the marker: the message published and not known mined
          mempool,
          mined,
          expired,  \* messages the tip has passed the expiry height of
          lost,     \* history: messages that missed the mempool or fell out of it
          faults

outboxVars == <<spent, paying, staged, mempool, mined, expired, lost, faults>>

OutboxTypeOK(Messages) ==
    /\ spent \in [Participants -> Messages \cup {NoMessage}]
    /\ paying \in [Participants -> BOOLEAN]
    /\ staged \in [Participants -> Messages \cup {NoMessage}]
    /\ mempool \subseteq Messages
    /\ mined \subseteq Messages
    /\ expired \subseteq Messages
    /\ lost \subseteq Messages
    /\ faults \in 0..MaxFaults

OutboxInit ==
    /\ spent = [p \in Participants |-> NoMessage]
    /\ paying = [p \in Participants |-> FALSE]
    /\ staged = [p \in Participants |-> NoMessage]
    /\ mempool = {}
    /\ mined = {}
    /\ expired = {}
    /\ lost = {}
    /\ faults = 0

-----------------------------------------------------------------------------
\* The participant's side, called from the steps of the two protocols.

\* stage_publish finds a note to spend; otherwise its planner answers
\* NoFeasibleSelection.
Fundable(p) == spent[p] = NoMessage /\ ~paying[p]

\* stage_publish: the transaction, its marker and the lock on the note it
\* spends, in the caller's transaction.
StagePublish(p, m) ==
    /\ spent' = [spent EXCEPT ![p] = m]
    /\ staged' = [staged EXCEPT ![p] = m]

\* send_staged, resend_publish: the node takes a transaction it does not have
\* and rejects one that is mined already or past its expiry.
Post(m) == mempool' = mempool \cup ({m} \ (mined \cup expired))

\* publish_unmined.  The chain as of the last scan: a scan clears the marker
\* of a message it finds (ScanOwn), so a marker left is a message not mined.
Unmined(p) == staged[p] # NoMessage

\* What a scan does to the funding account: the change of a message it finds
\* is spendable.  The observation after it clears the message's marker.
ScanOwn(p, observed) ==
    /\ spent' = [spent EXCEPT ![p] = IF @ \in mined THEN NoMessage ELSE @]
    /\ staged' = [staged EXCEPT ![p] = IF @ \in mined /\ observed THEN NoMessage ELSE @]

\* publish_expired: the message is given up and its note is unlocked.
GiveUp(p) ==
    /\ staged[p] \in expired
    /\ spent' = [spent EXCEPT ![p] = IF @ = staged[p] THEN NoMessage ELSE @]
    /\ staged' = [staged EXCEPT ![p] = NoMessage]

\* The deletion of the props that hold the marker.  The note stays locked.
Forget(p) == staged' = [staged EXCEPT ![p] = NoMessage]

\* A fault of the environment, or a payment, within the bound.
Fault == faults < MaxFaults /\ faults' = faults + 1

\* The broadcast of p's message did not happen: a crash, or a refused post.
Unsent(p) == lost' = lost \cup {staged[p]}

-----------------------------------------------------------------------------
\* The node, the chain and the user.

Mine(m) ==
    /\ m \in mempool
    /\ mempool' = mempool \ {m}
    /\ mined' = mined \cup {m}
    /\ UNCHANGED <<spent, paying, staged, expired, lost, faults>>

\* The node forgets a transaction before it is mined.
Drop(m) ==
    /\ Fault
    /\ m \in mempool
    /\ mempool' = mempool \ {m}
    /\ lost' = lost \cup {m}
    /\ UNCHANGED <<spent, paying, staged, mined, expired>>

\* The tip passes the expiry height of a message that is not mined.
Expire(m) ==
    /\ Fault
    /\ m \in mempool \cup {staged[p] : p \in Participants}
    /\ m \notin mined \cup expired \cup {NoMessage}
    /\ mempool' = mempool \ {m}
    /\ expired' = expired \cup {m}
    /\ UNCHANGED <<spent, paying, staged, mined, lost>>

\* The user pays from the funding account and locks its note, until the
\* payment is mined and scanned.
UserPays(p) ==
    /\ Fault
    /\ Fundable(p)
    /\ paying' = [paying EXCEPT ![p] = TRUE]
    /\ UNCHANGED <<spent, staged, mempool, mined, expired, lost>>

PaymentMined(p) ==
    /\ paying[p]
    /\ paying' = [paying EXCEPT ![p] = FALSE]
    /\ UNCHANGED <<spent, staged, mempool, mined, expired, lost, faults>>

OutboxNext ==
    \/ \E m \in mempool \cup {staged[p] : p \in Participants} :
           Mine(m) \/ Drop(m) \/ Expire(m)
    \/ \E p \in Participants : UserPays(p) \/ PaymentMined(p)

\* Transactions that stay in the mempool are mined, payments too.
OutboxFairness ==
    /\ WF_outboxVars(\E m \in mempool : Mine(m))
    /\ WF_outboxVars(\E p \in Participants : PaymentMined(p))
=============================================================================
