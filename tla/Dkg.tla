-------------------------------- MODULE Dkg --------------------------------
(***************************************************************************)
(* The distributed key generation (frost/dkg): every participant runs the  *)
(* same planner over its own wallet, and the wallets meet only in the      *)
(* memos of mined transactions.  A pass of the driver synchronizes, takes  *)
(* in the packages that arrived, and executes one task after another until *)
(* it has to wait.                                                         *)
(*                                                                         *)
(* A package is the participant, the round and a number that no other      *)
(* package of that participant has: two packages produced for one round    *)
(* are different packages.  A round-2 package carries the number of the    *)
(* round-1 package of its sender, for it evaluates that one's polynomial.  *)
(* The rounds' cryptography is reduced to what part2 and part3 check.      *)
(***************************************************************************)
EXTENDS Outbox

CONSTANTS VersionMaps, \* the builds the participants may run
          Cancellers,  \* participants whose user may cancel the DKG
          MaxPackages  \* bound on the packages a participant produces

Rounds == 0..2

Packages == [from : Participants, round : Rounds, number : 1..MaxPackages]

ASSUME DkgAssumption ==
    /\ MaxPackages \in Nat \ {0}
    /\ NoMessage \notin Packages

VARIABLES pc,      \* where the driver of each participant is
          version, \* dkg_params.dkg_version
          helpers, \* whether the broadcast account exists
          secret,  \* dkg_state: the number of each round's package, 0 for none
          pending, \* dkg_state.pending_publish
          got,     \* dkg_peers: the packages ingested
          key,     \* dkg_state.key_pkg: the round-1 packages it sums up
          final,   \* how far the finalization is
          made,    \* history: the packages produced
          wiped    \* history: the participants whose cancel started

dkgVars == <<version, helpers, secret, pending, got, key, final, made, wiped>>
vars == <<outboxVars, pc, dkgVars>>

\* The finalization: no frost account, the account, dkg_params rekeyed to it,
\* then dkg_state, dkg_peers and dkg_addresses, then the helper accounts and
\* the props deleted.
Steps == [account |-> 1, params |-> 2, state |-> 3, peers |-> 4, addresses |-> 5, done |-> 6]

PCs == {"idle", "pass", "publish", "send", "teardown", "done",
        "cancel_peers", "cancel_rest", "cancelled"}

TypeOK ==
    /\ OutboxTypeOK(Packages)
    /\ pc \in [Participants -> PCs]
    /\ version \in VersionMaps
    /\ helpers \in [Participants -> BOOLEAN]
    /\ secret \in [Participants -> [Rounds -> 0..MaxPackages]]
    /\ pending \in [Participants -> Packages \cup {NoMessage}]
    /\ got \in [Participants -> SUBSET Packages]
    /\ key \in [Participants -> SUBSET Packages]
    /\ final \in [Participants -> 0..6]
    /\ made \in [Participants -> 0..MaxPackages]
    /\ wiped \subseteq Participants

\* set_dkg_params, with every address exchanged: the drivers may step.
Init ==
    /\ OutboxInit
    /\ pc = [p \in Participants |-> "idle"]
    /\ version \in VersionMaps
    /\ helpers = [p \in Participants |-> FALSE]
    /\ secret = [p \in Participants |-> [r \in Rounds |-> 0]]
    /\ pending = [p \in Participants |-> NoMessage]
    /\ got = [p \in Participants |-> {}]
    /\ key = [p \in Participants |-> {}]
    /\ final = [p \in Participants |-> 0]
    /\ made = [p \in Participants |-> 0]
    /\ wiped = {}

-----------------------------------------------------------------------------
\* What a participant knows.

Package(p, r) == [from |-> p, round |-> r, number |-> secret[p][r]]

\* RoundState.others >= n - 1: a package of every peer, our own not counted.
RoundComplete(p, r) ==
    \A q \in Participants \ {p} : \E m \in got[p] : m.from = q /\ m.round = r

\* Rounds 0 and 1 are sent to the account all share, our own included; round
\* 2 to the private mailbox of each peer.
Visible(p) == {m \in mined : IF m.round = 2 THEN m.from # p ELSE helpers[p]}

\* Mutant: "ON CONFLICT DO NOTHING", the first package of a slot stays.
FirstStays(P) == FALSE

\* store_peer_package: two packages for one slot are an error.
Conflicting(P) == \E m, o \in P : m.from = o.from /\ m.round = o.round /\ m # o

\* DkgRound0::collect, once round 0 is complete.
VersionMismatch(p) ==
    /\ secret[p][0] # 0
    /\ RoundComplete(p, 0)
    /\ \E m \in got[p] : m.round = 0 /\ version[m.from] # version[p]

\* part3 checks every share against the commitment of its sender.
SharesMatch(p) ==
    \A m \in got[p] : m.round = 2 => [m EXCEPT !.round = 1] \in got[p]

-----------------------------------------------------------------------------
\* The planner: next_task of dkg/plan.rs, past WaitAddresses.

Settled(p, r) == secret[p][r] # 0 /\ RoundComplete(p, r)

\* The round the loop over the rounds stops at, 3 when it runs through.
Round(p) ==
    CASE ~Settled(p, 0) -> 0
      [] Settled(p, 0) /\ ~Settled(p, 1) -> 1
      [] Settled(p, 0) /\ Settled(p, 1) /\ ~Settled(p, 2) -> 2
      [] OTHER -> 3

RoundTask(p, r, mustWait) ==
    IF secret[p][r] # 0 THEN "WaitRound"
    ELSE IF mustWait THEN "WaitOwnPublish"
    ELSE "PublishRound"

FinalTask(p) ==
    IF key[p] = {} THEN "FinalizeKey"
    ELSE IF final[p] = 0 THEN "CreateFrostAccount"
    ELSE "CompleteFinalize"

\* Mutant: the next round does not wait for our last message.
HastyTask(p) ==
    IF VersionMismatch(p) THEN "VersionMismatch"
    ELSE IF ~helpers[p] THEN "EnsureAccounts"
    ELSE IF pending[p] # NoMessage THEN "ResendPending"
    ELSE IF Round(p) < 3 THEN RoundTask(p, Round(p), FALSE)
    ELSE FinalTask(p)

\* Mutant: the version of the peers is not looked at.
MixedTask(p) ==
    IF ~helpers[p] THEN "EnsureAccounts"
    ELSE IF pending[p] # NoMessage THEN "ResendPending"
    ELSE IF Round(p) < 3 THEN RoundTask(p, Round(p), Unmined(p))
    ELSE FinalTask(p)

NextTask(p) ==
    IF VersionMismatch(p) THEN "VersionMismatch"
    ELSE IF ~helpers[p] THEN "EnsureAccounts"
    ELSE IF pending[p] # NoMessage THEN "ResendPending"
    ELSE IF Round(p) < 3 THEN RoundTask(p, Round(p), Unmined(p))
    ELSE FinalTask(p)

Planned(p, task) == pc[p] = "pass" /\ NextTask(p) = task

Goto(p, label) == pc' = [pc EXCEPT ![p] = label]

-----------------------------------------------------------------------------
\* The pass.

\* in_dkg: the rows are found under the funding account.
InDkg(p) == final[p] < Steps.params

\* one_pass synchronizes the funding and the helper accounts, then observe
\* ingests the memos.  Nothing else synchronizes while the pass lasts: the
\* observations between its tasks see the same memos.
BeginPass(p) ==
    /\ pc[p] = "idle"
    /\ InDkg(p)
    /\ LET all == got[p] \cup Visible(p)
           accepted == ~Conflicting(all)
       IN  /\ ScanOwn(p, accepted)
           /\ got' = [got EXCEPT ![p] = IF accepted THEN all ELSE @]
           /\ Goto(p, IF accepted THEN "pass" ELSE "idle")
    /\ UNCHANGED <<paying, mempool, mined, expired, lost, faults>>
    /\ UNCHANGED <<version, helpers, secret, pending, key, final, made, wiped>>

EnsureAccounts(p) ==
    /\ Planned(p, "EnsureAccounts")
    /\ helpers' = [helpers EXCEPT ![p] = TRUE]
    /\ UNCHANGED <<outboxVars, pc>>
    /\ UNCHANGED <<version, secret, pending, got, key, final, made, wiped>>

\* A wait on the peers, or the end.
Wait(p) ==
    /\ Planned(p, "WaitRound") \/ Planned(p, "VersionMismatch")
    /\ Goto(p, "idle")
    /\ UNCHANGED <<outboxVars, dkgVars>>

\* Mutant: our message is waited on and not sent again.
WaitIdly(p) ==
    /\ Planned(p, "WaitOwnPublish")
    /\ \/ GiveUp(p) /\ UNCHANGED <<mempool, pc>>
       \/ /\ staged[p] \notin expired
          /\ Goto(p, "idle")
          /\ UNCHANGED <<spent, staged, mempool>>
    /\ UNCHANGED <<paying, mined, expired, lost, faults, dkgVars>>

\* own_publish: the message is given up, and the pass plans again, or it is
\* sent again and the pass ends.
WaitOwnPublish(p) ==
    /\ Planned(p, "WaitOwnPublish")
    /\ \/ GiveUp(p) /\ UNCHANGED <<mempool, pc>>
       \/ /\ staged[p] \notin expired
          /\ Post(staged[p])
          /\ Goto(p, "idle")
          /\ UNCHANGED <<spent, staged>>
    /\ UNCHANGED <<paying, mined, expired, lost, faults, dkgVars>>

\* The number of the package produced for round r.  part2 computes round 2
\* from the round-1 secret, the other rounds draw a new one.
Fresh(p, r) == IF r = 2 THEN secret[p][1] ELSE made[p] + 1

\* Mutant: the package is committed without its secret.
StageAlone(p) ==
    LET r == Round(p) IN
    /\ Planned(p, "PublishRound")
    /\ Fresh(p, r) <= MaxPackages
    /\ pending' = [pending EXCEPT ![p] = [from |-> p, round |-> r, number |-> Fresh(p, r)]]
    /\ made' = [made EXCEPT ![p] = IF r = 2 THEN @ ELSE @ + 1]
    /\ Goto(p, "publish")
    /\ UNCHANGED <<outboxVars, version, helpers, secret, got, key, final, wiped>>

\* stage: the secret and the outgoing package in one transaction.
Stage(p) ==
    LET r == Round(p) IN
    /\ Planned(p, "PublishRound")
    /\ Fresh(p, r) <= MaxPackages
    /\ secret' = [secret EXCEPT ![p][r] = Fresh(p, r)]
    /\ pending' = [pending EXCEPT ![p] = [from |-> p, round |-> r, number |-> Fresh(p, r)]]
    /\ made' = [made EXCEPT ![p] = IF r = 2 THEN @ ELSE @ + 1]
    /\ Goto(p, "publish")
    /\ UNCHANGED <<outboxVars, version, helpers, got, key, final, wiped>>

\* publish_round with the secret stored: what is pending goes out.
ResendPending(p) ==
    /\ Planned(p, "ResendPending")
    /\ Goto(p, "publish")
    /\ UNCHANGED <<outboxVars, dkgVars>>

\* publish_staged: the transaction staged and the pending bytes cleared
\* together; without a note to spend the pass ends and they stay.
PublishStaged(p) ==
    /\ pc[p] = "publish"
    /\ IF Fundable(p)
       THEN /\ StagePublish(p, pending[p])
            /\ pending' = [pending EXCEPT ![p] = NoMessage]
            /\ Goto(p, "send")
       ELSE /\ Goto(p, "idle")
            /\ UNCHANGED <<spent, staged, pending>>
    /\ UNCHANGED <<paying, mempool, mined, expired, lost, faults>>
    /\ UNCHANGED <<version, helpers, secret, got, key, final, made, wiped>>

\* send_staged, then the pass goes on.
Send(p) ==
    /\ pc[p] = "send"
    /\ Post(staged[p])
    /\ Goto(p, "pass")
    /\ UNCHANGED <<spent, paying, staged, mined, expired, lost, faults, dkgVars>>

FinalizeKey(p) ==
    /\ Planned(p, "FinalizeKey")
    /\ IF SharesMatch(p)
       THEN /\ key' = [key EXCEPT ![p] = {m \in got[p] : m.round = 1 /\ m.from # p}
                                             \cup {Package(p, 1)}]
            /\ UNCHANGED pc
       ELSE Goto(p, "idle") /\ UNCHANGED key
    /\ UNCHANGED <<outboxVars, version, helpers, secret, pending, got, final, made, wiped>>

CreateFrostAccount(p) ==
    /\ Planned(p, "CreateFrostAccount")
    /\ final' = [final EXCEPT ![p] = Steps.account]
    /\ UNCHANGED <<outboxVars, pc, version, helpers, secret, pending, got, key, made, wiped>>

\* Mutant: the finalization goes on past its last step.
FinalizeAgain(p) ==
    /\ Planned(p, "CompleteFinalize") \/ pc[p] = "teardown"
    /\ final' = [final EXCEPT ![p] = @ + 1]
    /\ Goto(p, "teardown")
    /\ UNCHANGED <<outboxVars, version, helpers, secret, pending, got, key, made, wiped>>

\* complete_finalize, one statement after another and no transaction.  The
\* mailbox seed and the deletions of step 3 and 4 are one step: nobody looks.
CompleteFinalize(p) ==
    /\ Planned(p, "CompleteFinalize") \/ pc[p] = "teardown"
    /\ final' = [final EXCEPT ![p] = @ + 1]
    /\ Goto(p, IF final'[p] = Steps.done THEN "done" ELSE "teardown")
    /\ IF final'[p] = Steps.done
       THEN /\ Forget(p)
            /\ helpers' = [helpers EXCEPT ![p] = FALSE]
       ELSE UNCHANGED <<staged, helpers>>
    /\ UNCHANGED <<spent, paying, mempool, mined, expired, lost, faults>>
    /\ UNCHANGED <<version, secret, pending, got, key, made, wiped>>

-----------------------------------------------------------------------------
\* The cancel of a participant's user, which the driver runs between passes:
\* a pass in flight ends before its next task.  The rows are deleted one
\* table at a time from under the funding account; once dkg_addresses is
\* empty no driver steps, so the rest is one step.

CancelState(p) ==
    /\ p \in Cancellers
    /\ pc[p] \in {"idle", "pass"}
    /\ wiped' = wiped \cup {p}
    /\ IF final[p] < Steps.state
       THEN /\ secret' = [secret EXCEPT ![p] = [r \in Rounds |-> 0]]
            /\ pending' = [pending EXCEPT ![p] = NoMessage]
            /\ key' = [key EXCEPT ![p] = {}]
       ELSE UNCHANGED <<secret, pending, key>>
    /\ Goto(p, "cancel_peers")
    /\ UNCHANGED <<outboxVars, version, helpers, got, final, made>>

CancelPeers(p) ==
    /\ pc[p] = "cancel_peers"
    /\ got' = [got EXCEPT ![p] = IF final[p] < Steps.peers THEN {} ELSE @]
    /\ Goto(p, "cancel_rest")
    /\ UNCHANGED <<outboxVars, version, helpers, secret, pending, key, final, made, wiped>>

CancelRest(p) ==
    /\ pc[p] = "cancel_rest"
    /\ Forget(p)
    /\ helpers' = [helpers EXCEPT ![p] = FALSE]
    /\ Goto(p, "cancelled")
    /\ UNCHANGED <<spent, paying, mempool, mined, expired, lost, faults>>
    /\ UNCHANGED <<version, secret, pending, got, key, final, made, wiped>>

\* The wallet is closed, or killed, anywhere in a pass or in a cancel, and
\* opened again.  A message staged and not sent yet misses the mempool; so
\* does one that the node refuses when it is sent.
Crash(p) ==
    /\ Fault
    /\ pc[p] \in {"pass", "publish", "send", "teardown", "cancel_peers", "cancel_rest"}
    /\ IF pc[p] = "send" THEN Unsent(p) ELSE UNCHANGED lost
    /\ Goto(p, "idle")
    /\ UNCHANGED <<spent, paying, staged, mempool, mined, expired, dkgVars>>

-----------------------------------------------------------------------------

DriverStep(p) ==
    \/ BeginPass(p)
    \/ EnsureAccounts(p)
    \/ Wait(p)
    \/ WaitOwnPublish(p)
    \/ Stage(p)
    \/ ResendPending(p)
    \/ PublishStaged(p)
    \/ Send(p)
    \/ FinalizeKey(p)
    \/ CreateFrostAccount(p)
    \/ CompleteFinalize(p)
    \/ CancelPeers(p)
    \/ CancelRest(p)

Next ==
    \/ \E p \in Participants : DriverStep(p) \/ CancelState(p) \/ Crash(p)
    \/ OutboxNext /\ UNCHANGED <<pc, dkgVars>>

Fairness ==
    /\ \A p \in Participants : WF_vars(DriverStep(p))
    /\ OutboxFairness

Spec == Init /\ [][Next]_vars /\ Fairness

-----------------------------------------------------------------------------
\* Properties.

\* Intent before publish (dkg/exec.rs): whatever a participant that has not
\* cancelled has pending, staged, sent or mined for a round is the package of
\* the secret it stores, so that a crash and a resend never put a second
\* package, or one without its secret, in front of the peers.
IntentBeforePublish ==
    \A m \in Packages :
        /\ m.from \notin wiped
        /\ m \in mempool \cup mined \cup {staged[m.from], pending[m.from]}
        => m = Package(m.from, m.round)

Finished(p) == key[p] # {}

\* The all-n discipline (dkg/plan.rs): as long as nobody cancels, participants
\* that have a key package sum up the same round-1 packages and run the same
\* version, in whatever order the messages arrived and whatever was lost.
KeyAgreement ==
    wiped = {} =>
        \A p, q \in Participants :
            Finished(p) /\ Finished(q) => key[p] = key[q] /\ version[p] = version[q]

\* The conflict check of store_peer_package: a participant whose cancel was
\* interrupted starts over with new packages and never ends with a key other
\* than its peers', unless a message of it expires.
NoSplitKey ==
    expired = {} =>
        \A p, q \in Participants : Finished(p) /\ Finished(q) => key[p] = key[q]

\* publish_unmined: a funds wait means short funds.  A message about to be
\* staged never finds the note held by the participant's last message.
FundsWaitIsShortFunds ==
    \A p \in Participants : pc[p] = "publish" => spent[p] = NoMessage

\* What the protocol does not survive: a message given up is not produced
\* again, the last round's is not sent again, two participants that both lost
\* one wait for each other, and a finalization or a group that was broken up
\* or never fitted stays so.
Excused ==
    \/ expired # {}
    \/ wiped # {}
    \/ \E m \in lost : m.round = 2
    \/ \E m, o \in lost : m.from # o.from
    \/ \E p \in Participants : pc[p] = "idle" /\ final[p] \in Steps.params..Steps.addresses
    \/ \E p, q \in Participants : version[p] # version[q]

\* Every crash before the teardown, every funds wait and every round-0 or
\* round-1 message one participant loses is repaired: all finish.
Completes == <>(Excused \/ \A p \in Participants : pc[p] = "done")
=============================================================================
