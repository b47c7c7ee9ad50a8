--------------------------- MODULE ProtocolDriver ---------------------------
(***************************************************************************)
(* The protocol driver (frost/driver.rs): the task that advances a DKG or  *)
(* a FROST signing session, one pass at a time, and the handle the app and *)
(* the server keep on it (api/frost.rs).  The app opens a driver with a    *)
(* protocol page and drops it with the page, so two drivers may be alive;  *)
(* a pass takes the wallet's sync session, as the app's own syncs do.      *)
(***************************************************************************)
EXTENDS SyncSession, Integers, SequencesExt

CONSTANTS Drivers,    \* one for each time a page is opened
          App,        \* the task of the app's own syncs
          NoDriver,
          Steps,      \* calls that ask for a pass (Driver::step)
          Cancels,    \* calls that end the protocol session (Driver::cancel)
          Capacity,   \* of the mailbox: mpsc::channel(16)
          MaxEffects  \* bound on the steps a pass finds to take

Calls == Steps \cup Cancels

ASSUME ProtocolAssumption ==
    /\ Tasks = Drivers \cup {App}
    /\ App \notin Drivers
    /\ NoDriver \notin Drivers
    /\ Steps \cap Cancels = {}
    /\ IsFiniteSet(Cancels)
    /\ Capacity \in Nat \ {0}
    /\ MaxEffects \in Nat \ {0}

VARIABLES active,     \* whether a DKG or a signing session is in progress
          effects,    \* the steps it can take before it waits for its peers
          handle,     \* the driver the page or the server holds
          stage,      \* how far each driver is
          inbox,      \* each driver's mailbox
          batch,      \* the steps each driver's pass will answer
          cancelled,  \* the cancels taken from the mailbox, not yet run
          cancelling, \* the flag of each driver: cancels raised, not yet run
          unseen,     \* drivers whose last_height is not the chain's
          retry,      \* whether the last pass found the session busy
          call,       \* how far each call is
          target,     \* the driver a waiting call went to
          late,       \* history: steps sent since their driver's last pass began
          stale,      \* history: steps answered by a pass begun before them
          overran,    \* history: cancels in spite of which a step was started
          owing       \* history: drivers that have not retried a busy pass

wallet == <<active, effects>>
mail == <<inbox, batch, cancelled, cancelling>>
callers == <<call, target>>
history == <<late, stale, overran, owing>>
vars == <<sessionVars, wallet, handle, stage, mail, unseen, retry, callers, history>>

Stages == {"unborn", "idle", "pass", "enter", "sync", "plan", "step", "leave",
           "release", "answer", "cancel", "stopped"}

TypeOK ==
    /\ SessionTypeOK
    /\ active \in BOOLEAN
    /\ effects \in 0 .. MaxEffects
    /\ handle \in Drivers \cup {NoDriver}
    /\ stage \in [Drivers -> Stages]
    /\ inbox \in [Drivers -> Seq(Calls)]
    /\ batch \in [Drivers -> SUBSET Steps]
    /\ cancelled \in [Drivers -> SUBSET Cancels]
    /\ cancelling \in [Drivers -> Nat]
    /\ unseen \in SUBSET Drivers
    /\ retry \in [Drivers -> BOOLEAN]
    /\ call \in [Calls -> {"new", "raised", "sent", "done"}]
    /\ target \in [Calls -> Drivers \cup {NoDriver}]
    /\ late \in SUBSET Steps
    /\ stale \in SUBSET Steps
    /\ overran \in SUBSET Cancels
    /\ owing \in SUBSET Drivers

Init ==
    /\ SessionInit
    /\ active = FALSE
    /\ effects = 0
    /\ handle = NoDriver
    /\ stage = [d \in Drivers |-> "unborn"]
    /\ inbox = [d \in Drivers |-> <<>>]
    /\ batch = [d \in Drivers |-> {}]
    /\ cancelled = [d \in Drivers |-> {}]
    /\ cancelling = [d \in Drivers |-> 0]
    /\ unseen = Drivers
    /\ retry = [d \in Drivers |-> FALSE]
    /\ call = [r \in Calls |-> "new"]
    /\ target = [r \in Calls |-> NoDriver]
    /\ late = {}
    /\ stale = {}
    /\ overran = {}
    /\ owing = {}

-----------------------------------------------------------------------------
\* The chain, the user and the app's own syncs.

NewBlock ==
    /\ unseen' = {d \in Drivers : stage[d] # "stopped"}
    /\ UNCHANGED <<sessionVars, wallet, handle, stage, mail, retry, callers, history>>

\* A DKG or a signing session is stored; one at a time (#1549).
StartProtocol ==
    /\ ~active
    /\ active' = TRUE
    /\ effects' \in 1 .. MaxEffects
    /\ UNCHANGED <<sessionVars, handle, stage, mail, unseen, retry, callers, history>>

\* A call in progress borrows the handle, so the page cannot drop it.
HandleFree == handle = NoDriver \/ \A r \in Calls : target[r] # handle

\* ProtocolDriver::run drops the driver it had and starts a new one.
OpenPage(d) ==
    /\ stage[d] = "unborn"
    /\ HandleFree
    /\ handle' = d
    /\ stage' = [stage EXCEPT ![d] = "idle"]
    /\ UNCHANGED <<sessionVars, wallet, mail, unseen, retry, callers, history>>

\* ProtocolDriver::cancel, when the page closes.
ClosePage ==
    /\ handle # NoDriver
    /\ HandleFree
    /\ handle' = NoDriver
    /\ UNCHANGED <<sessionVars, wallet, stage, mail, unseen, retry, callers, history>>

\* A sync of the app queues for the session; any run can be cancelled.
AppRuns ==
    /\ Begin(App) \/ Publish(App) \/ Close(App) \/ Unlock(App)
    /\ UNCHANGED <<wallet, handle, stage, mail, unseen, retry, callers, history>>

CancelSync ==
    /\ Cancel
    /\ UNCHANGED <<wallet, handle, stage, mail, unseen, retry, callers, history>>

-----------------------------------------------------------------------------
\* The calls.

\* Driver::step waits for room in the mailbox.
SendStep(r) ==
    /\ handle # NoDriver
    /\ call[r] = "new"
    /\ Len(inbox[handle]) < Capacity
    /\ inbox' = [inbox EXCEPT ![handle] = Append(@, r)]
    /\ call' = [call EXCEPT ![r] = "sent"]
    /\ target' = [target EXCEPT ![r] = handle]
    /\ late' = late \cup {r}
    /\ UNCHANGED <<sessionVars, wallet, handle, stage, batch, cancelled, cancelling,
                   unseen, retry, stale, overran, owing>>

\* Mutant: the flag is left alone.
RaiseNothing(r) ==
    /\ handle # NoDriver
    /\ call[r] = "new"
    /\ call' = [call EXCEPT ![r] = "raised"]
    /\ target' = [target EXCEPT ![r] = handle]
    /\ UNCHANGED <<sessionVars, wallet, handle, stage, inbox, batch, cancelled, cancelling,
                   unseen, retry, history>>

\* Driver::cancel raises the flag before it waits for room ...
RaiseCancel(r) ==
    /\ handle # NoDriver
    /\ call[r] = "new"
    /\ cancelling' = [cancelling EXCEPT ![handle] = @ + 1]
    /\ call' = [call EXCEPT ![r] = "raised"]
    /\ target' = [target EXCEPT ![r] = handle]
    /\ UNCHANGED <<sessionVars, wallet, handle, stage, inbox, batch, cancelled,
                   unseen, retry, history>>

\* ... and then sends.
SendCancel(r) ==
    /\ call[r] = "raised"
    /\ Len(inbox[target[r]]) < Capacity
    /\ inbox' = [inbox EXCEPT ![target[r]] = Append(@, r)]
    /\ call' = [call EXCEPT ![r] = "sent"]
    /\ UNCHANGED <<sessionVars, wallet, handle, stage, batch, cancelled, cancelling,
                   unseen, retry, target, history>>

\* A caller gives up waiting for its answer, or for room: with room the
\* cancel is sent in the poll that raised the flag.
Abandon(r) ==
    /\ \/ call[r] = "sent"
       \/ call[r] = "raised" /\ Len(inbox[target[r]]) = Capacity
    /\ call' = [call EXCEPT ![r] = "done"]
    /\ target' = [target EXCEPT ![r] = NoDriver]
    /\ UNCHANGED <<sessionVars, wallet, handle, stage, mail, unseen, retry, history>>

\* api/frost.rs cancel_session with no driver: the session is deleted at once.
DirectCancel(r) ==
    /\ handle = NoDriver
    /\ call[r] = "new"
    /\ active' = FALSE
    /\ effects' = 0
    /\ call' = [call EXCEPT ![r] = "done"]
    /\ UNCHANGED <<sessionVars, handle, stage, mail, unseen, retry, target, history>>

-----------------------------------------------------------------------------
\* The driver loop.

Answered(rs) ==
    /\ call' = [r \in Calls |-> IF r \in rs THEN "done" ELSE call[r]]
    /\ target' = [r \in Calls |-> IF r \in rs THEN NoDriver ELSE target[r]]

\* Woken, the driver drains its mailbox: cancels run instead of the pass.
Wake(d) ==
    LET drained == ToSet(inbox[d])
        ending  == drained \cap Cancels
    IN  /\ inbox' = [inbox EXCEPT ![d] = <<>>]
        /\ batch' = [batch EXCEPT ![d] = drained \cap Steps]
        /\ cancelled' = [cancelled EXCEPT ![d] = ending]
        /\ IF ending = {}
             THEN /\ stage' = [stage EXCEPT ![d] = "pass"]
                  /\ late' = late \ drained
                  /\ owing' = owing \ {d}
             ELSE /\ stage' = [stage EXCEPT ![d] = "cancel"]
                  /\ UNCHANGED <<late, owing>>
        /\ UNCHANGED <<sessionVars, wallet, handle, cancelling, retry, callers, stale, overran>>

WakeOnMail(d) ==
    /\ stage[d] = "idle"
    /\ inbox[d] # <<>>
    /\ Wake(d)
    /\ UNCHANGED unseen

\* A tick of the poll: it wakes the driver for a new height, or to retry.
\* select! picks at random between a tick and a closed mailbox.
WakeOnTick(d) ==
    /\ stage[d] = "idle"
    /\ d \in unseen \/ retry[d]
    /\ Wake(d)
    /\ unseen' = unseen \ {d}

\* recv finds every handle dropped and the mailbox empty; the task ends and
\* its locals go with it.
Stop(d) ==
    /\ stage[d] = "idle"
    /\ handle # d
    /\ \A r \in Calls : target[r] # d
    /\ inbox[d] = <<>>
    /\ stage' = [stage EXCEPT ![d] = "stopped"]
    /\ unseen' = unseen \ {d}
    /\ retry' = [retry EXCEPT ![d] = FALSE]
    /\ cancelling' = [cancelling EXCEPT ![d] = 0]
    /\ owing' = owing \ {d}
    /\ UNCHANGED <<sessionVars, wallet, handle, inbox, batch, cancelled, callers, late, stale, overran>>

\* One cancel: it deletes the session, or fails; the flag is lowered after.
\* Their order is the mailbox's in the code and any here: they are alike.
RunCancel(d) ==
    /\ stage[d] = "cancel"
    /\ \/ active' = FALSE /\ effects' = 0
       \/ UNCHANGED <<active, effects>>
    /\ cancelling' = [cancelling EXCEPT ![d] = @ - 1]
    /\ \E r \in cancelled[d] :
           /\ cancelled' = [cancelled EXCEPT ![d] = @ \ {r}]
           /\ Answered({r})
    /\ UNCHANGED <<sessionVars, handle, stage, inbox, batch, unseen, retry, history>>

\* Mutant: the steps queued with the cancels are forgotten.
CancelsDoneOnly(d) ==
    /\ stage[d] = "cancel"
    /\ cancelled[d] = {}
    /\ batch' = [batch EXCEPT ![d] = {}]
    /\ stage' = [stage EXCEPT ![d] = "idle"]
    /\ retry' = [retry EXCEPT ![d] = FALSE]
    /\ owing' = owing \ {d}
    /\ late' = late \ batch[d]
    /\ UNCHANGED <<sessionVars, wallet, handle, inbox, cancelled, cancelling, unseen, callers,
                   stale, overran>>

\* The steps queued with the cancels are answered without a pass.
CancelsDone(d) ==
    /\ stage[d] = "cancel"
    /\ cancelled[d] = {}
    /\ Answered(batch[d])
    /\ batch' = [batch EXCEPT ![d] = {}]
    /\ stage' = [stage EXCEPT ![d] = "idle"]
    /\ retry' = [retry EXCEPT ![d] = FALSE]
    /\ owing' = owing \ {d}
    /\ late' = late \ batch[d]
    /\ UNCHANGED <<sessionVars, wallet, handle, inbox, cancelled, cancelling, unseen, stale, overran>>

-----------------------------------------------------------------------------
\* The pass.

Advance(d, from, to) ==
    /\ stage[d] = from
    /\ stage' = [stage EXCEPT ![d] = to]
    /\ UNCHANGED <<handle, mail, unseen, callers>>

\* Mutant: a busy pass is left to the next block.
EndPassForGood(d, from, busy) ==
    /\ Advance(d, from, IF phase[d] = "running" THEN "leave" ELSE "answer")
    /\ retry' = [retry EXCEPT ![d] = FALSE]
    /\ owing' = IF busy THEN owing \cup {d} ELSE owing
    /\ UNCHANGED <<sessionVars, late, stale, overran>>

\* A pass is over; with a run to drop first if it holds the session.
EndPass(d, from, busy) ==
    /\ Advance(d, from, IF phase[d] = "running" THEN "leave" ELSE "answer")
    /\ retry' = [retry EXCEPT ![d] = busy]
    /\ owing' = IF busy THEN owing \cup {d} ELSE owing
    /\ UNCHANGED <<sessionVars, late, stale, overran>>

\* in_dkg / in_sign: nothing in progress, or the database cannot tell.
NothingToDo(d) ==
    /\ EndPass(d, "pass", FALSE)
    /\ UNCHANGED wallet

SomethingToDo(d) ==
    /\ active
    /\ Advance(d, "pass", "enter")
    /\ UNCHANGED <<sessionVars, wallet, retry, history>>

\* Between the two the pass connects and reads the tip, which may fail.
Unreachable(d) ==
    /\ EndPass(d, "enter", FALSE)
    /\ UNCHANGED wallet

\* Mutant: the pass queues for the session and goes on.
EnterQueued(d) ==
    /\ Begin(d)
    /\ Advance(d, "enter", "sync")
    /\ UNCHANGED <<wallet, retry, history>>

Enter(d) ==
    /\ TryBegin(d)
    /\ Advance(d, "enter", "sync")
    /\ UNCHANGED <<wallet, retry, history>>

SessionBusy(d) ==
    /\ lock # NoTask
    /\ EndPass(d, "enter", TRUE)
    /\ UNCHANGED wallet

PublishRun(d) ==
    /\ Publish(d)
    /\ stage[d] = "sync"
    /\ UNCHANGED <<wallet, handle, stage, mail, unseen, retry, callers, history>>

\* sync_frost_accounts: the peers' messages are in, ...
Synced(d) ==
    /\ phase[d] = "running" /\ ~stopped[d]
    /\ effects' \in effects .. MaxEffects
    /\ Advance(d, "sync", "plan")
    /\ UNCHANGED <<sessionVars, active, retry, history>>

\* ... or the run was cancelled, which asks for a retry, or it failed.
SyncCancelled(d) ==
    /\ phase[d] = "running" /\ stopped[d]
    /\ EndPass(d, "sync", TRUE)
    /\ UNCHANGED wallet

SyncFailed(d) ==
    /\ phase[d] = "running"
    /\ EndPass(d, "sync", FALSE)
    /\ UNCHANGED wallet

\* observe and next_task: the protocol waits for its peers, is gone, cannot
\* be read, or a cancel is on its way.
Wait(d) ==
    /\ EndPass(d, "plan", FALSE)
    /\ UNCHANGED wallet

\* The signing session has expired, or its participants disagree on the
\* signing set: it is deleted.
AbortSign(d) ==
    /\ active
    /\ EndPass(d, "plan", FALSE)
    /\ active' = FALSE
    /\ effects' = 0

\* Mutant: the flag is not read.
StartStepAnyway(d) ==
    /\ active
    /\ effects > 0
    /\ Advance(d, "plan", "step")
    /\ overran' = overran \cup
         {r \in Cancels : r \in ToSet(inbox[d]) \/ (call[r] = "raised" /\ target[r] = d)}
    /\ UNCHANGED <<sessionVars, wallet, retry, late, stale, owing>>

\* A step starts with the session observed and no cancel raised.
StartStep(d) ==
    /\ active
    /\ effects > 0
    /\ cancelling[d] = 0
    /\ Advance(d, "plan", "step")
    /\ overran' = overran \cup
         {r \in Cancels : r \in ToSet(inbox[d]) \/ (call[r] = "raised" /\ target[r] = d)}
    /\ UNCHANGED <<sessionVars, wallet, retry, late, stale, owing>>

\* It ends: replan, ...
EndStep(d) ==
    /\ Advance(d, "step", "plan")
    /\ effects' = IF active THEN effects - 1 ELSE 0
    /\ UNCHANGED <<sessionVars, active, retry, history>>

\* ... the protocol is complete and its state deleted, ...
LastStep(d) ==
    /\ EndPass(d, "step", FALSE)
    /\ active' = FALSE
    /\ effects' = 0

\* ... or the step cannot be funded yet, or fails.
FailStep(d) ==
    /\ EndPass(d, "step", FALSE)
    /\ UNCHANGED wallet

\* drop(run), in its two steps.
DropRun(d) ==
    /\ Close(d)
    /\ Advance(d, "leave", "release")
    /\ UNCHANGED <<wallet, retry, history>>

ReleaseRun(d) ==
    /\ Unlock(d)
    /\ Advance(d, "release", "answer")
    /\ UNCHANGED <<wallet, retry, history>>

\* Mutant: the steps that came in during the pass are answered with it.
AnswerAll(d) ==
    LET came == batch[d] \cup (ToSet(inbox[d]) \cap Steps)
    IN  /\ stage[d] = "answer"
        /\ Answered(came)
        /\ batch' = [batch EXCEPT ![d] = {}]
        /\ inbox' = [inbox EXCEPT ![d] = SelectSeq(@, LAMBDA r : r \in Cancels)]
        /\ stage' = [stage EXCEPT ![d] = "idle"]
        /\ stale' = stale \cup (came \cap late)
        /\ UNCHANGED <<sessionVars, wallet, handle, cancelled, cancelling, unseen, retry,
                       late, overran, owing>>

AnswerSteps(d) ==
    /\ stage[d] = "answer"
    /\ Answered(batch[d])
    /\ batch' = [batch EXCEPT ![d] = {}]
    /\ stage' = [stage EXCEPT ![d] = "idle"]
    /\ stale' = stale \cup (batch[d] \cap late)
    /\ UNCHANGED <<sessionVars, wallet, handle, inbox, cancelled, cancelling, unseen, retry,
                   late, overran, owing>>

Pass(d) ==
    \/ NothingToDo(d) \/ SomethingToDo(d)
    \/ Unreachable(d) \/ Enter(d) \/ SessionBusy(d)
    \/ PublishRun(d) \/ Synced(d) \/ SyncCancelled(d) \/ SyncFailed(d)
    \/ Wait(d) \/ AbortSign(d) \/ StartStep(d) \/ EndStep(d) \/ LastStep(d) \/ FailStep(d)
    \/ DropRun(d) \/ ReleaseRun(d) \/ AnswerSteps(d)

DriverStep(d) ==
    \/ WakeOnMail(d) \/ WakeOnTick(d) \/ Stop(d)
    \/ RunCancel(d) \/ CancelsDone(d) \/ Pass(d)

Next ==
    \/ NewBlock \/ StartProtocol \/ ClosePage \/ AppRuns \/ CancelSync
    \/ \E d \in Drivers : OpenPage(d) \/ DriverStep(d)
    \/ \E r \in Steps : SendStep(r)
    \/ \E r \in Cancels : RaiseCancel(r) \/ SendCancel(r) \/ DirectCancel(r)
    \/ \E r \in Calls : Abandon(r)

Spec == Init /\ [][Next]_vars

\* Every await of a driver completes, its poll ticks, a send goes through
\* when there is room, and the app's syncs end.  Nobody has to start one.
Fairness ==
    /\ \A d \in Drivers : WF_vars(DriverStep(d))
    /\ \A r \in Cancels : WF_vars(SendCancel(r))
    /\ WF_vars(AppRuns /\ ~Begin(App))

FairSpec == Spec /\ Fairness

-----------------------------------------------------------------------------
\* No two passes act at once (driver.rs:4-8: both would plan the same round
\* and spend the same funding note): whoever syncs or steps the protocol
\* holds the wallet's session, whichever page its driver was opened by.
StepsUnderSession ==
    \A d \in Drivers : stage[d] \in {"sync", "plan", "step", "leave", "release"} => lock = d

\* Once a cancel has raised the flag no step starts before the cancel has
\* run: the step under way finishes and no other starts (driver.rs:16-19).
CancelStopsSteps == overran = {}

\* A step is answered by a pass that began after it was sent, hence observed
\* what every earlier pass committed (driver.rs:21-23), or by a cancel.
AnswerIsFresh == stale = {}

\* A pass that found the session busy, or whose sync was cancelled, is
\* tried again without waiting for another block.
BusyIsRetried == \A d \in Drivers : d \in owing ~> d \notin owing

\* Every call that waits is answered, whatever the other callers do.
EveryCallAnswered ==
    \A r \in Calls : call[r] \in {"raised", "sent"} ~> call[r] = "done"

\* driver.rs:16: a cancel "never deletes a session a pass is still working
\* from".  A step in flight has its session.
PassHasSession == \A d \in Drivers : stage[d] = "step" => active
=============================================================================
