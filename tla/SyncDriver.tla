----------------------------- MODULE SyncDriver -----------------------------
(***************************************************************************)
(* The sync driver (sync/driver.rs): the task through whose mailbox every  *)
(* sync, rewind, delete and prepared write of the wallet goes, and the     *)
(* other tasks that contend with it for the session (the FROST protocol    *)
(* driver with try_begin, the user with cancel_sync).                      *)
(***************************************************************************)
EXTENDS SyncSession

CONSTANTS Syncs,      \* requests that sync (Request::Sync)
          Preempting, \* requests that cancel a sync in flight (Rewind, Delete)
          Applies,    \* short mutations prepared outside the session (Apply)
          Driver,     \* the driver's task
          Capacity,   \* of the mailbox: mpsc::channel(16)
          NoRequest

Requests == Syncs \cup Preempting \cup Applies

ASSUME DriverAssumption ==
    /\ Driver \in Tasks
    /\ Capacity \in Nat \ {0}
    /\ NoRequest \notin Requests
    /\ Syncs \cap Preempting = {}
    /\ Applies \cap (Syncs \cup Preempting) = {}

VARIABLES call,      \* the caller's side of each request
          open,      \* whether a handle to the driver is alive
          inbox,     \* the mailbox
          pending,   \* requests set aside while a sync ran
          current,   \* the request being served, or NoRequest
          stage,     \* how far the driver is with it
          result,    \* how the operation of each request ended
          arrived,   \* history: the requests sent, in order
          served,    \* history: the requests taken up, in order
          preempted  \* history: syncs whose live run a later request cancelled

driverVars == <<call, open, inbox, pending, current, stage, result>>
history == <<arrived, served, preempted>>
vars == <<sessionVars, driverVars, history>>

Stages == {"idle", "start", "queued", "session", "reply", "stopped"}

\* "ended" stands for success and failure alike: the driver treats them the
\* same and the properties tell only a cancelled sync from the rest.
Results == {"none", "ended", "cancelled"}

TypeOK ==
    /\ SessionTypeOK
    /\ call \in [Requests -> {"new", "accepted", "abandoned", "answered"}]
    /\ open \in BOOLEAN
    /\ inbox \in Seq(Requests)
    /\ pending \in Seq(Requests)
    /\ current \in Requests \cup {NoRequest}
    /\ stage \in Stages
    /\ result \in [Requests -> Results]
    /\ arrived \in Seq(Requests)
    /\ served \in Seq(Requests)
    /\ preempted \in SUBSET Syncs

Init ==
    /\ SessionInit
    /\ call = [r \in Requests |-> "new"]
    /\ open = TRUE
    /\ inbox = <<>>
    /\ pending = <<>>
    /\ current = NoRequest
    /\ stage = "idle"
    /\ result = [r \in Requests |-> "none"]
    /\ arrived = <<>>
    /\ served = <<>>
    /\ preempted = {}

-----------------------------------------------------------------------------
\* The callers.

\* SyncDriver::send: waits for room in the mailbox.
Send(r) ==
    /\ open
    /\ call[r] = "new"
    /\ Len(inbox) < Capacity
    /\ inbox' = Append(inbox, r)
    /\ arrived' = Append(arrived, r)
    /\ call' = [call EXCEPT ![r] = "accepted"]
    /\ UNCHANGED <<sessionVars, open, pending, current, stage, result, served, preempted>>

\* A caller that stops waiting for its answer drops the reply channel.
Abandon(r) ==
    /\ call[r] = "accepted"
    /\ call' = [call EXCEPT ![r] = "abandoned"]
    /\ UNCHANGED <<sessionVars, open, inbox, pending, current, stage, result, history>>

\* The last handle is dropped: a waiting caller still borrows one.
DropHandles ==
    /\ open
    /\ \A r \in Requests : call[r] # "accepted"
    /\ open' = FALSE
    /\ UNCHANGED <<sessionVars, call, inbox, pending, current, stage, result, history>>

-----------------------------------------------------------------------------
\* The driver loop.

\* The next request: one set aside during a sync first, then the mailbox.
TakeUp(r) ==
    /\ stage = "idle"
    /\ current' = r
    /\ stage' = "start"
    /\ served' = Append(served, r)

TakePending ==
    /\ pending # <<>>
    /\ TakeUp(Head(pending))
    /\ pending' = Tail(pending)
    /\ UNCHANGED <<sessionVars, call, open, inbox, result, arrived, preempted>>

\* Mutant: the mailbox is read with requests still set aside.
TakeInboxFirst ==
    /\ inbox # <<>>
    /\ TakeUp(Head(inbox))
    /\ inbox' = Tail(inbox)
    /\ UNCHANGED <<sessionVars, call, open, pending, result, arrived, preempted>>

TakeInbox ==
    /\ pending = <<>>
    /\ inbox # <<>>
    /\ TakeUp(Head(inbox))
    /\ inbox' = Tail(inbox)
    /\ UNCHANGED <<sessionVars, call, open, pending, result, arrived, preempted>>

\* Every handle dropped and nothing left: recv returns None and the task ends.
StopDriver ==
    /\ stage = "idle"
    /\ ~open
    /\ pending = <<>>
    /\ inbox = <<>>
    /\ stage' = "stopped"
    /\ UNCHANGED <<sessionVars, call, open, inbox, pending, current, result, history>>

\* Mutant: the operation goes on without waiting its turn.
StartOpAtOnce ==
    /\ stage = "start"
    /\ Begin(Driver)
    /\ stage' = "session"
    /\ UNCHANGED <<call, open, inbox, pending, current, result, history>>

\* Every operation starts by taking the session; a taken one suspends it.
StartOp ==
    /\ stage = "start"
    /\ Begin(Driver)
    /\ stage' = IF lock = NoTask THEN "session" ELSE "queued"
    /\ UNCHANGED <<call, open, inbox, pending, current, result, history>>

RunOp ==
    /\ Publish(Driver)
    /\ stage' = "session"
    /\ UNCHANGED <<call, open, inbox, pending, current, result, history>>

\* The sync's future is suspended: not polled yet (select! picks the branch
\* to poll first at random), queued for the session, or scanning.  Taking a
\* free session and publishing the token happen in one poll.
SyncSuspended == stage \in {"start", "queued"} \/ phase[Driver] = "running"

\* Mutant: the mailbox is watched during every operation.
WatchAlways ==
    /\ current # NoRequest
    /\ SyncSuspended
    /\ inbox # <<>>
    /\ pending' = Append(pending, Head(inbox))
    /\ inbox' = Tail(inbox)
    /\ IF Head(inbox) \in Preempting
         THEN /\ Cancel
              /\ preempted' = IF phase[Driver] = "running"
                                THEN preempted \cup {current} ELSE preempted
         ELSE UNCHANGED <<sessionVars, preempted>>
    /\ UNCHANGED <<call, open, current, stage, result, arrived, served>>

\* Mutant: a request set aside goes before those set aside earlier.
WatchInFront ==
    /\ current \in Syncs
    /\ SyncSuspended
    /\ inbox # <<>>
    /\ pending' = <<Head(inbox)>> \o pending
    /\ inbox' = Tail(inbox)
    /\ IF Head(inbox) \in Preempting
         THEN /\ Cancel
              /\ preempted' = IF phase[Driver] = "running"
                                THEN preempted \cup {current} ELSE preempted
         ELSE UNCHANGED <<sessionVars, preempted>>
    /\ UNCHANGED <<call, open, current, stage, result, arrived, served>>

\* While a sync is awaited, and only then, the mailbox is watched: every
\* arrival is set aside in order, and a preempting one cancels the session's
\* live run, whoever holds it.
WatchInbox ==
    /\ current \in Syncs
    /\ SyncSuspended
    /\ inbox # <<>>
    /\ pending' = Append(pending, Head(inbox))
    /\ inbox' = Tail(inbox)
    /\ IF Head(inbox) \in Preempting
         THEN /\ Cancel
              /\ preempted' = IF phase[Driver] = "running"
                                THEN preempted \cup {current} ELSE preempted
         ELSE UNCHANGED <<sessionVars, preempted>>
    /\ UNCHANGED <<call, open, current, stage, result, arrived, served>>

\* Mutant: a run that completed after its cancel reports that it synced.
OutcomeOfWork(r) == "ended"

\* The operation ends: a sync told to stop reports so whatever it was doing
\* (sync/mod.rs finish); the run is dropped with it.
Outcome(r) ==
    IF r \in Syncs /\ stopped[Driver] THEN "cancelled" ELSE "ended"

FinishOp ==
    /\ stage = "session"
    /\ Close(Driver)
    /\ result' = [result EXCEPT ![current] = Outcome(current)]
    /\ UNCHANGED <<call, open, inbox, pending, current, stage, history>>

ReleaseOp ==
    /\ Unlock(Driver)
    /\ stage' = "reply"
    /\ UNCHANGED <<call, open, inbox, pending, current, result, history>>

\* Mutant: a cancelled operation answers nobody.
ReplyUnlessCancelled ==
    /\ stage = "reply"
    /\ call' = [call EXCEPT ![current] =
          IF @ = "accepted" /\ result[current] # "cancelled" THEN "answered" ELSE @]
    /\ current' = NoRequest
    /\ stage' = "idle"
    /\ UNCHANGED <<sessionVars, open, inbox, pending, result, history>>

\* The answer; a caller that went away is not an error.
Reply ==
    /\ stage = "reply"
    /\ call' = [call EXCEPT ![current] = IF @ = "accepted" THEN "answered" ELSE @]
    /\ current' = NoRequest
    /\ stage' = "idle"
    /\ UNCHANGED <<sessionVars, open, inbox, pending, result, history>>

DriverStep ==
    \/ TakePending \/ TakeInbox \/ StopDriver \/ StartOp \/ RunOp
    \/ WatchInbox \/ FinishOp \/ ReleaseOp \/ Reply

-----------------------------------------------------------------------------
\* The other users of the session.

\* A pass of the protocol driver holds the session from its sync to the end
\* of its step; it never waits for it.
OthersRun(t) == Publish(t) \/ Close(t) \/ Unlock(t)

Others ==
    /\ \E t \in Tasks \ {Driver} : TryBegin(t) \/ OthersRun(t)
    /\ UNCHANGED <<driverVars, history>>

\* api/sync.rs cancel_sync: the user's cancel button.
CancelSync ==
    /\ Cancel
    /\ UNCHANGED <<driverVars, history>>

\* The task has ended and no caller is left.
Terminated ==
    /\ stage = "stopped"
    /\ UNCHANGED vars

Next ==
    \/ \E r \in Requests : Send(r) \/ Abandon(r)
    \/ DropHandles \/ DriverStep \/ Others \/ CancelSync \/ Terminated

Spec == Init /\ [][Next]_vars

\* Every await of the driver completes: no operation, and no pass of another
\* task, lasts for ever (a network read is given up after 60 s).  The user,
\* the callers and the start of a pass are under no obligation.
Fairness ==
    /\ WF_vars(DriverStep)
    /\ \A t \in Tasks \ {Driver} : WF_vars(OthersRun(t) /\ UNCHANGED <<driverVars, history>>)

FairSpec == Spec /\ Fairness

-----------------------------------------------------------------------------
\* What is left to serve: set aside first, then the mailbox.
Queue == pending \o inbox

\* Requests run one at a time in the order they arrived (driver.rs:26),
\* whether they came through the mailbox or were set aside during a sync;
\* none is lost or served twice.
InOrder == arrived = served \o Queue

\* The driver only writes under its own run: an operation in progress holds
\* the session, and the session held by the driver is an operation's.
WritesUnderSession ==
    /\ Inside(Driver) => stage \in {"queued", "session"} /\ current \in Requests
    /\ stage = "session" => lock = Driver

\* A sync whose run was live when a rewind or delete was taken from the
\* mailbox never reports that it synced: the cancel reached it, stuck, and
\* was not overtaken by the end of the run.
PreemptedSyncStops ==
    \A s \in preempted : result[s] \in {"none", "cancelled"}

\* When the task ends everything it accepted has been served: dropping the
\* handles loses no request (driver.rs:137-139).
NothingLeftBehind ==
    stage = "stopped" => \A r \in Requests : call[r] # "new" => result[r] # "none"

Service ==
    INSTANCE RequestService
    WITH queue <- Queue, serving <- current, ended <- stage = "stopped"

\* The driver is the service its callers see (RequestService): the mailbox and
\* the requests set aside during a sync are one queue, moving a request from
\* one to the other is invisible, and so is all it does with the session.
ImplementsService == Service!Spec

\* Every caller that waits is answered, although other tasks take the
\* session over and over.
EveryCallAnswered ==
    \A r \in Requests : call[r] = "accepted" ~> call[r] \in {"answered", "abandoned"}

\* driver.rs:129 says of a rewind or delete that it "must not wait for a
\* sync in flight", and the module doc that the sync "is cancelled first":
\* no sync runs uncancelled while a preempting request is set aside for
\* after it.
PreemptorNotKeptWaiting ==
    current \in Syncs /\ phase[Driver] = "running"
        /\ (\E i \in DOMAIN pending : pending[i] \in Preempting)
    => stopped[Driver]
=============================================================================
