---------------------------- MODULE SyncSession ----------------------------
(***************************************************************************)
(* The wallet's sync session (sync/session.rs): one run at a time, and a   *)
(* cancellation token for the live one.                                    *)
(*                                                                         *)
(* A task enters with begin (it waits its turn) or try_begin (it gives up  *)
(* when the session is taken).  Taking the mutex and publishing the run's  *)
(* token are two steps, and so are withdrawing the token and releasing the *)
(* mutex when the run is dropped: a cancel from another thread can fall    *)
(* between them.                                                           *)
(***************************************************************************)
EXTENDS Naturals, Sequences

CONSTANTS Tasks,    \* the tasks that take the session
          NoTask    \* "nobody"

ASSUME NoTaskAssumption == NoTask \notin Tasks

VARIABLES lock,     \* the task whose guard is alive, or NoTask
          waiters,  \* tasks queued in begin, first come first served
          phase,    \* where each task stands with respect to the session
          token,    \* whose token SyncSession.cancel holds, or NoTask
          stopped   \* whether each task's token has been cancelled

sessionVars == <<lock, waiters, phase, token, stopped>>

Phases == {"out", "waiting", "granted", "running", "closing"}

\* A task inside the mutex, its token published or not.
Inside(t) == phase[t] \in {"granted", "running", "closing"}

SessionTypeOK ==
    /\ lock \in Tasks \cup {NoTask}
    /\ waiters \in Seq(Tasks)
    /\ phase \in [Tasks -> Phases]
    /\ token \in Tasks \cup {NoTask}
    /\ stopped \in [Tasks -> BOOLEAN]

SessionInit ==
    /\ lock = NoTask
    /\ waiters = <<>>
    /\ phase = [t \in Tasks |-> "out"]
    /\ token = NoTask
    /\ stopped = [t \in Tasks |-> FALSE]

-----------------------------------------------------------------------------
\* Mutant: a held mutex is taken.
TryBeginHeld(t) ==
    /\ phase[t] = "out"
    /\ lock' = t
    /\ phase' = [phase EXCEPT ![t] = "granted"]
    /\ UNCHANGED <<waiters, token, stopped>>

\* try_begin: takes a free mutex.  When it is held the caller gives up,
\* which changes nothing here.
TryBegin(t) ==
    /\ phase[t] = "out"
    /\ lock = NoTask
    /\ lock' = t
    /\ phase' = [phase EXCEPT ![t] = "granted"]
    /\ UNCHANGED <<waiters, token, stopped>>

\* begin on a held mutex: queue for it.
Enqueue(t) ==
    /\ phase[t] = "out"
    /\ lock # NoTask
    /\ waiters' = Append(waiters, t)
    /\ phase' = [phase EXCEPT ![t] = "waiting"]
    /\ UNCHANGED <<lock, token, stopped>>

Begin(t) == TryBegin(t) \/ Enqueue(t)

\* run: a fresh token for the run, published for cancel to find.
Publish(t) ==
    /\ phase[t] = "granted"
    /\ token' = t
    /\ stopped' = [stopped EXCEPT ![t] = FALSE]
    /\ phase' = [phase EXCEPT ![t] = "running"]
    /\ UNCHANGED <<lock, waiters>>

\* cancel: the published token, if any; a no-op otherwise.
Cancel ==
    /\ stopped' = [t \in Tasks |-> stopped[t] \/ t = token]
    /\ UNCHANGED <<lock, waiters, phase, token>>

\* Mutant: the token is left to the next run.
CloseOnly(t) ==
    /\ phase[t] = "running"
    /\ phase' = [phase EXCEPT ![t] = "closing"]
    /\ UNCHANGED <<lock, waiters, token, stopped>>

\* SyncRun::drop withdraws the token first ...
Close(t) ==
    /\ phase[t] = "running"
    /\ token' = NoTask
    /\ phase' = [phase EXCEPT ![t] = "closing"]
    /\ UNCHANGED <<lock, waiters, stopped>>

\* ... and its guard goes after, the token with it: the mutex passes to the
\* first waiter, so no try_begin overtakes one.
Unlock(t) ==
    /\ phase[t] = "closing"
    /\ IF waiters = <<>>
         THEN /\ lock' = NoTask
              /\ phase' = [phase EXCEPT ![t] = "out"]
              /\ UNCHANGED waiters
         ELSE /\ lock' = Head(waiters)
              /\ waiters' = Tail(waiters)
              /\ phase' = [phase EXCEPT ![t] = "out", ![Head(waiters)] = "granted"]
    /\ stopped' = [stopped EXCEPT ![t] = FALSE]
    /\ UNCHANGED token

SessionNext ==
    \/ \E t \in Tasks : Begin(t) \/ Publish(t) \/ Close(t) \/ Unlock(t)
    \/ Cancel

SessionSpec == SessionInit /\ [][SessionNext]_sessionVars

-----------------------------------------------------------------------------
\* At most one task is inside the session (session.rs module doc: "One sync
\* at a time per wallet"), and the mutex names it.
Exclusive == \A t \in Tasks : Inside(t) <=> lock = t

\* The published token is the live run's own: a cancel reaches every run
\* that has started and none that has ended, however the drop of one run
\* and the start of the next interleave.
TokenIsLive == \A t \in Tasks : phase[t] = "running" <=> token = t

\* The mutex is never left free while somebody queues for it, and the queue
\* holds exactly the waiting tasks, each once.
QueueIsFair ==
    /\ lock = NoTask => waiters = <<>>
    /\ \A t \in Tasks : phase[t] = "waiting" <=> \E i \in DOMAIN waiters : waiters[i] = t
    /\ \A i, j \in DOMAIN waiters : waiters[i] = waiters[j] => i = j

SessionInv == Exclusive /\ TokenIsLive /\ QueueIsFair

=============================================================================
