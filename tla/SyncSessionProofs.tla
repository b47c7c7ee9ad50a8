------------------------- MODULE SyncSessionProofs -------------------------
(***************************************************************************)
(* Proofs about the wallet's session: its types, mutual exclusion, and     *)
(* that the published token is always the live run's, for any set of       *)
(* tasks.                                                                  *)
(***************************************************************************)
EXTENDS SyncSession, TLAPS

SessionOK == SessionTypeOK /\ SessionInv

(* The session starts free, with nobody waiting.                           *)
LEMMA SessionInitOK == SessionInit => SessionOK
  BY NoTaskAssumption
  DEF SessionInit, SessionOK, SessionTypeOK, SessionInv, Exclusive, TokenIsLive,
      QueueIsFair, Inside, Phases

(* try_begin keeps the session consistent.                                 *)
LEMMA TryBeginOK ==
  ASSUME SessionOK, NEW t \in Tasks, TryBegin(t)
  PROVE  SessionOK'
  BY NoTaskAssumption
  DEF TryBegin, SessionOK, SessionTypeOK, SessionInv, Exclusive, TokenIsLive,
      QueueIsFair, Inside, Phases

(* Queueing for the session keeps it consistent: the newcomer goes last    *)
(* and was not queued already.                                             *)
LEMMA EnqueueOK ==
  ASSUME SessionOK, NEW t \in Tasks, Enqueue(t)
  PROVE  SessionOK'
<1> USE NoTaskAssumption DEF SessionOK, SessionInv, Inside
<1>1. SessionTypeOK'
  BY DEF Enqueue, SessionTypeOK, Phases
<1>2. Exclusive' /\ TokenIsLive'
  BY DEF Enqueue, SessionTypeOK, Exclusive, TokenIsLive, Phases
<1>3. /\ Len(waiters') = Len(waiters) + 1
      /\ DOMAIN waiters' = 1 .. Len(waiters) + 1
      /\ DOMAIN waiters = 1 .. Len(waiters)
      /\ Len(waiters) \in Nat
      /\ \A i \in 1 .. Len(waiters) : waiters'[i] = waiters[i]
      /\ waiters'[Len(waiters) + 1] = t
  BY DEF Enqueue, SessionTypeOK
<1>4. \A i \in 1 .. Len(waiters) : waiters[i] # t
  BY <1>3 DEF Enqueue, QueueIsFair
<1>5. QueueIsFair'
  <2>1. lock' # NoTask
    BY DEF Enqueue
  <2>2. ASSUME NEW u \in Tasks
        PROVE  phase'[u] = "waiting" <=> \E i \in DOMAIN waiters' : waiters'[i] = u
    <3>1. CASE u = t
      BY <3>1, <1>3 DEF Enqueue, SessionTypeOK
    <3>2. CASE u # t
      <4>1. phase'[u] = phase[u]
        BY <3>2 DEF Enqueue, SessionTypeOK
      <4>2. phase[u] = "waiting" <=> \E i \in DOMAIN waiters : waiters[i] = u
        BY DEF QueueIsFair
      <4>3. QED
        BY <3>2, <4>1, <4>2, <1>3
    <3>3. QED
      BY <3>1, <3>2
  <2>3. \A i, j \in DOMAIN waiters' : waiters'[i] = waiters'[j] => i = j
    <3>1. \A i, j \in DOMAIN waiters : waiters[i] = waiters[j] => i = j
      BY DEF QueueIsFair
    <3>2. QED
      BY <3>1, <1>3, <1>4
  <2>4. QED
    BY <2>1, <2>2, <2>3 DEF QueueIsFair
<1>6. QED
  BY <1>1, <1>2, <1>5

(* Publishing the token of a run that holds the mutex.                     *)
LEMMA PublishOK ==
  ASSUME SessionOK, NEW t \in Tasks, Publish(t)
  PROVE  SessionOK'
  BY NoTaskAssumption
  DEF Publish, SessionOK, SessionTypeOK, SessionInv, Exclusive, TokenIsLive,
      QueueIsFair, Inside, Phases

(* A cancel changes no one's place.                                        *)
LEMMA CancelOK ==
  ASSUME SessionOK, Cancel
  PROVE  SessionOK'
  BY DEF Cancel, SessionOK, SessionTypeOK, SessionInv, Exclusive, TokenIsLive,
      QueueIsFair, Inside

(* Withdrawing the token of a run that ends.                               *)
LEMMA CloseOK ==
  ASSUME SessionOK, NEW t \in Tasks, Close(t)
  PROVE  SessionOK'
  BY NoTaskAssumption
  DEF Close, SessionOK, SessionTypeOK, SessionInv, Exclusive, TokenIsLive,
      QueueIsFair, Inside, Phases

(* Releasing the mutex hands it to the first waiter, if there is one.      *)
LEMMA UnlockOK ==
  ASSUME SessionOK, NEW t \in Tasks, Unlock(t)
  PROVE  SessionOK'
<1> USE NoTaskAssumption DEF SessionOK, SessionInv, Inside
<1>1. CASE waiters = <<>>
  BY <1>1
  DEF Unlock, SessionTypeOK, Exclusive, TokenIsLive, QueueIsFair, Phases
<1>2. CASE waiters # <<>>
  <2> DEFINE h == Head(waiters)
  <2>1. /\ Len(waiters) \in Nat \ {0}
        /\ DOMAIN waiters = 1 .. Len(waiters)
        /\ DOMAIN Tail(waiters) = 1 .. Len(waiters) - 1
        /\ h = waiters[1]
        /\ h \in Tasks
        /\ Tail(waiters) \in Seq(Tasks)
        /\ \A i \in 1 .. Len(waiters) - 1 : Tail(waiters)[i] = waiters[i + 1]
    BY <1>2 DEF SessionTypeOK
  <2>2. phase[h] = "waiting" /\ h # t
    BY <2>1 DEF Unlock, QueueIsFair
  <2>3. /\ lock' = h
        /\ waiters' = Tail(waiters)
        /\ phase' = [phase EXCEPT ![t] = "out", ![h] = "granted"]
        /\ token' = token
        /\ stopped' = [stopped EXCEPT ![t] = FALSE]
        /\ phase[t] = "closing"
    BY <1>2 DEF Unlock
  <2>4. SessionTypeOK'
    BY <2>1, <2>3 DEF SessionTypeOK, Phases
  <2>5. Exclusive' /\ TokenIsLive'
    BY <2>1, <2>2, <2>3 DEF SessionTypeOK, Exclusive, TokenIsLive, Phases
  <2>6. \A u \in Tasks : phase'[u] = "waiting" <=> phase[u] = "waiting" /\ u # h
    BY <2>1, <2>2, <2>3 DEF SessionTypeOK, Phases
  <2>7. ASSUME NEW u \in Tasks
        PROVE  phase'[u] = "waiting" <=> \E i \in DOMAIN waiters' : waiters'[i] = u
    <3>1. phase[u] = "waiting" <=> \E i \in 1 .. Len(waiters) : waiters[i] = u
      BY <2>1 DEF QueueIsFair
    <3>2. \A i, j \in 1 .. Len(waiters) : waiters[i] = waiters[j] => i = j
      BY <2>1 DEF QueueIsFair
    <3>3. ASSUME phase'[u] = "waiting"
          PROVE  \E i \in DOMAIN waiters' : waiters'[i] = u
      <4>1. PICK i \in 1 .. Len(waiters) : waiters[i] = u
        BY <3>1, <3>3, <2>6
      <4>2. i # 1
        BY <4>1, <3>3, <2>6, <2>1
      <4>3. /\ i - 1 \in 1 .. Len(waiters) - 1
            /\ waiters[(i - 1) + 1] = u
        BY <4>1, <4>2, <2>1
      <4>4. Tail(waiters)[i - 1] = u
        BY <4>3, <2>1
      <4>5. QED
        BY <4>3, <4>4, <2>1, <2>3
    <3>4. ASSUME NEW i \in DOMAIN waiters', waiters'[i] = u
          PROVE  phase'[u] = "waiting"
      <4>1. /\ i \in 1 .. Len(waiters) - 1
            /\ i + 1 \in 1 .. Len(waiters)
            /\ i + 1 # 1
            /\ waiters[i + 1] = u
        BY <3>4, <2>1, <2>3
      <4>2. u # h
        BY <4>1, <3>2, <2>1
      <4>3. QED
        BY <4>1, <4>2, <3>1, <2>6
    <3>5. QED
      BY <3>3, <3>4
  <2>8. \A i, j \in DOMAIN waiters' : waiters'[i] = waiters'[j] => i = j
    <3>1. \A i, j \in 1 .. Len(waiters) : waiters[i] = waiters[j] => i = j
      BY <2>1 DEF QueueIsFair
    <3>2. ASSUME NEW i \in DOMAIN waiters', NEW j \in DOMAIN waiters',
                 waiters'[i] = waiters'[j]
          PROVE  i = j
      <4>1. /\ i + 1 \in 1 .. Len(waiters)
            /\ j + 1 \in 1 .. Len(waiters)
            /\ waiters[i + 1] = waiters[j + 1]
            /\ i \in Nat /\ j \in Nat
        BY <3>2, <2>1, <2>3
      <4>2. i + 1 = j + 1
        BY <4>1, <3>1
      <4>3. QED
        BY <4>1, <4>2
    <3>3. QED
      BY <3>2
  <2>9. lock' # NoTask
    BY <2>1, <2>3
  <2>10. QED
    BY <2>4, <2>5, <2>7, <2>8, <2>9 DEF QueueIsFair
<1>3. QED
  BY <1>1, <1>2

(* Every step of the session keeps it consistent.  The modules that        *)
(* compose the session with its users cite this lemma.                     *)
LEMMA SessionStepOK ==
  ASSUME SessionOK, [SessionNext]_sessionVars
  PROVE  SessionOK'
<1>1. CASE UNCHANGED sessionVars
  BY <1>1
  DEF sessionVars, SessionOK, SessionTypeOK, SessionInv, Exclusive, TokenIsLive,
      QueueIsFair, Inside
<1>2. CASE SessionNext
  BY <1>2, TryBeginOK, EnqueueOK, PublishOK, CloseOK, UnlockOK, CancelOK
  DEF SessionNext, Begin
<1>3. QED
  BY <1>1, <1>2

(* For any set of tasks: the variables keep their types, at most one task  *)
(* is inside, the token is the live run's, and the queue is fair.          *)
THEOREM SessionIsSafe == SessionSpec => [](SessionTypeOK /\ SessionInv)
<1>1. SessionOK /\ [SessionNext]_sessionVars => SessionOK'
  BY SessionStepOK
<1>2. SessionSpec => []SessionOK
  BY <1>1, SessionInitOK, PTL DEF SessionSpec
<1>3. SessionOK => SessionTypeOK /\ SessionInv
  BY DEF SessionOK
<1>4. QED
  BY <1>2, <1>3, PTL
=============================================================================
