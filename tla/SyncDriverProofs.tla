-------------------------- MODULE SyncDriverProofs --------------------------
(***************************************************************************)
(* Proofs about the sync driver, for any set of requests, any mailbox size *)
(* and any number of other tasks on the session: requests are served in    *)
(* the order they arrived and none is lost, the driver writes under its    *)
(* own run only, and a preempted sync never reports success.               *)
(***************************************************************************)
EXTENDS SyncDriver, SyncSessionProofs, SequenceTheorems

-----------------------------------------------------------------------------
(* Sequences.                                                              *)

(* Appending to the right part of a concatenation.                         *)
LEMMA AppendRight ==
  ASSUME NEW S, NEW s \in Seq(S), NEW t \in Seq(S), NEW e \in S
  PROVE  s \o Append(t, e) = Append(s \o t, e)
<1>1. /\ s \o t \in Seq(S)
      /\ Append(t, e) \in Seq(S)
      /\ Append(s \o t, e) \in Seq(S)
      /\ s \o Append(t, e) \in Seq(S)
  BY ConcatProperties
<1>2. /\ Append(t, e) = t \o <<e>>
      /\ Append(s \o t, e) = (s \o t) \o <<e>>
      /\ <<e>> \in Seq(S)
  BY <1>1, AppendIsConcat
<1>3. QED
  BY <1>2, ConcatAssociative

(* Moving the head of the right part to the end of the left part.          *)
LEMMA MoveHead ==
  ASSUME NEW S, NEW s \in Seq(S), NEW t \in Seq(S), t # <<>>
  PROVE  Append(s, Head(t)) \o Tail(t) = s \o t
<1>1. /\ Head(t) \in S
      /\ Tail(t) \in Seq(S)
      /\ <<Head(t)>> \in Seq(S)
      /\ Append(s, Head(t)) = s \o <<Head(t)>>
  BY HeadTailProperties, AppendIsConcat
<1>2. t = <<Head(t)>> \o Tail(t)
  <2>1. Len(<<Head(t)>> \o Tail(t)) = Len(t)
    BY <1>1, HeadTailProperties, ConcatProperties
  <2>2. \A i \in 1 .. Len(t) : (<<Head(t)>> \o Tail(t))[i] = t[i]
    BY <1>1, HeadTailProperties, ConcatProperties
  <2>3. <<Head(t)>> \o Tail(t) \in Seq(S)
    BY <1>1, ConcatProperties
  <2>4. QED
    BY <2>1, <2>2, <2>3, SeqEqual
<1>3. (s \o <<Head(t)>>) \o Tail(t) = s \o (<<Head(t)>> \o Tail(t))
  BY <1>1, ConcatAssociative
<1>4. QED
  BY <1>1, <1>2, <1>3

(* Head and tail of a concatenation whose left part is not empty.          *)
LEMMA TailConcat ==
  ASSUME NEW S, NEW s \in Seq(S), NEW t \in Seq(S), s # <<>>
  PROVE  /\ s \o t # <<>>
         /\ Head(s \o t) = Head(s)
         /\ Tail(s \o t) = Tail(s) \o t
<1>1. /\ Tail(s) \in Seq(S)
      /\ Len(Tail(s)) = Len(s) - 1
      /\ \A i \in 1 .. Len(Tail(s)) : Tail(s)[i] = s[i + 1]
      /\ Len(s) \in Nat \ {0}
      /\ Len(t) \in Nat
  BY HeadTailProperties, LenProperties, EmptySeq
<1>2. /\ s \o t \in Seq(S)
      /\ Len(s \o t) = Len(s) + Len(t)
      /\ \A i \in 1 .. Len(s) + Len(t) :
            (s \o t)[i] = IF i <= Len(s) THEN s[i] ELSE t[i - Len(s)]
  BY ConcatProperties
<1>3. s \o t # <<>>
  BY <1>1, <1>2, EmptySeq
<1>4. Head(s \o t) = Head(s)
  BY <1>1, <1>2, <1>3
<1>5. /\ Tail(s \o t) \in Seq(S)
      /\ Len(Tail(s \o t)) = Len(s) + Len(t) - 1
      /\ \A i \in 1 .. Len(Tail(s \o t)) : Tail(s \o t)[i] = (s \o t)[i + 1]
  BY <1>2, <1>3, HeadTailProperties
<1>6. /\ Tail(s) \o t \in Seq(S)
      /\ Len(Tail(s) \o t) = Len(s) - 1 + Len(t)
      /\ \A i \in 1 .. Len(s) - 1 + Len(t) :
            (Tail(s) \o t)[i] =
               IF i <= Len(s) - 1 THEN Tail(s)[i] ELSE t[i - (Len(s) - 1)]
  BY <1>1, ConcatProperties
<1>7. ASSUME NEW i \in 1 .. Len(Tail(s \o t))
      PROVE  Tail(s \o t)[i] = (Tail(s) \o t)[i]
  <2>1. i \in Nat /\ i + 1 \in 1 .. Len(s) + Len(t) /\ i \in 1 .. Len(s) - 1 + Len(t)
    BY <1>1, <1>5
  <2>2. CASE i <= Len(s) - 1
    BY <2>1, <2>2, <1>1, <1>2, <1>5, <1>6
  <2>3. CASE ~(i <= Len(s) - 1)
    <3>1. Tail(s \o t)[i] = t[(i + 1) - Len(s)]
      BY <2>1, <2>3, <1>1, <1>2, <1>5
    <3>2. (Tail(s) \o t)[i] = t[i - (Len(s) - 1)]
      BY <2>1, <2>3, <1>1, <1>6
    <3>3. (i + 1) - Len(s) = i - (Len(s) - 1)
      BY <2>1, <1>1
    <3>4. QED
      BY <3>1, <3>2, <3>3
  <2>4. QED
    BY <2>2, <2>3
<1>8. Tail(s \o t) = Tail(s) \o t
  BY <1>1, <1>5, <1>6, <1>7, SeqEqual
<1>9. QED
  BY <1>3, <1>4, <1>8

Elements(q) == {q[i] : i \in DOMAIN q}
Distinct(q) == \A i, j \in DOMAIN q : q[i] = q[j] => i = j

(* What a newcomer at the end changes.                                     *)
LEMMA AppendElements ==
  ASSUME NEW S, NEW q \in Seq(S), NEW e \in S
  PROVE  /\ Elements(Append(q, e)) = Elements(q) \cup {e}
         /\ Distinct(q) /\ e \notin Elements(q) => Distinct(Append(q, e))
<1>1. /\ Len(q) \in Nat
      /\ DOMAIN q = 1 .. Len(q)
      /\ DOMAIN Append(q, e) = 1 .. Len(q) + 1
      /\ \A i \in 1 .. Len(q) : Append(q, e)[i] = q[i]
      /\ Append(q, e)[Len(q) + 1] = e
  OBVIOUS
<1>2. Elements(Append(q, e)) = Elements(q) \cup {e}
  <2>1. ASSUME NEW x \in Elements(q) \cup {e}
        PROVE  x \in Elements(Append(q, e))
    <3>1. CASE x = e
      <4>1. Len(q) + 1 \in DOMAIN Append(q, e)
        BY <1>1
      <4>2. QED
        BY <3>1, <4>1, <1>1 DEF Elements
    <3>2. CASE x \in Elements(q)
      <4>1. PICK i \in 1 .. Len(q) : x = q[i]
        BY <3>2, <1>1 DEF Elements
      <4>2. i \in DOMAIN Append(q, e)
        BY <1>1
      <4>3. QED
        BY <4>1, <4>2, <1>1 DEF Elements
    <3>3. QED
      BY <3>1, <3>2
  <2>2. ASSUME NEW x \in Elements(Append(q, e))
        PROVE  x \in Elements(q) \cup {e}
    <3>1. PICK i \in 1 .. Len(q) + 1 : x = Append(q, e)[i]
      BY <1>1 DEF Elements
    <3>2. i \in 1 .. Len(q) \/ i = Len(q) + 1
      BY <1>1
    <3>3. QED
      BY <3>1, <3>2, <1>1 DEF Elements
  <2>3. QED
    BY <2>1, <2>2
<1>3. ASSUME Distinct(q), e \notin Elements(q)
      PROVE  Distinct(Append(q, e))
  <2>1. \A i \in 1 .. Len(q) : q[i] # e
    BY <1>1, <1>3 DEF Elements
  <2>2. \A i, j \in 1 .. Len(q) : q[i] = q[j] => i = j
    BY <1>1, <1>3 DEF Distinct
  <2>3. QED
    BY <1>1, <2>1, <2>2 DEF Distinct
<1>4. QED
  BY <1>2, <1>3

(* What taking the head changes.                                           *)
LEMMA TailElements ==
  ASSUME NEW S, NEW q \in Seq(S), q # <<>>, Distinct(q)
  PROVE  /\ Head(q) \in Elements(q)
         /\ Elements(Tail(q)) = Elements(q) \ {Head(q)}
         /\ Distinct(Tail(q))
<1>1. /\ Len(q) \in Nat \ {0}
      /\ DOMAIN q = 1 .. Len(q)
      /\ DOMAIN Tail(q) = 1 .. Len(q) - 1
      /\ \A i \in 1 .. Len(q) - 1 : Tail(q)[i] = q[i + 1]
      /\ Head(q) = q[1]
      /\ 1 \in 1 .. Len(q)
  OBVIOUS
<1>2. \A i, j \in 1 .. Len(q) : q[i] = q[j] => i = j
  BY <1>1 DEF Distinct
<1>3. Elements(Tail(q)) = Elements(q) \ {Head(q)}
  <2>1. ASSUME NEW x \in Elements(Tail(q))
        PROVE  x \in Elements(q) \ {Head(q)}
    <3>1. PICK i \in 1 .. Len(q) - 1 : x = Tail(q)[i]
      BY <1>1 DEF Elements
    <3>2. i + 1 \in 1 .. Len(q) /\ i + 1 # 1 /\ x = q[i + 1]
      BY <3>1, <1>1
    <3>3. QED
      BY <3>2, <1>1, <1>2 DEF Elements
  <2>2. ASSUME NEW x \in Elements(q) \ {Head(q)}
        PROVE  x \in Elements(Tail(q))
    <3>1. PICK i \in 1 .. Len(q) : x = q[i]
      BY <1>1 DEF Elements
    <3>2. i # 1
      BY <3>1, <1>1
    <3>3. i - 1 \in 1 .. Len(q) - 1 /\ Tail(q)[i - 1] = q[(i - 1) + 1]
      BY <3>1, <3>2, <1>1
    <3>4. Tail(q)[i - 1] = x
      BY <3>1, <3>3, <1>1
    <3>5. QED
      BY <3>3, <3>4, <1>1 DEF Elements
  <2>3. QED
    BY <2>1, <2>2
<1>4. Distinct(Tail(q))
  <2>1. ASSUME NEW i \in 1 .. Len(q) - 1, NEW j \in 1 .. Len(q) - 1,
               Tail(q)[i] = Tail(q)[j]
        PROVE  i = j
    <3>1. i + 1 \in 1 .. Len(q) /\ j + 1 \in 1 .. Len(q) /\ q[i + 1] = q[j + 1]
      BY <2>1, <1>1
    <3>2. i + 1 = j + 1
      BY <3>1, <1>2
    <3>3. QED
      BY <3>2
  <2>2. QED
    BY <2>1, <1>1 DEF Distinct
<1>5. QED
  BY <1>1, <1>3, <1>4 DEF Elements

-----------------------------------------------------------------------------
(* The inductive invariant.                                                *)

Queued == Elements(Queue)

\* How the driver's stage goes with its place in the session.
Control ==
    /\ current = NoRequest <=> stage \in {"idle", "stopped"}
    /\ stage \in {"idle", "start", "reply", "stopped"} => phase[Driver] = "out"
    /\ stage = "queued" => phase[Driver] \in {"waiting", "granted"}
    /\ stage = "session" => phase[Driver] \in {"granted", "running", "closing"}
    /\ stage = "stopped" => ~open /\ Queue = <<>>

\* The operation of the current request has not ended.
Unfinished == stage \in {"start", "queued"} \/ phase[Driver] \in {"granted", "running"}

\* A request is in exactly one place: not sent yet, queued, being served, or
\* finished.
Accounted ==
    /\ \A r \in Requests :
          call[r] = "new" => result[r] = "none" /\ r \notin Queued /\ r # current
    /\ \A r \in Queued : result[r] = "none" /\ r # current
    /\ \A r \in Requests :
          call[r] # "new" /\ result[r] = "none" => r = current \/ r \in Queued
    /\ Distinct(Queue)
    /\ current \in Requests => (Unfinished <=> result[current] = "none")

\* The cancel that preempted a live run is still there to be seen, or was.
Preemption ==
    \A s \in preempted :
       \/ /\ s = current
          /\ phase[Driver] = "running"
          /\ stopped[Driver]
          /\ result[s] = "none"
       \/ result[s] = "cancelled"

DriverInv == TypeOK /\ SessionInv /\ Control /\ Accounted /\ Preemption /\ InOrder

(* The driver and its environment only do to the session what the session  *)
(* offers.                                                                 *)
LEMMA NextIsSessionStep == [Next]_vars => [SessionNext]_sessionVars
  BY DriverAssumption
  DEF Next, vars, Send, Abandon, DropHandles, DriverStep, TakePending, TakeInbox,
      TakeUp, StopDriver, StartOp, RunOp, WatchInbox, FinishOp, ReleaseOp, Reply,
      Others, OthersRun, CancelSync, Terminated, SessionNext, sessionVars, Begin, history

(* So whatever happens, the session stays consistent.                      *)
LEMMA SessionKept == ASSUME DriverInv, [Next]_vars PROVE SessionTypeOK' /\ SessionInv'
  BY NextIsSessionStep, SessionStepOK DEF DriverInv, TypeOK, SessionOK

(* The initial state.                                                      *)
LEMMA DriverInitOK == Init => DriverInv
<1> SUFFICES ASSUME Init PROVE DriverInv
  OBVIOUS
<1>1. SessionTypeOK /\ SessionInv
  BY SessionInitOK DEF Init, SessionOK
<1>2. Queue = <<>> /\ Elements(<<>>) = {} /\ Distinct(<<>>)
  BY DEF Init, Queue, Elements, Distinct
<1>3. QED
  BY <1>1, <1>2, DriverAssumption
  DEF Init, SessionInit, DriverInv, TypeOK, Stages, Results, Control, Accounted,
      Unfinished, Preemption, InOrder, Queued, Requests

(* Steps that leave the queue, the requests' records and the driver's      *)
(* place in the session alone keep everything.                             *)
LEMMA QuietStepOK ==
  ASSUME DriverInv, UNCHANGED <<driverVars, history>>, [Next]_vars,
         phase'[Driver] = phase[Driver] \/ (phase[Driver] = "waiting" /\ phase'[Driver] = "granted"),
         stopped[Driver] /\ phase[Driver] = "running" => stopped'[Driver]
  PROVE  DriverInv'
<1>1. SessionTypeOK' /\ SessionInv'
  BY SessionKept
<1>2. Queue' = Queue /\ Queued' = Queued /\ Distinct(Queue)' = Distinct(Queue)
  BY DEF driverVars, Queue, Queued, Elements, Distinct
<1>3. stage = "start" => phase[Driver] = "out"
  BY DEF DriverInv, Control
<1>4. phase[Driver] = "waiting" => stage = "queued"
  BY DEF DriverInv, Control, TypeOK, Stages
<1>5. TypeOK' /\ InOrder'
  BY <1>1, <1>2 DEF DriverInv, TypeOK, InOrder, driverVars, history
<1>6. Control'
  BY <1>2, <1>3, <1>4 DEF DriverInv, Control, driverVars
<1>7. Unfinished' <=> Unfinished
  BY <1>4 DEF Unfinished, driverVars
<1>8. Accounted'
  BY <1>2, <1>7 DEF DriverInv, Accounted, driverVars
<1>9. Preemption'
  BY DEF DriverInv, Preemption, driverVars, history
<1>10. QED
  BY <1>1, <1>5, <1>6, <1>8, <1>9 DEF DriverInv

(* Another task's step reaches the driver only by letting it in.           *)
LEMMA OthersOK == ASSUME DriverInv, Others PROVE DriverInv'
<1>1. [Next]_vars /\ UNCHANGED <<driverVars, history>>
  BY DEF Others, Next
<1>2. PICK t \in Tasks \ {Driver} : TryBegin(t) \/ OthersRun(t)
  BY DEF Others
<1>3. /\ SessionTypeOK
      /\ \A u \in Tasks : phase[u] = "waiting" <=> \E i \in DOMAIN waiters : waiters[i] = u
  BY DEF DriverInv, TypeOK, SessionInv, QueueIsFair
<1>4. /\ phase'[Driver] = phase[Driver]
         \/ (phase[Driver] = "waiting" /\ phase'[Driver] = "granted")
      /\ stopped'[Driver] = stopped[Driver]
  <2>1. CASE TryBegin(t) \/ Publish(t) \/ Close(t)
    BY <1>2, <1>3, <2>1, DriverAssumption DEF TryBegin, Publish, Close, SessionTypeOK
  <2>2. CASE Unlock(t)
    <3>1. CASE waiters = <<>>
      BY <1>2, <1>3, <2>2, <3>1, DriverAssumption DEF Unlock, SessionTypeOK
    <3>2. CASE waiters # <<>>
      <4>1. Head(waiters) \in Tasks /\ phase[Head(waiters)] = "waiting"
        BY <3>2, <1>3 DEF SessionTypeOK
      <4>2. QED
        BY <4>1, <1>2, <1>3, <2>2, <3>2, DriverAssumption DEF Unlock, SessionTypeOK
    <3>3. QED
      BY <3>1, <3>2
  <2>3. QED
    BY <1>2, <2>1, <2>2 DEF OthersRun
<1>5. QED
  BY <1>1, <1>4, QuietStepOK

(* The user's cancel only ever stops a run.                                *)
LEMMA CancelSyncOK == ASSUME DriverInv, CancelSync PROVE DriverInv'
<1>1. [Next]_vars /\ UNCHANGED <<driverVars, history>>
  BY DEF CancelSync, Next
<1>2. phase'[Driver] = phase[Driver] /\ (stopped[Driver] => stopped'[Driver])
  BY DriverAssumption DEF CancelSync, Cancel
<1>3. QED
  BY <1>1, <1>2, QuietStepOK

(* A stuttering step.                                                      *)
LEMMA StutterOK == ASSUME DriverInv, UNCHANGED vars PROVE DriverInv'
<1>1. [Next]_vars /\ UNCHANGED <<driverVars, history>> /\ UNCHANGED sessionVars
  BY DEF vars
<1>2. phase' = phase /\ stopped' = stopped
  BY <1>1 DEF sessionVars
<1>3. QED
  BY <1>1, <1>2, QuietStepOK

(* A new request goes to the end of the queue.                             *)
LEMMA SendOK == ASSUME DriverInv, NEW r \in Requests, Send(r) PROVE DriverInv'
<1>1. SessionTypeOK' /\ SessionInv'
  BY SessionKept DEF Next
<1>2. /\ pending \in Seq(Requests) /\ inbox \in Seq(Requests)
      /\ served \in Seq(Requests) /\ arrived \in Seq(Requests)
      /\ Queue \in Seq(Requests)
  BY ConcatProperties DEF DriverInv, TypeOK, Queue
<1>3. /\ inbox' = Append(inbox, r)
      /\ arrived' = Append(arrived, r)
      /\ call' = [call EXCEPT ![r] = "accepted"]
      /\ call[r] = "new"
      /\ open
      /\ UNCHANGED <<sessionVars, open, pending, current, stage, result, served, preempted>>
  BY DEF Send
<1>4. Queue' = Append(Queue, r)
  BY <1>2, <1>3, AppendRight DEF Queue
<1>5. r \notin Queued /\ r # current /\ result[r] = "none"
  BY <1>3 DEF DriverInv, Accounted
<1>6. Queued' = Queued \cup {r} /\ Distinct(Queue')
  BY <1>2, <1>4, <1>5, AppendElements DEF Queued, DriverInv, Accounted
<1>7. TypeOK'
  BY <1>1, <1>2, <1>3 DEF DriverInv, TypeOK
<1>8. InOrder'
  <2>1. served \o Append(Queue, r) = Append(served \o Queue, r)
    BY <1>2, AppendRight
  <2>2. QED
    BY <1>3, <1>4, <2>1 DEF DriverInv, InOrder
<1>9. Control'
  BY <1>3 DEF DriverInv, Control, sessionVars
<1>10. Accounted'
  <2>1. Unfinished' <=> Unfinished
    BY <1>3 DEF Unfinished, sessionVars
  <2>2. QED
    BY <1>3, <1>5, <1>6, <2>1 DEF DriverInv, TypeOK, Accounted
<1>11. Preemption'
  BY <1>3 DEF DriverInv, Preemption, sessionVars
<1>12. QED
  BY <1>1, <1>7, <1>8, <1>9, <1>10, <1>11 DEF DriverInv

(* Callers going away change nothing the driver relies on.                 *)
LEMMA LeaveOK ==
  ASSUME DriverInv, (\E r \in Requests : Abandon(r)) \/ DropHandles
  PROVE  DriverInv'
<1>1. SessionTypeOK' /\ SessionInv'
  BY SessionKept DEF Next
<1> DEFINE Left ==
             /\ UNCHANGED <<sessionVars, inbox, pending, current, stage, result, history>>
             /\ \A r \in Requests : call'[r] = "new" <=> call[r] = "new"
             /\ call' \in [Requests -> {"new", "accepted", "abandoned", "answered"}]
             /\ open' \in BOOLEAN
             /\ open' => open
<1>2. Left
  <2>1. CASE DropHandles
    BY <2>1 DEF DropHandles, DriverInv, TypeOK
  <2>2. ASSUME NEW r \in Requests, Abandon(r)
        PROVE  Left
    BY <2>2 DEF Abandon, DriverInv, TypeOK
  <2>3. QED
    BY <2>1, <2>2
<1>3. Queue' = Queue /\ Queued' = Queued /\ Distinct(Queue)' = Distinct(Queue)
  BY <1>2 DEF Queue, Queued, Elements, Distinct
<1>4. TypeOK' /\ InOrder'
  BY <1>1, <1>2, <1>3 DEF DriverInv, TypeOK, InOrder, history
<1>5. Control'
  BY <1>2, <1>3 DEF DriverInv, Control, sessionVars
<1>6. Accounted'
  BY <1>2, <1>3 DEF DriverInv, Accounted, Unfinished, sessionVars
<1>7. Preemption'
  BY <1>2 DEF DriverInv, Preemption, sessionVars, history
<1>8. QED
  BY <1>1, <1>4, <1>5, <1>6, <1>7 DEF DriverInv

(* Taking a request up: it leaves the queue for the driver's hands.        *)
LEMMA TakeOK == ASSUME DriverInv, TakePending \/ TakeInbox PROVE DriverInv'
<1>1. SessionTypeOK' /\ SessionInv'
  BY SessionKept DEF Next, DriverStep
<1>2. /\ pending \in Seq(Requests) /\ inbox \in Seq(Requests)
      /\ served \in Seq(Requests) /\ Queue \in Seq(Requests)
  BY ConcatProperties DEF DriverInv, TypeOK, Queue
<1>3. /\ stage = "idle" /\ stage' = "start"
      /\ UNCHANGED <<sessionVars, call, open, result, arrived, preempted>>
      /\ pending' \in Seq(Requests) /\ inbox' \in Seq(Requests)
      /\ Queue # <<>> /\ Queue' = Tail(Queue)
      /\ current' = Head(Queue) /\ served' = Append(served, Head(Queue))
  <2>1. CASE TakePending
    BY <1>2, <2>1, TailConcat, HeadTailProperties DEF TakePending, TakeUp, Queue
  <2>2. CASE TakeInbox
    <3>1. Queue = inbox /\ Queue' = inbox'
      BY <1>2, <2>2, ConcatEmptySeq, HeadTailProperties DEF TakeInbox, Queue
    <3>2. QED
      BY <1>2, <2>2, <3>1, HeadTailProperties DEF TakeInbox, TakeUp
  <2>3. QED
    BY <2>1, <2>2
<1>4. Head(Queue) \in Requests
  BY <1>2, <1>3, HeadTailProperties
<1>5. /\ Head(Queue) \in Queued
      /\ Queued' = Queued \ {Head(Queue)}
      /\ Distinct(Queue')
  BY <1>2, <1>3, TailElements DEF Queued, DriverInv, Accounted
<1>6. TypeOK'
  <2>1. served' \in Seq(Requests)
    BY <1>2, <1>3, <1>4, AppendProperties
  <2>2. QED
    BY <1>1, <1>3, <1>4, <2>1 DEF DriverInv, TypeOK, Stages
<1>7. InOrder'
  <2>1. Append(served, Head(Queue)) \o Tail(Queue) = served \o Queue
    BY <1>2, <1>3, MoveHead
  <2>2. QED
    BY <1>3, <2>1 DEF DriverInv, InOrder
<1>8. Control'
  BY <1>3, <1>4, DriverAssumption DEF DriverInv, Control, sessionVars
<1>9. current = NoRequest /\ phase[Driver] = "out" /\ phase' = phase /\ stopped' = stopped
  BY <1>3 DEF DriverInv, Control, sessionVars
<1>10. Accounted'
  <2>1. Unfinished' /\ result'[Head(Queue)] = "none"
    BY <1>3, <1>5 DEF Unfinished, DriverInv, Accounted
  <2>2. \A r \in Requests : r # NoRequest
    BY DriverAssumption
  <2>3. \A r \in Queued : call[r] = "new" => r \notin Requests
    BY DEF DriverInv, Accounted
  <2>4. QED
    BY <1>3, <1>4, <1>5, <1>9, <2>1, <2>2, <2>3 DEF DriverInv, Accounted
<1>11. Preemption'
  BY <1>3, <1>9 DEF DriverInv, Preemption
<1>12. QED
  BY <1>1, <1>6, <1>7, <1>8, <1>10, <1>11 DEF DriverInv

(* A driver step on the current operation that leaves the queue and the    *)
(* records alone.                                                          *)
LEMMA ProgressOK ==
  ASSUME DriverInv, [Next]_vars,
         UNCHANGED <<call, open, inbox, pending, current, result, history>>,
         stage \notin {"idle", "stopped"}, stage' \in Stages \ {"idle", "stopped"},
         Control', Unfinished' <=> Unfinished,
         phase[Driver] # "running", stopped' \in [Tasks -> BOOLEAN]
  PROVE  DriverInv'
<1>1. SessionTypeOK' /\ SessionInv'
  BY SessionKept
<1>2. Queue' = Queue /\ Queued' = Queued /\ Distinct(Queue)' = Distinct(Queue)
  BY DEF Queue, Queued, Elements, Distinct
<1>3. TypeOK' /\ InOrder'
  BY <1>1, <1>2 DEF DriverInv, TypeOK, InOrder, history
<1>4. Accounted'
  BY <1>2 DEF DriverInv, Accounted
<1>5. Preemption'
  BY DEF DriverInv, Preemption, history
<1>6. QED
  BY <1>1, <1>3, <1>4, <1>5 DEF DriverInv

(* Entering the session, or the queue for it.                              *)
LEMMA StartOpOK == ASSUME DriverInv, StartOp PROVE DriverInv'
<1>1. /\ phase \in [Tasks -> Phases] /\ Driver \in Tasks /\ phase[Driver] = "out"
      /\ stopped' \in [Tasks -> BOOLEAN]
  BY DriverAssumption
  DEF DriverInv, TypeOK, SessionTypeOK, StartOp, Begin, TryBegin, Enqueue
<1>2. /\ stage = "start"
      /\ \/ stage' = "session" /\ phase'[Driver] = "granted"
         \/ stage' = "queued" /\ phase'[Driver] = "waiting"
      /\ UNCHANGED <<call, open, inbox, pending, current, result, history>>
  BY <1>1 DEF StartOp, Begin, TryBegin, Enqueue
<1>3. Control'
  BY <1>2 DEF DriverInv, Control
<1>4. Unfinished' <=> Unfinished
  BY <1>2 DEF Unfinished
<1>5. [Next]_vars
  BY DEF Next, DriverStep
<1>6. QED
  BY <1>1, <1>2, <1>3, <1>4, <1>5, ProgressOK DEF Stages

(* Publishing the run.                                                     *)
LEMMA RunOpOK == ASSUME DriverInv, RunOp PROVE DriverInv'
<1>1. /\ phase \in [Tasks -> Phases] /\ Driver \in Tasks
      /\ stopped' \in [Tasks -> BOOLEAN]
  BY DriverAssumption DEF DriverInv, TypeOK, SessionTypeOK, RunOp, Publish
<1>2. /\ phase[Driver] = "granted" /\ phase'[Driver] = "running"
      /\ stage' = "session"
      /\ UNCHANGED <<call, open, inbox, pending, current, result, history>>
  BY <1>1 DEF RunOp, Publish
<1>3. stage \in {"queued", "session"}
  BY <1>2 DEF DriverInv, TypeOK, Stages, Control
<1>4. Control'
  BY <1>2, <1>3 DEF DriverInv, Control
<1>5. Unfinished' <=> Unfinished
  BY <1>2 DEF Unfinished
<1>6. [Next]_vars
  BY DEF Next, DriverStep
<1>7. QED
  BY <1>1, <1>2, <1>3, <1>4, <1>5, <1>6, ProgressOK DEF Stages

(* Leaving the session.                                                    *)
LEMMA ReleaseOpOK == ASSUME DriverInv, ReleaseOp PROVE DriverInv'
<1>1. /\ phase \in [Tasks -> Phases] /\ Driver \in Tasks /\ waiters \in Seq(Tasks)
      /\ stopped' \in [Tasks -> BOOLEAN]
      /\ phase[Driver] = "closing"
  BY DriverAssumption DEF DriverInv, TypeOK, SessionTypeOK, ReleaseOp, Unlock
<1>2. phase'[Driver] = "out"
  <2>1. CASE waiters = <<>>
    BY <2>1, <1>1 DEF ReleaseOp, Unlock
  <2>2. CASE waiters # <<>>
    <3>1. Head(waiters) \in Tasks /\ phase[Head(waiters)] = "waiting"
      BY <2>2, <1>1 DEF DriverInv, SessionInv, QueueIsFair
    <3>2. QED
      BY <2>2, <3>1, <1>1 DEF ReleaseOp, Unlock
  <2>3. QED
    BY <2>1, <2>2
<1>3. /\ stage' = "reply"
      /\ UNCHANGED <<call, open, inbox, pending, current, result, history>>
  BY DEF ReleaseOp
<1>4. stage = "session"
  BY <1>1 DEF DriverInv, TypeOK, Stages, Control
<1>5. Control'
  BY <1>2, <1>3, <1>4 DEF DriverInv, Control
<1>6. Unfinished' <=> Unfinished
  BY <1>1, <1>2, <1>3, <1>4 DEF Unfinished
<1>7. [Next]_vars
  BY DEF Next, DriverStep
<1>8. QED
  BY <1>1, <1>3, <1>4, <1>5, <1>6, <1>7, ProgressOK DEF Stages

(* Watching the mailbox: the request set aside keeps its place, and the    *)
(* cancel reaches a live run.                                              *)
LEMMA WatchInboxOK == ASSUME DriverInv, WatchInbox PROVE DriverInv'
<1>1. SessionTypeOK' /\ SessionInv'
  BY SessionKept DEF Next, DriverStep
<1>2. /\ pending \in Seq(Requests) /\ inbox \in Seq(Requests) /\ inbox # <<>>
      /\ current \in Syncs /\ Driver \in Tasks
  BY DriverAssumption DEF WatchInbox, DriverInv, TypeOK
<1>3. /\ pending' = Append(pending, Head(inbox)) /\ inbox' = Tail(inbox)
      /\ UNCHANGED <<call, open, current, stage, result, arrived, served>>
      /\ phase' = phase
  BY DEF WatchInbox, Cancel, sessionVars
<1>4. Queue' = Queue
  BY <1>2, <1>3, MoveHead DEF Queue
<1>5. Queued' = Queued /\ Distinct(Queue)' = Distinct(Queue)
  BY <1>4 DEF Queued, Elements, Distinct
<1>6. /\ pending' \in Seq(Requests) /\ inbox' \in Seq(Requests)
      /\ preempted' \in SUBSET Syncs
  <2>1. preempted' \in SUBSET Syncs
    BY <1>2 DEF WatchInbox, DriverInv, TypeOK
  <2>2. QED
    BY <1>2, <1>3, <2>1, HeadTailProperties, AppendProperties
<1>7. TypeOK' /\ InOrder'
  BY <1>1, <1>3, <1>4, <1>6 DEF DriverInv, TypeOK, InOrder
<1>8. Control'
  BY <1>3, <1>4 DEF DriverInv, Control
<1>9. Accounted'
  BY <1>3, <1>4, <1>5 DEF DriverInv, Accounted, Unfinished
<1>10. Preemption'
  <2>1. CASE Head(inbox) \in Preempting
    <3>1. stopped' = [t \in Tasks |-> stopped[t] \/ t = token]
      BY <2>1 DEF WatchInbox, Cancel
    <3>2. stopped[Driver] => stopped'[Driver]
      BY <1>2, <3>1
    <3>3. CASE phase[Driver] = "running"
      <4>1. token = Driver
        BY <1>2, <3>3 DEF DriverInv, SessionInv, TokenIsLive
      <4>2. stopped'[Driver]
        BY <1>2, <3>1, <4>1
      <4>3. current \in Requests /\ result[current] = "none"
        BY <1>2, <3>3 DEF Requests, DriverInv, Accounted, Unfinished
      <4>4. preempted' = preempted \cup {current}
        BY <2>1, <3>3 DEF WatchInbox
      <4>5. QED
        BY <1>3, <3>3, <4>2, <4>3, <4>4 DEF DriverInv, Preemption
    <3>4. CASE phase[Driver] # "running"
      <4>1. preempted' = preempted
        BY <2>1, <3>4 DEF WatchInbox
      <4>2. QED
        BY <1>3, <3>2, <4>1 DEF DriverInv, Preemption
    <3>5. QED
      BY <3>3, <3>4
  <2>2. CASE Head(inbox) \notin Preempting
    <3>1. preempted' = preempted /\ stopped' = stopped
      BY <2>2 DEF WatchInbox, sessionVars
    <3>2. QED
      BY <1>3, <3>1 DEF DriverInv, Preemption
  <2>3. QED
    BY <2>1, <2>2
<1>11. QED
  BY <1>1, <1>7, <1>8, <1>9, <1>10 DEF DriverInv

(* The end of an operation: a preempted sync still finds its token         *)
(* cancelled.                                                              *)
LEMMA FinishOpOK == ASSUME DriverInv, FinishOp PROVE DriverInv'
<1>1. SessionTypeOK' /\ SessionInv'
  BY SessionKept DEF Next, DriverStep
<1>2. /\ stage = "session" /\ phase[Driver] = "running" /\ phase'[Driver] = "closing"
      /\ result' = [result EXCEPT ![current] = Outcome(current)]
      /\ UNCHANGED <<call, open, inbox, pending, current, stage, history>>
  BY DriverAssumption DEF FinishOp, Close, DriverInv, TypeOK, SessionTypeOK
<1>3. current \in Requests /\ current # NoRequest /\ result[current] = "none"
  BY <1>2 DEF DriverInv, TypeOK, Control, Accounted, Unfinished
<1>4. Queue' = Queue /\ Queued' = Queued /\ Distinct(Queue)' = Distinct(Queue)
  BY <1>2 DEF Queue, Queued, Elements, Distinct
<1>5. Outcome(current) \in {"ended", "cancelled"}
  BY DEF Outcome
<1>6. TypeOK' /\ InOrder'
  BY <1>1, <1>2, <1>4, <1>5 DEF DriverInv, TypeOK, InOrder, Results, history
<1>7. Control'
  BY <1>2, <1>4 DEF DriverInv, Control
<1>8. Accounted'
  <2>1. ~Unfinished' /\ result'[current] # "none"
    BY <1>2, <1>3, <1>5 DEF Unfinished, DriverInv, TypeOK
  <2>2. \A r \in Requests : r # current => result'[r] = result[r]
    BY <1>2 DEF DriverInv, TypeOK
  <2>3. \A r \in Queued : r # current /\ result'[r] = "none"
    BY <1>2 DEF DriverInv, TypeOK, Accounted
  <2>4. call[current] # "new"
    BY <1>3 DEF DriverInv, Accounted
  <2>5. QED
    BY <1>2, <1>3, <1>4, <2>1, <2>2, <2>3, <2>4 DEF DriverInv, Accounted
<1>9. Preemption'
  <2>1. ASSUME NEW s \in preempted
        PROVE  result'[s] = "cancelled"
    <3>1. s \in Syncs /\ s \in Requests
      BY DEF DriverInv, TypeOK, Requests
    <3>2. CASE s = current
      <4>1. stopped[Driver]
        BY <1>3, <3>2 DEF DriverInv, Preemption
      <4>2. QED
        BY <1>2, <3>1, <3>2, <4>1 DEF Outcome, DriverInv, TypeOK
    <3>3. CASE s # current
      BY <1>2, <3>1, <3>3 DEF DriverInv, TypeOK, Preemption
    <3>4. QED
      BY <3>2, <3>3
  <2>2. preempted' = preempted
    BY <1>2 DEF history
  <2>3. QED
    BY <2>1, <2>2 DEF Preemption
<1>10. QED
  BY <1>1, <1>6, <1>7, <1>8, <1>9 DEF DriverInv

(* The answer, and the end of the task.                                    *)
LEMMA ReplyOK == ASSUME DriverInv, Reply PROVE DriverInv'
<1>1. SessionTypeOK' /\ SessionInv'
  BY SessionKept DEF Next, DriverStep
<1>2. /\ stage = "reply" /\ stage' = "idle" /\ current' = NoRequest
      /\ call' = [call EXCEPT ![current] = IF @ = "accepted" THEN "answered" ELSE @]
      /\ UNCHANGED <<sessionVars, open, inbox, pending, result, history>>
  BY DEF Reply
<1>3. /\ current \in Requests /\ phase[Driver] = "out" /\ phase' = phase
      /\ stopped' = stopped /\ call[current] # "new"
  BY <1>2 DEF DriverInv, TypeOK, Control, Accounted, sessionVars
<1>4. result[current] # "none"
  BY <1>2, <1>3 DEF DriverInv, Accounted, Unfinished
<1>5. Queue' = Queue /\ Queued' = Queued /\ Distinct(Queue)' = Distinct(Queue)
  BY <1>2 DEF Queue, Queued, Elements, Distinct
<1>6. TypeOK' /\ InOrder'
  BY <1>1, <1>2, <1>3, <1>5 DEF DriverInv, TypeOK, InOrder, Stages, history
<1>7. Control'
  BY <1>2, <1>3, <1>5 DEF DriverInv, Control
<1>8. Accounted'
  <2>1. \A r \in Requests : call'[r] = "new" <=> call[r] = "new"
    BY <1>2, <1>3 DEF DriverInv, TypeOK
  <2>2. \A r \in Queued : r # NoRequest
    <3>1. Queue \in Seq(Requests)
      BY ConcatProperties DEF DriverInv, TypeOK, Queue
    <3>2. Queued \subseteq Requests
      BY <3>1 DEF Queued, Elements
    <3>3. QED
      BY <3>2, DriverAssumption
  <2>3. NoRequest \notin Requests
    BY DriverAssumption
  <2>4. QED
    BY <1>2, <1>3, <1>4, <1>5, <2>1, <2>2, <2>3 DEF DriverInv, Accounted
<1>9. Preemption'
  BY <1>2, <1>3 DEF DriverInv, Preemption, history
<1>10. QED
  BY <1>1, <1>6, <1>7, <1>8, <1>9 DEF DriverInv

\* Stopping: nothing is left in the queue, so everything accepted is served.
LEMMA StopDriverOK == ASSUME DriverInv, StopDriver PROVE DriverInv'
<1>1. SessionTypeOK' /\ SessionInv'
  BY SessionKept DEF Next, DriverStep
<1>2. /\ stage = "idle" /\ stage' = "stopped" /\ ~open
      /\ pending = <<>> /\ inbox = <<>>
      /\ UNCHANGED <<sessionVars, call, open, inbox, pending, current, result, history>>
  BY DEF StopDriver
<1>3. Queue' = Queue /\ Queued' = Queued /\ Distinct(Queue)' = Distinct(Queue)
  BY <1>2 DEF Queue, Queued, Elements, Distinct
<1>4. TypeOK' /\ InOrder'
  BY <1>1, <1>2, <1>3 DEF DriverInv, TypeOK, InOrder, Stages, history
<1>5. Control'
  <2>1. Queue = <<>>
    BY <1>2, ConcatEmptySeq DEF Queue
  <2>2. QED
    BY <1>2, <1>3, <2>1 DEF DriverInv, Control, sessionVars
<1>6. Accounted'
  BY <1>2, <1>3 DEF DriverInv, Accounted, Unfinished, sessionVars
<1>7. Preemption'
  BY <1>2 DEF DriverInv, Preemption, sessionVars, history
<1>8. QED
  BY <1>1, <1>4, <1>5, <1>6, <1>7 DEF DriverInv

-----------------------------------------------------------------------------
(* The theorems.                                                           *)

(* The invariant is inductive.                                             *)
LEMMA DriverInvariant == Spec => []DriverInv
<1>1. DriverInv /\ [Next]_vars => DriverInv'
  <2> SUFFICES ASSUME DriverInv, [Next]_vars PROVE DriverInv'
    OBVIOUS
  <2>1. CASE \E r \in Requests : Send(r)
    BY <2>1, SendOK
  <2>2. CASE (\E r \in Requests : Abandon(r)) \/ DropHandles
    BY <2>2, LeaveOK
  <2>3. CASE DriverStep
    BY <2>3, TakeOK, StopDriverOK, StartOpOK, RunOpOK, WatchInboxOK, FinishOpOK,
       ReleaseOpOK, ReplyOK
    DEF DriverStep
  <2>4. CASE Others
    BY <2>4, OthersOK
  <2>5. CASE CancelSync
    BY <2>5, CancelSyncOK
  <2>6. CASE Terminated \/ UNCHANGED vars
    BY <2>6, StutterOK DEF Terminated
  <2>7. QED
    BY <2>1, <2>2, <2>3, <2>4, <2>5, <2>6 DEF Next
<1>2. QED
  BY <1>1, DriverInitOK, PTL DEF Spec

(* The variables keep their types.                                         *)
THEOREM DriverTypes == Spec => []TypeOK
<1>1. DriverInv => TypeOK
  BY DEF DriverInv
<1>2. QED
  BY <1>1, DriverInvariant, PTL

(* The driver's use of the session never breaks it: mutual exclusion, the  *)
(* live run's token and the fair queue hold of the whole system.           *)
THEOREM DriverKeepsSession == Spec => [](Exclusive /\ TokenIsLive /\ QueueIsFair)
<1>1. DriverInv => Exclusive /\ TokenIsLive /\ QueueIsFair
  BY DEF DriverInv, SessionInv
<1>2. QED
  BY <1>1, DriverInvariant, PTL

(* Requests are taken up in the order they arrived, none lost, none twice. *)
THEOREM RequestsInOrder == Spec => []InOrder
<1>1. DriverInv => InOrder
  BY DEF DriverInv
<1>2. QED
  BY <1>1, DriverInvariant, PTL

(* An operation in progress holds the session.                             *)
THEOREM OperationsHoldSession == Spec => []WritesUnderSession
<1>1. DriverInv => WritesUnderSession
  <2> SUFFICES ASSUME DriverInv PROVE WritesUnderSession
    OBVIOUS
  <2>1. Driver \in Tasks
    BY DriverAssumption
  <2>2. ASSUME Inside(Driver)
        PROVE  stage \in {"queued", "session"} /\ current \in Requests
    BY <2>2 DEF Inside, DriverInv, TypeOK, Stages, Control
  <2>3. ASSUME stage = "session"
        PROVE  lock = Driver
    BY <2>1, <2>3 DEF DriverInv, Control, SessionInv, Exclusive, Inside
  <2>4. QED
    BY <2>2, <2>3 DEF WritesUnderSession
<1>2. QED
  BY <1>1, DriverInvariant, PTL

(* A sync whose live run was preempted reports a cancelled sync.           *)
THEOREM PreemptionSticks == Spec => []PreemptedSyncStops
<1>1. DriverInv => PreemptedSyncStops
  BY DEF DriverInv, Preemption, PreemptedSyncStops
<1>2. QED
  BY <1>1, DriverInvariant, PTL

(* The task ends with every accepted request served.                       *)
THEOREM ShutdownServesAll == Spec => []NothingLeftBehind
<1>1. DriverInv => NothingLeftBehind
  <2> SUFFICES ASSUME DriverInv, stage = "stopped", NEW r \in Requests,
                      call[r] # "new", result[r] = "none"
               PROVE  FALSE
    BY DEF NothingLeftBehind
  <2>1. Queued = {}
    BY DEF DriverInv, Control, Queued, Elements
  <2>2. r = current
    BY <2>1 DEF DriverInv, Accounted
  <2>3. current = NoRequest
    BY DEF DriverInv, Control
  <2>4. QED
    BY <2>2, <2>3, DriverAssumption
<1>2. QED
  BY <1>1, DriverInvariant, PTL

-----------------------------------------------------------------------------
(* The driver is the service its callers see.                              *)

(* What the service sees of a step that leaves its variables alone.        *)
LEMMA ServiceStutter ==
  ASSUME UNCHANGED <<call, open, current, result>>, Queue' = Queue,
         (stage' = "stopped") <=> (stage = "stopped")
  PROVE  UNCHANGED Service!vars
<1>1. (stage' = "stopped") = (stage = "stopped")
  OBVIOUS
<1>2. QED
  BY <1>1 DEF Service!vars

(* The initial states agree.                                               *)
LEMMA ServiceInitOK == Init => Service!Init
<1> SUFFICES ASSUME Init PROVE Service!Init
  OBVIOUS
<1>1. Queue = <<>> /\ (stage = "stopped") = FALSE
  BY DEF Init, Queue
<1>2. QED
  BY <1>1 DEF Init, Service!Init

(* What the callers do is what the service's callers do.                   *)
LEMMA ServiceCallers ==
  ASSUME DriverInv, NEW r \in Requests, Send(r) \/ Abandon(r)
  PROVE  Service!Accept(r) \/ Service!Leave(r)
<1>1. CASE Send(r)
  <2>1. /\ pending \in Seq(Requests) /\ inbox \in Seq(Requests)
        /\ inbox' = Append(inbox, r) /\ pending' = pending
    BY <1>1 DEF Send, DriverInv, TypeOK
  <2>2. Queue' = Append(Queue, r)
    BY <2>1, AppendRight DEF Queue
  <2>3. (stage = "stopped")' = (stage = "stopped")
    BY <1>1 DEF Send
  <2>4. QED
    BY <1>1, <2>2, <2>3 DEF Send, Service!Accept
<1>2. CASE Abandon(r)
  <2>1. Queue' = Queue /\ (stage = "stopped")' = (stage = "stopped")
    BY <1>2 DEF Abandon, Queue
  <2>2. QED
    BY <1>2, <2>1 DEF Abandon, history, Service!Leave
<1>3. QED
  BY <1>1, <1>2

(* The last handle closes the service.                                     *)
LEMMA ServiceClose == ASSUME DropHandles PROVE Service!Close
<1>1. Queue' = Queue /\ (stage = "stopped")' = (stage = "stopped")
  BY DEF DropHandles, Queue
<1>2. QED
  BY <1>1 DEF DropHandles, history, Service!Close

(* Whichever of its two queues the driver reads, it takes up the oldest    *)
(* request.                                                                *)
LEMMA ServiceTakeUp ==
  ASSUME DriverInv, TakePending \/ TakeInbox PROVE Service!TakeUp
<1>1. /\ pending \in Seq(Requests) /\ inbox \in Seq(Requests)
      /\ stage = "idle" /\ stage' = "start"
      /\ UNCHANGED <<call, open, result>>
  BY DEF TakePending, TakeInbox, TakeUp, DriverInv, TypeOK
<1>2. Queue # <<>> /\ current' = Head(Queue) /\ Queue' = Tail(Queue)
  <2>1. CASE TakePending
    BY <1>1, <2>1, TailConcat DEF TakePending, TakeUp, Queue
  <2>2. CASE TakeInbox
    <3>1. /\ pending = <<>> /\ pending' = <<>> /\ inbox # <<>>
          /\ current' = Head(inbox) /\ inbox' = Tail(inbox)
      BY <2>2 DEF TakeInbox, TakeUp
    <3>2. Tail(inbox) \in Seq(Requests)
      BY <1>1, <3>1, HeadTailProperties
    <3>3. Queue = inbox /\ Queue' = Tail(inbox)
      BY <1>1, <3>1, <3>2, ConcatEmptySeq DEF Queue
    <3>4. QED
      BY <3>1, <3>3
  <2>3. QED
    BY <2>1, <2>2
<1>3. current = NoRequest
  BY <1>1 DEF DriverInv, Control
<1>4. (stage' = "stopped") = (stage = "stopped")
  BY <1>1
<1>5. QED
  BY <1>1, <1>2, <1>3, <1>4 DEF Service!TakeUp

(* The task ends when the service does.                                    *)
LEMMA ServiceStop == ASSUME DriverInv, StopDriver PROVE Service!Stop
<1>1. /\ stage = "idle" /\ stage' = "stopped" /\ ~open
      /\ pending = <<>> /\ inbox = <<>>
      /\ UNCHANGED <<call, open, inbox, pending, current, result>>
  BY DEF StopDriver, history
<1>2. Queue = <<>> /\ Queue' = Queue
  BY <1>1, ConcatEmptySeq DEF Queue
<1>3. current = NoRequest
  BY <1>1 DEF DriverInv, Control
<1>4. (stage = "stopped") = FALSE /\ (stage' = "stopped") = TRUE
  BY <1>1
<1>5. QED
  BY <1>1, <1>2, <1>3, <1>4 DEF Service!Stop

(* An operation ends once, and only a sync can end cancelled.              *)
LEMMA ServiceComplete == ASSUME DriverInv, FinishOp PROVE Service!Complete
<1>1. /\ stage = "session" /\ phase[Driver] = "running"
      /\ result' = [result EXCEPT ![current] = Outcome(current)]
      /\ UNCHANGED <<call, open, inbox, pending, current, stage>>
  BY DriverAssumption
  DEF FinishOp, Close, history, DriverInv, TypeOK, SessionTypeOK
<1>2. current \in Requests /\ current # NoRequest /\ result[current] = "none"
  BY <1>1 DEF DriverInv, TypeOK, Control, Accounted, Unfinished
<1>3. Queue' = Queue /\ (stage = "stopped")' = (stage = "stopped")
  BY <1>1 DEF Queue
<1>4. /\ Outcome(current) \in {"ended", "cancelled"}
      /\ Outcome(current) = "cancelled" => current \in Syncs
  BY DEF Outcome
<1>5. QED
  BY <1>1, <1>2, <1>3, <1>4 DEF Service!Complete

(* A request is answered after it is done.                                 *)
LEMMA ServiceAnswer == ASSUME DriverInv, Reply PROVE Service!Answer
<1>1. /\ stage = "reply" /\ stage' = "idle" /\ current' = NoRequest
      /\ call' = [call EXCEPT ![current] = IF @ = "accepted" THEN "answered" ELSE @]
      /\ UNCHANGED <<open, inbox, pending, result>>
  BY DEF Reply, history
<1>2. current \in Requests /\ current # NoRequest /\ phase[Driver] = "out"
  BY <1>1 DEF DriverInv, TypeOK, Control
<1>3. result[current] # "none"
  BY <1>1, <1>2 DEF DriverInv, Accounted, Unfinished
<1>4. Queue' = Queue /\ (stage' = "stopped") = (stage = "stopped")
  BY <1>1 DEF Queue
<1>5. QED
  BY <1>1, <1>2, <1>3, <1>4 DEF Service!Answer

(* What the driver does with its mailbox during a sync, and with the       *)
(* session, shows nothing.                                                 *)
LEMMA ServiceInside ==
  ASSUME DriverInv,
         StartOp \/ RunOp \/ ReleaseOp \/ WatchInbox \/ Others \/ CancelSync
           \/ UNCHANGED vars
  PROVE  UNCHANGED Service!vars
<1>1. CASE StartOp \/ RunOp \/ ReleaseOp
  <2>1. stage # "stopped" /\ stage' # "stopped"
    <3>1. CASE StartOp
      BY <3>1 DEF StartOp
    <3>2. CASE RunOp
      <4>1. phase[Driver] = "granted"
        BY <3>2 DEF RunOp, Publish
      <4>2. QED
        BY <3>2, <4>1 DEF RunOp, DriverInv, Control
    <3>3. CASE ReleaseOp
      <4>1. phase[Driver] = "closing"
        BY <3>3 DEF ReleaseOp, Unlock
      <4>2. QED
        BY <3>3, <4>1 DEF ReleaseOp, DriverInv, Control
    <3>4. QED
      BY <1>1, <3>1, <3>2, <3>3
  <2>2. UNCHANGED <<call, open, inbox, pending, current, result>>
    BY <1>1 DEF StartOp, RunOp, ReleaseOp
  <2>3. Queue' = Queue
    BY <2>2 DEF Queue
  <2>4. QED
    BY <2>1, <2>2, <2>3, ServiceStutter
<1>2. CASE WatchInbox
  <2>1. /\ pending \in Seq(Requests) /\ inbox \in Seq(Requests) /\ inbox # <<>>
        /\ pending' = Append(pending, Head(inbox)) /\ inbox' = Tail(inbox)
        /\ UNCHANGED <<call, open, current, stage, result>>
    BY <1>2 DEF WatchInbox, DriverInv, TypeOK
  <2>2. Queue' = Queue
    BY <2>1, MoveHead DEF Queue
  <2>3. QED
    BY <2>1, <2>2, ServiceStutter
<1>3. CASE Others \/ CancelSync \/ UNCHANGED vars
  <2>1. UNCHANGED <<call, open, inbox, pending, current, stage, result>>
    BY <1>3 DEF Others, CancelSync, vars, driverVars
  <2>2. Queue' = Queue
    BY <2>1 DEF Queue
  <2>3. QED
    BY <2>1, <2>2, ServiceStutter
<1>4. QED
  BY <1>1, <1>2, <1>3

(* Every step of the driver and of its environment is a step of the        *)
(* service or invisible.                                                   *)
LEMMA ServiceStep ==
  DriverInv /\ [Next]_vars => [Service!Next]_(Service!vars)
<1> SUFFICES ASSUME DriverInv, [Next]_vars
             PROVE  Service!Next \/ UNCHANGED Service!vars
  OBVIOUS
<1>1. CASE \E r \in Requests : Send(r) \/ Abandon(r)
  BY <1>1, ServiceCallers DEF Service!Next
<1>2. CASE DropHandles
  BY <1>2, ServiceClose DEF Service!Next
<1>3. CASE DriverStep
  <2>1. CASE TakePending \/ TakeInbox
    BY <2>1, ServiceTakeUp DEF Service!Next
  <2>2. CASE StopDriver
    BY <2>2, ServiceStop DEF Service!Next
  <2>3. CASE FinishOp
    BY <2>3, ServiceComplete DEF Service!Next
  <2>4. CASE Reply
    BY <2>4, ServiceAnswer DEF Service!Next
  <2>5. CASE StartOp \/ RunOp \/ ReleaseOp \/ WatchInbox
    BY <2>5, ServiceInside
  <2>6. QED
    BY <1>3, <2>1, <2>2, <2>3, <2>4, <2>5 DEF DriverStep
<1>4. CASE Others \/ CancelSync \/ Terminated \/ UNCHANGED vars
  BY <1>4, ServiceInside DEF Terminated
<1>5. QED
  BY <1>1, <1>2, <1>3, <1>4 DEF Next

(* The driver implements the service: the mailbox, the requests it sets    *)
(* aside during a sync and the session are invisible to its callers.       *)
THEOREM DriverIsService == Spec => ImplementsService
<1>1. Spec => []DriverInv
  BY DriverInvariant
<1>2. Init => Service!Init
  BY ServiceInitOK
<1>3. DriverInv /\ [Next]_vars => [Service!Next]_(Service!vars)
  BY ServiceStep
<1>4. QED
  BY <1>1, <1>2, <1>3, PTL DEF Spec, ImplementsService, Service!Spec

(* The token published is the live run's and nobody else's, so a cancel    *)
(* reaches the run in progress whoever holds the session.                  *)
THEOREM TokenAlwaysLive == Spec => []TokenIsLive
<1>1. DriverInv => TokenIsLive
  BY DEF DriverInv, SessionInv
<1>2. QED
  BY <1>1, DriverInvariant, PTL

(* Nobody is let into the session before those who asked for it earlier.   *)
THEOREM SessionQueueFair == Spec => []QueueIsFair
<1>1. DriverInv => QueueIsFair
  BY DEF DriverInv, SessionInv
<1>2. QED
  BY <1>1, DriverInvariant, PTL
=============================================================================
