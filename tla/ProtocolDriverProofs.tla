------------------------ MODULE ProtocolDriverProofs ------------------------
(***************************************************************************)
(* Proofs about the protocol drivers, for any number of drivers and calls  *)
(* and any mailbox: passes never overlap, a step is answered by a pass     *)
(* that began after it was sent, and no step of the protocol starts while  *)
(* a cancel is on its way.                                                 *)
(***************************************************************************)
EXTENDS ProtocolDriver, SyncSessionProofs, FiniteSetTheorems

-----------------------------------------------------------------------------
(* The inductive invariant.                                                *)

\* Where a driver stands in the session, by its stage: it is inside from the
\* start of its sync to the end of its pass, and it never waits.
PlaceOK(s, ph) ==
    /\ s \in {"unborn", "idle", "pass", "enter", "answer", "cancel", "stopped"} => ph = "out"
    /\ s = "sync" => ph \in {"granted", "running"}
    /\ s \in {"plan", "step", "leave"} => ph = "running"
    /\ s = "release" => ph = "closing"

Place == \A d \in Drivers : PlaceOK(stage[d], phase[d])

\* A call in a mailbox, or taken from it, was sent; a mailbox's cancels are
\* taken by a driver that runs them before anything else.
Mail ==
    \A d \in Drivers :
        /\ \A r \in ToSet(inbox[d]) \cup batch[d] \cup cancelled[d] : call[r] \in {"sent", "done"}
        /\ ToSet(inbox[d]) \cap cancelled[d] = {}
        /\ stage[d] # "cancel" => cancelled[d] = {}
        /\ stage[d] \in {"unborn", "idle", "stopped"} => batch[d] = {}

\* A step under way has something to do: nobody else took it.
Stepping == \A d \in Drivers : stage[d] = "step" /\ active => effects # 0

\* The steps of a pass were sent before it began.
Fresh ==
    \A d \in Drivers : stage[d] # "cancel" => batch[d] \cap late = {}

\* The cancels a driver was asked for and has not run.
Outstanding(d) ==
    {r \in Cancels : \/ call[r] = "raised" /\ target[r] = d
                     \/ r \in ToSet(inbox[d])
                     \/ r \in cancelled[d]}

\* The flag counts them all; a cancel whose caller gave up while it waited
\* for room is counted for ever.
Counted == \A d \in Drivers : Cardinality(Outstanding(d)) <= cancelling[d]

ControlInv ==
    /\ TypeOK
    /\ SessionInv
    /\ Place
    /\ Mail
    /\ Stepping

ProtocolInv ==
    /\ ControlInv
    /\ Fresh
    /\ Counted
    /\ stale = {}
    /\ overran = {}

-----------------------------------------------------------------------------
(* The session.                                                            *)

\* The drivers are tasks and the app is none of them.
LEMMA DriverTasks == Drivers \subseteq Tasks /\ App \in Tasks /\ App \notin Drivers
BY ProtocolAssumption

\* What a pass can have left to do.
LEMMA EffectsRange ==
  /\ MaxEffects \in Nat
  /\ 0 \in 0 .. MaxEffects
  /\ \A n \in 1 .. MaxEffects : n \in 0 .. MaxEffects /\ n # 0
BY ProtocolAssumption

(* Drivers and the app only do to the session what the session offers.     *)
LEMMA NextIsSessionStep == [Next]_vars => [SessionNext]_sessionVars
<1> SUFFICES ASSUME [Next]_vars PROVE SessionNext \/ UNCHANGED sessionVars
  OBVIOUS
<1> USE DriverTasks DEF SessionNext, Begin
<1>1. CASE NewBlock \/ StartProtocol \/ ClosePage \/ (\E d \in Drivers : OpenPage(d)) \/ UNCHANGED vars
  BY <1>1 DEF NewBlock, StartProtocol, ClosePage, OpenPage, vars
<1>2. CASE AppRuns \/ CancelSync
  BY <1>2 DEF AppRuns, CancelSync
<1>3. CASE \E r \in Steps : SendStep(r)
  BY <1>3 DEF SendStep
<1>4. CASE \E r \in Cancels : RaiseCancel(r) \/ SendCancel(r) \/ DirectCancel(r)
  BY <1>4 DEF RaiseCancel, SendCancel, DirectCancel
<1>5. CASE \E r \in Calls : Abandon(r)
  BY <1>5 DEF Abandon
<1>6. ASSUME NEW d \in Drivers, DriverStep(d) PROVE SessionNext \/ UNCHANGED sessionVars
  <2>1. CASE WakeOnMail(d) \/ WakeOnTick(d)
    BY <2>1 DEF WakeOnMail, WakeOnTick, Wake
  <2>2. CASE Stop(d) \/ RunCancel(d) \/ CancelsDone(d)
    BY <2>2 DEF Stop, RunCancel, CancelsDone
  <2>3. CASE Pass(d)
    BY <2>3
    DEF Pass, NothingToDo, SomethingToDo, Unreachable, Enter, SessionBusy, PublishRun, Synced,
        SyncCancelled, SyncFailed, Wait, AbortSign, StartStep, EndStep, LastStep, FailStep,
        DropRun, ReleaseRun, AnswerSteps, EndPass
  <2>4. QED
    BY <1>6, <2>1, <2>2, <2>3 DEF DriverStep
<1>7. QED
  BY <1>1, <1>2, <1>3, <1>4, <1>5, <1>6 DEF Next

(* So the session stays consistent whatever they do.                       *)
LEMMA SessionKept == ASSUME ProtocolInv, [Next]_vars PROVE SessionTypeOK' /\ SessionInv'
BY NextIsSessionStep, SessionStepOK DEF ProtocolInv, ControlInv, TypeOK, SessionOK

(* No driver waits for the session, so it is never handed to one.          *)
LEMMA UnlockPhases ==
  ASSUME ProtocolInv, NEW t \in Tasks, Unlock(t)
  PROVE  \A d \in Drivers : phase'[d] = IF d = t THEN "out" ELSE phase[d]
<1>1. \A d \in Drivers : phase[d] # "waiting"
  BY DEF ProtocolInv, ControlInv, TypeOK, Place, PlaceOK, Stages
<1>2. phase \in [Tasks -> Phases] /\ waiters \in Seq(Tasks)
  BY DEF ProtocolInv, ControlInv, TypeOK, SessionTypeOK
<1>3. CASE waiters = <<>>
  BY <1>2, <1>3, DriverTasks DEF Unlock
<1>4. CASE waiters # <<>>
  <2>1. Head(waiters) \in Tasks /\ phase[Head(waiters)] = "waiting"
    BY <1>2, <1>4 DEF ProtocolInv, ControlInv, SessionInv, QueueIsFair
  <2>2. Head(waiters) \notin Drivers
    BY <1>1, <2>1
  <2>3. QED
    BY <1>2, <1>4, <2>1, <2>2, DriverTasks DEF Unlock
<1>5. QED
  BY <1>3, <1>4

(* One driver at a time has the session.                                   *)
LEMMA OneInside ==
  ASSUME SessionInv, NEW d \in Drivers, NEW e \in Drivers, Inside(d), Inside(e)
  PROVE  d = e
BY DriverTasks DEF SessionInv, Exclusive

-----------------------------------------------------------------------------
(* Steps that leave the calls and the mailboxes alone.                     *)

\* A step that leaves the mailboxes alone keeps what they hold.
LEMMA MailKept ==
  ASSUME ProtocolInv, UNCHANGED <<mail, callers, late, stale, overran>>,
         \A d \in Drivers :
            \/ stage'[d] = stage[d]
            \/ /\ stage[d] # "cancel" /\ stage'[d] # "cancel"
               /\ stage'[d] \in {"unborn", "idle", "stopped"} => stage[d] \in {"unborn", "idle", "stopped"}
  PROVE  Mail' /\ Fresh' /\ Counted' /\ stale' = {} /\ overran' = {}
<1>1. UNCHANGED <<inbox, batch, cancelled, cancelling, call, target, late, stale, overran>>
  BY DEF mail, callers
<1>2. Mail'
  BY <1>1 DEF ProtocolInv, ControlInv, Mail
<1>3. Fresh'
  BY <1>1 DEF ProtocolInv, Fresh
<1>4. Counted'
  <2>1. \A d \in Drivers : Outstanding(d)' = Outstanding(d)
    BY <1>1 DEF Outstanding
  <2>2. QED
    BY <1>1, <2>1 DEF ProtocolInv, Counted
<1>5. QED
  BY <1>1, <1>2, <1>3, <1>4 DEF ProtocolInv

(* The chain, the page and the app.                                        *)
LEMMA EnvironmentOK ==
  ASSUME ProtocolInv,
         NewBlock \/ StartProtocol \/ ClosePage \/ AppRuns \/ CancelSync
           \/ (\E d \in Drivers : OpenPage(d)) \/ UNCHANGED vars
  PROVE  ProtocolInv'
<1>1. SessionTypeOK' /\ SessionInv'
  BY SessionKept DEF Next
<1>2. /\ UNCHANGED <<mail, callers, retry, history>>
      /\ UNCHANGED <<inbox, batch, cancelled, cancelling, call, target, late, stale, overran, owing>>
  BY DEF NewBlock, StartProtocol, ClosePage, AppRuns, CancelSync, OpenPage, vars, mail, callers, history
<1>3. stage' = stage \/ (\E d \in Drivers : stage[d] = "unborn" /\ stage' = [stage EXCEPT ![d] = "idle"])
  BY DEF NewBlock, StartProtocol, ClosePage, AppRuns, CancelSync, OpenPage, vars
<1>4. \A d \in Drivers : \/ stage'[d] = stage[d]
                         \/ stage[d] = "unborn" /\ stage'[d] = "idle"
  BY <1>3 DEF ProtocolInv, ControlInv, TypeOK
<1>5. Mail' /\ Fresh' /\ Counted' /\ stale' = {} /\ overran' = {}
  BY <1>2, <1>4, MailKept
<1>6. \A d \in Drivers : phase'[d] = phase[d]
  <2>1. CASE AppRuns
    <3>1. CASE Begin(App) \/ Publish(App) \/ Close(App)
      BY <3>1, DriverTasks
      DEF Begin, TryBegin, Enqueue, Publish, Close, ProtocolInv, ControlInv, TypeOK, SessionTypeOK
    <3>2. CASE Unlock(App)
      BY <3>2, UnlockPhases, DriverTasks
    <3>3. QED
      BY <2>1, <3>1, <3>2 DEF AppRuns
  <2>2. CASE ~AppRuns
    BY <2>2 DEF NewBlock, StartProtocol, ClosePage, CancelSync, Cancel, OpenPage, vars, sessionVars
  <2>3. QED
    BY <2>1, <2>2
<1>7. Place'
  BY <1>4, <1>6 DEF ProtocolInv, ControlInv, Place, PlaceOK
<1>8. /\ \/ UNCHANGED <<active, effects>>
         \/ active' = TRUE /\ effects' \in 1 .. MaxEffects
      /\ handle' \in Drivers \cup {NoDriver}
      /\ unseen' \in SUBSET Drivers
  BY DEF ProtocolInv, ControlInv, TypeOK, NewBlock, StartProtocol, ClosePage, AppRuns, CancelSync,
         OpenPage, vars, wallet
<1>9. active' \in BOOLEAN /\ effects' \in 0 .. MaxEffects
  <2>1. active \in BOOLEAN /\ effects \in 0 .. MaxEffects
    BY DEF ProtocolInv, ControlInv, TypeOK
  <2>2. QED
    BY <1>8, <2>1, EffectsRange
<1>10. Stepping'
  BY <1>4, <1>8, EffectsRange DEF ProtocolInv, ControlInv, Stepping
<1>11. TypeOK'
  <2>1. stage' \in [Drivers -> Stages]
    BY <1>3 DEF ProtocolInv, ControlInv, TypeOK, Stages
  <2>2. QED
    BY <1>1, <1>2, <1>8, <1>9, <2>1 DEF ProtocolInv, ControlInv, TypeOK
<1>12. QED
  BY <1>1, <1>5, <1>7, <1>10, <1>11 DEF ProtocolInv, ControlInv

-----------------------------------------------------------------------------
(* The pass.                                                               *)

\* A step of a pass that moves the driver on and leaves the calls alone.
LEMMA MoveOK ==
  ASSUME ProtocolInv, [Next]_vars, NEW d \in Drivers,
         NEW from \in Stages \ {"unborn", "idle", "cancel", "stopped"},
         NEW to \in Stages \ {"unborn", "idle", "cancel", "stopped"},
         Advance(d, from, to),
         UNCHANGED <<late, stale, overran>>,
         retry' \in [Drivers -> BOOLEAN], owing' \in SUBSET Drivers,
         active' \in BOOLEAN, effects' \in 0 .. MaxEffects,
         \A e \in Drivers \ {d} : phase'[e] = phase[e],
         PlaceOK(to, phase'[d]),
         Stepping'
  PROVE  ProtocolInv'
<1>1. SessionTypeOK' /\ SessionInv'
  BY SessionKept
<1>2. /\ stage[d] = from /\ stage' = [stage EXCEPT ![d] = to]
      /\ UNCHANGED <<handle, mail, unseen, callers>>
  BY DEF Advance
<1>3. stage \in [Drivers -> Stages]
  BY DEF ProtocolInv, ControlInv, TypeOK
<1>4. stage' \in [Drivers -> Stages] /\ stage'[d] = to
      /\ \A e \in Drivers \ {d} : stage'[e] = stage[e]
  BY <1>2, <1>3
<1>5. Mail' /\ Fresh' /\ Counted' /\ stale' = {} /\ overran' = {}
  BY <1>2, <1>4, MailKept
<1>6. Place'
  BY <1>4 DEF ProtocolInv, ControlInv, Place
<1>7. TypeOK'
  BY <1>1, <1>2, <1>4 DEF ProtocolInv, ControlInv, TypeOK, mail, callers
<1>8. QED
  BY <1>1, <1>5, <1>6, <1>7 DEF ProtocolInv, ControlInv

(* The end of a pass, from wherever it comes.                              *)
LEMMA EndPassOK ==
  ASSUME ProtocolInv, [Next]_vars, NEW d \in Drivers,
         NEW from \in {"pass", "enter", "sync", "plan", "step"}, NEW busy \in BOOLEAN,
         EndPass(d, from, busy), from = "sync" => phase[d] = "running",
         UNCHANGED wallet \/ (active' = FALSE /\ effects' = 0)
  PROVE  ProtocolInv'
<1> DEFINE to == IF phase[d] = "running" THEN "leave" ELSE "answer"
<1>1. /\ Advance(d, from, to)
      /\ retry' = [retry EXCEPT ![d] = busy]
      /\ owing' = IF busy THEN owing \cup {d} ELSE owing
      /\ UNCHANGED <<sessionVars, late, stale, overran>>
  BY DEF EndPass
<1>2. /\ phase' = phase /\ stage[d] = from /\ PlaceOK(stage[d], phase[d])
      /\ stage \in [Drivers -> Stages]
  BY <1>1 DEF sessionVars, Advance, ProtocolInv, ControlInv, Place, TypeOK
<1>3. PlaceOK(to, phase'[d])
  BY <1>2 DEF PlaceOK
<1>4. retry' \in [Drivers -> BOOLEAN] /\ owing' \in SUBSET Drivers
  BY <1>1 DEF ProtocolInv, ControlInv, TypeOK
<1>5. active' \in BOOLEAN /\ effects' \in 0 .. MaxEffects
  <2>1. active \in BOOLEAN /\ effects \in 0 .. MaxEffects
    BY DEF ProtocolInv, ControlInv, TypeOK
  <2>2. QED
    BY <2>1, EffectsRange DEF wallet
<1>6. Stepping'
  <2>1. \A e \in Drivers : stage'[e] = "step" => stage[e] = "step"
    BY <1>1, <1>2 DEF Advance
  <2>2. QED
    BY <2>1 DEF ProtocolInv, ControlInv, Stepping, wallet
<1>7. from \in Stages \ {"unborn", "idle", "cancel", "stopped"}
      /\ to \in Stages \ {"unborn", "idle", "cancel", "stopped"}
  BY DEF Stages
<1> HIDE DEF to
<1>8. QED
  BY <1>1, <1>2, <1>3, <1>4, <1>5, <1>6, <1>7, MoveOK

\* The end of a pass leaves its driver in order.
LEMMA PassEndsOK ==
  ASSUME ProtocolInv, NEW d \in Drivers,
         NothingToDo(d) \/ Unreachable(d) \/ SessionBusy(d) \/ SyncCancelled(d) \/ SyncFailed(d)
           \/ Wait(d) \/ AbortSign(d) \/ LastStep(d) \/ FailStep(d)
  PROVE  ProtocolInv'
<1>1. [Next]_vars
  BY DEF Next, DriverStep, Pass
<1>2. \E from \in {"pass", "enter", "sync", "plan", "step"}, busy \in BOOLEAN :
          EndPass(d, from, busy) /\ (from = "sync" => phase[d] = "running")
  BY DEF NothingToDo, Unreachable, SessionBusy, SyncCancelled, SyncFailed, Wait, AbortSign,
         LastStep, FailStep
<1>3. UNCHANGED wallet \/ (active' = FALSE /\ effects' = 0)
  BY DEF NothingToDo, Unreachable, SessionBusy, SyncCancelled, SyncFailed, Wait, AbortSign,
         LastStep, FailStep
<1>4. QED
  BY <1>1, <1>2, <1>3, EndPassOK

(* The moves between the end of one stage and the next.                    *)
LEMMA PassMovesOK ==
  ASSUME ProtocolInv, NEW d \in Drivers,
         SomethingToDo(d) \/ Enter(d) \/ PublishRun(d) \/ Synced(d) \/ EndStep(d)
           \/ DropRun(d) \/ ReleaseRun(d)
  PROVE  ProtocolInv'
<1>1. [Next]_vars
  BY DEF Next, DriverStep, Pass
<1>2. /\ stage \in [Drivers -> Stages] /\ phase \in [Tasks -> Phases] /\ d \in Tasks
      /\ retry \in [Drivers -> BOOLEAN] /\ owing \in SUBSET Drivers
      /\ active \in BOOLEAN /\ effects \in 0 .. MaxEffects
      /\ Place /\ Stepping
  BY DriverTasks DEF ProtocolInv, ControlInv, TypeOK, SessionTypeOK
<1>3. UNCHANGED <<late, stale, overran, retry, owing>>
  BY DEF SomethingToDo, Enter, PublishRun, Synced, EndStep, DropRun, ReleaseRun, history
<1>4. retry' \in [Drivers -> BOOLEAN] /\ owing' \in SUBSET Drivers
  BY <1>2, <1>3
<1>5. CASE SomethingToDo(d)
  <2>1. /\ Advance(d, "pass", "enter") /\ phase' = phase /\ UNCHANGED wallet
        /\ stage[d] = "pass" /\ stage' = [stage EXCEPT ![d] = "enter"]
    BY <1>5 DEF SomethingToDo, Advance, sessionVars
  <2>2. PlaceOK("enter", phase'[d])
    BY <1>2, <2>1 DEF Place, PlaceOK
  <2>3. active' \in BOOLEAN /\ effects' \in 0 .. MaxEffects /\ Stepping'
    BY <1>2, <2>1 DEF wallet, Stepping
  <2>4. QED
    BY <1>1, <1>3, <1>4, <2>1, <2>2, <2>3, MoveOK DEF Stages
<1>6. CASE Enter(d)
  <2>1. /\ Advance(d, "enter", "sync") /\ UNCHANGED wallet
        /\ phase' = [phase EXCEPT ![d] = "granted"]
        /\ stage' = [stage EXCEPT ![d] = "sync"]
    BY <1>6 DEF Enter, Advance, TryBegin
  <2>2. phase'[d] = "granted" /\ PlaceOK("sync", phase'[d])
        /\ \A e \in Drivers \ {d} : phase'[e] = phase[e]
    BY <1>2, <2>1, DriverTasks DEF PlaceOK
  <2>3. active' \in BOOLEAN /\ effects' \in 0 .. MaxEffects /\ Stepping'
    BY <1>2, <2>1 DEF wallet, Stepping
  <2>4. QED
    BY <1>1, <1>3, <1>4, <2>1, <2>2, <2>3, MoveOK DEF Stages
<1>7. CASE PublishRun(d)
  <2>1. /\ Advance(d, "sync", "sync") /\ UNCHANGED wallet
        /\ phase' = [phase EXCEPT ![d] = "running"]
        /\ stage' = stage
    BY <1>2, <1>7 DEF PublishRun, Advance, Publish
  <2>2. phase'[d] = "running" /\ PlaceOK("sync", phase'[d])
        /\ \A e \in Drivers \ {d} : phase'[e] = phase[e]
    BY <1>2, <2>1, DriverTasks DEF PlaceOK
  <2>3. active' \in BOOLEAN /\ effects' \in 0 .. MaxEffects /\ Stepping'
    BY <1>2, <2>1 DEF wallet, Stepping
  <2>4. QED
    BY <1>1, <1>3, <1>4, <2>1, <2>2, <2>3, MoveOK DEF Stages
<1>8. CASE Synced(d)
  <2>1. /\ Advance(d, "sync", "plan") /\ phase' = phase /\ phase[d] = "running"
        /\ effects' \in effects .. MaxEffects /\ active' = active
        /\ stage' = [stage EXCEPT ![d] = "plan"]
    BY <1>8 DEF Synced, Advance, sessionVars
  <2>2. PlaceOK("plan", phase'[d])
    BY <2>1 DEF PlaceOK
  <2>3. effects' \in 0 .. MaxEffects /\ (effects # 0 => effects' # 0)
    BY <1>2, <2>1, EffectsRange
  <2>4. Stepping'
    BY <1>2, <2>1, <2>3 DEF Stepping
  <2>5. active' \in BOOLEAN
    BY <1>2, <2>1
  <2>6. QED
    BY <1>1, <1>3, <1>4, <2>1, <2>2, <2>3, <2>4, <2>5, MoveOK DEF Stages
<1>9. CASE EndStep(d)
  <2>1. /\ Advance(d, "step", "plan") /\ phase' = phase
        /\ effects' = (IF active THEN effects - 1 ELSE 0) /\ active' = active
        /\ stage[d] = "step" /\ stage' = [stage EXCEPT ![d] = "plan"]
    BY <1>9 DEF EndStep, Advance, sessionVars
  <2>2. phase[d] = "running" /\ PlaceOK("plan", phase'[d])
    BY <1>2, <2>1 DEF Place, PlaceOK
  <2>3. active => effects # 0
    BY <1>2, <2>1 DEF Stepping
  <2>4. effects' \in 0 .. MaxEffects
    <3>1. CASE active
      BY <3>1, <1>2, <2>1, <2>3, EffectsRange
    <3>2. CASE ~active
      BY <3>2, <2>1, EffectsRange
    <3>3. QED
      BY <3>1, <3>2
  <2>5. Stepping'
    <3>1. ASSUME NEW e \in Drivers, stage'[e] = "step" PROVE FALSE
      <4>1. stage[e] = "step" /\ e # d
        BY <3>1, <1>2, <2>1
      <4>2. Inside(e) /\ Inside(d)
        BY <4>1, <1>2, <2>2 DEF Place, PlaceOK, Inside
      <4>3. QED
        BY <4>1, <4>2, OneInside DEF ProtocolInv, ControlInv
    <3>2. QED
      BY <3>1 DEF Stepping
  <2>6. active' \in BOOLEAN
    BY <1>2, <2>1
  <2>7. QED
    BY <1>1, <1>3, <1>4, <2>1, <2>2, <2>4, <2>5, <2>6, MoveOK DEF Stages
<1>10. CASE DropRun(d)
  <2>1. /\ Advance(d, "leave", "release") /\ UNCHANGED wallet
        /\ phase' = [phase EXCEPT ![d] = "closing"]
        /\ stage' = [stage EXCEPT ![d] = "release"]
    BY <1>10 DEF DropRun, Advance, Close
  <2>2. phase'[d] = "closing" /\ PlaceOK("release", phase'[d])
        /\ \A e \in Drivers \ {d} : phase'[e] = phase[e]
    BY <1>2, <2>1, DriverTasks DEF PlaceOK
  <2>3. active' \in BOOLEAN /\ effects' \in 0 .. MaxEffects /\ Stepping'
    BY <1>2, <2>1 DEF wallet, Stepping
  <2>4. QED
    BY <1>1, <1>3, <1>4, <2>1, <2>2, <2>3, MoveOK DEF Stages
<1>11. CASE ReleaseRun(d)
  <2>1. /\ Advance(d, "release", "answer") /\ UNCHANGED wallet /\ Unlock(d)
        /\ stage' = [stage EXCEPT ![d] = "answer"]
    BY <1>11 DEF ReleaseRun, Advance
  <2>2. phase'[d] = "out" /\ PlaceOK("answer", phase'[d])
        /\ \A e \in Drivers \ {d} : phase'[e] = phase[e]
    BY <1>2, <2>1, UnlockPhases DEF PlaceOK
  <2>3. active' \in BOOLEAN /\ effects' \in 0 .. MaxEffects /\ Stepping'
    BY <1>2, <2>1 DEF wallet, Stepping
  <2>4. QED
    BY <1>1, <1>3, <1>4, <2>1, <2>2, <2>3, MoveOK DEF Stages
<1>12. QED
  BY <1>5, <1>6, <1>7, <1>8, <1>9, <1>10, <1>11

(* The cancels are finitely many, so an empty count means none.            *)
LEMMA OutstandingFinite ==
  ASSUME NEW d \in Drivers
  PROVE  /\ IsFiniteSet(Outstanding(d))
         /\ Cardinality(Outstanding(d)) \in Nat
         /\ Cardinality(Outstanding(d)) = 0 <=> Outstanding(d) = {}
<1>1. Outstanding(d) \subseteq Cancels /\ IsFiniteSet(Cancels)
  BY ProtocolAssumption DEF Outstanding
<1>2. QED
  BY <1>1, FS_Subset, FS_CardinalityType, FS_EmptySet

(* A step starts with the flag down, hence with no cancel on its way.      *)
LEMMA StartStepOK == ASSUME ProtocolInv, NEW d \in Drivers, StartStep(d) PROVE ProtocolInv'
<1>1. [Next]_vars
  BY DEF Next, DriverStep, Pass
<1>2. /\ active /\ effects > 0 /\ cancelling[d] = 0
      /\ Advance(d, "plan", "step") /\ stage' = [stage EXCEPT ![d] = "step"]
      /\ stage[d] = "plan" /\ phase' = phase
      /\ UNCHANGED <<wallet, retry, late, stale, owing>>
  BY DEF StartStep, Advance, sessionVars
<1>3. Outstanding(d) = {}
  <2>1. Cardinality(Outstanding(d)) <= 0
    BY <1>2 DEF ProtocolInv, Counted
  <2>2. QED
    BY <2>1, OutstandingFinite
<1>4. overran' = overran
  BY <1>3 DEF StartStep, Outstanding
<1>5. PlaceOK("step", phase'[d])
  BY <1>2 DEF ProtocolInv, ControlInv, Place, PlaceOK
<1>6. active' \in BOOLEAN /\ effects' \in 0 .. MaxEffects /\ effects # 0
  BY <1>2 DEF ProtocolInv, ControlInv, TypeOK, wallet
<1>7. Stepping'
  BY <1>2, <1>6 DEF Stepping, wallet
<1>8. retry' \in [Drivers -> BOOLEAN] /\ owing' \in SUBSET Drivers
  BY <1>2 DEF ProtocolInv, ControlInv, TypeOK
<1>9. QED
  BY <1>1, <1>2, <1>4, <1>5, <1>6, <1>7, <1>8, MoveOK DEF Stages

-----------------------------------------------------------------------------
(* The calls.                                                              *)

\* The elements of a sequence with one more.
LEMMA SetOfAppend ==
  ASSUME NEW S, NEW q \in Seq(S), NEW e \in S
  PROVE  ToSet(Append(q, e)) = ToSet(q) \cup {e}
<1>1. /\ Len(q) \in Nat /\ DOMAIN q = 1 .. Len(q)
      /\ DOMAIN Append(q, e) = 1 .. Len(q) + 1
      /\ \A i \in 1 .. Len(q) : Append(q, e)[i] = q[i]
      /\ Append(q, e)[Len(q) + 1] = e
  OBVIOUS
<1>2. ASSUME NEW x \in ToSet(Append(q, e)) PROVE x \in ToSet(q) \cup {e}
  <2>1. PICK i \in 1 .. Len(q) + 1 : x = Append(q, e)[i]
    BY <1>1 DEF ToSet
  <2>2. i \in 1 .. Len(q) \/ i = Len(q) + 1
    BY <1>1
  <2>3. QED
    BY <1>1, <2>1, <2>2 DEF ToSet
<1>3. ASSUME NEW x \in ToSet(q) PROVE x \in ToSet(Append(q, e))
  <2>1. PICK i \in 1 .. Len(q) : x = q[i]
    BY <1>1 DEF ToSet
  <2>2. i \in DOMAIN Append(q, e) /\ Append(q, e)[i] = x
    BY <1>1, <2>1
  <2>3. QED
    BY <2>2 DEF ToSet
<1>4. e \in ToSet(Append(q, e))
  <2>1. Len(q) + 1 \in DOMAIN Append(q, e)
    BY <1>1
  <2>2. QED
    BY <1>1, <2>1 DEF ToSet
<1>5. QED
  BY <1>2, <1>3, <1>4

\* A mailbox holds calls.
LEMMA InboxCalls ==
  ASSUME ProtocolInv, NEW d \in Drivers
  PROVE  ToSet(inbox[d]) \subseteq Calls
<1>1. inbox[d] \in Seq(Calls)
  BY DEF ProtocolInv, ControlInv, TypeOK
<1>2. QED
  BY <1>1 DEF ToSet

(* What a call leaves alone.                                               *)
LEMMA CallKeeps ==
  ASSUME ProtocolInv, [Next]_vars,
         UNCHANGED <<sessionVars, stage, unseen, retry, owing>>,
         UNCHANGED wallet \/ (active' = FALSE /\ effects' = 0)
  PROVE  /\ SessionTypeOK' /\ SessionInv' /\ Place' /\ Stepping'
         /\ active' \in BOOLEAN /\ effects' \in 0 .. MaxEffects
<1>1. SessionTypeOK' /\ SessionInv'
  BY SessionKept
<1>2. Place'
  BY DEF ProtocolInv, ControlInv, Place, sessionVars
<1>3. Stepping'
  BY DEF ProtocolInv, ControlInv, Stepping, wallet
<1>4. active' \in BOOLEAN /\ effects' \in 0 .. MaxEffects
  <2>1. active \in BOOLEAN /\ effects \in 0 .. MaxEffects
    BY DEF ProtocolInv, ControlInv, TypeOK
  <2>2. QED
    BY <2>1, EffectsRange DEF wallet
<1>5. QED
  BY <1>1, <1>2, <1>3, <1>4

(* A call that is sent keeps the mailboxes in order.                       *)
LEMMA MailSent ==
  ASSUME ProtocolInv, NEW r \in Calls, UNCHANGED <<stage, batch, cancelled>>,
         \A o \in Calls : call'[o] = IF o = r THEN "sent" ELSE call[o],
         \A d \in Drivers : ToSet(inbox'[d]) \subseteq ToSet(inbox[d]) \cup {r},
         \A d \in Drivers : r \notin cancelled[d]
  PROVE  Mail'
<1> SUFFICES ASSUME NEW d \in Drivers
             PROVE  /\ \A o \in ToSet(inbox'[d]) \cup batch[d] \cup cancelled[d] :
                           call'[o] \in {"sent", "done"}
                    /\ ToSet(inbox'[d]) \cap cancelled[d] = {}
  BY DEF ProtocolInv, ControlInv, Mail
<1>1. /\ \A o \in ToSet(inbox[d]) \cup batch[d] \cup cancelled[d] : call[o] \in {"sent", "done"}
      /\ ToSet(inbox[d]) \cap cancelled[d] = {}
  BY DEF ProtocolInv, ControlInv, Mail
<1>2. ToSet(inbox[d]) \cup batch[d] \cup cancelled[d] \subseteq Calls
  BY InboxCalls DEF ProtocolInv, ControlInv, TypeOK, Calls
<1>3. ToSet(inbox'[d]) \subseteq ToSet(inbox[d]) \cup {r} /\ r \notin cancelled[d]
  OBVIOUS
<1>4. ASSUME NEW o \in ToSet(inbox'[d]) \cup batch[d] \cup cancelled[d]
      PROVE  call'[o] \in {"sent", "done"}
  <2>1. CASE o = r
    BY <2>1
  <2>2. CASE o # r
    <3>1. o \in ToSet(inbox[d]) \cup batch[d] \cup cancelled[d] /\ o \in Calls
      BY <1>2, <1>3, <1>4, <2>2
    <3>2. QED
      BY <1>1, <2>2, <3>1
  <2>3. QED
    BY <2>1, <2>2
<1>5. QED
  BY <1>1, <1>3, <1>4

(* A step is sent: it is late until its driver's next pass begins.         *)
LEMMA SendStepOK == ASSUME ProtocolInv, NEW r \in Steps, SendStep(r) PROVE ProtocolInv'
<1>1. [Next]_vars
  BY DEF Next
<1>2. /\ UNCHANGED <<sessionVars, wallet, handle, stage, batch, cancelled, cancelling,
                     unseen, retry, stale, overran, owing>>
      /\ handle # NoDriver /\ call[r] = "new"
      /\ inbox' = [inbox EXCEPT ![handle] = Append(@, r)]
      /\ call' = [call EXCEPT ![r] = "sent"]
      /\ target' = [target EXCEPT ![r] = handle]
      /\ late' = late \cup {r}
  BY DEF SendStep
<1>3. /\ handle \in Drivers /\ inbox \in [Drivers -> Seq(Calls)] /\ r \in Calls
      /\ call \in [Calls -> {"new", "raised", "sent", "done"}]
      /\ target \in [Calls -> Drivers \cup {NoDriver}]
      /\ late \in SUBSET Steps
      /\ r \notin Cancels
  BY <1>2, ProtocolAssumption DEF ProtocolInv, ControlInv, TypeOK, Calls
<1>4. /\ SessionTypeOK' /\ SessionInv' /\ Place' /\ Stepping'
      /\ active' \in BOOLEAN /\ effects' \in 0 .. MaxEffects
  BY <1>1, <1>2, CallKeeps
<1>5. \A d \in Drivers :
          /\ inbox'[d] \in Seq(Calls)
          /\ ToSet(inbox'[d]) = IF d = handle THEN ToSet(inbox[d]) \cup {r} ELSE ToSet(inbox[d])
  <2> TAKE d \in Drivers
  <2>1. inbox[d] \in Seq(Calls)
    BY <1>3
  <2>2. inbox'[d] = IF d = handle THEN Append(inbox[d], r) ELSE inbox[d]
    BY <1>2, <1>3
  <2>3. ToSet(Append(inbox[d], r)) = ToSet(inbox[d]) \cup {r}
    BY <1>3, <2>1, SetOfAppend
  <2>4. Append(inbox[d], r) \in Seq(Calls)
    BY <1>3, <2>1
  <2>5. QED
    BY <2>1, <2>2, <2>3, <2>4
<1>6. \A o \in Calls : call'[o] = IF o = r THEN "sent" ELSE call[o]
  BY <1>2, <1>3
<1>7. TypeOK'
  <2>1. inbox' \in [Drivers -> Seq(Calls)]
    BY <1>2, <1>3, <1>5
  <2>2. QED
    BY <1>2, <1>3, <1>4, <2>1 DEF ProtocolInv, ControlInv, TypeOK
<1>8. Mail'
  <2>1. \A d \in Drivers : r \notin cancelled[d]
    BY <1>3 DEF ProtocolInv, ControlInv, TypeOK
  <2>2. \A d \in Drivers : ToSet(inbox'[d]) \subseteq ToSet(inbox[d]) \cup {r}
    BY <1>5
  <2>3. QED
    BY <1>2, <1>3, <1>6, <2>1, <2>2, MailSent
<1>9. Fresh'
  <2>1. \A d \in Drivers : r \notin batch[d]
    BY <1>2 DEF ProtocolInv, ControlInv, Mail
  <2>2. QED
    BY <1>2, <2>1 DEF ProtocolInv, Fresh
<1>10. Counted'
  <2>1. ASSUME NEW d \in Drivers PROVE Outstanding(d)' = Outstanding(d)
    <3>1. \A o \in Cancels : o # r /\ o \in Calls
      BY <1>3 DEF Calls
    <3>2. \A o \in Cancels : call'[o] = call[o] /\ target'[o] = target[o]
                             /\ (o \in ToSet(inbox'[d]) <=> o \in ToSet(inbox[d]))
      BY <1>2, <1>3, <1>5, <3>1
    <3>3. QED
      BY <1>2, <3>2 DEF Outstanding
  <2>2. QED
    BY <1>2, <2>1 DEF ProtocolInv, Counted
<1>11. QED
  BY <1>2, <1>4, <1>7, <1>8, <1>9, <1>10 DEF ProtocolInv, ControlInv

(* A cancel raises the flag it is counted by.                              *)
LEMMA RaiseCancelOK == ASSUME ProtocolInv, NEW r \in Cancels, RaiseCancel(r) PROVE ProtocolInv'
<1>1. [Next]_vars
  BY DEF Next
<1>2. /\ UNCHANGED <<sessionVars, wallet, handle, stage, inbox, batch, cancelled,
                     unseen, retry, late, stale, overran, owing>>
      /\ handle # NoDriver /\ call[r] = "new"
      /\ cancelling' = [cancelling EXCEPT ![handle] = @ + 1]
      /\ call' = [call EXCEPT ![r] = "raised"]
      /\ target' = [target EXCEPT ![r] = handle]
  BY DEF RaiseCancel, history
<1>3. /\ handle \in Drivers /\ cancelling \in [Drivers -> Nat] /\ r \in Calls
      /\ call \in [Calls -> {"new", "raised", "sent", "done"}]
      /\ target \in [Calls -> Drivers \cup {NoDriver}]
  BY <1>2 DEF ProtocolInv, ControlInv, TypeOK, Calls
<1>4. /\ SessionTypeOK' /\ SessionInv' /\ Place' /\ Stepping'
      /\ active' \in BOOLEAN /\ effects' \in 0 .. MaxEffects
  BY <1>1, <1>2, CallKeeps
<1>5. \A o \in Calls : /\ call'[o] = IF o = r THEN "raised" ELSE call[o]
                       /\ target'[o] = IF o = r THEN handle ELSE target[o]
  BY <1>2, <1>3
<1>6. cancelling' \in [Drivers -> Nat]
      /\ \A d \in Drivers : cancelling'[d] = IF d = handle THEN cancelling[d] + 1 ELSE cancelling[d]
  BY <1>2, <1>3
<1>7. TypeOK'
  BY <1>2, <1>3, <1>4, <1>6 DEF ProtocolInv, ControlInv, TypeOK
<1>8. \A d \in Drivers : r \notin ToSet(inbox[d]) \cup batch[d] \cup cancelled[d]
  BY <1>2 DEF ProtocolInv, ControlInv, Mail
<1>9. Mail'
  <2>1. \A d \in Drivers : batch[d] \subseteq Calls /\ cancelled[d] \subseteq Calls
    BY DEF ProtocolInv, ControlInv, TypeOK, Calls
  <2>2. QED
    BY <1>2, <1>5, <1>8, <2>1, InboxCalls DEF ProtocolInv, ControlInv, Mail
<1>10. Fresh'
  BY <1>2 DEF ProtocolInv, Fresh
<1>11. Counted'
  <2>1. ASSUME NEW d \in Drivers PROVE Cardinality(Outstanding(d)') <= cancelling'[d]
    <3>1. \A o \in Cancels : o \in Calls
      BY DEF Calls
    <3>2. CASE d # handle
      <4>1. Outstanding(d)' = Outstanding(d)
        BY <1>2, <1>5, <3>1, <3>2 DEF Outstanding
      <4>2. QED
        BY <1>6, <3>2, <4>1 DEF ProtocolInv, Counted
    <3>3. CASE d = handle
      <4>1. Outstanding(d)' = Outstanding(d) \cup {r} /\ r \notin Outstanding(d)
        BY <1>2, <1>5, <1>8, <3>1, <3>3 DEF Outstanding
      <4>2. Cardinality(Outstanding(d)') = Cardinality(Outstanding(d)) + 1
        BY <4>1, OutstandingFinite, FS_AddElement
      <4>3. Cardinality(Outstanding(d)) <= cancelling[d]
        BY DEF ProtocolInv, Counted
      <4>4. QED
        BY <1>3, <1>6, <3>3, <4>2, <4>3, OutstandingFinite
    <3>4. QED
      BY <3>2, <3>3
  <2>2. QED
    BY <2>1 DEF Counted
<1>12. QED
  BY <1>2, <1>4, <1>7, <1>9, <1>10, <1>11 DEF ProtocolInv, ControlInv

(* Fewer outstanding cancels under the same flag.                          *)
LEMMA CountedKept ==
  ASSUME ProtocolInv, NEW d \in Drivers, NEW rest \in SUBSET Outstanding(d)
  PROVE  Cardinality(rest) <= cancelling[d]
<1>1. IsFiniteSet(rest) /\ Cardinality(rest) <= Cardinality(Outstanding(d))
  BY OutstandingFinite, FS_Subset
<1>2. Cardinality(rest) \in Nat /\ Cardinality(Outstanding(d)) \in Nat
  BY <1>1, OutstandingFinite, FS_CardinalityType
<1>3. Cardinality(Outstanding(d)) <= cancelling[d] /\ cancelling[d] \in Nat
  BY DEF ProtocolInv, Counted, ControlInv, TypeOK
<1>4. QED
  BY <1>1, <1>2, <1>3

(* A raised cancel is sent: it was counted and still is.                   *)
LEMMA SendCancelOK == ASSUME ProtocolInv, NEW r \in Cancels, SendCancel(r) PROVE ProtocolInv'
<1>1. [Next]_vars
  BY DEF Next
<1> DEFINE to == target[r]
<1>2. /\ UNCHANGED <<sessionVars, wallet, handle, stage, batch, cancelled, cancelling,
                     unseen, retry, target, late, stale, overran, owing>>
      /\ call[r] = "raised"
      /\ inbox' = [inbox EXCEPT ![to] = Append(@, r)]
      /\ call' = [call EXCEPT ![r] = "sent"]
  BY DEF SendCancel, history
<1>3. /\ inbox \in [Drivers -> Seq(Calls)] /\ r \in Calls
      /\ call \in [Calls -> {"new", "raised", "sent", "done"}]
  BY DEF ProtocolInv, ControlInv, TypeOK, Calls
<1>4. /\ SessionTypeOK' /\ SessionInv' /\ Place' /\ Stepping'
      /\ active' \in BOOLEAN /\ effects' \in 0 .. MaxEffects
  BY <1>1, <1>2, CallKeeps
<1> HIDE DEF to
<1>5. \A d \in Drivers :
          /\ inbox'[d] \in Seq(Calls)
          /\ ToSet(inbox'[d]) = IF d = to THEN ToSet(inbox[d]) \cup {r} ELSE ToSet(inbox[d])
  <2> TAKE d \in Drivers
  <2>1. inbox[d] \in Seq(Calls)
    BY <1>3
  <2>2. inbox'[d] = IF d = to THEN Append(inbox[d], r) ELSE inbox[d]
    BY <1>2, <1>3
  <2>3. ToSet(Append(inbox[d], r)) = ToSet(inbox[d]) \cup {r}
    BY <1>3, <2>1, SetOfAppend
  <2>4. Append(inbox[d], r) \in Seq(Calls)
    BY <1>3, <2>1
  <2>5. QED
    BY <2>1, <2>2, <2>3, <2>4
<1>6. \A o \in Calls : call'[o] = IF o = r THEN "sent" ELSE call[o]
  BY <1>2, <1>3
<1>7. TypeOK'
  <2>1. inbox' \in [Drivers -> Seq(Calls)]
    BY <1>2, <1>3, <1>5
  <2>2. QED
    BY <1>2, <1>3, <1>4, <2>1 DEF ProtocolInv, ControlInv, TypeOK
<1>8. \A d \in Drivers : r \notin ToSet(inbox[d]) \cup batch[d] \cup cancelled[d]
  BY <1>2 DEF ProtocolInv, ControlInv, Mail
<1>9. Mail'
  <2>1. \A d \in Drivers : ToSet(inbox'[d]) \subseteq ToSet(inbox[d]) \cup {r}
    BY <1>5
  <2>2. QED
    BY <1>2, <1>3, <1>6, <1>8, <2>1, MailSent
<1>10. Fresh'
  BY <1>2 DEF ProtocolInv, Fresh
<1>11. Counted'
  <2>1. ASSUME NEW d \in Drivers PROVE Outstanding(d)' \in SUBSET Outstanding(d)
    <3>1. \A o \in Cancels : o \in Calls
      BY DEF Calls
    <3>2. ASSUME NEW o \in Cancels, call'[o] = "raised", target'[o] = d
          PROVE  o \in Outstanding(d)
      BY <1>2, <1>6, <3>1, <3>2 DEF Outstanding
    <3>3. ASSUME NEW o \in Cancels, o \in ToSet(inbox'[d]) PROVE o \in Outstanding(d)
      <4>1. CASE o \in ToSet(inbox[d])
        BY <4>1 DEF Outstanding
      <4>2. CASE o \notin ToSet(inbox[d])
        <5>1. o = r /\ d = to
          BY <1>5, <3>3, <4>2
        <5>2. QED
          BY <1>2, <5>1 DEF Outstanding, to
      <4>3. QED
        BY <4>1, <4>2
    <3>4. ASSUME NEW o \in Cancels, o \in cancelled'[d] PROVE o \in Outstanding(d)
      BY <1>2, <3>4 DEF Outstanding
    <3>5. QED
      BY <3>2, <3>3, <3>4 DEF Outstanding
  <2>2. QED
    BY <1>2, <2>1, CountedKept DEF Counted
<1>12. QED
  BY <1>2, <1>4, <1>7, <1>9, <1>10, <1>11 DEF ProtocolInv, ControlInv

(* A caller that leaves, or finds no driver, takes nothing back.           *)
LEMMA LeaveOK ==
  ASSUME ProtocolInv, NEW r \in Calls, Abandon(r) \/ (r \in Cancels /\ DirectCancel(r))
  PROVE  ProtocolInv'
<1>1. [Next]_vars
  BY DEF Next
<1>2. /\ UNCHANGED <<sessionVars, handle, stage, inbox, batch, cancelled, cancelling,
                     unseen, retry, late, stale, overran, owing>>
      /\ UNCHANGED wallet \/ (active' = FALSE /\ effects' = 0)
      /\ call' = [call EXCEPT ![r] = "done"]
      /\ target' = target \/ target' = [target EXCEPT ![r] = NoDriver]
  BY DEF Abandon, DirectCancel, history, mail
<1>3. /\ call \in [Calls -> {"new", "raised", "sent", "done"}]
      /\ target \in [Calls -> Drivers \cup {NoDriver}]
  BY DEF ProtocolInv, ControlInv, TypeOK
<1>4. /\ SessionTypeOK' /\ SessionInv' /\ Place' /\ Stepping'
      /\ active' \in BOOLEAN /\ effects' \in 0 .. MaxEffects
  BY <1>1, <1>2, CallKeeps
<1>5. \A o \in Calls : call'[o] = IF o = r THEN "done" ELSE call[o]
  BY <1>2, <1>3
<1>6. target' \in [Calls -> Drivers \cup {NoDriver}]
      /\ \A o \in Calls : o # r => target'[o] = target[o]
  BY <1>2, <1>3
<1>7. TypeOK'
  BY <1>2, <1>3, <1>4, <1>6 DEF ProtocolInv, ControlInv, TypeOK
<1>8. Mail'
  <2>1. \A d \in Drivers : batch[d] \subseteq Calls /\ cancelled[d] \subseteq Calls
    BY DEF ProtocolInv, ControlInv, TypeOK, Calls
  <2>2. QED
    BY <1>2, <1>5, <2>1, InboxCalls DEF ProtocolInv, ControlInv, Mail
<1>9. Fresh'
  BY <1>2 DEF ProtocolInv, Fresh
<1>10. Counted'
  <2>1. ASSUME NEW d \in Drivers PROVE Outstanding(d)' \in SUBSET Outstanding(d)
    <3>1. \A o \in Cancels : o \in Calls
      BY DEF Calls
    <3>2. QED
      BY <1>2, <1>5, <1>6, <3>1 DEF Outstanding
  <2>2. QED
    BY <1>2, <2>1, CountedKept DEF Counted
<1>11. QED
  BY <1>2, <1>4, <1>7, <1>8, <1>9, <1>10 DEF ProtocolInv, ControlInv

-----------------------------------------------------------------------------
(* The driver loop.                                                        *)

\* What a step of the loop leaves to the session and the protocol.
LEMMA LoopKeeps ==
  ASSUME ProtocolInv, [Next]_vars, NEW d \in Drivers,
         NEW from \in {"idle", "cancel", "answer"},
         NEW to \in {"idle", "pass", "cancel", "stopped"},
         stage[d] = from, stage' = [stage EXCEPT ![d] = to],
         UNCHANGED sessionVars,
         UNCHANGED wallet \/ (active' = FALSE /\ effects' = 0)
  PROVE  /\ SessionTypeOK' /\ SessionInv' /\ Place' /\ Stepping'
         /\ active' \in BOOLEAN /\ effects' \in 0 .. MaxEffects
         /\ stage' \in [Drivers -> Stages]
         /\ \A e \in Drivers : stage'[e] = IF e = d THEN to ELSE stage[e]
<1>1. SessionTypeOK' /\ SessionInv'
  BY SessionKept
<1>2. /\ stage \in [Drivers -> Stages] /\ to \in Stages
  BY DEF ProtocolInv, ControlInv, TypeOK, Stages
<1>3. /\ stage' \in [Drivers -> Stages]
      /\ \A e \in Drivers : stage'[e] = IF e = d THEN to ELSE stage[e]
  BY <1>2
<1>4. Place'
  <2>1. phase[d] = "out" /\ phase' = phase
    BY DEF ProtocolInv, ControlInv, Place, PlaceOK, sessionVars
  <2>2. QED
    BY <1>3, <2>1 DEF ProtocolInv, ControlInv, Place, PlaceOK
<1>5. Stepping'
  BY <1>3 DEF ProtocolInv, ControlInv, Stepping, wallet
<1>6. active' \in BOOLEAN /\ effects' \in 0 .. MaxEffects
  <2>1. active \in BOOLEAN /\ effects \in 0 .. MaxEffects
    BY DEF ProtocolInv, ControlInv, TypeOK
  <2>2. QED
    BY <2>1, EffectsRange DEF wallet
<1>7. QED
  BY <1>1, <1>3, <1>4, <1>5, <1>6

(* Answers to calls that were sent.                                        *)
LEMMA AnsweredKeeps ==
  ASSUME ProtocolInv, NEW rs \in SUBSET Calls, Answered(rs)
  PROVE  /\ call' \in [Calls -> {"new", "raised", "sent", "done"}]
         /\ target' \in [Calls -> Drivers \cup {NoDriver}]
         /\ \A r \in Calls : call'[r] = call[r] \/ call'[r] = "done"
         /\ \A r \in Calls : call'[r] = "raised" => call[r] = "raised" /\ target'[r] = target[r]
<1>1. /\ call \in [Calls -> {"new", "raised", "sent", "done"}]
      /\ target \in [Calls -> Drivers \cup {NoDriver}]
  BY DEF ProtocolInv, ControlInv, TypeOK
<1>2. QED
  BY <1>1 DEF Answered

(* Fewer letters, and calls that move on or are answered, keep the         *)
(* mailboxes in order.                                                     *)
LEMMA MailShrinks ==
  ASSUME ProtocolInv,
         \A r \in Calls : call'[r] = call[r] \/ call'[r] = "done",
         \A d \in Drivers :
            /\ ToSet(inbox'[d]) \cup batch'[d] \cup cancelled'[d]
                 \subseteq ToSet(inbox[d]) \cup batch[d] \cup cancelled[d]
            /\ ToSet(inbox'[d]) \cap cancelled'[d] = {}
            /\ stage'[d] # "cancel" => cancelled'[d] = {}
            /\ stage'[d] \in {"unborn", "idle", "stopped"} => batch'[d] = {}
  PROVE  Mail'
<1>1. \A d \in Drivers : ToSet(inbox[d]) \cup batch[d] \cup cancelled[d] \subseteq Calls
  BY InboxCalls DEF ProtocolInv, ControlInv, TypeOK, Calls
<1>2. \A d \in Drivers : \A r \in ToSet(inbox[d]) \cup batch[d] \cup cancelled[d] :
          call[r] \in {"sent", "done"}
  BY DEF ProtocolInv, ControlInv, Mail
<1>3. QED
  BY <1>1, <1>2 DEF Mail

(* Woken, the driver takes its mailbox: the cancels are still counted and  *)
(* the steps of the pass are not late any more.                            *)
LEMMA WakeOK ==
  ASSUME ProtocolInv, NEW d \in Drivers, WakeOnMail(d) \/ WakeOnTick(d)
  PROVE  ProtocolInv'
<1> DEFINE drained == ToSet(inbox[d])
           ending == drained \cap Cancels
           to == IF ending = {} THEN "pass" ELSE "cancel"
<1>1. [Next]_vars
  BY DEF Next, DriverStep
<1>2. /\ stage[d] = "idle" /\ stage' = [stage EXCEPT ![d] = to]
      /\ inbox' = [inbox EXCEPT ![d] = <<>>]
      /\ batch' = [batch EXCEPT ![d] = drained \cap Steps]
      /\ cancelled' = [cancelled EXCEPT ![d] = ending]
      /\ UNCHANGED <<sessionVars, wallet, handle, cancelling, retry, call, target, stale, overran>>
      /\ unseen' \in SUBSET Drivers
  BY DEF WakeOnMail, WakeOnTick, Wake, callers, ProtocolInv, ControlInv, TypeOK
<1>3. /\ ending = {} => late' = late \ drained
      /\ ending # {} => late' = late
      /\ late' \subseteq late /\ owing' \subseteq owing
  BY DEF WakeOnMail, WakeOnTick, Wake
<1>4. /\ inbox \in [Drivers -> Seq(Calls)] /\ batch \in [Drivers -> SUBSET Steps]
      /\ cancelled \in [Drivers -> SUBSET Cancels]
      /\ drained \subseteq Calls
  BY InboxCalls DEF ProtocolInv, ControlInv, TypeOK
<1>5. cancelled[d] = {} /\ batch[d] = {}
  BY <1>2 DEF ProtocolInv, ControlInv, Mail
<1>6. ToSet(<<>>) = {}
  BY DEF ToSet
<1>7. \A e \in Drivers :
         /\ inbox'[e] = IF e = d THEN <<>> ELSE inbox[e]
         /\ batch'[e] = IF e = d THEN drained \cap Steps ELSE batch[e]
         /\ cancelled'[e] = IF e = d THEN ending ELSE cancelled[e]
  BY <1>2, <1>4
<1>8. to \in {"idle", "pass", "cancel", "stopped"}
      /\ (to = "pass" <=> ending = {}) /\ (to = "cancel" <=> ending # {})
  OBVIOUS
<1> HIDE DEF to
<1>9. /\ SessionTypeOK' /\ SessionInv' /\ Place' /\ Stepping'
      /\ active' \in BOOLEAN /\ effects' \in 0 .. MaxEffects
      /\ stage' \in [Drivers -> Stages]
      /\ \A e \in Drivers : stage'[e] = IF e = d THEN to ELSE stage[e]
  BY <1>1, <1>2, <1>8, LoopKeeps
<1>10. TypeOK'
  <2>1. /\ inbox' \in [Drivers -> Seq(Calls)] /\ batch' \in [Drivers -> SUBSET Steps]
        /\ cancelled' \in [Drivers -> SUBSET Cancels]
    BY <1>2, <1>4
  <2>2. late' \in SUBSET Steps /\ owing' \in SUBSET Drivers
    BY <1>3 DEF ProtocolInv, ControlInv, TypeOK
  <2>3. QED
    BY <1>2, <1>9, <2>1, <2>2 DEF ProtocolInv, ControlInv, TypeOK
<1>11. Mail'
  <2>1. ASSUME NEW e \in Drivers
        PROVE  /\ ToSet(inbox'[e]) \cup batch'[e] \cup cancelled'[e]
                    \subseteq ToSet(inbox[e]) \cup batch[e] \cup cancelled[e]
               /\ ToSet(inbox'[e]) \cap cancelled'[e] = {}
               /\ stage'[e] # "cancel" => cancelled'[e] = {}
               /\ stage'[e] \in {"unborn", "idle", "stopped"} => batch'[e] = {}
    <3>1. CASE e = d
      BY <1>6, <1>7, <1>8, <1>9, <3>1
    <3>2. CASE e # d
      BY <1>7, <1>9, <3>2 DEF ProtocolInv, ControlInv, Mail
    <3>3. QED
      BY <3>1, <3>2
  <2>2. QED
    BY <1>2, <2>1, MailShrinks
<1>12. Fresh'
  <2>1. ASSUME NEW e \in Drivers, stage'[e] # "cancel" PROVE batch'[e] \cap late' = {}
    <3>1. CASE e = d
      BY <1>3, <1>7, <1>8, <1>9, <2>1, <3>1
    <3>2. CASE e # d
      BY <1>3, <1>7, <1>9, <2>1, <3>2 DEF ProtocolInv, Fresh
    <3>3. QED
      BY <3>1, <3>2
  <2>2. QED
    BY <2>1 DEF Fresh
<1>13. Counted'
  <2>1. ASSUME NEW e \in Drivers PROVE Outstanding(e)' \in SUBSET Outstanding(e)
    <3>1. CASE e = d
      BY <1>2, <1>6, <1>7, <3>1 DEF Outstanding
    <3>2. CASE e # d
      BY <1>2, <1>7, <3>2 DEF Outstanding
    <3>3. QED
      BY <3>1, <3>2
  <2>2. QED
    BY <1>2, <2>1, CountedKept DEF Counted
<1>14. QED
  BY <1>2, <1>9, <1>10, <1>11, <1>12, <1>13 DEF ProtocolInv, ControlInv

(* The end of the task: no call is bound to it and its mailbox is empty,   *)
(* so no cancel was raised that it has not run.                            *)
LEMMA StopOK == ASSUME ProtocolInv, NEW d \in Drivers, Stop(d) PROVE ProtocolInv'
<1>1. [Next]_vars
  BY DEF Next, DriverStep
<1>2. /\ stage[d] = "idle" /\ stage' = [stage EXCEPT ![d] = "stopped"]
      /\ inbox[d] = <<>> /\ \A r \in Calls : target[r] # d
      /\ unseen' = unseen \ {d} /\ retry' = [retry EXCEPT ![d] = FALSE]
      /\ cancelling' = [cancelling EXCEPT ![d] = 0] /\ owing' = owing \ {d}
      /\ UNCHANGED <<sessionVars, wallet, handle, inbox, batch, cancelled, call, target,
                     late, stale, overran>>
  BY DEF Stop, callers
<1>3. /\ SessionTypeOK' /\ SessionInv' /\ Place' /\ Stepping'
      /\ active' \in BOOLEAN /\ effects' \in 0 .. MaxEffects
      /\ stage' \in [Drivers -> Stages]
      /\ \A e \in Drivers : stage'[e] = IF e = d THEN "stopped" ELSE stage[e]
  BY <1>1, <1>2, LoopKeeps
<1>4. /\ cancelling \in [Drivers -> Nat] /\ retry \in [Drivers -> BOOLEAN]
  BY DEF ProtocolInv, ControlInv, TypeOK
<1>5. cancelling' \in [Drivers -> Nat] /\ retry' \in [Drivers -> BOOLEAN]
      /\ \A e \in Drivers : cancelling'[e] = IF e = d THEN 0 ELSE cancelling[e]
  BY <1>2, <1>4
<1>6. TypeOK'
  <2>1. unseen' \in SUBSET Drivers /\ owing' \in SUBSET Drivers
    BY <1>2 DEF ProtocolInv, ControlInv, TypeOK
  <2>2. QED
    BY <1>2, <1>3, <1>5, <2>1 DEF ProtocolInv, ControlInv, TypeOK
<1>7. Mail'
  BY <1>2, <1>3 DEF ProtocolInv, ControlInv, Mail
<1>8. Fresh'
  BY <1>2, <1>3 DEF ProtocolInv, Fresh
<1>9. Counted'
  <2>1. \A e \in Drivers : Outstanding(e)' = Outstanding(e)
    BY <1>2 DEF Outstanding
  <2>2. Outstanding(d) = {}
    <3>1. ToSet(inbox[d]) = {} /\ cancelled[d] = {}
      BY <1>2 DEF ToSet, ProtocolInv, ControlInv, Mail
    <3>2. QED
      BY <1>2, <3>1 DEF Outstanding, Calls
  <2>3. Cardinality(Outstanding(d)) = 0
    BY <2>2, OutstandingFinite
  <2>4. QED
    BY <1>5, <2>1, <2>3 DEF ProtocolInv, Counted
<1>10. QED
  BY <1>2, <1>3, <1>6, <1>7, <1>8, <1>9 DEF ProtocolInv, ControlInv

(* One cancel is run and counted no more.                                  *)
LEMMA RunCancelOK == ASSUME ProtocolInv, NEW d \in Drivers, RunCancel(d) PROVE ProtocolInv'
<1>1. [Next]_vars
  BY DEF Next, DriverStep
<1>2. PICK r \in cancelled[d] :
         cancelled' = [cancelled EXCEPT ![d] = @ \ {r}] /\ Answered({r})
  BY DEF RunCancel
<1>3. /\ stage[d] = "cancel"
      /\ UNCHANGED wallet \/ (active' = FALSE /\ effects' = 0)
      /\ cancelling' = [cancelling EXCEPT ![d] = @ - 1]
      /\ UNCHANGED <<sessionVars, handle, stage, inbox, batch, unseen, retry,
                     late, stale, overran, owing>>
  BY DEF RunCancel, wallet, history
<1>4. /\ cancelling \in [Drivers -> Nat] /\ cancelled \in [Drivers -> SUBSET Cancels]
      /\ r \in Cancels /\ r \in Calls /\ stage \in [Drivers -> Stages]
  BY <1>2 DEF ProtocolInv, ControlInv, TypeOK, Calls
<1>5. /\ SessionTypeOK' /\ SessionInv' /\ Place' /\ Stepping'
      /\ active' \in BOOLEAN /\ effects' \in 0 .. MaxEffects
  BY <1>1, <1>3, CallKeeps
<1>6. /\ call' \in [Calls -> {"new", "raised", "sent", "done"}]
      /\ target' \in [Calls -> Drivers \cup {NoDriver}]
      /\ \A o \in Calls : call'[o] = call[o] \/ call'[o] = "done"
      /\ \A o \in Calls : call'[o] = "raised" => call[o] = "raised" /\ target'[o] = target[o]
  BY <1>2, <1>4, AnsweredKeeps
<1>7. \A e \in Drivers : cancelled'[e] = IF e = d THEN cancelled[d] \ {r} ELSE cancelled[e]
  BY <1>2, <1>4
<1>8. r \in Outstanding(d) /\ r \notin ToSet(inbox[d]) /\ call[r] # "raised"
  BY <1>2, <1>4 DEF Outstanding, ProtocolInv, ControlInv, Mail
<1>9. \A e \in Drivers : Outstanding(e)' \in SUBSET Outstanding(e)
  BY <1>3, <1>6, <1>7 DEF Outstanding, Calls
<1>10. Outstanding(d)' \in SUBSET (Outstanding(d) \ {r})
  <2>1. r \notin Outstanding(d)'
    BY <1>3, <1>4, <1>6, <1>7, <1>8 DEF Outstanding
  <2>2. QED
    BY <1>9, <2>1
<1>11. Cardinality(Outstanding(d) \ {r}) = Cardinality(Outstanding(d)) - 1
  BY <1>8, OutstandingFinite, FS_RemoveElement
<1>12. Cardinality(Outstanding(d)) # 0 /\ Cardinality(Outstanding(d)) <= cancelling[d]
       /\ Cardinality(Outstanding(d)) \in Nat
  BY <1>8, OutstandingFinite DEF ProtocolInv, Counted
<1>13. cancelling[d] - 1 \in Nat
  BY <1>4, <1>12
<1>14. cancelling' \in [Drivers -> Nat]
       /\ \A e \in Drivers : cancelling'[e] = IF e = d THEN cancelling[d] - 1 ELSE cancelling[e]
  BY <1>3, <1>4, <1>13
<1>15. TypeOK'
  <2>1. cancelled' \in [Drivers -> SUBSET Cancels]
    BY <1>2, <1>4
  <2>2. QED
    BY <1>3, <1>5, <1>6, <1>14, <2>1 DEF ProtocolInv, ControlInv, TypeOK
<1>16. Mail'
  <2>1. ASSUME NEW e \in Drivers
        PROVE  /\ ToSet(inbox'[e]) \cup batch'[e] \cup cancelled'[e]
                    \subseteq ToSet(inbox[e]) \cup batch[e] \cup cancelled[e]
               /\ ToSet(inbox'[e]) \cap cancelled'[e] = {}
               /\ stage'[e] # "cancel" => cancelled'[e] = {}
               /\ stage'[e] \in {"unborn", "idle", "stopped"} => batch'[e] = {}
    BY <1>3, <1>7 DEF ProtocolInv, ControlInv, Mail
  <2>2. QED
    BY <1>6, <2>1, MailShrinks
<1>17. Fresh'
  BY <1>3 DEF ProtocolInv, Fresh
<1>18. Counted'
  <2>1. ASSUME NEW e \in Drivers PROVE Cardinality(Outstanding(e)') <= cancelling'[e]
    <3>1. CASE e = d
      <4>1. /\ IsFiniteSet(Outstanding(d) \ {r})
            /\ Cardinality(Outstanding(d)') <= Cardinality(Outstanding(d) \ {r})
            /\ IsFiniteSet(Outstanding(d)')
        BY <1>10, OutstandingFinite, FS_Subset
      <4>2. Cardinality(Outstanding(d)') \in Nat
        BY <4>1, FS_CardinalityType
      <4>3. QED
        BY <1>4, <1>11, <1>12, <1>14, <3>1, <4>1, <4>2
    <3>2. CASE e # d
      BY <1>9, <1>14, <3>2, CountedKept
    <3>3. QED
      BY <3>1, <3>2
  <2>2. QED
    BY <2>1 DEF Counted
<1>19. QED
  BY <1>3, <1>5, <1>15, <1>16, <1>17, <1>18 DEF ProtocolInv, ControlInv

(* The answers that end a pass, or follow the cancels, without the pass.   *)
LEMMA AnswersOK ==
  ASSUME ProtocolInv, NEW d \in Drivers, CancelsDone(d) \/ AnswerSteps(d) PROVE ProtocolInv'
<1>1. [Next]_vars
  BY DEF Next, DriverStep, Pass
<1>2. /\ stage[d] \in {"cancel", "answer"} /\ stage' = [stage EXCEPT ![d] = "idle"]
      /\ Answered(batch[d]) /\ batch' = [batch EXCEPT ![d] = {}]
      /\ UNCHANGED <<sessionVars, wallet, handle, inbox, cancelled, cancelling, unseen, overran>>
      /\ stage[d] = "cancel" => cancelled[d] = {}
  BY DEF CancelsDone, AnswerSteps
<1>3. late' \subseteq late /\ owing' \subseteq owing
      /\ (retry' = retry \/ retry' = [retry EXCEPT ![d] = FALSE])
  BY DEF CancelsDone, AnswerSteps
<1>4. stale' = {}
  <2>1. CASE CancelsDone(d)
    BY <2>1 DEF CancelsDone, ProtocolInv
  <2>2. CASE AnswerSteps(d)
    <3>1. stage[d] = "answer" /\ stale' = stale \cup (batch[d] \cap late)
      BY <2>2 DEF AnswerSteps
    <3>2. batch[d] \cap late = {} /\ stale = {}
      BY <3>1 DEF ProtocolInv, Fresh
    <3>3. QED
      BY <3>1, <3>2
  <2>3. QED
    BY <2>1, <2>2
<1>5. /\ SessionTypeOK' /\ SessionInv' /\ Place' /\ Stepping'
      /\ active' \in BOOLEAN /\ effects' \in 0 .. MaxEffects
      /\ stage' \in [Drivers -> Stages]
      /\ \A e \in Drivers : stage'[e] = IF e = d THEN "idle" ELSE stage[e]
  BY <1>1, <1>2, LoopKeeps
<1>6. /\ batch \in [Drivers -> SUBSET Steps] /\ batch[d] \in SUBSET Calls
      /\ retry \in [Drivers -> BOOLEAN]
  BY DEF ProtocolInv, ControlInv, TypeOK, Calls
<1>7. /\ call' \in [Calls -> {"new", "raised", "sent", "done"}]
      /\ target' \in [Calls -> Drivers \cup {NoDriver}]
      /\ \A o \in Calls : call'[o] = call[o] \/ call'[o] = "done"
      /\ \A o \in Calls : call'[o] = "raised" => call[o] = "raised" /\ target'[o] = target[o]
  BY <1>2, <1>6, AnsweredKeeps
<1>8. \A e \in Drivers : batch'[e] = IF e = d THEN {} ELSE batch[e]
  BY <1>2, <1>6
<1>9. TypeOK'
  <2>1. batch' \in [Drivers -> SUBSET Steps] /\ retry' \in [Drivers -> BOOLEAN]
    BY <1>2, <1>3, <1>6
  <2>2. late' \in SUBSET Steps /\ owing' \in SUBSET Drivers /\ stale' \in SUBSET Steps
    BY <1>3, <1>4 DEF ProtocolInv, ControlInv, TypeOK
  <2>3. QED
    BY <1>2, <1>5, <1>7, <2>1, <2>2 DEF ProtocolInv, ControlInv, TypeOK
<1>10. Mail'
  <2>1. ASSUME NEW e \in Drivers
        PROVE  /\ ToSet(inbox'[e]) \cup batch'[e] \cup cancelled'[e]
                    \subseteq ToSet(inbox[e]) \cup batch[e] \cup cancelled[e]
               /\ ToSet(inbox'[e]) \cap cancelled'[e] = {}
               /\ stage'[e] # "cancel" => cancelled'[e] = {}
               /\ stage'[e] \in {"unborn", "idle", "stopped"} => batch'[e] = {}
    BY <1>2, <1>5, <1>8 DEF ProtocolInv, ControlInv, Mail
  <2>2. QED
    BY <1>7, <2>1, MailShrinks
<1>11. Fresh'
  BY <1>3, <1>5, <1>8 DEF ProtocolInv, Fresh
<1>12. Counted'
  <2>1. \A e \in Drivers : Outstanding(e)' \in SUBSET Outstanding(e)
    BY <1>2, <1>7 DEF Outstanding, Calls
  <2>2. QED
    BY <1>2, <2>1, CountedKept DEF Counted
<1>13. QED
  BY <1>2, <1>4, <1>5, <1>9, <1>10, <1>11, <1>12 DEF ProtocolInv, ControlInv

-----------------------------------------------------------------------------
(* The theorems.                                                           *)

(* At the start nobody has asked for anything.                             *)
LEMMA ProtocolInitOK == Init => ProtocolInv
<1> SUFFICES ASSUME Init PROVE ProtocolInv
  OBVIOUS
<1>1. SessionTypeOK /\ SessionInv
  BY SessionInitOK DEF Init, SessionOK
<1>2. \A d \in Drivers : ToSet(inbox[d]) = {} /\ Outstanding(d) = {}
  BY DEF Init, ToSet, Outstanding, Calls
<1>3. \A d \in Drivers : Cardinality(Outstanding(d)) = 0
  BY <1>2, OutstandingFinite
<1>4. \A d \in Drivers : stage[d] = "unborn" \/ stage[d] = "idle"
  BY DEF Init
<1>5. TypeOK
  <2>1. /\ inbox \in [Drivers -> Seq(Calls)]
        /\ cancelling \in [Drivers -> Nat]
        /\ batch \in [Drivers -> SUBSET Steps]
        /\ cancelled \in [Drivers -> SUBSET Cancels]
    BY DEF Init
  <2>2. /\ call \in [Calls -> {"new", "raised", "sent", "done"}]
        /\ target \in [Calls -> Drivers \cup {NoDriver}]
        /\ stage \in [Drivers -> Stages]
    BY DEF Init, Stages
  <2>3. active \in BOOLEAN /\ retry \in [Drivers -> BOOLEAN]
    BY Zenon DEF Init
  <2>4. handle \in Drivers \cup {NoDriver} /\ effects \in 0 .. MaxEffects
    BY EffectsRange DEF Init
  <2>5. unseen \in SUBSET Drivers /\ late \in SUBSET Steps /\ stale \in SUBSET Steps
        /\ overran \in SUBSET Cancels /\ owing \in SUBSET Drivers
    BY DEF Init
  <2>6. QED
    BY <1>1, <2>1, <2>2, <2>3, <2>4, <2>5 DEF TypeOK
<1>6. Place
  BY <1>4, DriverTasks DEF Init, SessionInit, Place, PlaceOK
<1>7. Mail /\ Stepping /\ Fresh
  BY <1>2, <1>4 DEF Init, Mail, Stepping, Fresh
<1>8. Counted
  BY <1>3 DEF Init, Counted
<1>9. QED
  BY <1>1, <1>5, <1>6, <1>7, <1>8 DEF Init, ProtocolInv, ControlInv

(* The invariant is inductive.                                             *)
LEMMA ProtocolInvariant == Spec => []ProtocolInv
<1>1. ProtocolInv /\ [Next]_vars => ProtocolInv'
  <2> SUFFICES ASSUME ProtocolInv, [Next]_vars PROVE ProtocolInv'
    OBVIOUS
  <2>1. CASE NewBlock \/ StartProtocol \/ ClosePage \/ AppRuns \/ CancelSync
               \/ (\E d \in Drivers : OpenPage(d)) \/ UNCHANGED vars
    BY <2>1, EnvironmentOK
  <2>2. CASE \E r \in Steps : SendStep(r)
    BY <2>2, SendStepOK
  <2>3. CASE \E r \in Cancels : RaiseCancel(r) \/ SendCancel(r) \/ DirectCancel(r)
    BY <2>3, RaiseCancelOK, SendCancelOK, LeaveOK DEF Calls
  <2>4. CASE \E r \in Calls : Abandon(r)
    BY <2>4, LeaveOK
  <2>5. ASSUME NEW d \in Drivers, DriverStep(d) PROVE ProtocolInv'
    <3>1. CASE WakeOnMail(d) \/ WakeOnTick(d) \/ Stop(d) \/ RunCancel(d) \/ CancelsDone(d)
      BY <3>1, WakeOK, StopOK, RunCancelOK, AnswersOK
    <3>2. CASE Pass(d)
      BY <3>2, PassEndsOK, PassMovesOK, StartStepOK, AnswersOK DEF Pass
    <3>3. QED
      BY <2>5, <3>1, <3>2 DEF DriverStep
  <2>6. QED
    BY <2>1, <2>2, <2>3, <2>4, <2>5 DEF Next
<1>2. QED
  BY <1>1, ProtocolInitOK, PTL DEF Spec

(* The variables keep their types; in particular the cancelling flag never *)
(* goes below zero.                                                        *)
THEOREM ProtocolTypes == Spec => []TypeOK
<1>1. ProtocolInv => TypeOK
  BY DEF ProtocolInv, ControlInv
<1>2. QED
  BY <1>1, ProtocolInvariant, PTL

(* Passes never act at once: a driver syncs and steps the protocol only    *)
(* while it holds the wallet's session, however many pages were opened.    *)
THEOREM PassesExclusive == Spec => []StepsUnderSession
<1>1. ProtocolInv => StepsUnderSession
  BY DriverTasks
  DEF ProtocolInv, ControlInv, Place, PlaceOK, SessionInv, Exclusive, Inside, StepsUnderSession
<1>2. QED
  BY <1>1, ProtocolInvariant, PTL

(* No step of the protocol starts between the raise of a cancel and its    *)
(* run.                                                                    *)
THEOREM CancelsStopPasses == Spec => []CancelStopsSteps
<1>1. ProtocolInv => CancelStopsSteps
  BY DEF ProtocolInv, CancelStopsSteps
<1>2. QED
  BY <1>1, ProtocolInvariant, PTL

(* Every step is answered by a pass that began after it was sent, or       *)
(* behind a cancel.                                                        *)
THEOREM AnswersFresh == Spec => []AnswerIsFresh
<1>1. ProtocolInv => AnswerIsFresh
  BY DEF ProtocolInv, AnswerIsFresh
<1>2. QED
  BY <1>1, ProtocolInvariant, PTL
=============================================================================
