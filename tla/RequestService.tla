--------------------------- MODULE RequestService ---------------------------
(***************************************************************************)
(* What the sync driver promises its callers (sync/driver.rs module doc),  *)
(* without its mailbox, its deferred requests or the session: requests are *)
(* accepted in some order and executed whole, one at a time, in that       *)
(* order; every one that was accepted is executed before the service ends, *)
(* and whoever still waits is answered once its request is done, and not   *)
(* before.  Only a sync can end cancelled.                                 *)
(***************************************************************************)
EXTENDS Sequences

CONSTANTS Requests,
          Syncs,     \* the requests that may end cancelled
          NoRequest

VARIABLES call,    \* the caller's side of each request
          open,    \* whether callers may still come
          queue,   \* accepted and not taken up, in order of arrival
          serving, \* the request being executed, or NoRequest
          result,  \* how each request ended
          ended    \* whether the service has stopped

vars == <<call, open, queue, serving, result, ended>>

Init ==
    /\ call = [r \in Requests |-> "new"]
    /\ open = TRUE
    /\ queue = <<>>
    /\ serving = NoRequest
    /\ result = [r \in Requests |-> "none"]
    /\ ended = FALSE

Accept(r) ==
    /\ open
    /\ call[r] = "new"
    /\ call' = [call EXCEPT ![r] = "accepted"]
    /\ queue' = Append(queue, r)
    /\ UNCHANGED <<open, serving, result, ended>>

Leave(r) ==
    /\ call[r] = "accepted"
    /\ call' = [call EXCEPT ![r] = "abandoned"]
    /\ UNCHANGED <<open, queue, serving, result, ended>>

Close ==
    /\ open
    /\ \A r \in Requests : call[r] # "accepted"
    /\ open' = FALSE
    /\ UNCHANGED <<call, queue, serving, result, ended>>

TakeUp ==
    /\ serving = NoRequest
    /\ queue # <<>>
    /\ serving' = Head(queue)
    /\ queue' = Tail(queue)
    /\ UNCHANGED <<call, open, result, ended>>

Complete ==
    /\ serving # NoRequest
    /\ result[serving] = "none"
    /\ \E outcome \in {"ended", "cancelled"} :
           /\ outcome = "cancelled" => serving \in Syncs
           /\ result' = [result EXCEPT ![serving] = outcome]
    /\ UNCHANGED <<call, open, queue, serving, ended>>

Answer ==
    /\ serving # NoRequest
    /\ result[serving] # "none"
    /\ call' = [call EXCEPT ![serving] = IF @ = "accepted" THEN "answered" ELSE @]
    /\ serving' = NoRequest
    /\ UNCHANGED <<open, queue, result, ended>>

Stop ==
    /\ ~open
    /\ ~ended
    /\ queue = <<>>
    /\ serving = NoRequest
    /\ ended' = TRUE
    /\ UNCHANGED <<call, open, queue, serving, result>>

Next ==
    \/ \E r \in Requests : Accept(r) \/ Leave(r)
    \/ Close \/ TakeUp \/ Complete \/ Answer \/ Stop

Spec == Init /\ [][Next]_vars
=============================================================================
