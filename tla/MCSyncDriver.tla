---------------------------- MODULE MCSyncDriver ----------------------------
(* Instance of SyncDriver for TLC: two syncs, one preempting request and    *)
(* one prepared write, a mailbox of two, and one more task that takes the   *)
(* session.                                                                 *)
EXTENDS SyncDriver

CONSTANTS s1, s2, r1, a1, driver, protocol

MCSyncs == {s1, s2}
MCPreempting == {r1}
MCApplies == {a1}
MCTasks == {driver, protocol}
=============================================================================
