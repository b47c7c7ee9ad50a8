-------------------------- MODULE MCProtocolDriver --------------------------
(* Instances of ProtocolDriver for TLC.  The app's: a page opened twice,   *)
(* hence two drivers alive at once, one step and one cancel, and a mailbox *)
(* that one request fills.  The server's: one driver that is kept, one     *)
(* step and two cancels, and a mailbox that two requests fill.             *)
EXTENDS ProtocolDriver

CONSTANTS d1, d2, app, p1, c1, c2

MCDrivers == {d1, d2}
MCTasks == {d1, d2, app}
MCServer == {d1}
MCServerTasks == {d1, app}
MCSteps == {p1}
MCCancels == {c1}
MCTwoCancels == {c1, c2}
=============================================================================
