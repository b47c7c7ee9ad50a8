---------------------------- MODULE MCMigration ----------------------------
(***************************************************************************)
(* Two wallets of two Orchard notes.  In one, a note was denominated at    *)
(* the fee before ZIP 2009 and the other at the fee since; in the other,   *)
(* the two leave, at the fee since, what pays for a split but not for its  *)
(* change.  A user of the wallet pays nearly the first note to Ironwood,   *)
(* and the recipient pays the fee.                                         *)
(***************************************************************************)
EXTENDS Migration

CONSTANTS user, loop

Wallets ==
    LET note(v) == [pool |-> Orchard, value |-> v, big |-> FALSE]
    IN  {<<note(120000), note(104000)>>, <<note(120000), note(92500)>>}

Payments ==
    {[kind |-> "pay", outs |-> <<[pool |-> Ironwood, value |-> 117500, own |-> FALSE]>>,
      pools |-> {Orchard, Ironwood}, payer |-> TRUE, confirmations |-> 0,
      migration |-> FALSE, notes |-> {}, anchor |-> 0]}

Both == {user, loop}
=============================================================================
