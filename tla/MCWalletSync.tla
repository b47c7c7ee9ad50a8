---------------------------- MODULE MCWalletSync ----------------------------
\* Small wallets for WalletSync.
EXTENDS WalletSync

CONSTANTS a, b, c, x, y

NoAccount == {}
OneAccount == {a}
TwoAccounts == {a, b}
TwoTransparent == {a, c}
OneAddress == {x}
TwoAddresses == {x, y}

\* a receives at 1 and 3 and spends the first note at 3; b receives at 2; c has
\* no shielded pool.
MCReceives == [z \in Accounts |-> CASE z = a -> {1, 3} [] z = b -> {2} [] z = c -> {}]
MCSpentNote == [z \in Accounts |-> IF z = a THEN (3 :> 1) ELSE <<>>]

\* One account that receives at 1, 2 and 4 and spends at 4 its note of 2.
ReorgReceives == [z \in Accounts |-> {1, 2, 4}]
ReorgSpentNote == [z \in Accounts |-> (4 :> 2)]

NoReceives == [z \in Accounts |-> {}]
NoSpentNote == [z \in Accounts |-> <<>>]

NoRewind == {}
AllRewinds == 1 .. MaxHeight
=============================================================================
