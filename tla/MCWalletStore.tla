---------------------------- MODULE MCWalletStore ----------------------------
(***************************************************************************)
(* Two popups or calls at a time, two accounts, and five things that the   *)
(* user, the dapp and the wallets do of their own accord.                  *)
(***************************************************************************)
EXTENDS WalletStore

CONSTANTS a1, a2

MCAccountLists == {<<>>, <<a1>>, <<a2, a1>>}
=============================================================================
