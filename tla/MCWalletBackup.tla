--------------------------- MODULE MCWalletBackup ---------------------------
(* Small instances of WalletBackup for TLC.                                    *)
EXTENDS WalletBackup, TLC

Orders == Permutations(Relays) \cup Permutations(Machines)
=============================================================================
