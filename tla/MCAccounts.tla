----------------------------- MODULE MCAccounts -----------------------------
(* Instances of Accounts for TLC.                                           *)
EXTENDS Accounts, TLC

MCPurges == <<"goals", "files">>

AccountSymmetry ==
    Permutations(Slots) \cup Permutations(Names) \cup Permutations(Folders)
=============================================================================
