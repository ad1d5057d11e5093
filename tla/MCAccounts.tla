----------------------------- MODULE MCAccounts -----------------------------
(* Instances of Accounts for TLC.                                          *)
EXTENDS Accounts, TLC

\* Workers, accounts and tokens are interchangeable.
IdSymmetry == Permutations(Workers) \cup Permutations(Users) \cup Permutations(Sids)
=============================================================================
