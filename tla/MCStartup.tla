----------------------------- MODULE MCStartup ------------------------------
(* Instances of Startup for TLC.                                           *)
EXTENDS Startup, TLC

CONSTANTS s1, s2, s3

\* An upgrade under way: s1 is a build behind.
MixedBuilds == [s \in Servers |-> IF s = s1 THEN 1 ELSE 2]

\* The second migration in s2 differs from the one the others embed.
SecondEdited == {<<s2, 2>>}

IdSymmetry == Permutations(Ids)
=============================================================================
