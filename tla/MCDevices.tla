----------------------------- MODULE MCDevices ------------------------------
(* Instances of Devices for TLC.                                           *)
EXTENDS Devices, TLC

\* Identifiers are interchangeable, addresses and times are not.
IdSymmetry ==
  Permutations(Workers) \cup Permutations(DeviceIds) \cup Permutations(PublicKeys)
    \cup Permutations(Keys)
=============================================================================
