---------------------------- MODULE MCDriverLife ----------------------------
(* DriverLife on two devices.  The devices are interchangeable.            *)
EXTENDS DriverLife, TLC

DevSymmetry == Permutations(Devs)
=============================================================================
