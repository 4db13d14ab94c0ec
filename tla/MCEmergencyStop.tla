--------------------------- MODULE MCEmergencyStop ---------------------------
(* Small instances of EmergencyStop: two admissions, three operator requests, *)
(* one crash.                                                                 *)
EXTENDS EmergencyStop, TLC

RunSymmetry == Permutations(Runs)
==============================================================================
