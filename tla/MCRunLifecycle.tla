---------------------------- MODULE MCRunLifecycle ----------------------------
(* Small instances of RunLifecycle: one create and up to two resumes of a run, *)
(* one automatic retry, one repair.                                            *)
EXTENDS RunRefinement
===============================================================================
