----------------------------- MODULE RunRefinement -----------------------------
(* RunLifecycle implements RunRecord: the store is the record, and the retries *)
(* of all executions together are the ones spent.                              *)
EXTENDS RunLifecycle

Abstract == INSTANCE RunRecord WITH record <- store, spent <- retries,
                                    Allowance <- MaxRecovery

\* However execute, cancel, resume, a crash and reconciliation interleave, the
\* durable record changes only as RunRecord says: a run completes in one step, out
\* of RUNNING and out of a trust state assurance gave it, delivers in that step or
\* never, loses everything it was granted whenever it leaves COMPLETED or is
\* paused, is cancelled only while it has no outcome, and is retried only while it
\* runs and within one allowance.
ImplementsRunRecord == Abstract!RecordSpec
================================================================================
