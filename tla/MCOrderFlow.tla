----------------------------- MODULE MCOrderFlow -----------------------------
(***************************************************************************)
(* OrderFlow on small instances.                                           *)
(***************************************************************************)
EXTENDS OrderFlow, TLC

\* Calls are interchangeable, and so are workers: the carts and the faults
\* range over the same values for all of them.
Symmetry == Permutations(Requests) \cup Permutations(Workers)

\* The metrics are written and never read, and the first read of the stock
\* only reaches a metric: runs that check neither leave them out of the
\* fingerprint.
WithoutMetrics == <<cart, tableVars, queueVars, workerVars, lock, pc, seen>>
==============================================================================
