----------------------------- MODULE MCOrderReads -----------------------------
(***************************************************************************)
(* OrderReads on small instances.                                          *)
(***************************************************************************)
EXTENDS OrderReads, TLC

\* Calls are interchangeable, and so are workers, with the reader among them:
\* it may ask for any job.
Symmetry == Permutations(Requests) \cup Permutations(Workers)

\* The metrics are written and never read, and the first read of the stock
\* only reaches a metric.
WithoutMetrics ==
    <<cart, tableVars, queueVars, workerVars, lock, pc, seen, line, reading>>
==============================================================================
