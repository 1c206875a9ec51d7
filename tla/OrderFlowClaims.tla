--------------------------- MODULE OrderFlowClaims ---------------------------
(***************************************************************************)
(* What the documents and comments of the repository say of orders, where  *)
(* the code does otherwise. Each statement is the property of one run that *)
(* exhibits a counterexample.                                              *)
(***************************************************************************)
EXTENDS OrderFlow

\* docs/FLASH_SALE_TESTING_ANALYSIS.md:188, "perfect data integrity", where
\* line 184 names "Inconsistent order/inventory state" as the symptom of a
\* problem: when all is quiet, the order whose units were taken is CONFIRMED.
\* The second save of placeOrder may put PENDING back.
SoldIsConfirmed ==
    Quiet => \A o \in Requests : debits[o] > 0 => status[o] = "confirmed"

\* orders.processor.ts:71, "Insufficient inventory", on the branch that
\* marks the order FAILED: no units were taken for it. A failing metric
\* takes the same branch with the decrement in the transaction.
FailedTookNothing ==
    \A o \in Requests : status[o] = "failed" => debits[o] = 0

\* README.md:256, "Failed orders are automatically retried": a job completes
\* with its order FAILED only for want of stock. A worker that does not get
\* the lock fails the order and lets the job complete.
FailedForWantOfStock ==
    \A o \in Requests : job[o] = "completed" /\ status[o] = "failed"
                            => ~Covers(ProductOf(o), QuantityOf(o))

\* README.md:104, "npm run db:setup", and README.md:324, "npm run start:prod":
\* on the schema the migration creates, the job of a lone accepted order
\* completes. The code writes 'processing', which the enum type of the
\* migration (and README.md:136) does not have.
LoneJobCompletes ==
    \A r \in Requests : pc[r] = "accepted" ~> job[r] = "completed"
==============================================================================
