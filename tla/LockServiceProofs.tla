--------------------------- MODULE LockServiceProofs ---------------------------
(***************************************************************************)
(* Proofs about the promise of the lock, for any number of processes.      *)
(***************************************************************************)
EXTENDS LockService, TLAPS

LEMMA LeaseStep ==
    ASSUME LeaseInv, [ServiceNext]_serviceVars
    PROVE  LeaseInv'
<1> USE DEF LeaseInv
<1>1. ASSUME NEW h \in Askers, Ask(h)
      PROVE  LeaseInv'
  BY <1>1 DEF Ask
<1>2. ASSUME NEW h \in Askers, Grant(h)
      PROVE  LeaseInv'
  <2>1. CASE (leases = {} \/ forgot) /\ leases' = leases \cup {h}
    <3>1. forgot' \/ \A g, k \in leases' : g = k
      BY <1>2, <2>1 DEF Grant
    <3>2. Overrun \/ relying' \subseteq leases'
      BY <1>2, <2>1 DEF Grant
    <3> QED BY <1>2, <2>1, <3>1, <3>2 DEF Grant
  <2>2. CASE Overrun /\ UNCHANGED leases
    BY <1>2, <2>2 DEF Grant
  <2> QED BY <1>2, <2>1, <2>2 DEF Grant
<1>3. ASSUME NEW h \in Askers, Refuse(h)
      PROVE  LeaseInv'
  BY <1>3 DEF Refuse
<1>4. ASSUME NEW h \in Askers, GiveBack(h)
      PROVE  LeaseInv'
  BY <1>4 DEF GiveBack
<1>5. ASSUME NEW h \in Askers, Lapse(h)
      PROVE  LeaseInv'
  BY <1>5 DEF Lapse
<1>6. CASE Forget BY <1>6 DEF Forget
<1>7. CASE UNCHANGED serviceVars BY <1>7 DEF serviceVars
<1> QED BY <1>1, <1>2, <1>3, <1>4, <1>5, <1>6, <1>7 DEF ServiceNext

\* The promise is enough for mutual exclusion: nobody relies on the lock beside
\* another process unless one is slow or the nodes forget.
THEOREM PromiseExcludes == ServiceSpec => [](LeaseInv /\ OneRelies)
<1>1. ServiceInit => LeaseInv BY DEF ServiceInit, LeaseInv
<1>2. LeaseInv /\ [ServiceNext]_serviceVars => LeaseInv' BY LeaseStep
<1>3. LeaseInv => OneRelies BY DEF LeaseInv, OneRelies
<1> QED BY <1>1, <1>2, <1>3, PTL DEF ServiceSpec
==============================================================================
