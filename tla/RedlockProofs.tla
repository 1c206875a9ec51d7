----------------------------- MODULE RedlockProofs -----------------------------
(***************************************************************************)
(* Proofs about RedlockNodes for every number of calls, of nodes and of    *)
(* attempts, and whichever nodes fail or restart.                          *)
(***************************************************************************)
EXTENDS RedlockNodes, FiniteSetTheorems, TLAPS

\* What a step adds to the history of meetings.
Marks == met' = met \cup {c \in Calls : Meets(c)}

Inv == RedlockInv /\ LoneCallGranted

------------------------------------------------------------------------------
\* Two majorities of the nodes share one.
LEMMA QuorumsMeet ==
    ASSUME NEW A \in SUBSET Nodes, NEW B \in SUBSET Nodes,
           IsQuorum(A), IsQuorum(B)
    PROVE  A \cap B # {}
<1>1. IsFiniteSet(Nodes) BY RedlockAssumption
<1>2. /\ IsFiniteSet(A) /\ IsFiniteSet(B) /\ IsFiniteSet(A \cup B)
      /\ Cardinality(A \cup B) <= Cardinality(Nodes)
  <2>1. A \cup B \subseteq Nodes OBVIOUS
  <2> QED BY <1>1, <2>1, FS_Subset
<1>3. /\ Cardinality(A) \in Nat /\ Cardinality(B) \in Nat
      /\ Cardinality(Nodes) \in Nat /\ Cardinality(A \cup B) \in Nat
  BY <1>1, <1>2, FS_CardinalityType
<1>4. Cardinality(A \cup B)
          = Cardinality(A) + Cardinality(B) - Cardinality(A \cap B)
  BY <1>2, FS_Union
<1>5. A \cap B = {} => Cardinality(A \cap B) = 0
  BY FS_EmptySet
<1> QED BY <1>2, <1>3, <1>4, <1>5 DEF IsQuorum

\* A set of votes does not lose its majority when it grows.
LEMMA QuorumGrows ==
    ASSUME NEW A \in SUBSET Nodes, NEW B \in SUBSET Nodes,
           IsQuorum(A), A \subseteq B
    PROVE  IsQuorum(B)
<1>1. IsFiniteSet(Nodes) BY RedlockAssumption
<1>2. IsFiniteSet(B) BY <1>1, FS_Subset
<1>3. IsFiniteSet(A) /\ Cardinality(A) <= Cardinality(B) BY <1>2, FS_Subset
<1>4. /\ Cardinality(A) \in Nat /\ Cardinality(B) \in Nat
      /\ Cardinality(Nodes) \in Nat
  BY <1>1, <1>2, <1>3, FS_CardinalityType
<1> QED BY <1>3, <1>4 DEF IsQuorum

\* A minority of flaky nodes cannot deny an attempt.
LEMMA LoneIsNotDenied ==
    ASSUME RedlockInv, NEW c \in Calls, LoneAttempt(c)
    PROVE  ~Denied(c)
<1>1. IsFiniteSet(Nodes) BY RedlockAssumption
<1>2. IsFiniteSet(Flaky) BY <1>1, RedlockAssumption, FS_Subset
<1>3. CASE Nodes = {}
  <2>1. against[c] = {} BY <1>3 DEF RedlockInv, RedlockTypeOK
  <2> QED BY <1>3, <2>1, FS_EmptySet DEF Denied, IsQuorum
<1>4. CASE Nodes # {}
  <2>1. against[c] \subseteq Flaky BY <1>4 DEF RedlockInv, FirstTry
  <2>2. Cardinality(against[c]) <= Cardinality(Flaky) /\ IsFiniteSet(against[c])
    BY <1>2, <2>1, FS_Subset
  <2>3. /\ Cardinality(against[c]) \in Nat /\ Cardinality(Flaky) \in Nat
        /\ Cardinality(Nodes) \in Nat
    BY <1>1, <1>2, <2>2, FS_CardinalityType
  <2> QED BY <2>2, <2>3 DEF LoneAttempt, Denied, IsQuorum
<1> QED BY <1>3, <1>4

LEMMA InitInv == RedlockInit => Inv
<1> SUFFICES ASSUME RedlockInit PROVE Inv OBVIOUS
<1> USE DEF RedlockInit, RedlockInv
<1>1. RedlockTypeOK
  BY DEF RedlockTypeOK, Phases, Returned
<1>2. VotesBacked /\ ReleasesLast /\ FirstTry /\ LoneCallGranted
  BY RedlockAssumption DEF VotesBacked, Backs, ReleasesLast, Over, Returned,
     FirstTry, LoneAttempt, LoneCallGranted
<1> QED BY <1>1, <1>2 DEF Inv

\* What a script on node n does, and what it leaves alone.
LEMMA RunEffect ==
    ASSUME RedlockTypeOK, NEW c \in Calls, NEW n \in Nodes,
           NEW new \in Calls \cup {None}, NEW yes \in BOOLEAN,
           NEW last \in BOOLEAN, Run(c, n, new, yes, last)
    PROVE  /\ key' \in [Nodes -> Calls \cup {None}]
           /\ for' \in [Calls -> SUBSET Nodes]
           /\ against' \in [Calls -> SUBSET Nodes]
           /\ erred' \subseteq Nodes /\ erred \subseteq erred'
           /\ \A m \in Nodes \ {n} : key'[m] = key[m]
           /\ key'[n] \in {key[n], new}
           /\ key'[n] = new \/ n \in erred'
           /\ \A d \in Calls \ {c} : for'[d] = for[d] /\ against'[d] = against[d]
           /\ for'[c] \in {for[c], for[c] \cup {n}}
           /\ for'[c] # for[c] => yes /\ key'[n] = new
           /\ against'[c] \in {against[c], against[c] \cup {n}}
           /\ against'[c] # against[c] => ~yes \/ n \in Flaky
<1>1. ASSUME NEW ok \in BOOLEAN, Answer(c, n, ok, last)
      PROVE  /\ for' \in [Calls -> SUBSET Nodes]
             /\ against' \in [Calls -> SUBSET Nodes]
             /\ \A d \in Calls \ {c} : for'[d] = for[d] /\ against'[d] = against[d]
             /\ for'[c] = for[c] \/ (ok /\ for'[c] = for[c] \cup {n})
             /\ against'[c] = against[c] \/ (~ok /\ against'[c] = against[c] \cup {n})
  <2>1. CASE last /\ phase[c] \notin Returned /\ ok
    <3>1. for' = [for EXCEPT ![c] = @ \cup {n}] /\ against' = [against EXCEPT ![c] = @]
      BY <1>1, <2>1 DEF Answer
    <3>2. for[c] \cup {n} \in SUBSET Nodes BY DEF RedlockTypeOK
    <3>3. for'[c] = for[c] \cup {n} BY <3>1 DEF RedlockTypeOK
    <3>4. against' = against BY <3>1 DEF RedlockTypeOK
    <3> QED BY <2>1, <3>1, <3>2, <3>3, <3>4 DEF RedlockTypeOK
  <2>2. CASE last /\ phase[c] \notin Returned /\ ~ok
    <3>1. for' = [for EXCEPT ![c] = @] /\ against' = [against EXCEPT ![c] = @ \cup {n}]
      BY <1>1, <2>2 DEF Answer
    <3>2. against[c] \cup {n} \in SUBSET Nodes BY DEF RedlockTypeOK
    <3>3. against'[c] = against[c] \cup {n} BY <3>1 DEF RedlockTypeOK
    <3>4. for' = for BY <3>1 DEF RedlockTypeOK
    <3> QED BY <2>2, <3>1, <3>2, <3>3, <3>4 DEF RedlockTypeOK
  <2>3. CASE ~(last /\ phase[c] \notin Returned)
    <3>1. for' = [for EXCEPT ![c] = @] /\ against' = [against EXCEPT ![c] = @]
      BY <1>1, <2>3 DEF Answer
    <3>2. for' = for /\ against' = against BY <3>1 DEF RedlockTypeOK
    <3> QED BY <3>2 DEF RedlockTypeOK
  <2> QED BY <2>1, <2>2, <2>3
<1>2. CASE /\ key' = [key EXCEPT ![n] = new] /\ Answer(c, n, yes, last)
           /\ erred' = erred
  BY <1>1, <1>2 DEF RedlockTypeOK
<1>3. CASE /\ n \in Flaky /\ key' \in {key, [key EXCEPT ![n] = new]}
           /\ Answer(c, n, FALSE, last) /\ erred' = erred \cup {n}
  BY <1>1, <1>3 DEF RedlockTypeOK
<1> QED BY <1>2, <1>3 DEF Run
------------------------------------------------------------------------------
\* An attempt at the lock: nobody has voted, and a lone call makes one only.
LEMMA TryAcquireInv ==
    ASSUME Inv, NEW c \in Calls, TryAcquire(c), Marks
    PROVE  Inv'
<1> USE DEF TryAcquire, Enters, CountFrom, SendToAll,
        callVars, nodeVars, Inv, RedlockInv, RedlockTypeOK, Phases, Returned
<1>u. /\ attempt' \in [Calls -> Nat]
      /\ \A d \in Calls \ {c} : attempt'[d] = attempt[d]
      /\ for' = [for EXCEPT ![c] = {}] /\ against' = [against EXCEPT ![c] = {}]
      /\ phase' = [phase EXCEPT ![c] = "acquiring"]
      /\ \/ phase[c] = "idle" /\ attempt'[c] = 1
         \/ phase[c] = "acquiring" /\ Denied(c) /\ attempt'[c] = attempt[c] + 1
  <2>1. CASE Enters(c, "idle", "acquiring") /\ CountFrom(c, 1)
    BY <2>1
  <2>2. CASE /\ Enters(c, "acquiring", "acquiring") /\ Denied(c)
             /\ CountFrom(c, attempt[c] + 1)
    <3>1. attempt[c] + 1 \in Nat OBVIOUS
    <3> QED BY <2>2, <3>1
  <2> QED BY <2>1, <2>2
<1>s. acquires' = [acquires EXCEPT ![c] = [n \in Nodes |-> acquires[c][n] + 1]]
  OBVIOUS
<1>t. /\ acquires' \in [Calls -> [Nodes -> Nat]]
      /\ \A n \in Nodes : acquires'[c][n] = acquires[c][n] + 1
      /\ \A d \in Calls \ {c} : acquires'[d] = acquires[d]
  <2>1. [n \in Nodes |-> acquires[c][n] + 1] \in [Nodes -> Nat] OBVIOUS
  <2> QED BY <1>s, <2>1
<1>1. RedlockTypeOK'
  BY <1>t, <1>u, RedlockAssumption DEF Marks
<1>2. VotesBacked'
  BY RedlockAssumption DEF VotesBacked, Backs, IsQuorum
<1>3. ReleasesLast'
  BY RedlockAssumption DEF ReleasesLast, Over
<1>4. FirstTry'
  BY <1>t, <1>u, RedlockAssumption, LoneIsNotDenied DEF FirstTry, LoneAttempt, Marks, Meets
<1>5. LoneCallGranted'
  BY LoneIsNotDenied DEF LoneCallGranted, LoneAttempt, Marks
<1> QED BY <1>1, <1>2, <1>3, <1>4, <1>5

\* The lock is granted: a quorum has voted.
LEMMA AcquiredInv ==
    ASSUME Inv, NEW c \in Calls, Acquired(c), Marks
    PROVE  Inv'
<1> USE DEF Acquired, Enters,
        callVars, nodeVars, Inv, RedlockInv, RedlockTypeOK, Phases, Returned
<1>1. RedlockTypeOK'
  BY RedlockAssumption DEF Marks
<1>2. VotesBacked'
  BY RedlockAssumption DEF VotesBacked, Backs, IsQuorum, Granted
<1>3. ReleasesLast'
  BY RedlockAssumption DEF ReleasesLast, Over
<1>4. FirstTry'
  BY RedlockAssumption DEF FirstTry, LoneAttempt, Marks, Meets
<1>5. LoneCallGranted'
  BY DEF LoneCallGranted, Marks
<1> QED BY <1>1, <1>2, <1>3, <1>4, <1>5

\* The last attempt is lost: from here on release scripts come last.
LEMMA CleanUpInv ==
    ASSUME Inv, NEW c \in Calls, CleanUp(c), Marks
    PROVE  Inv'
<1> USE DEF CleanUp, Enters, CountFrom, SendToAll,
        callVars, nodeVars, Inv, RedlockInv, RedlockTypeOK, Phases, Returned
<1>s. releases' = [releases EXCEPT ![c] = [n \in Nodes |-> releases[c][n] + 1]]
  OBVIOUS
<1>t. /\ releases' \in [Calls -> [Nodes -> Nat]]
      /\ \A n \in Nodes : releases'[c][n] = releases[c][n] + 1
      /\ \A d \in Calls \ {c} : releases'[d] = releases[d]
  <2>1. [n \in Nodes |-> releases[c][n] + 1] \in [Nodes -> Nat] OBVIOUS
  <2> QED BY <1>s, <2>1
<1>1. RedlockTypeOK'
  BY <1>t, RedlockAssumption DEF Marks
<1>2. VotesBacked'
  BY RedlockAssumption DEF VotesBacked, Backs, IsQuorum
<1>3. ReleasesLast'
  BY RedlockAssumption DEF ReleasesLast, Over
<1>4. FirstTry'
  BY RedlockAssumption, LoneIsNotDenied DEF FirstTry, LoneAttempt, Marks, Meets
<1>5. LoneCallGranted'
  BY LoneIsNotDenied DEF LoneCallGranted, LoneAttempt, Marks
<1> QED BY <1>1, <1>2, <1>3, <1>4, <1>5

\* The call returns without the lock.
LEMMA RefusedInv ==
    ASSUME Inv, NEW c \in Calls, Refused(c), Marks
    PROVE  Inv'
<1> USE DEF Refused, Enters, CountFrom,
        callVars, nodeVars, Inv, RedlockInv, RedlockTypeOK, Phases, Returned
<1>1. RedlockTypeOK'
  BY RedlockAssumption DEF Marks
<1>2. VotesBacked'
  BY RedlockAssumption DEF VotesBacked, Backs, IsQuorum
<1>3. ReleasesLast'
  BY RedlockAssumption DEF ReleasesLast, Over
<1>4. FirstTry'
  BY RedlockAssumption DEF FirstTry, LoneAttempt, Marks, Meets
<1>5. LoneCallGranted'
  BY DEF LoneCallGranted, Marks
<1> QED BY <1>1, <1>2, <1>3, <1>4, <1>5

\* An attempt to give the lock back.
LEMMA TryReleaseInv ==
    ASSUME Inv, NEW c \in Calls, TryRelease(c), Marks
    PROVE  Inv'
<1> USE DEF TryRelease, Enters, CountFrom, SendToAll,
        callVars, nodeVars, Inv, RedlockInv, RedlockTypeOK, Phases, Returned
<1>u. /\ attempt' \in [Calls -> Nat]
      /\ \A d \in Calls \ {c} : attempt'[d] = attempt[d]
      /\ for' = [for EXCEPT ![c] = {}] /\ against' = [against EXCEPT ![c] = {}]
      /\ phase' = [phase EXCEPT ![c] = "releasing"]
  OBVIOUS
<1>s. releases' = [releases EXCEPT ![c] = [n \in Nodes |-> releases[c][n] + 1]]
  OBVIOUS
<1>t. /\ releases' \in [Calls -> [Nodes -> Nat]]
      /\ \A n \in Nodes : releases'[c][n] = releases[c][n] + 1
      /\ \A d \in Calls \ {c} : releases'[d] = releases[d]
  <2>1. [n \in Nodes |-> releases[c][n] + 1] \in [Nodes -> Nat] OBVIOUS
  <2> QED BY <1>s, <2>1
<1>1. RedlockTypeOK'
  BY <1>t, <1>u, RedlockAssumption DEF Marks
<1>2. VotesBacked'
  BY RedlockAssumption DEF VotesBacked, Backs, IsQuorum
<1>3. ReleasesLast'
  BY RedlockAssumption DEF ReleasesLast, Over
<1>4. FirstTry'
  BY <1>t, <1>u, RedlockAssumption DEF FirstTry, LoneAttempt, Marks, Meets
<1>5. LoneCallGranted'
  BY DEF LoneCallGranted, Marks
<1> QED BY <1>1, <1>2, <1>3, <1>4, <1>5

\* The call returns from giving its lock back.
LEMMA ReleaseReturnsInv ==
    ASSUME Inv, NEW c \in Calls, ReleaseReturns(c), Marks
    PROVE  Inv'
<1> USE DEF ReleaseReturns, Enters, CountFrom,
        callVars, nodeVars, Inv, RedlockInv, RedlockTypeOK, Phases, Returned
<1>1. RedlockTypeOK'
  BY RedlockAssumption DEF Marks
<1>2. VotesBacked'
  BY RedlockAssumption DEF VotesBacked, Backs, IsQuorum
<1>3. ReleasesLast'
  BY RedlockAssumption DEF ReleasesLast, Over
<1>4. FirstTry'
  BY RedlockAssumption DEF FirstTry, LoneAttempt, Marks, Meets
<1>5. LoneCallGranted'
  BY DEF LoneCallGranted, Marks
<1> QED BY <1>1, <1>2, <1>3, <1>4, <1>5

\* A lease runs out: its votes back it no longer.
LEMMA LeaseEndsInv ==
    ASSUME Inv, NEW c \in Calls, LeaseEnds(c), Marks
    PROVE  Inv'
<1> USE DEF LeaseEnds,
        callVars, nodeVars, Inv, RedlockInv, RedlockTypeOK, Phases, Returned
<1>1. RedlockTypeOK'
  BY RedlockAssumption DEF Marks
<1>2. VotesBacked'
  BY RedlockAssumption DEF VotesBacked, Backs, IsQuorum
<1>3. ReleasesLast'
  BY RedlockAssumption DEF ReleasesLast, Over
<1>4. FirstTry'
  BY RedlockAssumption DEF FirstTry, LoneAttempt, Marks, Meets
<1>5. LoneCallGranted'
  BY DEF LoneCallGranted, Marks
<1> QED BY <1>1, <1>2, <1>3, <1>4, <1>5

\* An acquire script: a yes leaves the key of the call, a no changes nothing.
LEMMA RunAcquireInv ==
    ASSUME Inv, NEW c \in Calls, NEW n \in Nodes, RunAcquire(c, n), Marks
    PROVE  Inv'
<1> DEFINE new == IF key[n] = None THEN c ELSE key[n]
           yes == key[n] = None
           last == acquires[c][n] = 1 /\ releases[c][n] = 0
<1>r. Run(c, n, new, yes, last) BY DEF RunAcquire
<1>0. /\ phase' = phase /\ attempt' = attempt /\ expired' = expired
      /\ restarted' = restarted /\ releases' = releases
      /\ key' \in [Nodes -> Calls \cup {None}]
      /\ for' \in [Calls -> SUBSET Nodes]
      /\ against' \in [Calls -> SUBSET Nodes]
      /\ erred' \subseteq Nodes /\ erred \subseteq erred'
      /\ \A m \in Nodes \ {n} : key'[m] = key[m]
      /\ key'[n] \in {key[n], new}
      /\ key'[n] = new \/ n \in erred'
      /\ \A d \in Calls \ {c} : for'[d] = for[d] /\ against'[d] = against[d]
      /\ for'[c] \in {for[c], for[c] \cup {n}}
      /\ for'[c] # for[c] => yes /\ key'[n] = new
      /\ against'[c] \in {against[c], against[c] \cup {n}}
      /\ against'[c] # against[c] => ~yes \/ n \in Flaky
  <2>1. new \in Calls \cup {None} /\ yes \in BOOLEAN /\ last \in BOOLEAN
    BY DEF Inv, RedlockInv, RedlockTypeOK
  <2> HIDE DEF new, yes, last
  <2>2. /\ phase' = phase /\ attempt' = attempt /\ expired' = expired
        /\ restarted' = restarted
    BY <1>r DEF Run
  <2>3. releases' = releases BY DEF RunAcquire
  <2>4. RedlockTypeOK BY DEF Inv, RedlockInv
  <2> QED BY <1>r, <2>1, <2>2, <2>3, <2>4, RunEffect
<1> USE DEF Inv, RedlockInv, RedlockTypeOK
<1>s. /\ acquires' \in [Calls -> [Nodes -> Nat]]
      /\ acquires[c][n] > 0 /\ acquires'[c][n] = acquires[c][n] - 1
      /\ \A m \in Nodes \ {n} : acquires'[c][m] = acquires[c][m]
      /\ \A d \in Calls \ {c} : acquires'[d] = acquires[d]
  BY DEF RunAcquire
<1>e. /\ key[n] # None => key'[n] = key[n]
      /\ key[n] = None => key'[n] \in {None, c}
      /\ for'[c] # for[c] => key[n] = None /\ key'[n] = c
      /\ against'[c] # against[c] => key[n] # None \/ n \in Flaky
      /\ \A m \in Nodes : m \in for'[c] => m \in for[c] \/ (m = n /\ key'[n] = c)
  BY <1>0
<1>f. Over(c) => releases[c][n] > 0
  BY <1>s DEF ReleasesLast
<1> HIDE DEF new, yes, last
<1>1. RedlockTypeOK'
  BY <1>0, <1>s DEF Marks
<1>2. VotesBacked'
  <2>1. \A d \in Calls : for[d] \subseteq for'[d] BY <1>0
  <2>2. \A d \in Calls : phase'[d] = "held" => IsQuorum(for'[d])
    BY <1>0, <1>1, <2>1, QuorumGrows DEF VotesBacked
  <2>3. \A d \in Calls, m \in Nodes :
            Backs(m, d)' => key'[m] = d \/ m \in restarted'
    <3> SUFFICES ASSUME NEW d \in Calls, NEW m \in Nodes, Backs(m, d)'
                 PROVE  key'[m] = d \/ m \in restarted'
      OBVIOUS
    <3>1. m \in for[d] => key[m] = d \/ m \in restarted
      BY <1>0 DEF VotesBacked, Backs
    <3>2. d # c => for'[d] = for[d] BY <1>0
    <3> QED BY <1>0, <1>e, <1>f, <3>1, <3>2, RedlockAssumption DEF Backs, Over, Returned
  <2> QED BY <2>2, <2>3 DEF VotesBacked
<1>3. ReleasesLast'
  <2> SUFFICES ASSUME NEW d \in Calls, NEW m \in Nodes
               PROVE  IF Over(d)
                      THEN /\ acquires'[d][m] > 0 => releases'[d][m] > 0
                           /\ releases'[d][m] = 0 /\ key'[m] = d => m \in erred'
                      ELSE releases'[d][m] = 0
    BY <1>0 DEF ReleasesLast, Over
  <2>1. IF Over(d)
        THEN /\ acquires[d][m] > 0 => releases[d][m] > 0
             /\ releases[d][m] = 0 /\ key[m] = d => m \in erred
        ELSE releases[d][m] = 0
    BY DEF ReleasesLast
  <2>2. CASE d = c /\ m = n BY <1>0, <1>e, <1>f, <1>s, <2>1, <2>2
  <2>3. CASE ~(d = c /\ m = n)
    <3>1. releases'[d][m] = releases[d][m] /\ acquires'[d][m] <= acquires[d][m]
      BY <1>0, <1>s, <2>3
    <3>2. key'[m] = d => key[m] = d
      BY <1>0, <1>e, <2>3, RedlockAssumption
    <3> QED BY <1>0, <1>s, <2>1, <3>1, <3>2
  <2> QED BY <2>2, <2>3
<1>4. FirstTry'
  BY <1>0, <1>e, <1>f, <1>s, RedlockAssumption DEF FirstTry, LoneAttempt, Marks, Meets
<1>5. LoneCallGranted'
  BY <1>0 DEF LoneCallGranted, Marks
<1> QED BY <1>1, <1>2, <1>3, <1>4, <1>5

\* A release script: the call that sent it counts on no vote any more.
LEMMA RunReleaseInv ==
    ASSUME Inv, NEW c \in Calls, NEW n \in Nodes, RunRelease(c, n), Marks
    PROVE  Inv'
<1> DEFINE new == IF key[n] = c THEN None ELSE key[n]
           yes == key[n] = c
           last == releases[c][n] = 1
<1>r. Run(c, n, new, yes, last) BY DEF RunRelease
<1>0. /\ phase' = phase /\ attempt' = attempt /\ expired' = expired
      /\ restarted' = restarted /\ acquires' = acquires
      /\ key' \in [Nodes -> Calls \cup {None}]
      /\ for' \in [Calls -> SUBSET Nodes]
      /\ against' \in [Calls -> SUBSET Nodes]
      /\ erred' \subseteq Nodes /\ erred \subseteq erred'
      /\ \A m \in Nodes \ {n} : key'[m] = key[m]
      /\ key'[n] \in {key[n], new}
      /\ key'[n] = new \/ n \in erred'
      /\ \A d \in Calls \ {c} : for'[d] = for[d] /\ against'[d] = against[d]
      /\ for'[c] \in {for[c], for[c] \cup {n}}
      /\ for'[c] # for[c] => yes /\ key'[n] = new
      /\ against'[c] \in {against[c], against[c] \cup {n}}
      /\ against'[c] # against[c] => ~yes \/ n \in Flaky
  <2>1. new \in Calls \cup {None} /\ yes \in BOOLEAN /\ last \in BOOLEAN
    BY DEF Inv, RedlockInv, RedlockTypeOK
  <2> HIDE DEF new, yes, last
  <2>2. /\ phase' = phase /\ attempt' = attempt /\ expired' = expired
        /\ restarted' = restarted
    BY <1>r DEF Run
  <2>3. acquires' = acquires BY DEF RunRelease
  <2>4. RedlockTypeOK BY DEF Inv, RedlockInv
  <2> QED BY <1>r, <2>1, <2>2, <2>3, <2>4, RunEffect
<1> USE DEF Inv, RedlockInv, RedlockTypeOK
<1>s. /\ releases' \in [Calls -> [Nodes -> Nat]]
      /\ releases[c][n] > 0 /\ releases'[c][n] = releases[c][n] - 1
      /\ \A m \in Nodes \ {n} : releases'[c][m] = releases[c][m]
      /\ \A d \in Calls \ {c} : releases'[d] = releases[d]
  BY DEF RunRelease
<1>e. /\ key[n] # c => key'[n] = key[n]
      /\ key[n] = c => key'[n] \in {None, c}
      /\ key'[n] # c \/ n \in erred'
  BY <1>0, RedlockAssumption
<1>f. Over(c) /\ acquires[c][n] = 0
  BY <1>s DEF ReleasesLast, RunRelease
<1> HIDE DEF new, yes, last
<1>1. RedlockTypeOK'
  BY <1>0, <1>s DEF Marks
<1>2. VotesBacked'
  <2>1. \A d \in Calls : for[d] \subseteq for'[d] BY <1>0
  <2>2. \A d \in Calls : phase'[d] = "held" => IsQuorum(for'[d])
    BY <1>0, <1>1, <2>1, QuorumGrows DEF VotesBacked
  <2>3. \A d \in Calls, m \in Nodes :
            Backs(m, d)' => key'[m] = d \/ m \in restarted'
    <3> SUFFICES ASSUME NEW d \in Calls, NEW m \in Nodes, Backs(m, d)'
                 PROVE  key'[m] = d \/ m \in restarted'
      OBVIOUS
    <3>1. m \in for[d] => key[m] = d \/ m \in restarted
      BY <1>0 DEF VotesBacked, Backs
    <3>2. d # c => for'[d] = for[d] BY <1>0
    <3> QED BY <1>0, <1>e, <1>f, <3>1, <3>2, RedlockAssumption DEF Backs, Over, Returned
  <2> QED BY <2>2, <2>3 DEF VotesBacked
<1>3. ReleasesLast'
  <2> SUFFICES ASSUME NEW d \in Calls, NEW m \in Nodes
               PROVE  IF Over(d)
                      THEN /\ acquires'[d][m] > 0 => releases'[d][m] > 0
                           /\ releases'[d][m] = 0 /\ key'[m] = d => m \in erred'
                      ELSE releases'[d][m] = 0
    BY <1>0 DEF ReleasesLast, Over
  <2>1. IF Over(d)
        THEN /\ acquires[d][m] > 0 => releases[d][m] > 0
             /\ releases[d][m] = 0 /\ key[m] = d => m \in erred
        ELSE releases[d][m] = 0
    BY DEF ReleasesLast
  <2>2. CASE d = c /\ m = n BY <1>0, <1>e, <1>f, <1>s, <2>1, <2>2
  <2>3. CASE ~(d = c /\ m = n)
    <3>1. releases'[d][m] = releases[d][m] /\ acquires'[d][m] <= acquires[d][m]
      BY <1>0, <1>s, <2>3
    <3>2. key'[m] = d => key[m] = d
      BY <1>0, <1>e, <2>3, RedlockAssumption
    <3> QED BY <1>0, <1>s, <2>1, <3>1, <3>2
  <2> QED BY <2>2, <2>3
<1>4. FirstTry'
  <2>1. \A m \in Nodes : key'[m] \in {key[m], None} BY <1>0, <1>e
  <2>2. phase[c] \notin {"idle", "acquiring"} BY <1>f DEF Over, Returned
  <2>3. \A d \in Calls : LoneAttempt(d)' => LoneAttempt(d) /\ d # c
    BY <1>0, <2>2 DEF LoneAttempt, Marks
  <2> QED BY <1>0, <2>1, <2>2, <2>3, RedlockAssumption DEF FirstTry
<1>5. LoneCallGranted'
  BY <1>0 DEF LoneCallGranted, Marks
<1> QED BY <1>1, <1>2, <1>3, <1>4, <1>5

\* A key expires that backs no lease.
LEMMA ExpireInv ==
    ASSUME Inv, NEW n \in Nodes, Expire(n), Marks
    PROVE  Inv'
<1> USE DEF Expire,
        callVars, nodeVars, Inv, RedlockInv, RedlockTypeOK, Phases, Returned
<1>1. RedlockTypeOK'
  BY RedlockAssumption DEF Marks
<1>2. VotesBacked'
  BY RedlockAssumption DEF VotesBacked, Backs, IsQuorum
<1>3. ReleasesLast'
  BY RedlockAssumption DEF ReleasesLast, Over
<1>4. FirstTry'
  BY RedlockAssumption DEF FirstTry, LoneAttempt, Marks, Meets
<1>5. LoneCallGranted'
  BY DEF LoneCallGranted, Marks
<1> QED BY <1>1, <1>2, <1>3, <1>4, <1>5

\* A node restarts and is marked.
LEMMA RestartInv ==
    ASSUME Inv, NEW n \in Nodes, Restart(n), Marks
    PROVE  Inv'
<1> USE DEF Restart,
        callVars, nodeVars, Inv, RedlockInv, RedlockTypeOK, Phases, Returned
<1>1. RedlockTypeOK'
  BY RedlockAssumption DEF Marks
<1>2. VotesBacked'
  BY RedlockAssumption DEF VotesBacked, Backs, IsQuorum
<1>3. ReleasesLast'
  BY RedlockAssumption DEF ReleasesLast, Over
<1>4. FirstTry'
  BY RedlockAssumption DEF FirstTry, LoneAttempt, Marks, Meets
<1>5. LoneCallGranted'
  BY DEF LoneCallGranted, Marks
<1> QED BY <1>1, <1>2, <1>3, <1>4, <1>5

\* Every step keeps the invariant.
LEMMA NextInv == Inv /\ [RedlockNext]_redlockVars => Inv'
<1> SUFFICES ASSUME Inv, [RedlockNext]_redlockVars PROVE Inv' OBVIOUS
<1>1. CASE UNCHANGED redlockVars
  <2> USE <1>1 DEF redlockVars, callVars, nodeVars, Inv, RedlockInv
  <2>1. RedlockTypeOK' BY DEF RedlockTypeOK
  <2>2. VotesBacked' BY DEF VotesBacked, Backs, IsQuorum
  <2>3. ReleasesLast' BY DEF ReleasesLast, Over
  <2>4. FirstTry' /\ LoneCallGranted' BY DEF FirstTry, LoneAttempt, LoneCallGranted
  <2> QED BY <2>1, <2>2, <2>3, <2>4
<1>2. CASE RedlockNext
  <2>1. Marks BY <1>2 DEF RedlockNext, Marks
  <2>2. RedlockStep BY <1>2 DEF RedlockNext
  <2> QED BY <2>1, <2>2, TryAcquireInv, AcquiredInv, CleanUpInv, RefusedInv,
             TryReleaseInv, ReleaseReturnsInv, LeaseEndsInv, RunAcquireInv,
             RunReleaseInv, ExpireInv, RestartInv DEF RedlockStep
<1> QED BY <1>1, <1>2

\* The inductive invariant, its type part included, holds throughout.
THEOREM RedlockInvariant == RedlockSpec => []RedlockInv
<1>1. Inv => RedlockInv BY DEF Inv
<1> QED BY <1>1, InitInv, NextInv, PTL DEF RedlockSpec

\* A node that voted for two running leases has the keys of both, unless it
\* has restarted.
LEMMA LeaseIsSingle == RedlockInv => OneLease
<1> SUFFICES ASSUME RedlockInv, NEW c \in Calls, NEW d \in Calls, c # d,
                    HoldsLease(c), HoldsLease(d)
             PROVE  for[c] \cap for[d] \cap restarted # {}
  BY DEF OneLease
<1>1. IsQuorum(for[c]) /\ IsQuorum(for[d])
  BY DEF RedlockInv, VotesBacked, HoldsLease
<1>2. PICK n \in Nodes : n \in for[c] /\ n \in for[d]
  <2>1. for[c] \in SUBSET Nodes /\ for[d] \in SUBSET Nodes
    BY DEF RedlockInv, RedlockTypeOK
  <2>2. for[c] \cap for[d] # {} BY <1>1, <2>1, QuorumsMeet
  <2> QED BY <2>1, <2>2
<1>3. Backs(n, c) /\ Backs(n, d) BY <1>2 DEF Backs, HoldsLease
<1> QED BY <1>2, <1>3 DEF RedlockInv, VotesBacked

\* At any time at most one call holds a lease, unless a node that voted for
\* both lost its keys in between.
THEOREM AtMostOneLease == RedlockSpec => []OneLease
<1> QED BY LeaseIsSingle, RedlockInvariant, PTL

\* A call that meets no other is not refused while a majority of the nodes
\* answers as it should.
THEOREM MinorityTolerated == RedlockSpec => []LoneCallGranted
<1>1. Inv => LoneCallGranted BY DEF Inv
<1> QED BY <1>1, InitInv, NextInv, PTL DEF RedlockSpec

\* A call that is over leaves no key, but on a node that failed one of its
\* scripts.
THEOREM NodesLeftClean == RedlockSpec => []NothingLeftBehind
<1>1. Inv => NothingLeftBehind
  BY DEF Inv, RedlockInv, RedlockTypeOK, ReleasesLast, Over, NothingLeftBehind
<1> QED BY <1>1, InitInv, NextInv, PTL DEF RedlockSpec
------------------------------------------------------------------------------
\* Of a call's first attempt, each node's answer is counted, and its key is
\* where the yes was.
FirstRound(c) == phase[c] = "acquiring" /\ attempt[c] = 1
AnswersCounted ==
    \A c \in Calls : FirstRound(c) =>
        /\ for[c] \cap against[c] = {}
        /\ \A n \in Nodes : /\ acquires[c][n] > 0 => n \notin for[c] \cup against[c]
                            /\ key[n] = c => n \in for[c]

\* Calls c and d are the only ones that ever asked.
Alone(c, d) == c # d /\ \A e \in Calls \ {c, d} : phase[e] = "idle"

LostFirst(c) == \/ phase[c] \in {"cleaning", "refused"}
                \/ (phase[c] = "acquiring" /\ attempt[c] > 1)
Won(c) == phase[c] \in {"held", "releasing", "released", "unreleased"}

\* What votes against the first attempt of one votes for that of the other, so
\* the one that loses it leaves the other with a majority.
FirstRoundDecides ==
    \A c, d \in Calls : Alone(c, d) =>
        /\ FirstRound(c) /\ phase[d] = "idle" => against[c] = {}
        /\ FirstRound(c) /\ FirstRound(d) => against[c] \subseteq for[d]
        /\ LostFirst(c) => Won(d) \/ (FirstRound(d) /\ Granted(d))

\* The inductive invariant of OneOfTwoWins.
DuelInv == erred = {} => AnswersCounted /\ FirstRoundDecides

\* No votes are no majority.
LEMMA NoVotesNoQuorum == ~IsQuorum({})
<1>1. Cardinality(Nodes) \in Nat BY RedlockAssumption, FS_CardinalityType
<1> QED BY <1>1, FS_EmptySet DEF IsQuorum

\* A first attempt that is granted is not denied as well.
LEMMA GrantedNotDenied ==
    ASSUME RedlockTypeOK, AnswersCounted, NEW c \in Calls, FirstRound(c),
           Granted(c)
    PROVE  ~Denied(c)
<1>1. for[c] \cap against[c] = {} BY DEF AnswersCounted
<1>2. for[c] \in SUBSET Nodes /\ against[c] \in SUBSET Nodes BY DEF RedlockTypeOK
<1> QED BY <1>1, <1>2, QuorumsMeet DEF Granted, Denied

\* Of two calls alone, the one whose first attempt is denied leaves the lock to
\* the other.
LEMMA DeniedLeavesOther ==
    ASSUME RedlockInv, AnswersCounted, FirstRoundDecides,
           NEW c \in Calls, NEW d \in Calls, Alone(c, d), FirstRound(c), Denied(c)
    PROVE  Won(d) \/ (FirstRound(d) /\ Granted(d))
<1>1. Alone(d, c) BY DEF Alone
<1>t. RedlockTypeOK BY DEF RedlockInv
<1>2. /\ phase[d] # "idle"
      /\ FirstRound(d) => against[c] \subseteq for[d]
      /\ LostFirst(d) => Granted(c)
  <2>1. ~Won(c) BY DEF FirstRound, Won
  <2> QED BY <1>1, <2>1, NoVotesNoQuorum DEF FirstRoundDecides, Denied
<1>3. CASE FirstRound(d)
  <2>1. for[d] \in SUBSET Nodes /\ against[c] \in SUBSET Nodes
    BY <1>t DEF RedlockTypeOK
  <2> QED BY <1>2, <1>3, <2>1, QuorumGrows DEF Granted, Denied
<1>4. ~LostFirst(d) BY <1>2, <1>t, GrantedNotDenied
<1>5. phase[d] \in Phases /\ attempt[d] \in Nat BY <1>t DEF RedlockTypeOK
<1>6. attempt[d] > 1 => LostFirst(d) \/ phase[d] # "acquiring" BY DEF LostFirst
<1>7. phase[d] = "acquiring" => attempt[d] > 0 \/ Nodes = {} BY DEF RedlockInv, FirstTry
<1>8. CASE phase[d] # "acquiring"
  BY <1>2, <1>4, <1>5, <1>8 DEF LostFirst, Won, Phases, Returned
<1>9. CASE phase[d] = "acquiring"
  <2>1. Nodes # {} BY <1>t, NoVotesNoQuorum DEF Denied, RedlockTypeOK
  <2>2. attempt[d] = 1 BY <1>4, <1>5, <1>6, <1>7, <1>9, <2>1
  <2> QED BY <1>3, <1>9, <2>2 DEF FirstRound
<1> QED BY <1>8, <1>9

\* A step that sends no call off again, and leaves alone the answers and the
\* keys of those in their first attempt, decides no duel.
LEMMA DuelKept ==
    ASSUME AnswersCounted, FirstRoundDecides,
           \A c \in Calls : /\ phase'[c] = "idle" <=> phase[c] = "idle"
                            /\ LostFirst(c)' => LostFirst(c)
                            /\ Won(c) => Won(c)'
                            /\ FirstRound(c)' => FirstRound(c)
                            /\ FirstRound(c) => \/ FirstRound(c)'
                                                \/ Granted(c) /\ Won(c)'
                            /\ FirstRound(c)' => /\ for'[c] = for[c]
                                                 /\ against'[c] = against[c],
           \A c \in Calls, n \in Nodes :
               FirstRound(c)' => /\ acquires'[c][n] = acquires[c][n]
                                 /\ key'[n] = c => key[n] = c
    PROVE  AnswersCounted' /\ FirstRoundDecides'
<1>1. AnswersCounted' BY DEF AnswersCounted
<1>2. FirstRoundDecides'
  <2> SUFFICES ASSUME NEW c \in Calls, NEW d \in Calls, Alone(c, d)'
               PROVE  /\ FirstRound(c)' /\ phase'[d] = "idle" => against'[c] = {}
                      /\ FirstRound(c)' /\ FirstRound(d)' => against'[c] \subseteq for'[d]
                      /\ LostFirst(c)' => Won(d)' \/ (FirstRound(d)' /\ Granted(d)')
    BY DEF FirstRoundDecides
  <2>1. Alone(c, d) BY DEF Alone
  <2>2. Granted(d) /\ FirstRound(d)' => Granted(d)' BY DEF Granted, IsQuorum
  <2> QED BY <2>1, <2>2 DEF FirstRoundDecides
<1> QED BY <1>1, <1>2

\* The steps that no call in its first attempt takes, and the one that ends it
\* with a majority.
LEMMA QuietStepsKeepDuel ==
    ASSUME RedlockInv, AnswersCounted, FirstRoundDecides,
           \/ \E c \in Calls : \/ Acquired(c) \/ Refused(c) \/ TryRelease(c)
                               \/ ReleaseReturns(c) \/ LeaseEnds(c)
           \/ \E n \in Nodes : Expire(n) \/ Restart(n)
    PROVE  AnswersCounted' /\ FirstRoundDecides'
<1> USE DEF RedlockInv, RedlockTypeOK, Phases, Returned, FirstRound, LostFirst, Won
<1>1. ASSUME NEW c \in Calls, Acquired(c)
      PROVE  AnswersCounted' /\ FirstRoundDecides'
  BY <1>1, DuelKept DEF Acquired, Enters, nodeVars
<1>2. ASSUME NEW c \in Calls, Refused(c)
      PROVE  AnswersCounted' /\ FirstRoundDecides'
  BY <1>2, DuelKept DEF Refused, Enters, CountFrom, nodeVars
<1>3. ASSUME NEW c \in Calls, TryRelease(c)
      PROVE  AnswersCounted' /\ FirstRoundDecides'
  BY <1>3, DuelKept DEF TryRelease, Enters, CountFrom, nodeVars
<1>4. ASSUME NEW c \in Calls, ReleaseReturns(c)
      PROVE  AnswersCounted' /\ FirstRoundDecides'
  BY <1>4, DuelKept DEF ReleaseReturns, Enters, CountFrom, nodeVars
<1>5. ASSUME NEW c \in Calls, LeaseEnds(c)
      PROVE  AnswersCounted' /\ FirstRoundDecides'
  BY <1>5, DuelKept DEF LeaseEnds, callVars, nodeVars
<1>6. ASSUME NEW n \in Nodes, Expire(n) \/ Restart(n)
      PROVE  AnswersCounted' /\ FirstRoundDecides'
  BY <1>6, RedlockAssumption, DuelKept DEF Expire, Restart, callVars, nodeVars
<1> QED BY <1>1, <1>2, <1>3, <1>4, <1>5, <1>6

\* A first attempt finds nobody's refusal; a second one leaves the duel to the
\* other call.
LEMMA TryAcquireKeepsDuel ==
    ASSUME RedlockInv, AnswersCounted, FirstRoundDecides,
           NEW c \in Calls, TryAcquire(c)
    PROVE  AnswersCounted' /\ FirstRoundDecides'
<1> USE DEF TryAcquire, Enters, CountFrom, SendToAll, nodeVars,
        RedlockInv, RedlockTypeOK, Phases, Returned, FirstRound, LostFirst, Won
<1>0. /\ phase'[c] = "acquiring" /\ for'[c] = {} /\ against'[c] = {} /\ key' = key
      /\ \/ phase[c] = "idle" /\ attempt'[c] = 1
         \/ phase[c] = "acquiring" /\ Denied(c) /\ attempt'[c] = attempt[c] + 1
      /\ \A d \in Calls \ {c} : /\ phase'[d] = phase[d] /\ attempt'[d] = attempt[d]
                                /\ for'[d] = for[d] /\ against'[d] = against[d]
                                /\ acquires'[d] = acquires[d]
  OBVIOUS
<1>1. FirstRound(c)' => phase[c] = "idle" \/ Nodes = {} BY <1>0 DEF FirstTry
<1>d. ASSUME Denied(c) PROVE Nodes # {} BY <1>d, NoVotesNoQuorum DEF Denied
<1>2. AnswersCounted' BY <1>0, <1>1 DEF AnswersCounted, FirstTry
<1>3. FirstRoundDecides'
  <2> SUFFICES ASSUME NEW a \in Calls, NEW b \in Calls, Alone(a, b)'
               PROVE  /\ FirstRound(a)' /\ phase'[b] = "idle" => against'[a] = {}
                      /\ FirstRound(a)' /\ FirstRound(b)' => against'[a] \subseteq for'[b]
                      /\ LostFirst(a)' => Won(b)' \/ (FirstRound(b)' /\ Granted(b)')
    BY DEF FirstRoundDecides
  <2>1. Alone(a, b) /\ Alone(b, a) /\ c \in {a, b} BY <1>0 DEF Alone
  <2>2. Granted(a)' = Granted(a) \/ a = c BY <1>0 DEF Granted, IsQuorum
  <2>3. Granted(b)' = Granted(b) \/ b = c BY <1>0 DEF Granted, IsQuorum
  <2>4. CASE a = c
    <3>1. b # c BY <2>1, <2>4 DEF Alone
    <3>2. FirstRound(a)' => against'[a] = {} BY <1>0, <2>4
    <3>3. LostFirst(a)' => (FirstRound(a) /\ Denied(a)) \/ LostFirst(a)
      BY <1>0, <2>4, <1>d DEF FirstTry
    <3>4. LostFirst(a)' => Won(b) \/ (FirstRound(b) /\ Granted(b))
      BY <2>1, <3>3, DeniedLeavesOther DEF FirstRoundDecides
    <3> HIDE DEF TryAcquire, Enters, CountFrom, SendToAll
    <3> QED BY <1>0, <2>3, <3>1, <3>2, <3>4
  <2>5. CASE b = c /\ a # c
    <3>1. FirstRound(a)' /\ FirstRound(b)' => against'[a] = {}
      BY <1>0, <1>1, <1>d, <2>1, <2>5 DEF FirstRoundDecides
    <3>2. LostFirst(a)' => LostFirst(a) BY <1>0, <2>5
    <3>3. LostFirst(a) => FirstRound(b) /\ Granted(b)
      BY <1>0, <2>1, <2>5 DEF FirstRoundDecides
    <3>4. FirstRound(b) /\ Granted(b) => ~Denied(b) BY GrantedNotDenied
    <3> QED BY <1>0, <2>5, <3>1, <3>2, <3>3, <3>4
  <2> QED BY <2>1, <2>4, <2>5
<1> QED BY <1>2, <1>3

\* The last attempt is lost: if it was the first one too, it leaves the duel to
\* the other call.
LEMMA CleanUpKeepsDuel ==
    ASSUME RedlockInv, AnswersCounted, FirstRoundDecides,
           NEW c \in Calls, CleanUp(c)
    PROVE  AnswersCounted' /\ FirstRoundDecides'
<1> USE DEF CleanUp, Enters, CountFrom, nodeVars,
        RedlockInv, RedlockTypeOK, Phases, Returned, FirstRound, LostFirst, Won
<1>0. /\ phase'[c] = "cleaning" /\ phase[c] = "acquiring" /\ Denied(c) /\ key' = key
      /\ attempt[c] = Attempts /\ acquires' = acquires
      /\ \A d \in Calls \ {c} : /\ phase'[d] = phase[d] /\ attempt'[d] = attempt[d]
                                /\ for'[d] = for[d] /\ against'[d] = against[d]
  OBVIOUS
<1>1. FirstRound(c) \/ LostFirst(c) BY <1>0, RedlockAssumption
<1>2. AnswersCounted' BY <1>0 DEF AnswersCounted
<1>3. FirstRoundDecides'
  <2> SUFFICES ASSUME NEW a \in Calls, NEW b \in Calls, Alone(a, b)'
               PROVE  /\ FirstRound(a)' /\ phase'[b] = "idle" => against'[a] = {}
                      /\ FirstRound(a)' /\ FirstRound(b)' => against'[a] \subseteq for'[b]
                      /\ LostFirst(a)' => Won(b)' \/ (FirstRound(b)' /\ Granted(b)')
    BY DEF FirstRoundDecides
  <2>1. Alone(a, b) /\ Alone(b, a) /\ c \in {a, b} BY <1>0 DEF Alone
  <2>2. b # c => Granted(b)' = Granted(b) BY <1>0 DEF Granted, IsQuorum
  <2>3. Won(b) \/ (FirstRound(b) /\ Granted(b)) \/ b = c
    BY <1>0, <1>1, <2>1, DeniedLeavesOther DEF FirstRoundDecides
  <2>4. Won(a) \/ (FirstRound(a) /\ Granted(a)) \/ a = c
    BY <1>0, <1>1, <2>1, DeniedLeavesOther DEF FirstRoundDecides
  <2>5. a # b BY <2>1 DEF Alone
  <2> HIDE DEF CleanUp, Enters, CountFrom
  <2> QED BY <1>0, <2>1, <2>2, <2>3, <2>4, <2>5 DEF FirstRoundDecides
<1> QED BY <1>2, <1>3

\* A script that does not fail does what it says, and so does its answer.
LEMMA RunExact ==
    ASSUME RedlockTypeOK, NEW c \in Calls, NEW n \in Nodes,
           NEW new \in Calls \cup {None}, NEW yes \in BOOLEAN,
           NEW last \in BOOLEAN, Run(c, n, new, yes, last), erred' = {}
    PROVE  /\ phase' = phase /\ attempt' = attempt /\ erred = {}
           /\ key' = [key EXCEPT ![n] = new]
           /\ Answer(c, n, yes, last)
  BY DEF Run

\* An acquire script answers a first attempt by what it finds: nothing, or the
\* key of the other call.
LEMMA RunAcquireKeepsDuel ==
    ASSUME RedlockInv, AnswersCounted, FirstRoundDecides,
           NEW c \in Calls, NEW n \in Nodes, RunAcquire(c, n), erred' = {}
    PROVE  AnswersCounted' /\ FirstRoundDecides'
<1> DEFINE new == IF key[n] = None THEN c ELSE key[n]
           yes == key[n] = None
           last == acquires[c][n] = 1 /\ releases[c][n] = 0
<1> USE DEF RedlockInv, RedlockTypeOK
<1>1. /\ phase' = phase /\ attempt' = attempt
      /\ key' = [key EXCEPT ![n] = new]
      /\ Answer(c, n, yes, last)
  <2>1. Run(c, n, new, yes, last) BY DEF RunAcquire
  <2>2. new \in Calls \cup {None} /\ yes \in BOOLEAN /\ last \in BOOLEAN OBVIOUS
  <2>3. RedlockTypeOK OBVIOUS
  <2> HIDE DEF new, yes, last, RedlockTypeOK
  <2> QED BY <2>1, <2>2, <2>3, RunExact
<1>2. /\ acquires[c][n] > 0 /\ acquires'[c][n] = acquires[c][n] - 1
      /\ \A m \in Nodes \ {n} : acquires'[c][m] = acquires[c][m]
      /\ \A d \in Calls \ {c} : acquires'[d] = acquires[d]
  BY DEF RunAcquire
<1>3. /\ \A d \in Calls \ {c} : for'[d] = for[d] /\ against'[d] = against[d]
      /\ for[c] \subseteq for'[c] /\ against[c] \subseteq against'[c]
      /\ for'[c] \in SUBSET Nodes /\ against'[c] \in SUBSET Nodes
      /\ FirstRound(c) =>
             /\ for'[c] = IF key[n] = None THEN for[c] \cup {n} ELSE for[c]
             /\ against'[c] = IF key[n] = None THEN against[c] ELSE against[c] \cup {n}
  <2>1. FirstRound(c) => acquires[c][n] = 1 /\ releases[c][n] = 0
    BY <1>2 DEF FirstRound, FirstTry, ReleasesLast, Over, Returned
  <2>2. FirstRound(c) => phase[c] \notin Returned BY DEF FirstRound, Returned
  <2>3. for[c] \cup {n} \in SUBSET Nodes /\ against[c] \cup {n} \in SUBSET Nodes OBVIOUS
  <2> QED BY <1>1, <2>1, <2>2, <2>3 DEF Answer
<1>4. FirstRound(c) => /\ key[n] # c /\ acquires'[c][n] = 0
                       /\ n \notin for[c] \cup against[c]
  BY <1>2 DEF FirstRound, FirstTry, AnswersCounted
<1>5. /\ \A m \in Nodes \ {n} : key'[m] = key[m]
      /\ key'[n] = IF key[n] = None THEN c ELSE key[n]
  BY <1>1
<1> HIDE DEF new, yes, last
<1>6. \A d \in Calls : FirstRound(d)' <=> FirstRound(d) BY <1>1 DEF FirstRound
<1>7. AnswersCounted'
  <2> SUFFICES ASSUME NEW d \in Calls, FirstRound(d), NEW m \in Nodes
               PROVE  /\ for'[d] \cap against'[d] = {}
                      /\ acquires'[d][m] > 0 => m \notin for'[d] \cup against'[d]
                      /\ key'[m] = d => m \in for'[d]
    BY <1>6 DEF AnswersCounted
  <2>1. CASE d = c BY <1>2, <1>3, <1>4, <1>5, <2>1 DEF AnswersCounted
  <2>2. CASE d # c BY <1>2, <1>3, <1>5, <2>2, RedlockAssumption DEF AnswersCounted
  <2> QED BY <2>1, <2>2
<1>8. FirstRoundDecides'
  <2> SUFFICES ASSUME NEW a \in Calls, NEW b \in Calls, Alone(a, b)
               PROVE  /\ FirstRound(a) /\ phase[b] = "idle" => against'[a] = {}
                      /\ FirstRound(a) /\ FirstRound(b) => against'[a] \subseteq for'[b]
                      /\ LostFirst(a) => Won(b) \/ (FirstRound(b) /\ Granted(b)')
    BY <1>1, <1>6 DEF FirstRoundDecides, Alone, LostFirst, Won
  <2>1. Granted(b) => Granted(b)'
    <3>1. for[b] \subseteq for'[b] /\ for[b] \in SUBSET Nodes /\ for'[b] \in SUBSET Nodes
      BY <1>3
    <3>2. IsQuorum(for[b]) => IsQuorum(for'[b]) BY <3>1, QuorumGrows
    <3> QED BY <3>2 DEF Granted, IsQuorum
  <2>2. key[n] \notin {None, a} => key[n] = b /\ phase[b] # "idle"
    BY DEF Alone, FirstTry
  <2>3. FirstRound(b) /\ key[n] = b => n \in for[b] BY DEF AnswersCounted
  <2>4. for[b] \subseteq for'[b] BY <1>3
  <2>5. FirstRound(a) => \/ against'[a] = against[a]
                         \/ against'[a] = against[a] \cup {n} /\ key[n] \notin {None, a}
    BY <1>3, <1>4
  <2> QED BY <2>1, <2>2, <2>3, <2>4, <2>5 DEF FirstRoundDecides
<1> QED BY <1>7, <1>8

\* A release script is of a call whose duel is over.
LEMMA RunReleaseKeepsDuel ==
    ASSUME RedlockInv, AnswersCounted, FirstRoundDecides,
           NEW c \in Calls, NEW n \in Nodes, RunRelease(c, n), erred' = {}
    PROVE  AnswersCounted' /\ FirstRoundDecides'
<1> DEFINE new == IF key[n] = c THEN None ELSE key[n]
           yes == key[n] = c
           last == releases[c][n] = 1
<1> USE DEF RedlockInv, RedlockTypeOK
<1>1. /\ phase' = phase /\ attempt' = attempt
      /\ key' = [key EXCEPT ![n] = new]
      /\ Answer(c, n, yes, last)
  <2>1. Run(c, n, new, yes, last) BY DEF RunRelease
  <2>2. new \in Calls \cup {None} /\ yes \in BOOLEAN /\ last \in BOOLEAN OBVIOUS
  <2>3. RedlockTypeOK OBVIOUS
  <2> HIDE DEF new, yes, last, RedlockTypeOK
  <2> QED BY <2>1, <2>2, <2>3, RunExact
<1>2. acquires' = acquires /\ ~FirstRound(c)
  <2>1. acquires' = acquires /\ releases[c][n] > 0 BY DEF RunRelease
  <2>2. ~Over(c) => releases[c][n] = 0 BY DEF ReleasesLast
  <2>3. FirstRound(c) => ~Over(c) BY DEF FirstRound, Over, Returned
  <2> QED BY <2>1, <2>2, <2>3
<1>3. \A d \in Calls \ {c} : for'[d] = for[d] /\ against'[d] = against[d]
  BY <1>1 DEF Answer
<1>4. \A m \in Nodes : key'[m] \in {None, key[m]} BY <1>1
<1>5. \A d \in Calls : phase'[d] = phase[d] /\ attempt'[d] = attempt[d] BY <1>1
<1> QED BY <1>2, <1>3, <1>4, <1>5, RedlockAssumption, DuelKept
        DEF FirstRound, LostFirst, Won

\* Every step keeps the duel, and a node that failed stays marked.
LEMMA DuelNext ==
    ASSUME RedlockInv, DuelInv, [RedlockNext]_redlockVars
    PROVE  DuelInv'
<1> SUFFICES ASSUME erred' = {} PROVE AnswersCounted' /\ FirstRoundDecides'
  BY DEF DuelInv
<1>1. CASE UNCHANGED redlockVars
  <2> USE <1>1 DEF redlockVars, callVars, nodeVars
  <2>1. AnswersCounted /\ FirstRoundDecides BY DEF DuelInv
  <2> QED BY <2>1, DuelKept DEF FirstRound, LostFirst, Won
<1>2. CASE RedlockNext
  <2>1. RedlockStep BY <1>2 DEF RedlockNext
  <2>2. erred = {}
    BY <2>1 DEF RedlockStep, TryAcquire, Acquired, CleanUp, Refused, TryRelease,
       ReleaseReturns, LeaseEnds, RunAcquire, RunRelease, Run, Expire, Restart, nodeVars
  <2>3. AnswersCounted /\ FirstRoundDecides BY <2>2 DEF DuelInv
  <2> QED BY <2>1, <2>3, QuietStepsKeepDuel, TryAcquireKeepsDuel, CleanUpKeepsDuel,
             RunAcquireKeepsDuel, RunReleaseKeepsDuel DEF RedlockStep
<1> QED BY <1>1, <1>2

\* While no node fails a script, two calls that nobody else ever joined do not
\* both lose: on any number of nodes, however often leases run out and nodes
\* restart.
THEOREM OneAlwaysWins == RedlockSpec => []OneOfTwoWins
<1>1. RedlockInit => DuelInv
  BY DEF RedlockInit, DuelInv, AnswersCounted, FirstRoundDecides, FirstRound, LostFirst
<1>2. Inv /\ DuelInv /\ [RedlockNext]_redlockVars => Inv' /\ DuelInv'
  BY NextInv, DuelNext DEF Inv
<1>3. DuelInv => OneOfTwoWins
  <2> SUFFICES ASSUME DuelInv, erred = {}, NEW c \in Calls, NEW d \in Calls, c # d,
                      {phase[c], phase[d]} \subseteq {"cleaning", "refused"},
                      \A e \in Calls \ {c, d} : phase[e] = "idle"
               PROVE  FALSE
    BY DEF OneOfTwoWins
  <2>1. Alone(c, d) /\ LostFirst(c) BY DEF Alone, LostFirst
  <2> QED BY <2>1 DEF DuelInv, FirstRoundDecides, Won, FirstRound
<1> QED BY <1>1, <1>2, <1>3, InitInv, PTL DEF RedlockSpec
------------------------------------------------------------------------------
\* Where call c stands with the lock.
Stand(c) == IF phase[c] \in {"acquiring", "cleaning"} THEN "asking"
            ELSE IF phase[c] = "held" THEN "relying" ELSE "away"

\* A step of call c, or of none, that the nodes survive.
StandStep(c) ==
    /\ restarted' = restarted
    /\ \A d \in Calls \ {c} : Stand(d)' = Stand(d) /\ (HoldsLease(d)' <=> HoldsLease(d))

\* A step that changes nobody's stand is none to the callers.
LEMMA StandStill ==
    ASSUME NEW c \in Calls, StandStep(c), Stand(c)' = Stand(c),
           HoldsLease(c)' <=> HoldsLease(c)
    PROVE  UNCHANGED Service!serviceVars
<1>1. \A d \in Calls : Stand(d)' = Stand(d) /\ (HoldsLease(d)' <=> HoldsLease(d))
  BY DEF StandStep
<1>2. /\ {d \in Calls : phase[d] \in {"acquiring", "cleaning"}}'
             = {d \in Calls : phase[d] \in {"acquiring", "cleaning"}}
      /\ {d \in Calls : phase[d] = "held"}' = {d \in Calls : phase[d] = "held"}
  BY <1>1 DEF Stand
<1>3. {d \in Calls : HoldsLease(d)}' = {d \in Calls : HoldsLease(d)}
  BY <1>1
<1> QED BY <1>2, <1>3 DEF Service!serviceVars, StandStep

\* How the three sets move when c does.
LEMMA StandMoves ==
    ASSUME NEW c \in Calls, StandStep(c)
    PROVE  LET asking  == {d \in Calls : phase[d] \in {"acquiring", "cleaning"}}
               relying == {d \in Calls : phase[d] = "held"}
               leases  == {d \in Calls : HoldsLease(d)}
           IN  /\ asking' = IF Stand(c)' = "asking" THEN asking \cup {c} ELSE asking \ {c}
               /\ relying' = IF Stand(c)' = "relying" THEN relying \cup {c} ELSE relying \ {c}
               /\ leases' = IF HoldsLease(c)' THEN leases \cup {c} ELSE leases \ {c}
BY DEF StandStep, Stand

\* The lease that acquireLock returns is the only one, if it has not ended on
\* the way, and whatever the nodes do between the calls is a TTL's end at most.
LEMMA NodesServed ==
    ASSUME RedlockTypeOK, OneLease', [RedlockNext]_redlockVars
    PROVE  UNCHANGED Service!serviceVars \/ Service!ServiceNext
<1> DEFINE asking  == {d \in Calls : phase[d] \in {"acquiring", "cleaning"}}
           relying == {d \in Calls : phase[d] = "held"}
           leases  == {d \in Calls : HoldsLease(d)}
<1> USE DEF RedlockTypeOK, Enters, nodeVars, callVars
<1>1. ASSUME NEW c \in Calls, TryAcquire(c)
      PROVE  UNCHANGED Service!serviceVars \/ Service!Ask(c)
  <2>1. StandStep(c) BY <1>1 DEF TryAcquire, StandStep, Stand, HoldsLease
  <2>2. Stand(c)' = "asking" /\ ~HoldsLease(c) /\ ~HoldsLease(c)'
    BY <1>1 DEF TryAcquire, Stand, HoldsLease
  <2>3. CASE phase[c] = "idle"
    <3>1. asking' = asking \cup {c} /\ relying' = relying /\ leases' = leases
      BY <2>1, <2>2, <2>3, StandMoves
    <3>2. c \notin asking \cup relying BY <2>3
    <3> QED BY <2>1, <3>1, <3>2 DEF Service!Ask, StandStep
  <2>4. CASE phase[c] # "idle"
    <3>1. Stand(c) = "asking" BY <1>1, <2>4 DEF TryAcquire, Stand
    <3> QED BY <2>1, <2>2, <3>1, StandStill
  <2> QED BY <2>3, <2>4
<1>2. ASSUME NEW c \in Calls, Acquired(c)
      PROVE  Service!Grant(c)
  <2>1. StandStep(c) BY <1>2 DEF Acquired, StandStep, Stand, HoldsLease
  <2>2. /\ Stand(c)' = "relying" /\ c \in asking /\ ~HoldsLease(c)
        /\ HoldsLease(c)' <=> ~expired[c]
    BY <1>2 DEF Acquired, Stand, HoldsLease
  <2>3. asking' = asking \ {c} /\ relying' = relying \cup {c}
    BY <2>1, <2>2, StandMoves
  <2>4. CASE expired[c]
    <3>1. leases' = leases BY <2>1, <2>2, <2>4, StandMoves
    <3> QED BY <2>1, <2>2, <2>3, <3>1 DEF Service!Grant, StandStep
  <2>5. CASE ~expired[c]
    <3>1. leases' = leases \cup {c} BY <2>1, <2>2, <2>5, StandMoves
    <3>2. ASSUME restarted = {}, NEW d \in leases PROVE FALSE
      <4>1. d # c /\ HoldsLease(d)' BY <2>1, <2>2, <3>2 DEF StandStep
      <4>2. for'[c] \cap for'[d] \cap restarted' # {}
        BY <2>2, <2>5, <4>1 DEF OneLease
      <4> QED BY <2>1, <3>2, <4>2 DEF StandStep
    <3>3. leases = {} \/ restarted # {} BY <3>2
    <3> QED BY <2>1, <2>2, <2>3, <3>1, <3>3 DEF Service!Grant, StandStep
  <2> QED BY <2>4, <2>5
<1>3. ASSUME NEW c \in Calls, Refused(c)
      PROVE  Service!Refuse(c)
  <2>1. StandStep(c) BY <1>3 DEF Refused, StandStep, Stand, HoldsLease
  <2>2. Stand(c)' = "away" /\ c \in asking /\ ~HoldsLease(c) /\ ~HoldsLease(c)'
    BY <1>3 DEF Refused, Stand, HoldsLease
  <2>3. asking' = asking \ {c} /\ relying' = relying /\ leases' = leases
    BY <2>1, <2>2, StandMoves
  <2> QED BY <2>1, <2>2, <2>3 DEF Service!Refuse, StandStep
<1>4. ASSUME NEW c \in Calls, TryRelease(c)
      PROVE  UNCHANGED Service!serviceVars \/ Service!GiveBack(c)
  <2>1. StandStep(c) BY <1>4 DEF TryRelease, StandStep, Stand, HoldsLease
  <2>2. Stand(c)' = "away" /\ ~HoldsLease(c)'
    BY <1>4 DEF TryRelease, Stand, HoldsLease
  <2>3. CASE phase[c] = "held"
    <3>1. relying' = relying \ {c} /\ leases' = leases \ {c}
      BY <2>1, <2>2, StandMoves
    <3>2. asking' = asking BY <2>1, <2>2, <2>3, StandMoves
    <3> QED BY <2>1, <2>3, <3>1, <3>2 DEF Service!GiveBack, StandStep
  <2>4. CASE phase[c] # "held"
    <3>1. Stand(c) = "away" /\ ~HoldsLease(c)
      BY <1>4, <2>4 DEF TryRelease, Stand, HoldsLease
    <3> QED BY <2>1, <2>2, <3>1, StandStill
  <2> QED BY <2>3, <2>4
<1>5. ASSUME NEW c \in Calls, LeaseEnds(c)
      PROVE  UNCHANGED Service!serviceVars \/ Service!Lapse(c)
  <2>1. StandStep(c) /\ Stand(c)' = Stand(c) /\ ~HoldsLease(c)'
    BY <1>5 DEF LeaseEnds, StandStep, Stand, HoldsLease
  <2>2. CASE HoldsLease(c)
    <3>1. leases' = leases \ {c} BY <2>1, StandMoves
    <3>2. asking' = asking /\ relying' = relying
      BY <1>5 DEF LeaseEnds
    <3> QED BY <2>1, <2>2, <3>1, <3>2 DEF Service!Lapse, StandStep
  <2>3. CASE ~HoldsLease(c)
    BY <2>1, <2>3, StandStill
  <2> QED BY <2>2, <2>3
<1>6. ASSUME NEW c \in Calls,
             \/ CleanUp(c) \/ ReleaseReturns(c)
             \/ \E n \in Nodes : RunAcquire(c, n) \/ RunRelease(c, n)
      PROVE  UNCHANGED Service!serviceVars
  <2>1. StandStep(c)
    BY <1>6 DEF CleanUp, ReleaseReturns, RunAcquire, RunRelease, Run, StandStep,
       Stand, HoldsLease
  <2>2. Stand(c)' = Stand(c) /\ (HoldsLease(c)' <=> HoldsLease(c))
    BY <1>6 DEF CleanUp, ReleaseReturns, RunAcquire, RunRelease, Run, Stand, HoldsLease
  <2> QED BY <2>1, <2>2, StandStill
<1>7. ASSUME phase' = phase, expired' = expired
      PROVE  asking' = asking /\ relying' = relying /\ leases' = leases
  BY <1>7 DEF HoldsLease
<1>8. ASSUME NEW n \in Nodes, Restart(n)
      PROVE  Service!Forget
  BY <1>7, <1>8 DEF Restart, Service!Forget
<1>9. ASSUME NEW n \in Nodes, Expire(n)
      PROVE  UNCHANGED Service!serviceVars
  BY <1>7, <1>9 DEF Expire, Service!serviceVars
<1>10. CASE UNCHANGED redlockVars
  BY <1>7, <1>10 DEF redlockVars, Service!serviceVars
<1> HIDE DEF RedlockTypeOK, Enters, nodeVars, callVars, asking, relying, leases
<1> QED
  BY <1>1, <1>2, <1>3, <1>4, <1>5, <1>6, <1>8, <1>9, <1>10
  DEF RedlockNext, RedlockStep, Service!ServiceNext

\* What the callers see of the nodes is the promise of the lock: any number of
\* nodes and of calls, of failing scripts and of attempts grants a lease only
\* while no other runs, unless a node restarts.
THEOREM NodesKeepPromise == RedlockSpec => NodesServe
<1>1. RedlockInit => Service!ServiceInit
  BY DEF RedlockInit, Service!ServiceInit, HoldsLease
<1>2. RedlockInv => RedlockTypeOK BY DEF RedlockInv
<1>3. RedlockTypeOK /\ OneLease' /\ [RedlockNext]_redlockVars =>
          [UNCHANGED Service!serviceVars \/ Service!ServiceNext]_redlockVars
  BY NodesServed
<1> QED
  BY <1>1, <1>2, <1>3, RedlockInvariant, AtMostOneLease, PTL DEF RedlockSpec, NodesServe
==============================================================================
