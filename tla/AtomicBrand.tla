----------------------------- MODULE AtomicBrand -----------------------------
(***************************************************************************)
(* What one brand's memory promises if every operation on it were one      *)
(* indivisible step: the key is issued once and for all, a review decides  *)
(* an entity's approval status and touches nothing else, a judged output   *)
(* moves one score of one entity and touches nothing else, and an entity   *)
(* that is retired is gone.                                                *)
(***************************************************************************)
EXTENDS Integers

CONSTANTS Names, Keys, Models, Scale, None

VARIABLES key, status, scores

Unscored == [m \in Models |-> Scale \div 2]

\* Three tenths of the way to certainty, one way or the other.
Towards(score) ==
  {score + (3 * (Scale - score)) \div 10, score + (3 * (0 - score)) \div 10}

Init ==
  /\ key = None
  /\ status = [n \in Names |-> None]
  /\ scores = [n \in Names |-> None]

IssueKey(k) == key = None /\ key' = k /\ UNCHANGED <<status, scores>>

Create(n) ==
  /\ status' = [status EXCEPT ![n] = "pending"]
  /\ scores' = [scores EXCEPT ![n] = Unscored]
  /\ UNCHANGED key

Judge(n, verdict) ==
  /\ status[n] # None
  /\ status' = [status EXCEPT ![n] = verdict]
  /\ UNCHANGED <<key, scores>>

Learn(n, m) ==
  /\ status[n] # None
  /\ \E s \in Towards(scores[n][m]) : scores' = [scores EXCEPT ![n][m] = s]
  /\ UNCHANGED <<key, status>>

Retire(n) ==
  /\ status' = [status EXCEPT ![n] = None]
  /\ scores' = [scores EXCEPT ![n] = None]
  /\ UNCHANGED key

Next ==
  \/ \E k \in Keys : IssueKey(k)
  \/ \E n \in Names :
       \/ Create(n) \/ Retire(n)
       \/ \E verdict \in {"approved", "rejected"} : Judge(n, verdict)
       \/ \E m \in Models : Learn(n, m)

vars == <<key, status, scores>>

Spec == Init /\ [][Next]_vars
=============================================================================
