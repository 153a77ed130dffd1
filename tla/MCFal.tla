------------------------------- MODULE MCFal -------------------------------
(***************************************************************************)
(* Instances of FalClient: the nine adapters, and requests at both ends of *)
(* what they take.                                                         *)
(***************************************************************************)
EXTENDS FalClient

Plain == [asset |-> TRUE, additional |-> 0]
Shown(n) == [asset |-> TRUE, additional |-> n]
Faceless == [asset |-> FALSE, additional |-> 0]

Casts == { << >>, <<Plain>>, <<Faceless>>, <<Plain, Shown(2)>>,
           <<Shown(6)>>, <<Shown(7)>>, <<Shown(3), Shown(4)>>, <<Plain, Shown(9)>>,
           [i \in 1..2 |-> Plain], [i \in 1..5 |-> Plain],
           [i \in 1..8 |-> Plain], [i \in 1..10 |-> Plain],
           [i \in 1..11 |-> Plain] }

\* 0.5, 1, 2.5, 3, 3.5, 4.5, 5, 5.5, 10, 10.5, 11, 15, 15.5 and 16 seconds.
Durations == {1, 2, 5, 6, 7, 9, 10, 11, 20, 21, 22, 30, 31, 32}

\* Every cast for five seconds, every duration for one plain entity.
AllShots == [entities: Casts, halves: {10}] \cup [entities: {<<Plain>>}, halves: Durations]
=============================================================================
