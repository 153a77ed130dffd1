---------------------------- MODULE AnchorProofs ----------------------------
(***************************************************************************)
(* Proofs about Anchor, for every set of anchorings and of prices.  What   *)
(* they turn on: a nonce that is once in use, mined or pending, stays in   *)
(* use, whoever uses it; so does every nonce below one that was handed     *)
(* out, and nobody is handed out a nonce that is in use.                   *)
(***************************************************************************)
EXTENDS Anchor, FiniteSetTheorems, TLAPS

Used(n) == n < Len(mined) \/ Taken(n)

\* An anchoring holds a nonce from the time it was told one, until it fails
\* without effect, is displaced, or for ever once mined.
Holds(a) == pc[a] \in {"price", "send"} \/ a \in pool \cup Mined

\* Every nonce below one that is held is in use.
BelowUsed == \A a \in Anchorings : Holds(a) => \A k \in 0..(nonce[a] - 1) : Used(k)

PoolAhead == \A a \in pool : nonce[a] >= Len(mined)

OnePerNonce == \A a, b \in pool : nonce[a] = nonce[b] => a = b

\* The nonce of an anchoring that returned a hash is in use.
AnchoredUsed == \A a \in Anchorings : pc[a] = "anchored" => Used(nonce[a])

AfterEnded == \A a, b \in Anchorings : b \in after[a] => Ended(b)

\* No nonce is held that belonged to an anchoring that had already ended.
Fresh ==
  \A a, b \in Anchorings : Holds(a) /\ b \in after[a] /\ pc[b] = "anchored"
                             => nonce[b] # nonce[a]

\* So that it can be counted.
PoolFinite == IsFiniteSet(pool)

AnchorInv ==
  AnchorTypeOK /\ PoolFinite /\ BelowUsed /\ PoolAhead /\ OnePerNonce /\ AnchoredUsed /\ AfterEnded /\ Fresh

USE DEF AnchorAssumption

-----------------------------------------------------------------------------
LEMMA AnchorInit == Init => AnchorInv
  BY AnchorAssumption, FS_EmptySet DEF PoolFinite, Init, AnchorInv, AnchorTypeOK, BelowUsed, PoolAhead, OnePerNonce,
     AnchoredUsed, AfterEnded, Fresh, Holds, Mined, Ended

LEMMA MinedIn == AnchorTypeOK => Mined \subseteq Anchorings
  BY DEF AnchorTypeOK, Mined

\* A transaction that enters the pool: whoever's nonce is in use stays so.
LEMMA EnterKeepsUsed ==
  ASSUME AnchorTypeOK, NEW a \in Anchorings, Enter(a), UNCHANGED nonce
  PROVE  /\ \A n \in Nat : Used(n) => Used(n)'
         /\ Used(nonce[a])'
  BY DEF AnchorTypeOK, Enter, Used, Taken

LEMMA MineMines ==
  ASSUME AnchorTypeOK, NEW a \in pool, mined' = Append(mined, a)
  PROVE  /\ Len(mined') = Len(mined) + 1 /\ mined' \in Seq(Anchorings)
         /\ Mined' = Mined \cup {a}
         /\ \A i \in DOMAIN mined' : \/ i \in DOMAIN mined /\ mined'[i] = mined[i]
                                     \/ i = Len(mined) + 1 /\ mined'[i] = a
<1>1. mined \in Seq(Anchorings) /\ a \in Anchorings
  BY DEF AnchorTypeOK
<1>2. Len(mined') = Len(mined) + 1 /\ mined' \in Seq(Anchorings)
  BY <1>1
<1>3. \A i \in DOMAIN mined' : \/ i \in DOMAIN mined /\ mined'[i] = mined[i]
                               \/ i = Len(mined) + 1 /\ mined'[i] = a
  BY <1>1, <1>2
<1>4. \A i \in DOMAIN mined : i \in DOMAIN mined' /\ mined'[i] = mined[i]
  BY <1>1, <1>2
<1>5. Len(mined) + 1 \in DOMAIN mined' /\ mined'[Len(mined) + 1] = a
  BY <1>1, <1>2
<1> QED
  BY <1>2, <1>3, <1>4, <1>5 DEF Mined

LEMMA AnchorStep == AnchorInv /\ [Next]_vars => AnchorInv'
<1> SUFFICES ASSUME AnchorInv, [Next]_vars PROVE AnchorInv'
  OBVIOUS
<1> USE DEF AnchorInv, Goto, read, node
<1>1. ASSUME NEW a \in Anchorings, Begin(a) PROVE AnchorInv'
  <2>1. \A b \in Anchorings : (Holds(b)' <=> Holds(b)) /\ (Ended(b)' <=> Ended(b))
    BY <1>1 DEF Begin, Holds, Mined, Ended, AnchorTypeOK
  <2>2. \A n : Used(n)' <=> Used(n)
    BY <1>1 DEF Begin, Used, Taken
  <2>3. AnchorTypeOK' /\ PoolFinite'
    BY <1>1, <2>1 DEF Begin, AnchorTypeOK, PoolFinite
  <2>4. BelowUsed' /\ PoolAhead' /\ OnePerNonce' /\ AnchoredUsed'
    BY <1>1, <2>1, <2>2 DEF Begin, BelowUsed, PoolAhead, OnePerNonce, AnchoredUsed, AnchorTypeOK
  <2>5. AfterEnded'
    BY <1>1, <2>1 DEF Begin, AfterEnded, AnchorTypeOK
  <2>6. ~Holds(a)
    BY <1>1, MinedIn DEF Begin, Holds, Mined, Ended, AnchorTypeOK
  <2>7. Fresh'
    BY <1>1, <2>1, <2>6 DEF Begin, Fresh, AnchorTypeOK
  <2> QED
    BY <2>3, <2>4, <2>5, <2>7
<1>2. ASSUME NEW a \in Anchorings, GetNonce(a) PROVE AnchorInv'
  <2>1. PICK n \in Nat : IsCount(n) /\ nonce' = [nonce EXCEPT ![a] = n]
    <3>1. Cardinality(pool) \in Nat /\ Len(mined) \in Nat
      BY FS_CardinalityType DEF PoolFinite, AnchorTypeOK
    <3>2. \A n \in 0..(Len(mined) + Cardinality(pool) + 1) : n \in Nat
      BY <3>1
    <3> QED
      BY <1>2, <3>2, Zenon DEF GetNonce
  <2>2. a \notin pool \cup Mined /\ pc[a] = "nonce"
    BY <1>2 DEF GetNonce, AnchorTypeOK, Mined, Ended
  <2>3. AnchorTypeOK'
    BY <1>2, <2>1, <2>2 DEF GetNonce, AnchorTypeOK, Ended, Mined
  <2> PoolFinite'
    BY <1>2 DEF GetNonce, PoolFinite
  <2>4. \A k : Taken(k) <=> Taken(k)'
    BY <1>2, <2>1, <2>2 DEF GetNonce, Taken, AnchorTypeOK
  <2>5. \A k : Used(k) <=> Used(k)'
    BY <1>2, <2>4 DEF GetNonce, Used
  <2>6. BelowUsed'
    BY <1>2, <2>1, <2>2, <2>5 DEF GetNonce, BelowUsed, Holds, IsCount, Used, AnchorTypeOK, Mined
  <2>7. PoolAhead' /\ OnePerNonce' /\ AfterEnded'
    BY <1>2, <2>1, <2>2 DEF GetNonce, PoolAhead, OnePerNonce, AfterEnded, Ended, AnchorTypeOK
  <2>8. AnchoredUsed'
    BY <1>2, <2>1, <2>5 DEF GetNonce, AnchoredUsed, AnchorTypeOK
  <2>9. ~Used(n)
    BY <2>1 DEF IsCount, Used, AnchorTypeOK
  <2>10. Fresh'
    BY <1>2, <2>1, <2>2, <2>9 DEF GetNonce, Fresh, Holds, Mined, AnchoredUsed, AnchorTypeOK
  <2> QED
    BY <2>3, <2>6, <2>7, <2>8, <2>10
<1>3. ASSUME NEW a \in Anchorings, GetPrice(a) PROVE AnchorInv'
  <2>1. \A b \in Anchorings : (Holds(b)' <=> Holds(b)) /\ (Ended(b)' <=> Ended(b))
    BY <1>3 DEF GetPrice, Holds, Mined, Ended, AnchorTypeOK
  <2>2. \A n : Used(n)' <=> Used(n)
    BY <1>3 DEF GetPrice, Used, Taken
  <2>3. AnchorTypeOK' /\ PoolFinite'
    BY <1>3, <2>1, AnchorAssumption DEF GetPrice, AnchorTypeOK, PoolFinite
  <2>4. BelowUsed' /\ PoolAhead' /\ OnePerNonce' /\ AnchoredUsed'
    BY <1>3, <2>1, <2>2 DEF GetPrice, BelowUsed, PoolAhead, OnePerNonce, AnchoredUsed, AnchorTypeOK
  <2>5. AfterEnded' /\ Fresh'
    BY <1>3, <2>1 DEF GetPrice, AfterEnded, Fresh, AnchorTypeOK
  <2> QED
    BY <2>3, <2>4, <2>5
<1>4. ASSUME NEW a \in Anchorings, pc[a] = "send", LetIn(a), Enter(a), UNCHANGED read,
             NEW s \in {"anchored", "error"}, Goto(a, s)
      PROVE  AnchorInv'
  <2>1. AnchorTypeOK'
    BY <1>4 DEF Enter, AnchorTypeOK, Ended
  <2> PoolFinite'
    <3>1. IsFiniteSet({b \in pool : nonce[b] # nonce[a]})
      BY FS_Subset DEF PoolFinite
    <3> QED
      BY <1>4, <3>1, FS_AddElement DEF Enter, PoolFinite
  <2>2. \A n \in Nat : Used(n) => Used(n)'
    BY <1>4, EnterKeepsUsed
  <2>3. Used(nonce[a])'
    BY <1>4, EnterKeepsUsed
  <2>4. \A b \in Anchorings : Holds(b)' => Holds(b)
    BY <1>4 DEF Enter, Holds, Mined, AnchorTypeOK
  <2>5. BelowUsed'
    BY <1>4, <2>2, <2>4 DEF BelowUsed, AnchorTypeOK
  <2>6. PoolAhead' /\ OnePerNonce'
    BY <1>4 DEF Enter, LetIn, PoolAhead, OnePerNonce
  <2>7. AnchoredUsed'
    BY <1>4, <2>2, <2>3 DEF AnchoredUsed, AnchorTypeOK
  <2>8. AfterEnded'
    BY <1>4 DEF AfterEnded, Ended, AnchorTypeOK
  <2>9. a \notin after[a] /\ \A b \in Anchorings : a \notin after[b]
    BY <1>4 DEF AfterEnded, Ended
  <2>10. Fresh'
    BY <1>4, <2>4, <2>9 DEF Fresh, AnchorTypeOK
  <2> QED
    BY <2>1, <2>5, <2>6, <2>7, <2>8, <2>10
<1>5. ASSUME NEW a \in Anchorings, pc[a] \in {"nonce", "price", "send"}, Goto(a, "error"),
             UNCHANGED read, UNCHANGED node
      PROVE  AnchorInv'
  BY <1>5, MinedIn DEF PoolFinite, AnchorTypeOK, BelowUsed, PoolAhead, OnePerNonce,
     AnchoredUsed, AfterEnded, Fresh, Holds, Mined, Ended, Used, Taken
<1>6. ASSUME NEW a \in Anchorings, Send(a) PROVE AnchorInv'
  BY <1>4, <1>5, <1>6 DEF Send
<1>7. ASSUME NEW a \in Anchorings, Fail(a) PROVE AnchorInv'
  BY <1>4, <1>5, <1>7 DEF Fail
<1>8. CASE Mine
  <2>1. PICK a \in pool : nonce[a] = Len(mined) /\ mined' = Append(mined, a) /\ pool' = pool \ {a}
    BY <1>8 DEF Mine
  <2>2. Len(mined') = Len(mined) + 1 /\ mined' \in Seq(Anchorings) /\ Mined' = Mined \cup {a}
    BY <2>1, MineMines
  <2>3. \A i \in DOMAIN mined' : \/ i \in DOMAIN mined /\ mined'[i] = mined[i]
                                 \/ i = Len(mined) + 1 /\ mined'[i] = a
    BY <2>1, MineMines
  <2>4. UNCHANGED <<pc, read>>
    BY <1>8 DEF Mine
  <2>5. AnchorTypeOK'
    BY <2>1, <2>2, <2>3, <2>4 DEF AnchorTypeOK, Ended
  <2> PoolFinite'
    BY <2>1, FS_RemoveElement DEF PoolFinite
  <2>6. \A n \in Nat : Used(n) => Used(n)'
    BY <2>1, <2>2, <2>4 DEF Used, Taken, AnchorTypeOK
  <2>7. \A b \in Anchorings : Holds(b)' => Holds(b)
    BY <2>1, <2>2, <2>4 DEF Holds
  <2>8. BelowUsed' /\ AnchoredUsed'
    BY <2>4, <2>6, <2>7 DEF BelowUsed, AnchoredUsed, AnchorTypeOK
  <2>9. PoolAhead' /\ OnePerNonce'
    BY <2>1, <2>2, <2>4 DEF PoolAhead, OnePerNonce, AnchorTypeOK
  <2>10. AfterEnded' /\ Fresh'
    BY <2>4, <2>7 DEF AfterEnded, Fresh, Ended
  <2> QED
    BY <2>5, <2>8, <2>9, <2>10
<1>9. CASE UNCHANGED vars
  BY <1>9 DEF vars, PoolFinite, AnchorTypeOK, BelowUsed, PoolAhead, OnePerNonce,
     AnchoredUsed, AfterEnded, Fresh, Holds, Mined, Ended, Used, Taken
<1> QED
  BY <1>1, <1>2, <1>3, <1>6, <1>7, <1>8, <1>9 DEF Next, Proceed

LEMMA AnchorInvariant == Spec => []AnchorInv
  BY AnchorInit, AnchorStep, PTL DEF Spec

-----------------------------------------------------------------------------
\* Every value the anchorings and the node hold has its type.
THEOREM AnchorTypeCorrect == Spec => []AnchorTypeOK
<1>1. AnchorInv => AnchorTypeOK
  BY DEF AnchorInv
<1> QED
  BY <1>1, AnchorInvariant, PTL

\* NoNonceGap, for any number of anchorings that overlap or fail anywhere.
THEOREM NoGapEver == Spec => []NoNonceGap
<1>1. AnchorInv => NoNonceGap
  <2> SUFFICES ASSUME AnchorInv, NEW a \in pool, NEW k \in Len(mined)..nonce[a]
               PROVE  nonce[a] >= Len(mined) /\ Taken(k)
    BY DEF NoNonceGap, AnchorInv, PoolAhead
  <2>1. a \in Anchorings /\ nonce[a] \in Nat /\ Len(mined) \in Nat
    BY DEF AnchorInv, AnchorTypeOK
  <2>2. nonce[a] >= Len(mined)
    BY DEF AnchorInv, PoolAhead
  <2>3. CASE k = nonce[a]
    BY <2>2, <2>3 DEF Taken
  <2>4. CASE k # nonce[a]
    BY <2>1, <2>2, <2>4 DEF AnchorInv, BelowUsed, Holds, Used
  <2> QED
    BY <2>2, <2>3, <2>4
<1> QED
  BY <1>1, AnchorInvariant, PTL

\* OnlyOverlappingDisplace, for any number of anchorings.
THEOREM DisplacedByOverlapping == Spec => []OnlyOverlappingDisplace
<1>1. AnchorInv => OnlyOverlappingDisplace
  <2> SUFFICES ASSUME AnchorInv, NEW a \in Anchorings, pc[a] = "anchored"
               PROVE  \E b \in pool \cup Mined : nonce[b] = nonce[a] /\ a \notin after[b]
    BY DEF OnlyOverlappingDisplace
  <2>1. nonce[a] \in Nat /\ Mined \subseteq Anchorings /\ pool \subseteq Anchorings
    BY MinedIn DEF AnchorInv, AnchorTypeOK
  <2>2. \E b \in pool \cup Mined : nonce[b] = nonce[a]
    <3>1. CASE Taken(nonce[a])
      BY <3>1 DEF Taken
    <3>2. CASE nonce[a] < Len(mined)
      <4>1. nonce[a] + 1 \in DOMAIN mined
        BY <2>1, <3>2 DEF AnchorInv, AnchorTypeOK
      <4> QED
        BY <2>1, <4>1 DEF AnchorInv, AnchorTypeOK, Mined
    <3> QED
      BY <3>1, <3>2 DEF AnchorInv, AnchoredUsed, Used
  <2> QED
    BY <2>1, <2>2 DEF AnchorInv, Fresh, Holds
<1> QED
  BY <1>1, AnchorInvariant, PTL
=============================================================================
