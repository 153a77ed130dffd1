------------------------------- MODULE Anchor -------------------------------
(***************************************************************************)
(* Anchoring the hash of an output on chain: anchor_provenance             *)
(* (kinostate.economic.base_x402) over send_hash_transaction               *)
(* (kinostate.economic.clients.base_client).  One anchoring is three RPC   *)
(* calls: the wallet's next nonce, pending transactions counted; the gas   *)
(* price; and the signed transaction.  Nothing keeps two anchorings of the *)
(* one wallet from reading the same nonce.  The node puts a transaction    *)
(* into its pool, in place of one with that nonce if it pays more, and     *)
(* blocks take from the pool in the order of nonces.                       *)
(***************************************************************************)
EXTENDS Integers, Sequences, FiniteSets

CONSTANTS
  Anchorings,   \* calls of anchor_provenance
  Prices        \* the gas prices the node may quote

AnchorAssumption == Prices \subseteq Nat
ASSUME AnchorAssumption

VARIABLES
  pc,           \* where each anchoring is
  nonce, price, \* what it was told
  after,        \* history: the anchorings that had ended when it began
  pool,         \* the node: the anchorings whose transaction is pending
  mined         \* the chain: the wallet's transactions, by nonce from 0

vars == <<pc, nonce, price, after, pool, mined>>
read == <<nonce, price, after>>
node == <<pool, mined>>

Ended(a) == pc[a] \in {"anchored", "error"}

Mined == {mined[i] : i \in DOMAIN mined}

\* A transaction of the pool has this nonce.
Taken(n) == \E b \in pool : nonce[b] = n

AnchorTypeOK ==
  /\ pc \in [Anchorings -> {"idle", "nonce", "price", "send", "anchored", "error"}]
  /\ nonce \in [Anchorings -> Nat] /\ price \in [Anchorings -> Nat]
  /\ after \in [Anchorings -> SUBSET Anchorings]
  /\ mined \in Seq(Anchorings) /\ pool \subseteq Anchorings
  /\ \A a \in pool : Ended(a)
  /\ \A i \in DOMAIN mined : Ended(mined[i]) /\ nonce[mined[i]] = i - 1

Init ==
  /\ pc = [a \in Anchorings |-> "idle"]
  /\ nonce = [a \in Anchorings |-> 0] /\ price = [a \in Anchorings |-> 0]
  /\ after = [a \in Anchorings |-> {}]
  /\ pool = {} /\ mined = << >>

-----------------------------------------------------------------------------
Goto(a, step) == pc' = [pc EXCEPT ![a] = step]

Begin(a) ==
  /\ pc[a] = "idle" /\ Goto(a, "nonce")
  /\ after' = [after EXCEPT ![a] = {b \in Anchorings : Ended(b)}]
  /\ UNCHANGED <<nonce, price, node>>

\* Mutant: "latest" in place of "pending".
IsCountLatest(n) == n = Len(mined)

\* Mutant: nonces are counted from 1.
IsCountFromOne(n) == n = Len(mined) + Cardinality(pool) + 1

\* eth_getTransactionCount(address, "pending"): the transactions mined, and
\* those of the pool that follow them without a gap.
IsCount(n) ==
  /\ n >= Len(mined) /\ ~Taken(n)
  /\ \A k \in Len(mined)..(n - 1) : Taken(k)

GetNonce(a) ==
  /\ pc[a] = "nonce" /\ Goto(a, "price")
  /\ \E n \in 0..(Len(mined) + Cardinality(pool) + 1) :
       IsCount(n) /\ nonce' = [nonce EXCEPT ![a] = n]
  /\ UNCHANGED <<price, after, node>>

GetPrice(a) ==
  /\ pc[a] = "price" /\ Goto(a, "send")
  /\ \E p \in Prices : price' = [price EXCEPT ![a] = p]
  /\ UNCHANGED <<nonce, after, node>>

\* eth_sendRawTransaction lets it in: "nonce too low" and "replacement
\* transaction underpriced" are errors.
LetIn(a) ==
  /\ nonce[a] >= Len(mined)
  /\ \A b \in pool : nonce[b] = nonce[a] => price[a] > price[b]

Enter(a) ==
  /\ pool' = {b \in pool : nonce[b] # nonce[a]} \cup {a}
  /\ UNCHANGED mined

Send(a) ==
  /\ pc[a] = "send"
  /\ IF LetIn(a) THEN Enter(a) /\ Goto(a, "anchored") ELSE UNCHANGED node /\ Goto(a, "error")
  /\ UNCHANGED read

\* Mutant: what fails is tried again.
FailRetried(a) ==
  /\ pc[a] \in {"nonce", "price", "send"} /\ Goto(a, "nonce")
  /\ UNCHANGED node \/ (pc[a] = "send" /\ LetIn(a) /\ Enter(a))
  /\ UNCHANGED read

\* BaseAnchorError of a call that does not get through, or whose answer does
\* not come back; the transaction may be in the pool all the same.
Fail(a) ==
  /\ pc[a] \in {"nonce", "price", "send"} /\ Goto(a, "error")
  /\ UNCHANGED node \/ (pc[a] = "send" /\ LetIn(a) /\ Enter(a))
  /\ UNCHANGED read

Mine ==
  /\ \E a \in pool :
       /\ nonce[a] = Len(mined)
       /\ mined' = Append(mined, a) /\ pool' = pool \ {a}
  /\ UNCHANGED <<pc, read>>

Proceed(a) == GetNonce(a) \/ GetPrice(a) \/ Send(a) \/ Fail(a)

Next == (\E a \in Anchorings : Begin(a) \/ Proceed(a)) \/ Mine

\* RPC calls have a timeout, and blocks are made.
Spec == Init /\ [][Next]_vars /\ WF_vars(Mine) /\ \A a \in Anchorings : WF_vars(Proceed(a))

-----------------------------------------------------------------------------
\* The pool never has a gap: no transaction waits for a nonce nobody uses,
\* however anchorings overlap and wherever they fail (send_hash_transaction).
NoNonceGap ==
  \A a \in pool : nonce[a] >= Len(mined) /\ \A k \in Len(mined)..nonce[a] : Taken(k)

\* An anchoring that returned a hash is on its way, or gave its nonce up to one
\* that began before it returned: a later anchoring never displaces an earlier.
OnlyOverlappingDisplace ==
  \A a \in Anchorings : pc[a] = "anchored" /\ a \notin pool \cup Mined =>
    \E b \in pool \cup Mined : nonce[b] = nonce[a] /\ a \notin after[b]

\* Every anchoring fails, is mined, or lost its nonce for good to an overlapping one
\* that paid more and is mined: nothing else keeps a transaction out of the chain.
AnchoringsSettle ==
  \A a \in Anchorings : pc[a] = "nonce" ~>
    \/ pc[a] = "error"
    \/ a \in Mined
    \/ /\ pc[a] = "anchored"
       /\ \E b \in Mined : nonce[b] = nonce[a] /\ price[b] > price[a] /\ a \notin after[b]

\* "the returned tx_hash is independently verifiable on a block explorer"
\* (anchor_provenance): its transaction is pending or in a block.
ReturnedHashesStand == \A a \in Anchorings : pc[a] = "anchored" => a \in pool \cup Mined
=============================================================================
