----------------------------- MODULE FalProofs -----------------------------
(***************************************************************************)
(* Proofs about FalClient, for every catalogue, every request and every    *)
(* choice of the three durations: the client is well typed, it gives up in *)
(* time and not too early, and it implements VendorCall.  These rest on    *)
(* one inductive invariant: how late an exchange or a sleep may begin.     *)
(* About the payload: what is asked for is near what was requested, the    *)
(* limits the API routes by are those of compile() and validate(), and     *)
(* images go untagged only if they are additional ones.                    *)
(***************************************************************************)
EXTENDS FalClient, TLAPS, WellFoundedInduction

\* How late an exchange or a sleep may have begun: each conjunct bounds the
\* clock less the time the client has been waiting.
Paced ==
  /\ pc \in {"compile", "connect"} => now = 0
  /\ pc = "submit" => now <= waited
  /\ pc = "poll"  => now <= deadline + Interval + waited
  /\ pc = "sleep" => now <= deadline + waited
  /\ pc = "fetch" => now <= deadline + Interval + HttpTimeout + waited
  /\ deadline <= HttpTimeout + Timeout
  /\ now <= Timeout + Interval + 3 * HttpTimeout

\* What the client has in hand tells of the job it is about.
Linked ==
  /\ pc # "done" <=> outcome = "none"
  /\ pc \in {"compile", "connect", "submit"} => job = "none"
  /\ pc \in {"poll", "sleep", "fetch"} => job # "none"
  /\ job = "none" => seen = "none"
  /\ seen # "none" => pc = "poll"
  /\ seen \in {"done", "failed"} => job = seen
  /\ pc = "fetch" => job = "done"
  /\ outcome = "video" => job = "done"
  /\ pc \notin {"compile", "done"} => IsLive(model)
  /\ outcome = "mock" => job = "none" /\ ~IsLive(model)

\* A poll that reads "queued" was served within the exchange under way.
Fresh ==
  /\ finished <= now
  /\ job # "done" => finished = Never
  /\ outcome = "TimedOut" => now >= deadline
  /\ seen = "queued" /\ finished # Never => finished + waited >= now
  /\ NotGivenUpEarly

FalInv == FalTypeOK /\ Paced /\ Linked /\ Fresh

-----------------------------------------------------------------------------
LEMMA Bounds == Timeout \in Nat /\ Interval \in Nat /\ HttpTimeout \in Nat
  BY FalAssumption DEF FalAssumption

LEMMA FalInit == Init => FalInv
  BY Bounds DEF Init, FalInv, FalTypeOK, Paced, Linked, Fresh, NotGivenUpEarly,
       Exchanges, Statuses, Failures, Never, IsLive

LEMMA FalStep == FalInv /\ [Next]_vars => FalInv'
<1> SUFFICES ASSUME FalInv, [Next]_vars PROVE FalInv'
  OBVIOUS
<1> USE Bounds DEF FalInv, FalTypeOK, Paced, Linked, Fresh, NotGivenUpEarly,
      Exchanges, Statuses, Failures, Never, IsLive, Goto, End, asked, clock, vendor
<1>1. CASE Compile
  BY <1>1 DEF Compile
<1>2. CASE Connect
  BY <1>2 DEF Connect
<1>3. CASE Submit
  BY <1>3 DEF Submit, Accept
<1>4. CASE PollAnswered
  BY <1>4 DEF PollAnswered
<1>5. CASE Wake
  BY <1>5 DEF Wake
<1>6. CASE Fetch
  BY <1>6 DEF Fetch
<1>7. CASE Broken
  BY <1>7 DEF Broken, Accept
<1>8. CASE ServePoll
  BY <1>8 DEF ServePoll
<1>9. CASE Finish
  BY <1>9 DEF Finish
<1>10. CASE Tick
  BY <1>10 DEF Tick, Patience
<1>11. CASE UNCHANGED vars
  BY <1>11 DEF vars
<1>12. QED
  BY <1>1, <1>2, <1>3, <1>4, <1>5, <1>6, <1>7, <1>8, <1>9, <1>10, <1>11 DEF Next, Client

LEMMA FalInvariant == Spec => []FalInv
<1>1. Init => FalInv
  BY FalInit
<1>2. FalInv /\ [Next]_vars => FalInv'
  BY FalStep
<1> QED
  BY <1>1, <1>2, PTL DEF Spec

-----------------------------------------------------------------------------
\* FalTypeOK: the client waits at no step for longer than it may.
THEOREM FalTypeCorrect == Spec => []FalTypeOK
  BY FalInvariant, PTL DEF FalInv

\* EndsInTime: whatever the vendor does, _call_model is over by then.
THEOREM CallEndsInTime == Spec => []EndsInTime
<1>1. FalInv => EndsInTime
  BY DEF FalInv, Paced, EndsInTime
<1> QED
  BY <1>1, FalInvariant, PTL

\* NotGivenUpEarly: "did not complete within" is only said of a job that was not
\* done an exchange before the deadline.
THEOREM LastLookIsLate == Spec => []NotGivenUpEarly
<1>1. FalInv => NotGivenUpEarly
  BY DEF FalInv, Fresh
<1> QED
  BY <1>1, FalInvariant, PTL

-----------------------------------------------------------------------------
(* Every step of the client is one of VendorCall, or leaves its variables. *)

LEMMA RefinesInit == Init => Call!Init
  BY DEF Init, Call!Init, Result

LEMMA RefinesNext == FalInv /\ [Next]_vars => Call!Next \/ UNCHANGED <<model, job, Result>>
<1> SUFFICES ASSUME FalInv, [Next]_vars PROVE Call!Next \/ UNCHANGED <<model, job, Result>>
  OBVIOUS
<1> USE DEF FalInv, FalTypeOK, Linked, Failures, Exchanges, Statuses, Result,
      Goto, End, asked, clock, vendor, Call!Next, Call!Hand, Call!Work, Call!Submit, Call!Video, Call!Mock, Call!Refuse
<1>1. CASE Compile
  BY <1>1 DEF Compile
<1>2. CASE Connect
  BY <1>2 DEF Connect
<1>3. CASE Submit
  BY <1>3 DEF Submit, Accept
<1>4. CASE PollAnswered
  BY <1>4 DEF PollAnswered
<1>5. CASE Wake
  BY <1>5 DEF Wake
<1>6. CASE Fetch
  BY <1>6 DEF Fetch
<1>7. CASE Broken
  BY <1>7 DEF Broken, Accept
<1>8. CASE ServePoll
  BY <1>8 DEF ServePoll
<1>9. CASE Finish
  BY <1>9 DEF Finish
<1>10. CASE Tick
  BY <1>10 DEF Tick
<1>11. CASE UNCHANGED vars
  BY <1>11 DEF vars
<1> QED
  BY <1>1, <1>2, <1>3, <1>4, <1>5, <1>6, <1>7, <1>8, <1>9, <1>10, <1>11 DEF Next, Client

\* ImplementsVendorCall: a video is of a finished job, one job is submitted, and
\* a live model is never stood in for by a mocked output.
THEOREM CallImplements == Spec => ImplementsVendorCall
<1>1. FalInv /\ [Next]_vars => [Call!Next]_<<model, job, Result>>
  BY RefinesNext
<1> QED
  BY RefinesInit, FalInvariant, <1>1, PTL DEF Spec, Call!Spec, ImplementsVendorCall

-----------------------------------------------------------------------------
(* How many images a payload lists.                                        *)

\* Induction, with the set of the numbers that have the property as its datum.
LEMMA Induction ==
  ASSUME NEW S, 0 \in S, \A n \in Nat : n \in S => n + 1 \in S
  PROVE  Nat \subseteq S
<1> DEFINE R == {ss \in Nat \X Nat : ss[1] < ss[2]}
<1>1. IsWellFoundedOn(R, Nat)
  BY NatLessThanWellFounded, Zenon DEF OpToRel
<1> SUFFICES ASSUME Nat \ S # {} PROVE FALSE
  OBVIOUS
<1>2. PICK n \in Nat \ S : \A k \in Nat \ S : ~(<<k, n>> \in R)
  <2> DEFINE T == Nat \ S
  <2>1. T \in SUBSET Nat /\ T # {}
    OBVIOUS
  <2> HIDE DEF R, T
  <2>2. \E n \in T : \A k \in T : ~(<<k, n>> \in R)
    BY <1>1, <2>1, WFMin, Zenon
  <2> QED BY <2>2 DEF T
<1>3. \A k \in Nat \ S : ~(k < n)
  BY <1>2
<1>4. n # 0
  OBVIOUS
<1>5. n - 1 \in S
  BY <1>3, <1>4
<1> QED BY <1>4, <1>5

\* f counts the images of the first k entities.
CountUpTo(f, entities, k) ==
  f = [i \in 0..k |-> IF i = 0 THEN 0 ELSE f[i - 1] + 1 + entities[i].additional]

\* g joins the first k sequences.
JoinUpTo(g, seqs, k) ==
  g = [i \in 1..k |-> IF i = 1 THEN seqs[i] ELSE g[i - 1] \o seqs[i]]

LEMMA CountMeans ==
  ASSUME NEW f, NEW entities, NEW k \in Nat, CountUpTo(f, entities, k)
  PROVE  f[0] = 0 /\ \A i \in 1..k : f[i] = f[i - 1] + 1 + entities[i].additional
<1>1. \A i \in 0..k : f[i] = IF i = 0 THEN 0 ELSE f[i - 1] + 1 + entities[i].additional
  BY Zenon DEF CountUpTo
<1>2. 0 \in 0..k /\ \A i \in 1..k : i \in 0..k /\ i # 0
  OBVIOUS
<1> QED BY <1>1, <1>2, Zenon

LEMMA CountExists ==
  ASSUME NEW entities, NEW k \in Nat
  PROVE  \E f : CountUpTo(f, entities, k)
<1> DEFINE S == {j \in Nat : \E f : CountUpTo(f, entities, j)}
<1>1. 0 \in S
  <2> DEFINE f == [i \in 0..0 |-> 0]
  <2>1. \A i \in 0..0 : i = 0
    OBVIOUS
  <2>2. CountUpTo(f, entities, 0)
    BY <2>1 DEF CountUpTo
  <2> QED BY <2>2
<1>2. ASSUME NEW j \in Nat, j \in S PROVE j + 1 \in S
  <2>1. PICK f : CountUpTo(f, entities, j)
    BY <1>2
  <2>2. f[0] = 0 /\ \A i \in 1..j : f[i] = f[i - 1] + 1 + entities[i].additional
    BY <2>1, CountMeans
  <2> DEFINE next == f[j] + 1 + entities[j + 1].additional
             g == [i \in 0..(j + 1) |-> IF i <= j THEN f[i] ELSE next]
  <2>3. ASSUME NEW i \in 0..(j + 1)
        PROVE  g[i] = IF i = 0 THEN 0 ELSE g[i - 1] + 1 + entities[i].additional
    <3>1. CASE i = 0
      BY <2>2, <3>1
    <3>2. CASE i \in 1..j
      <4>1. g[i] = f[i] /\ g[i - 1] = f[i - 1]
        BY <3>2
      <4> QED BY <2>2, <3>2, <4>1
    <3>3. CASE i = j + 1
      <4>1. g[i] = next /\ g[i - 1] = f[j]
        BY <3>3
      <4> QED BY <3>3, <4>1
    <3> QED BY <3>1, <3>2, <3>3
  <2>4. g = [i \in 0..(j + 1) |-> g[i]]
    OBVIOUS
  <2> HIDE DEF g
  <2>5. CountUpTo(g, entities, j + 1)
    BY <2>3, <2>4, Zenon DEF CountUpTo
  <2> QED BY <2>5
<1> HIDE DEF S
<1>3. Nat \subseteq S
  BY <1>1, <1>2, Induction
<1> QED BY <1>3 DEF S

LEMMA JoinMeans ==
  ASSUME NEW g, NEW seqs, NEW k \in Nat, JoinUpTo(g, seqs, k)
  PROVE  \A i \in 1..k : g[i] = IF i = 1 THEN seqs[i] ELSE g[i - 1] \o seqs[i]
  BY Zenon DEF JoinUpTo

LEMMA JoinExists ==
  ASSUME NEW seqs, NEW k \in Nat
  PROVE  \E g : JoinUpTo(g, seqs, k)
<1> DEFINE S == {j \in Nat : \E g : JoinUpTo(g, seqs, j)}
<1>1. 0 \in S
  <2> DEFINE g == [i \in 1..0 |-> << >>]
  <2>1. \A i \in 1..0 : FALSE
    OBVIOUS
  <2>2. JoinUpTo(g, seqs, 0)
    BY <2>1 DEF JoinUpTo
  <2> QED BY <2>2
<1>2. ASSUME NEW j \in Nat, j \in S PROVE j + 1 \in S
  <2>1. PICK g : JoinUpTo(g, seqs, j)
    BY <1>2
  <2>2. \A i \in 1..j : g[i] = IF i = 1 THEN seqs[i] ELSE g[i - 1] \o seqs[i]
    BY <2>1, JoinMeans
  <2> DEFINE next == IF j = 0 THEN seqs[1] ELSE g[j] \o seqs[j + 1]
             h == [i \in 1..(j + 1) |-> IF i <= j THEN g[i] ELSE next]
  <2>3. ASSUME NEW i \in 1..(j + 1)
        PROVE  h[i] = IF i = 1 THEN seqs[i] ELSE h[i - 1] \o seqs[i]
    <3>1. CASE i \in 1..j
      <4>1. h[i] = g[i] /\ (i # 1 => h[i - 1] = g[i - 1])
        BY <3>1
      <4> QED BY <2>2, <3>1, <4>1
    <3>2. CASE i = j + 1
      <4>1. h[i] = next /\ (i # 1 => h[i - 1] = g[j])
        BY <3>2
      <4> QED BY <3>2, <4>1
    <3> QED BY <3>1, <3>2
  <2>4. h = [i \in 1..(j + 1) |-> h[i]]
    OBVIOUS
  <2> HIDE DEF h
  <2>5. JoinUpTo(h, seqs, j + 1)
    BY <2>3, <2>4, Zenon DEF JoinUpTo
  <2> QED BY <2>5
<1> HIDE DEF S
<1>3. Nat \subseteq S
  BY <1>1, <1>2, Induction
<1> QED BY <1>3 DEF S

LEMMA ImageCountIs ==
  ASSUME NEW entities, Len(entities) \in Nat
  PROVE  \E f : CountUpTo(f, entities, Len(entities)) /\ ImageCount(entities) = f[Len(entities)]
<1> DEFINE chosen == CHOOSE f : CountUpTo(f, entities, Len(entities))
<1>1. CountUpTo(chosen, entities, Len(entities))
  BY CountExists, Zenon
<1>2. ImageCount(entities) = chosen[Len(entities)]
  BY Zenon DEF ImageCount, CountUpTo
<1> QED BY <1>1, <1>2, Zenon

LEMMA FlattenSeqIs ==
  ASSUME NEW seqs, Len(seqs) \in Nat, Len(seqs) # 0
  PROVE  \E g : JoinUpTo(g, seqs, Len(seqs)) /\ FlattenSeq(seqs) = g[Len(seqs)]
<1> DEFINE chosen == CHOOSE g : JoinUpTo(g, seqs, Len(seqs))
<1>1. JoinUpTo(chosen, seqs, Len(seqs))
  BY JoinExists, Zenon
<1>2. FlattenSeq(seqs) = chosen[Len(seqs)]
  BY Zenon DEF FlattenSeq, JoinUpTo
<1> QED BY <1>1, <1>2, Zenon

LEMMA JoinedLength ==
  ASSUME NEW V, NEW s \in Seq(V), NEW t \in Seq(V)
  PROVE  s \o t \in Seq(V) /\ Len(s \o t) = Len(s) + Len(t) /\ Len(s) \in Nat /\ Len(t) \in Nat
  OBVIOUS

\* The flat list is as long as the images are many.
LEMMA EveryImageListed ==
  ASSUME NEW entities \in Seq(Portrait)
  PROVE  LET images == FlattenSeq([k \in DOMAIN entities |-> OwnImages(entities, k)])
         IN  images \in Seq(Int \X Int) /\ Len(images) = ImageCount(entities)
<1> DEFINE seqs == [k \in DOMAIN entities |-> OwnImages(entities, k)]
           n == Len(entities)
<1>1. n \in Nat /\ DOMAIN entities = 1..n /\ \A k \in 1..n : entities[k].additional \in Nat
  <2>1. n \in Nat /\ DOMAIN entities = 1..n /\ \A k \in 1..n : entities[k] \in Portrait
    OBVIOUS
  <2> QED BY <2>1 DEF Portrait
<1>2. ASSUME NEW k \in 1..n
      PROVE  seqs[k] \in Seq(Int \X Int) /\ Len(seqs[k]) = 1 + entities[k].additional
  <2>1. seqs[k] = [j \in 1..(1 + entities[k].additional) |-> <<k, j - 1>>]
    BY <1>1 DEF OwnImages
  <2>2. \A j \in 1..(1 + entities[k].additional) : <<k, j - 1>> \in Int \X Int
    BY <1>1
  <2> HIDE DEF seqs
  <2> QED BY <1>1, <2>1, <2>2
<1>3. seqs \in Seq(Seq(Int \X Int)) /\ Len(seqs) = n
  <2>1. seqs = [k \in 1..n |-> seqs[k]]
    BY <1>1
  <2> HIDE DEF seqs
  <2> QED BY <1>1, <1>2, <2>1
<1>4. PICK f : CountUpTo(f, entities, n) /\ ImageCount(entities) = f[n]
  BY <1>1, ImageCountIs
<1>5. f[0] = 0 /\ \A i \in 1..n : f[i] = f[i - 1] + 1 + entities[i].additional
  BY <1>1, <1>4, CountMeans
<1> HIDE DEF seqs, n
<1>6. CASE n = 0
  <2>1. FlattenSeq(seqs) = seqs
    BY <1>3, <1>6 DEF FlattenSeq
  <2>2. seqs = << >>
    BY <1>3, <1>6
  <2>3. << >> \in Seq(Int \X Int) /\ Len(<< >>) = 0
    OBVIOUS
  <2>4. FlattenSeq(seqs) \in Seq(Int \X Int) /\ Len(FlattenSeq(seqs)) = ImageCount(entities)
    BY <1>4, <1>5, <1>6, <2>1, <2>2, <2>3
  <2> QED BY <2>4 DEF seqs
<1>7. CASE n # 0
  <2>1. PICK g : JoinUpTo(g, seqs, n) /\ FlattenSeq(seqs) = g[n]
    BY <1>1, <1>3, <1>7, FlattenSeqIs
  <2>2. \A i \in 1..n : g[i] = IF i = 1 THEN seqs[i] ELSE g[i - 1] \o seqs[i]
    BY <1>1, <2>1, JoinMeans
  <2> DEFINE S == {i \in Nat : i \in 1..n =>
                     g[i] \in Seq(Int \X Int) /\ f[i] \in Nat /\ Len(g[i]) = f[i]}
  <2>3. 0 \in S
    OBVIOUS
  <2>4. ASSUME NEW i \in Nat, i \in S PROVE i + 1 \in S
    <3> SUFFICES ASSUME i + 1 \in 1..n
                 PROVE  /\ g[i + 1] \in Seq(Int \X Int) /\ f[i + 1] \in Nat
                        /\ Len(g[i + 1]) = f[i + 1]
      OBVIOUS
    <3>1. /\ seqs[i + 1] \in Seq(Int \X Int) /\ entities[i + 1].additional \in Nat
          /\ Len(seqs[i + 1]) = 1 + entities[i + 1].additional
          /\ f[i + 1] = f[i] + 1 + entities[i + 1].additional
      BY <1>1, <1>2, <1>5
    <3>2. CASE i = 0
      BY <1>5, <2>2, <3>1, <3>2
    <3>3. CASE i # 0
      <4>1. g[i] \in Seq(Int \X Int) /\ f[i] \in Nat /\ Len(g[i]) = f[i]
        BY <1>1, <2>4, <3>3
      <4>2. g[i + 1] = g[i] \o seqs[i + 1]
        <5>1. i + 1 # 1 /\ (i + 1) - 1 = i
          BY <3>3
        <5> QED BY <2>2, <5>1, Zenon
      <4>3. g[i + 1] \in Seq(Int \X Int) /\ Len(g[i + 1]) = Len(g[i]) + Len(seqs[i + 1])
        BY <3>1, <4>1, <4>2, JoinedLength, Zenon
      <4>4. \A a, b \in Nat : a + 1 + b \in Nat /\ a + (1 + b) = a + 1 + b
        OBVIOUS
      <4>5. f[i + 1] \in Nat /\ f[i] + (1 + entities[i + 1].additional) = f[i + 1]
        BY <3>1, <4>1, <4>4, Zenon
      <4> QED BY <3>1, <4>1, <4>3, <4>5, Zenon
    <3> QED BY <3>2, <3>3
  <2> HIDE DEF S
  <2>5. Nat \subseteq S
    BY <2>3, <2>4, Induction
  <2> QED BY <1>1, <1>4, <1>7, <2>1, <2>5 DEF S, seqs
<1> QED BY <1>6, <1>7

\* The adapters that compile for a vendor of reference images list every image;
\* the stubs, one of an entity at most, and have no limit of their own.
LEMMA CatalogueStyles ==
  /\ Len(Catalogue) = 9 /\ DOMAIN Styles = 1..9
  /\ \A m \in 5..9 : Catalogue[m].needsAsset /\ Styles[m].lists = "every_image"
  /\ \A m \in 1..4 : /\ ~Catalogue[m].needsAsset /\ Catalogue[m].minEntities = 0
                      /\ Catalogue[m].maxImages = Unchecked /\ Catalogue[m].maxEntities < Unchecked
                      /\ Styles[m].lists \in {"canonical", "primary"}
<1> USE DEF Catalogue, Styles, RunwayAdapter, PikaAdapter, LumaAdapter, KlingAdapter, Stub,
      KlingO1ReferenceAdapter, SeedanceAdapter, MinimaxH3Adapter, XaiGrokImagineVideoAdapter,
      GeminiOmniFlashAdapter, Fal, StubStyle, PikaStyle, ElementsStyle, FlatStyle, XaiStyle,
      GeminiStyle, Unchecked
<1>1. Len(Catalogue) = 9 /\ DOMAIN Styles = 1..9
  OBVIOUS
<1>2. ASSUME NEW m \in 5..9 PROVE Catalogue[m].needsAsset /\ Styles[m].lists = "every_image"
  <2>1. m = 5 \/ m = 6 \/ m = 7 \/ m = 8 \/ m = 9
    OBVIOUS
  <2> QED BY <2>1
<1>3. ASSUME NEW m \in 1..4
      PROVE  /\ ~Catalogue[m].needsAsset /\ Catalogue[m].minEntities = 0
             /\ Catalogue[m].maxImages = Unchecked /\ Catalogue[m].maxEntities < Unchecked
             /\ Styles[m].lists \in {"canonical", "primary"}
  <2>1. m = 1 \/ m = 2 \/ m = 3 \/ m = 4
    OBVIOUS
  <2> QED BY <2>1
<1> QED BY <1>1, <1>2, <1>3

\* ServesIsAccepted, for every request: on the adapters the repository has, the
\* API's test is what compile() and validate() amount to.
THEOREM ServesIsAcceptance ==
  ASSUME ADAPTERS = Catalogue
  PROVE  Spec => []ServesIsAccepted
<1>1. FalTypeOK => ServesIsAccepted
  <2> SUFFICES ASSUME FalTypeOK PROVE ServesIsAccepted
    OBVIOUS
  <2> DEFINE a == ADAPTERS[model]
             style == Styles[model]
             cast == shot.entities
             images == Images(style, cast)
  <2>1. cast \in Seq(Portrait) /\ model \in 1..9
    BY FalAssumption, CatalogueStyles DEF FalAssumption, FalTypeOK, Shot
  <2>2. Len(cast) \in Nat /\ DOMAIN cast = 1..Len(cast)
    BY <2>1
  <2>3. a \in Adapter
    BY AdaptersAssumption DEF AdaptersAssumption, FalTypeOK, Models
  <2>4. CASE model \in 5..9
    <3>1. a.needsAsset /\ style.lists = "every_image"
      BY <2>4, CatalogueStyles
    <3>2. images = FlattenSeq([k \in DOMAIN cast |-> OwnImages(cast, k)])
      BY <3>1 DEF Images
    <3>3. Len(images) = ImageCount(cast)
      BY <2>1, <3>2, EveryImageListed
    <3> QED BY <2>2, <2>3, <3>1, <3>3
            DEF ServesIsAccepted, Serves, Accepted, CompileRefuses, ValidateRefuses, Adapter
  <2>5. CASE model \in 1..4
    <3>1. /\ ~a.needsAsset /\ a.minEntities = 0
          /\ a.maxImages = Unchecked /\ a.maxEntities < Unchecked
          /\ style.lists \in {"canonical", "primary"}
      BY <2>5, CatalogueStyles
    <3>2. Len(images) \in {0, 1, Len(cast)}
      <4>1. CASE style.lists = "canonical"
        <5>1. images = [k \in 1..Len(cast) |-> <<k, 0>>]
          BY <2>2, <4>1 DEF Images
        <5>2. Len([k \in 1..Len(cast) |-> <<k, 0>>]) = Len(cast)
          BY <2>2
        <5> QED BY <5>1, <5>2, Zenon
      <4>2. CASE style.lists = "primary"
        <5>1. images = IF cast = << >> THEN << >> ELSE << <<1, 0>> >>
          BY <4>2 DEF Images
        <5>2. Len(<< >>) = 0 /\ Len(<< <<1, 0>> >>) = 1
          OBVIOUS
        <5> QED BY <5>1, <5>2, Zenon
      <4> QED BY <3>1, <4>1, <4>2
    <3>3. a.maxEntities \in Nat
      BY <2>3 DEF Adapter
    <3>4. Len(cast) \in a.minEntities .. a.maxEntities
            <=> ~(Len(cast) > a.maxEntities \/ Len(images) > a.maxImages)
      <4> HIDE DEF a, cast, images
      <4>1. \A n, most, i \in Nat : most < Unchecked /\ (i = 0 \/ i = 1 \/ i = n) =>
              (n \in 0..most <=> ~(n > most \/ i > Unchecked))
        BY DEF Unchecked
      <4>2. 0 \in Nat /\ 1 \in Nat
        OBVIOUS
      <4>3. Len(images) \in Nat /\ (Len(images) = 0 \/ Len(images) = 1 \/ Len(images) = Len(cast))
        BY <2>2, <3>2, <4>2, Zenon
      <4> QED BY <2>2, <3>1, <3>3, <4>1, <4>3, Zenon
    <3>5. Serves(a, cast, shot.halves) <=> Len(cast) \in a.minEntities .. a.maxEntities
      BY <3>1, Zenon DEF Serves
    <3>6. Accepted(model, shot) <=> ~(Len(cast) > a.maxEntities \/ Len(images) > a.maxImages)
      BY <3>1, Zenon DEF Accepted, CompileRefuses, ValidateRefuses
    <3> QED BY <3>4, <3>5, <3>6, Zenon DEF ServesIsAccepted
  <2> QED BY <2>1, <2>4, <2>5
<1> QED
  BY <1>1, FalTypeCorrect, PTL

LEMMA OneImageEach ==
  ASSUME NEW entities \in Seq(Portrait), \A k \in DOMAIN entities : entities[k].additional = 0
  PROVE  ImageCount(entities) = Len(entities)
<1> DEFINE n == Len(entities)
<1>1. n \in Nat /\ \A k \in 1..n : entities[k].additional = 0
  OBVIOUS
<1>2. PICK f : CountUpTo(f, entities, n) /\ ImageCount(entities) = f[n]
  BY <1>1, ImageCountIs
<1>3. f[0] = 0 /\ \A i \in 1..n : f[i] = f[i - 1] + 1 + entities[i].additional
  BY <1>1, <1>2, CountMeans
<1> HIDE DEF n
<1> DEFINE S == {i \in Nat : i <= n => f[i] = i}
<1>4. 0 \in S
  BY <1>3
<1>5. ASSUME NEW i \in Nat, i \in S PROVE i + 1 \in S
  <2> SUFFICES ASSUME i + 1 <= n PROVE f[i + 1] = i + 1
    OBVIOUS
  <2>1. i + 1 \in 1..n /\ (i + 1) - 1 = i /\ f[i] = i
    BY <1>1, <1>5
  <2> QED BY <1>1, <1>3, <2>1
<1> HIDE DEF S
<1>6. Nat \subseteq S
  BY <1>4, <1>5, Induction
<1> QED BY <1>1, <1>2, <1>6 DEF S, n

\* EveryImageTagged, as long as no entity brings additional images: the images
\* that Untagged shows to be left out of the prompt are always additional ones.
THEOREM PlainImagesTagged ==
  ASSUME \A s \in Shots : \A k \in DOMAIN s.entities : s.entities[k].additional = 0
  PROVE  Spec => []EveryImageTagged
<1>1. FalTypeOK => EveryImageTagged
  <2> SUFFICES ASSUME FalTypeOK, Styles[model].tags # "nothing"
               PROVE  Tags(Styles[model], shot.entities) = DOMAIN Images(Styles[model], shot.entities)
    BY DEF EveryImageTagged
  <2> DEFINE style == Styles[model]
             cast == shot.entities
             images == Images(style, cast)
  <2>1. cast \in Seq(Portrait) /\ model \in 1..9
    BY FalAssumption, CatalogueStyles DEF FalAssumption, FalTypeOK, Shot
  <2>2. style.tags \in {"elements", "entities", "images"}
        /\ (style.tags = "entities" => style.lists = "every_image")
    <3>1. \/ model = 1 \/ model = 2 \/ model = 3 \/ model = 4 \/ model = 5
          \/ model = 6 \/ model = 7 \/ model = 8 \/ model = 9
      BY <2>1
    <3> QED BY <3>1 DEF Styles, StubStyle, PikaStyle, ElementsStyle, FlatStyle, XaiStyle, GeminiStyle
  <2>3. CASE style.tags \in {"elements", "images"}
    BY <2>3 DEF Tags
  <2>4. CASE style.tags = "entities"
    <3>1. images = FlattenSeq([k \in DOMAIN cast |-> OwnImages(cast, k)])
      BY <2>2, <2>4 DEF Images
    <3>2. images \in Seq(Int \X Int) /\ Len(images) = ImageCount(cast)
      BY <2>1, <3>1, EveryImageListed
    <3>3. ImageCount(cast) = Len(cast)
      BY <2>1, OneImageEach DEF FalTypeOK
    <3>4. DOMAIN images = 1..Len(images) /\ DOMAIN cast = 1..Len(cast)
      <4> HIDE DEF images, cast
      <4> QED BY <2>1, <3>2
    <3>5. Tags(style, cast) = DOMAIN cast
      BY <2>4 DEF Tags
    <3> QED BY <3>2, <3>3, <3>4, <3>5, Zenon
  <2> QED BY <2>2, <2>3, <2>4
<1> QED
  BY <1>1, FalTypeCorrect, PTL
=============================================================================
