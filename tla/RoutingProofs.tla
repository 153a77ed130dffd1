---------------------------- MODULE RoutingProofs ----------------------------
(***************************************************************************)
(* Theorems about what the brand's memory learns, as long as no two         *)
(* requests rewrite one record at a time and the operator retires no        *)
(* entity: the scores are what the journaled verdicts add up to, and so a   *)
(* model that failed twice is not chosen while another has not been tried.  *)
(***************************************************************************)
EXTENDS ApartProofs, WellFoundedInduction

-----------------------------------------------------------------------------
(* Replaying a journal.                                                    *)

LEMMA LeastNatural ==
  ASSUME NEW T \in SUBSET Nat, T # {}
  PROVE  \E n \in T : \A k \in T : n <= k
<1> DEFINE R == {ss \in Nat \X Nat : ss[1] < ss[2]}
<1>1. IsWellFoundedOn(R, Nat)
  BY NatLessThanWellFounded, Zenon DEF OpToRel
<1>2. PICK x \in T : \A y \in T : ~(<<y, x>> \in R)
  <2> HIDE DEF R
  <2> QED BY <1>1, WFMin, Zenon
<1>3. \A y \in T : ~(y < x)
  BY <1>2
<1> QED BY <1>3

\* Induction, with the set of the numbers that have the property as its datum.
LEMMA Induction ==
  ASSUME NEW S, 0 \in S, \A n \in Nat : n \in S => n + 1 \in S
  PROVE  Nat \subseteq S
<1> SUFFICES ASSUME Nat \ S # {} PROVE FALSE
  OBVIOUS
<1>1. PICK n \in Nat \ S : \A k \in Nat \ S : n <= k
  BY LeastNatural, Zenon
<1>2. n # 0
  OBVIOUS
<1>3. n - 1 \in S
  BY <1>1, <1>2
<1> QED BY <1>2, <1>3

\* One step of a replay.
Counting(s, e, n, m) == IF IsVerdict(e, n, m) THEN Learn(s, e.ok) ELSE s

\* f holds the scores after each of the first k events.
ScoresUpTo(f, events, k, n, m) ==
  f = [i \in 0..k |-> IF i = 0 THEN Scale \div 2
                      ELSE IF IsVerdict(events[i], n, m) THEN Learn(f[i - 1], events[i].ok)
                      ELSE f[i - 1]]

LEMMA ScoresStart ==
  \A f, events, n, m : \A k \in Nat :
    ScoresUpTo(f, events, k, n, m) =>
      /\ f[0] = Scale \div 2
      /\ \A i \in 1..k : f[i] = Counting(f[i - 1], events[i], n, m)
<1> SUFFICES ASSUME NEW f, NEW events, NEW n, NEW m, NEW k \in Nat,
                    ScoresUpTo(f, events, k, n, m)
             PROVE  /\ f[0] = Scale \div 2
                    /\ \A i \in 1..k : f[i] = Counting(f[i - 1], events[i], n, m)
  OBVIOUS
<1>1. \A i \in 0..k : f[i] = IF i = 0 THEN Scale \div 2
                      ELSE IF IsVerdict(events[i], n, m) THEN Learn(f[i - 1], events[i].ok)
                      ELSE f[i - 1]
  BY Zenon DEF ScoresUpTo
<1>2. 0 \in 0..k /\ \A i \in 1..k : i \in 0..k /\ i # 0
  OBVIOUS
<1>3. f[0] = Scale \div 2
  BY <1>1, <1>2, Zenon
<1>4. \A i \in 1..k : f[i] = Counting(f[i - 1], events[i], n, m)
  BY <1>1, <1>2, Zenon DEF Counting
<1> QED BY <1>3, <1>4

LEMMA ScoresExist ==
  ASSUME NEW events, NEW n, NEW m, NEW k \in Nat
  PROVE  \E f : ScoresUpTo(f, events, k, n, m)
<1> DEFINE S == {j \in Nat : \E f : ScoresUpTo(f, events, j, n, m)}
<1>1. 0 \in S
  <2> DEFINE f == [i \in 0..0 |-> Scale \div 2]
  <2>1. \A i \in 0..0 : i = 0
    OBVIOUS
  <2>2. ScoresUpTo(f, events, 0, n, m)
    BY <2>1 DEF ScoresUpTo
  <2> QED BY <2>2
<1>2. ASSUME NEW j \in Nat, j \in S PROVE j + 1 \in S
  <2>1. PICK f : ScoresUpTo(f, events, j, n, m)
    BY <1>2
  <2> DEFINE next == Counting(f[j], events[j + 1], n, m)
             g == [i \in 0..(j + 1) |-> IF i <= j THEN f[i] ELSE next]
  <2>2. f[0] = Scale \div 2 /\ \A i \in 1..j : f[i] = Counting(f[i - 1], events[i], n, m)
    BY <2>1, ScoresStart
  <2>3. ASSUME NEW i \in 0..(j + 1)
        PROVE  g[i] = IF i = 0 THEN Scale \div 2 ELSE Counting(g[i - 1], events[i], n, m)
    <3>1. CASE i = 0
      BY <2>2, <3>1
    <3>2. CASE i \in 1..j
      <4>1. g[i] = f[i] /\ g[i - 1] = f[i - 1]
        BY <3>2
      <4> QED BY <2>2, <3>2, <4>1
    <3>3. CASE i = j + 1
      <4>1. g[i] = next /\ g[i - 1] = f[j]
        BY <3>3
      <4> QED BY <3>3, <4>1
    <3> QED BY <3>1, <3>2, <3>3
  <2>4. g = [i \in 0..(j + 1) |-> g[i]]
    OBVIOUS
  <2> HIDE DEF g
  <2>5. ScoresUpTo(g, events, j + 1, n, m)
    BY <2>3, <2>4, Zenon DEF ScoresUpTo, Counting
  <2> QED BY <2>5
<1> HIDE DEF S
<1>3. Nat \subseteq S
  BY <1>1, <1>2, Induction
<1> QED BY <1>3 DEF S

\* Events past the k-th do not bear on the first k scores.
LEMMA ScoresAgree ==
  ASSUME NEW f, NEW g, NEW d, NEW e, NEW n, NEW m, NEW j \in Nat, NEW k \in Nat, j <= k,
         ScoresUpTo(f, d, j, n, m), ScoresUpTo(g, e, k, n, m),
         \A i \in 1..j : d[i] = e[i]
  PROVE  f[j] = g[j]
<1>0. f[0] = Scale \div 2 /\ \A i \in 1..j : f[i] = Counting(f[i - 1], d[i], n, m)
  BY ScoresStart
<1>1. g[0] = Scale \div 2 /\ \A i \in 1..k : g[i] = Counting(g[i - 1], e[i], n, m)
  BY ScoresStart
<1> DEFINE S == {i \in Nat : i <= j => f[i] = g[i]}
<1>2. 0 \in S
  BY <1>0, <1>1
<1>3. ASSUME NEW i \in Nat, i \in S PROVE i + 1 \in S
  <2> SUFFICES ASSUME i + 1 <= j PROVE f[i + 1] = g[i + 1]
    OBVIOUS
  <2>1. i + 1 \in 1..j /\ i + 1 \in 1..k /\ (i + 1) - 1 = i
    OBVIOUS
  <2>2. f[i] = g[i] /\ d[i + 1] = e[i + 1]
    BY <1>3, <2>1
  <2> QED BY <1>0, <1>1, <2>1, <2>2
<1> HIDE DEF S
<1>4. Nat \subseteq S
  BY <1>2, <1>3, Induction
<1> QED BY <1>4 DEF S

LEMMA ReplayedIs ==
  ASSUME NEW events, Len(events) \in Nat, NEW n, NEW m
  PROVE  \E f : ScoresUpTo(f, events, Len(events), n, m)
                /\ Replayed(events, n, m) = f[Len(events)]
<1> DEFINE chosen == CHOOSE f : ScoresUpTo(f, events, Len(events), n, m)
<1>1. ScoresUpTo(chosen, events, Len(events), n, m)
  BY ScoresExist, Zenon
<1>2. Replayed(events, n, m) = chosen[Len(events)]
  BY Zenon DEF Replayed, ScoresUpTo
<1> QED BY <1>1, <1>2, Zenon

LEMMA ReplayedNothing ==
  ASSUME NEW n, NEW m
  PROVE  Replayed(<< >>, n, m) = Scale \div 2
  BY ReplayedIs, ScoresStart

LEMMA ReplayedMore ==
  ASSUME NEW events \in Seq(Event), NEW e \in Event, NEW n, NEW m
  PROVE  Replayed(Append(events, e), n, m) = Counting(Replayed(events, n, m), e, n, m)
<1> DEFINE more == Append(events, e)
           k == Len(events)
<1>1. k \in Nat /\ Len(more) = k + 1 /\ more[k + 1] = e
  OBVIOUS
<1>2. \A i \in 1..k : events[i] = more[i]
  OBVIOUS
<1>3. PICK f : ScoresUpTo(f, events, k, n, m) /\ Replayed(events, n, m) = f[k]
  BY <1>1, ReplayedIs
<1>4. PICK g : ScoresUpTo(g, more, k + 1, n, m) /\ Replayed(more, n, m) = g[k + 1]
  <2> HIDE DEF more
  <2> QED BY <1>1, ReplayedIs
<1> HIDE DEF more, k
<1>5. f[k] = g[k]
  <2>1. k + 1 \in Nat /\ k <= k + 1
    BY <1>1
  <2> QED BY <1>1, <1>2, <1>3, <1>4, <2>1, ScoresAgree, Zenon
<1>6. g[k + 1] = Counting(g[k], more[k + 1], n, m)
  <2>1. \A i \in 1..(k + 1) : g[i] = Counting(g[i - 1], more[i], n, m)
    BY <1>1, <1>4, ScoresStart
  <2>2. k + 1 \in 1..(k + 1) /\ (k + 1) - 1 = k
    BY <1>1
  <2> QED BY <2>1, <2>2
<1> QED BY <1>1, <1>3, <1>4, <1>5, <1>6 DEF more

-----------------------------------------------------------------------------
(* What one step does to the entities, the journal and the threads.        *)

LEMMA FaultsCount ==
  ASSUME TypeOK, [Next]_vars, faults' = 0
  PROVE  faults = 0 /\ ~Crash /\ \A r \in Requests : ~Fault(r)
<1>1. faults \in Nat
  BY ThreadsAssumption DEF ThreadsAssumption, TypeOK, ThreadsTypeOK
<1>2. ASSUME NEW r \in Requests, Proceed(r) \/ Arrive(r) PROVE faults' = faults
  BY <1>2 DEF Proceed, Arrive, KeyStep, IssueKeyCheck, IssueKeyStore, VerifyKey,
        BrandStep, SetPalette, CreateEntity, PayStep, ReadPolicy, VerifyPayment,
        SettlePayment, RecordCost, GenerateStep, LoadEntity, Route,
        CallModel, JournalGeneration, QaStep, QaPalette, QaEntity, JournalQa, QaLoad,
        QaStore, ReviewStep, ReviewLoad, ReviewStore, JournalReview, Reply
<1>3. Operator \/ UNCHANGED vars => faults' = faults
  BY DEF Operator, SetBudget, Retire, threads, vars
<1>4. Crash \/ (\E r \in Requests : Fault(r)) => faults' = faults + 1
  BY DEF Crash, Fault, Raise, SettlementLost
<1> QED BY <1>1, <1>2, <1>3, <1>4 DEF Next

LEMMA GotoKeeps ==
  ASSUME ThreadsTypeOK, NEW r \in Requests, NEW to, Goto(r, to)
  PROVE  /\ thread'[r].pc = to /\ thread'[r].call = thread[r].call
         /\ thread'[r].loaded = thread[r].loaded /\ thread'[r].model = thread[r].model
         /\ thread'[r].passed = thread[r].passed
  BY DEF ThreadsTypeOK, Thread, Goto, Become

LEMMA AnswerDrops ==
  ASSUME ThreadsTypeOK, NEW r \in Requests, NEW answer, Answer(r, answer)
  PROVE  /\ thread'[r].pc = "reply" /\ thread'[r].answer = answer
         /\ thread'[r].call = thread[r].call /\ thread'[r].loaded = << >>
<1>1. thread'[r] = [Idle EXCEPT !.pc = "reply", !.call = thread[r].call,
                                !.key = thread[r].key, !.answer = answer]
  BY DEF ThreadsTypeOK, Answer, Become
<1> QED BY <1>1 DEF Idle

LEMMA ConcludeDrops ==
  ASSUME ThreadsTypeOK, NEW r \in Requests, Conclude(r)
  PROVE  /\ thread'[r].pc \in {"record_cost", "reply"}
         /\ thread'[r].loaded \in {thread[r].loaded, << >>}
  BY GotoKeeps, AnswerDrops DEF Conclude

\* Once answered a request keeps its answer.
LEMMA AnswersStay ==
  ASSUME TypeOK, [Next]_vars, ~Crash, NEW q \in Requests, thread[q].pc \in {"reply", "done"}
  PROVE  /\ thread'[q].pc \in {"reply", "done"} /\ thread'[q].answer = thread[q].answer
         /\ thread'[q].call = thread[q].call
<1>1. CASE thread'[q] = thread[q]
  BY <1>1
<1>2. CASE thread'[q] # thread[q]
  <2>1. Reply(q)
    BY <1>2, Movers, NotHandlerSteps
       DEF Arrive, Proceed, Fault, KeyStep, IssueKeyCheck, IssueKeyStore, VerifyKey, BrandStep,
       SetPalette, CreateEntity, PayStep, ReadPolicy, VerifyPayment, SettlePayment, RecordCost,
       SettlementLost, GenerateStep, LoadEntity, Route, CallModel, JournalGeneration, QaStep,
       QaPalette, QaEntity, JournalQa, QaLoad, QaStore, ReviewStep, ReviewLoad, ReviewStore,
       JournalReview, Raise, InHandler
  <2> QED BY <2>1, GotoKeepsKey, GotoKeeps DEF Reply, TypeOK
<1> QED BY <1>1, <1>2

LEMMA JournalAppends ==
  ASSUME TypeOK, [Next]_vars
  PROVE  \/ journal' = journal
         \/ \E e \in Event : journal' = Append(journal, e)
<1>1. ASSUME NEW e, WriteEvent(e) PROVE \E d \in Event : journal' = Append(journal, d)
  <2>1. journal \in Seq(Event) /\ journal' \in Seq(Event) /\ journal' = Append(journal, e)
    BY <1>1, StepTyped DEF TypeOK, StoreTypeOK, WriteEvent
  <2>2. e = journal'[Len(journal) + 1] /\ Len(journal) + 1 \in DOMAIN journal'
    BY <2>1
  <2>3. e \in Event
    BY <2>1, <2>2
  <2> QED BY <2>1, <2>3
<1> QED BY <1>1, JournalMoves DEF JournalGeneration, JournalQa, RecordCost, JournalReview

\* A new entity.
LEMMA Creating ==
  ASSUME TypeOK, NEW r \in Requests, CreateEntity(r)
  PROVE  /\ thread[r].pc = "create_entity" /\ thread[r].call.name \in Names
         /\ entity'[thread[r].call.name] # None
         /\ entity'[thread[r].call.name].confidence = Unscored
         /\ \A n \in Names \ {thread[r].call.name} : entity'[n] = entity[n]
         /\ \A n \in Names : n = thread[r].call.name => Created(r, n)'
         /\ journal' = journal
<1> DEFINE c == thread[r].call
           body == [asset |-> c.asset, additional |-> c.additional,
                    status |-> "pending", confidence |-> Unscored]
<1>1. c \in AddCall
  BY AtStep DEF TypeOK, CreateEntity, HandlerSteps
<1>2. Unscored \in [Models -> 0..Scale]
  BY TenantStoreAssumption DEF TenantStoreAssumption, Unscored
<1>3. body \in EntityBody /\ c.name \in Names /\ c.op = "add"
  BY <1>1, <1>2 DEF AddCall, EntityBody, Statuses
<1>4. SetEntity(c.name, body) /\ journal' = journal /\ Answer(r, "ok")
      /\ thread[r].pc = "create_entity"
  BY DEF CreateEntity
<1>5. body.confidence = Unscored /\ body # None
  BY <1>3, TenantStoreAssumption DEF TenantStoreAssumption
<1> HIDE DEF body
<1>6. \A n \in Names : entity'[n] = IF n = c.name THEN body ELSE entity[n]
  BY <1>3, <1>4 DEF SetEntity, TypeOK, StoreTypeOK
<1>7. ASSUME NEW n \in Names, n = c.name PROVE Created(r, n)'
  BY <1>3, <1>4, <1>7, AnswerDrops DEF Created, TypeOK
<1> QED BY <1>3, <1>4, <1>5, <1>6, <1>7

\* A review leaves the scores alone, when the body in hand is up to date.
LEMMA StoringAReview ==
  ASSUME BodyInv, NEW r \in Requests, ReviewStore(r), NEW n \in Names
  PROVE  /\ thread[r].pc = "review_store" /\ journal' = journal
         /\ entity[n] = None <=> entity'[n] = None
         /\ entity[n] # None => entity'[n].confidence = entity[n].confidence
<1> DEFINE k == thread[r].call.name
           body == [thread[r].held EXCEPT !.status = Verdict(thread[r].call.approved)]
<1>1. thread[r].call \in ReviewCall /\ thread[r] \in Thread
  BY AtStep DEF BodyInv, TypeOK, ReviewStore, HandlerSteps
<1>2. k \in Names /\ Verdict(thread[r].call.approved) \in Statuses
  BY <1>1 DEF ReviewCall, Verdict, Statuses
<1>3. thread[r].pc = "review_store" /\ thread[r].held \in EntityBody /\ journal' = journal
  BY <1>1 DEF ReviewStore, BodyInv, TypeOK, ThreadsTypeOK, AtOwnStep, WriteBackSteps, Thread
<1>4. entity[k] = thread[r].held /\ entity[k] # None
  BY <1>3, TenantStoreAssumption DEF BodyInv, UpToDate, TenantStoreAssumption
<1>5. body \in EntityBody /\ body.confidence = entity[k].confidence
  BY <1>2, <1>3, <1>4 DEF EntityBody
<1>6. entity' = [entity EXCEPT ![k] = body]
  BY DEF ReviewStore, SetEntity
<1> HIDE DEF body
<1>7. entity'[n] = IF n = k THEN body ELSE entity[n]
  BY <1>2, <1>6 DEF BodyInv, TypeOK, StoreTypeOK
<1>8. body # None
  BY <1>5, TenantStoreAssumption DEF TenantStoreAssumption
<1> QED BY <1>3, <1>4, <1>5, <1>7, <1>8

\* A verdict moves one score by its own outcome.
LEMMA Learning ==
  ASSUME BodyInv, NEW r \in Requests, QaStore(r), NEW n \in Names
  PROVE  /\ thread[r].pc = "qa_store" /\ journal' = journal
         /\ entity[n] = None <=> entity'[n] = None
         /\ entity[n] # None => \A m \in Models :
              entity'[n].confidence[m] =
                IF n = Primary(r) /\ m = thread[r].model
                THEN Learn(entity[n].confidence[m], thread[r].passed)
                ELSE entity[n].confidence[m]
<1> DEFINE t == thread[r]
           k == Primary(r)
           score == Learn(t.held.confidence[t.model], t.passed)
           body == [t.held EXCEPT !.confidence[t.model] = score]
<1>1. t.call \in GenerateCall /\ t \in Thread /\ t.pc = "qa_store" /\ t.call.names # << >>
  BY AtStep DEF BodyInv, TypeOK, ThreadsTypeOK, AtOwnStep, QaSteps, QaStore, HandlerSteps
<1>2. k \in Names
  BY <1>1, PrimaryTyped
<1>3. t.held \in EntityBody
  BY <1>1 DEF BodyInv, TypeOK, ThreadsTypeOK, AtOwnStep, WriteBackSteps, Thread
<1>4. entity[k] = t.held /\ entity[k] # None
  BY <1>1, <1>3, TenantStoreAssumption DEF BodyInv, UpToDate, TenantStoreAssumption
<1>5. t.held.confidence \in [Models -> 0..Scale]
  BY <1>3 DEF EntityBody
<1>6. t.model \in Models => score \in 0..Scale
  BY <1>1, <1>5, LearnTyped DEF Thread
<1> HIDE DEF score
<1>7. /\ body \in EntityBody
      /\ \A m \in Models : body.confidence[m] =
           IF m = t.model THEN score ELSE t.held.confidence[m]
  BY <1>3, <1>5, <1>6 DEF EntityBody
<1>8. entity' = [entity EXCEPT ![k] = body] /\ journal' = journal
  BY DEF QaStore, SetEntity, score
<1> HIDE DEF body
<1>9. entity'[n] = IF n = k THEN body ELSE entity[n]
  BY <1>2, <1>8 DEF BodyInv, TypeOK, StoreTypeOK
<1>10. body # None
  BY <1>7, TenantStoreAssumption DEF TenantStoreAssumption
<1> QED BY <1>1, <1>4, <1>7, <1>8, <1>9, <1>10 DEF score

\* Nobody but the operator, who may not, makes an entity disappear.
LEMMA EntitiesStay ==
  ASSUME Retirable = {}, BodyInv, [Next]_vars, NEW n \in Names, entity[n] # None
  PROVE  entity'[n] # None
<1>1. ASSUME NEW r \in Requests, CreateEntity(r) PROVE entity'[n] # None
  BY <1>1, Creating DEF BodyInv
<1> QED BY <1>1, StoringAReview, Learning, EntityMoves

LEMMA EntitiesAppear ==
  ASSUME Retirable = {}, BodyInv, [Next]_vars, NEW n \in Names, entity[n] = None, entity'[n] # None
  PROVE  \E r \in Requests : Created(r, n)'
<1>1. ASSUME NEW r \in Requests, CreateEntity(r) PROVE Created(r, n)'
  BY <1>1, Creating DEF BodyInv
<1> QED BY <1>1, StoringAReview, Learning, EntityMoves

-----------------------------------------------------------------------------
(* Only entities that exist are judged.                                    *)

\* What the handler has loaded it forgets once a model is chosen.
Bare(r) == thread[r].pc # "load_entities" => thread[r].loaded = << >>

\* From the loading of the first entity on, there is one.
PastLoading == {"call_model", "journal_generation"} \cup QaSteps

Known(r) ==
  /\ thread[r].pc \in PastLoading \/ (thread[r].pc = "load_entities" /\ thread[r].loaded # << >>)
  /\ Primary(r) # None
  => entity[Primary(r)] # None

EverJudged(n) == \E i \in DOMAIN journal : journal[i].kind = "qa" /\ journal[i].name = n

LifeInv ==
  /\ BodyInv
  /\ \A r \in Requests : Bare(r) /\ Known(r)
  /\ \A n \in Names : EverJudged(n) => entity[n] # None
  /\ faults = 0 => \A n \in Names : entity[n] # None => \E r \in Requests : Created(r, n)

LEMMA LoadedKept ==
  ASSUME TypeOK, NEW q \in Requests, Proceed(q) \/ Fault(q), ~LoadEntity(q)
  PROVE  thread'[q].loaded \in {thread[q].loaded, << >>}
<1> USE AnswerDrops, GotoKeeps, ConcludeDrops DEF TypeOK
<1>0. thread[q] \in Thread
  BY DEF ThreadsTypeOK
<1>1. CASE IssueKeyCheck(q) \/ BrandStep(q) \/ PayStep(q) \/ Fault(q) \/ Reply(q)
  BY <1>1 DEF IssueKeyCheck, BrandStep, SetPalette, CreateEntity, PayStep, ReadPolicy,
     VerifyPayment, SettlePayment, RecordCost, Fault, Raise, SettlementLost, Reply
<1>2. CASE IssueKeyStore(q)
  BY <1>0, <1>2 DEF IssueKeyStore, Become, ThreadsTypeOK, Thread
<1>3. CASE VerifyKey(q)
  <2>1. ASSUME NEW to, Become(q, [thread[q] EXCEPT !.pc = to, !.key = None])
        PROVE  thread'[q].loaded = thread[q].loaded
    BY <1>0, <2>1 DEF Become, ThreadsTypeOK, Thread
  <2> QED BY <1>3, <2>1 DEF VerifyKey
<1>4. CASE Route(q)
  <2>1. ASSUME NEW m, Become(q, [thread[q] EXCEPT !.pc = "call_model", !.model = m,
                                                  !.loaded = << >>])
        PROVE  thread'[q].loaded = << >>
    BY <1>0, <2>1 DEF Become, ThreadsTypeOK, Thread
  <2> QED BY <1>4, <2>1 DEF Route
<1>5. CASE CallModel(q) \/ JournalGeneration(q) \/ JournalQa(q) \/ QaStore(q)
           \/ ReviewStore(q) \/ JournalReview(q)
  BY <1>5 DEF CallModel, JournalGeneration, JournalQa, QaStore, ReviewStore, JournalReview
<1>6. ASSUME NEW b, NEW to, Become(q, [thread[q] EXCEPT !.pc = to, !.passed = b])
      PROVE  thread'[q].loaded = thread[q].loaded
  BY <1>0, <1>6 DEF Become, ThreadsTypeOK, Thread
<1>7. CASE QaPalette(q) \/ QaEntity(q)
  BY <1>6, <1>7 DEF QaPalette, QaEntity
<1>8. ASSUME NEW body, NEW to, Become(q, [thread[q] EXCEPT !.pc = to, !.held = body])
      PROVE  thread'[q].loaded = thread[q].loaded
  BY <1>0, <1>8 DEF Become, ThreadsTypeOK, Thread
<1>9. CASE QaLoad(q)
  <2> DEFINE body == entity[Primary(q)]
  <2>1. Conclude(q) \/ Become(q, [thread[q] EXCEPT !.pc = "qa_store", !.held = body])
    BY <1>9 DEF QaLoad
  <2> HIDE DEF body
  <2> QED BY <1>8, <2>1
<1>10. CASE ReviewLoad(q)
  <2> DEFINE body == entity[thread[q].call.name]
  <2>1. \/ Answer(q, "not_found")
        \/ Become(q, [thread[q] EXCEPT !.pc = "review_store", !.held = body])
    BY <1>10 DEF ReviewLoad
  <2> HIDE DEF body
  <2> QED BY <1>8, <2>1
<1> QED BY <1>1, <1>2, <1>3, <1>4, <1>5, <1>7, <1>9, <1>10
        DEF Proceed, KeyStep, GenerateStep, QaStep, ReviewStep

\* Arriving, a thread has loaded nothing.
LEMMA ArriveLoadsNothing ==
  ASSUME TypeOK, NEW r \in Requests, Arrive(r)
  PROVE  thread'[r].loaded = << >>
<1>1. ASSUME NEW c, NEW k, NEW to,
             \/ Become(r, [Idle EXCEPT !.pc = to, !.call = c])
             \/ Become(r, [Idle EXCEPT !.pc = to, !.call = c, !.key = k])
      PROVE  thread'[r].loaded = << >>
  BY <1>1 DEF TypeOK, ThreadsTypeOK, Become, Idle
<1> QED BY <1>1 DEF Arrive

LEMMA BareStep ==
  ASSUME TypeOK, [Next]_vars, NEW q \in Requests, Bare(q)
  PROVE  Bare(q)'
<1>1. CASE thread'[q] = thread[q]
  BY <1>1 DEF Bare
<1>2. CASE Arrive(q)
  BY <1>2, ArriveLoadsNothing DEF Bare
<1>3. CASE Crash /\ thread'[q] # thread[q]
  <2>1. thread'[q] = [Idle EXCEPT !.pc = "done", !.call = thread[q].call, !.answer = "lost"]
    BY <1>3 DEF Crash
  <2> QED BY <2>1 DEF Idle, Bare
<1>4. CASE LoadEntity(q)
  <2>1. ASSUME NEW seq, Become(q, [thread[q] EXCEPT !.loaded = seq])
        PROVE  thread'[q].pc = thread[q].pc
    BY <2>1 DEF Become, TypeOK, ThreadsTypeOK, Thread
  <2> QED BY <1>4, <2>1, AnswerDrops DEF LoadEntity, Bare, TypeOK
<1>5. CASE Route(q)
  <2>1. ASSUME NEW m, Become(q, [thread[q] EXCEPT !.pc = "call_model", !.model = m,
                                                  !.loaded = << >>])
        PROVE  thread'[q].loaded = << >>
    BY <2>1 DEF Become, TypeOK, ThreadsTypeOK, Thread
  <2> QED BY <1>5, <2>1, AnswerDrops DEF Route, Bare, TypeOK
<1>6. CASE (Proceed(q) \/ Fault(q)) /\ ~LoadEntity(q) /\ ~Route(q)
  <2>1. thread'[q].loaded \in {thread[q].loaded, << >>}
    BY <1>6, LoadedKept
  <2>2. thread[q].pc = "load_entities" => Raise(q)
    BY <1>6, NotHandlerSteps
       DEF Proceed, Fault, KeyStep, IssueKeyCheck, IssueKeyStore, VerifyKey, BrandStep,
       SetPalette, CreateEntity, PayStep, ReadPolicy, VerifyPayment, SettlePayment, RecordCost,
       SettlementLost, GenerateStep, CallModel, JournalGeneration, QaStep,
       QaPalette, QaEntity, JournalQa, QaLoad, QaStore, ReviewStep, ReviewLoad, ReviewStore,
       JournalReview, Reply
  <2>3. Raise(q) => thread'[q].loaded = << >>
    BY AnswerDrops DEF Raise, TypeOK
  <2> QED BY <2>1, <2>2, <2>3 DEF Bare
<1> QED BY <1>1, <1>2, <1>3, <1>4, <1>5, <1>6, Movers

LEMMA Loads ==
  ASSUME TypeOK, NEW q \in Requests, LoadEntity(q), thread'[q].pc = "load_entities"
  PROVE  /\ entity' = entity /\ thread'[q].call = thread[q].call
         /\ thread[q].loaded = << >> => entity[Primary(q)] # None
<1> DEFINE names == thread[q].call.names
           body == entity[names[Len(thread[q].loaded) + 1]]
<1>1. ~Answer(q, "not_found")
  BY AnswerDrops DEF TypeOK
<1>2. body # None
  BY <1>1 DEF LoadEntity
<1>3. Len(thread[q].loaded) < Len(names) /\ entity' = entity /\ thread[q].pc = "load_entities"
  BY DEF LoadEntity, store
<1>4. names \in Seq(Names)
  BY <1>3, AtStep DEF TypeOK, HandlerSteps, GenerateCall
<1>5. ASSUME thread[q].loaded = << >> PROVE entity[Primary(q)] # None
  <2>1. names # << >> /\ Len(thread[q].loaded) + 1 = 1
    BY <1>3, <1>4, <1>5
  <2>2. Primary(q) = names[1]
    BY <2>1 DEF Primary
  <2> QED BY <1>2, <2>1, <2>2
<1>6. thread'[q].call = thread[q].call
  <2>1. ASSUME NEW seq, Become(q, [thread[q] EXCEPT !.loaded = seq])
        PROVE  thread'[q].call = thread[q].call
    BY <2>1 DEF Become, TypeOK, ThreadsTypeOK, Thread
  <2> QED BY <1>1, <2>1 DEF LoadEntity
<1> QED BY <1>3, <1>5, <1>6

LEMMA Routes ==
  ASSUME TypeOK, NEW q \in Requests, Route(q), thread'[q].pc = "call_model"
  PROVE  /\ entity' = entity /\ journal' = journal /\ thread'[q].call = thread[q].call
         /\ thread[q].pc = "load_entities"
         /\ thread'[q].model = ChosenModel(q) /\ ChosenModel(q) \in Models
         /\ Primary(q) # None => thread[q].loaded # << >>
<1>1. ~Answer(q, "error")
  BY AnswerDrops DEF TypeOK
<1> DEFINE m == ChosenModel(q)
<1>2. /\ m \in Models /\ UNCHANGED store
      /\ Len(thread[q].loaded) = Len(thread[q].call.names)
      /\ Become(q, [thread[q] EXCEPT !.pc = "call_model", !.model = m, !.loaded = << >>])
  BY <1>1 DEF Route
<1>3. thread[q].pc = "load_entities"
  BY DEF Route
<1> HIDE DEF m
<1>4. thread'[q].model = m /\ thread'[q].call = thread[q].call
  BY <1>2 DEF Become, TypeOK, ThreadsTypeOK, Thread
<1>5. thread[q].call.names \in Seq(Names)
  BY <1>3, AtStep DEF TypeOK, HandlerSteps, GenerateCall
<1>6. Primary(q) # None => thread[q].loaded # << >>
  BY <1>2, <1>5 DEF Primary
<1> QED BY <1>2, <1>3, <1>4, <1>6 DEF m, store

LEMMA OnlyRouteCalls ==
  ASSUME TypeOK, NEW q \in Requests, Proceed(q) \/ Fault(q), thread'[q].pc = "call_model"
  PROVE  Route(q)
<1>1. thread[q].pc = "load_entities"
  BY ProceedAdvances, NotHandlerSteps DEF Advances, Follows
<1>2. LoadEntity(q) \/ Route(q) \/ Raise(q)
  BY <1>1, NotHandlerSteps
     DEF Proceed, Fault, KeyStep, IssueKeyCheck, IssueKeyStore, VerifyKey, BrandStep,
     SetPalette, CreateEntity, PayStep, ReadPolicy, VerifyPayment, SettlePayment, RecordCost,
     SettlementLost, GenerateStep, CallModel, JournalGeneration, QaStep,
     QaPalette, QaEntity, JournalQa, QaLoad, QaStore, ReviewStep, ReviewLoad, ReviewStore,
     JournalReview, Reply
<1>3. ~Raise(q)
  BY AnswerDrops DEF Raise, TypeOK
<1>4. ASSUME LoadEntity(q) PROVE thread'[q].pc \in {"load_entities", "reply"}
  <2>1. ASSUME NEW seq, Become(q, [thread[q] EXCEPT !.loaded = seq])
        PROVE  thread'[q].pc = thread[q].pc
    BY <2>1 DEF Become, TypeOK, ThreadsTypeOK, Thread
  <2> QED BY <1>1, <1>4, <2>1, AnswerDrops DEF LoadEntity, TypeOK
<1> QED BY <1>2, <1>3, <1>4

LEMMA PrimaryPastLoading ==
  ASSUME TypeOK, NEW q \in Requests, thread[q].pc \in PastLoading \cup {"load_entities"}
  PROVE  Primary(q) \in Names \cup {None}
<1>1. thread[q].call \in GenerateCall
  BY AtStep DEF TypeOK, HandlerSteps, PastLoading, QaSteps
<1> QED BY <1>1, PrimaryTyped

LEMMA KnownStep ==
  ASSUME Retirable = {}, LifeInv, [Next]_vars, NEW q \in Requests
  PROVE  Known(q)'
<1> DEFINE loading == thread[q].pc = "load_entities" /\ thread[q].loaded # << >>
           past == thread[q].pc \in PastLoading
           loadingNext == thread'[q].pc = "load_entities" /\ thread'[q].loaded # << >>
           pastNext == thread'[q].pc \in PastLoading
<1>0. TypeOK /\ BodyInv /\ Bare(q) /\ Known(q)
  BY DEF LifeInv, BodyInv
<1>1. ASSUME past \/ loading, thread'[q].call = thread[q].call
      PROVE  Known(q)'
  <2>1. Primary(q)' = Primary(q)
    BY <1>1 DEF Primary
  <2>2. Primary(q) \in Names \cup {None}
    BY <1>0, <1>1, PrimaryPastLoading
  <2> QED BY <1>0, <1>1, <2>1, <2>2, EntitiesStay DEF Known
<1>2. SUFFICES ASSUME loadingNext \/ pastNext PROVE Known(q)'
  BY DEF Known
<1>3. CASE thread'[q] = thread[q]
  BY <1>1, <1>2, <1>3
<1>4. CASE Arrive(q)
  <2>1. thread'[q].pc \in {"set_palette", "verify_key"}
    BY <1>0, <1>4, ArriveBare
  <2> QED BY <1>2, <2>1 DEF PastLoading, QaSteps
<1>5. CASE Crash /\ thread'[q] # thread[q]
  BY <1>2, <1>5, CrashEnds DEF PastLoading, QaSteps
<1>6. CASE Proceed(q) \/ Fault(q)
  <2>1. Advances(q)
    BY <1>0, <1>6, ProceedAdvances
  <2>2. CASE thread'[q].pc \in PastLoading \ {"call_model"}
    <3>1. past /\ thread[q].pc # "idle"
      BY <2>1, <2>2, NotHandlerSteps DEF Advances, Follows, PastLoading, QaSteps
    <3> QED BY <1>1, <2>1, <3>1 DEF Advances
  <2>3. CASE thread'[q].pc = "call_model"
    <3>1. thread[q].pc = "load_entities"
      BY <2>1, <2>3, NotHandlerSteps DEF Advances, Follows
    <3>2. Route(q)
      BY <1>0, <1>6, <2>3, OnlyRouteCalls
    <3>3. /\ thread'[q].call = thread[q].call
          /\ Primary(q) # None => thread[q].loaded # << >>
      BY <1>0, <2>3, <3>2, Routes
    <3>4. Primary(q)' = Primary(q)
      BY <3>3 DEF Primary
    <3> QED BY <1>1, <3>1, <3>3, <3>4 DEF Known
  <2>4. CASE loadingNext
    <3>1. thread[q].pc \in {"verify_key", "settle_payment", "load_entities"}
      BY <2>1, <2>4, NotHandlerSteps DEF Advances, Follows
    <3>2. LoadEntity(q)
      <4>1. ASSUME ~LoadEntity(q) PROVE FALSE
        <5>1. thread[q].loaded # << >>
          BY <1>0, <1>6, <2>4, <4>1, LoadedKept
        <5>2. thread[q].pc = "load_entities"
          BY <1>0, <5>1 DEF Bare
        <5>3. Route(q) \/ Raise(q)
          BY <1>6, <4>1, <5>2, NotHandlerSteps
             DEF Proceed, Fault, KeyStep, IssueKeyCheck, IssueKeyStore, VerifyKey, BrandStep,
             SetPalette, CreateEntity, PayStep, ReadPolicy, VerifyPayment, SettlePayment, RecordCost,
             SettlementLost, GenerateStep, CallModel, JournalGeneration, QaStep,
             QaPalette, QaEntity, JournalQa, QaLoad, QaStore, ReviewStep, ReviewLoad, ReviewStore,
             JournalReview, Reply
        <5>4. ASSUME NEW m, Become(q, [thread[q] EXCEPT !.pc = "call_model", !.model = m,
                                                        !.loaded = << >>])
              PROVE  thread'[q].pc = "call_model"
          BY <1>0, <5>4 DEF Become, TypeOK, ThreadsTypeOK, Thread
        <5> QED BY <1>0, <2>4, <5>3, <5>4, AnswerDrops DEF Raise, Route, TypeOK
      <4> QED BY <4>1
    <3>3. /\ entity' = entity /\ thread'[q].call = thread[q].call
          /\ thread[q].loaded = << >> => entity[Primary(q)] # None
      BY <1>0, <2>4, <3>2, Loads
    <3>4. Primary(q)' = Primary(q)
      BY <3>3 DEF Primary
    <3>5. CASE thread[q].loaded = << >>
      BY <3>3, <3>4, <3>5 DEF Known
    <3>6. CASE thread[q].loaded # << >>
      <4>1. loading
        BY <3>2, <3>6 DEF LoadEntity
      <4> QED BY <1>1, <3>3, <4>1
    <3> QED BY <3>5, <3>6
  <2> QED BY <1>2, <2>2, <2>3, <2>4
<1> QED BY <1>0, <1>3, <1>4, <1>5, <1>6, Movers

LEMMA JudgedStep ==
  ASSUME Retirable = {}, LifeInv, [Next]_vars, NEW n \in Names, EverJudged(n)'
  PROVE  entity'[n] # None
<1>0. TypeOK /\ BodyInv
  BY DEF LifeInv, BodyInv
<1>1. PICK i \in DOMAIN journal' : journal'[i].kind = "qa" /\ journal'[i].name = n
  BY DEF EverJudged
<1>2. CASE i \in DOMAIN journal /\ journal'[i] = journal[i]
  <2>1. entity[n] # None
    BY <1>1, <1>2 DEF LifeInv, EverJudged
  <2> QED BY <1>0, <2>1, EntitiesStay
<1>3. CASE ~(i \in DOMAIN journal /\ journal'[i] = journal[i])
  <2>1. PICK r \in Requests : JournalQa(r) /\ journal'[i] = QaEvent(r)
    BY <1>0, <1>1, <1>3, NewEvent DEF GenerationEvent, CostEvent, ReviewEvent
  <2>2. thread[r].pc = "journal_qa" /\ Primary(r) = n
    BY <1>1, <2>1 DEF JournalQa, QaEvent
  <2>3. n # None
    BY TenantStoreAssumption DEF TenantStoreAssumption
  <2>4. entity[n] # None
    BY <2>2, <2>3 DEF LifeInv, Known, PastLoading, QaSteps
  <2> QED BY <1>0, <2>4, EntitiesStay
<1> QED BY <1>2, <1>3

LEMMA CreatedStays ==
  ASSUME TypeOK, [Next]_vars, ~Crash, NEW q \in Requests, NEW n, Created(q, n)
  PROVE  Created(q, n)'
  BY AnswersStay DEF Created

LEMMA CreatorStep ==
  ASSUME Retirable = {}, LifeInv, [Next]_vars, faults' = 0, NEW n \in Names, entity'[n] # None
  PROVE  \E r \in Requests : Created(r, n)'
<1>0. TypeOK /\ BodyInv
  BY DEF LifeInv, BodyInv
<1>1. faults = 0 /\ ~Crash
  BY <1>0, FaultsCount
<1>2. CASE entity[n] # None
  <2>1. PICK r \in Requests : Created(r, n)
    BY <1>1, <1>2 DEF LifeInv
  <2> QED BY <1>0, <1>1, <2>1, CreatedStays
<1>3. CASE entity[n] = None
  BY <1>0, <1>3, EntitiesAppear
<1> QED BY <1>2, <1>3

LEMMA LifeStep ==
  ASSUME Retirable = {}, LifeInv, [Next /\ Apart']_vars
  PROVE  LifeInv'
<1>0. [Next]_vars
  BY ApartStep DEF LifeInv, BodyInv
<1>1. BodyInv'
  BY BodyStep DEF LifeInv
<1>2. \A r \in Requests : Bare(r)' /\ Known(r)'
  BY <1>0, BareStep, KnownStep DEF LifeInv, BodyInv
<1>3. \A n \in Names : EverJudged(n)' => entity'[n] # None
  BY <1>0, JudgedStep
<1>4. faults' = 0 => \A n \in Names : entity'[n] # None => \E r \in Requests : Created(r, n)'
  BY <1>0, CreatorStep
<1> QED BY <1>1, <1>2, <1>3, <1>4 DEF LifeInv

-----------------------------------------------------------------------------
(* The scores are what the verdicts add up to.                             *)

\* A request whose verdict on model m for entity n is journaled and not learnt.
Unlearnt(r, n, m) ==
  thread[r].pc \in {"qa_load", "qa_store"} /\ Primary(r) = n /\ thread[r].model = m

Counted(n, m) ==
  /\ \A r \in Requests : Unlearnt(r, n, m) =>
       Replayed(journal, n, m) = Learn(entity[n].confidence[m], thread[r].passed)
  /\ (\A r \in Requests : ~Unlearnt(r, n, m)) =>
       Replayed(journal, n, m) = entity[n].confidence[m]

\* Before the first verdict a score is where every score starts.
Fresh(n, m) == Untried(n, m) => Replayed(journal, n, m) = Scale \div 2

CountInv ==
  /\ LifeInv
  /\ \A n \in Names, m \in Models :
       /\ Fresh(n, m)
       /\ faults = 0 /\ entity[n] # None /\ CreatedOnce(n) => Counted(n, m)

\* What a step of the journal does to the verdicts and to their replay.
LEMMA VerdictsGrow ==
  ASSUME journal \in Seq(Event), NEW e \in Event, journal' = Append(journal, e), NEW n, NEW m
  PROVE  /\ VerdictsOf(n, m)' = IF IsVerdict(e, n, m)
                                THEN VerdictsOf(n, m) \cup {Len(journal) + 1}
                                ELSE VerdictsOf(n, m)
         /\ \A i \in VerdictsOf(n, m) : journal'[i] = journal[i]
         /\ journal'[Len(journal) + 1] = e
         /\ Len(journal) + 1 \notin VerdictsOf(n, m)
<1>1. /\ DOMAIN journal' = DOMAIN journal \cup {Len(journal) + 1}
      /\ \A i \in DOMAIN journal : journal'[i] = journal[i]
      /\ journal'[Len(journal) + 1] = e
      /\ Len(journal) + 1 \notin DOMAIN journal
  OBVIOUS
<1> QED BY <1>1 DEF VerdictsOf

LEMMA FreshStep ==
  ASSUME TypeOK, [Next]_vars, NEW n, NEW m, Fresh(n, m)
  PROVE  Fresh(n, m)'
<1>1. CASE journal' = journal
  BY <1>1 DEF Fresh, Untried, VerdictsOf
<1>2. ASSUME NEW e \in Event, journal' = Append(journal, e) PROVE Fresh(n, m)'
  <2>1. journal \in Seq(Event)
    BY DEF TypeOK, StoreTypeOK
  <2>2. CASE IsVerdict(e, n, m)
    BY <1>2, <2>1, <2>2, VerdictsGrow DEF Fresh, Untried
  <2>3. CASE ~IsVerdict(e, n, m)
    <3>1. Replayed(journal', n, m) = Replayed(journal, n, m)
      BY <1>2, <2>1, <2>3, ReplayedMore DEF Counting
    <3>2. VerdictsOf(n, m)' = VerdictsOf(n, m)
      BY <1>2, <2>1, <2>3, VerdictsGrow
    <3> QED BY <3>1, <3>2 DEF Fresh, Untried
  <2> QED BY <2>2, <2>3
<1> QED BY <1>1, <1>2, JournalAppends

\* A verdict that is not learnt is about an entity its request is rewriting.
LEMMA UnlearntRewrites ==
  ASSUME NEW r \in Requests, NEW n, NEW m, Unlearnt(r, n, m)
  PROVE  n \in Rewrites(r)
  BY DEF Unlearnt, Rewrites

LEMMA OthersWait ==
  ASSUME TypeOK, NEW q \in Requests, Arrive(q) \/ Proceed(q),
         NEW r \in Requests, r # q, NEW n, NEW m
  PROVE  thread'[r].passed = thread[r].passed /\ (Unlearnt(r, n, m)' <=> Unlearnt(r, n, m))
<1>1. thread'[r] = thread[r]
  BY ArriveAdvances, ProceedAdvances DEF Advances
<1> QED BY <1>1 DEF Unlearnt, Primary

\* Which entity, and which event, a request touches as it proceeds.
LEMMA ProceedTouches ==
  ASSUME NEW r \in Requests, Arrive(r) \/ Proceed(r)
  PROVE  /\ entity' = entity \/ CreateEntity(r) \/ ReviewStore(r) \/ QaStore(r)
         /\ \/ journal' = journal
            \/ JournalGeneration(r) \/ JournalQa(r) \/ RecordCost(r) \/ JournalReview(r)
<1>1. entity' = entity \/ CreateEntity(r) \/ ReviewStore(r) \/ QaStore(r)
  BY DEF Arrive, Proceed, KeyStep, IssueKeyCheck, IssueKeyStore, VerifyKey, BrandStep,
     SetPalette, PayStep, ReadPolicy, VerifyPayment, SettlePayment, RecordCost,
     GenerateStep, LoadEntity, Route, CallModel, JournalGeneration, QaStep, QaPalette, QaEntity,
     JournalQa, QaLoad, ReviewStep, ReviewLoad, JournalReview, Reply, store
<1>2. \/ journal' = journal
      \/ JournalGeneration(r) \/ JournalQa(r) \/ RecordCost(r) \/ JournalReview(r)
  BY DEF Arrive, Proceed, KeyStep, IssueKeyCheck, IssueKeyStore, VerifyKey,
     BrandStep, SetPalette, CreateEntity, PayStep, ReadPolicy, VerifyPayment,
     SettlePayment, GenerateStep, LoadEntity, Route, CallModel,
     QaStep, QaPalette, QaEntity, QaLoad, QaStore, ReviewStep, ReviewLoad, ReviewStore, Reply, store
<1> QED BY <1>1, <1>2

\* The events that are no verdicts leave every replay alone.
LEMMA ReplayUnmoved ==
  ASSUME TypeOK, [Next]_vars, NEW r \in Requests, NEW n, NEW m,
         \/ journal' = journal
         \/ JournalGeneration(r) \/ RecordCost(r) \/ JournalReview(r)
  PROVE  Replayed(journal', n, m) = Replayed(journal, n, m)
<1>1. CASE journal' = journal
  BY <1>1
<1>2. ASSUME NEW e, WriteEvent(e), e.kind # "qa"
      PROVE  Replayed(journal', n, m) = Replayed(journal, n, m)
  <2>1. journal \in Seq(Event) /\ journal' \in Seq(Event) /\ journal' = Append(journal, e)
    BY <1>2, StepTyped DEF TypeOK, StoreTypeOK, WriteEvent
  <2>2. e = journal'[Len(journal) + 1] /\ Len(journal) + 1 \in DOMAIN journal'
    BY <2>1
  <2>3. e \in Event
    BY <2>1, <2>2
  <2> QED BY <1>2, <2>1, <2>3, ReplayedMore DEF Counting, IsVerdict
<1>3. GenerationEvent(r).kind # "qa" /\ CostEvent(r).kind # "qa" /\ ReviewEvent(r).kind # "qa"
  BY DEF GenerationEvent, CostEvent, ReviewEvent
<1> QED BY <1>1, <1>2, <1>3 DEF JournalGeneration, RecordCost, JournalReview

LEMMA Judging ==
  ASSUME TypeOK, [Next]_vars, NEW r \in Requests, JournalQa(r), NEW n, NEW m
  PROVE  /\ thread[r].pc = "journal_qa" /\ thread'[r].pc = "qa_load" /\ entity' = entity
         /\ thread'[r].call = thread[r].call /\ thread'[r].model = thread[r].model
         /\ thread'[r].passed = thread[r].passed
         /\ Replayed(journal', n, m) =
              IF n = Primary(r) /\ m = thread[r].model
              THEN Learn(Replayed(journal, n, m), thread[r].passed)
              ELSE Replayed(journal, n, m)
<1>1. /\ thread[r].pc = "journal_qa" /\ entity' = entity
      /\ Goto(r, "qa_load") /\ WriteEvent(QaEvent(r))
  BY DEF JournalQa
<1> DEFINE e == QaEvent(r)
<1>2. e.kind = "qa" /\ e.name = Primary(r) /\ e.model = thread[r].model /\ e.ok = thread[r].passed
  BY Zenon DEF QaEvent
<1> HIDE DEF e
<1>3. journal \in Seq(Event) /\ journal' \in Seq(Event) /\ journal' = Append(journal, e)
  BY <1>1, StepTyped DEF TypeOK, StoreTypeOK, WriteEvent, e
<1>4. e = journal'[Len(journal) + 1] /\ Len(journal) + 1 \in DOMAIN journal'
  BY <1>3
<1>5. e \in Event
  BY <1>3, <1>4
<1>6. Replayed(journal', n, m) = Counting(Replayed(journal, n, m), e, n, m)
  BY <1>3, <1>5, ReplayedMore
<1>7. Replayed(journal', n, m) =
        IF n = Primary(r) /\ m = thread[r].model
        THEN Learn(Replayed(journal, n, m), thread[r].passed)
        ELSE Replayed(journal, n, m)
  BY <1>2, <1>6, Zenon DEF Counting, IsVerdict
<1> QED BY <1>1, <1>7, GotoKeeps DEF TypeOK

LEMMA Rereading ==
  ASSUME TypeOK, NEW q \in Requests, QaLoad(q)
  PROVE  /\ thread[q].pc = "qa_load" /\ entity' = entity /\ journal' = journal
         /\ entity[Primary(q)] = None => thread'[q].pc \in {"record_cost", "reply"}
         /\ entity[Primary(q)] # None =>
              /\ thread'[q].pc = "qa_store" /\ thread'[q].call = thread[q].call
              /\ thread'[q].model = thread[q].model /\ thread'[q].passed = thread[q].passed
<1> DEFINE body == entity[Primary(q)]
<1>1. /\ thread[q].pc = "qa_load" /\ UNCHANGED store
      /\ IF body = None THEN Conclude(q)
         ELSE Become(q, [thread[q] EXCEPT !.pc = "qa_store", !.held = body])
  BY DEF QaLoad
<1>2. thread[q] \in Thread
  BY DEF TypeOK, ThreadsTypeOK
<1>3. body = None => thread'[q].pc \in {"record_cost", "reply"}
  BY <1>1, ConcludeDrops DEF TypeOK
<1> HIDE DEF body
<1>4. body # None =>
              /\ thread'[q].pc = "qa_store" /\ thread'[q].call = thread[q].call
              /\ thread'[q].model = thread[q].model /\ thread'[q].passed = thread[q].passed
  <2>1. ASSUME NEW b, Become(q, [thread[q] EXCEPT !.pc = "qa_store", !.held = b])
        PROVE  /\ thread'[q].pc = "qa_store" /\ thread'[q].call = thread[q].call
               /\ thread'[q].model = thread[q].model /\ thread'[q].passed = thread[q].passed
    BY <1>2, <2>1 DEF Become, TypeOK, ThreadsTypeOK, Thread
  <2> QED BY <1>1, <2>1
<1> QED BY <1>1, <1>3, <1>4 DEF body, store

\* Nothing the count is about has moved.
LEMMA CountKept ==
  ASSUME NEW n, NEW m, Counted(n, m),
         \A r \in Requests : Unlearnt(r, n, m)' =>
           Unlearnt(r, n, m) /\ thread'[r].passed = thread[r].passed,
         \A r \in Requests : Unlearnt(r, n, m) => Unlearnt(r, n, m)',
         Replayed(journal', n, m) = Replayed(journal, n, m),
         entity'[n].confidence[m] = entity[n].confidence[m]
  PROVE  Counted(n, m)'
  BY DEF Counted

LEMMA CountedStep ==
  ASSUME Retirable = {}, CountInv, [Next]_vars, Apart', faults' = 0,
         NEW n \in Names, NEW m \in Models, entity'[n] # None, CreatedOnce(n)'
  PROVE  Counted(n, m)'
<1>0. /\ TypeOK /\ BodyInv /\ LifeInv /\ Apart
      /\ faults = 0 /\ ~Crash /\ (\A r \in Requests : ~Fault(r))
  BY FaultsCount DEF CountInv, LifeInv, BodyInv
<1>1. CreatedOnce(n)
  BY <1>0, CreatedStays DEF CreatedOnce
<1>2. entity[n] # None => Counted(n, m)
  BY <1>0, <1>1 DEF CountInv
<1>3. CASE Operator \/ UNCHANGED vars
  <2>1. UNCHANGED <<thread, entity, journal>>
    BY <1>3 DEF Operator, SetBudget, vars, threads, store
  <2> QED BY <1>2, <2>1 DEF Counted, Unlearnt, Primary
<1>4. ASSUME NEW q \in Requests, Arrive(q) \/ Proceed(q) PROVE Counted(n, m)'
  <2>1. \A r \in Requests \ {q} :
          thread'[r].passed = thread[r].passed /\ (Unlearnt(r, n, m)' <=> Unlearnt(r, n, m))
    BY <1>0, <1>4, OthersWait
  <2>2. CASE CreateEntity(q)
    <3>1. /\ thread[q].pc = "create_entity" /\ journal' = journal
          /\ entity'[thread[q].call.name].confidence = Unscored
          /\ \A k \in Names \ {thread[q].call.name} : entity'[k] = entity[k]
          /\ \A k \in Names : k = thread[q].call.name => Created(q, k)'
          /\ thread[q].call.name \in Names
      BY <1>0, <2>2, Creating
    <3>2. ~Unlearnt(q, n, m) /\ ~Unlearnt(q, n, m)'
      <4>1. thread'[q].pc = "reply"
        BY <1>0, <2>2, AnswerDrops DEF CreateEntity, TypeOK
      <4> QED BY <3>1, <4>1 DEF Unlearnt
    <3>3. CASE thread[q].call.name # n
      <4>1. entity'[n] = entity[n]
        BY <3>1, <3>3
      <4> QED BY <1>2, <2>1, <3>1, <3>2, <4>1, CountKept
    <3>4. CASE thread[q].call.name = n
      <4>1. ~EverJudged(n)
        <5> SUFFICES ASSUME EverJudged(n) PROVE FALSE
          OBVIOUS
        <5>1. PICK r \in Requests : Created(r, n)
          BY <1>0 DEF LifeInv
        <5>2. Created(r, n)' /\ Created(q, n)'
          BY <1>0, <3>1, <3>4, <5>1, CreatedStays
        <5>3. r = q
          BY <5>2 DEF CreatedOnce
        <5> QED BY <3>1, <5>1, <5>3 DEF Created
      <4>2. Replayed(journal, n, m) = Scale \div 2
        <5>1. Untried(n, m)
          BY <4>1 DEF Untried, VerdictsOf, IsVerdict, EverJudged
        <5> QED BY <5>1 DEF CountInv, Fresh
      <4>3. entity'[n].confidence[m] = Scale \div 2
        BY <3>1, <3>4 DEF Unscored
      <4>4. \A r \in Requests \ {q} : ~Unlearnt(r, n, m)
        <5>1. n \in Rewrites(q)
          BY <3>1, <3>4 DEF Rewrites
        <5> QED BY <1>0, <5>1, UnlearntRewrites DEF Apart
      <4> QED BY <2>1, <3>1, <3>2, <4>2, <4>3, <4>4 DEF Counted
    <3> QED BY <3>3, <3>4
  <2>3. CASE ReviewStore(q)
    <3>1. /\ thread[q].pc = "review_store" /\ journal' = journal /\ entity[n] # None
          /\ entity'[n].confidence = entity[n].confidence
      BY <1>0, <2>3, StoringAReview
    <3>2. thread'[q].pc = "journal_review"
      BY <1>0, <2>3, GotoKeeps DEF ReviewStore, TypeOK
    <3>3. ~Unlearnt(q, n, m) /\ ~Unlearnt(q, n, m)'
      BY <3>1, <3>2 DEF Unlearnt
    <3> QED BY <1>2, <2>1, <3>1, <3>3, CountKept
  <2>4. CASE QaStore(q)
    <3>1. /\ thread[q].pc = "qa_store" /\ journal' = journal /\ entity[n] # None
          /\ entity'[n].confidence[m] =
               IF n = Primary(q) /\ m = thread[q].model
               THEN Learn(entity[n].confidence[m], thread[q].passed)
               ELSE entity[n].confidence[m]
      BY <1>0, <2>4, Learning
    <3>2. thread'[q].pc \in {"record_cost", "reply"}
      BY <1>0, <2>4, ConcludeDrops DEF QaStore, TypeOK
    <3>3. ~Unlearnt(q, n, m)'
      BY <3>2 DEF Unlearnt
    <3>4. CASE n = Primary(q) /\ m = thread[q].model
      <4>1. Replayed(journal, n, m) = Learn(entity[n].confidence[m], thread[q].passed)
        BY <1>2, <3>1, <3>4 DEF Counted, Unlearnt
      <4>2. \A r \in Requests \ {q} : ~Unlearnt(r, n, m)
        <5>1. n \in Rewrites(q)
          BY <3>1, <3>4 DEF Rewrites
        <5> QED BY <1>0, <5>1, UnlearntRewrites DEF Apart
      <4> QED BY <2>1, <3>1, <3>3, <3>4, <4>1, <4>2 DEF Counted
    <3>5. CASE ~(n = Primary(q) /\ m = thread[q].model)
      <4>1. ~Unlearnt(q, n, m)
        BY <3>5 DEF Unlearnt
      <4> QED BY <1>2, <2>1, <3>1, <3>3, <3>5, <4>1, CountKept
    <3> QED BY <3>4, <3>5
  <2>5. CASE JournalQa(q)
    <3>1. /\ thread[q].pc = "journal_qa" /\ thread'[q].pc = "qa_load" /\ entity' = entity
          /\ thread'[q].call = thread[q].call /\ thread'[q].model = thread[q].model
          /\ thread'[q].passed = thread[q].passed
          /\ Replayed(journal', n, m) =
               IF n = Primary(q) /\ m = thread[q].model
               THEN Learn(Replayed(journal, n, m), thread[q].passed)
               ELSE Replayed(journal, n, m)
      BY <1>0, <2>5, Judging
    <3>2. ~Unlearnt(q, n, m)
      BY <3>1 DEF Unlearnt
    <3>3. Unlearnt(q, n, m)' <=> n = Primary(q) /\ m = thread[q].model
      BY <3>1 DEF Unlearnt, Primary
    <3>4. CASE n = Primary(q) /\ m = thread[q].model
      <4>1. \A r \in Requests \ {q} : ~Unlearnt(r, n, m)
        <5>1. \A r \in Requests \ {q} : ~Unlearnt(r, n, m)'
          <6>1. \A r \in Requests : Unlearnt(r, n, m)' => n \in Rewrites(r)'
            BY DEF Unlearnt, Rewrites
          <6> QED BY <3>3, <3>4, <6>1 DEF Apart
        <5> QED BY <2>1, <5>1
      <4>2. Replayed(journal, n, m) = entity[n].confidence[m]
        BY <1>2, <3>1, <3>2, <4>1 DEF Counted
      <4> QED BY <2>1, <3>1, <3>3, <3>4, <4>1, <4>2 DEF Counted
    <3>5. CASE ~(n = Primary(q) /\ m = thread[q].model)
      BY <1>2, <2>1, <3>1, <3>2, <3>3, <3>5, CountKept
    <3> QED BY <3>4, <3>5
  <2>6. CASE QaLoad(q)
    <3>1. /\ thread[q].pc = "qa_load" /\ entity' = entity /\ journal' = journal
          /\ entity[Primary(q)] = None => thread'[q].pc \in {"record_cost", "reply"}
          /\ entity[Primary(q)] # None =>
               /\ thread'[q].pc = "qa_store" /\ thread'[q].call = thread[q].call
               /\ thread'[q].model = thread[q].model /\ thread'[q].passed = thread[q].passed
      BY <1>0, <2>6, Rereading
    <3>2. CASE n = Primary(q)
      <4>1. entity[Primary(q)] # None
        BY <3>1, <3>2
      <4>2. Unlearnt(q, n, m)' <=> Unlearnt(q, n, m)
        BY <3>1, <4>1 DEF Unlearnt, Primary
      <4> QED BY <1>2, <2>1, <3>1, <3>2, <4>1, <4>2, CountKept
    <3>3. CASE n # Primary(q)
      <4>1. ~Unlearnt(q, n, m) /\ ~Unlearnt(q, n, m)'
        BY <3>1, <3>3 DEF Unlearnt, Primary
      <4> QED BY <1>2, <2>1, <3>1, <4>1, CountKept
    <3> QED BY <3>2, <3>3
  <2>7. CASE ~CreateEntity(q) /\ ~ReviewStore(q) /\ ~QaStore(q) /\ ~JournalQa(q) /\ ~QaLoad(q)
    <3>1. entity' = entity
      BY <1>4, <2>7, ProceedTouches
    <3>2. Replayed(journal', n, m) = Replayed(journal, n, m)
      BY <1>0, <1>4, <2>7, ProceedTouches, ReplayUnmoved
    <3>3. thread[q].pc \notin {"qa_load", "qa_store", "journal_qa"}
      BY <1>4, <2>7, NotHandlerSteps
         DEF Arrive, Proceed, KeyStep, IssueKeyCheck, IssueKeyStore, VerifyKey, BrandStep,
         SetPalette, PayStep, ReadPolicy, VerifyPayment, SettlePayment, RecordCost,
         GenerateStep, LoadEntity, Route, CallModel, JournalGeneration, QaStep, QaPalette,
         QaEntity, ReviewStep, ReviewLoad, JournalReview, Reply
    <3>4. thread'[q].pc \notin {"qa_load", "qa_store"}
      <4>1. Advances(q)
        BY <1>0, <1>4, ArriveAdvances, ProceedAdvances
      <4> QED BY <3>3, <4>1, NotHandlerSteps DEF Advances, Follows
    <3>5. ~Unlearnt(q, n, m) /\ ~Unlearnt(q, n, m)'
      BY <3>3, <3>4 DEF Unlearnt
    <3> QED BY <1>2, <2>1, <3>1, <3>2, <3>5, CountKept
  <2> QED BY <2>2, <2>3, <2>4, <2>5, <2>6, <2>7
<1> QED BY <1>0, <1>3, <1>4 DEF Next

LEMMA CountInit == Init => CountInv
<1> SUFFICES ASSUME Init PROVE CountInv
  OBVIOUS
<1>1. \A r \in Requests : thread[r] = Idle
  BY DEF Init, ThreadsInit
<1>2. BodyInv
  BY <1>1, InitTyped, ApartInit DEF BodyInv, FirstKey, UpToDate, Idle
<1>3. journal = << >> /\ \A n \in Names : entity[n] = None
  BY DEF Init, EmptyStore
<1>4. \A r \in Requests : Bare(r) /\ Known(r)
  BY <1>1 DEF Bare, Known, Idle, PastLoading, QaSteps
<1>5. LifeInv
  BY <1>2, <1>3, <1>4 DEF LifeInv, EverJudged
<1>6. \A n \in Names, m \in Models : Fresh(n, m)
  BY <1>3, ReplayedNothing DEF Fresh
<1> QED BY <1>3, <1>5, <1>6 DEF CountInv

LEMMA CountStep ==
  ASSUME Retirable = {}, CountInv, [Next /\ Apart']_vars
  PROVE  CountInv'
<1>0. [Next]_vars /\ Apart'
  BY ApartStep DEF CountInv, LifeInv, BodyInv
<1>1. LifeInv'
  BY LifeStep DEF CountInv
<1>2. \A n \in Names, m \in Models : Fresh(n, m)'
  BY <1>0, FreshStep DEF CountInv, LifeInv, BodyInv
<1>3. \A n \in Names, m \in Models :
        faults' = 0 /\ entity'[n] # None /\ CreatedOnce(n)' => Counted(n, m)'
  BY <1>0, CountedStep
<1> QED BY <1>1, <1>2, <1>3 DEF CountInv

\* OutcomesCounted, as long as no two requests rewrite one record at a time and
\* the operator retires no entity: without faults every journaled verdict, and
\* nothing else, is in the score.
THEOREM OutcomesAreCounted ==
  ASSUME Retirable = {}
  PROVE  ApartSpec => []OutcomesCounted
<1>1. CountInv /\ [Next /\ Apart']_vars => CountInv'
  BY CountStep
<1>2. CountInv => OutcomesCounted
  BY DEF CountInv, OutcomesCounted, Counted, Unlearnt, InFlight
<1> QED BY <1>1, <1>2, CountInit, PTL DEF ApartSpec

-----------------------------------------------------------------------------
(* A model that failed twice gives way.                                    *)

LEMMA Halves ==
  Scale \in Nat /\ Scale \div 2 \in 0..Scale
<1>1. Scale \in Nat
  BY TenantStoreAssumption DEF TenantStoreAssumption
<1> QED BY <1>1

\* A failed verdict takes three tenths off, rounded to the finer grain.
LEMMA FailureCosts ==
  ASSUME NEW s \in Nat
  PROVE  Learn(s, FALSE) = (7 * s) \div 10
<1>1. Learn(s, FALSE) = s + (3 * (0 - s)) \div 10
  BY DEF Learn
<1>2. s + (3 * (0 - s)) \div 10 = (7 * s) \div 10
  OBVIOUS
<1> QED BY <1>1, <1>2

\* What one failure leaves of a fresh score, and what two leave.
Once == (7 * (Scale \div 2)) \div 10
Twice == (7 * Once) \div 10

Sunk(n, m) ==
  /\ Replayed(journal, n, m) \in 0..Scale
  /\ ~Untried(n, m) /\ (\A i \in VerdictsOf(n, m) : ~journal[i].ok) =>
       Replayed(journal, n, m) <= Once
  /\ FailedTwice(n, m) => Replayed(journal, n, m) <= Twice

LEMMA SunkStep ==
  ASSUME TypeOK, [Next]_vars, NEW n, NEW m, Fresh(n, m), Sunk(n, m)
  PROVE  Sunk(n, m)'
<1>1. CASE journal' = journal
  BY <1>1 DEF Sunk, Untried, VerdictsOf, FailedTwice
<1>2. ASSUME NEW e \in Event, journal' = Append(journal, e) PROVE Sunk(n, m)'
  <2> DEFINE s == Replayed(journal, n, m)
             sNext == Replayed(journal', n, m)
             next == Len(journal) + 1
  <2>1. journal \in Seq(Event) /\ e.ok \in BOOLEAN
    BY DEF TypeOK, StoreTypeOK, Event
  <2>2. sNext = Counting(s, e, n, m)
    BY <1>2, <2>1, ReplayedMore
  <2>3. /\ VerdictsOf(n, m)' = IF IsVerdict(e, n, m) THEN VerdictsOf(n, m) \cup {next}
                               ELSE VerdictsOf(n, m)
        /\ \A i \in VerdictsOf(n, m) : journal'[i] = journal[i]
        /\ journal'[next] = e /\ next \notin VerdictsOf(n, m)
    BY <1>2, <2>1, VerdictsGrow
  <2> HIDE DEF s, sNext, next
  <2>4. CASE ~IsVerdict(e, n, m)
    <3>1. sNext = s /\ VerdictsOf(n, m)' = VerdictsOf(n, m)
      BY <2>2, <2>3, <2>4 DEF Counting
    <3> QED BY <2>3, <3>1 DEF Sunk, Untried, FailedTwice, s, sNext
  <2>5. CASE IsVerdict(e, n, m)
    <3>1. sNext = Learn(s, e.ok) /\ s \in 0..Scale
      BY <2>2, <2>5 DEF Counting, Sunk, s
    <3>2. sNext \in 0..Scale
      BY <2>1, <3>1, LearnTyped
    <3>3. VerdictsOf(n, m)' = VerdictsOf(n, m) \cup {next}
      BY <2>3, <2>5
    <3>4. CASE e.ok
      BY <2>3, <3>2, <3>3, <3>4 DEF Sunk, FailedTwice, sNext
    <3>5. CASE ~e.ok /\ \E i \in VerdictsOf(n, m) : journal[i].ok
      BY <2>3, <3>2, <3>3, <3>5 DEF Sunk, FailedTwice, sNext
    <3>6. CASE ~e.ok /\ \A i \in VerdictsOf(n, m) : ~journal[i].ok
      <4>1. sNext = (7 * s) \div 10
        <5>1. e.ok = FALSE
          BY <2>1, <3>6
        <5>2. s \in Nat
          BY <3>1, Halves
        <5>3. Learn(s, FALSE) = (7 * s) \div 10
          BY <5>2, FailureCosts
        <5> QED BY <3>1, <5>1, <5>3
      <4>2. CASE Untried(n, m)
        <5>1. s = Scale \div 2
          BY <4>2 DEF Fresh, s
        <5>2. ~FailedTwice(n, m)'
          BY <3>3, <4>2 DEF FailedTwice, Untried
        <5> QED BY <3>2, <4>1, <5>1, <5>2 DEF Sunk, Once, sNext
      <4>3. CASE ~Untried(n, m)
        <5>1. s <= (7 * (Scale \div 2)) \div 10
          BY <3>6, <4>3 DEF Sunk, Once, s
        <5>2. sNext <= Once /\ sNext <= Twice
          BY <3>1, <4>1, <5>1, Halves DEF Once, Twice
        <5> QED BY <3>2, <5>2 DEF Sunk, sNext
      <4> QED BY <4>2, <4>3
    <3> QED BY <2>1, <3>4, <3>5, <3>6
  <2> QED BY <2>4, <2>5
<1> QED BY <1>1, <1>2, JournalAppends

\* pick_model returns the highest of all scores: the threshold picks among the
\* models by the same order and leaves the best one in.
LEMMA PickedBest ==
  ASSUME NEW confidence \in [Models -> 0..Scale]
  PROVE  /\ pick_model(confidence) \in Models
         /\ \A m \in Models : confidence[pick_model(confidence)] >= confidence[m]
<1> DEFINE above == {m \in Models : confidence[m] >= Threshold}
           candidates == IF above = {} THEN Models ELSE above
           distances == {Scale - confidence[m] : m \in candidates}
           Best(m) == \A n \in candidates : \/ confidence[m] > confidence[n]
                                            \/ confidence[m] = confidence[n] /\ m <= n
<1>0. /\ candidates # {} /\ candidates \subseteq Models
      /\ Models \subseteq Nat /\ Scale \in Nat /\ Threshold \in Int
  BY AdaptersAssumption, Halves DEF AdaptersAssumption, Models, Threshold
<1>a. \A m \in Models : confidence[m] \in 0..Scale
  OBVIOUS
<1>b. \A m \in Models \ candidates : confidence[m] < Threshold
  BY <1>0, <1>a
<1>c. \A k \in Models \ candidates : \A m \in candidates : confidence[m] >= Threshold
  OBVIOUS
<1> HIDE DEF candidates
<1>1. distances \subseteq Nat /\ distances # {}
  <2>1. \A m \in candidates : Scale - confidence[m] \in Nat
    BY <1>0, <1>a
  <2> QED BY <1>0, <2>1
<1>2. PICK d \in distances : \A k \in distances : d <= k
  <2> HIDE DEF distances
  <2> QED BY <1>1, LeastNatural
<1> DEFINE ties == {m \in candidates : Scale - confidence[m] = d}
<1>3. ties \subseteq Nat /\ ties # {}
  BY <1>0, <1>2
<1>4. PICK b \in ties : \A k \in ties : b <= k
  <2> HIDE DEF ties
  <2> QED BY <1>3, LeastNatural
<1>5. b \in candidates /\ Best(b)
  <2>1. b \in candidates
    OBVIOUS
  <2>2. ASSUME NEW n \in candidates
        PROVE  \/ confidence[b] > confidence[n]
               \/ confidence[b] = confidence[n] /\ b <= n
    <3>1. Scale - confidence[n] \in distances
      OBVIOUS
    <3>2. Scale - confidence[b] <= Scale - confidence[n]
      BY <1>2, <3>1
    <3>3. confidence[b] \in 0..Scale /\ confidence[n] \in 0..Scale
      BY <1>0, <1>a, <2>1
    <3>4. confidence[b] > confidence[n] \/ confidence[b] = confidence[n]
      BY <1>0, <3>2, <3>3
    <3>5. confidence[b] = confidence[n] => n \in ties
      OBVIOUS
    <3> QED BY <1>4, <3>4, <3>5
  <2> QED BY <2>1, <2>2
<1>6. pick_model(confidence) = CHOOSE m \in candidates : Best(m)
  BY Zenon DEF pick_model, candidates
<1> DEFINE chosen == CHOOSE m \in candidates : Best(m)
<1>7. chosen \in candidates /\ Best(chosen)
  BY <1>5, Zenon
<1> HIDE DEF chosen
<1>8. ASSUME NEW m \in Models PROVE confidence[chosen] >= confidence[m]
  <2>1. confidence[chosen] \in 0..Scale /\ confidence[m] \in 0..Scale
    BY <1>0, <1>7, <1>a
  <2>2. CASE m \in candidates
    BY <1>0, <1>7, <2>1, <2>2
  <2>3. CASE m \notin candidates
    BY <1>0, <1>7, <1>b, <1>c, <2>1, <2>3
  <2> QED BY <2>2, <2>3
<1> HIDE DEF Best
<1> QED BY <1>0, <1>6, <1>7, <1>8 DEF chosen

\* What is about to be learnt has been journaled.
Tried(r, n, m) == Unlearnt(r, n, m) => ~Untried(n, m)

LEMMA TriedStep ==
  ASSUME TypeOK, [Next]_vars, NEW q \in Requests, NEW n, NEW m, Tried(q, n, m)
  PROVE  Tried(q, n, m)'
<1>1. ~Untried(n, m) => ~Untried(n, m)'
  BY JournalGrows DEF Untried, VerdictsOf
<1> SUFFICES ASSUME Unlearnt(q, n, m)' PROVE Unlearnt(q, n, m) \/ ~Untried(n, m)'
  BY <1>1 DEF Tried
<1>2. CASE thread'[q] = thread[q]
  BY <1>2 DEF Unlearnt, Primary
<1>3. CASE Arrive(q)
  BY <1>3, ArriveBare DEF Unlearnt
<1>4. CASE Crash /\ thread'[q] # thread[q]
  BY <1>4, CrashEnds DEF Unlearnt
<1>5. CASE Proceed(q) \/ Fault(q)
  <2>1. thread[q].pc \in {"journal_qa", "qa_load"}
    BY <1>5, ProceedAdvances, NotHandlerSteps DEF Advances, Follows, Unlearnt
  <2>2. JournalQa(q) \/ QaLoad(q) \/ Raise(q)
    BY <1>5, <2>1, NotHandlerSteps
       DEF Proceed, Fault, KeyStep, IssueKeyCheck, IssueKeyStore, VerifyKey, BrandStep,
       SetPalette, CreateEntity, PayStep, ReadPolicy, VerifyPayment, SettlePayment, RecordCost,
       SettlementLost, GenerateStep, LoadEntity, Route, CallModel, JournalGeneration, QaStep,
       QaPalette, QaEntity, QaStore, ReviewStep, ReviewLoad, ReviewStore, JournalReview, Reply
  <2>3. ~Raise(q)
    BY AnswerDrops DEF Raise, Unlearnt, TypeOK
  <2>4. CASE QaLoad(q)
    BY <2>4, Rereading DEF Unlearnt, Primary
  <2>5. CASE JournalQa(q)
    <3>1. n = Primary(q) /\ m = thread[q].model
      BY <2>5, Judging DEF Unlearnt, Primary
    <3> DEFINE e == QaEvent(q)
    <3>2. IsVerdict(e, n, m)
      BY <3>1, Zenon DEF QaEvent, IsVerdict
    <3> HIDE DEF e
    <3>3. journal' = Append(journal, e) /\ journal \in Seq(Event) /\ journal' \in Seq(Event)
      BY <2>5, StepTyped DEF JournalQa, WriteEvent, TypeOK, StoreTypeOK, e
    <3>4. Len(journal) + 1 \in DOMAIN journal' /\ journal'[Len(journal) + 1] = e
      BY <3>3
    <3>5. Len(journal) + 1 \in VerdictsOf(n, m)'
      BY <3>2, <3>4 DEF VerdictsOf
    <3> QED BY <3>5 DEF Untried
  <2> QED BY <2>2, <2>3, <2>4, <2>5
<1> QED BY <1>2, <1>3, <1>4, <1>5, Movers

AvoidInv ==
  /\ CountInv
  /\ \A n \in Names, m \in Models :
       Sunk(n, m) /\ \A r \in Requests : Tried(r, n, m)

\* What is on file is the journal's score, or that of before the last verdict.
LEMMA OnFile ==
  ASSUME CountInv, faults = 0, NEW n \in Names, entity[n] # None, CreatedOnce(n),
         NEW m \in Models
  PROVE  LET s == entity[n].confidence[m]
         IN  /\ s \in 0..Scale
             /\ \/ Replayed(journal, n, m) = s
                \/ /\ \E r \in Requests : Unlearnt(r, n, m)
                   /\ \E passed \in BOOLEAN : Replayed(journal, n, m) = Learn(s, passed)
<1> DEFINE s == entity[n].confidence[m]
<1>1. s \in 0..Scale
  <2>1. entity[n] \in EntityBody
    BY DEF CountInv, LifeInv, BodyInv, TypeOK, StoreTypeOK
  <2> QED BY <2>1 DEF EntityBody
<1>2. Counted(n, m)
  BY DEF CountInv
<1>3. ASSUME NEW r \in Requests, Unlearnt(r, n, m)
      PROVE  \E passed \in BOOLEAN : Replayed(journal, n, m) = Learn(s, passed)
  <2>1. thread[r].passed \in BOOLEAN
    BY DEF CountInv, LifeInv, BodyInv, TypeOK, ThreadsTypeOK, Thread
  <2>2. Replayed(journal, n, m) = Learn(s, thread[r].passed)
    BY <1>2, <1>3 DEF Counted
  <2> QED BY <2>1, <2>2
<1>4. (\A r \in Requests : ~Unlearnt(r, n, m)) => Replayed(journal, n, m) = s
  BY <1>2 DEF Counted
<1> QED BY <1>1, <1>3, <1>4

\* A score that the last verdict brings as low as two failures do was below a
\* fresh one.
LEMMA SunkBefore ==
  ASSUME Scale >= 4, NEW s \in 0..Scale, NEW passed \in BOOLEAN,
         s <= Twice \/ Learn(s, passed) <= Twice
  PROVE  s < Scale \div 2
<1>1. Scale \in Nat
  BY Halves
<1>2. PICK half \in Nat : half = Scale \div 2 /\ half >= 2
  BY <1>1
<1>3. Twice < half /\ Twice \in Nat /\ Once \in Nat /\ Once < half /\ Twice < Once
  BY <1>2 DEF Once, Twice
<1>4. CASE s <= Twice
  BY <1>2, <1>3, <1>4
<1>5. CASE Learn(s, passed) <= Twice /\ passed
  <2>1. Learn(s, passed) = s + (3 * (Scale - s)) \div 10
    BY <1>5 DEF Learn
  <2>2. PICK gain \in Nat : gain = (3 * (Scale - s)) \div 10
    BY <1>1
  <2>3. Learn(s, passed) <= Twice
    BY <1>5
  <2>4. s + gain <= Twice
    BY <2>1, <2>2, <2>3
  <2>5. s < half
    <3>1. s \in Nat
      BY <1>1
    <3> QED BY <1>2, <1>3, <2>2, <2>4, <3>1
  <2> QED BY <1>2, <2>5
<1>6. CASE Learn(s, passed) <= Twice /\ ~passed
  <2>1. Learn(s, passed) = (7 * s) \div 10
    <3>1. passed = FALSE /\ s \in Nat
      BY <1>1, <1>6
    <3> QED BY <3>1, FailureCosts
  <2>2. (7 * s) \div 10 < Once
    BY <1>3, <1>6, <2>1, <1>1
  <2>3. Once = (7 * half) \div 10
    BY <1>2 DEF Once
  <2> QED BY <1>1, <1>2, <2>2, <2>3
<1> QED BY <1>4, <1>5, <1>6

\* The router passes a model that failed twice over.
LEMMA RouteAvoids ==
  ASSUME Scale >= 4, AvoidInv, [Next]_vars, NEW q \in Requests,
         thread[q].pc = "load_entities", thread'[q].pc = "call_model",
         faults = 0, thread[q].call.override = None,
         Primary(q) # None, CreatedOnce(Primary(q)),
         \E m \in Models : Untried(Primary(q), m)
  PROVE  ~FailedTwice(Primary(q), thread'[q].model)
<1> DEFINE n == Primary(q)
           p == thread'[q].model
<1>0. TypeOK /\ CountInv /\ LifeInv
  BY DEF AvoidInv, CountInv, LifeInv, BodyInv
<1>1. Route(q)
  <2>1. Proceed(q) \/ Fault(q)
    BY <1>0, ArriveBare, CrashEnds, Movers
  <2> QED BY <1>0, <2>1, OnlyRouteCalls
<1>2. p = ChosenModel(q) /\ p \in Models /\ thread[q].loaded # << >>
  BY <1>0, <1>1, Routes
<1>3. n \in Names /\ entity[n] # None
  BY <1>0, <1>2, PrimaryPastLoading DEF LifeInv, Known
<1>4. p = pick_model(entity[n].confidence)
  BY <1>2, <1>3 DEF ChosenModel, Scores
<1>5. entity[n].confidence \in [Models -> 0..Scale]
  <2>1. entity[n] \in EntityBody
    BY <1>0, <1>3 DEF TypeOK, StoreTypeOK
  <2> QED BY <2>1 DEF EntityBody
<1>6. PICK m \in Models : Untried(n, m)
  OBVIOUS
<1> HIDE DEF n, p
<1>7. entity[n].confidence[m] = Scale \div 2
  <2>1. Replayed(journal, n, m) = Scale \div 2
    BY <1>0, <1>3, <1>6 DEF CountInv, Fresh
  <2>2. \A r \in Requests : ~Unlearnt(r, n, m)
    BY <1>3, <1>6 DEF AvoidInv, Tried
  <2>3. CreatedOnce(n)
    BY DEF n
  <2> QED BY <1>0, <1>3, <2>1, <2>2, <2>3, OnFile
<1>8. entity[n].confidence[p] >= Scale \div 2
  BY <1>4, <1>5, <1>6, <1>7, PickedBest
<1>9. ASSUME FailedTwice(n, p) PROVE FALSE
  <2> DEFINE s == entity[n].confidence[p]
  <2>1. Replayed(journal, n, p) <= Twice
    BY <1>2, <1>3, <1>9 DEF AvoidInv, Sunk
  <2>2. CreatedOnce(n)
    BY DEF n
  <2>3. s \in 0..Scale /\ \/ Replayed(journal, n, p) = s
                          \/ \E passed \in BOOLEAN : Replayed(journal, n, p) = Learn(s, passed)
    BY <1>0, <1>2, <1>3, <2>2, OnFile
  <2> HIDE DEF s
  <2>4. s < Scale \div 2
    BY <2>1, <2>3, SunkBefore
  <2> QED BY <1>8, <2>3, <2>4, Halves DEF s
<1> QED BY <1>9 DEF n, p

\* TwiceFailedIsAvoided, as long as no two requests rewrite one record at a time
\* and the operator retires no entity: without faults a request without an
\* override does not go to a model that failed twice while another is untried,
\* though other requests for the entity are being judged.
THEOREM TwiceFailedAvoided ==
  ASSUME Scale >= 4, Retirable = {}
  PROVE  ApartSpec => TwiceFailedIsAvoided
<1>1. Init => AvoidInv
  <2> SUFFICES ASSUME Init PROVE AvoidInv
    OBVIOUS
  <2>1. ASSUME NEW n \in Names, NEW m \in Models PROVE Sunk(n, m)
    <3>1. journal = << >> /\ Replayed(journal, n, m) = Scale \div 2
      BY ReplayedNothing DEF Init, EmptyStore
    <3>2. VerdictsOf(n, m) = {}
      BY <3>1 DEF VerdictsOf
    <3> QED BY <3>1, <3>2, Halves DEF Sunk, Untried, FailedTwice
  <2>2. \A r \in Requests, n \in Names, m \in Models : Tried(r, n, m)
    BY DEF Init, ThreadsInit, Idle, Tried, Unlearnt
  <2> QED BY <2>1, <2>2, CountInit DEF AvoidInv
<1>2. AvoidInv /\ [Next /\ Apart']_vars => AvoidInv'
  <2> SUFFICES ASSUME AvoidInv, [Next /\ Apart']_vars PROVE AvoidInv'
    OBVIOUS
  <2>1. /\ TypeOK /\ CountInv /\ [Next]_vars
        /\ \A n \in Names, m \in Models : Fresh(n, m) /\ Sunk(n, m)
    BY ApartStep DEF AvoidInv, CountInv, LifeInv, BodyInv
  <2>2. CountInv'
    BY <2>1, CountStep
  <2>3. \A n \in Names, m \in Models : Sunk(n, m)'
    BY <2>1, SunkStep
  <2>4. \A r \in Requests, n \in Names, m \in Models : Tried(r, n, m)'
    BY <2>1, TriedStep DEF AvoidInv
  <2> QED BY <2>2, <2>3, <2>4 DEF AvoidInv
<1>3. AvoidInv /\ [Next /\ Apart']_vars =>
        [\A r \in Requests :
           /\ thread[r].pc = "load_entities" /\ thread'[r].pc = "call_model"
           /\ faults = 0 /\ thread[r].call.override = None
           /\ Primary(r) # None /\ CreatedOnce(Primary(r))
           /\ \E m \in Models : Untried(Primary(r), m)
           => ~FailedTwice(Primary(r), thread'[r].model)]_vars
  BY RouteAvoids
<1> QED BY <1>1, <1>2, <1>3, PTL DEF ApartSpec, TwiceFailedIsAvoided
=============================================================================
