---------------------------- MODULE AuditProofs ----------------------------
(***************************************************************************)
(* Theorems about the audit trail of the API: that every generation in the *)
(* journal was paid for, and that the journal's events refer to each other *)
(* as they should.  Both are invariants of where the threads stand: what a *)
(* thread has paid and journaled follows from the step it is at.           *)
(***************************************************************************)
EXTENDS ApiProofs

-----------------------------------------------------------------------------
(* Payments. *)

Paid(r) ==
  /\ thread[r].call \in GenerateCall
  /\ thread[r].call.payment # None
  /\ settledBy[thread[r].call.payment] = r

AfterPayment ==
  {"load_entities", "call_model", "journal_generation", "record_cost"} \cup QaSteps

PaidThread(r) ==
  /\ thread[r].pc \in {"verify_payment", "settle_payment"} =>
       thread[r].call.payment # None
  /\ thread[r].pc \in AfterPayment => Paid(r)

PaidEvent(i) ==
  journal[i].kind = "generation" =>
    thread[journal[i].ref].pc # "idle" /\ Paid(journal[i].ref)

\* A thread past the settlement of a metered server has paid, and so has the
\* thread behind every generation of the journal.
PaidInv ==
  /\ TypeOK
  /\ Metered => /\ \A r \in Requests : PaidThread(r)
                /\ \A i \in DOMAIN journal : PaidEvent(i)

\* No step takes back what a request has paid: its call stays, and a payment
\* settles once.
LEMMA PaidStays ==
  ASSUME TypeOK, [Next]_vars, NEW q \in Requests, thread[q].pc # "idle", Paid(q)
  PROVE  Paid(q)'
<1> DEFINE p == thread[q].call.payment
<1>1. thread'[q].call = thread[q].call
  BY CallsStay
<1>2. p \in Payments
  BY DEF Paid, GenerateCall
<1>3. settledBy'[p] = q
  <2>1. q # None
    BY TenantStoreAssumption DEF TenantStoreAssumption
  <2>2. ASSUME NEW r \in Requests, settledBy[PaymentOf(r)] = None, Transfer(r)
        PROVE  settledBy'[p] = settledBy[p]
    BY <1>2, <2>1, <2>2 DEF Transfer, TypeOK, ThreadsTypeOK, Paid
  <2> QED BY <2>2, PaymentsMove DEF Paid
<1> QED BY <1>1, <1>3 DEF Paid

\* The step out of a settlement towards a generation is a settlement.
LEMMA SettlesAsItMoves ==
  ASSUME TypeOK, [Next]_vars, NEW q \in Requests, thread[q].pc = "settle_payment",
         thread'[q].pc = "load_entities", thread[q].call.payment # None
  PROVE  Paid(q)'
<1>1. thread'[q] # thread[q]
  BY DEF TypeOK
<1>2. thread[q].call \in GenerateCall /\ thread[q].call.payment \in Payments
  BY AtStep DEF TypeOK, HandlerSteps, GenerateCall
<1>3. Arrive(q) \/ Proceed(q) \/ Fault(q) \/ Crash
  BY <1>1, Movers
<1>4. ~Crash
  BY <1>1, CrashEnds
<1>5. SettlePayment(q) \/ SettlementLost(q) \/ Raise(q)
  BY <1>3, <1>4 DEF Proceed, Fault, Arrive, KeyStep, IssueKeyCheck, IssueKeyStore, VerifyKey,
       BrandStep, SetPalette, CreateEntity, PayStep, ReadPolicy, VerifyPayment,
       RecordCost, GenerateStep, LoadEntity, Route, CallModel, JournalGeneration,
       QaStep, QaPalette, QaEntity, JournalQa, QaLoad, QaStore,
       ReviewStep, ReviewLoad, ReviewStore, JournalReview, Reply
<1>6. ASSUME NEW answer, Answer(q, answer) PROVE FALSE
  <2>1. thread'[q] = [Idle EXCEPT !.pc = "reply", !.call = thread[q].call,
                                  !.key = thread[q].key, !.answer = answer]
    BY <1>6 DEF TypeOK, ThreadsTypeOK, Answer, Become
  <2> QED BY <2>1 DEF Idle
<1>7. Transfer(q)
  BY <1>5, <1>6 DEF SettlePayment, SettlementLost, Raise
<1>8. thread'[q].call = thread[q].call
  BY CallsStay
<1> QED BY <1>2, <1>7, <1>8 DEF Paid, Transfer, PaymentOf, TypeOK, ThreadsTypeOK

\* Nobody gets past the spending policy without a payment in hand.
LEMMA PolicyAsksForPayment ==
  ASSUME TypeOK, [Next]_vars, NEW q \in Requests, thread[q].pc = "read_policy",
         thread'[q].pc = "verify_payment"
  PROVE  thread[q].call.payment # None
<1>1. thread'[q] # thread[q]
  OBVIOUS
<1>3. Arrive(q) \/ Proceed(q) \/ Fault(q) \/ Crash
  BY <1>1, Movers
<1>4. ~Crash
  BY <1>1, CrashEnds
<1>5. ReadPolicy(q) \/ Raise(q)
  BY <1>3, <1>4 DEF Proceed, Fault, Arrive, KeyStep, IssueKeyCheck, IssueKeyStore, VerifyKey,
       BrandStep, SetPalette, CreateEntity, PayStep, VerifyPayment, SettlePayment, SettlementLost,
       RecordCost, GenerateStep, LoadEntity, Route, CallModel, JournalGeneration,
       QaStep, QaPalette, QaEntity, JournalQa, QaLoad, QaStore,
       ReviewStep, ReviewLoad, ReviewStore, JournalReview, Reply
<1>6. ASSUME NEW answer, Answer(q, answer) PROVE FALSE
  <2>1. thread'[q] = [Idle EXCEPT !.pc = "reply", !.call = thread[q].call,
                                  !.key = thread[q].key, !.answer = answer]
    BY <1>6 DEF TypeOK, ThreadsTypeOK, Answer, Become
  <2> QED BY <2>1 DEF Idle
<1> QED BY <1>5, <1>6 DEF ReadPolicy, Raise, PaymentOf

LEMMA EventTyped ==
  ASSUME NEW events \in Seq(Event), NEW i \in DOMAIN events
  PROVE  events[i].ref \in Requests
<1>1. events[i] \in Event
  OBVIOUS
<1> QED BY <1>1 DEF Event

\* What a step adds to the journal.
LEMMA NewEvent ==
  ASSUME TypeOK, [Next]_vars, NEW i \in DOMAIN journal',
         ~(i \in DOMAIN journal /\ journal'[i] = journal[i])
  PROVE  /\ i = Len(journal) + 1
         /\ \E r \in Requests :
              \/ JournalGeneration(r) /\ journal'[i] = GenerationEvent(r)
              \/ JournalQa(r) /\ journal'[i] = QaEvent(r)
              \/ RecordCost(r) /\ journal'[i] = CostEvent(r)
              \/ JournalReview(r) /\ journal'[i] = ReviewEvent(r)
<1>1. journal' # journal
  OBVIOUS
<1>2. journal \in Seq(Event)
  BY DEF TypeOK, StoreTypeOK
<1>3. ASSUME NEW e, WriteEvent(e) PROVE i = Len(journal) + 1 /\ journal'[i] = e
  BY <1>2, <1>3 DEF WriteEvent
<1>4. PICK r \in Requests : \/ JournalGeneration(r) \/ JournalQa(r)
                            \/ RecordCost(r) \/ JournalReview(r)
  BY <1>1, JournalMoves
<1> QED BY <1>3, <1>4 DEF JournalGeneration, JournalQa, RecordCost, JournalReview

LEMMA PaidInit ==
  ASSUME Init
  PROVE  PaidInv
<1>1. TypeOK
  BY InitTyped
<1>2. ASSUME NEW r \in Requests PROVE thread[r].pc = "idle"
  BY DEF Init, ThreadsInit, Idle
<1>3. DOMAIN journal = {}
  BY DEF Init, EmptyStore
<1> QED BY <1>1, <1>2, <1>3 DEF PaidInv, PaidThread, AfterPayment, QaSteps

LEMMA PaidStep ==
  ASSUME PaidInv, [Next]_vars
  PROVE  PaidInv'
<1>0. TypeOK /\ TypeOK'
  BY StepTyped DEF PaidInv
<1>1. ASSUME Metered, NEW q \in Requests PROVE PaidThread(q)'
  <2>1. ASSUME thread'[q].pc \in {"verify_payment", "settle_payment"},
               thread'[q] # thread[q]
        PROVE  thread'[q].call.payment # None
    <3>1. Advances(q)
      BY <1>0, <2>1, Moves
    <3>2. thread[q].pc \in {"read_policy", "verify_payment"}
      BY <2>1, <3>1, NotHandlerSteps DEF Advances, Follows
    <3>3. thread'[q].call = thread[q].call
      BY <1>0, <3>2, CallsStay
    <3>4. CASE thread[q].pc = "read_policy"
      <4>1. thread'[q].pc = "verify_payment"
        BY <2>1, <3>1, <3>4 DEF Advances, Follows
      <4> QED BY <1>0, <3>3, <3>4, <4>1, PolicyAsksForPayment
    <3> QED BY <1>1, <3>2, <3>3, <3>4 DEF PaidInv, PaidThread
  <2>2. ASSUME thread'[q].pc \in AfterPayment, thread[q].pc \in AfterPayment
        PROVE  Paid(q)'
    <3>1. thread[q].pc # "idle" /\ Paid(q)
      BY <1>1, <2>2 DEF PaidInv, PaidThread, AfterPayment, QaSteps
    <3> QED BY <1>0, <3>1, PaidStays
  <2>3. ASSUME thread'[q].pc \in AfterPayment, thread[q].pc \notin AfterPayment
        PROVE  Paid(q)'
    <3>1. Advances(q)
      BY <1>0, <2>3, Moves DEF AfterPayment, QaSteps
    <3>2. thread[q].pc = "settle_payment" /\ thread'[q].pc = "load_entities"
      BY <1>1, <2>3, <3>1 DEF Advances, Follows, AfterPayment, QaSteps
    <3> QED BY <1>0, <1>1, <3>2, SettlesAsItMoves DEF PaidInv, PaidThread
  <2>4. CASE thread'[q] = thread[q]
    BY <1>1, <2>2, <2>3, <2>4 DEF PaidInv, PaidThread
  <2> QED BY <2>1, <2>2, <2>3, <2>4 DEF PaidThread
<1>2. ASSUME Metered, NEW i \in DOMAIN journal', journal'[i].kind = "generation",
             NEW q \in Requests, journal'[i].ref = q
      PROVE  thread'[q].pc # "idle" /\ Paid(q)'
  <2>1. CASE i \in DOMAIN journal /\ journal'[i] = journal[i]
    <3>1. thread[q].pc # "idle" /\ Paid(q)
      BY <1>2, <2>1 DEF PaidInv, PaidEvent
    <3> QED BY <1>0, <3>1, CallsStay, PaidStays
  <2>2. CASE ~(i \in DOMAIN journal /\ journal'[i] = journal[i])
    <3>1. PICK r \in Requests :
            \/ JournalGeneration(r) /\ journal'[i] = GenerationEvent(r)
            \/ journal'[i] \in {QaEvent(r), CostEvent(r), ReviewEvent(r)}
      BY <1>0, <2>2, NewEvent
    <3>2. JournalGeneration(q)
      BY <1>2, <3>1 DEF GenerationEvent, QaEvent, CostEvent, ReviewEvent
    <3>3. thread[q].pc = "journal_generation" /\ Paid(q)
      BY <1>2, <3>2 DEF PaidInv, PaidThread, AfterPayment, JournalGeneration
    <3> QED BY <1>0, <3>3, CallsStay, PaidStays
  <2> QED BY <2>1, <2>2
<1>3. ASSUME Metered, NEW i \in DOMAIN journal' PROVE PaidEvent(i)'
  <2>1. journal' \in Seq(Event)
    BY <1>0 DEF TypeOK, StoreTypeOK
  <2>2. journal'[i].ref \in Requests
    BY <1>3, <2>1, EventTyped
  <2> QED BY <1>2, <1>3, <2>2 DEF PaidEvent, Paid
<1> QED BY <1>0, <1>1, <1>3 DEF PaidInv

\* On a metered server every generation of the journal was paid for, each with
\* a payment of its own, whatever the threads, the facilitator and the
\* failures do (meter_call before route_and_generate).
THEOREM GenerationsArePaid == Spec => []PaidGenerations
<1>1. Init => PaidInv
  BY PaidInit
<1>2. PaidInv /\ [Next]_vars => PaidInv'
  BY PaidStep
<1>3. PaidInv => PaidGenerations
  BY DEF PaidInv, PaidEvent, PaidGenerations, Paid
<1> QED BY <1>1, <1>2, <1>3, PTL DEF Spec

-----------------------------------------------------------------------------
(* The journal. *)

\* The kinds of events a thread has still to write about its generation.
Owed(pc) ==
  CASE pc \in {"idle"} \cup (Steps \ (QaSteps \cup {"record_cost"})) ->
         {"generation", "qa", "cost"}
    [] pc \in {"qa_palette", "qa_entity", "journal_qa"} -> {"qa", "cost"}
    [] pc \in {"qa_load", "qa_store", "record_cost"} -> {"cost"}
    [] pc \in {"reply", "done"} -> {}

IsAbout(i, kind, r) == journal[i].kind = kind /\ journal[i].ref = r

Unwritten(kind, r) == \A i \in DOMAIN journal : ~IsAbout(i, kind, r)

\* What the journal holds about the request of a thread at a given step.
JournalThread(r) ==
  /\ \A kind \in Owed(thread[r].pc) : Unwritten(kind, r)
  /\ thread[r].pc \in {"qa_palette", "qa_entity", "journal_qa"} =>
       \E g \in DOMAIN journal : journal[g] = GenerationEvent(r)
  /\ thread[r].pc \in QaSteps \cup {"record_cost"} =>
       \E g \in DOMAIN journal : IsAbout(g, "generation", r)

JournalInv ==
  /\ TypeOK
  /\ \A r \in Requests : JournalThread(r)
  /\ JournalLinked

\* What is owed at each step, one by one.
LEMMA OwedAt ==
  /\ \A pc \in {"idle"} \cup (Steps \ (QaSteps \cup {"record_cost"})) :
       Owed(pc) = {"generation", "qa", "cost"}
  /\ \A pc \in {"qa_palette", "qa_entity", "journal_qa"} : Owed(pc) = {"qa", "cost"}
  /\ \A pc \in {"qa_load", "qa_store", "record_cost"} : Owed(pc) = {"cost"}
  /\ \A pc \in {"reply", "done"} : Owed(pc) = {}
  BY DEF Owed, Steps, HandlerSteps, QaSteps

\* A thread never comes to owe what it did not owe before.
LEMMA OwedShrinks ==
  ASSUME NEW from, NEW to, Follows(from, to)
  PROVE  Owed(to) \subseteq Owed(from)
<1> USE OwedAt
<1>1. CASE from \in {"reply", "record_cost"} \cup QaSteps
  BY <1>1 DEF Follows, QaSteps, Steps, HandlerSteps
<1>2. CASE from \notin {"reply", "record_cost"} \cup QaSteps
  <2>1. Owed(from) = {"generation", "qa", "cost"}
    BY <1>2 DEF Follows, QaSteps, Steps, HandlerSteps
  <2>2. to \in Steps \cup {"reply"}
    BY <1>2 DEF Follows, Steps, HandlerSteps
  <2>3. Owed(to) \subseteq {"generation", "qa", "cost"}
    BY <2>2 DEF QaSteps
  <2> QED BY <2>1, <2>3
<1> QED BY <1>1, <1>2

\* The journal only grows.
LEMMA JournalGrows ==
  ASSUME TypeOK, [Next]_vars, NEW i \in DOMAIN journal
  PROVE  i \in DOMAIN journal' /\ journal'[i] = journal[i]
<1>1. journal \in Seq(Event)
  BY DEF TypeOK, StoreTypeOK
<1>2. ASSUME NEW e, WriteEvent(e)
      PROVE  i \in DOMAIN journal' /\ journal'[i] = journal[i]
  BY <1>1, <1>2 DEF WriteEvent
<1> QED BY <1>2, JournalMoves DEF JournalGeneration, JournalQa, RecordCost, JournalReview

LEMMA ConcludeMoves ==
  ASSUME ThreadsTypeOK, NEW r \in Requests, Conclude(r)
  PROVE  thread'[r].pc \in {"record_cost", "reply"}
<1>1. CASE Goto(r, "record_cost")
  BY <1>1 DEF Goto, Become, ThreadsTypeOK, Thread
<1>2. CASE Answer(r, "ok")
  <2>1. thread'[r] = [Idle EXCEPT !.pc = "reply", !.call = thread[r].call,
                                  !.key = thread[r].key, !.answer = "ok"]
    BY <1>2 DEF ThreadsTypeOK, Answer, Become
  <2> QED BY <2>1 DEF Idle
<1> QED BY <1>1, <1>2 DEF Conclude

LEMMA GotoMoves ==
  ASSUME ThreadsTypeOK, NEW r \in Requests, NEW step, Goto(r, step)
  PROVE  thread'[r].pc = step
  BY DEF Goto, Become, ThreadsTypeOK, Thread

\* The three writers about a generation: where they stand and where they go.
LEMMA Writers ==
  ASSUME TypeOK, NEW r \in Requests
  PROVE  /\ JournalGeneration(r) =>
              /\ thread[r].pc = "journal_generation"
              /\ thread'[r].pc \in {"qa_palette", "record_cost", "reply"}
         /\ JournalQa(r) => thread[r].pc = "journal_qa" /\ thread'[r].pc = "qa_load"
         /\ RecordCost(r) => thread[r].pc = "record_cost" /\ thread'[r].pc = "reply"
<1>1. ASSUME Answer(r, "ok") PROVE thread'[r].pc = "reply"
  <2>1. thread'[r] = [Idle EXCEPT !.pc = "reply", !.call = thread[r].call,
                                  !.key = thread[r].key, !.answer = "ok"]
    BY <1>1 DEF TypeOK, ThreadsTypeOK, Answer, Become
  <2> QED BY <2>1 DEF Idle
<1> QED BY <1>1, GotoMoves, ConcludeMoves DEF TypeOK, JournalGeneration, JournalQa, RecordCost

\* A new event about a generation is one its thread owed, and owes no more.
LEMMA NewEventOwed ==
  ASSUME TypeOK, [Next]_vars, NEW i \in DOMAIN journal',
         ~(i \in DOMAIN journal /\ journal'[i] = journal[i]),
         journal'[i].kind # "review"
  PROVE  /\ journal'[i].ref \in Requests
         /\ journal'[i].kind \in Owed(thread[journal'[i].ref].pc)
         /\ journal'[i].kind \notin Owed(thread'[journal'[i].ref].pc)
<1>1. PICK r \in Requests :
        \/ JournalGeneration(r) /\ journal'[i] = GenerationEvent(r)
        \/ JournalQa(r) /\ journal'[i] = QaEvent(r)
        \/ RecordCost(r) /\ journal'[i] = CostEvent(r)
  BY NewEvent DEF ReviewEvent
<1>2. journal'[i].ref = r
  BY <1>1 DEF GenerationEvent, QaEvent, CostEvent
<1>3. CASE JournalGeneration(r) /\ journal'[i] = GenerationEvent(r)
  <2>1. journal'[i].kind = "generation"
    BY <1>3 DEF GenerationEvent
  <2>2. "journal_generation" \in Steps \ (QaSteps \cup {"record_cost"})
    BY DEF Steps, HandlerSteps, QaSteps
  <2> QED BY <1>2, <1>3, <2>1, <2>2, Writers, OwedAt
<1>4. CASE JournalQa(r) /\ journal'[i] = QaEvent(r)
  <2>1. journal'[i].kind = "qa"
    BY <1>4 DEF QaEvent
  <2> QED BY <1>2, <1>4, <2>1, Writers, OwedAt
<1>5. CASE RecordCost(r) /\ journal'[i] = CostEvent(r)
  <2>1. journal'[i].kind = "cost"
    BY <1>5 DEF CostEvent
  <2> QED BY <1>2, <1>5, <2>1, Writers, OwedAt
<1> QED BY <1>1, <1>3, <1>4, <1>5

\* No thread gets past the journaling of its generation without doing it.
LEMMA GenerationIsWritten ==
  ASSUME TypeOK, [Next]_vars, NEW q \in Requests, thread[q].pc = "journal_generation",
         thread'[q].pc \in {"qa_palette", "record_cost"}
  PROVE  \E g \in DOMAIN journal' : journal'[g] = GenerationEvent(q)
<1>1. thread'[q] # thread[q]
  OBVIOUS
<1>2. Arrive(q) \/ Proceed(q) \/ Fault(q) \/ Crash
  BY <1>1, Movers
<1>3. ~Crash
  BY <1>1, CrashEnds
<1>4. JournalGeneration(q) \/ Raise(q)
  BY <1>2, <1>3 DEF Proceed, Fault, Arrive, KeyStep, IssueKeyCheck, IssueKeyStore, VerifyKey,
       BrandStep, SetPalette, CreateEntity, PayStep, ReadPolicy, VerifyPayment, SettlePayment,
       SettlementLost, RecordCost, GenerateStep, LoadEntity, Route, CallModel,
       QaStep, QaPalette, QaEntity, JournalQa, QaLoad, QaStore,
       ReviewStep, ReviewLoad, ReviewStore, JournalReview, Reply
<1>5. ~Raise(q)
  <2>1. ASSUME Answer(q, "error") PROVE FALSE
    <3>1. thread'[q] = [Idle EXCEPT !.pc = "reply", !.call = thread[q].call,
                                    !.key = thread[q].key, !.answer = "error"]
      BY <2>1 DEF TypeOK, ThreadsTypeOK, Answer, Become
    <3> QED BY <3>1 DEF Idle
  <2> QED BY <2>1 DEF Raise
<1>6. journal \in Seq(Event) /\ journal' = Append(journal, GenerationEvent(q))
  BY <1>4, <1>5 DEF TypeOK, StoreTypeOK, JournalGeneration, WriteEvent
<1> HIDE DEF GenerationEvent
<1>7. Len(journal) + 1 \in DOMAIN journal'
      /\ journal'[Len(journal) + 1] = GenerationEvent(q)
  BY <1>6
<1> QED BY <1>7

\* Where a thread being judged, or charged, comes from.
LEMMA JudgedAfterGeneration ==
  ASSUME TypeOK, [Next]_vars, NEW q \in Requests, thread'[q] # thread[q]
  PROVE  /\ thread'[q].pc \in {"qa_palette", "qa_entity", "journal_qa"} =>
              /\ thread[q].pc \in {"journal_generation", "qa_palette", "qa_entity"}
              /\ GenerationEvent(q)' = GenerationEvent(q)
              /\ thread[q].pc = "journal_generation" => thread'[q].pc = "qa_palette"
         /\ thread'[q].pc \in QaSteps \cup {"record_cost"} =>
              thread[q].pc \in {"journal_generation"} \cup QaSteps
<1>1. ASSUME thread'[q].pc \in QaSteps \cup {"record_cost"}
      PROVE  Advances(q) /\ thread[q].pc \in {"journal_generation"} \cup QaSteps
  <2>1. Advances(q)
    BY <1>1, Moves DEF QaSteps
  <2> QED BY <1>1, <2>1 DEF Advances, Follows, QaSteps
<1>2. ASSUME thread'[q].pc \in {"qa_palette", "qa_entity", "journal_qa"}
      PROVE  /\ thread[q].pc \in {"journal_generation", "qa_palette", "qa_entity"}
             /\ thread[q].pc = "journal_generation" => thread'[q].pc = "qa_palette"
             /\ GenerationEvent(q)' = GenerationEvent(q)
  <2>1. Advances(q)
    BY <1>1, <1>2 DEF QaSteps
  <2>2. /\ thread[q].pc \in {"journal_generation", "qa_palette", "qa_entity"}
        /\ thread[q].pc = "journal_generation" => thread'[q].pc = "qa_palette"
    BY <1>2, <2>1 DEF Advances, Follows
  <2>3. thread'[q].call = thread[q].call /\ thread'[q].model = thread[q].model
    BY <1>2, <2>1, <2>2 DEF Advances
  <2> QED BY <2>2, <2>3 DEF GenerationEvent, Primary
<1> QED BY <1>1, <1>2

LEMMA JournalThreadStep ==
  ASSUME JournalInv, [Next]_vars, NEW q \in Requests
  PROVE  JournalThread(q)'
<1>0. TypeOK /\ JournalThread(q)
  BY DEF JournalInv
<1>1. ASSUME NEW kind \in Owed(thread'[q].pc), NEW i \in DOMAIN journal',
             journal'[i].kind = kind, journal'[i].ref = q
      PROVE  FALSE
  <2>1. kind \in Owed(thread[q].pc)
    <3>1. CASE thread'[q] = thread[q]
      BY <1>1, <3>1
    <3>2. CASE Advances(q)
      BY <1>1, <3>2, OwedShrinks DEF Advances
    <3>3. CASE thread'[q].pc = "done"
      BY <1>1, <3>3, OwedAt
    <3> QED BY <1>0, <3>1, <3>2, <3>3, Moves
  <2>2. CASE i \in DOMAIN journal /\ journal'[i] = journal[i]
    BY <1>0, <1>1, <2>1, <2>2 DEF JournalThread, Unwritten, IsAbout
  <2>3. CASE ~(i \in DOMAIN journal /\ journal'[i] = journal[i])
    <3>1. thread[q].pc \in Steps \cup {"idle", "reply", "done"}
      BY <1>0 DEF TypeOK, ThreadsTypeOK, Thread
    <3>2. kind # "review"
      BY <2>1, <3>1, OwedAt DEF QaSteps
    <3> QED BY <1>0, <1>1, <2>3, <3>2, NewEventOwed
  <2> QED BY <2>2, <2>3
<1>2. ASSUME thread'[q].pc \in {"qa_palette", "qa_entity", "journal_qa"}
      PROVE  \E g \in DOMAIN journal' : journal'[g] = GenerationEvent(q)'
  <2>1. CASE thread'[q] = thread[q]
    <3>1. PICK g \in DOMAIN journal : journal[g] = GenerationEvent(q)
      BY <1>0, <1>2, <2>1 DEF JournalThread
    <3> QED BY <1>0, <2>1, <3>1, JournalGrows DEF GenerationEvent, Primary
  <2>2. CASE thread'[q] # thread[q] /\ thread[q].pc = "journal_generation"
    BY <1>0, <1>2, <2>2, JudgedAfterGeneration, GenerationIsWritten
  <2>3. CASE thread'[q] # thread[q] /\ thread[q].pc # "journal_generation"
    <3>1. /\ thread[q].pc \in {"qa_palette", "qa_entity"}
          /\ GenerationEvent(q)' = GenerationEvent(q)
      BY <1>0, <1>2, <2>3, JudgedAfterGeneration
    <3>2. PICK g \in DOMAIN journal : journal[g] = GenerationEvent(q)
      BY <1>0, <3>1 DEF JournalThread
    <3> QED BY <1>0, <3>1, <3>2, JournalGrows
  <2> QED BY <2>1, <2>2, <2>3
<1>3. ASSUME thread'[q].pc \in QaSteps \cup {"record_cost"}
      PROVE  \E g \in DOMAIN journal' :
               journal'[g].kind = "generation" /\ journal'[g].ref = q
  <2>1. CASE thread[q].pc \in QaSteps \cup {"record_cost"}
    BY <1>0, <2>1, JournalGrows DEF JournalThread, IsAbout
  <2>2. CASE thread[q].pc \notin QaSteps \cup {"record_cost"}
    <3>1. thread'[q] # thread[q] /\ thread[q].pc = "journal_generation"
      BY <1>0, <1>3, <2>2, JudgedAfterGeneration
    <3>2. thread'[q].pc \in {"qa_palette", "record_cost"}
      BY <1>0, <1>3, <3>1, Moves DEF Advances, Follows, QaSteps
    <3> QED BY <1>0, <3>1, <3>2, GenerationIsWritten DEF GenerationEvent
  <2> QED BY <2>1, <2>2
<1> QED BY <1>1, <1>2, <1>3 DEF JournalThread, Unwritten, IsAbout

LEMMA LinkedStep ==
  ASSUME JournalInv, [Next]_vars
  PROVE  JournalLinked'
<1>0. TypeOK /\ JournalLinked /\ journal \in Seq(Event)
  BY DEF JournalInv, TypeOK, StoreTypeOK
<1> DEFINE old(i) == i \in DOMAIN journal /\ journal'[i] = journal[i]
<1>1. ASSUME NEW i \in DOMAIN journal', journal'[i].kind \in {"qa", "cost"}
      PROVE  LinksBack(i)'
  <2>1. CASE old(i)
    <3>1. PICK g \in 1..(i - 1) :
            /\ journal[g].kind = "generation" /\ journal[g].ref = journal[i].ref
            /\ journal[i].kind = "qa" => /\ journal[g].name = journal[i].name
                                         /\ journal[g].model = journal[i].model
      BY <1>0, <1>1, <2>1 DEF JournalLinked, LinksBack
    <3>2. g \in DOMAIN journal
      BY <1>0, <2>1
    <3>3. journal'[g] = journal[g]
      BY <1>0, <3>2, JournalGrows
    <3> QED BY <2>1, <3>1, <3>3 DEF LinksBack
  <2>2. CASE ~old(i)
    <3>1. i = Len(journal) + 1
      BY <1>0, <2>2, NewEvent
    <3>2. PICK r \in Requests : \/ JournalQa(r) /\ journal'[i] = QaEvent(r)
                                \/ RecordCost(r) /\ journal'[i] = CostEvent(r)
      BY <1>0, <1>1, <2>2, NewEvent DEF GenerationEvent, ReviewEvent
    <3>3. JournalThread(r)
      BY DEF JournalInv
    <3>4. CASE JournalQa(r) /\ journal'[i] = QaEvent(r)
      <4>1. PICK g \in DOMAIN journal : journal[g] = GenerationEvent(r)
        BY <3>3, <3>4 DEF JournalThread, JournalQa
      <4>2. g \in 1..(i - 1) /\ journal'[g] = GenerationEvent(r)
        BY <1>0, <3>1, <4>1, JournalGrows
      <4> QED BY <3>4, <4>2 DEF LinksBack, GenerationEvent, QaEvent
    <3>5. CASE RecordCost(r) /\ journal'[i] = CostEvent(r)
      <4>1. PICK g \in DOMAIN journal : IsAbout(g, "generation", r)
        BY <3>3, <3>5 DEF JournalThread, RecordCost
      <4>2. g \in 1..(i - 1) /\ journal'[g] = journal[g]
        BY <1>0, <3>1, <4>1, JournalGrows
      <4> QED BY <3>5, <4>1, <4>2 DEF LinksBack, IsAbout, CostEvent
    <3> QED BY <3>2, <3>4, <3>5
  <2> QED BY <2>1, <2>2
<1>2. ASSUME NEW i \in DOMAIN journal', NEW j \in DOMAIN journal', ~old(i), old(j),
             journal'[i].kind # "review", journal'[i].kind = journal'[j].kind,
             journal'[i].ref = journal'[j].ref
      PROVE  FALSE
  <2> DEFINE q == journal'[i].ref
  <2>1. q \in Requests /\ journal'[i].kind \in Owed(thread[q].pc)
    BY <1>0, <1>2, NewEventOwed
  <2>2. JournalThread(q)
    BY <2>1 DEF JournalInv
  <2> QED BY <1>2, <2>1, <2>2 DEF JournalThread, Unwritten, IsAbout
<1>3. ASSUME NEW i \in DOMAIN journal', NEW j \in DOMAIN journal',
             journal'[i].kind # "review", journal'[i].kind = journal'[j].kind,
             journal'[i].ref = journal'[j].ref
      PROVE  i = j
  <2>1. CASE old(i) /\ old(j)
    BY <1>0, <1>3, <2>1 DEF JournalLinked
  <2>2. CASE ~old(i) /\ ~old(j)
    BY <1>0, <2>2, NewEvent
  <2> QED BY <1>2, <1>3, <2>1, <2>2
<1> QED BY <1>1, <1>3 DEF JournalLinked

LEMMA JournalInit ==
  ASSUME Init
  PROVE  JournalInv /\ \A r \in Requests : thread[r].pc = "idle"
<1>1. DOMAIN journal = {}
  BY DEF Init, EmptyStore
<1>2. ASSUME NEW r \in Requests PROVE thread[r].pc = "idle"
  BY DEF Init, ThreadsInit, Idle
<1>3. ASSUME NEW r \in Requests PROVE JournalThread(r)
  BY <1>1, <1>2 DEF JournalThread, Unwritten, QaSteps
<1> QED BY <1>1, <1>2, <1>3, InitTyped DEF JournalInv, JournalLinked

\* Whatever the threads do and wherever they fail, the journal can be audited:
\* every verdict and every cost follows the one generation it is about
\* (route_and_generate, then run_qa, then record_cost).
THEOREM JournalIsLinked == Spec => []JournalLinked
<1>1. Init => JournalInv
  BY JournalInit
<1>2. JournalInv /\ [Next]_vars => JournalInv'
  BY StepTyped, JournalThreadStep, LinkedStep DEF JournalInv
<1>3. JournalInv => JournalLinked
  BY DEF JournalInv
<1> QED BY <1>1, <1>2, <1>3, PTL DEF Spec

-----------------------------------------------------------------------------
(* Acknowledgements. *)

Has(kind, r) == \E i \in DOMAIN journal : IsAbout(i, kind, r)

Judged(r) == thread[r].call.names # << >> => Has("qa", r)

\* What must be in the journal by the time a thread is this far.
AckThread(r) ==
  /\ thread[r].pc \in {"qa_load", "qa_store"} => Has("qa", r)
  /\ thread[r].pc = "record_cost" => Judged(r)
  /\ /\ thread[r].pc \in {"reply", "done"}
     /\ thread[r].answer = "ok" /\ thread[r].call.op = "generate"
     => Has("generation", r) /\ Judged(r) /\ (Metered => Has("cost", r))

AckInv == JournalInv /\ \A r \in Requests : AckThread(r)

LEMMA HasStays ==
  ASSUME TypeOK, [Next]_vars, NEW kind, NEW r, Has(kind, r)
  PROVE  Has(kind, r)'
  BY JournalGrows DEF Has, IsAbout

LEMMA WritesEvent ==
  ASSUME TypeOK, NEW e, WriteEvent(e)
  PROVE  \E i \in DOMAIN journal' : journal'[i] = e
<1>1. journal \in Seq(Event) /\ journal' = Append(journal, e)
  BY DEF TypeOK, StoreTypeOK, WriteEvent
<1>2. Len(journal) + 1 \in DOMAIN journal' /\ journal'[Len(journal) + 1] = e
  BY <1>1
<1> QED BY <1>2

LEMMA WritersHave ==
  ASSUME TypeOK, NEW r \in Requests
  PROVE  /\ JournalGeneration(r) => Has("generation", r)'
         /\ JournalQa(r) => Has("qa", r)'
         /\ RecordCost(r) => Has("cost", r)'
  BY WritesEvent DEF JournalGeneration, JournalQa, RecordCost, Has, IsAbout,
                     GenerationEvent, QaEvent, CostEvent

LEMMA AnswerMoves ==
  ASSUME ThreadsTypeOK, NEW r \in Requests, NEW answer, Answer(r, answer)
  PROVE  thread'[r].pc = "reply" /\ thread'[r].answer = answer
<1>1. thread'[r] = [Idle EXCEPT !.pc = "reply", !.call = thread[r].call,
                                !.key = thread[r].key, !.answer = answer]
  BY DEF ThreadsTypeOK, Answer, Become
<1> QED BY <1>1 DEF Idle

\* Without entities, and only then, there is no primary one.
LEMMA NoPrimary ==
  ASSUME TypeOK, NEW r \in Requests, thread[r].pc \in HandlerSteps.generate \ {"verify_key"}
  PROVE  Primary(r) = None <=> thread[r].call.names = << >>
<1>1. thread[r].call.names \in Seq(Names)
  BY AtStep DEF TypeOK, GenerateCall
<1> QED BY <1>1, TenantStoreAssumption DEF Primary, TenantStoreAssumption

\* Where a generation is told that all went well.
LEMMA OkReplies ==
  ASSUME TypeOK, NEW r \in Requests, Proceed(r) \/ Fault(r),
         thread'[r].pc = "reply", thread'[r].answer = "ok", thread[r].call.op = "generate"
  PROVE  \/ RecordCost(r)
         \/ ~Metered /\ \/ JournalGeneration(r) /\ Primary(r) = None
                        \/ QaLoad(r) \/ QaStore(r)
<1>0. thread[r] \in Thread /\ ThreadsTypeOK
  BY DEF TypeOK, ThreadsTypeOK
<1>1. ASSUME NEW step \in Steps \cup {"done"}, Goto(r, step) PROVE FALSE
  BY <1>0, <1>1, GotoMoves, NotHandlerSteps
<1>2. ASSUME NEW answer \in Answers \ {"ok"}, Answer(r, answer) PROVE FALSE
  BY <1>0, <1>2, AnswerMoves
<1>3. Conclude(r) => ~Metered
  BY <1>1 DEF Conclude, Steps, HandlerSteps
<1>4. CASE KeyStep(r) \/ BrandStep(r) \/ ReviewStep(r)
  <2>1. thread[r].pc \in {"get_key", "set_key", "verify_key", "set_palette", "create_entity",
                          "review_load", "review_store", "journal_review"}
    BY <1>4 DEF KeyStep, IssueKeyCheck, IssueKeyStore, VerifyKey, BrandStep, SetPalette,
                CreateEntity, ReviewStep, ReviewLoad, ReviewStore, JournalReview
  <2>2. thread[r].pc \in HandlerSteps.generate
    <3>1. AtOwnStep(thread[r]) /\ thread[r].pc \in Steps
      BY <1>0, <2>1 DEF ThreadsTypeOK, Steps, HandlerSteps
    <3> QED BY <3>1 DEF AtOwnStep
  <2>3. thread[r].pc = "verify_key"
    BY <2>1, <2>2 DEF HandlerSteps
  <2>4. VerifyKey(r)
    BY <1>4, <2>3 DEF KeyStep, IssueKeyCheck, IssueKeyStore, BrandStep, SetPalette,
                CreateEntity, ReviewStep, ReviewLoad, ReviewStore, JournalReview
  <2> DEFINE step == Authorized(thread[r].call.op)
  <2>5. step \in {"read_policy", "load_entities"}
    BY DEF Authorized
  <2> HIDE DEF step
  <2>6. CASE Become(r, [thread[r] EXCEPT !.pc = step, !.key = None])
    BY <1>0, <2>5, <2>6 DEF Become, ThreadsTypeOK, Thread
  <2> QED BY <1>2, <2>4, <2>6 DEF VerifyKey, step, Answers
<1>5. CASE PayStep(r) \/ SettlementLost(r)
  BY <1>1, <1>2, <1>5 DEF PayStep, ReadPolicy, VerifyPayment, SettlePayment,
                          SettlementLost, Steps, HandlerSteps, Answers
<1>6. CASE GenerateStep(r)
  <2>1. CASE LoadEntity(r)
    <3>1. ASSUME NEW seq, Become(r, [thread[r] EXCEPT !.loaded = seq]),
                 thread[r].pc = "load_entities"
          PROVE  FALSE
      BY <1>0, <3>1 DEF Become, ThreadsTypeOK, Thread
    <3> QED BY <1>2, <2>1, <3>1 DEF LoadEntity, Answers
  <2>2. CASE Route(r)
    <3>1. ASSUME NEW m, Become(r, [thread[r] EXCEPT !.pc = "call_model", !.model = m,
                                                    !.loaded = << >>])
          PROVE  FALSE
      BY <1>0, <3>1 DEF Become, ThreadsTypeOK, Thread
    <3> QED BY <1>2, <2>2, <3>1 DEF Route, Answers
  <2>3. CASE CallModel(r)
    BY <1>1, <1>2, <2>3 DEF CallModel, Steps, HandlerSteps, Answers
  <2>4. CASE JournalGeneration(r)
    BY <1>1, <1>3, <2>4 DEF JournalGeneration, Steps, HandlerSteps
  <2> QED BY <1>6, <2>1, <2>2, <2>3, <2>4 DEF GenerateStep
<1>7. CASE QaStep(r)
  <2>1. ASSUME NEW b, \/ Become(r, [thread[r] EXCEPT !.pc = "qa_entity", !.passed = b])
                       \/ Become(r, [thread[r] EXCEPT !.pc = "journal_qa", !.passed = b])
        PROVE  FALSE
    BY <1>0, <2>1 DEF Become, ThreadsTypeOK, Thread
  <2>2. ASSUME NEW b, Become(r, [thread[r] EXCEPT !.pc = "qa_store", !.held = b])
        PROVE  FALSE
    BY <1>0, <2>2 DEF Become, ThreadsTypeOK, Thread
  <2>3. CASE QaPalette(r)
    BY <2>1, <2>3 DEF QaPalette
  <2>4. CASE QaEntity(r)
    BY <2>1, <2>4 DEF QaEntity
  <2>5. CASE JournalQa(r)
    BY <1>1, <2>5 DEF JournalQa, Steps, HandlerSteps
  <2>6. CASE QaLoad(r)
    BY <1>3, <2>2, <2>6 DEF QaLoad
  <2>7. CASE QaStore(r)
    BY <1>3, <2>7 DEF QaStore
  <2> QED BY <1>7, <2>3, <2>4, <2>5, <2>6, <2>7 DEF QaStep
<1>8. CASE Reply(r) \/ Raise(r)
  BY <1>1, <1>2, <1>8 DEF Reply, Raise, Answers
<1> QED BY <1>4, <1>5, <1>6, <1>7, <1>8 DEF Proceed, Fault

\* A thread past the journaling of its verdict has journaled it, and one that
\* skipped the verdict had no entity.
LEMMA JudgedAsItMoves ==
  ASSUME TypeOK, [Next]_vars, NEW q \in Requests, thread'[q] # thread[q]
  PROVE  /\ thread[q].pc = "journal_qa" /\ thread'[q].pc = "qa_load" => Has("qa", q)'
         /\ thread[q].pc = "journal_generation" /\ thread'[q].pc = "record_cost" =>
              thread[q].call.names = << >>
<1> SUFFICES ASSUME thread[q].pc \in {"journal_qa", "journal_generation"},
                    thread'[q].pc \in {"qa_load", "record_cost"}
             PROVE  \/ thread[q].pc = "journal_qa" /\ Has("qa", q)'
                    \/ thread[q].pc = "journal_generation" /\
                         (thread'[q].pc = "record_cost" => thread[q].call.names = << >>)
  OBVIOUS
<1>1. Arrive(q) \/ Proceed(q) \/ Fault(q) \/ Crash
  BY Movers
<1>2. ~Crash
  BY CrashEnds
<1>3. JournalQa(q) \/ JournalGeneration(q) \/ Raise(q)
  BY <1>1, <1>2 DEF Proceed, Fault, Arrive, KeyStep, IssueKeyCheck, IssueKeyStore, VerifyKey,
       BrandStep, SetPalette, CreateEntity, PayStep, ReadPolicy, VerifyPayment, SettlePayment,
       SettlementLost, RecordCost, GenerateStep, LoadEntity, Route, CallModel,
       QaStep, QaPalette, QaEntity, QaLoad, QaStore,
       ReviewStep, ReviewLoad, ReviewStore, JournalReview, Reply
<1>4. ~Raise(q)
  BY AnswerMoves DEF Raise, TypeOK
<1>5. CASE JournalQa(q)
  BY <1>5, Writers, WritersHave
<1>6. CASE JournalGeneration(q)
  <2>1. thread[q].pc = "journal_generation"
    BY <1>6, Writers
  <2>2. Primary(q) # None => thread'[q].pc = "qa_palette"
    BY <1>6, GotoMoves DEF JournalGeneration, TypeOK
  <2>3. Primary(q) = None => thread[q].call.names = << >>
    BY <2>1, NoPrimary DEF HandlerSteps
  <2> QED BY <2>1, <2>2, <2>3
<1> QED BY <1>3, <1>4, <1>5, <1>6

LEMMA AckThreadStep ==
  ASSUME AckInv, [Next]_vars, NEW q \in Requests
  PROVE  AckThread(q)'
<1>0. TypeOK /\ JournalThread(q) /\ AckThread(q)
  BY DEF AckInv, JournalInv
<1>1. CASE thread'[q] = thread[q]
  <2>1. \A kind : Has(kind, q) => Has(kind, q)'
    BY <1>0, HasStays
  <2> QED BY <1>0, <1>1, <2>1 DEF AckThread, Judged
<1>2. CASE Crash /\ thread'[q].pc = "done" /\ thread'[q] # thread[q]
  <2>1. q \in InFlight
    BY <1>2 DEF Crash
  <2>2. thread'[q] = [Idle EXCEPT !.pc = "done", !.call = thread[q].call, !.answer = "lost"]
    BY <1>2, <2>1 DEF Crash
  <2>3. thread'[q].answer = "lost"
    BY <2>2 DEF Idle
  <2> QED BY <1>2, <2>3 DEF AckThread
<1>3. CASE Advances(q) /\ thread'[q] # thread[q]
  <2>1. ASSUME thread'[q].pc \in {"qa_load", "qa_store"} PROVE Has("qa", q)'
    <3>1. \/ thread[q].pc = "journal_qa" /\ thread'[q].pc = "qa_load"
          \/ thread[q].pc = "qa_load"
      BY <1>3, <2>1 DEF Advances, Follows
    <3> QED BY <1>0, <1>3, <3>1, JudgedAsItMoves, HasStays DEF AckThread
  <2>2. ASSUME thread'[q].pc = "record_cost" PROVE Judged(q)'
    <3>1. thread[q].pc \in {"journal_generation", "qa_load", "qa_store"}
      BY <1>3, <2>2 DEF Advances, Follows
    <3>2. thread'[q].call = thread[q].call
      BY <1>0, <3>1, CallsStay
    <3>3. CASE thread[q].pc = "journal_generation"
      BY <1>0, <1>3, <2>2, <3>2, <3>3, JudgedAsItMoves DEF Judged
    <3>4. CASE thread[q].pc \in {"qa_load", "qa_store"}
      BY <1>0, <3>4, HasStays DEF AckThread, Judged
    <3> QED BY <3>1, <3>3, <3>4
  <2>3. ASSUME thread'[q].pc \in {"reply", "done"},
               thread'[q].answer = "ok", thread'[q].call.op = "generate"
        PROVE  Has("generation", q)' /\ Judged(q)' /\ (Metered => Has("cost", q)')
    <3>1. thread[q].pc # "idle" /\ thread'[q].call = thread[q].call
      <4>1. thread[q].pc # "idle"
        BY <1>3, <2>3, NotHandlerSteps DEF Advances, Follows
      <4> QED BY <1>0, <4>1, CallsStay
    <3>2. CASE thread[q].pc = "reply"
      <4>1. thread'[q].answer = thread[q].answer
        <5>1. Reply(q) \/ Crash
          BY <1>0, <1>3, <3>2, Movers, NotHandlerSteps
            DEF Proceed, Fault, Arrive, KeyStep, IssueKeyCheck, IssueKeyStore, VerifyKey,
                BrandStep, SetPalette, CreateEntity, PayStep, ReadPolicy, VerifyPayment,
                SettlePayment, SettlementLost, RecordCost, GenerateStep, LoadEntity, Route,
                CallModel, JournalGeneration, QaStep, QaPalette, QaEntity, JournalQa, QaLoad,
                QaStore, ReviewStep, ReviewLoad, ReviewStore, JournalReview, Raise, InHandler
        <5>2. CASE Crash
          <6>1. thread'[q] = [Idle EXCEPT !.pc = "done", !.call = thread[q].call,
                                          !.answer = "lost"]
            BY <1>3, <5>2 DEF Crash
          <6> QED BY <2>3, <6>1 DEF Idle
        <5>3. CASE Reply(q)
          BY <1>0, <5>3 DEF Reply, Goto, Become, TypeOK, ThreadsTypeOK, Thread
        <5> QED BY <5>1, <5>2, <5>3
      <4>2. Has("generation", q) /\ Judged(q) /\ (Metered => Has("cost", q))
        BY <1>0, <2>3, <3>1, <3>2, <4>1 DEF AckThread
      <4> QED BY <1>0, <3>1, <4>2, HasStays DEF Judged
    <3>3. CASE thread[q].pc # "reply"
      <4>1. thread'[q].pc = "reply" /\ thread[q].pc \in Steps
        BY <1>3, <2>3, <3>3, NotHandlerSteps DEF Advances, Follows
      <4>2. Proceed(q) \/ Fault(q)
        BY <1>0, <1>3, <4>1, Movers, CrashEnds, NotHandlerSteps DEF Arrive
      <4>3. \/ RecordCost(q)
            \/ ~Metered /\ \/ JournalGeneration(q) /\ Primary(q) = None
                           \/ QaLoad(q) \/ QaStore(q)
        BY <1>0, <2>3, <3>1, <4>1, <4>2, OkReplies
      <4>4. CASE RecordCost(q)
        <5>1. Has("generation", q) /\ Judged(q) /\ thread[q].pc = "record_cost"
          BY <1>0, <4>4, Writers DEF JournalThread, AckThread, Has
        <5> QED BY <1>0, <3>1, <4>4, <5>1, HasStays, WritersHave DEF Judged
      <4>5. CASE ~Metered /\ JournalGeneration(q) /\ Primary(q) = None
        <5>1. thread[q].call.names = << >>
          BY <1>0, <4>5, Writers, NoPrimary DEF HandlerSteps
        <5> QED BY <1>0, <3>1, <4>5, <5>1, WritersHave DEF Judged
      <4>6. CASE ~Metered /\ (QaLoad(q) \/ QaStore(q))
        <5>1. thread[q].pc \in {"qa_load", "qa_store"}
          BY <4>6 DEF QaLoad, QaStore
        <5>2. Has("generation", q) /\ Has("qa", q)
          BY <1>0, <5>1 DEF JournalThread, AckThread, Has, QaSteps
        <5> QED BY <1>0, <4>6, <5>2, HasStays DEF Judged
      <4> QED BY <4>3, <4>4, <4>5, <4>6
    <3> QED BY <3>2, <3>3
  <2> QED BY <2>1, <2>2, <2>3 DEF AckThread
<1> QED BY <1>0, <1>1, <1>2, <1>3, Moves

\* A 200 to a generation means that it, its verdict and its cost are in the
\* journal, whatever else is in flight (generate returns after record_cost).
THEOREM AcknowledgedGenerations == Spec => []AcknowledgedIsJournaled
<1>1. Init => AckInv
  BY JournalInit DEF AckInv, AckThread
<1>2. AckInv /\ [Next]_vars => AckInv'
  BY StepTyped, JournalThreadStep, LinkedStep, AckThreadStep DEF AckInv, JournalInv
<1>3. AckInv => AcknowledgedIsJournaled
  BY DEF AckInv, AckThread, AcknowledgedIsJournaled, Answered, Written, Has, IsAbout, Judged
<1> QED BY <1>1, <1>2, <1>3, PTL DEF Spec
=============================================================================
