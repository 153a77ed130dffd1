------------------------------ MODULE ApiProofs ------------------------------
(***************************************************************************)
(* Theorems about the API, for any number of requests, entities, models,   *)
(* payments and threads, any workload and any number of faults.            *)
(***************************************************************************)
EXTENDS ApiProperties, TLAPS

-----------------------------------------------------------------------------
(* Types. *)

\* A step that leaves every thread well typed but for the one it moves.
LEMMA BecomeTyped ==
  ASSUME ThreadsTypeOK, NEW r \in Requests, NEW t \in Thread, AtOwnStep(t),
         Become(r, t), faults' \in 0..MaxFaults,
         settledBy' \in [Payments -> Requests \cup {None}]
  PROVE  ThreadsTypeOK'
<1>1. thread' \in [Requests -> Thread]
  BY DEF ThreadsTypeOK, Become
<1>2. ASSUME NEW q \in Requests PROVE AtOwnStep(thread'[q])
  <2>1. CASE q = r
    BY <2>1 DEF Become, ThreadsTypeOK
  <2>2. CASE q # r
    BY <2>2 DEF Become, ThreadsTypeOK
  <2> QED BY <2>1, <2>2
<1>3. \A q \in Requests : AtOwnStep(thread[q])' = AtOwnStep(thread'[q])
  BY DEF AtOwnStep
<1> QED BY <1>1, <1>2, <1>3 DEF ThreadsTypeOK

\* The calls of a handler are of its kind: what the steps rely on when they
\* read the fields of a call.
LEMMA CallOfStep ==
  ASSUME NEW t \in Thread, AtOwnStep(t), t.pc \in Steps
  PROVE  /\ t.call \in Call
         /\ t.pc \in HandlerSteps[t.call.op]
         /\ t.call.op = "onboard" => t.call \in OnboardCall
         /\ t.call.op = "add" => t.call \in AddCall
         /\ t.call.op = "generate" => t.call \in GenerateCall
         /\ t.call.op = "review" => t.call \in ReviewCall
         /\ t.call.op \in {"onboard", "add", "generate", "review"}
<1>1. t.pc # "idle"
  BY DEF Steps, HandlerSteps
<1>2. t.call \in Call
  BY <1>1 DEF AtOwnStep
<1> QED BY <1>2 DEF AtOwnStep, Call, OnboardCall, AddCall, GenerateCall, ReviewCall
-----------------------------------------------------------------------------
LEMMA NotHandlerSteps ==
  /\ Steps \cap {"idle", "reply", "done"} = {}
  /\ WriteBackSteps \subseteq Steps /\ QaSteps \subseteq Steps
  BY DEF Steps, HandlerSteps, WriteBackSteps, QaSteps

LEMMA GotoTyped ==
  ASSUME ThreadsTypeOK, NEW r \in Requests, thread[r].call \in Call,
         NEW step \in (Steps \cup {"reply", "done"}) \ WriteBackSteps,
         step \in Steps => step \in HandlerSteps[thread[r].call.op],
         step \in QaSteps => thread[r].call.names # << >>,
         Goto(r, step), UNCHANGED <<faults, settledBy>>
  PROVE  ThreadsTypeOK'
<1> DEFINE t == [thread[r] EXCEPT !.pc = step]
<1>0. thread[r] \in Thread
  BY DEF ThreadsTypeOK
<1>1. t \in Thread /\ t.pc = step /\ t.call = thread[r].call
  BY <1>0 DEF Thread
<1>2. Become(r, t)
  BY DEF Goto
<1> HIDE DEF t
<1>3. AtOwnStep(t)
  BY <1>1, NotHandlerSteps DEF AtOwnStep
<1> QED BY <1>1, <1>2, <1>3, BecomeTyped DEF ThreadsTypeOK

LEMMA AnswerTyped ==
  ASSUME ThreadsTypeOK, NEW r \in Requests, thread[r].call \in Call,
         NEW answer \in Answers, Answer(r, answer),
         faults' \in 0..MaxFaults,
         settledBy' \in [Payments -> Requests \cup {None}]
  PROVE  ThreadsTypeOK'
<1> DEFINE t == [Idle EXCEPT !.pc = "reply", !.call = thread[r].call,
                             !.key = thread[r].key, !.answer = answer]
<1>0. thread[r].key \in Requests \cup {None} /\ << >> \in Seq(Portrait)
  BY DEF ThreadsTypeOK, Thread
<1>1. t \in Thread /\ t.pc = "reply" /\ t.call = thread[r].call
  BY <1>0 DEF Thread, Idle
<1>2. Become(r, t)
  BY DEF Answer
<1> HIDE DEF t
<1>3. AtOwnStep(t)
  BY <1>1, NotHandlerSteps DEF AtOwnStep
<1> QED BY <1>1, <1>2, <1>3, BecomeTyped

\* Which call a thread serves, told from where it stands.
LEMMA AtStep ==
  ASSUME ThreadsTypeOK, NEW r \in Requests
  PROVE  /\ thread[r] \in Thread
         /\ thread[r].pc \in Steps \cup {"reply", "done"} => thread[r].call \in Call
         /\ thread[r].pc \in Steps => thread[r].pc \in HandlerSteps[thread[r].call.op]
         /\ thread[r].pc \in HandlerSteps.onboard =>
              thread[r].call \in OnboardCall /\ thread[r].call.op = "onboard"
         /\ thread[r].pc \in HandlerSteps.add \ {"verify_key"} =>
              thread[r].call \in AddCall /\ thread[r].call.op = "add"
         /\ thread[r].pc \in HandlerSteps.generate \ {"verify_key"} =>
              thread[r].call \in GenerateCall /\ thread[r].call.op = "generate"
         /\ thread[r].pc \in HandlerSteps.review \ {"verify_key"} =>
              thread[r].call \in ReviewCall /\ thread[r].call.op = "review"
<1>1. thread[r] \in Thread /\ AtOwnStep(thread[r])
  BY DEF ThreadsTypeOK
<1>2. thread[r].pc \in Steps \cup {"reply", "done"} => thread[r].call \in Call
  BY <1>1, NotHandlerSteps DEF AtOwnStep
<1>3. thread[r].pc \in Steps => thread[r].pc \in HandlerSteps[thread[r].call.op]
  BY <1>1 DEF AtOwnStep
<1> DEFINE own == thread[r].pc \in Steps =>
      /\ thread[r].call.op = "onboard" => thread[r].call \in OnboardCall
      /\ thread[r].call.op = "add" => thread[r].call \in AddCall
      /\ thread[r].call.op = "generate" => thread[r].call \in GenerateCall
      /\ thread[r].call.op = "review" => thread[r].call \in ReviewCall
      /\ thread[r].call.op \in {"onboard", "add", "generate", "review"}
<1>4. own
  BY <1>1, CallOfStep
<1>5. thread[r].pc \in HandlerSteps.onboard => thread[r].call.op = "onboard"
  BY <1>3, <1>4 DEF HandlerSteps, Steps
<1>6. thread[r].pc \in HandlerSteps.add \ {"verify_key"} => thread[r].call.op = "add"
  BY <1>3, <1>4 DEF HandlerSteps, Steps
<1>7. thread[r].pc \in HandlerSteps.generate \ {"verify_key"} => thread[r].call.op = "generate"
  BY <1>3, <1>4 DEF HandlerSteps, Steps
<1>8. thread[r].pc \in HandlerSteps.review \ {"verify_key"} => thread[r].call.op = "review"
  BY <1>3, <1>4 DEF HandlerSteps, Steps
<1>9. \A op \in {"onboard", "add", "generate", "review"} : HandlerSteps[op] \subseteq Steps
  BY DEF HandlerSteps, Steps
<1> QED BY <1>1, <1>2, <1>3, <1>4, <1>5, <1>6, <1>7, <1>8, <1>9

LEMMA KeyStepTyped ==
  ASSUME TypeOK, NEW r \in Requests, KeyStep(r)
  PROVE  TypeOK'
<1> USE AtStep DEF TypeOK
<1>1. CASE IssueKeyCheck(r)
  <2>1. StoreTypeOK'
    BY <1>1 DEF IssueKeyCheck, store, StoreTypeOK
  <2>2. thread[r].call.op = "onboard" /\ thread[r].call \in Call
    BY <1>1 DEF IssueKeyCheck, HandlerSteps, Call
  <2>3. /\ "set_key" \in Steps \ (WriteBackSteps \cup QaSteps)
        /\ "set_key" \in HandlerSteps[thread[r].call.op]
    BY <2>2 DEF HandlerSteps, Steps, WriteBackSteps, QaSteps
  <2>4. UNCHANGED <<faults, settledBy>> /\ (Answer(r, "ok") \/ Goto(r, "set_key"))
    BY <1>1 DEF IssueKeyCheck
  <2>5. ThreadsTypeOK'
    BY <2>2, <2>3, <2>4, AnswerTyped, GotoTyped DEF Answers, ThreadsTypeOK
  <2> QED BY <2>1, <2>5
<1>2. CASE IssueKeyStore(r)
  <2>1. StoreTypeOK'
    BY <1>2 DEF IssueKeyStore, StoreTypeOK
  <2> DEFINE t == [thread[r] EXCEPT !.pc = "reply", !.answer = "ok", !.key = r]
  <2>2. Become(r, t) /\ UNCHANGED <<faults, settledBy>>
    BY <1>2 DEF IssueKeyStore
  <2>3. thread[r] \in Thread /\ thread[r].call \in Call
    BY <1>2 DEF IssueKeyStore, HandlerSteps, Call
  <2>4. t \in Thread /\ t.pc = "reply" /\ t.call = thread[r].call
    BY <2>3 DEF Thread, Answers
  <2> HIDE DEF t
  <2>5. AtOwnStep(t)
    BY <2>3, <2>4, NotHandlerSteps DEF AtOwnStep
  <2>6. ThreadsTypeOK'
    BY <2>2, <2>4, <2>5, BecomeTyped DEF ThreadsTypeOK
  <2> QED BY <2>1, <2>6
<1>3. CASE VerifyKey(r)
  <2>1. StoreTypeOK'
    BY <1>3 DEF VerifyKey, store, StoreTypeOK
  <2>2. thread[r].pc = "verify_key" /\ thread[r].call \in Call /\ thread[r] \in Thread
    BY <1>3 DEF VerifyKey, HandlerSteps, Steps
  <2>3. thread[r].call.op \in {"add", "generate", "review"}
    BY <2>2, CallOfStep DEF ThreadsTypeOK, HandlerSteps, Steps
  <2> DEFINE step == Authorized(thread[r].call.op)
             t == [thread[r] EXCEPT !.pc = step, !.key = None]
  <2>4. /\ step \in Steps \ (WriteBackSteps \cup QaSteps)
        /\ step \in HandlerSteps[thread[r].call.op]
    BY <2>3 DEF Authorized, HandlerSteps, Steps, WriteBackSteps, QaSteps
  <2>5. UNCHANGED <<faults, settledBy>> /\ (Become(r, t) \/ Answer(r, "unauthorized"))
    BY <1>3 DEF VerifyKey
  <2> HIDE DEF step
  <2>6. t \in Thread /\ t.pc = step /\ t.call = thread[r].call
    BY <2>2, <2>4 DEF Thread
  <2> HIDE DEF t
  <2>7. AtOwnStep(t)
    BY <2>2, <2>4, <2>6 DEF AtOwnStep
  <2>8. ThreadsTypeOK'
    BY <2>2, <2>5, <2>6, <2>7, BecomeTyped, AnswerTyped DEF ThreadsTypeOK, Answers
  <2> QED BY <2>1, <2>8
<1> QED BY <1>1, <1>2, <1>3 DEF KeyStep

\* A handler that moves on to its next call.
LEMMA NextCallTyped ==
  ASSUME ThreadsTypeOK, NEW r \in Requests, NEW op \in DOMAIN HandlerSteps,
         thread[r].call \in Call, thread[r].call.op = op,
         NEW step \in HandlerSteps[op] \ WriteBackSteps,
         step \in QaSteps => thread[r].call.names # << >>,
         Goto(r, step), UNCHANGED <<faults, settledBy>>
  PROVE  ThreadsTypeOK'
<1>1. step \in Steps
  BY DEF Steps
<1> QED BY <1>1, GotoTyped

LEMMA ConcludeTyped ==
  ASSUME ThreadsTypeOK, NEW r \in Requests,
         thread[r].call \in Call, thread[r].call.op = "generate",
         Conclude(r), UNCHANGED <<faults, settledBy>>
  PROVE  ThreadsTypeOK'
<1>1. /\ "generate" \in DOMAIN HandlerSteps
      /\ "record_cost" \in HandlerSteps["generate"] \ (WriteBackSteps \cup QaSteps)
  BY DEF HandlerSteps, WriteBackSteps, QaSteps
<1> QED BY <1>1, NextCallTyped, AnswerTyped DEF Conclude, Answers, ThreadsTypeOK

\* A handler that moves on to its next call with a new value in a local.
LEMMA MoveTyped ==
  ASSUME ThreadsTypeOK, NEW r \in Requests, NEW op \in DOMAIN HandlerSteps,
         thread[r].call \in Call, thread[r].call.op = op,
         NEW t \in Thread, t.call = thread[r].call, t.pc \in HandlerSteps[op],
         t.pc \in WriteBackSteps => t.held # None,
         t.pc \in QaSteps => t.call.names # << >>,
         Become(r, t), UNCHANGED <<faults, settledBy>>
  PROVE  ThreadsTypeOK'
<1>1. AtOwnStep(t)
  BY DEF AtOwnStep
<1> QED BY <1>1, BecomeTyped DEF ThreadsTypeOK

LEMMA BrandStepTyped ==
  ASSUME TypeOK, NEW r \in Requests, BrandStep(r)
  PROVE  TypeOK'
<1> USE AtStep DEF TypeOK
<1>1. CASE SetPalette(r)
  <2>1. thread[r].call \in OnboardCall /\ thread[r].call.op = "onboard"
    BY <1>1 DEF SetPalette, HandlerSteps
  <2>2. StoreTypeOK'
    BY <1>1, <2>1 DEF SetPalette, StoreTypeOK, OnboardCall
  <2>3. /\ "onboard" \in DOMAIN HandlerSteps
        /\ "get_key" \in HandlerSteps["onboard"] \ (WriteBackSteps \cup QaSteps)
    BY DEF HandlerSteps, WriteBackSteps, QaSteps
  <2>4. ThreadsTypeOK'
    BY <1>1, <2>1, <2>3, NextCallTyped DEF SetPalette, Call
  <2> QED BY <2>2, <2>4
<1>2. CASE CreateEntity(r)
  <2> DEFINE c == thread[r].call
             body == [asset |-> c.asset, additional |-> c.additional,
                      status |-> "pending", confidence |-> Unscored]
  <2>1. c \in AddCall
    BY <1>2 DEF CreateEntity, HandlerSteps
  <2>2. Unscored \in [Models -> 0..Scale]
    BY TenantStoreAssumption DEF Unscored, TenantStoreAssumption
  <2>3. body \in EntityBody
    BY <2>1, <2>2 DEF EntityBody, AddCall, Statuses
  <2>4. entity' = [entity EXCEPT ![c.name] = body] /\ c.name \in Names
    BY <1>2, <2>1 DEF CreateEntity, SetEntity, AddCall
  <2> HIDE DEF body
  <2>5. StoreTypeOK'
    BY <1>2, <2>3, <2>4 DEF CreateEntity, StoreTypeOK
  <2>6. ThreadsTypeOK'
    BY <1>2, <2>1, AnswerTyped DEF CreateEntity, Call, Answers, ThreadsTypeOK
  <2> QED BY <2>5, <2>6
<1> QED BY <1>1, <1>2 DEF BrandStep

LEMMA PayStepTyped ==
  ASSUME TypeOK, NEW r \in Requests, PayStep(r) \/ SettlementLost(r)
  PROVE  TypeOK'
<1> USE DEF TypeOK
<1>1. thread[r].call \in GenerateCall /\ thread[r].call.op = "generate"
      /\ thread[r].call \in Call
  BY AtStep DEF PayStep, ReadPolicy, VerifyPayment, SettlePayment, RecordCost,
                SettlementLost, HandlerSteps, Call
<1>2. /\ "generate" \in DOMAIN HandlerSteps
      /\ {"verify_payment", "settle_payment", "load_entities"}
           \subseteq HandlerSteps["generate"] \ (WriteBackSteps \cup QaSteps)
  BY DEF HandlerSteps, WriteBackSteps, QaSteps
<1>3. {"ok", "error", "payment_required"} \subseteq Answers
  BY DEF Answers
<1>4. faults \in 0..MaxFaults /\ settledBy \in [Payments -> Requests \cup {None}]
  BY DEF ThreadsTypeOK
<1>5. CASE ReadPolicy(r)
  <2>1. StoreTypeOK'
    BY <1>5 DEF ReadPolicy, store, StoreTypeOK
  <2>2. ThreadsTypeOK'
    BY <1>1, <1>2, <1>3, <1>4, <1>5, NextCallTyped, AnswerTyped DEF ReadPolicy
  <2> QED BY <2>1, <2>2
<1>6. CASE VerifyPayment(r)
  <2>1. StoreTypeOK'
    BY <1>6 DEF VerifyPayment, store, StoreTypeOK
  <2>2. ThreadsTypeOK'
    BY <1>1, <1>2, <1>3, <1>4, <1>6, NextCallTyped, AnswerTyped DEF VerifyPayment
  <2> QED BY <2>1, <2>2
<1>7. ASSUME Transfer(r) \/ UNCHANGED settledBy
      PROVE  settledBy' \in [Payments -> Requests \cup {None}]
  BY <1>4, <1>7 DEF Transfer
<1>8. CASE SettlePayment(r)
  <2>1. StoreTypeOK'
    BY <1>8 DEF SettlePayment, store, StoreTypeOK
  <2>2. CASE Answer(r, "payment_required")
    BY <1>1, <1>3, <1>4, <1>7, <1>8, <2>1, <2>2, AnswerTyped DEF SettlePayment
  <2>3. CASE Goto(r, "load_entities")
    <3> DEFINE t == [thread[r] EXCEPT !.pc = "load_entities"]
    <3>0. thread[r] \in Thread /\ "load_entities" \in Steps
      BY AtStep DEF Steps, HandlerSteps
    <3>1. t \in Thread /\ t.pc = "load_entities" /\ t.call = thread[r].call
      BY <3>0 DEF Thread
    <3>2. Become(r, t)
      BY <2>3 DEF Goto
    <3> HIDE DEF t
    <3>3. AtOwnStep(t)
      BY <1>1, <1>2, <3>1 DEF AtOwnStep
    <3>4. faults' \in 0..MaxFaults /\ settledBy' \in [Payments -> Requests \cup {None}]
      BY <1>4, <1>7, <1>8 DEF SettlePayment
    <3> QED BY <2>1, <3>1, <3>2, <3>3, <3>4, BecomeTyped
  <2> QED BY <1>8, <2>2, <2>3 DEF SettlePayment
<1>9. CASE SettlementLost(r)
  <2>1. StoreTypeOK'
    BY <1>9 DEF SettlementLost, store, StoreTypeOK
  <2>2. faults' \in 0..MaxFaults
    BY <1>4, <1>9, ThreadsAssumption DEF SettlementLost, ThreadsAssumption
  <2>3. ThreadsTypeOK'
    BY <1>1, <1>3, <1>7, <1>9, <2>2, AnswerTyped DEF SettlementLost
  <2> QED BY <2>1, <2>3
<1>10. CASE RecordCost(r)
  <2>1. CostEvent(r) \in Event
    BY DEF CostEvent, Event
  <2>2. StoreTypeOK'
    BY <1>10, <2>1 DEF RecordCost, WriteEvent, StoreTypeOK
  <2>3. ThreadsTypeOK'
    BY <1>1, <1>3, <1>4, <1>10, AnswerTyped DEF RecordCost
  <2> QED BY <2>2, <2>3
<1> QED BY <1>5, <1>6, <1>8, <1>9, <1>10 DEF PayStep

LEMMA PrimaryTyped ==
  ASSUME NEW r \in Requests, thread[r].call \in GenerateCall
  PROVE  /\ Primary(r) \in Names \cup {None}
         /\ thread[r].call.names # << >> => Primary(r) \in Names
         /\ Primary(r) = None <=> thread[r].call.names = << >>
<1>1. thread[r].call.names \in Seq(Names)
  BY DEF GenerateCall
<1>2. thread[r].call.names # << >> => thread[r].call.names[1] \in Names
  BY <1>1
<1> QED BY <1>2, TenantStoreAssumption DEF Primary, TenantStoreAssumption

LEMMA GenerateStepTyped ==
  ASSUME TypeOK, NEW r \in Requests, GenerateStep(r)
  PROVE  TypeOK'
<1> USE DEF TypeOK
<1>1. thread[r].call \in GenerateCall /\ thread[r].call.op = "generate"
      /\ thread[r].call \in Call /\ thread[r] \in Thread
  BY AtStep DEF GenerateStep, LoadEntity, Route, CallModel, JournalGeneration,
                HandlerSteps, Call
<1>2. /\ "generate" \in DOMAIN HandlerSteps
      /\ {"load_entities", "call_model", "journal_generation"}
           \subseteq HandlerSteps["generate"] \ (WriteBackSteps \cup QaSteps)
      /\ "qa_palette" \in HandlerSteps["generate"] \ WriteBackSteps
      /\ {"load_entities", "call_model"} \subseteq Steps
  BY DEF HandlerSteps, Steps, WriteBackSteps, QaSteps
<1>3. {"ok", "error", "not_found"} \subseteq Answers
  BY DEF Answers
<1>4. faults \in 0..MaxFaults /\ settledBy \in [Payments -> Requests \cup {None}]
  BY DEF ThreadsTypeOK
<1>5. CASE LoadEntity(r)
  <2> DEFINE names == thread[r].call.names
             body  == entity[names[Len(thread[r].loaded) + 1]]
             portrait == [asset |-> body.asset, additional |-> body.additional]
             t == [thread[r] EXCEPT !.loaded = Append(@, portrait)]
  <2>1. StoreTypeOK'
    BY <1>5 DEF LoadEntity, store, StoreTypeOK
  <2>2. CASE Answer(r, "not_found")
    BY <1>1, <1>3, <1>4, <1>5, <2>1, <2>2, AnswerTyped DEF LoadEntity
  <2>3. CASE body # None /\ Become(r, t)
    <3>1. names \in Seq(Names) /\ thread[r].loaded \in Seq(Portrait)
      BY <1>1 DEF GenerateCall, Thread
    <3>2. Len(thread[r].loaded) + 1 \in 1..Len(names)
      BY <1>5, <3>1 DEF LoadEntity
    <3>0. names[Len(thread[r].loaded) + 1] \in Names
      BY <3>1, <3>2
    <3> HIDE DEF names
    <3>3. body \in EntityBody
      BY <2>3, <3>0 DEF StoreTypeOK
    <3>4. portrait \in Portrait
      BY <3>3 DEF EntityBody, Portrait
    <3> HIDE DEF portrait, body
    <3>5. Append(thread[r].loaded, portrait) \in Seq(Portrait)
      BY <3>1, <3>4
    <3>6. t \in Thread /\ t.pc = "load_entities" /\ t.call = thread[r].call
      BY <1>1, <1>5, <3>5 DEF Thread, LoadEntity
    <3> HIDE DEF t
    <3> QED BY <1>1, <1>2, <1>5, <2>1, <2>3, <3>6, MoveTyped DEF LoadEntity
  <2> QED BY <1>5, <2>2, <2>3 DEF LoadEntity
<1>6. CASE Route(r)
  <2> DEFINE m == ChosenModel(r)
             t == [thread[r] EXCEPT !.pc = "call_model", !.model = m, !.loaded = << >>]
  <2>1. StoreTypeOK'
    BY <1>6 DEF Route, store, StoreTypeOK
  <2>2. CASE Answer(r, "error")
    BY <1>1, <1>3, <1>4, <1>6, <2>1, <2>2, AnswerTyped DEF Route
  <2>3. CASE m \in Models /\ Become(r, t)
    <3> HIDE DEF m
    <3>1. << >> \in Seq(Portrait)
      OBVIOUS
    <3>2. t \in Thread /\ t.pc = "call_model" /\ t.call = thread[r].call
      BY <1>1, <1>2, <2>3, <3>1 DEF Thread
    <3> HIDE DEF t
    <3> QED BY <1>1, <1>2, <1>6, <2>1, <2>3, <3>2, MoveTyped DEF Route
  <2> QED BY <1>6, <2>2, <2>3 DEF Route
<1>7. CASE CallModel(r)
  <2>1. StoreTypeOK'
    BY <1>7 DEF CallModel, store, StoreTypeOK
  <2>2. ThreadsTypeOK'
    BY <1>1, <1>2, <1>3, <1>4, <1>7, NextCallTyped, AnswerTyped DEF CallModel
  <2> QED BY <2>1, <2>2
<1>8. CASE JournalGeneration(r)
  <2>1. GenerationEvent(r) \in Event
    BY <1>1, PrimaryTyped DEF GenerationEvent, Event, Thread
  <2>2. StoreTypeOK'
    BY <1>8, <2>1 DEF JournalGeneration, WriteEvent, StoreTypeOK
  <2>3. ThreadsTypeOK'
    BY <1>1, <1>2, <1>8, PrimaryTyped, NextCallTyped, ConcludeTyped DEF JournalGeneration
  <2> QED BY <2>2, <2>3
<1> QED BY <1>5, <1>6, <1>7, <1>8 DEF GenerateStep

\* A score stays a score, whichever way it is moved.
LEMMA LearnTyped ==
  ASSUME NEW score \in 0..Scale, NEW passed \in BOOLEAN
  PROVE  Learn(score, passed) \in 0..Scale
<1>1. Scale \in Nat
  BY TenantStoreAssumption DEF TenantStoreAssumption
<1>2. CASE passed
  <2>1. (3 * (Scale - score)) \div 10 \in 0..(Scale - score)
    BY <1>1
  <2> QED BY <1>1, <1>2, <2>1 DEF Learn
<1>3. CASE ~passed
  <2>1. (3 * (0 - score)) \div 10 \in (0 - score)..0
    BY <1>1
  <2> QED BY <1>1, <1>3, <2>1 DEF Learn
<1> QED BY <1>2, <1>3

LEMMA QaStepTyped ==
  ASSUME TypeOK, NEW r \in Requests, QaStep(r)
  PROVE  TypeOK'
<1> USE DEF TypeOK
<1>1. thread[r].call \in GenerateCall /\ thread[r].call.op = "generate"
      /\ thread[r].call \in Call /\ thread[r] \in Thread
  BY AtStep DEF QaStep, QaPalette, QaEntity, JournalQa, QaLoad, QaStore,
                HandlerSteps, Call
<1>2. /\ "generate" \in DOMAIN HandlerSteps
      /\ {"qa_entity", "journal_qa", "qa_load", "qa_store"} \subseteq HandlerSteps["generate"]
      /\ {"qa_entity", "journal_qa", "qa_load", "qa_store"} \subseteq Steps
      /\ {"qa_entity", "journal_qa", "qa_load"} \cap WriteBackSteps = {}
  BY DEF HandlerSteps, Steps, WriteBackSteps
<1>0. thread[r].call.names # << >>
  BY DEF QaStep, QaPalette, QaEntity, JournalQa, QaLoad, QaStore, QaSteps,
         ThreadsTypeOK, AtOwnStep
<1>3. Primary(r) \in Names
  BY <1>0, <1>1, PrimaryTyped
<1>4. CASE QaPalette(r)
  <2> DEFINE t == [thread[r] EXCEPT !.pc = "qa_entity", !.passed = palette]
  <2>1. StoreTypeOK' /\ Become(r, t) /\ UNCHANGED <<faults, settledBy>>
    BY <1>4 DEF QaPalette, store, StoreTypeOK
  <2>2. t \in Thread /\ t.pc = "qa_entity" /\ t.call = thread[r].call
    BY <1>1, <1>2 DEF Thread, StoreTypeOK
  <2> HIDE DEF t
  <2> QED BY <1>0, <1>1, <1>2, <2>1, <2>2, MoveTyped
<1>5. CASE QaEntity(r)
  <2>1. StoreTypeOK' /\ UNCHANGED <<faults, settledBy>>
    BY <1>5 DEF QaEntity, store, StoreTypeOK
  <2>2. PICK match \in BOOLEAN : Become(r, [thread[r] EXCEPT
                !.pc = "journal_qa", !.passed = thread[r].passed /\ match])
    BY <1>5 DEF QaEntity, CharacterMatch
  <2> DEFINE passed == thread[r].passed /\ match
             t == [thread[r] EXCEPT !.pc = "journal_qa", !.passed = passed]
  <2>3. passed \in BOOLEAN
    OBVIOUS
  <2> HIDE DEF passed
  <2>4. t \in Thread /\ t.pc = "journal_qa" /\ t.call = thread[r].call
    BY <1>1, <1>2, <2>3 DEF Thread
  <2>5. Become(r, t)
    BY <2>2 DEF passed
  <2> HIDE DEF t
  <2> QED BY <1>0, <1>1, <1>2, <2>1, <2>4, <2>5, MoveTyped
<1>6. CASE JournalQa(r)
  <2>1. QaEvent(r) \in Event
    BY <1>1, <1>3 DEF QaEvent, Event, Thread
  <2>2. StoreTypeOK'
    BY <1>6, <2>1 DEF JournalQa, WriteEvent, StoreTypeOK
  <2>3. ThreadsTypeOK'
    BY <1>0, <1>1, <1>2, <1>6, NextCallTyped DEF JournalQa
  <2> QED BY <2>2, <2>3
<1>7. CASE QaLoad(r)
  <2> DEFINE body == entity[Primary(r)]
             t == [thread[r] EXCEPT !.pc = "qa_store", !.held = body]
  <2>1. StoreTypeOK' /\ UNCHANGED <<faults, settledBy>>
    BY <1>7 DEF QaLoad, store, StoreTypeOK
  <2>2. CASE Conclude(r)
    BY <1>1, <2>1, <2>2, ConcludeTyped
  <2>3. CASE body \in EntityBody /\ body # None /\ Become(r, t)
    <3> HIDE DEF body
    <3>1. t \in Thread /\ t.pc = "qa_store" /\ t.call = thread[r].call /\ t.held # None
      BY <1>1, <1>2, <2>3 DEF Thread
    <3> HIDE DEF t
    <3> QED BY <1>0, <1>1, <1>2, <2>1, <2>3, <3>1, MoveTyped
  <2> QED BY <1>3, <1>7, <2>2, <2>3 DEF QaLoad, StoreTypeOK
<1>8. CASE QaStore(r)
  <2> DEFINE t == thread[r]
             score == Learn(t.held.confidence[t.model], t.passed)
             scores == [t.held.confidence EXCEPT ![t.model] = score]
             body == [t.held EXCEPT !.confidence = scores]
  <2>1. t.held \in EntityBody /\ t.model \in Models \cup {None} /\ t.passed \in BOOLEAN
    BY <1>1, <1>8 DEF QaStore, ThreadsTypeOK, AtOwnStep, WriteBackSteps, Thread
  <2>2. t.held.confidence \in [Models -> 0..Scale]
    BY <2>1 DEF EntityBody
  <2>3. scores \in [Models -> 0..Scale]
    BY <2>1, <2>2, LearnTyped
  <2>4. entity' = [entity EXCEPT ![Primary(r)] = body]
    BY <1>8 DEF QaStore, SetEntity
  <2> HIDE DEF scores
  <2>5. body \in EntityBody
    BY <2>1, <2>3 DEF EntityBody
  <2> HIDE DEF body
  <2>6. StoreTypeOK'
    BY <1>8, <2>4, <2>5 DEF QaStore, StoreTypeOK
  <2>7. ThreadsTypeOK'
    BY <1>1, <1>8, ConcludeTyped DEF QaStore
  <2> QED BY <2>6, <2>7
<1> QED BY <1>4, <1>5, <1>6, <1>7, <1>8 DEF QaStep

LEMMA ReviewStepTyped ==
  ASSUME TypeOK, NEW r \in Requests, ReviewStep(r)
  PROVE  TypeOK'
<1> USE DEF TypeOK
<1>1. thread[r].call \in ReviewCall /\ thread[r].call.op = "review"
      /\ thread[r].call \in Call /\ thread[r] \in Thread
  BY AtStep DEF ReviewStep, ReviewLoad, ReviewStore, JournalReview, HandlerSteps, Call
<1>2. /\ "review" \in DOMAIN HandlerSteps
      /\ {"review_store", "journal_review"} \subseteq HandlerSteps["review"]
      /\ "review_store" \in Steps \ QaSteps
      /\ "journal_review" \notin WriteBackSteps \cup QaSteps
  BY DEF HandlerSteps, Steps, WriteBackSteps, QaSteps
<1>3. {"ok", "not_found"} \subseteq Answers
  BY DEF Answers
<1>4. CASE ReviewLoad(r)
  <2> DEFINE body == entity[thread[r].call.name]
             t == [thread[r] EXCEPT !.pc = "review_store", !.held = body]
  <2>1. StoreTypeOK' /\ UNCHANGED <<faults, settledBy>>
    BY <1>4 DEF ReviewLoad, store, StoreTypeOK
  <2>2. CASE Answer(r, "not_found")
    BY <1>1, <1>3, <2>1, <2>2, AnswerTyped DEF ThreadsTypeOK
  <2>3. CASE body \in EntityBody /\ body # None /\ Become(r, t)
    <3> HIDE DEF body
    <3>1. t \in Thread /\ t.pc = "review_store" /\ t.call = thread[r].call /\ t.held # None
      BY <1>1, <1>2, <2>3 DEF Thread
    <3> HIDE DEF t
    <3> QED BY <1>1, <1>2, <2>1, <2>3, <3>1, MoveTyped
  <2>4. thread[r].call.name \in Names
    BY <1>1 DEF ReviewCall
  <2> QED BY <1>4, <2>2, <2>3, <2>4 DEF ReviewLoad, StoreTypeOK
<1>5. CASE ReviewStore(r)
  <2> DEFINE body == [thread[r].held EXCEPT !.status = Verdict(thread[r].call.approved)]
  <2>1. thread[r].held \in EntityBody
    BY <1>1, <1>5 DEF ReviewStore, ThreadsTypeOK, AtOwnStep, WriteBackSteps, Thread
  <2>2. body \in EntityBody
    BY <2>1 DEF EntityBody, Verdict, Statuses
  <2>3. entity' = [entity EXCEPT ![thread[r].call.name] = body]
    BY <1>5 DEF ReviewStore, SetEntity
  <2> HIDE DEF body
  <2>4. StoreTypeOK'
    BY <1>5, <2>2, <2>3 DEF ReviewStore, StoreTypeOK
  <2>5. ThreadsTypeOK'
    BY <1>1, <1>2, <1>5, NextCallTyped DEF ReviewStore
  <2> QED BY <2>4, <2>5
<1>6. CASE JournalReview(r)
  <2>1. ReviewEvent(r) \in Event
    BY <1>1 DEF ReviewEvent, Event, ReviewCall
  <2>2. StoreTypeOK'
    BY <1>6, <2>1 DEF JournalReview, WriteEvent, StoreTypeOK
  <2>3. ThreadsTypeOK'
    BY <1>1, <1>3, <1>6, AnswerTyped DEF JournalReview, ThreadsTypeOK
  <2> QED BY <2>2, <2>3
<1> QED BY <1>4, <1>5, <1>6 DEF ReviewStep

LEMMA ArriveTyped ==
  ASSUME TypeOK, NEW r \in Requests, Arrive(r)
  PROVE  TypeOK'
<1> USE DEF TypeOK
<1>1. StoreTypeOK' /\ UNCHANGED <<faults, settledBy>>
  BY DEF Arrive, store, StoreTypeOK
<1>2. PICK c \in Workload[r] :
        \/ c.op = "onboard" /\ Become(r, [Idle EXCEPT !.pc = "set_palette", !.call = c])
        \/ /\ c.op # "onboard"
           /\ \E k \in Issued \cup {None} :
                Become(r, [Idle EXCEPT !.pc = "verify_key", !.call = c, !.key = k])
  BY DEF Arrive
<1>3. c \in Call
  BY ThreadsAssumption DEF ThreadsAssumption
<1>4. c.op \in {"onboard", "add", "generate", "review"}
  BY <1>3 DEF Call, OnboardCall, AddCall, GenerateCall, ReviewCall
<1>5. << >> \in Seq(Portrait) /\ {"set_palette", "verify_key"} \subseteq Steps \ (WriteBackSteps \cup QaSteps)
  BY DEF Steps, HandlerSteps, WriteBackSteps, QaSteps
<1>6. CASE c.op = "onboard" /\ Become(r, [Idle EXCEPT !.pc = "set_palette", !.call = c])
  <2> DEFINE t == [Idle EXCEPT !.pc = "set_palette", !.call = c]
  <2>1. t \in Thread /\ t.pc = "set_palette" /\ t.call = c
    BY <1>3, <1>5 DEF Thread, Idle
  <2>2. Become(r, t)
    BY <1>6
  <2> HIDE DEF t
  <2>3. "set_palette" \in HandlerSteps["onboard"]
    BY DEF HandlerSteps
  <2>4. AtOwnStep(t)
    BY <1>3, <1>5, <1>6, <2>1, <2>3 DEF AtOwnStep
  <2> QED BY <1>1, <2>1, <2>2, <2>4, BecomeTyped DEF ThreadsTypeOK
<1>7. ASSUME c.op # "onboard", NEW k \in Issued \cup {None},
             Become(r, [Idle EXCEPT !.pc = "verify_key", !.call = c, !.key = k])
      PROVE  TypeOK'
  <2> DEFINE t == [Idle EXCEPT !.pc = "verify_key", !.call = c, !.key = k]
  <2>0. k \in Requests \cup {None}
    BY DEF Issued
  <2>1. t \in Thread /\ t.pc = "verify_key" /\ t.call = c
    BY <1>3, <1>5, <2>0 DEF Thread, Idle
  <2>2. Become(r, t)
    BY <1>7
  <2> HIDE DEF t
  <2>3. "verify_key" \in HandlerSteps[c.op]
    BY <1>4, <1>7 DEF HandlerSteps
  <2>4. AtOwnStep(t)
    BY <1>3, <1>5, <2>1, <2>3 DEF AtOwnStep
  <2> QED BY <1>1, <2>1, <2>2, <2>4, BecomeTyped DEF ThreadsTypeOK
<1> QED BY <1>2, <1>6, <1>7

LEMMA ReplyOrRaiseTyped ==
  ASSUME TypeOK, NEW r \in Requests, Reply(r) \/ Raise(r)
  PROVE  TypeOK'
<1> USE AtStep DEF TypeOK
<1>1. StoreTypeOK'
  BY DEF Reply, Raise, store, StoreTypeOK
<1>2. CASE Reply(r)
  BY <1>1, <1>2, GotoTyped, NotHandlerSteps DEF Reply
<1>3. CASE Raise(r)
  <2>1. faults' \in 0..MaxFaults /\ "error" \in Answers
    BY <1>3, ThreadsAssumption DEF Raise, ThreadsTypeOK, ThreadsAssumption, Answers
  <2> QED BY <1>1, <1>3, <2>1, AnswerTyped DEF Raise, InHandler, ThreadsTypeOK
<1> QED BY <1>2, <1>3

LEMMA CrashTyped ==
  ASSUME TypeOK, Crash
  PROVE  TypeOK'
<1> USE DEF TypeOK
<1>1. StoreTypeOK' /\ settledBy' = settledBy
  BY DEF Crash, store, StoreTypeOK
<1>2. faults' \in 0..MaxFaults
  <2>1. faults \in 0..MaxFaults /\ MaxFaults \in Nat
    BY ThreadsAssumption DEF ThreadsTypeOK, ThreadsAssumption
  <2>2. faults < MaxFaults /\ faults' = faults + 1
    BY DEF Crash
  <2> QED BY <2>1, <2>2
<1> DEFINE lost(q) == [Idle EXCEPT !.pc = "done", !.call = thread[q].call, !.answer = "lost"]
<1>3. ASSUME NEW q \in Requests
      PROVE  thread'[q] \in Thread /\ AtOwnStep(thread'[q])
  <2>1. CASE q \in InFlight
    <3>1. thread[q].call \in Call
      BY <2>1 DEF InFlight, ThreadsTypeOK, AtOwnStep
    <3>2. << >> \in Seq(Portrait) /\ "lost" \in Answers
      BY DEF Answers
    <3>3. lost(q) \in Thread /\ lost(q).pc = "done" /\ lost(q).call \in Call
      BY <3>1, <3>2 DEF Thread, Idle
    <3>4. thread'[q] = lost(q)
      BY <2>1 DEF Crash
    <3> HIDE DEF lost
    <3> QED BY <3>3, <3>4, NotHandlerSteps DEF AtOwnStep
  <2>2. CASE q \notin InFlight
    BY <2>2 DEF Crash, ThreadsTypeOK
  <2> QED BY <2>1, <2>2
<1>4. thread' \in [Requests -> Thread]
  BY <1>3 DEF Crash
<1>5. \A q \in Requests : AtOwnStep(thread[q])' = AtOwnStep(thread'[q])
  BY DEF AtOwnStep
<1> QED BY <1>1, <1>2, <1>3, <1>4, <1>5 DEF ThreadsTypeOK

LEMMA OperatorTyped ==
  ASSUME TypeOK, Operator
  PROVE  TypeOK'
  BY DEF TypeOK, Operator, SetBudget, Retire, SetEntity, StoreTypeOK,
         threads, ThreadsTypeOK, AtOwnStep

LEMMA StutterTyped ==
  ASSUME TypeOK, UNCHANGED vars
  PROVE  TypeOK'
  BY DEF TypeOK, StoreTypeOK, ThreadsTypeOK, AtOwnStep, vars, store, threads

LEMMA InitTyped ==
  ASSUME Init
  PROVE  TypeOK
<1>1. StoreTypeOK
  <2>1. journal \in Seq(Event)
    BY DEF Init, EmptyStore
  <2>2. entity \in [Names -> EntityBody \cup {None}]
    BY DEF Init, EmptyStore
  <2> QED BY <2>1, <2>2 DEF Init, EmptyStore, StoreTypeOK
<1>2. << >> \in Seq(Portrait)
  OBVIOUS
<1>3. Idle \in Thread
  BY <1>2 DEF Idle, Thread
<1>4. Idle.pc = "idle"
  BY DEF Idle
<1>5. AtOwnStep(Idle)
  BY <1>4, NotHandlerSteps DEF AtOwnStep
<1>6. ThreadsTypeOK
  BY <1>3, <1>5, ThreadsAssumption DEF Init, ThreadsInit, ThreadsTypeOK, ThreadsAssumption
<1> QED BY <1>1, <1>6 DEF TypeOK

LEMMA StepTyped ==
  ASSUME TypeOK, [Next]_vars
  PROVE  TypeOK'
<1>1. ASSUME NEW r \in Requests, Proceed(r) \/ Fault(r) \/ Arrive(r)
      PROVE  TypeOK'
  BY <1>1, KeyStepTyped, BrandStepTyped, PayStepTyped, GenerateStepTyped, QaStepTyped,
     ReviewStepTyped, ArriveTyped, ReplyOrRaiseTyped DEF Proceed, Fault
<1> QED BY <1>1, CrashTyped, OperatorTyped, StutterTyped DEF Next

\* Every variable of the store and of the threads keeps its type, every thread
\* stands at a step of its own request's handler, and none is about to write
\* back an entity body it has not read.
THEOREM TypeCorrect == Spec => []TypeOK
<1>1. Init => TypeOK
  BY InitTyped
<1>2. TypeOK /\ [Next]_vars => TypeOK'
  BY StepTyped
<1> QED BY <1>1, <1>2, PTL DEF Spec

-----------------------------------------------------------------------------
(* The shape of a step: where a thread may go next, and what it takes the     *)
(* journal and the payments along.                                            *)

Follows(from, to) ==
  \/ from = "idle" /\ to \in {"set_palette", "verify_key"}
  \/ from = "set_palette" /\ to = "get_key"
  \/ from = "get_key" /\ to = "set_key"
  \/ from = "verify_key" /\ to \in {"create_entity", "review_load"}
  \/ from = "verify_key" /\ to = (IF Metered THEN "read_policy" ELSE "load_entities")
  \/ from = "read_policy" /\ to = "verify_payment"
  \/ from = "verify_payment" /\ to = "settle_payment"
  \/ from = "settle_payment" /\ to = "load_entities"
  \/ from = "load_entities" /\ to \in {"load_entities", "call_model"}
  \/ from = "call_model" /\ to = "journal_generation"
  \/ from = "journal_generation" /\ to \in {"qa_palette", "record_cost"}
  \/ from = "qa_palette" /\ to = "qa_entity"
  \/ from = "qa_entity" /\ to = "journal_qa"
  \/ from = "journal_qa" /\ to = "qa_load"
  \/ from = "qa_load" /\ to \in {"qa_store", "record_cost"}
  \/ from = "qa_store" /\ to = "record_cost"
  \/ from = "review_load" /\ to = "review_store"
  \/ from = "review_store" /\ to = "journal_review"
  \/ from = "reply" /\ to = "done"
  \/ from \in Steps /\ to = "reply"

\* A step of the thread of r, seen from the threads alone.
Advances(r) ==
  /\ \A q \in Requests \ {r} : thread'[q] = thread[q]
  /\ Follows(thread[r].pc, thread'[r].pc)
  /\ thread[r].pc # "idle" => thread'[r].call = thread[r].call
  /\ thread'[r].pc \in {"journal_generation", "qa_palette", "qa_entity", "journal_qa"}
       => thread'[r].model = thread[r].model

LEMMA GotoAdvances ==
  ASSUME ThreadsTypeOK, NEW r \in Requests, NEW to, Goto(r, to), Follows(thread[r].pc, to)
  PROVE  Advances(r)
  BY DEF ThreadsTypeOK, Goto, Become, Advances, Thread

LEMMA AnswerAdvances ==
  ASSUME ThreadsTypeOK, NEW r \in Requests, NEW answer, Answer(r, answer),
         thread[r].pc \in Steps
  PROVE  Advances(r)
<1>1. /\ \A q \in Requests \ {r} : thread'[q] = thread[q]
      /\ thread'[r] = [Idle EXCEPT !.pc = "reply", !.call = thread[r].call,
                                   !.key = thread[r].key, !.answer = answer]
  BY DEF ThreadsTypeOK, Answer, Become
<1>2. thread'[r].pc = "reply" /\ thread'[r].call = thread[r].call
  BY <1>1 DEF Idle
<1> QED BY <1>1, <1>2 DEF Advances, Follows

LEMMA ConcludeAdvances ==
  ASSUME ThreadsTypeOK, NEW r \in Requests, Conclude(r), thread[r].pc \in Steps,
         Follows(thread[r].pc, "record_cost")
  PROVE  Advances(r)
  BY GotoAdvances, AnswerAdvances DEF Conclude

LEMMA ProceedAdvances ==
  ASSUME TypeOK, NEW r \in Requests, Proceed(r) \/ Fault(r)
  PROVE  Advances(r)
<1> USE GotoAdvances, AnswerAdvances, ConcludeAdvances DEF TypeOK
<1>0. thread[r] \in Thread
  BY DEF ThreadsTypeOK
<1>1. CASE KeyStep(r)
  <2>1. CASE IssueKeyCheck(r)
    BY <2>1 DEF IssueKeyCheck, Follows, Steps, HandlerSteps
  <2>2. CASE IssueKeyStore(r)
    <3>1. thread[r].pc = "set_key" /\ "set_key" \in Steps
      BY <2>2 DEF IssueKeyStore, Steps, HandlerSteps
    <3> QED BY <1>0, <2>2, <3>1
      DEF IssueKeyStore, Become, Advances, Follows, ThreadsTypeOK, Thread
  <2>3. CASE VerifyKey(r)
    <3>1. thread[r].pc = "verify_key" /\ "verify_key" \in Steps
      BY <2>3 DEF VerifyKey, Steps, HandlerSteps
    <3>2. thread[r].call.op \in {"add", "generate", "review"}
      BY <3>1, CallOfStep DEF ThreadsTypeOK, HandlerSteps
    <3> DEFINE step == Authorized(thread[r].call.op)
    <3>3. Follows("verify_key", step)
      BY <3>2, ThreadsAssumption DEF Follows, Authorized, ThreadsAssumption
    <3>4. step \notin {"journal_generation", "qa_palette", "qa_entity", "journal_qa"}
      BY <3>2 DEF Authorized
    <3> HIDE DEF step
    <3>5. CASE Become(r, [thread[r] EXCEPT !.pc = step, !.key = None])
      BY <1>0, <3>1, <3>3, <3>4, <3>5 DEF Become, Advances, ThreadsTypeOK, Thread
    <3> QED BY <2>3, <3>1, <3>5 DEF VerifyKey, step
  <2> QED BY <1>1, <2>1, <2>2, <2>3 DEF KeyStep
<1>2. CASE BrandStep(r)
  BY <1>2 DEF BrandStep, SetPalette, CreateEntity, Follows, Steps, HandlerSteps
<1>3. CASE PayStep(r) \/ SettlementLost(r)
  BY <1>3 DEF PayStep, ReadPolicy, VerifyPayment, SettlePayment, RecordCost,
              SettlementLost, Follows, Steps, HandlerSteps
<1>4. CASE GenerateStep(r)
  <2>1. CASE LoadEntity(r)
    <3>1. thread[r].pc = "load_entities" /\ "load_entities" \in Steps
      BY <2>1 DEF LoadEntity, Steps, HandlerSteps
    <3>2. ASSUME NEW seq, Become(r, [thread[r] EXCEPT !.loaded = seq])
          PROVE  Advances(r)
      BY <1>0, <3>1, <3>2 DEF Become, Advances, Follows, ThreadsTypeOK, Thread
    <3> QED BY <2>1, <3>1, <3>2 DEF LoadEntity
  <2>2. CASE Route(r)
    <3>1. thread[r].pc = "load_entities" /\ "load_entities" \in Steps
      BY <2>2 DEF Route, Steps, HandlerSteps
    <3>2. ASSUME NEW m, Become(r, [thread[r] EXCEPT !.pc = "call_model", !.model = m,
                                                    !.loaded = << >>])
          PROVE  Advances(r)
      BY <1>0, <3>1, <3>2 DEF Become, Advances, Follows, ThreadsTypeOK, Thread
    <3> QED BY <2>2, <3>1, <3>2 DEF Route
  <2>3. CASE CallModel(r)
    BY <2>3 DEF CallModel, Follows, Steps, HandlerSteps
  <2>4. CASE JournalGeneration(r)
    BY <2>4 DEF JournalGeneration, Follows, Steps, HandlerSteps
  <2> QED BY <1>4, <2>1, <2>2, <2>3, <2>4 DEF GenerateStep
<1>5. CASE QaStep(r)
  <2>1. CASE QaPalette(r)
    BY <1>0, <2>1 DEF QaPalette, Become, Advances, Follows, ThreadsTypeOK, Thread
  <2>2. CASE QaEntity(r)
    <3>1. ASSUME NEW b, Become(r, [thread[r] EXCEPT !.pc = "journal_qa", !.passed = b]),
                 thread[r].pc = "qa_entity"
          PROVE  Advances(r)
      BY <1>0, <3>1 DEF Become, Advances, Follows, ThreadsTypeOK, Thread
    <3> QED BY <2>2, <3>1 DEF QaEntity
  <2>3. CASE JournalQa(r)
    BY <2>3 DEF JournalQa, Follows
  <2>4. CASE QaLoad(r)
    <3>1. ASSUME NEW body, Become(r, [thread[r] EXCEPT !.pc = "qa_store", !.held = body]),
                 thread[r].pc = "qa_load"
          PROVE  Advances(r)
      BY <1>0, <3>1 DEF Become, Advances, Follows, ThreadsTypeOK, Thread
    <3>2. thread[r].pc = "qa_load" /\ "qa_load" \in Steps
      BY <2>4 DEF QaLoad, Steps, HandlerSteps
    <3>3. Follows("qa_load", "record_cost")
      BY DEF Follows
    <3> DEFINE body == entity[Primary(r)]
    <3>4. Conclude(r) \/ Become(r, [thread[r] EXCEPT !.pc = "qa_store", !.held = body])
      BY <2>4 DEF QaLoad
    <3> HIDE DEF body
    <3> QED BY <3>1, <3>2, <3>3, <3>4
  <2>5. CASE QaStore(r)
    BY <2>5 DEF QaStore, Follows, Steps, HandlerSteps
  <2> QED BY <1>5, <2>1, <2>2, <2>3, <2>4, <2>5 DEF QaStep
<1>6. CASE ReviewStep(r)
  <2>1. CASE ReviewLoad(r)
    <3>1. ASSUME NEW body, Become(r, [thread[r] EXCEPT !.pc = "review_store", !.held = body]),
                 thread[r].pc = "review_load"
          PROVE  Advances(r)
      BY <1>0, <3>1 DEF Become, Advances, Follows, ThreadsTypeOK, Thread
    <3>2. thread[r].pc = "review_load" /\ "review_load" \in Steps
      BY <2>1 DEF ReviewLoad, Steps, HandlerSteps
    <3> DEFINE body == entity[thread[r].call.name]
    <3>3. \/ Answer(r, "not_found")
          \/ Become(r, [thread[r] EXCEPT !.pc = "review_store", !.held = body])
      BY <2>1 DEF ReviewLoad
    <3> HIDE DEF body
    <3> QED BY <3>1, <3>2, <3>3
  <2>2. CASE ReviewStore(r) \/ JournalReview(r)
    BY <2>2 DEF ReviewStore, JournalReview, Follows, Steps, HandlerSteps
  <2> QED BY <1>6, <2>1, <2>2 DEF ReviewStep
<1>7. CASE Reply(r)
  BY <1>7 DEF Reply, Follows
<1>8. CASE Raise(r)
  BY <1>8 DEF Raise, InHandler
<1> QED BY <1>1, <1>2, <1>3, <1>4, <1>5, <1>6, <1>7, <1>8 DEF Proceed, Fault

LEMMA ArriveAdvances ==
  ASSUME TypeOK, NEW r \in Requests, Arrive(r)
  PROVE  Advances(r)
<1>1. ASSUME NEW c, NEW k, NEW to \in {"set_palette", "verify_key"},
             \/ Become(r, [Idle EXCEPT !.pc = to, !.call = c])
             \/ Become(r, [Idle EXCEPT !.pc = to, !.call = c, !.key = k])
      PROVE  /\ \A q \in Requests \ {r} : thread'[q] = thread[q]
             /\ thread'[r].pc = to
  BY <1>1 DEF TypeOK, ThreadsTypeOK, Become, Idle
<1>2. thread[r].pc = "idle"
  BY DEF Arrive
<1>3. PICK to \in {"set_palette", "verify_key"} :
        /\ \A q \in Requests \ {r} : thread'[q] = thread[q]
        /\ thread'[r].pc = to
  BY <1>1 DEF Arrive
<1> QED BY <1>2, <1>3 DEF Advances, Follows

\* Who moved a thread that moved.
LEMMA Movers ==
  ASSUME TypeOK, [Next]_vars, NEW q \in Requests, thread'[q] # thread[q]
  PROVE  Arrive(q) \/ Proceed(q) \/ Fault(q) \/ Crash
<1>1. ASSUME NEW r \in Requests, Arrive(r) \/ Proceed(r) \/ Fault(r), r # q
      PROVE  FALSE
  BY <1>1, ProceedAdvances, ArriveAdvances DEF Advances
<1>2. ~Operator /\ ~UNCHANGED vars
  BY DEF Operator, SetBudget, Retire, vars, threads
<1> QED BY <1>1, <1>2 DEF Next

LEMMA CrashEnds ==
  ASSUME Crash, NEW q \in Requests, thread'[q] # thread[q]
  PROVE  thread'[q].pc = "done" /\ thread'[q].call = thread[q].call
         /\ thread[q].pc # "idle"
<1>1. q \in InFlight
  BY DEF Crash
<1>2. thread'[q] = [Idle EXCEPT !.pc = "done", !.call = thread[q].call, !.answer = "lost"]
  BY <1>1 DEF Crash
<1> QED BY <1>1, <1>2 DEF Idle, InFlight

\* The one step a thread takes from where it stands.
LEMMA Moves ==
  ASSUME TypeOK, [Next]_vars, NEW q \in Requests, thread'[q] # thread[q]
  PROVE  Advances(q) \/ (Crash /\ thread'[q].pc = "done")
  BY Movers, CrashEnds, ProceedAdvances, ArriveAdvances

LEMMA CallsStay ==
  ASSUME TypeOK, [Next]_vars, NEW q \in Requests, thread[q].pc # "idle"
  PROVE  thread'[q].call = thread[q].call /\ thread'[q].pc # "idle"
<1>1. CASE Advances(q)
  BY <1>1, NotHandlerSteps DEF Advances, Follows
<1> QED BY <1>1, Movers, CrashEnds, ProceedAdvances, ArriveAdvances

\* Money only moves in a settlement, and a payment settles once.
LEMMA PaymentsMove ==
  ASSUME TypeOK, [Next]_vars
  PROVE  \/ settledBy' = settledBy
         \/ \E r \in Requests : /\ thread[r].pc = "settle_payment"
                                /\ settledBy[PaymentOf(r)] = None
                                /\ Transfer(r)
<1>1. ASSUME NEW r \in Requests, Proceed(r) \/ Fault(r) \/ Arrive(r)
      PROVE  \/ settledBy' = settledBy
             \/ SettlePayment(r) \/ SettlementLost(r)
  BY <1>1 DEF Proceed, Fault, Arrive, KeyStep, IssueKeyCheck, IssueKeyStore, VerifyKey,
              BrandStep, SetPalette, CreateEntity, PayStep, ReadPolicy, VerifyPayment,
              RecordCost, GenerateStep, LoadEntity, Route, CallModel, JournalGeneration,
              QaStep, QaPalette, QaEntity, JournalQa, QaLoad, QaStore,
              ReviewStep, ReviewLoad, ReviewStore, JournalReview, Reply, Raise
<1>2. ASSUME NEW r \in Requests, SettlePayment(r) \/ SettlementLost(r)
      PROVE  \/ settledBy' = settledBy
             \/ /\ thread[r].pc = "settle_payment"
                /\ settledBy[PaymentOf(r)] = None
                /\ Transfer(r)
  BY <1>2 DEF SettlePayment, SettlementLost
<1>3. Crash \/ Operator \/ UNCHANGED vars => settledBy' = settledBy
  BY DEF Crash, Operator, SetBudget, Retire, threads, vars
<1> QED BY <1>1, <1>2, <1>3 DEF Next

LEMMA JournalMoves ==
  ASSUME TypeOK, [Next]_vars
  PROVE  \/ journal' = journal
         \/ \E r \in Requests : JournalGeneration(r) \/ JournalQa(r) \/ RecordCost(r)
                                \/ JournalReview(r)
<1>1. ASSUME NEW r \in Requests, Proceed(r) \/ Fault(r) \/ Arrive(r)
      PROVE  \/ journal' = journal
             \/ JournalGeneration(r) \/ JournalQa(r) \/ RecordCost(r) \/ JournalReview(r)
  BY <1>1 DEF Proceed, Fault, Arrive, KeyStep, IssueKeyCheck, IssueKeyStore, VerifyKey,
              BrandStep, SetPalette, CreateEntity, PayStep, ReadPolicy, VerifyPayment,
              SettlePayment, SettlementLost, GenerateStep, LoadEntity, Route, CallModel,
              QaStep, QaPalette, QaEntity, QaLoad, QaStore,
              ReviewStep, ReviewLoad, ReviewStore, Reply, Raise, store
<1>2. Crash \/ Operator \/ UNCHANGED vars => journal' = journal
  BY DEF Crash, Operator, SetBudget, Retire, store, vars
<1> QED BY <1>1, <1>2 DEF Next
=============================================================================
