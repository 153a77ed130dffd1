----------------------------- MODULE ApartProofs -----------------------------
(***************************************************************************)
(* Theorems about what a handler reads and later writes back.  Those of    *)
(* Spec hold for every pool of threads; those of ApartSpec as long as no   *)
(* two requests rewrite one record at a time: then what a handler has read *)
(* is still so when it writes, and the reads and writes of each handler    *)
(* make up one operation of AtomicBrand.                                   *)
(***************************************************************************)
EXTENDS AuditProofs

-----------------------------------------------------------------------------
(* Keys that were shown. *)

\* The key a client presents, or was given, stays with the thread.
LEMMA AnswerKeepsKey ==
  ASSUME ThreadsTypeOK, NEW r \in Requests, NEW answer, Answer(r, answer)
  PROVE  thread'[r].key = thread[r].key /\ thread'[r].answer = answer /\ thread'[r].pc = "reply"
<1>1. thread'[r] = [Idle EXCEPT !.pc = "reply", !.call = thread[r].call,
                                !.key = thread[r].key, !.answer = answer]
  BY DEF ThreadsTypeOK, Answer, Become
<1> QED BY <1>1 DEF Idle

LEMMA GotoKeepsKey ==
  ASSUME ThreadsTypeOK, NEW r \in Requests, NEW to, Goto(r, to)
  PROVE  thread'[r].key = thread[r].key /\ thread'[r].answer = thread[r].answer
         /\ thread'[r].pc = to
  BY DEF ThreadsTypeOK, Thread, Goto, Become

LEMMA ConcludeKeepsKey ==
  ASSUME ThreadsTypeOK, NEW r \in Requests, Conclude(r)
  PROVE  thread'[r].key = thread[r].key
  BY AnswerKeepsKey, GotoKeepsKey DEF Conclude

LEMMA KeyKept ==
  ASSUME TypeOK, NEW r \in Requests, Proceed(r) \/ Fault(r), ~IssueKeyStore(r), ~VerifyKey(r)
  PROVE  thread'[r].key = thread[r].key
<1> USE AnswerKeepsKey, GotoKeepsKey, ConcludeKeepsKey DEF TypeOK
<1>0. thread[r] \in Thread
  BY DEF ThreadsTypeOK
<1>1. CASE IssueKeyCheck(r) \/ BrandStep(r) \/ PayStep(r) \/ Fault(r) \/ Reply(r)
  BY <1>1 DEF IssueKeyCheck, BrandStep, SetPalette, CreateEntity, PayStep, ReadPolicy,
     VerifyPayment, SettlePayment, RecordCost, Fault, Raise, SettlementLost, Reply
<1>2. CASE LoadEntity(r)
  <2>1. ASSUME NEW seq, Become(r, [thread[r] EXCEPT !.loaded = seq])
        PROVE  thread'[r].key = thread[r].key
    BY <1>0, <2>1 DEF Become, ThreadsTypeOK, Thread
  <2> QED BY <1>2, <2>1 DEF LoadEntity
<1>3. CASE Route(r)
  <2>1. ASSUME NEW m, Become(r, [thread[r] EXCEPT !.pc = "call_model", !.model = m,
                                                  !.loaded = << >>])
        PROVE  thread'[r].key = thread[r].key
    BY <1>0, <2>1 DEF Become, ThreadsTypeOK, Thread
  <2> QED BY <1>3, <2>1 DEF Route
<1>4. CASE CallModel(r) \/ JournalGeneration(r) \/ JournalQa(r) \/ QaStore(r)
           \/ ReviewStore(r) \/ JournalReview(r)
  BY <1>4 DEF CallModel, JournalGeneration, JournalQa, QaStore, ReviewStore, JournalReview
<1>5. CASE QaPalette(r)
  BY <1>0, <1>5 DEF QaPalette, Become, ThreadsTypeOK, Thread
<1>6. CASE QaEntity(r)
  <2>1. ASSUME NEW b, Become(r, [thread[r] EXCEPT !.pc = "journal_qa", !.passed = b])
        PROVE  thread'[r].key = thread[r].key
    BY <1>0, <2>1 DEF Become, ThreadsTypeOK, Thread
  <2> QED BY <1>6, <2>1 DEF QaEntity
<1>7. ASSUME NEW body, NEW to, Become(r, [thread[r] EXCEPT !.pc = to, !.held = body])
      PROVE  thread'[r].key = thread[r].key
  BY <1>0, <1>7 DEF Become, ThreadsTypeOK, Thread
<1>8. CASE QaLoad(r)
  <2> DEFINE body == entity[Primary(r)]
  <2>1. Conclude(r) \/ Become(r, [thread[r] EXCEPT !.pc = "qa_store", !.held = body])
    BY <1>8 DEF QaLoad
  <2> HIDE DEF body
  <2> QED BY <1>7, <2>1
<1>9. CASE ReviewLoad(r)
  <2> DEFINE body == entity[thread[r].call.name]
  <2>1. \/ Answer(r, "not_found")
        \/ Become(r, [thread[r] EXCEPT !.pc = "review_store", !.held = body])
    BY <1>9 DEF ReviewLoad
  <2> HIDE DEF body
  <2> QED BY <1>7, <2>1
<1> QED BY <1>1, <1>2, <1>3, <1>4, <1>5, <1>6, <1>7, <1>8, <1>9
        DEF Proceed, KeyStep, GenerateStep, QaStep, ReviewStep

\* A client has been shown, or is being shown, the key its request drew.
Shown(r) ==
  thread[r].pc \in {"reply", "done"} /\ thread[r].answer = "ok" /\ thread[r].key = r

\* Past the check of its key a handler holds none.
KeyGone(r) == thread[r].pc \in Steps \ {"verify_key"} => thread[r].key = None

KeyInv == TypeOK /\ \A r \in Requests : KeyGone(r)

AfterKeySteps == Steps \ {"verify_key"}

LEMMA AfterKey ==
  ASSUME NEW q \in Requests, Proceed(q) \/ Fault(q), thread[q].pc # "verify_key"
  PROVE  thread[q].pc \in AfterKeySteps \cup {"reply"}
<1> DEFINE named == {"set_palette", "get_key", "set_key", "create_entity", "read_policy",
      "verify_payment", "settle_payment", "load_entities", "call_model", "journal_generation",
      "qa_palette", "qa_entity", "journal_qa", "qa_load", "qa_store", "record_cost",
      "review_load", "review_store", "journal_review"}
<1>1. CASE Raise(q)
  BY <1>1 DEF Raise, InHandler, AfterKeySteps
<1>2. CASE ~Raise(q)
  <2>1. thread[q].pc \in named \cup {"reply"}
    BY <1>2 DEF Proceed, Fault, KeyStep, IssueKeyCheck, IssueKeyStore, VerifyKey, BrandStep,
       SetPalette, CreateEntity, PayStep, ReadPolicy, VerifyPayment, SettlePayment, RecordCost,
       SettlementLost, GenerateStep, LoadEntity, Route, CallModel, JournalGeneration, QaStep,
       QaPalette, QaEntity, JournalQa, QaLoad, QaStore, ReviewStep, ReviewLoad, ReviewStore,
       JournalReview, Reply
  <2>2. named \subseteq AfterKeySteps
    BY DEF AfterKeySteps, Steps, HandlerSteps
  <2> QED BY <2>1, <2>2
<1> QED BY <1>1, <1>2

LEMMA VerifyKeyForgets ==
  ASSUME TypeOK, NEW r \in Requests, VerifyKey(r)
  PROVE  \/ thread'[r].key = None /\ thread'[r].pc # "verify_key" /\ thread'[r].pc \in Steps
         \/ thread'[r].pc = "reply" /\ thread'[r].answer = "unauthorized"
<1>1. CASE Answer(r, "unauthorized")
  BY <1>1, AnswerKeepsKey DEF TypeOK
<1>2. thread[r].call.op \in {"add", "generate", "review"}
  BY CallOfStep DEF TypeOK, ThreadsTypeOK, VerifyKey, Steps, HandlerSteps
<1> DEFINE step == Authorized(thread[r].call.op)
<1>3. step \in Steps /\ step # "verify_key"
  BY <1>2 DEF Authorized, Steps, HandlerSteps
<1> HIDE DEF step
<1>4. CASE Become(r, [thread[r] EXCEPT !.pc = step, !.key = None])
  BY <1>3, <1>4 DEF Become, TypeOK, ThreadsTypeOK, Thread
<1> QED BY <1>1, <1>4 DEF VerifyKey, step

LEMMA ArriveBare ==
  ASSUME TypeOK, NEW r \in Requests, Arrive(r)
  PROVE  /\ thread'[r].pc = "verify_key" \/ (thread'[r].pc = "set_palette" /\ thread'[r].key = None)
<1>1. ASSUME NEW c, Become(r, [Idle EXCEPT !.pc = "set_palette", !.call = c])
      PROVE  thread'[r].pc = "set_palette" /\ thread'[r].key = None
  BY <1>1 DEF TypeOK, ThreadsTypeOK, Become, Idle
<1>2. ASSUME NEW c, NEW k, Become(r, [Idle EXCEPT !.pc = "verify_key", !.call = c, !.key = k])
      PROVE  thread'[r].pc = "verify_key"
  BY <1>2 DEF TypeOK, ThreadsTypeOK, Become, Idle
<1> QED BY <1>1, <1>2 DEF Arrive

LEMMA IssueKeyStoreShows ==
  ASSUME TypeOK, NEW r \in Requests, IssueKeyStore(r)
  PROVE  apiKey' = r /\ thread[r].pc = "set_key" /\ thread'[r].pc = "reply" /\ Shown(r)'
  BY DEF IssueKeyStore, Become, Shown, TypeOK, ThreadsTypeOK, Thread

LEMMA KeyGoneStep ==
  ASSUME KeyInv, [Next]_vars, NEW q \in Requests
  PROVE  KeyGone(q)'
<1> USE DEF KeyInv, KeyGone
<1>1. CASE thread'[q] = thread[q]
  BY <1>1
<1>2. CASE Crash /\ thread'[q] # thread[q]
  BY <1>2, CrashEnds, NotHandlerSteps
<1>3. CASE Arrive(q)
  BY <1>3, ArriveBare
<1>4. CASE VerifyKey(q)
  BY <1>4, VerifyKeyForgets, NotHandlerSteps
<1>5. CASE IssueKeyStore(q)
  BY <1>5, IssueKeyStoreShows, NotHandlerSteps
<1>6. CASE (Proceed(q) \/ Fault(q)) /\ ~VerifyKey(q) /\ ~IssueKeyStore(q)
  <2>1. thread'[q].key = thread[q].key
    BY <1>6, KeyKept
  <2>2. thread[q].pc # "verify_key" \/ thread'[q].pc = "reply"
    <3>1. ASSUME thread[q].pc = "verify_key" PROVE Raise(q)
      BY <1>6, <3>1 DEF Proceed, Fault, KeyStep, IssueKeyCheck, BrandStep, SetPalette, CreateEntity,
         PayStep, ReadPolicy, VerifyPayment, SettlePayment, RecordCost, SettlementLost, GenerateStep,
         LoadEntity, Route, CallModel, JournalGeneration, QaStep, QaPalette, QaEntity, JournalQa,
         QaLoad, QaStore, ReviewStep, ReviewLoad, ReviewStore, JournalReview, Reply
    <3> QED BY <3>1, AnswerKeepsKey DEF Raise, TypeOK
  <2>3. Advances(q)
    BY <1>6, ProceedAdvances
  <2>4. thread[q].pc # "verify_key" => thread[q].pc \in AfterKeySteps \cup {"reply"}
    BY <1>6, AfterKey
  <2> QED BY <2>1, <2>2, <2>3, <2>4, NotHandlerSteps DEF AfterKeySteps, Advances, Follows
<1> QED BY <1>1, <1>2, <1>3, <1>4, <1>5, <1>6, Movers

LEMMA KeyInit == Init => KeyInv
<1> SUFFICES ASSUME Init PROVE KeyInv
  OBVIOUS
<1>1. \A r \in Requests : thread[r].pc = "idle"
  BY DEF Init, ThreadsInit, Idle
<1> QED BY <1>1, InitTyped, NotHandlerSteps DEF KeyInv, KeyGone

LEMMA KeyInvariant == Spec => []KeyInv
<1>1. KeyInv /\ [Next]_vars => KeyInv'
  BY StepTyped, KeyGoneStep DEF KeyInv
<1> QED BY <1>1, KeyInit, PTL DEF Spec

\* Only the onboarding that stores a key shows it.
LEMMA ShownBy ==
  ASSUME KeyInv, [Next]_vars, NEW q \in Requests, Shown(q)'
  PROVE  Shown(q) \/ IssueKeyStore(q)
<1> USE DEF KeyInv
<1>0. q # None
  BY TenantStoreAssumption DEF TenantStoreAssumption
<1>1. CASE thread'[q] = thread[q]
  BY <1>1 DEF Shown
<1>2. CASE Crash /\ thread'[q] # thread[q]
  <2>1. thread'[q] = [Idle EXCEPT !.pc = "done", !.call = thread[q].call, !.answer = "lost"]
    BY <1>2 DEF Crash
  <2> QED BY <2>1 DEF Shown, Idle
<1>3. CASE Arrive(q)
  BY <1>3, ArriveBare DEF Shown
<1>4. CASE VerifyKey(q)
  BY <1>4, VerifyKeyForgets, NotHandlerSteps DEF Shown
<1>5. CASE Reply(q)
  BY <1>5, GotoKeepsKey DEF Reply, Shown, TypeOK
<1>6. CASE Raise(q)
  BY <1>6, AnswerKeepsKey DEF Raise, Shown, TypeOK
<1>7. CASE (Proceed(q) \/ Fault(q)) /\ ~VerifyKey(q) /\ ~IssueKeyStore(q) /\ ~Reply(q) /\ ~Raise(q)
  <2>1. thread[q].pc \in Steps \ {"verify_key"}
    <3>1. thread[q].pc # "reply" /\ thread[q].pc # "verify_key"
      BY <1>7, NotHandlerSteps DEF Proceed, Fault, KeyStep, IssueKeyCheck, BrandStep, SetPalette,
         CreateEntity, PayStep, ReadPolicy, VerifyPayment, SettlePayment, RecordCost, SettlementLost,
         GenerateStep, LoadEntity, Route, CallModel, JournalGeneration, QaStep, QaPalette, QaEntity,
         JournalQa, QaLoad, QaStore, ReviewStep, ReviewLoad, ReviewStore, JournalReview
    <3> QED BY <1>7, <3>1, AfterKey DEF AfterKeySteps
  <2>2. thread'[q].key = None
    BY <1>7, <2>1, KeyKept DEF KeyGone
  <2> QED BY <1>0, <2>2 DEF Shown
<1> QED BY <1>1, <1>2, <1>3, <1>4, <1>5, <1>6, <1>7, Movers

\* What was shown stays shown, unless the process dies with it on the way.
LEMMA ShownStays ==
  ASSUME TypeOK, [Next]_vars, NEW q \in Requests, Shown(q), ~Crash
  PROVE  Shown(q)'
<1>1. CASE thread'[q] = thread[q]
  BY <1>1 DEF Shown
<1>2. CASE thread'[q] # thread[q]
  <2>1. Reply(q)
    <3>1. thread[q].pc \in {"reply", "done"}
      BY DEF Shown
    <3> QED BY <1>2, <3>1, Movers, NotHandlerSteps
       DEF Arrive, Proceed, Fault, KeyStep, IssueKeyCheck, IssueKeyStore, VerifyKey, BrandStep,
       SetPalette, CreateEntity, PayStep, ReadPolicy, VerifyPayment, SettlePayment, RecordCost,
       SettlementLost, GenerateStep, LoadEntity, Route, CallModel, JournalGeneration, QaStep,
       QaPalette, QaEntity, JournalQa, QaLoad, QaStore, ReviewStep, ReviewLoad, ReviewStore,
       JournalReview, Raise, InHandler
  <2> QED BY <2>1, GotoKeepsKey DEF Reply, Shown, TypeOK
<1> QED BY <1>1, <1>2

LEMMA KeyMoves ==
  ASSUME TypeOK, [Next]_vars
  PROVE  apiKey' = apiKey \/ \E r \in Requests : IssueKeyStore(r)
<1>1. ASSUME NEW r \in Requests, Proceed(r) \/ Fault(r) \/ Arrive(r)
      PROVE  apiKey' = apiKey \/ IssueKeyStore(r)
  BY <1>1 DEF Proceed, Fault, Arrive, KeyStep, IssueKeyCheck, VerifyKey,
              BrandStep, SetPalette, CreateEntity, PayStep, ReadPolicy, VerifyPayment,
              SettlePayment, SettlementLost, RecordCost, GenerateStep, LoadEntity, Route,
              CallModel, JournalGeneration, QaStep, QaPalette, QaEntity, JournalQa, QaLoad,
              QaStore, ReviewStep, ReviewLoad, ReviewStore, JournalReview, Reply, Raise, store
<1>2. Crash \/ Operator \/ UNCHANGED vars => apiKey' = apiKey
  BY DEF Crash, Operator, SetBudget, Retire, store, vars
<1> QED BY <1>1, <1>2 DEF Next

\* Without faults the key on file is being shown, or was.
KeyOnFile == faults = 0 /\ apiKey # None => apiKey \in Requests /\ Shown(apiKey)

\* KeyShownOnce, whichever onboardings overlap.
THEOREM KeyIsShown == Spec => []KeyShownOnce
<1>1. Init => KeyOnFile
  BY DEF Init, EmptyStore, KeyOnFile
<1>2. KeyInv /\ KeyOnFile /\ [Next]_vars => KeyOnFile'
  <2> SUFFICES ASSUME KeyInv, KeyOnFile, [Next]_vars, faults' = 0, apiKey' # None
               PROVE  (apiKey \in Requests /\ Shown(apiKey))'
    BY DEF KeyOnFile
  <2>1. faults = 0 /\ ~Crash
    <3>1. faults \in Nat
      BY ThreadsAssumption DEF ThreadsAssumption, KeyInv, TypeOK, ThreadsTypeOK
    <3>2. faults' = faults \/ faults' = faults + 1
      <4>1. ASSUME NEW r \in Requests, Proceed(r) \/ Fault(r) \/ Arrive(r)
            PROVE  faults' = faults \/ faults' = faults + 1
        BY <4>1 DEF Proceed, Fault, Arrive, KeyStep, IssueKeyCheck, IssueKeyStore, VerifyKey,
              BrandStep, SetPalette, CreateEntity, PayStep, ReadPolicy, VerifyPayment,
              SettlePayment, SettlementLost, RecordCost, GenerateStep, LoadEntity, Route,
              CallModel, JournalGeneration, QaStep, QaPalette, QaEntity, JournalQa, QaLoad,
              QaStore, ReviewStep, ReviewLoad, ReviewStore, JournalReview, Reply, Raise
      <4>2. Crash \/ Operator \/ UNCHANGED vars => faults' = faults \/ faults' = faults + 1
        BY DEF Crash, Operator, SetBudget, Retire, threads, vars
      <4> QED BY <4>1, <4>2 DEF Next
    <3>3. Crash => faults' = faults + 1
      BY DEF Crash
    <3> QED BY <3>1, <3>2, <3>3
  <2>2. CASE apiKey' = apiKey
    <3>1. apiKey \in Requests /\ Shown(apiKey)
      BY <2>1, <2>2 DEF KeyOnFile
    <3>2. \A q \in Requests : Shown(q) => Shown(q)'
      BY <2>1, ShownStays DEF KeyInv
    <3> QED BY <2>2, <3>1, <3>2 DEF Shown
  <2>3. ASSUME NEW r \in Requests, IssueKeyStore(r) PROVE (apiKey \in Requests /\ Shown(apiKey))'
    BY <2>3, IssueKeyStoreShows DEF KeyInv, Shown
  <2> QED BY <2>2, <2>3, KeyMoves DEF KeyInv
<1>3. KeyInv /\ KeyOnFile => KeyShownOnce
  BY DEF KeyOnFile, KeyShownOnce, Shown, Issued, Answered, InFlight
<1> QED BY <1>1, <1>2, <1>3, KeyInvariant, PTL DEF Spec

-----------------------------------------------------------------------------
(* No two requests rewrite one record at a time. *)

LEMMA ApartInit == Init => Apart
<1> SUFFICES ASSUME Init PROVE Apart
  OBVIOUS
<1>1. \A r \in Requests : thread[r].pc = "idle"
  BY DEF Init, ThreadsInit, Idle
<1> QED BY <1>1 DEF Apart, Rewrites

LEMMA ApartStep ==
  ASSUME Apart, [Next /\ Apart']_vars
  PROVE  [Next]_vars /\ Apart'
<1> SUFFICES ASSUME UNCHANGED vars PROVE Apart'
  OBVIOUS
<1>1. thread' = thread
  BY DEF vars, threads
<1>2. \A r \in Requests : Rewrites(r)' = Rewrites(r)
  BY <1>1 DEF Rewrites, Primary
<1> QED BY <1>1, <1>2 DEF Apart

\* The key that is about to be stored is the first.
FirstKey == \A r \in Requests : thread[r].pc = "set_key" => apiKey = None

LEMMA FirstKeyStep ==
  ASSUME TypeOK, Apart, FirstKey, [Next]_vars
  PROVE  FirstKey'
<1> SUFFICES ASSUME NEW q \in Requests, thread'[q].pc = "set_key" PROVE apiKey' = None
  BY DEF FirstKey
<1>1. CASE thread'[q] = thread[q]
  <2>1. ASSUME NEW r \in Requests, IssueKeyStore(r) PROVE FALSE
    <3>1. thread[r].pc = "set_key" /\ thread'[r].pc = "reply"
      BY <2>1, IssueKeyStoreShows
    <3> QED BY <1>1, <3>1 DEF Apart
  <2> QED BY <1>1, <2>1, KeyMoves DEF FirstKey
<1>2. CASE Crash /\ thread'[q] # thread[q]
  BY <1>2, CrashEnds
<1>3. CASE Arrive(q)
  BY <1>3, ArriveBare
<1>4. CASE Proceed(q) \/ Fault(q)
  <2>1. thread[q].pc = "get_key"
    BY <1>4, ProceedAdvances, NotHandlerSteps DEF Advances, Follows
  <2>2. IssueKeyCheck(q) \/ Raise(q)
    BY <1>4, <2>1 DEF Proceed, Fault, KeyStep, IssueKeyStore, VerifyKey, BrandStep,
       SetPalette, CreateEntity, PayStep, ReadPolicy, VerifyPayment, SettlePayment, RecordCost,
       SettlementLost, GenerateStep, LoadEntity, Route, CallModel, JournalGeneration, QaStep,
       QaPalette, QaEntity, JournalQa, QaLoad, QaStore, ReviewStep, ReviewLoad, ReviewStore,
       JournalReview, Reply
  <2>3. ~Raise(q)
    BY AnswerKeepsKey DEF Raise, TypeOK
  <2> QED BY <2>2, <2>3, AnswerKeepsKey DEF IssueKeyCheck, store, TypeOK
<1> QED BY <1>1, <1>2, <1>3, <1>4, Movers

ShownKeyInv ==
  /\ KeyInv /\ Apart /\ FirstKey
  /\ \A r \in Requests : Shown(r) => apiKey = r

LEMMA ShownKeyInit == Init => ShownKeyInv
<1> SUFFICES ASSUME Init PROVE ShownKeyInv
  OBVIOUS
<1>1. \A r \in Requests : thread[r].pc = "idle"
  BY DEF Init, ThreadsInit, Idle
<1> QED BY <1>1, KeyInit, ApartInit DEF ShownKeyInv, FirstKey, Shown

LEMMA ShownKeyStep ==
  ASSUME ShownKeyInv, [Next /\ Apart']_vars
  PROVE  ShownKeyInv'
<1> USE DEF ShownKeyInv
<1>0. [Next]_vars /\ Apart'
  BY ApartStep
<1>1. KeyInv' /\ FirstKey'
  BY <1>0, StepTyped, KeyGoneStep, FirstKeyStep DEF KeyInv
<1>2. ASSUME NEW q \in Requests, Shown(q)' PROVE apiKey' = q
  <2>1. CASE IssueKeyStore(q)
    BY <2>1, IssueKeyStoreShows DEF KeyInv
  <2>2. CASE Shown(q)
    <3>1. apiKey = q /\ q # None
      BY <2>2, TenantStoreAssumption DEF TenantStoreAssumption
    <3>2. ASSUME NEW r \in Requests, IssueKeyStore(r) PROVE FALSE
      BY <3>1, <3>2, IssueKeyStoreShows DEF FirstKey, KeyInv
    <3> QED BY <1>0, <3>1, <3>2, KeyMoves DEF KeyInv
  <2> QED BY <1>0, <1>2, <2>1, <2>2, ShownBy
<1> QED BY <1>0, <1>1, <1>2

\* IssuedKeysStayValid, as long as no two onboardings are about to store a key.
THEOREM KeysStayValid == ApartSpec => []IssuedKeysStayValid
<1>1. ShownKeyInv /\ [Next /\ Apart']_vars => ShownKeyInv'
  BY ShownKeyStep
<1>2. ShownKeyInv => IssuedKeysStayValid
  BY DEF ShownKeyInv, IssuedKeysStayValid, Issued, Answered, Shown
<1> QED BY <1>1, <1>2, ShownKeyInit, PTL DEF ApartSpec
-----------------------------------------------------------------------------
(* What a handler read is still on file when it writes, unless an operator    *)
(* retires entities.                                                          *)

\* The body in hand is the one on file.
UpToDate(r) ==
  /\ thread[r].pc = "qa_store" => thread[r].held = entity[Primary(r)]
  /\ thread[r].pc = "review_store" => thread[r].held = entity[thread[r].call.name]

BodyInv == TypeOK /\ Apart /\ FirstKey /\ \A r \in Requests : UpToDate(r)

LEMMA QaLoadTakes ==
  ASSUME TypeOK, NEW q \in Requests, QaLoad(q), thread'[q].pc = "qa_store"
  PROVE  thread'[q].held = entity'[Primary(q)'] /\ entity' = entity
<1>0. thread[q] \in Thread
  BY DEF TypeOK, ThreadsTypeOK
<1> DEFINE body == entity[Primary(q)]
<1>1. Conclude(q) \/ Become(q, [thread[q] EXCEPT !.pc = "qa_store", !.held = body])
  BY DEF QaLoad
<1>2. ~Conclude(q)
  BY AnswerKeepsKey, GotoKeepsKey DEF Conclude, TypeOK
<1>3. entity' = entity
  BY DEF QaLoad, store
<1>4. thread'[q].held = body /\ thread'[q].call = thread[q].call
  <2> HIDE DEF body
  <2> QED BY <1>0, <1>1, <1>2 DEF Become, TypeOK, ThreadsTypeOK, Thread
<1> QED BY <1>3, <1>4 DEF Primary

LEMMA ReviewLoadTakes ==
  ASSUME TypeOK, NEW q \in Requests, ReviewLoad(q), thread'[q].pc = "review_store"
  PROVE  thread'[q].held = entity'[thread'[q].call.name] /\ entity' = entity
<1>0. thread[q] \in Thread
  BY DEF TypeOK, ThreadsTypeOK
<1> DEFINE body == entity[thread[q].call.name]
<1>1. Answer(q, "not_found") \/ Become(q, [thread[q] EXCEPT !.pc = "review_store", !.held = body])
  BY DEF ReviewLoad
<1>2. ~Answer(q, "not_found")
  BY AnswerKeepsKey DEF TypeOK
<1>3. entity' = entity
  BY DEF ReviewLoad, store
<1>4. thread'[q].held = body /\ thread'[q].call = thread[q].call
  <2> HIDE DEF body
  <2> QED BY <1>0, <1>1, <1>2 DEF Become, TypeOK, ThreadsTypeOK, Thread
<1> QED BY <1>3, <1>4

LEMMA EntityMoves ==
  ASSUME Retirable = {}, [Next]_vars
  PROVE  \/ entity' = entity
         \/ \E r \in Requests : CreateEntity(r) \/ ReviewStore(r) \/ QaStore(r)
<1>1. ASSUME NEW r \in Requests, Arrive(r) \/ Proceed(r) \/ Fault(r)
      PROVE  entity' = entity \/ CreateEntity(r) \/ ReviewStore(r) \/ QaStore(r)
  BY <1>1 DEF Arrive, Proceed, Fault, KeyStep, IssueKeyCheck, IssueKeyStore, VerifyKey, BrandStep,
     SetPalette, PayStep, ReadPolicy, VerifyPayment, SettlePayment, SettlementLost, RecordCost,
     GenerateStep, LoadEntity, Route, CallModel, JournalGeneration, QaStep, QaPalette, QaEntity,
     JournalQa, QaLoad, ReviewStep, ReviewLoad, JournalReview, Reply, Raise, store
<1>2. Crash \/ Operator \/ UNCHANGED vars => entity' = entity
  BY DEF Crash, Operator, SetBudget, store, vars
<1> QED BY <1>1, <1>2 DEF Next

\* A handler writes the entity it is rewriting, and is done with it.
LEMMA WritesItsOwn ==
  ASSUME TypeOK, NEW r \in Requests, CreateEntity(r) \/ ReviewStore(r) \/ QaStore(r)
  PROVE  /\ thread'[r].pc \in {"reply", "journal_review", "record_cost"}
         /\ \E k \in Rewrites(r) \cap Names :
              \A n \in Names \ {k} : entity'[n] = entity[n]
<1> USE DEF TypeOK, StoreTypeOK, SetEntity
<1>1. CASE CreateEntity(r)
  <2>1. thread[r].call \in AddCall /\ thread[r].pc = "create_entity"
    BY <1>1, AtStep DEF CreateEntity, HandlerSteps
  <2>2. thread[r].call.name \in Rewrites(r) \cap Names
    BY <2>1 DEF Rewrites, AddCall
  <2> QED BY <1>1, <2>2, AnswerKeepsKey DEF CreateEntity
<1>2. CASE ReviewStore(r)
  <2>1. thread[r].call \in ReviewCall /\ thread[r].pc = "review_store"
    BY <1>2, AtStep DEF ReviewStore, HandlerSteps
  <2>2. thread[r].call.name \in Rewrites(r) \cap Names
    BY <2>1 DEF Rewrites, ReviewCall
  <2> QED BY <1>2, <2>2, GotoKeepsKey DEF ReviewStore
<1>3. CASE QaStore(r)
  <2>1. thread[r].call \in GenerateCall /\ thread[r].pc = "qa_store"
        /\ thread[r].call.names # << >>
    BY <1>3, AtStep DEF QaStore, HandlerSteps, ThreadsTypeOK, AtOwnStep, QaSteps
  <2>2. Primary(r) \in Rewrites(r) \cap Names
    BY <2>1, PrimaryTyped DEF Rewrites
  <2> QED BY <1>3, <2>2, ConcludeMoves DEF QaStore
<1> QED BY <1>1, <1>2, <1>3

\* Nobody else touches an entity while a handler is rewriting it.
LEMMA OthersKeepOff ==
  ASSUME Retirable = {}, TypeOK, Apart, [Next]_vars,
         NEW q \in Requests, thread'[q] = thread[q], NEW n \in Rewrites(q) \cap Names,
         thread[q].pc \notin {"reply", "journal_review", "record_cost"}
  PROVE  entity'[n] = entity[n]
<1>1. ASSUME NEW r \in Requests, CreateEntity(r) \/ ReviewStore(r) \/ QaStore(r)
      PROVE  entity'[n] = entity[n]
  <2>1. r # q
    BY <1>1, WritesItsOwn
  <2>2. n \notin Rewrites(r)
    BY <2>1 DEF Apart
  <2> QED BY <1>1, <2>2, WritesItsOwn
<1> QED BY <1>1, EntityMoves

LEMMA BodyStep ==
  ASSUME Retirable = {}, BodyInv, [Next /\ Apart']_vars
  PROVE  BodyInv'
<1> USE DEF BodyInv
<1>0. [Next]_vars /\ Apart'
  BY ApartStep
<1>1. TypeOK' /\ FirstKey'
  BY <1>0, StepTyped, FirstKeyStep
<1>2. ASSUME NEW q \in Requests, thread'[q].pc \in WriteBackSteps PROVE UpToDate(q)'
  <2>1. CASE thread'[q] = thread[q]
    <3>1. CASE thread[q].pc = "qa_store"
      <4>1. Primary(q) \in Rewrites(q) \cap Names
        <5>1. thread[q].call \in GenerateCall /\ thread[q].call.names # << >>
          BY <3>1, AtStep DEF TypeOK, HandlerSteps, ThreadsTypeOK, AtOwnStep, QaSteps
        <5> QED BY <3>1, <5>1, PrimaryTyped DEF Rewrites
      <4>2. entity'[Primary(q)] = entity[Primary(q)]
        BY <1>0, <2>1, <3>1, <4>1, OthersKeepOff
      <4> QED BY <2>1, <3>1, <4>2 DEF UpToDate, Primary
    <3>2. CASE thread[q].pc = "review_store"
      <4>1. thread[q].call.name \in Rewrites(q) \cap Names
        <5>1. thread[q].call \in ReviewCall
          BY <3>2, AtStep DEF TypeOK, HandlerSteps
        <5> QED BY <3>2, <5>1 DEF Rewrites, ReviewCall
      <4>2. entity'[thread[q].call.name] = entity[thread[q].call.name]
        BY <1>0, <2>1, <3>2, <4>1, OthersKeepOff
      <4> QED BY <2>1, <3>2, <4>2 DEF UpToDate
    <3> QED BY <1>2, <2>1, <3>1, <3>2 DEF WriteBackSteps
  <2>2. CASE Crash /\ thread'[q] # thread[q]
    BY <1>2, <2>2, CrashEnds DEF WriteBackSteps
  <2>3. CASE Arrive(q)
    BY <1>2, <2>3, ArriveBare DEF WriteBackSteps
  <2>4. CASE Proceed(q) \/ Fault(q)
    <3>1. thread[q].pc \in {"qa_load", "review_load"}
      BY <1>2, <2>4, ProceedAdvances, NotHandlerSteps DEF Advances, Follows, WriteBackSteps
    <3>2. QaLoad(q) \/ ReviewLoad(q) \/ Raise(q)
      BY <2>4, <3>1 DEF Proceed, Fault, KeyStep, IssueKeyCheck, IssueKeyStore, VerifyKey, BrandStep,
         SetPalette, CreateEntity, PayStep, ReadPolicy, VerifyPayment, SettlePayment, RecordCost,
         SettlementLost, GenerateStep, LoadEntity, Route, CallModel, JournalGeneration, QaStep,
         QaPalette, QaEntity, JournalQa, QaStore, ReviewStep, ReviewStore, JournalReview, Reply
    <3>3. ~Raise(q)
      BY <1>2, AnswerKeepsKey DEF Raise, WriteBackSteps, TypeOK
    <3>4. CASE QaLoad(q)
      <4>1. thread'[q].pc = "qa_store"
        BY <1>2, <3>4, ProceedAdvances, <2>4, NotHandlerSteps
           DEF QaLoad, Advances, Follows, WriteBackSteps
      <4> QED BY <3>4, <4>1, QaLoadTakes DEF UpToDate
    <3>5. CASE ReviewLoad(q)
      <4>1. thread'[q].pc = "review_store"
        BY <1>2, <3>5, ProceedAdvances, <2>4, NotHandlerSteps
           DEF ReviewLoad, Advances, Follows, WriteBackSteps
      <4> QED BY <3>5, <4>1, ReviewLoadTakes DEF UpToDate
    <3> QED BY <3>2, <3>3, <3>4, <3>5
  <2> QED BY <1>0, <2>1, <2>2, <2>3, <2>4, Movers
<1> QED BY <1>0, <1>1, <1>2 DEF UpToDate, WriteBackSteps

LEMMA BodyInvariant ==
  ASSUME Retirable = {}
  PROVE  ApartSpec => []BodyInv
<1>1. Init => BodyInv
  <2> SUFFICES ASSUME Init PROVE BodyInv
    OBVIOUS
  <2>1. \A r \in Requests : thread[r].pc = "idle"
    BY DEF Init, ThreadsInit, Idle
  <2> QED BY <2>1, InitTyped, ApartInit DEF BodyInv, FirstKey, UpToDate
<1>2. BodyInv /\ [Next /\ Apart']_vars => BodyInv'
  BY BodyStep
<1> QED BY <1>1, <1>2, PTL DEF ApartSpec

-----------------------------------------------------------------------------
(* AtomicBrand. *)

\* What AtomicBrand sees of the entities.
StatusOf == [n \in Names |-> IF entity[n] = None THEN None ELSE entity[n].status]
ScoresOf == [n \in Names |-> IF entity[n] = None THEN None ELSE entity[n].confidence]

LEMMA StatusIsNotNone == None \notin Statuses
  BY TenantStoreAssumption DEF TenantStoreAssumption, Statuses

LEMMA StoringABody ==
  ASSUME StoreTypeOK, NEW n \in Names, NEW body \in EntityBody, SetEntity(n, body)
  PROVE  /\ StatusOf' = [StatusOf EXCEPT ![n] = body.status]
         /\ ScoresOf' = [ScoresOf EXCEPT ![n] = body.confidence]
<1>1. entity' = [entity EXCEPT ![n] = body] /\ entity \in [Names -> EntityBody \cup {None}]
  BY DEF SetEntity, StoreTypeOK
<1>2. body # None
  BY TenantStoreAssumption DEF TenantStoreAssumption
<1>3. \A k \in Names : entity'[k] = IF k = n THEN body ELSE entity[k]
  BY <1>1
<1> QED BY <1>2, <1>3 DEF StatusOf, ScoresOf

LEMMA OperationsOfBrand ==
  ASSUME NEW n \in Names
  PROVE  /\ Brand!Create(n) \/ Brand!Retire(n) => Brand!Next
         /\ \A verdict \in {"approved", "rejected"} : Brand!Judge(n, verdict) => Brand!Next
         /\ \A m \in Models : Brand!Learn(n, m) => Brand!Next
<1>1. Brand!Create(n) \/ Brand!Retire(n) => Brand!Next
  BY Zenon DEF Brand!Next
<1>2. ASSUME NEW verdict \in {"approved", "rejected"}, Brand!Judge(n, verdict) PROVE Brand!Next
  BY <1>2, Zenon DEF Brand!Next
<1>3. ASSUME NEW m \in Models, Brand!Learn(n, m) PROVE Brand!Next
  BY <1>3, Zenon DEF Brand!Next
<1> QED BY <1>1, <1>2, <1>3

LEMMA KeyRefines ==
  ASSUME TypeOK, NEW r \in Requests, IssueKeyStore(r), apiKey = None
  PROVE  Brand!Next
<1>1. apiKey' = r /\ entity' = entity
  BY IssueKeyStoreShows DEF IssueKeyStore
<1>2. Brand!IssueKey(r)
  BY <1>1 DEF Brand!IssueKey
<1> QED BY <1>2 DEF Brand!Next

LEMMA CreateRefines ==
  ASSUME TypeOK, NEW r \in Requests, CreateEntity(r)
  PROVE  Brand!Next
<1> DEFINE c == thread[r].call
           body == [asset |-> c.asset, additional |-> c.additional,
                    status |-> "pending", confidence |-> Unscored]
<1>1. c \in AddCall
  BY AtStep DEF TypeOK, CreateEntity, HandlerSteps
<1>2. Unscored \in [Models -> 0..Scale]
  BY TenantStoreAssumption DEF TenantStoreAssumption, Unscored
<1>3. body \in EntityBody /\ c.name \in Names
  BY <1>1, <1>2 DEF AddCall, EntityBody, Statuses
<1>4. SetEntity(c.name, body) /\ apiKey' = apiKey
  BY DEF CreateEntity
<1>5. body.status = "pending" /\ body.confidence = Unscored
  OBVIOUS
<1> HIDE DEF body
<1>6. /\ StatusOf' = [StatusOf EXCEPT ![c.name] = "pending"]
      /\ ScoresOf' = [ScoresOf EXCEPT ![c.name] = Unscored]
  BY <1>3, <1>4, <1>5, StoringABody DEF TypeOK
<1>7. PICK n \in Names : n = c.name
  BY <1>3
<1>8. Brand!Create(n)
  BY <1>4, <1>6, <1>7 DEF Brand!Create, Brand!Unscored, Unscored, StatusOf, ScoresOf
<1> QED BY <1>8, OperationsOfBrand

LEMMA ReviewRefines ==
  ASSUME TypeOK, NEW r \in Requests, ReviewStore(r),
         thread[r].held = entity[thread[r].call.name]
  PROVE  Brand!Next
<1> DEFINE n == thread[r].call.name
           verdict == Verdict(thread[r].call.approved)
           body == [thread[r].held EXCEPT !.status = verdict]
<1>1. thread[r].call \in ReviewCall /\ thread[r] \in Thread
  BY AtStep DEF TypeOK, ReviewStore, HandlerSteps
<1>2. n \in Names /\ verdict \in {"approved", "rejected"}
  BY <1>1 DEF ReviewCall, Verdict
<1>3. thread[r].pc = "review_store" /\ thread[r].held \in EntityBody
  BY <1>1 DEF ReviewStore, TypeOK, ThreadsTypeOK, AtOwnStep, WriteBackSteps, Thread
<1>4. entity[n] = thread[r].held /\ entity[n] # None
  BY <1>3, TenantStoreAssumption DEF TenantStoreAssumption
<1>5. SetEntity(n, body) /\ apiKey' = apiKey
  BY DEF ReviewStore
<1>6. body \in EntityBody /\ body.status = verdict /\ body.confidence = entity[n].confidence
  BY <1>2, <1>3, <1>4 DEF EntityBody, Statuses
<1> HIDE DEF body
<1>7. /\ StatusOf' = [StatusOf EXCEPT ![n] = verdict]
      /\ ScoresOf' = [ScoresOf EXCEPT ![n] = entity[n].confidence]
  BY <1>2, <1>5, <1>6, StoringABody DEF TypeOK
<1>8. StatusOf[n] # None /\ ScoresOf' = ScoresOf
  <2>1. StatusOf[n] = entity[n].status /\ ScoresOf[n] = entity[n].confidence
    BY <1>2, <1>4 DEF StatusOf, ScoresOf
  <2>2. entity[n].status # None
    BY <1>3, <1>4, StatusIsNotNone DEF EntityBody
  <2> QED BY <1>7, <2>1, <2>2 DEF ScoresOf
<1> HIDE DEF n, verdict
<1>9. PICK k \in Names, v \in {"approved", "rejected"} : k = n /\ v = verdict
  BY <1>2
<1>10. Brand!Judge(k, v)
  BY <1>5, <1>7, <1>8, <1>9 DEF Brand!Judge, StatusOf, ScoresOf
<1> QED BY <1>10, OperationsOfBrand

LEMMA QaRefines ==
  ASSUME TypeOK, NEW r \in Requests, QaStore(r), thread[r].held = entity[Primary(r)]
  PROVE  Brand!Next \/ (StatusOf' = StatusOf /\ ScoresOf' = ScoresOf /\ apiKey' = apiKey)
<1> DEFINE t == thread[r]
           n == Primary(r)
           score == Learn(t.held.confidence[t.model], t.passed)
           body == [t.held EXCEPT !.confidence[t.model] = score]
<1>1. t.call \in GenerateCall /\ t \in Thread /\ t.pc = "qa_store" /\ t.call.names # << >>
  BY AtStep DEF TypeOK, ThreadsTypeOK, AtOwnStep, QaSteps, QaStore, HandlerSteps
<1>2. n \in Names
  BY <1>1, PrimaryTyped
<1>3. t.held \in EntityBody
  BY <1>1 DEF TypeOK, ThreadsTypeOK, AtOwnStep, WriteBackSteps, Thread
<1>4. entity[n] = t.held /\ entity[n] # None
  BY <1>1, <1>3, TenantStoreAssumption DEF TenantStoreAssumption
<1>5. SetEntity(n, body) /\ apiKey' = apiKey
  BY DEF QaStore
<1>6. StatusOf[n] = t.held.status /\ ScoresOf[n] = t.held.confidence
  BY <1>2, <1>4 DEF StatusOf, ScoresOf
<1>7. t.held.confidence \in [Models -> 0..Scale]
  BY <1>3 DEF EntityBody
<1>8. CASE t.model \in Models
  <2>1. score \in 0..Scale /\ score \in Brand!Towards(t.held.confidence[t.model])
    <3>1. t.held.confidence[t.model] \in 0..Scale
      BY <1>7, <1>8
    <3>2. t.passed \in BOOLEAN
      BY <1>1 DEF Thread
    <3>3. score \in 0..Scale
      BY <3>1, <3>2, LearnTyped
    <3>4. score \in Brand!Towards(t.held.confidence[t.model])
      BY DEF Learn, Brand!Towards
    <3> QED BY <3>3, <3>4
  <2> DEFINE confidence == [t.held.confidence EXCEPT ![t.model] = score]
  <2> HIDE DEF score
  <2>2. body \in EntityBody /\ body.status = t.held.status /\ body.confidence = confidence
    BY <1>3, <1>7, <1>8, <2>1 DEF EntityBody
  <2> HIDE DEF body
  <2>3. /\ StatusOf' = [StatusOf EXCEPT ![n] = t.held.status]
        /\ ScoresOf' = [ScoresOf EXCEPT ![n] = confidence]
    BY <1>2, <1>5, <2>2, StoringABody DEF TypeOK
  <2>4. StatusOf' = StatusOf
    BY <1>6, <2>3 DEF StatusOf
  <2>5. ScoresOf' = [ScoresOf EXCEPT ![n][t.model] = score]
    BY <1>6, <2>3
  <2>6. StatusOf[n] # None
    BY <1>3, <1>6, StatusIsNotNone DEF EntityBody
  <2>7. score \in Brand!Towards(ScoresOf[n][t.model])
    BY <1>6, <2>1
  <2>8. PICK k \in Names, m \in Models : k = n /\ m = t.model
    BY <1>2, <1>8
  <2> HIDE DEF n
  <2>9. Brand!Learn(k, m)
    BY <1>5, <2>4, <2>5, <2>6, <2>7, <2>8 DEF Brand!Learn, StatusOf, ScoresOf
  <2> QED BY <2>9, OperationsOfBrand
<1>9. CASE t.model \notin Models
  <2>1. body = t.held
    BY <1>3, <1>7, <1>9 DEF EntityBody
  <2> HIDE DEF body
  <2>2. /\ StatusOf' = [StatusOf EXCEPT ![n] = t.held.status]
        /\ ScoresOf' = [ScoresOf EXCEPT ![n] = t.held.confidence]
    BY <1>2, <1>3, <1>5, <2>1, StoringABody DEF TypeOK
  <2> QED BY <1>5, <1>6, <2>2 DEF StatusOf, ScoresOf
<1> QED BY <1>8, <1>9

LEMMA RetireRefines ==
  ASSUME TypeOK, NEW n \in Names, Retire(n)
  PROVE  Brand!Next
<1>1. \A k \in Names : entity'[k] = IF k = n THEN None ELSE entity[k]
  BY DEF Retire, SetEntity, TypeOK, StoreTypeOK
<1>2. /\ StatusOf' = [StatusOf EXCEPT ![n] = None]
      /\ ScoresOf' = [ScoresOf EXCEPT ![n] = None]
  BY <1>1 DEF StatusOf, ScoresOf
<1>3. apiKey' = apiKey
  BY DEF Retire
<1>4. Brand!Retire(n)
  BY <1>2, <1>3 DEF Brand!Retire, StatusOf, ScoresOf
<1> QED BY <1>4, OperationsOfBrand

\* The steps that AtomicBrand may see.
LEMMA BrandMoves ==
  ASSUME TypeOK, [Next]_vars
  PROVE  \/ UNCHANGED <<apiKey, entity>>
         \/ \E r \in Requests : \/ IssueKeyStore(r) \/ CreateEntity(r)
                               \/ ReviewStore(r) \/ QaStore(r)
         \/ \E n \in Retirable : Retire(n)
<1>1. ASSUME NEW r \in Requests, Arrive(r) \/ Proceed(r) \/ Fault(r)
      PROVE  \/ UNCHANGED <<apiKey, entity>>
             \/ IssueKeyStore(r) \/ CreateEntity(r) \/ ReviewStore(r) \/ QaStore(r)
  BY <1>1 DEF Arrive, Proceed, Fault, KeyStep, IssueKeyCheck, VerifyKey, BrandStep,
     SetPalette, PayStep, ReadPolicy, VerifyPayment, SettlePayment, SettlementLost, RecordCost,
     GenerateStep, LoadEntity, Route, CallModel, JournalGeneration, QaStep, QaPalette, QaEntity,
     JournalQa, QaLoad, ReviewStep, ReviewLoad, JournalReview, Reply, Raise, store
<1>2. CASE Operator
  BY <1>2 DEF Operator, SetBudget
<1>3. Crash \/ UNCHANGED vars => UNCHANGED <<apiKey, entity>>
  BY DEF Crash, store, vars
<1> QED BY <1>1, <1>2, <1>3 DEF Next

BrandUnmoved == StatusOf' = StatusOf /\ ScoresOf' = ScoresOf /\ apiKey' = apiKey

\* A write of what is no longer on file is seen for what it is.
LEMMA OvertakenOrCurrent ==
  ASSUME TypeOK, [Next]_vars
  PROVE  Brand!Next \/ BrandUnmoved \/ \E r \in Requests : OvertakenWrite(r)
<1>1. CASE UNCHANGED <<apiKey, entity>>
  BY <1>1 DEF BrandUnmoved, StatusOf, ScoresOf
<1>2. ASSUME NEW n \in Retirable, Retire(n) PROVE Brand!Next
  BY <1>2, RetireRefines, RetirableAssumption DEF RetirableAssumption
<1>3. ASSUME NEW r \in Requests, IssueKeyStore(r) PROVE Brand!Next \/ OvertakenWrite(r)
  BY <1>3, KeyRefines DEF OvertakenWrite, IssueKeyStore
<1>4. ASSUME NEW r \in Requests, CreateEntity(r) PROVE Brand!Next
  BY <1>4, CreateRefines
<1>5. ASSUME NEW r \in Requests, ReviewStore(r) PROVE Brand!Next \/ OvertakenWrite(r)
  <2> DEFINE n == thread[r].call.name
  <2>1. thread[r].call \in ReviewCall /\ thread[r].pc = "review_store"
    BY <1>5, AtStep DEF TypeOK, ReviewStore, HandlerSteps
  <2>2. n \in Rewrites(r) /\ n \in Names
    BY <2>1 DEF Rewrites, ReviewCall
  <2>3. SetEntity(n, entity'[n]) /\ UNCHANGED apiKey
    BY <1>5, <2>2 DEF ReviewStore, SetEntity, TypeOK, StoreTypeOK
  <2>4. CASE thread[r].held # entity[n]
    BY <2>1, <2>2, <2>3, <2>4 DEF OvertakenWrite, WriteBackSteps
  <2>5. CASE thread[r].held = entity[n]
    BY <1>5, <2>5, ReviewRefines
  <2> QED BY <2>4, <2>5
<1>6. ASSUME NEW r \in Requests, QaStore(r) PROVE Brand!Next \/ BrandUnmoved \/ OvertakenWrite(r)
  <2> DEFINE n == Primary(r)
  <2>1. thread[r].call \in GenerateCall /\ thread[r].pc = "qa_store"
        /\ thread[r].call.names # << >>
    BY <1>6, AtStep DEF TypeOK, QaStore, HandlerSteps, ThreadsTypeOK, AtOwnStep, QaSteps
  <2>2. n \in Rewrites(r) /\ n \in Names
    BY <2>1, PrimaryTyped DEF Rewrites
  <2>3. SetEntity(n, entity'[n]) /\ UNCHANGED apiKey
    BY <1>6, <2>2 DEF QaStore, SetEntity, TypeOK, StoreTypeOK
  <2>4. CASE thread[r].held # entity[n]
    <3> HIDE DEF n
    <3> QED BY <2>1, <2>2, <2>3, <2>4 DEF OvertakenWrite, WriteBackSteps
  <2>5. CASE thread[r].held = entity[n]
    BY <1>6, <2>5, QaRefines DEF BrandUnmoved
  <2> QED BY <2>4, <2>5
<1> QED BY <1>1, <1>2, <1>3, <1>4, <1>5, <1>6, BrandMoves

\* AtomicUnlessOvertaken, for any pool of threads, any faults, and an operator
\* who retires what he likes.
THEOREM AtomicOrOvertaken == Spec => AtomicUnlessOvertaken
<1>1. TypeOK /\ [Next]_vars =>
        [Brand!Next \/ \E r \in Requests : OvertakenWrite(r)]_<<apiKey, StatusOf, ScoresOf>>
  BY OvertakenOrCurrent DEF BrandUnmoved
<1> QED BY <1>1, TypeCorrect, PTL DEF Spec, AtomicUnlessOvertaken, Brand!vars, StatusOf, ScoresOf

\* ImplementsAtomicBrand, as long as no two requests rewrite one record at a
\* time and the operator retires no entity.
THEOREM ImplementsBrand ==
  ASSUME Retirable = {}
  PROVE  ApartSpec => ImplementsAtomicBrand
<1>1. Init => Brand!Init
  BY DEF Init, EmptyStore, Brand!Init
<1>2. BodyInv /\ [Next /\ Apart']_vars => [Brand!Next]_<<apiKey, StatusOf, ScoresOf>>
  <2> SUFFICES ASSUME BodyInv, [Next]_vars PROVE Brand!Next \/ BrandUnmoved
    BY ApartStep DEF BodyInv, BrandUnmoved
  <2> USE DEF BodyInv
  <2>1. CASE UNCHANGED <<apiKey, entity>>
    BY <2>1 DEF BrandUnmoved, StatusOf, ScoresOf
  <2>2. ASSUME NEW r \in Requests, IssueKeyStore(r) PROVE Brand!Next
    BY <2>2, KeyRefines DEF FirstKey, IssueKeyStore
  <2>3. ASSUME NEW r \in Requests, CreateEntity(r) PROVE Brand!Next
    BY <2>3, CreateRefines
  <2>4. ASSUME NEW r \in Requests, ReviewStore(r) PROVE Brand!Next
    BY <2>4, ReviewRefines DEF UpToDate, ReviewStore
  <2>5. ASSUME NEW r \in Requests, QaStore(r) PROVE Brand!Next \/ BrandUnmoved
    BY <2>5, QaRefines DEF UpToDate, QaStore, BrandUnmoved
  <2> QED BY <2>1, <2>2, <2>3, <2>4, <2>5, BrandMoves
<1> QED BY <1>1, <1>2, BodyInvariant, PTL
        DEF ApartSpec, Brand!Spec, Brand!vars, ImplementsAtomicBrand, StatusOf, ScoresOf

\* A verdict stores the status it read, which is the one on file.
LEMMA QaKeepsStatus ==
  ASSUME BodyInv, NEW r \in Requests, QaStore(r), NEW n \in Names, entity[n] # None
  PROVE  entity'[n].status = entity[n].status
<1> DEFINE t == thread[r]
           k == Primary(r)
           score == Learn(t.held.confidence[t.model], t.passed)
           body == [t.held EXCEPT !.confidence[t.model] = score]
<1>1. t.call \in GenerateCall /\ t \in Thread /\ t.pc = "qa_store" /\ t.call.names # << >>
  BY AtStep DEF BodyInv, TypeOK, ThreadsTypeOK, AtOwnStep, QaSteps, QaStore, HandlerSteps
<1>2. k \in Names
  BY <1>1, PrimaryTyped
<1>3. t.held \in EntityBody
  BY <1>1 DEF BodyInv, TypeOK, ThreadsTypeOK, AtOwnStep, WriteBackSteps, Thread
<1>4. entity[k] = t.held
  BY <1>1 DEF BodyInv, UpToDate
<1>5. body.status = t.held.status
  BY <1>3 DEF EntityBody
<1>6. entity' = [entity EXCEPT ![k] = body]
  BY DEF QaStore, SetEntity
<1> HIDE DEF body
<1> QED BY <1>2, <1>4, <1>5, <1>6 DEF BodyInv, TypeOK, StoreTypeOK

\* ReviewStands, as long as no two requests rewrite one record at a time and the
\* operator retires no entity: what LostReview loses, it loses to an overlap.
THEOREM ReviewsStand ==
  ASSUME Retirable = {}
  PROVE  ApartSpec => ReviewStands
<1> DEFINE Stands(n) ==
      entity[n] # None /\ entity'[n] # None /\ entity'[n].status # entity[n].status
      => \E r \in Requests : Leaves(r, "review_store") \/ Leaves(r, "create_entity")
<1>1. ASSUME BodyInv, [Next]_vars, NEW n \in Names PROVE Stands(n)
  <2>1. ASSUME NEW r \in Requests, ReviewStore(r) \/ CreateEntity(r)
        PROVE  Leaves(r, "review_store") \/ Leaves(r, "create_entity")
    <3>1. thread[r].pc \in {"review_store", "create_entity"}
      BY <2>1 DEF ReviewStore, CreateEntity
    <3>2. thread'[r].pc \in {"journal_review", "reply"}
      BY <1>1, <2>1, GotoKeepsKey, AnswerKeepsKey DEF BodyInv, TypeOK, ReviewStore, CreateEntity
    <3> QED BY <3>1, <3>2 DEF Leaves
  <2>2. ASSUME NEW r \in Requests, QaStore(r), entity[n] # None
        PROVE  entity'[n].status = entity[n].status
    BY <1>1, <2>2, QaKeepsStatus
  <2> QED BY <1>1, <2>1, <2>2, EntityMoves
<1>2. BodyInv /\ [Next /\ Apart']_vars =>
        [\A n \in Names :
           entity[n] # None /\ entity'[n] # None /\ entity'[n].status # entity[n].status
           => \E r \in Requests : Leaves(r, "review_store") \/ Leaves(r, "create_entity")]_vars
  BY <1>1
<1> QED BY <1>2, BodyInvariant, PTL DEF ApartSpec, ReviewStands

-----------------------------------------------------------------------------
(* Rejections. *)

HasRejection(n) == \E i \in DOMAIN journal : IsRejection(journal[i], n)

Reviewing(r, n) == thread[r].pc = "journal_review" /\ thread[r].call.name = n

\* An entity that is on file was added, once; one that was rejected is there and
\* is marked rejected.
MarkedInv(n) ==
  /\ entity[n] # None =>
       \E r \in Requests : HasCall(r, "add", n) /\ thread[r].pc \in {"reply", "done"}
  /\ HasRejection(n) \/ (\E r \in Requests : Reviewing(r, n)) =>
       entity[n] # None /\ entity[n].status = "rejected"

After(g, n) == \E i \in DOMAIN journal : i < g /\ IsRejection(journal[i], n)

\* The output of a generation that was journaled after a rejection has failed,
\* and so has its verdict.
FailedInv(n) ==
  \A g \in DOMAIN journal : IsGeneration(journal[g], n) /\ After(g, n) =>
    /\ thread[journal[g].ref].pc = "journal_qa" => ~thread[journal[g].ref].passed
    /\ \A j \in DOMAIN journal :
         journal[j].kind = "qa" /\ journal[j].ref = journal[g].ref => ~journal[j].ok

RejectInv ==
  /\ BodyInv /\ JournalInv
  /\ \A n \in Names : OnlyRejected(n) => MarkedInv(n) /\ FailedInv(n)

LEMMA HasCallStays ==
  ASSUME TypeOK, [Next]_vars, NEW r \in Requests, NEW op, NEW n, HasCall(r, op, n)
  PROVE  HasCall(r, op, n)' /\ thread'[r].call = thread[r].call
  BY CallsStay DEF HasCall

LEMMA OnlyRejectedWas ==
  ASSUME TypeOK, [Next]_vars, NEW n \in Names, OnlyRejected(n)'
  PROVE  OnlyRejected(n)
  BY HasCallStays DEF OnlyRejected

LEMMA QaEntityJudges ==
  ASSUME TypeOK, NEW q \in Requests, QaEntity(q), thread'[q].passed
  PROVE  entity'[Primary(q)'] # None /\ entity'[Primary(q)'].status # "rejected"
<1>0. thread[q] \in Thread
  BY DEF TypeOK, ThreadsTypeOK
<1> DEFINE body == entity[Primary(q)]
<1>1. PICK match \in IF body # None /\ body.status = "rejected" THEN {FALSE}
                     ELSE CharacterMatch(body, thread[q].model) :
        Become(q, [thread[q] EXCEPT !.pc = "journal_qa", !.passed = @ /\ match])
  BY DEF QaEntity
<1>2. thread'[q].passed = (thread[q].passed /\ match) /\ thread'[q].call = thread[q].call
  BY <1>0, <1>1 DEF Become, TypeOK, ThreadsTypeOK, Thread
<1>3. match
  BY <1>2, Zenon
<1>4. body # None /\ body.status # "rejected"
  BY <1>1, <1>3 DEF CharacterMatch
<1>5. entity' = entity
  BY DEF QaEntity, store
<1> QED BY <1>2, <1>4, <1>5 DEF Primary

\* How an operation of the brand's memory changes the entity it names.
LEMMA EntityOperations ==
  ASSUME BodyInv, NEW r \in Requests, NEW n \in Names, entity'[n] # entity[n]
  PROVE  /\ CreateEntity(r) => HasCall(r, "add", n) /\ thread'[r].pc = "reply"
         /\ ReviewStore(r) =>
              /\ HasCall(r, "review", n) /\ entity[n] # None /\ entity'[n] # None
              /\ entity'[n].status = Verdict(thread[r].call.approved)
         /\ QaStore(r) => entity[n] # None /\ entity'[n] # None
<1> USE DEF BodyInv, TypeOK, StoreTypeOK, SetEntity
<1>1. CASE CreateEntity(r)
  <2>1. thread[r].call.op = "add" /\ thread[r].pc = "create_entity"
    BY <1>1, AtStep DEF CreateEntity, HandlerSteps
  <2>2. thread'[r].pc = "reply"
    BY <1>1, AnswerKeepsKey DEF CreateEntity
  <2>3. n = thread[r].call.name
    BY <1>1 DEF CreateEntity
  <2> QED BY <1>1, <2>1, <2>2, <2>3 DEF HasCall, ReviewStore, QaStore
<1>2. CASE ReviewStore(r)
  <2> DEFINE body == [thread[r].held EXCEPT !.status = Verdict(thread[r].call.approved)]
  <2>1. thread[r].call.op = "review" /\ thread[r].pc = "review_store" /\ thread[r] \in Thread
        /\ thread[r].call \in ReviewCall
    BY <1>2, AtStep DEF ReviewStore, HandlerSteps
  <2>2. thread[r].held \in EntityBody
    BY <2>1 DEF ThreadsTypeOK, AtOwnStep, WriteBackSteps, Thread
  <2>3. body \in EntityBody /\ body.status = Verdict(thread[r].call.approved)
    BY <2>1, <2>2 DEF EntityBody, Statuses, Verdict, ReviewCall
  <2>4. entity' = [entity EXCEPT ![thread[r].call.name] = body]
    BY <1>2 DEF ReviewStore
  <2> HIDE DEF body
  <2>5. n = thread[r].call.name /\ entity'[n] = body
    BY <2>4
  <2>6. body # None /\ thread[r].held # None
    BY <2>2, <2>3, TenantStoreAssumption DEF TenantStoreAssumption
  <2>7. entity[n] # None
    BY <2>1, <2>5, <2>6 DEF UpToDate
  <2> QED BY <1>2, <2>1, <2>3, <2>5, <2>6, <2>7 DEF HasCall, CreateEntity, QaStore
<1>3. CASE QaStore(r)
  <2> DEFINE t == thread[r]
             body == [t.held EXCEPT !.confidence[t.model] =
                        Learn(t.held.confidence[t.model], t.passed)]
  <2>1. t.call \in GenerateCall /\ t \in Thread /\ t.pc = "qa_store" /\ t.call.names # << >>
    BY <1>3, AtStep DEF ThreadsTypeOK, AtOwnStep, QaSteps, QaStore, HandlerSteps
  <2>2. t.held \in EntityBody
    BY <2>1 DEF ThreadsTypeOK, AtOwnStep, WriteBackSteps, Thread
  <2>3. entity' = [entity EXCEPT ![Primary(r)] = body]
    BY <1>3 DEF QaStore
  <2>4. "status" \in DOMAIN body /\ body.status \in Statuses
    BY <2>2 DEF EntityBody
  <2>5. body # None
    <3>1. t.held.confidence \in [Models -> 0..Scale] /\ t.passed \in BOOLEAN
      BY <2>1, <2>2 DEF EntityBody, Thread
    <3>2. CASE t.model \in Models
      <4>1. Learn(t.held.confidence[t.model], t.passed) \in 0..Scale
        BY <3>1, <3>2, LearnTyped
      <4> HIDE DEF t
      <4>2. body \in EntityBody
        BY <2>2, <3>2, <4>1 DEF EntityBody
      <4> QED BY <4>2, TenantStoreAssumption DEF TenantStoreAssumption
    <3>3. CASE t.model \notin Models
      <4>1. body = t.held
        BY <2>2, <3>1, <3>3 DEF EntityBody
      <4> QED BY <2>2, <4>1, TenantStoreAssumption DEF TenantStoreAssumption
    <3> QED BY <3>2, <3>3
  <2> HIDE DEF body
  <2>6. n = Primary(r) /\ entity'[n] = body
    BY <2>3
  <2>7. t.held # None
    BY <2>2, TenantStoreAssumption DEF TenantStoreAssumption
  <2>8. entity[n] # None
    BY <2>1, <2>6, <2>7 DEF UpToDate
  <2> QED BY <1>3, <2>1, <2>5, <2>6, <2>8 DEF CreateEntity, ReviewStore
<1> QED BY <1>1, <1>2, <1>3

\* A review that is being journaled has stored its verdict.
LEMMA ReviewingAfterStore ==
  ASSUME TypeOK, [Next]_vars, NEW r \in Requests, NEW n \in Names, Reviewing(r, n)'
  PROVE  /\ HasCall(r, "review", n)
         /\ Reviewing(r, n) \/ (ReviewStore(r) /\ thread[r].call.name = n)
<1>1. thread'[r].pc = "journal_review" /\ thread'[r].call.name = n
  BY DEF Reviewing
<1>2. CASE thread'[r] = thread[r]
  <2>1. thread[r].call.op = "review"
    BY <1>1, <1>2, AtStep DEF TypeOK, HandlerSteps
  <2> QED BY <1>1, <1>2, <2>1 DEF Reviewing, HasCall
<1>3. CASE Crash /\ thread'[r] # thread[r]
  BY <1>1, <1>3, CrashEnds
<1>4. CASE Arrive(r)
  BY <1>1, <1>4, ArriveBare
<1>5. CASE Proceed(r) \/ Fault(r)
  <2>1. thread[r].pc = "review_store" /\ thread'[r].call = thread[r].call
    BY <1>1, <1>5, ProceedAdvances, NotHandlerSteps DEF Advances, Follows
  <2>2. ReviewStore(r) \/ Raise(r)
    BY <1>5, <2>1 DEF Proceed, Fault, KeyStep, IssueKeyCheck, IssueKeyStore, VerifyKey, BrandStep,
         SetPalette, CreateEntity, PayStep, ReadPolicy, VerifyPayment, SettlePayment, RecordCost,
         SettlementLost, GenerateStep, LoadEntity, Route, CallModel, JournalGeneration, QaStep,
         QaPalette, QaEntity, JournalQa, QaLoad, QaStore, ReviewStep, ReviewLoad, JournalReview, Reply
  <2>3. ~Raise(r)
    BY <1>1, AnswerKeepsKey DEF Raise, TypeOK
  <2>4. thread[r].call.op = "review"
    BY <2>1, AtStep DEF TypeOK, HandlerSteps
  <2> QED BY <1>1, <2>1, <2>2, <2>3, <2>4 DEF HasCall
<1> QED BY <1>2, <1>3, <1>4, <1>5, Movers

\* A rejection gets into the journal from the handler that stored it.
LEMMA RejectionIsJournaled ==
  ASSUME TypeOK, [Next]_vars, NEW n \in Names, HasRejection(n)', ~HasRejection(n)
  PROVE  \E r \in Requests : Reviewing(r, n)
<1>1. PICK i \in DOMAIN journal' : IsRejection(journal'[i], n)
  BY DEF HasRejection
<1>2. ~(i \in DOMAIN journal /\ journal'[i] = journal[i])
  BY <1>1 DEF HasRejection
<1>3. PICK r \in Requests : JournalReview(r) /\ journal'[i] = ReviewEvent(r)
  BY <1>1, <1>2, NewEvent DEF IsRejection, GenerationEvent, QaEvent, CostEvent
<1> QED BY <1>1, <1>3 DEF JournalReview, Reviewing, IsRejection, ReviewEvent

LEMMA MarkedStep ==
  ASSUME Retirable = {}, RejectInv, [Next]_vars, NEW n \in Names, OnlyRejected(n)'
  PROVE  MarkedInv(n)'
<1> USE DEF RejectInv, BodyInv
<1>1. OnlyRejected(n) /\ MarkedInv(n)
  BY OnlyRejectedWas
<1>2. ASSUME NEW r \in Requests, HasCall(r, "add", n), thread[r].pc \in {"reply", "done"}
      PROVE  HasCall(r, "add", n)' /\ thread'[r].pc \in {"reply", "done"}
  <2>1. CASE thread'[r] = thread[r]
    BY <1>2, <2>1 DEF HasCall
  <2>2. CASE thread'[r] # thread[r]
    <3>1. thread'[r].pc \in {"reply", "done"}
      BY <1>2, <2>2, Moves, NotHandlerSteps DEF Advances, Follows
    <3> QED BY <1>2, <3>1, HasCallStays
  <2> QED BY <2>1, <2>2
<1>3. CASE entity'[n] = entity[n]
  <2>1. ASSUME entity[n] # None
        PROVE  (\E r \in Requests : HasCall(r, "add", n) /\ thread[r].pc \in {"reply", "done"})'
    BY <1>1, <1>2, <2>1 DEF MarkedInv
  <2>2. ASSUME HasRejection(n)' PROVE entity[n] # None /\ entity[n].status = "rejected"
    BY <1>1, <2>2, RejectionIsJournaled DEF MarkedInv
  <2>3. ASSUME NEW r \in Requests, Reviewing(r, n)'
        PROVE  entity[n] # None /\ entity[n].status = "rejected"
    <3>1. CASE Reviewing(r, n)
      BY <1>1, <3>1 DEF MarkedInv
    <3>2. CASE ReviewStore(r) /\ thread[r].call.name = n
      <4> DEFINE body == [thread[r].held EXCEPT !.status = Verdict(thread[r].call.approved)]
      <4>1. thread[r].call.op = "review" /\ thread[r].pc = "review_store" /\ thread[r] \in Thread
        BY <3>2, AtStep DEF ReviewStore, HandlerSteps, TypeOK
      <4>2. thread[r].held \in EntityBody /\ thread[r].held = entity[n]
        BY <3>2, <4>1 DEF TypeOK, ThreadsTypeOK, AtOwnStep, WriteBackSteps, Thread, UpToDate
      <4>3. ~thread[r].call.approved
        BY <1>1, <3>2, <4>1 DEF OnlyRejected, HasCall
      <4>4. body.status = "rejected"
        BY <4>2, <4>3 DEF EntityBody, Verdict
      <4>5. entity'[n] = body
        BY <3>2 DEF ReviewStore, SetEntity, TypeOK, StoreTypeOK
      <4>6. entity[n] # None
        BY <4>2, TenantStoreAssumption DEF TenantStoreAssumption
      <4> HIDE DEF body
      <4> QED BY <1>3, <4>4, <4>5, <4>6
    <3> QED BY <2>3, <3>1, <3>2, ReviewingAfterStore
  <2> QED BY <1>3, <2>1, <2>2, <2>3 DEF MarkedInv
<1>4. CASE entity'[n] # entity[n]
  <2>1. PICK r \in Requests : CreateEntity(r) \/ ReviewStore(r) \/ QaStore(r)
    BY <1>4, EntityMoves
  <2>2. CASE CreateEntity(r)
    <3>1. HasCall(r, "add", n) /\ thread'[r].pc = "reply" /\ thread[r].pc = "create_entity"
      BY <1>4, <2>2, EntityOperations DEF CreateEntity
    <3>2. HasCall(r, "add", n)'
      BY <3>1, HasCallStays
    <3>3. entity[n] = None
      BY <1>1, <3>1 DEF MarkedInv, OnlyRejected
    <3>4. ~HasRejection(n)' /\ \A q \in Requests : ~Reviewing(q, n)'
      <4>1. ~HasRejection(n) /\ \A q \in Requests : ~Reviewing(q, n)
        BY <1>1, <3>3 DEF MarkedInv
      <4>2. ASSUME NEW q \in Requests, ReviewStore(q), thread[q].call.name = n PROVE FALSE
        <5>1. thread[q].pc = "review_store" /\ q # r
          BY <3>1, <4>2 DEF ReviewStore
        <5>2. n \in Rewrites(q) /\ n \in Rewrites(r)
          BY <3>1, <4>2, <5>1 DEF Rewrites, HasCall
        <5> QED BY <5>1, <5>2 DEF Apart
      <4> QED BY <4>1, <4>2, RejectionIsJournaled, ReviewingAfterStore
    <3> QED BY <3>1, <3>2, <3>4 DEF MarkedInv
  <2>3. CASE ReviewStore(r)
    <3>1. HasCall(r, "review", n) /\ entity[n] # None /\ entity'[n] # None
          /\ entity'[n].status = Verdict(thread[r].call.approved)
      BY <1>4, <2>3, EntityOperations
    <3>2. entity'[n].status = "rejected"
      BY <1>1, <3>1 DEF OnlyRejected, Verdict
    <3> QED BY <1>1, <1>2, <3>1, <3>2 DEF MarkedInv
  <2>4. CASE QaStore(r)
    <3>1. entity[n] # None /\ entity'[n] # None
      BY <1>4, <2>4, EntityOperations
    <3>2. entity'[n].status = entity[n].status
      BY <2>4, <3>1, QaKeepsStatus
    <3>3. ASSUME NEW q \in Requests, Reviewing(q, n)' PROVE entity[n].status = "rejected"
      <4>1. ~(ReviewStore(q) /\ thread[q].call.name = n)
        <5> SUFFICES ASSUME ReviewStore(q), thread[q].call.name = n PROVE FALSE
          OBVIOUS
        <5>1. thread[q].pc = "review_store" /\ thread[r].pc = "qa_store"
          BY <2>4 DEF ReviewStore, QaStore
        <5>2. n = Primary(r)
          BY <1>4, <2>4 DEF QaStore, SetEntity, TypeOK, StoreTypeOK
        <5>3. n \in Rewrites(q) /\ n \in Rewrites(r) /\ q # r
          BY <5>1, <5>2 DEF Rewrites
        <5> QED BY <5>3 DEF Apart
      <4> QED BY <1>1, <3>3, <4>1, ReviewingAfterStore DEF MarkedInv
    <3>4. HasRejection(n)' => entity[n].status = "rejected"
      BY <1>1, RejectionIsJournaled DEF MarkedInv
    <3> QED BY <1>1, <1>2, <3>1, <3>2, <3>3, <3>4 DEF MarkedInv
  <2> QED BY <2>1, <2>2, <2>3, <2>4
<1> QED BY <1>3, <1>4

LEMMA FailedStep ==
  ASSUME RejectInv, [Next]_vars, NEW n \in Names, OnlyRejected(n)'
  PROVE  FailedInv(n)'
<1> USE DEF RejectInv
<1>0. TypeOK /\ journal \in Seq(Event) /\ MarkedInv(n) /\ FailedInv(n)
  BY OnlyRejectedWas DEF BodyInv, TypeOK, StoreTypeOK
<1> SUFFICES ASSUME NEW g \in DOMAIN journal', NEW i \in DOMAIN journal', i < g,
                    IsGeneration(journal'[g], n), IsRejection(journal'[i], n)
             PROVE  LET r == journal'[g].ref
                    IN  /\ thread'[r].pc = "journal_qa" => ~thread'[r].passed
                        /\ \A j \in DOMAIN journal' :
                             journal'[j].kind = "qa" /\ journal'[j].ref = r => ~journal'[j].ok
  BY DEF FailedInv, After
<1> DEFINE r == journal'[g].ref
           old(k) == k \in DOMAIN journal /\ journal'[k] = journal[k]
<1>1. ASSUME NEW k \in DOMAIN journal', ~old(k) PROVE k = Len(journal) + 1
  BY <1>0, <1>1, NewEvent
<1>2. old(i)
  <2> SUFFICES ASSUME ~old(i) PROVE FALSE
    OBVIOUS
  <2>1. i = Len(journal) + 1 /\ DOMAIN journal = 1..Len(journal) /\ Len(journal) \in Nat
    BY <1>0, <1>1
  <2>2. g \in DOMAIN journal
    BY <1>1, <2>1
  <2> QED BY <2>1, <2>2
<1>3. ASSUME ~old(g)
      PROVE  /\ thread'[r].pc # "journal_qa"
             /\ \A j \in DOMAIN journal' : ~(journal'[j].kind = "qa" /\ journal'[j].ref = r)
  <2>1. PICK q \in Requests : JournalGeneration(q) /\ journal'[g] = GenerationEvent(q)
    BY <1>0, <1>3, NewEvent DEF IsGeneration, QaEvent, CostEvent, ReviewEvent
  <2>2. q = r /\ thread[r].pc = "journal_generation"
        /\ thread'[r].pc \in {"qa_palette", "record_cost", "reply"}
    BY <1>0, <2>1, Writers DEF GenerationEvent
  <2>3. "qa" \in Owed(thread[r].pc)
    BY <2>2, OwedAt DEF Steps, HandlerSteps, QaSteps
  <2>4. Unwritten("qa", r)
    BY <2>1, <2>2, <2>3 DEF JournalInv, JournalThread
  <2>5. ASSUME NEW j \in DOMAIN journal', journal'[j].kind = "qa", journal'[j].ref = r PROVE FALSE
    <3>1. CASE old(j)
      BY <2>4, <2>5, <3>1 DEF Unwritten, IsAbout
    <3>2. CASE ~old(j)
      BY <1>1, <1>3, <2>5, <3>2 DEF IsGeneration
    <3> QED BY <3>1, <3>2
  <2> QED BY <2>2, <2>5
<1>4. ASSUME old(g), thread'[r].pc = "journal_qa", thread'[r].passed PROVE FALSE
  <2>0. r \in Requests /\ After(g, n) /\ IsGeneration(journal[g], n) /\ r = journal[g].ref
        /\ g \in DOMAIN journal
    BY <1>0, <1>2, <1>4, EventTyped DEF After
  <2>1. CASE thread'[r] = thread[r]
    BY <1>0, <1>4, <2>0, <2>1 DEF FailedInv
  <2>2. CASE Crash /\ thread'[r] # thread[r]
    BY <1>4, <2>0, <2>2, CrashEnds
  <2>3. CASE Arrive(r)
    BY <1>0, <1>4, <2>0, <2>3, ArriveBare
  <2>4. CASE Proceed(r) \/ Fault(r)
    <3>1. thread[r].pc = "qa_entity" /\ thread'[r].call = thread[r].call
      BY <1>0, <1>4, <2>0, <2>4, ProceedAdvances, NotHandlerSteps DEF Advances, Follows
    <3>2. QaEntity(r) \/ Raise(r)
      BY <2>4, <3>1 DEF Proceed, Fault, KeyStep, IssueKeyCheck, IssueKeyStore, VerifyKey, BrandStep,
         SetPalette, CreateEntity, PayStep, ReadPolicy, VerifyPayment, SettlePayment, RecordCost,
         SettlementLost, GenerateStep, LoadEntity, Route, CallModel, JournalGeneration, QaStep,
         QaPalette, JournalQa, QaLoad, QaStore, ReviewStep, ReviewLoad, ReviewStore, JournalReview,
         Reply
    <3>3. ~Raise(r)
      BY <1>0, <1>4, <2>0, AnswerKeepsKey DEF Raise, TypeOK
    <3>4. entity' = entity
      BY <3>2, <3>3 DEF QaEntity, store
    <3>5. entity[Primary(r)].status # "rejected"
      BY <1>0, <1>4, <2>0, <3>1, <3>2, <3>3, <3>4, QaEntityJudges DEF Primary
    <3>6. PICK k \in DOMAIN journal : journal[k] = GenerationEvent(r)
      BY <2>0, <3>1 DEF JournalInv, JournalThread
    <3>7. k = g
      BY <2>0, <3>6 DEF JournalInv, JournalLinked, GenerationEvent, IsGeneration
    <3>8. Primary(r) = n
      BY <2>0, <3>6, <3>7 DEF GenerationEvent, IsGeneration
    <3>9. HasRejection(n)
      BY <1>2 DEF HasRejection
    <3> QED BY <1>0, <3>5, <3>8, <3>9 DEF MarkedInv
  <2> QED BY <1>0, <2>0, <2>1, <2>2, <2>3, <2>4, Movers
<1>5. ASSUME old(g), NEW j \in DOMAIN journal', journal'[j].kind = "qa", journal'[j].ref = r,
             journal'[j].ok
      PROVE  FALSE
  <2>0. After(g, n) /\ IsGeneration(journal[g], n) /\ r = journal[g].ref /\ g \in DOMAIN journal
    BY <1>2, <1>5 DEF After
  <2>1. CASE old(j)
    BY <1>0, <1>5, <2>0, <2>1 DEF FailedInv
  <2>2. CASE ~old(j)
    <3>1. PICK q \in Requests : JournalQa(q) /\ journal'[j] = QaEvent(q)
      BY <1>0, <1>5, <2>2, NewEvent DEF GenerationEvent, CostEvent, ReviewEvent
    <3>2. q = r /\ thread[r].pc = "journal_qa"
      BY <1>5, <3>1 DEF QaEvent, JournalQa
    <3>3. thread[r].passed
      <4>1. QaEvent(q).ok = thread[q].passed
        BY Zenon DEF QaEvent
      <4> HIDE DEF r
      <4> QED BY <1>5, <3>1, <3>2, <4>1, Zenon
    <3> QED BY <1>0, <2>0, <3>2, <3>3 DEF FailedInv
  <2> QED BY <2>1, <2>2
<1> QED BY <1>3, <1>4, <1>5

\* RejectionHolds, as long as no two requests rewrite one record at a time and
\* the operator retires no entity.
THEOREM RejectionsHold ==
  ASSUME Retirable = {}
  PROVE  ApartSpec => []RejectionHolds
<1>1. Init => RejectInv
  <2> SUFFICES ASSUME Init PROVE RejectInv
    OBVIOUS
  <2>1. BodyInv /\ JournalInv
    BY JournalInit, ApartInit DEF BodyInv, JournalInv, FirstKey, UpToDate
  <2>2. DOMAIN journal = {} /\ \A n \in Names : entity[n] = None
    BY DEF Init, EmptyStore
  <2>3. \A n \in Names : MarkedInv(n) /\ FailedInv(n)
    BY <2>2, JournalInit DEF MarkedInv, FailedInv, HasRejection, Reviewing
  <2> QED BY <2>1, <2>3 DEF RejectInv
<1>2. RejectInv /\ [Next /\ Apart']_vars => RejectInv'
  <2> SUFFICES ASSUME RejectInv, [Next /\ Apart']_vars PROVE RejectInv'
    OBVIOUS
  <2>1. [Next]_vars
    BY ApartStep DEF RejectInv, BodyInv
  <2>2. BodyInv' /\ JournalInv'
    BY <2>1, BodyStep, StepTyped, JournalThreadStep, LinkedStep DEF RejectInv, JournalInv
  <2> QED BY <2>1, <2>2, MarkedStep, FailedStep DEF RejectInv
<1>3. RejectInv => RejectionHolds
  <2> SUFFICES ASSUME RejectInv, NEW n \in Names, OnlyRejected(n),
                      NEW i \in DOMAIN journal, NEW g \in DOMAIN journal, NEW j \in DOMAIN journal,
                      i < g, IsRejection(journal[i], n), IsGeneration(journal[g], n),
                      journal[j].kind = "qa", journal[j].ref = journal[g].ref, journal[j].ok
               PROVE  FALSE
    BY DEF RejectionHolds
  <2> QED BY DEF RejectInv, FailedInv, After
<1> QED BY <1>1, <1>2, <1>3, PTL DEF ApartSpec
=============================================================================
