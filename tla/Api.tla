--------------------------------- MODULE Api ---------------------------------
(***************************************************************************)
(* The HTTP API (kinostate.api.main) over one brand's memory: onboarding,  *)
(* adding an entity, generating and reviewing, as the handlers chain the   *)
(* steps of Auth, Metering, Router and Verification.  Beside the requests, *)
(* an operator works on the same file: sets the budget ceiling (set_state) *)
(* and retires entities (archive_entity, delete_entity).                   *)
(***************************************************************************)
EXTENDS Verification, FiniteSets

CONSTANT Retirable        \* entities the operator may archive or delete
ASSUME RetirableAssumption == Retirable \subseteq Names

vars == <<store, threads>>

TypeOK == StoreTypeOK /\ ThreadsTypeOK

Init == EmptyStore /\ ThreadsInit

-----------------------------------------------------------------------------
\* A request reaches a free thread, with a key some client was shown or none.
Arrive(r) ==
  /\ thread[r].pc = "idle"
  /\ Cardinality(InFlight) < ThreadLimit
  /\ \E c \in Workload[r] :
       IF c.op = "onboard"
       THEN Become(r, [Idle EXCEPT !.pc = "set_palette", !.call = c])
       ELSE \E k \in Issued \cup {None} :
              Become(r, [Idle EXCEPT !.pc = "verify_key", !.call = c, !.key = k])
  /\ UNCHANGED <<store, faults, settledBy>>

\* onboard_brand
SetPalette(r) ==
  /\ thread[r].pc = "set_palette"
  /\ palette' = thread[r].call.palette
  /\ Goto(r, "get_key")
  /\ UNCHANGED <<apiKey, entity, ceiling, journal, faults, settledBy>>

\* add_entity: the body is new, whatever was there before.
CreateEntity(r) ==
  LET c == thread[r].call
  IN  /\ thread[r].pc = "create_entity"
      /\ SetEntity(c.name, [asset |-> c.asset, additional |-> c.additional,
                            status |-> "pending", confidence |-> Unscored])
      /\ Answer(r, "ok")
      /\ UNCHANGED <<palette, apiKey, ceiling, journal, faults, settledBy>>

\* review_generation: read the entity...
ReviewLoad(r) ==
  LET body == entity[thread[r].call.name]
  IN  /\ thread[r].pc = "review_load"
      /\ IF body = None
         THEN Answer(r, "not_found")
         ELSE Become(r, [thread[r] EXCEPT !.pc = "review_store", !.held = body])
      /\ UNCHANGED <<store, faults, settledBy>>

Verdict(approved) == IF approved THEN "approved" ELSE "rejected"

\* Mutant: a review starts the scores afresh.
ReviewStoreAll(r) ==
  /\ thread[r].pc = "review_store"
  /\ SetEntity(thread[r].call.name,
       [thread[r].held EXCEPT !.status = Verdict(thread[r].call.approved),
                              !.confidence = Unscored])
  /\ Goto(r, "journal_review")
  /\ UNCHANGED <<palette, apiKey, ceiling, journal, faults, settledBy>>

\* ...write it back with the new status...
ReviewStore(r) ==
  /\ thread[r].pc = "review_store"
  /\ SetEntity(thread[r].call.name,
       [thread[r].held EXCEPT !.status = Verdict(thread[r].call.approved)])
  /\ Goto(r, "journal_review")
  /\ UNCHANGED <<palette, apiKey, ceiling, journal, faults, settledBy>>

ReviewEvent(r) ==
  [kind |-> "review", ref |-> thread[r].call.generation, name |-> thread[r].call.name,
   model |-> None, ok |-> thread[r].call.approved]

\* ...and journal it.
JournalReview(r) ==
  /\ thread[r].pc = "journal_review"
  /\ WriteEvent(ReviewEvent(r))
  /\ Answer(r, "ok")
  /\ UNCHANGED <<palette, apiKey, entity, ceiling, faults, settledBy>>

-----------------------------------------------------------------------------
SetBudget(c) ==
  /\ ceiling' = c
  /\ UNCHANGED <<palette, apiKey, entity, journal, threads>>

Retire(n) ==
  /\ entity[n] # None
  /\ SetEntity(n, None)
  /\ UNCHANGED <<palette, apiKey, ceiling, journal, threads>>

-----------------------------------------------------------------------------
KeyStep(r) == IssueKeyCheck(r) \/ IssueKeyStore(r) \/ VerifyKey(r)

BrandStep(r) == SetPalette(r) \/ CreateEntity(r)

PayStep(r) == ReadPolicy(r) \/ VerifyPayment(r) \/ SettlePayment(r) \/ RecordCost(r)

GenerateStep(r) ==
  LoadEntity(r) \/ Route(r) \/ CallModel(r) \/ JournalGeneration(r)

QaStep(r) == QaPalette(r) \/ QaEntity(r) \/ JournalQa(r) \/ QaLoad(r) \/ QaStore(r)

ReviewStep(r) == ReviewLoad(r) \/ ReviewStore(r) \/ JournalReview(r)

\* What the thread of a request does of itself.
Proceed(r) ==
  \/ KeyStep(r) \/ BrandStep(r) \/ PayStep(r) \/ GenerateStep(r)
  \/ QaStep(r) \/ ReviewStep(r) \/ Reply(r)

\* What happens to it.
Fault(r) == Raise(r) \/ SettlementLost(r)

Operator == (\E c \in Ceilings : SetBudget(c)) \/ (\E n \in Retirable : Retire(n))

Next ==
  \/ \E r \in Requests : Arrive(r) \/ Proceed(r) \/ Fault(r)
  \/ Crash
  \/ Operator

\* The operating system keeps running every thread of the pool; nothing says
\* that clients ever call, or that the operator acts.
Fairness == \A r \in Requests : WF_vars(Proceed(r))

Spec == Init /\ [][Next]_vars /\ Fairness
=============================================================================
