---------------------------- MODULE ApiProperties ----------------------------
(***************************************************************************)
(* What the API should guarantee a brand.  The first part holds however    *)
(* threads interleave and whatever fails; the second as long as no two     *)
(* requests rewrite the same record at the same time; the third is what    *)
(* the documentation says and the code does not do.                        *)
(***************************************************************************)
EXTENDS Api

-----------------------------------------------------------------------------
(* Under concurrency and faults. *)

LinksBack(i) ==
  \E g \in 1..(i - 1) :
    /\ journal[g].kind = "generation" /\ journal[g].ref = journal[i].ref
    /\ journal[i].kind = "qa" => /\ journal[g].name = journal[i].name
                                 /\ journal[g].model = journal[i].model

\* The journal of any prefix of any behaviour can be audited: a QA verdict and
\* a cost stand after the one generation event they are about, the verdict
\* for its entity and model, and there is at most one of each (FR-16, FR-20).
JournalLinked ==
  /\ \A i \in DOMAIN journal : journal[i].kind \in {"qa", "cost"} => LinksBack(i)
  /\ \A i, j \in DOMAIN journal :
       /\ journal[i].kind = journal[j].kind /\ journal[i].kind # "review"
       /\ journal[i].ref = journal[j].ref
       => i = j

\* A generation answered 200 is fully journaled: it happened, its verdict is
\* there if it had an entity to be judged against, its cost if it was metered.
AcknowledgedIsJournaled ==
  \A r \in Requests :
    Answered(r, "ok") /\ thread[r].call.op = "generate" =>
      /\ Written("generation", r) # {}
      /\ thread[r].call.names # << >> => Written("qa", r) # {}
      /\ Metered => Written("cost", r) # {}

\* On a metered server every journaled generation was paid with a settled
\* payment of its own: none is free, and no payment buys two (FR-19).
PaidGenerations ==
  Metered => \A i \in DOMAIN journal :
    journal[i].kind = "generation" =>
      LET p == thread[journal[i].ref].call.payment
      IN  p # None /\ settledBy[p] = journal[i].ref

\* "Returns the raw key (shown to the caller exactly once)" (issue_api_key):
\* without faults the key on file is one that somebody was shown, whichever of
\* two onboardings stores its key last.  A fault between the storing and the
\* showing leaves a key nobody knows.
KeyShownOnce ==
  faults = 0 /\ InFlight = {} /\ apiKey # None => apiKey \in Issued

\* Every request that reached a thread is answered, or lost with the process:
\* no handler waits for another or goes round in circles.  A request is served
\* once, so that none is left in flight means that every one has ended.
EveryRequestAnswered == []<>(InFlight = {})

\* The entity that a thread creates, or has read and will write back; a verdict
\* is rewriting its entity from its journaling to the storing of the score.
Rewrites(r) ==
  CASE thread[r].pc \in {"create_entity", "review_store"} -> {thread[r].call.name}
    [] thread[r].pc \in {"qa_load", "qa_store"} -> {Primary(r)}
    [] OTHER -> {}

\* A thread writes over what another one has written since it looked: a key, or
\* the entity whose body it holds.  It touches nothing else.
OvertakenWrite(r) ==
  \/ /\ thread[r].pc = "set_key" /\ apiKey # None
     /\ apiKey' = r /\ UNCHANGED entity
  \/ \E n \in Rewrites(r) :
       /\ thread[r].pc \in WriteBackSteps /\ thread[r].held # entity[n]
       /\ SetEntity(n, entity'[n]) /\ UNCHANGED apiKey

Brand == INSTANCE AtomicBrand WITH
  Keys <- Requests, key <- apiKey,
  status <- [n \in Names |-> IF entity[n] = None THEN None ELSE entity[n].status],
  scores <- [n \in Names |-> IF entity[n] = None THEN None ELSE entity[n].confidence]

\* Whatever overlaps, fails or is retired, a step that changes the key, a status
\* or a score is one whole operation of the brand's memory, unless it is the
\* write of a thread that was overtaken, and then the damage is to that record
\* (issue_api_key, review_generation and _update_confidence read, then write).
AtomicUnlessOvertaken ==
  [][Brand!Next \/ \E r \in Requests : OvertakenWrite(r)]_(Brand!vars)

-----------------------------------------------------------------------------
(* When no two requests rewrite one record at a time, as if each rewrote it   *)
(* under a lock.  The code takes none: what its absence costs is below.       *)

Apart ==
  \A q, r \in Requests : q # r =>
    /\ Rewrites(q) \cap Rewrites(r) = {}
    /\ ~(thread[q].pc = "set_key" /\ thread[r].pc = "set_key")

ApartSpec == Init /\ [][Next /\ Apart']_vars

\* A key shown to a client keeps working: onboarding again does not replace
\* it, and neither does a failed or interrupted onboarding (issue_api_key).
IssuedKeysStayValid == \A r \in Issued : apiKey = r

\* The reads and writes of a request add up to one atomic operation: a review
\* changes the status alone, a verdict one score alone, the key is set once.
ImplementsAtomicBrand == Brand!Spec

HasCall(r, op, n) ==
  thread[r].pc # "idle" /\ thread[r].call.op = op /\ thread[r].call.name = n

\* Nobody has asked for n to be approved, or created a second time.
OnlyRejected(n) ==
  /\ \A r \in Requests : HasCall(r, "review", n) => ~thread[r].call.approved
  /\ \A q, r \in Requests : HasCall(q, "add", n) /\ HasCall(r, "add", n) => q = r

IsRejection(e, n) == e.kind = "review" /\ e.name = n /\ ~e.ok
IsGeneration(e, n) == e.kind = "generation" /\ e.name = n

\* A rejection is final until somebody decides otherwise: what is generated of
\* the entity after the rejection was journaled fails QA, whatever verdicts of
\* earlier generations are still being stored (review_generation, run_qa).
RejectionHolds ==
  \A n \in Names : OnlyRejected(n) =>
    \A i, g, j \in DOMAIN journal :
      /\ i < g /\ IsRejection(journal[i], n) /\ IsGeneration(journal[g], n)
      /\ journal[j].kind = "qa" /\ journal[j].ref = journal[g].ref
      => ~journal[j].ok

\* An add_entity of n that has been done.  A second one starts the scores
\* afresh, which no event of the journal tells.
Created(r, n) ==
  /\ thread[r].pc \in {"reply", "done"} /\ thread[r].answer = "ok"
  /\ thread[r].call.op = "add" /\ thread[r].call.name = n

CreatedOnce(n) == \A q, r \in Requests : Created(q, n) /\ Created(r, n) => q = r

IsVerdict(e, n, m) == e.kind = "qa" /\ e.name = n /\ e.model = m

\* The score the verdicts of a journal add up to, one after the other.
Replayed(events, n, m) ==
  LET score[i \in 0..Len(events)] ==
        IF i = 0 THEN Scale \div 2
        ELSE IF IsVerdict(events[i], n, m) THEN Learn(score[i - 1], events[i].ok)
        ELSE score[i - 1]
  IN  score[Len(events)]

\* Without faults, an entity's score of a model while no request is in flight is
\* exactly what the journaled verdicts add up to, in their order: none is dropped,
\* counted twice, or counted for another model (FR-17).
OutcomesCounted ==
  faults = 0 /\ InFlight = {} =>
    \A n \in Names : entity[n] # None /\ CreatedOnce(n) =>
      \A m \in Models : entity[n].confidence[m] = Replayed(journal, n, m)

VerdictsOf(n, m) == {i \in DOMAIN journal : IsVerdict(journal[i], n, m)}

Untried(n, m) == VerdictsOf(n, m) = {}

FailedTwice(n, m) ==
  /\ \A i \in VerdictsOf(n, m) : ~journal[i].ok
  /\ \E i, j \in VerdictsOf(n, m) : i # j

\* Two failed verdicts and no success put a model behind every model the
\* entity has not tried yet, even while one of the two is not in the score yet:
\* without faults, a request without an override is not routed to it while
\* there is one (FR-18, with a start of 0.5).
TwiceFailedIsAvoided ==
  [][\A r \in Requests :
       /\ thread[r].pc = "load_entities" /\ thread'[r].pc = "call_model"
       /\ faults = 0 /\ thread[r].call.override = None
       /\ Primary(r) # None /\ CreatedOnce(Primary(r))
       /\ \E m \in Models : Untried(Primary(r), m)
       => ~FailedTwice(Primary(r), thread'[r].model)]_vars

-----------------------------------------------------------------------------
(* What the documentation says. *)

NewEvents == DOMAIN journal' \ DOMAIN journal

\* "Marked rejected -- character match fails by policy" (run_qa): no output
\* passes of an entity that is rejected when the verdict is journaled.
RejectedNeverPasses ==
  [][\A i \in NewEvents : journal'[i].kind = "qa" /\ journal'[i].ok =>
       entity[journal'[i].name] # None
         /\ entity[journal'[i].name].status # "rejected"]_vars

Leaves(r, step) == thread[r].pc = step /\ thread'[r].pc # step

\* An entity's approval status is what the brand decided (FR-28): only a
\* review, or creating the entity anew, changes it.
ReviewStands ==
  [][\A n \in Names :
       entity[n] # None /\ entity'[n] # None /\ entity'[n].status # entity[n].status
       => \E r \in Requests : Leaves(r, "review_store") \/ Leaves(r, "create_entity")]_vars

\* "Every call writes one COLD journal event regardless of outcome (FR-14)"
\* (route_and_generate), and "System shall record per-call cost in the COLD
\* journal" (FR-20): by the time its request has been answered, a call that was
\* paid for is in the journal, and so is its cost.
PaidCallsJournaled ==
  \A p \in Payments :
    settledBy[p] # None /\ thread[settledBy[p]].pc = "done" =>
      Written("generation", settledBy[p]) # {} /\ Written("cost", settledBy[p]) # {}
=============================================================================
