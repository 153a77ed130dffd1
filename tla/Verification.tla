---------------------------- MODULE Verification ----------------------------
(***************************************************************************)
(* Judging an output and learning from it (kinostate.verification.qa): the *)
(* palette and the entity are read, the verdict is journaled, and then the *)
(* entity is read again and written back whole with one score moved.       *)
(***************************************************************************)
EXTENDS Router

\* Mutant: the rate is added, not applied to the distance left.
LearnAdditive(score, passed) ==
  IF passed THEN score + (3 * Scale) \div 10 ELSE score - (3 * Scale) \div 10

\* CONFIDENCE_LEARNING_RATE 0.3: a step from the score towards 1 or 0.
Learn(score, passed) ==
  LET target == IF passed THEN Scale ELSE 0
  IN  score + (3 * (target - score)) \div 10

QaPalette(r) ==
  /\ thread[r].pc = "qa_palette"
  /\ Become(r, [thread[r] EXCEPT !.pc = "qa_entity", !.passed = palette])
  /\ UNCHANGED <<store, faults, settledBy>>

\* The outcomes of the character match of an output of model m: without a
\* reference asset it fails, a mocked output is waved through, a real one is
\* compared frame by frame.
CharacterMatch(body, m) ==
  IF body = None \/ ~body.asset THEN {FALSE}
  ELSE IF ADAPTERS[m].live THEN BOOLEAN ELSE {TRUE}

\* Mutant: approval_status is not looked at.
QaEntityForgiving(r) ==
  LET body == entity[Primary(r)]
  IN  /\ thread[r].pc = "qa_entity"
      /\ \E match \in CharacterMatch(body, thread[r].model) :
           Become(r, [thread[r] EXCEPT !.pc = "journal_qa", !.passed = @ /\ match])
      /\ UNCHANGED <<store, faults, settledBy>>

\* A rejected entity fails by policy.
QaEntity(r) ==
  LET body == entity[Primary(r)]
      rejected == body # None /\ body.status = "rejected"
  IN  /\ thread[r].pc = "qa_entity"
      /\ \E match \in IF rejected THEN {FALSE}
                                  ELSE CharacterMatch(body, thread[r].model) :
           Become(r, [thread[r] EXCEPT !.pc = "journal_qa", !.passed = @ /\ match])
      /\ UNCHANGED <<store, faults, settledBy>>

QaEvent(r) == [kind |-> "qa", ref |-> r, name |-> Primary(r),
               model |-> thread[r].model, ok |-> thread[r].passed]

JournalQa(r) ==
  /\ thread[r].pc = "journal_qa"
  /\ WriteEvent(QaEvent(r))
  /\ Goto(r, "qa_load")
  /\ UNCHANGED <<palette, apiKey, entity, ceiling, faults, settledBy>>

\* _update_confidence: read...
QaLoad(r) ==
  LET body == entity[Primary(r)]
  IN  /\ thread[r].pc = "qa_load"
      /\ IF body = None
         THEN Conclude(r)
         ELSE Become(r, [thread[r] EXCEPT !.pc = "qa_store", !.held = body])
      /\ UNCHANGED <<store, faults, settledBy>>

\* Mutant: the new score is not put into the body.
QaStoreUnmoved(r) ==
  /\ thread[r].pc = "qa_store"
  /\ SetEntity(Primary(r), thread[r].held)
  /\ Conclude(r)
  /\ UNCHANGED <<palette, apiKey, ceiling, journal, faults, settledBy>>

\* ...and write back the body that was read.
QaStore(r) ==
  LET t == thread[r]
  IN  /\ t.pc = "qa_store"
      /\ SetEntity(Primary(r),
           [t.held EXCEPT !.confidence[t.model] = Learn(@, t.passed)])
      /\ Conclude(r)
      /\ UNCHANGED <<palette, apiKey, ceiling, journal, faults, settledBy>>
=============================================================================
