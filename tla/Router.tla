------------------------------- MODULE Router -------------------------------
(***************************************************************************)
(* Choosing a model and generating (kinostate.router.router): the models   *)
(* are scored for the primary entity, the chosen adapter compiles and      *)
(* validates the request, the model runs, and the generation is journaled. *)
(***************************************************************************)
EXTENDS Metering

\* RoutingPolicy.min_confidence_threshold, 0.3.
Threshold == (3 * Scale) \div 10

\* Mutant: the threshold is compared the wrong way round.
pick_model_below(confidence) ==
  LET below == {m \in Models : confidence[m] <= Threshold}
      candidates == IF below = {} THEN Models ELSE below
  IN  CHOOSE m \in candidates : \A n \in candidates :
        \/ confidence[m] > confidence[n]
        \/ confidence[m] = confidence[n] /\ m <= n

\* The highest score, the first of equals.  The threshold keeps the best model
\* in, so it never changes the choice.
pick_model(confidence) ==
  LET above == {m \in Models : confidence[m] >= Threshold}
      candidates == IF above = {} THEN Models ELSE above
  IN  CHOOSE m \in candidates : \A n \in candidates :
        \/ confidence[m] > confidence[n]
        \/ confidence[m] = confidence[n] /\ m <= n

Primary(r) == IF thread[r].call.names = << >> THEN None ELSE thread[r].call.names[1]

Scores(n) == IF entity[n] = None THEN Unscored ELSE entity[n].confidence

\* An override stands as it is; without entities the first model serves.
ChosenModel(r) ==
  IF thread[r].call.override # None THEN thread[r].call.override
  ELSE IF Primary(r) # None THEN pick_model(Scores(Primary(r)))
  ELSE 1

\* Mutant: the loop over the entities never moves on.
LoadEntityAgain(r) ==
  LET names == thread[r].call.names
      body  == entity[names[Len(thread[r].loaded) + 1]]
  IN  /\ thread[r].pc = "load_entities"
      /\ Len(thread[r].loaded) < Len(names)
      /\ IF body = None THEN Answer(r, "not_found") ELSE Goto(r, "load_entities")
      /\ UNCHANGED <<store, faults, settledBy>>

\* One entity of the request is read; the compiler works on these copies.
LoadEntity(r) ==
  LET names == thread[r].call.names
      body  == entity[names[Len(thread[r].loaded) + 1]]
      portrait == [asset |-> body.asset, additional |-> body.additional]
  IN  /\ thread[r].pc = "load_entities"
      /\ Len(thread[r].loaded) < Len(names)
      /\ IF body = None
         THEN Answer(r, "not_found")
         ELSE Become(r, [thread[r] EXCEPT !.loaded = Append(@, portrait)])
      /\ UNCHANGED <<store, faults, settledBy>>

\* Pick, compile and validate, all on one read of the primary entity.  An
\* unknown model and a payload the adapter rejects are exceptions: 500.
Route(r) ==
  LET call == thread[r].call
      m    == ChosenModel(r)
  IN  /\ thread[r].pc = "load_entities"
      /\ Len(thread[r].loaded) = Len(call.names)
      /\ IF m \in Models /\ Serves(ADAPTERS[m], thread[r].loaded, call.duration)
         THEN Become(r, [thread[r] EXCEPT !.pc = "call_model", !.model = m,
                                          !.loaded = << >>])
         ELSE Answer(r, "error")
      /\ UNCHANGED <<store, faults, settledBy>>

Live(r) == ADAPTERS[thread[r].model].live

\* Mutant: a failed job is passed on to QA like a finished one.
CallModelFallback(r) ==
  /\ thread[r].pc = "call_model"
  /\ \/ Goto(r, "journal_generation")
     \/ Live(r) /\ Primary(r) # None /\ Goto(r, "qa_palette")
  /\ UNCHANGED <<store, faults, settledBy>>

\* A live vendor may fail the job (FalError); a mocked one never does.
CallModel(r) ==
  /\ thread[r].pc = "call_model"
  /\ \/ Goto(r, "journal_generation")
     \/ Live(r) /\ Answer(r, "error")
  /\ UNCHANGED <<store, faults, settledBy>>

GenerationEvent(r) == [kind |-> "generation", ref |-> r, name |-> Primary(r),
                       model |-> thread[r].model, ok |-> TRUE]

\* The generation counts from here; without entities nobody judges it.
JournalGeneration(r) ==
  /\ thread[r].pc = "journal_generation"
  /\ WriteEvent(GenerationEvent(r))
  /\ IF Primary(r) = None THEN Conclude(r) ELSE Goto(r, "qa_palette")
  /\ UNCHANGED <<palette, apiKey, entity, ceiling, faults, settledBy>>
=============================================================================
