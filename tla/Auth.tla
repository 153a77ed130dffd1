-------------------------------- MODULE Auth --------------------------------
(***************************************************************************)
(* Issuing and checking a brand's API key (kinostate.api.auth).  Issuing   *)
(* is a read and a write of REFERENCE, two transactions.                   *)
(***************************************************************************)
EXTENDS Threads

\* Keys whose plain text some client has been shown.
Issued == {r \in Requests : Answered(r, "ok") /\ thread[r].key = r}

\* Mutant: every onboarding draws a key.
IssueKeyCheckNever(r) ==
  /\ thread[r].pc = "get_key"
  /\ Goto(r, "set_key")
  /\ UNCHANGED <<store, faults, settledBy>>

IssueKeyCheck(r) ==
  /\ thread[r].pc = "get_key"
  /\ IF apiKey # None THEN Answer(r, "ok") ELSE Goto(r, "set_key")
  /\ UNCHANGED <<store, faults, settledBy>>

\* Mutant: the key that was stored is not returned.
IssueKeyStoreUntold(r) ==
  /\ thread[r].pc = "set_key"
  /\ apiKey' = r
  /\ Answer(r, "ok")
  /\ UNCHANGED <<palette, entity, ceiling, journal, faults, settledBy>>

IssueKeyStore(r) ==
  /\ thread[r].pc = "set_key"
  /\ apiKey' = r
  /\ Become(r, [thread[r] EXCEPT !.pc = "reply", !.answer = "ok", !.key = r])
  /\ UNCHANGED <<palette, entity, ceiling, journal, faults, settledBy>>

KeyAccepted(r) == apiKey # None /\ thread[r].key = apiKey

\* Where the handler goes on, its caller known.
Authorized(op) ==
  CASE op = "add"      -> "create_entity"
    [] op = "review"   -> "review_load"
    [] op = "generate" -> IF Metered THEN "read_policy" ELSE "load_entities"

VerifyKey(r) ==
  /\ thread[r].pc = "verify_key"
  /\ IF KeyAccepted(r)
     THEN Become(r, [thread[r] EXCEPT
                       !.pc = Authorized(thread[r].call.op), !.key = None])
     ELSE Answer(r, "unauthorized")
  /\ UNCHANGED <<store, faults, settledBy>>
=============================================================================
