------------------------------- MODULE Threads -------------------------------
(***************************************************************************)
(* The server's worker threads.  The endpoints of kinostate.api.main are   *)
(* plain `def` functions, so FastAPI runs each request on a thread of its  *)
(* pool: a request is a thread that walks through its handler, one call of *)
(* BrandMemory or of an external service per step, interleaved with others.*)
(* No handler catches an exception, so one raised anywhere answers 500;    *)
(* the process may also die, taking every thread with it, and restart on   *)
(* the same file.                                                          *)
(***************************************************************************)
EXTENDS TenantStore

CONSTANTS
  Workload,     \* the calls each request may turn out to be
  Payments,     \* signed payments the clients hold
  Metered,      \* is KINOSTATE_X402_PAY_TO_ADDRESS set?
  ThreadLimit,  \* size of the thread pool
  MaxFaults     \* bound: exceptions, lost answers and crashes per behaviour

OnboardCall == [op: {"onboard"}, palette: BOOLEAN]
AddCall == [op: {"add"}, name: Names, asset: BOOLEAN, additional: Nat]
\* An override outside Models names no adapter; duration is in half seconds.
GenerateCall == [op: {"generate"}, names: Seq(Names), override: Nat \cup {None},
                 payment: Payments \cup {None}, duration: Nat]
ReviewCall == [op: {"review"}, generation: Requests, name: Names, approved: BOOLEAN]

Call == OnboardCall \cup AddCall \cup GenerateCall \cup ReviewCall

ThreadsAssumption ==
  /\ Workload \in [Requests -> SUBSET Call]
  /\ Metered \in BOOLEAN /\ ThreadLimit \in Nat /\ MaxFaults \in Nat
  /\ None \notin Payments /\ None \notin Call
ASSUME ThreadsAssumption

\* The steps of the four handlers, each named for the call it is about to make.
HandlerSteps ==
  [onboard  |-> {"set_palette", "get_key", "set_key"},
   add      |-> {"verify_key", "create_entity"},
   generate |-> {"verify_key", "read_policy", "verify_payment",
                 "settle_payment", "load_entities", "call_model",
                 "journal_generation", "qa_palette", "qa_entity", "journal_qa",
                 "qa_load", "qa_store", "record_cost"},
   review   |-> {"verify_key", "review_load", "review_store", "journal_review"}]

Steps == UNION {HandlerSteps[op] : op \in DOMAIN HandlerSteps}
Answers == {"ok", "unauthorized", "payment_required", "not_found", "error", "lost"}

VARIABLES thread, faults,
          settledBy       \* the facilitator: whose request settled a payment
threads == <<thread, faults, settledBy>>

\* `loaded`, `model`, `held` and `passed` are the handler's local variables;
\* `key` is the key a client presents, or the one this onboarding drew.
Thread == [pc: Steps \cup {"idle", "reply", "done"}, call: Call \cup {None},
           key: Requests \cup {None}, loaded: Seq(Portrait),
           model: Models \cup {None}, held: EntityBody \cup {None},
           passed: BOOLEAN, answer: Answers \cup {None}]

Idle == [pc |-> "idle", call |-> None, key |-> None, loaded |-> << >>,
         model |-> None, held |-> None, passed |-> FALSE, answer |-> None]

ThreadsInit ==
  /\ thread = [r \in Requests |-> Idle]
  /\ faults = 0
  /\ settledBy = [p \in Payments |-> None]

InHandler(r) == thread[r].pc \in Steps
InFlight == {r \in Requests : thread[r].pc \notin {"idle", "done"}}
Answered(r, answer) == thread[r].pc = "done" /\ thread[r].answer = answer

\* The steps that write back an entity body read earlier, and those that judge
\* the output for the first entity of the request.
WriteBackSteps == {"qa_store", "review_store"}
QaSteps == {"qa_palette", "qa_entity", "journal_qa", "qa_load", "qa_store"}

\* A thread that has a request is at a step of that request's own handler, with
\* a body in hand where it writes one back and an entity where it judges one.
AtOwnStep(t) ==
  /\ t.pc \in WriteBackSteps => t.held # None
  /\ t.pc \in QaSteps => t.call.names # << >>
  /\ t.pc # "idle" => t.call \in Call
  /\ t.pc \in Steps => t.pc \in HandlerSteps[t.call.op]

ThreadsTypeOK ==
  /\ thread \in [Requests -> Thread]
  /\ \A r \in Requests : AtOwnStep(thread[r])
  /\ faults \in 0..MaxFaults
  /\ settledBy \in [Payments -> Requests \cup {None}]

-----------------------------------------------------------------------------
Become(r, t) == thread' = [thread EXCEPT ![r] = t]

Goto(r, step) == Become(r, [thread[r] EXCEPT !.pc = step])

\* The handler returns or raises: its locals die, its answer is on the way.
Answer(r, answer) ==
  Become(r, [Idle EXCEPT !.pc = "reply", !.call = thread[r].call,
                         !.key = thread[r].key, !.answer = answer])

Reply(r) ==
  /\ thread[r].pc = "reply"
  /\ Goto(r, "done")
  /\ UNCHANGED <<store, faults, settledBy>>

\* The call a handler is about to make raises, before having any effect.
Raise(r) ==
  /\ InHandler(r)
  /\ faults < MaxFaults
  /\ Answer(r, "error")
  /\ faults' = faults + 1
  /\ UNCHANGED <<store, settledBy>>

\* The process dies with every request in flight; only the store survives.
Crash ==
  /\ InFlight # {}
  /\ faults < MaxFaults
  /\ thread' = [r \in Requests |->
       IF r \in InFlight
       THEN [Idle EXCEPT !.pc = "done", !.call = thread[r].call, !.answer = "lost"]
       ELSE thread[r]]
  /\ faults' = faults + 1
  /\ UNCHANGED <<store, settledBy>>
=============================================================================
