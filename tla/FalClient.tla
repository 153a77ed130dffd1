----------------------------- MODULE FalClient -----------------------------
(***************************************************************************)
(* One shot from the compiled payload to its video: _call_model of         *)
(* kinostate.router.router over the client of fal.ai's queue               *)
(* (kinostate.router.clients.fal_client).  The job is submitted, its       *)
(* status polled until a deadline, its result fetched; nothing is retried. *)
(* The vendor works on a job in its own time.  Time passes only while the  *)
(* client is blocked: in an HTTP exchange, for at most HttpTimeout, or     *)
(* asleep, for exactly Interval.  The router sees all of it as one step,   *)
(* CallModel, which VendorCall states on its own.                          *)
(***************************************************************************)
EXTENDS Compiler

CONSTANTS
  Shots,        \* the requests to choose from
  Timeout,      \* timeout_seconds
  Interval,     \* poll_interval_seconds
  HttpTimeout   \* httpx gives up on an exchange after this long

FalAssumption ==
  /\ Shots \subseteq Shot /\ Models = DOMAIN Styles
  /\ Timeout \in Nat /\ Interval \in Nat /\ HttpTimeout \in Nat
ASSUME FalAssumption

VARIABLES
  shot, model,  \* what is asked for, and of whom
  pc,
  deadline,
  seen,         \* the status in the vendor's answer to the poll under way
  outcome,      \* what _call_model returned or raised
  job,          \* the vendor: the job's status
  finished,     \* the vendor: when the job was done
  now, waited   \* the clock, and how long the client has been blocked
vars == <<shot, model, pc, deadline, seen, outcome, job, finished, now, waited>>

Exchanges == {"submit", "poll", "fetch"}
Statuses == {"none", "queued", "done", "failed"}
Never == -1

\* "FalError" and "TimedOut" are both raised as FalError; "HTTPError" stands
\* for what httpx and json raise by themselves.
Failures == {"PayloadValidationError", "FalError", "TimedOut", "HTTPError"}

FalTypeOK ==
  /\ shot \in Shots /\ model \in Models
  /\ pc \in Exchanges \cup {"compile", "connect", "sleep", "done"}
  /\ outcome \in Failures \cup {"none", "mock", "video"}
  /\ seen \in Statuses /\ job \in Statuses
  /\ deadline \in Nat /\ now \in Nat /\ waited \in Nat
  /\ waited <= IF pc = "sleep" THEN Interval ELSE HttpTimeout
  /\ finished \in Int /\ finished >= Never

Init ==
  /\ shot \in Shots /\ model \in Models
  /\ pc = "compile" /\ outcome = "none"
  /\ job = "none" /\ seen = "none" /\ finished = Never
  /\ deadline = 0 /\ now = 0 /\ waited = 0

-----------------------------------------------------------------------------
asked == <<shot, model>>
clock == <<now, waited>>
vendor == <<job, finished>>

Goto(step) == pc' = step /\ waited' = 0 /\ UNCHANGED <<outcome, now>>

End(o) == pc' = "done" /\ outcome' = o /\ UNCHANGED clock

IsLive(m) == ADAPTERS[m].live

\* compile() and validate(), and then _call_model: a model that is not among
\* REAL_MODELS is mocked.
Compile ==
  /\ pc = "compile"
  /\ IF ~Accepted(model, shot) THEN End("PayloadValidationError")
     ELSE IF IsLive(model) THEN Goto("connect") ELSE End("mock")
  /\ UNCHANGED <<asked, deadline, seen, vendor>>

\* The client is built, which takes a FAL_KEY.
Connect ==
  /\ pc = "connect"
  /\ Goto("submit") \/ End("FalError")
  /\ UNCHANGED <<asked, deadline, seen, vendor>>

Accept == job' = "queued" /\ UNCHANGED finished

\* _submit: fal answers with the URLs of the job, refuses it, or answers
\* something that has no URLs, the job queued all the same.
Submit ==
  /\ pc = "submit"
  /\ \/ Accept /\ Goto("poll") /\ deadline' = now + Timeout
     \/ (Accept \/ UNCHANGED vendor) /\ End("FalError") /\ UNCHANGED deadline
  /\ UNCHANGED <<asked, seen>>

\* The vendor reads the job's status to answer a poll.
ServePoll ==
  /\ pc = "poll" /\ seen = "none"
  /\ seen' = job
  /\ UNCHANGED <<asked, pc, deadline, outcome, vendor, clock>>

\* Mutant: the deadline is tested first.
PollAnsweredLate ==
  /\ pc = "poll" /\ seen # "none"
  /\ IF now >= deadline THEN End("TimedOut")
     ELSE IF seen = "done" THEN Goto("fetch")
     ELSE IF seen = "failed" THEN End("FalError") ELSE Goto("sleep")
  /\ UNCHANGED <<asked, deadline, vendor>> /\ seen' = "none"

\* Mutant: only a failed status ends the polling.
PollAnsweredForever ==
  /\ pc = "poll" /\ seen # "none"
  /\ IF seen = "done" THEN Goto("fetch")
     ELSE IF seen = "failed" THEN End("FalError") ELSE Goto("sleep")
  /\ UNCHANGED <<asked, deadline, vendor>> /\ seen' = "none"

\* Mutant: a failed job is fetched like a finished one.
PollAnsweredAny ==
  /\ pc = "poll" /\ seen # "none"
  /\ IF seen \in {"done", "failed"} THEN Goto("fetch")
     ELSE IF now >= deadline THEN End("TimedOut") ELSE Goto("sleep")
  /\ UNCHANGED <<asked, deadline, vendor>> /\ seen' = "none"

\* One turn of _poll_until_done, its answer in: the status, then the deadline.
PollAnswered ==
  /\ pc = "poll" /\ seen # "none"
  /\ IF seen = "done" THEN Goto("fetch")
     ELSE IF seen = "failed" THEN End("FalError")
     ELSE IF now >= deadline THEN End("TimedOut") ELSE Goto("sleep")
  /\ UNCHANGED <<asked, deadline, vendor>> /\ seen' = "none"

\* Mutant: the sleep lasts until somebody has waited longer than it.
WakeNever ==
  /\ pc = "sleep" /\ waited > Interval
  /\ Goto("poll")
  /\ UNCHANGED <<asked, deadline, seen, vendor>>

Wake ==
  /\ pc = "sleep" /\ waited = Interval
  /\ Goto("poll")
  /\ UNCHANGED <<asked, deadline, seen, vendor>>

\* _fetch_result and extract_output_url: the result, or one without a video.
Fetch ==
  /\ pc = "fetch"
  /\ End("video") \/ End("FalError")
  /\ UNCHANGED <<asked, deadline, seen, vendor>>

\* An exchange breaks off, times out, or brings a status or body that httpx or
\* json rejects; a job may have been queued by then.
Broken ==
  /\ pc \in Exchanges
  /\ End("HTTPError") /\ seen' = "none"
  /\ UNCHANGED vendor \/ (pc = "submit" /\ Accept)
  /\ UNCHANGED <<asked, deadline>>

-----------------------------------------------------------------------------
\* The vendor ends a job, also when nobody waits for it any more.
Finish ==
  /\ job = "queued"
  /\ \/ job' = "done" /\ finished' = now
     \/ job' = "failed" /\ UNCHANGED finished
  /\ UNCHANGED <<asked, pc, deadline, seen, outcome, clock>>

\* Mutant: the job's timeout is also that of each exchange.
PatienceShared == IF pc = "sleep" THEN Interval ELSE Timeout

Patience == IF pc = "sleep" THEN Interval ELSE HttpTimeout

Tick ==
  /\ pc \in Exchanges \cup {"sleep"}
  /\ waited < Patience
  /\ now' = now + 1 /\ waited' = waited + 1
  /\ UNCHANGED <<asked, pc, deadline, seen, outcome, vendor>>

\* What the client does, and what befalls it.
Client == Compile \/ Connect \/ Submit \/ PollAnswered \/ Wake \/ Fetch \/ Broken

Next == Client \/ ServePoll \/ Finish \/ Tick

\* The client runs and time passes.  Nothing is assumed of the vendor: it may
\* neither work on the job nor answer.
Fairness == WF_vars(Tick) /\ WF_vars(Client)

Spec == Init /\ [][Next]_vars /\ Fairness

-----------------------------------------------------------------------------
\* Adapters!Serves, on which the API's model routes, is what compile() and
\* validate() amount to: a request is refused exactly when a limit is exceeded,
\* whatever order the checks run in and however the images are listed (FR-10).
ServesIsAccepted == Serves(ADAPTERS[model], shot.entities, shot.halves)
                      <=> Accepted(model, shot)

\* The caller is held for no longer than the timeout, one interval more, and
\* the three exchanges that the deadline does not cut short: the submission,
\* the last poll and the fetch (run_model's timeout_seconds).
EndsInTime == now <= Timeout + Interval + 3 * HttpTimeout

\* A job that was done an exchange before the deadline is not reported as
\* timed out: the last look at it comes after that (_poll_until_done).
NotGivenUpEarly ==
  outcome = "TimedOut" => finished = Never \/ finished + HttpTimeout >= deadline

\* run_model ends, whatever the vendor does: the reason for which the threads
\* of the API may be assumed to proceed.
CallEnds == <>(pc = "done")

Result == IF outcome = "none" THEN "pending"
          ELSE IF outcome \in Failures THEN "error" ELSE outcome

Call == INSTANCE VendorCall WITH
  Live <- {m \in Models : IsLive(m)}, result <- Result

\* A video is only ever that of a finished job, one job is submitted at most,
\* and no failure of a live model turns into a mocked output (_call_model).
ImplementsVendorCall == Call!Spec

\* The payload got past compile() and validate().
Sent == pc # "compile" /\ outcome # "PayloadValidationError"

\* "prompt (must tag each reference image inline" (xai_grok_imagine_video), which
\* that adapter does as long as no entity brings additional images.
EveryImageTagged ==
  Sent /\ Styles[model].tags # "nothing" =>
    Tags(Styles[model], shot.entities) = DOMAIN Images(Styles[model], shot.entities)
=============================================================================
