------------------------------ MODULE AcpJobs ------------------------------
(***************************************************************************)
(* The brand as provider and evaluator of ACP jobs: the three handlers of  *)
(* kinostate.economic.virtuals_acp over the acp CLI                        *)
(* (kinostate.economic.clients.acp_cli).  A listener appends an event to a *)
(* file for each turn a job takes; a host drains the file and hands events *)
(* to the handlers, each of which reads the brand's memory and issues one  *)
(* CLI command.  The repository has no such host but acp_job_demo.py,      *)
(* which hands over one event and ends: what a host does with its batch,   *)
(* and whether it ever does, is left open here.  The protocol of the jobs  *)
(* is on chain: it refuses a command that the job's phase does not allow,  *)
(* and the CLI then exits non-zero.  Any command may fail, or take effect  *)
(* and report a failure; events may come again or not at all; the host may *)
(* crash with what it drained.                                             *)
(***************************************************************************)
EXTENDS Integers, Sequences, FiniteSets

CONSTANTS
  Jobs,         \* the jobs that may be created
  Requirement,  \* what each job is about: [role, tier, key]
  Keys,         \* the keys of REFERENCE and the entities of WARM
  Limit,        \* of events drained at a time
  Testnet,      \* the environment's IS_TESTNET: "true", "false" or unset
  ProviderMayReject, \* whether the protocol lets a provider reject a job
  MaxEdits,     \* bound on the changes of one key
  MaxFaults,    \* bound on the faults of a behaviour
  None

Tiers == {"reference", "warm", "hot"}
Event == [type: {"created", "funded", "submitted"}, job: Jobs]

AcpAssumption ==
  /\ Requirement \in [Jobs -> [role: {"grant", "evaluation"}, tier: Tiers, key: Keys]]
  /\ Limit \in Nat \ {0} /\ Testnet \in {"true", "false", None}
  /\ ProviderMayReject \in BOOLEAN
  /\ MaxEdits \in Nat /\ MaxFaults \in Nat /\ None \notin Event
ASSUME AcpAssumption

VARIABLES
  phase,        \* on chain: the phase of each job
  deliverable,  \* on chain: what each job was delivered
  fundedAt,     \* history: the version of the data when the job was funded
  file, sent,   \* the listener's file, and history: every event it wrote
  batch, event, \* the host: the events drained, and the one in hand
  pc,           \* where its handler is
  data, command,\* what a handler read last, and the command it issues
  checked,      \* history: the outcome of each job's latest consistency check
  memory,       \* the brand's memory, edited meanwhile
  journal,      \* how often the grant of each job was journaled
  faults

chain == <<phase, deliverable, fundedAt, file, sent>>
hand == <<event, data, command>>
vars == <<chain, batch, hand, pc, checked, memory, journal, faults>>

Phases == {"none", "open", "budgeted", "funded", "submitted", "completed", "rejected"}
Datum == [key: Keys, version: Nat]
Commands == {"accept", "submit", "complete", "reject"}
Outcomes == {"pass", "fail", "error"}

AcpTypeOK ==
  /\ phase \in [Jobs -> Phases]
  /\ deliverable \in [Jobs -> Datum \cup {None}]
  /\ fundedAt \in [Jobs -> Nat]
  /\ file \in Seq(Event) /\ batch \in Seq(Event) /\ sent \subseteq Event
  /\ event \in Event \cup {None} /\ (event = None <=> pc = "idle")
  /\ pc \in {"idle", "read", "check", "command", "journal"}
  /\ data \in Datum \cup {None}
  /\ pc = "command" => command \in Commands /\ (command \in {"submit", "complete"} => data # None)
  /\ command \in Commands \cup {None}
  /\ checked \in [Jobs -> Outcomes \cup {None}]
  /\ memory \in [Keys -> [version: 0..MaxEdits, present: BOOLEAN]]
  /\ journal \in [Jobs -> Nat]
  /\ faults \in 0..MaxFaults

Init ==
  /\ phase = [j \in Jobs |-> "none"]
  /\ deliverable = [j \in Jobs |-> None] /\ fundedAt = [j \in Jobs |-> 0]
  /\ file = << >> /\ sent = {} /\ batch = << >>
  /\ event = None /\ pc = "idle" /\ data = None /\ command = None
  /\ checked = [j \in Jobs |-> None]
  /\ memory \in [Keys -> [version: {0}, present: BOOLEAN]]
  /\ journal = [j \in Jobs |-> 0] /\ faults = 0

Key(j) == Requirement[j].key
IsGrant(j) == Requirement[j].role = "grant"

-----------------------------------------------------------------------------
(* The chain, its other parties, and the listener.                         *)

Turn(j, p) == phase' = [phase EXCEPT ![j] = p]

\* The network the CLI authenticates on, and so that of the jobs: _run_acp sets
\* IS_TESTNET by default.
Network == IF Testnet = "false" THEN "mainnet" ELSE "testnet"

\* The network the listener is started on.
ListenerNetwork == IF Testnet = "true" THEN "testnet" ELSE "mainnet"

Notify(t, j) ==
  LET e == [type |-> t, job |-> j]
  IN  IF ListenerNetwork = Network THEN file' = Append(file, e) /\ sent' = sent \cup {e}
                                   ELSE UNCHANGED <<file, sent>>

\* create_custom_job: a buyer asks the brand for data, or for its judgement.
Create(j) ==
  /\ phase[j] = "none" /\ Turn(j, "open")
  /\ IF IsGrant(j) THEN Notify("created", j) ELSE UNCHANGED <<file, sent>>
  /\ UNCHANGED <<deliverable, fundedAt>>

Fund(j) ==
  /\ IsGrant(j) /\ phase[j] = "budgeted" /\ Turn(j, "funded")
  /\ fundedAt' = [fundedAt EXCEPT ![j] = memory[Key(j)].version]
  /\ Notify("funded", j)
  /\ UNCHANGED deliverable

\* Another provider hands in what the brand is to evaluate.
HandIn(j) ==
  /\ ~IsGrant(j) /\ phase[j] = "open" /\ Turn(j, "submitted")
  /\ Notify("submitted", j)
  /\ UNCHANGED <<deliverable, fundedAt>>

\* The buyer calls the job off before anything is delivered.
Cancel(j) ==
  /\ phase[j] \in {"open", "budgeted"} /\ Turn(j, "rejected")
  /\ UNCHANGED <<deliverable, fundedAt, file, sent>>

Others ==
  /\ \E j \in Jobs : Create(j) \/ Fund(j) \/ HandIn(j) \/ Cancel(j)
  /\ UNCHANGED <<batch, hand, pc, checked, memory, journal, faults>>

\* The brand changes or removes what a job may ask for.
Edit ==
  /\ \E k \in Keys, there \in BOOLEAN :
       /\ memory[k].version < MaxEdits
       /\ memory' = [memory EXCEPT ![k] = [version |-> @.version + 1, present |-> there]]
  /\ UNCHANGED <<chain, batch, hand, pc, checked, journal, faults>>

-----------------------------------------------------------------------------
(* The host and the handlers.                                              *)

\* drain_events: events read are events removed.
Drain ==
  /\ event = None /\ batch = << >> /\ file # << >>
  /\ LET n == IF Len(file) < Limit THEN Len(file) ELSE Limit
     IN  batch' = SubSeq(file, 1, n) /\ file' = SubSeq(file, n + 1, Len(file))
  /\ UNCHANGED <<phase, deliverable, fundedAt, sent, hand, pc, checked, memory, journal, faults>>

\* The host hands an event to the handler of its type, and goes on with the rest
\* or, like the demo, lets go of it.
Take ==
  /\ event = None /\ batch # << >>
  /\ event' = Head(batch) /\ batch' \in {Tail(batch), << >>} /\ pc' = "read"
  /\ UNCHANGED <<chain, data, command, checked, memory, journal, faults>>

\* ELIGIBLE_GRANT_TIERS
Eligible(j) == Requirement[j].tier \in {"reference", "warm"}

OnFile(j) ==
  IF memory[Key(j)].present THEN [key |-> Key(j), version |-> memory[Key(j)].version] ELSE None

\* Mutant: what was read for the event before is taken again.
FetchOnce(j) == IF data # None THEN data ELSE OnFile(j)

\* _fetch_grant_data, and the evaluator's look-up of a reference asset.
Fetch(j) == IF IsGrant(j) => Eligible(j) THEN OnFile(j) ELSE None

Issue(c) == pc' = "command" /\ command' = c /\ UNCHANGED <<event, checked>>

Return == pc' = "idle" /\ event' = None /\ command' = None

\* handle_access_request: accept, or reject, a job that was created.
HandleAccessRequest ==
  /\ event.type = "created"
  /\ data' = Fetch(event.job)
  /\ IF Eligible(event.job) /\ data' # None THEN Issue("accept") ELSE Issue("reject")

\* Mutant: whatever was found is delivered.
DeliverAccessGrantBlindly ==
  /\ event.type = "funded"
  /\ data' = Fetch(event.job)
  /\ Issue("submit")

\* deliver_access_grant, up to its command: the data is read afresh.
DeliverAccessGrant ==
  /\ event.type = "funded"
  /\ data' = Fetch(event.job)
  /\ IF data' # None THEN Issue("submit") ELSE Issue("reject")

\* evaluate_brand_consistency: without a reference there is nothing to check.
EvaluateBrandConsistency ==
  /\ event.type = "submitted"
  /\ data' = Fetch(event.job)
  /\ IF data' # None THEN pc' = "check" /\ UNCHANGED <<event, command, checked>>
                     ELSE Issue("reject")

Read ==
  /\ pc = "read"
  /\ HandleAccessRequest \/ DeliverAccessGrant \/ EvaluateBrandConsistency
  /\ UNCHANGED <<chain, batch, memory, journal, faults>>

\* Mutant: a check that could not run lets the job through.
CheckLeniently ==
  /\ pc = "check"
  /\ \E o \in Outcomes :
       /\ checked' = [checked EXCEPT ![event.job] = o]
       /\ command' = IF o = "fail" THEN "reject" ELSE "complete"
  /\ pc' = "command" /\ UNCHANGED <<chain, batch, event, data, memory, journal, faults>>

\* check_visual_consistency, which may raise, and the choice it makes.
Check ==
  /\ pc = "check"
  /\ \E o \in Outcomes :
       /\ checked' = [checked EXCEPT ![event.job] = o]
       /\ command' = IF o = "pass" THEN "complete" ELSE "reject"
  /\ pc' = "command" /\ UNCHANGED <<chain, batch, event, data, memory, journal, faults>>

\* Mutant: commands always name the test chain.
ChainIdFixed == "testnet"

\* _default_chain_id: the chain a command names.
ChainId == IF Testnet \in {"true", None} THEN "testnet" ELSE "mainnet"

\* Where the protocol lets the brand reject: as the evaluator of a job, and as its
\* provider if a provider may.
Rejectable(j) ==
  IF IsGrant(j) THEN ProviderMayReject /\ phase[j] \in {"open", "budgeted", "funded"}
                ELSE phase[j] \in {"open", "submitted"}

\* Where the protocol lets a command through.
Allowed(c, j) ==
  /\ ChainId = Network
  /\ CASE c = "accept"   -> phase[j] \in {"open", "budgeted"}
       [] c = "submit"   -> phase[j] = "funded"
       [] c = "complete" -> phase[j] = "submitted"
       [] c = "reject"   -> Rejectable(j)

\* What a command that is let through does.
Effect(c, j) ==
  /\ Turn(j, CASE c = "accept" -> "budgeted"   [] c = "submit" -> "submitted"
               [] c = "complete" -> "completed" [] c = "reject" -> "rejected")
  /\ deliverable' = IF c = "submit" THEN [deliverable EXCEPT ![j] = data] ELSE deliverable
  /\ UNCHANGED <<fundedAt, file, sent>>

\* A submission is journaled next; every other command is the handler's last.
Succeed == IF command = "submit" THEN pc' = "journal" /\ UNCHANGED <<event, command>> ELSE Return

\* Mutant: the exit code is not looked at.
RunUnchecked ==
  /\ pc = "command"
  /\ IF Allowed(command, event.job) THEN Effect(command, event.job) ELSE UNCHANGED chain
  /\ Succeed
  /\ UNCHANGED <<batch, data, checked, memory, journal, faults>>

\* _run_acp: the CLI exits with zero, or AcpCliError ends the handler.
Run ==
  /\ pc = "command"
  /\ IF Allowed(command, event.job) THEN Effect(command, event.job) /\ Succeed
                                    ELSE UNCHANGED chain /\ Return
  /\ UNCHANGED <<batch, data, checked, memory, journal, faults>>

\* Mutant: grants of entities are not journaled.
JournalReference ==
  /\ pc = "journal"
  /\ journal' = IF Requirement[event.job].tier = "reference"
                THEN [journal EXCEPT ![event.job] = @ + 1] ELSE journal
  /\ Return /\ UNCHANGED <<chain, batch, data, checked, memory, faults>>

Journal ==
  /\ pc = "journal"
  /\ journal' = [journal EXCEPT ![event.job] = @ + 1]
  /\ Return /\ UNCHANGED <<chain, batch, data, checked, memory, faults>>

Host == Drain \/ Take

Handler == Read \/ Check \/ Run \/ Journal

-----------------------------------------------------------------------------
(* Faults, counted.                                                        *)

Fault == faults < MaxFaults /\ faults' = faults + 1

\* A handler raises: the CLI failed, with or without effect, the journal could
\* not be written, or the check ran into an error that the evaluator lets pass.
Fail ==
  /\ Fault /\ pc \in {"check", "command", "journal"} /\ Return
  /\ \/ UNCHANGED chain
     \/ pc = "command" /\ Allowed(command, event.job) /\ Effect(command, event.job)
  /\ UNCHANGED <<batch, data, checked, memory, journal>>

Crash ==
  /\ Fault /\ (event # None \/ batch # << >>)
  /\ batch' = << >> /\ Return
  /\ UNCHANGED <<chain, data, checked, memory, journal>>

Redeliver ==
  /\ Fault /\ \E e \in sent : file' = Append(file, e)
  /\ UNCHANGED <<phase, deliverable, fundedAt, sent, batch, hand, pc, checked, memory, journal>>

Lose ==
  /\ Fault /\ file # << >> /\ file' = Tail(file)
  /\ UNCHANGED <<phase, deliverable, fundedAt, sent, batch, hand, pc, checked, memory, journal>>

Next == Others \/ Edit \/ Host \/ Handler \/ Fail \/ Crash \/ Redeliver \/ Lose

\* No fairness: nothing in the repository keeps a host running.
Spec == Init /\ [][Next]_vars

-----------------------------------------------------------------------------
\* What a job is delivered is the data it asked for, of a tier that may be
\* shared, and no older than when the buyer paid for it (deliver_access_grant;
\* FR-24 keeps HOT, COLD and ARCHIVE out).
DeliveredAsFunded ==
  \A j \in Jobs : deliverable[j] # None =>
    /\ Eligible(j)
    /\ deliverable[j].key = Key(j) /\ deliverable[j].version >= fundedAt[j]

\* The journal never shows a grant that was not delivered, nor one twice, also
\* when job.funded comes again (deliver_access_grant journals last).
JournaledGrantsDelivered ==
  \A j \in Jobs : journal[j] <= 1 /\ (journal[j] = 1 => deliverable[j] # None)

InHand(j) == pc = "journal" /\ event.job = j

\* Every delivery missing from the journal is due to a fault of its own: a lost
\* answer, a crash, a failed write (FR-24's journaled grants).
GrantLossesAreFaults ==
  Cardinality({j \in Jobs : deliverable[j] # None /\ journal[j] = 0 /\ ~InHand(j)}) <= faults

\* Escrow is released by the brand only when its latest check of the job
\* passed; a check that fails to run withholds it (evaluate_brand_consistency).
ReleasedOnlyIfConsistent ==
  [][\A j \in Jobs : phase'[j] = "completed" /\ phase[j] # "completed"
                       => checked[j] = "pass"]_vars

\* It is the brand's turn: to answer a request, to deliver, or to evaluate.
Waiting(j) == phase[j] \in IF IsGrant(j) THEN {"open", "funded"} ELSE {"submitted"}

\* A handler that ends without a fault leaves its job to somebody else, however the
\* brand edited its memory and the buyer called jobs off while it ran: its command
\* is never refused over a phase or a network that it mistook (_default_chain_id,
\* the three handlers).  Excepted is a rejection that the protocol denies providers.
HandledJobsMove ==
  [][\A j \in Jobs :
       event # None /\ event.job = j /\ event' = None /\ faults' = 0
         => \/ ~Waiting(j)'
            \/ command = "reject" /\ IsGrant(j) /\ ~ProviderMayReject]_vars
=============================================================================
