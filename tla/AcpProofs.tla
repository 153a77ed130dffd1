----------------------------- MODULE AcpProofs -----------------------------
(***************************************************************************)
(* Proofs about AcpJobs, for every set of jobs and keys, any bounds on     *)
(* edits and faults.  What they turn on: an event in the file, in a batch  *)
(* or in hand was sent for a job of its role, and a job that was funded    *)
(* never leaves that phase but forward, so that a job is delivered at most *)
(* once and from data read after it was paid for.                          *)
(***************************************************************************)
EXTENDS AcpJobs, FiniteSetTheorems, TLAPS

Late == {"funded", "submitted", "completed", "rejected"}
Over == {"submitted", "completed", "rejected"}

\* Every event on its way was sent.
Traffic == file \in Seq(sent) /\ batch \in Seq(sent) /\ event \in sent \cup {None}

\* What an event says about its job.
SentTruly ==
  \A e \in sent :
    /\ e.type \in {"created", "funded"} => IsGrant(e.job)
    /\ e.type = "funded" => phase[e.job] \in Late
    /\ e.type = "submitted" => ~IsGrant(e.job)

\* A job with a deliverable does not become open to one again.
DeliveredIsOver == \A j \in Jobs : deliverable[j] # None => phase[j] \in Over

\* The handler that submitted is the one that journals.
JournalNext ==
  pc = "journal" => deliverable[event.job] # None /\ journal[event.job] = 0

PaidForIsOld == \A j \in Jobs : fundedAt[j] <= memory[Key(j)].version

\* What is about to be delivered may be, and was read after it was paid for.
SubmitNext ==
  pc = "command" /\ command = "submit" =>
    /\ event.type = "funded" /\ Eligible(event.job)
    /\ data.key = Key(event.job) /\ data.version >= fundedAt[event.job]

CheckNext == pc = "check" => data # None

CompleteNext == pc = "command" /\ command = "complete" => checked[event.job] = "pass"

AcpInv ==
  /\ AcpTypeOK /\ Traffic /\ SentTruly /\ DeliveredIsOver /\ JournaledGrantsDelivered
  /\ JournalNext /\ PaidForIsOld /\ SubmitNext /\ CheckNext /\ CompleteNext /\ DeliveredAsFunded

-----------------------------------------------------------------------------
LEMMA SeqFacts ==
  ASSUME NEW S, NEW s \in Seq(S)
  PROVE  /\ \A e \in S : Append(s, e) \in Seq(S)
         /\ s # << >> => Head(s) \in S /\ Tail(s) \in Seq(S)
         /\ \A m, n \in 0..Len(s) : SubSeq(s, m + 1, n) \in Seq(S)
  OBVIOUS

LEMMA SeqGrows == ASSUME NEW S, NEW T, S \subseteq T, NEW s \in Seq(S) PROVE s \in Seq(T)
  OBVIOUS

LEMMA Asked == \A j \in Jobs : Key(j) \in Keys
  BY AcpAssumption DEF AcpAssumption, Key

LEMMA AcpInit == Init => AcpInv
<1> SUFFICES ASSUME Init PROVE AcpInv
  OBVIOUS
<1> USE AcpAssumption DEF AcpAssumption, Init
<1>1. AcpTypeOK
  BY DEF AcpTypeOK, Phases
<1>2. Traffic /\ SentTruly /\ DeliveredIsOver
  BY DEF Traffic, SentTruly, DeliveredIsOver
<1>3. JournaledGrantsDelivered /\ JournalNext /\ SubmitNext /\ CheckNext /\ CompleteNext /\ DeliveredAsFunded
  BY DEF JournaledGrantsDelivered, JournalNext, SubmitNext, CheckNext, CompleteNext, DeliveredAsFunded
<1>4. PaidForIsOld
  BY Asked DEF PaidForIsOld
<1> QED
  BY <1>1, <1>2, <1>3, <1>4 DEF AcpInv

-----------------------------------------------------------------------------
(* The other parties, and the brand's memory.                              *)

LEMMA OthersStep ==
  ASSUME AcpInv, Others
  PROVE  AcpInv'
<1> USE AcpAssumption DEF AcpAssumption, AcpInv, Turn
<1>0. UNCHANGED <<batch, event, data, command, pc, checked, memory, journal, faults>>
  BY DEF Others, hand
<1>1. PICK j \in Jobs : Create(j) \/ Fund(j) \/ HandIn(j) \/ Cancel(j)
  BY DEF Others
<1>2. PICK p \in Phases : phase' = [phase EXCEPT ![j] = p]
  BY <1>1 DEF Create, Fund, HandIn, Cancel, Phases
<1>3. deliverable' = deliverable /\ deliverable[j] = None
  BY <1>1 DEF Create, Fund, HandIn, Cancel, DeliveredIsOver, Over
<1>4. \/ UNCHANGED <<file, sent>>
      \/ \E e \in Event :
           /\ file' = Append(file, e) /\ sent' = sent \cup {e} /\ e.job = j
           /\ e.type \in {"created", "funded"} => IsGrant(j)
           /\ e.type = "funded" => p = "funded"
           /\ e.type = "submitted" => ~IsGrant(j)
  <2>1. CASE Create(j)
    <3>1. CASE IsGrant(j)
      <4> DEFINE e == [type |-> "created", job |-> j]
      <4>1. UNCHANGED <<file, sent>> \/ (file' = Append(file, e) /\ sent' = sent \cup {e})
        BY <2>1, <3>1 DEF Create, Notify
      <4>2. e \in Event /\ e.job = j /\ e.type = "created"
        BY DEF Event
      <4> QED
        BY <3>1, <4>1, <4>2
    <3>2. CASE ~IsGrant(j)
      BY <2>1, <3>2 DEF Create
    <3> QED
      BY <3>1, <3>2
  <2>2. CASE Fund(j)
    <3> DEFINE e == [type |-> "funded", job |-> j]
    <3>1. UNCHANGED <<file, sent>> \/ (file' = Append(file, e) /\ sent' = sent \cup {e})
      BY <2>2 DEF Fund, Notify
    <3>2. e \in Event /\ e.job = j /\ e.type = "funded"
      BY DEF Event
    <3>3. IsGrant(j) /\ p = "funded"
      <4>1. phase'[j] = "funded"
        BY <2>2 DEF Fund, AcpTypeOK
      <4> QED
        BY <1>2, <2>2, <4>1 DEF Fund, AcpTypeOK
    <3> QED
      BY <3>1, <3>2, <3>3
  <2>3. CASE HandIn(j)
    <3> DEFINE e == [type |-> "submitted", job |-> j]
    <3>1. UNCHANGED <<file, sent>> \/ (file' = Append(file, e) /\ sent' = sent \cup {e})
      BY <2>3 DEF HandIn, Notify
    <3>2. e \in Event /\ e.job = j /\ e.type = "submitted"
      BY DEF Event
    <3>3. ~IsGrant(j)
      BY <2>3 DEF HandIn
    <3> QED
      BY <3>1, <3>2, <3>3
  <2>4. CASE Cancel(j)
    BY <2>4 DEF Cancel
  <2> QED
    BY <1>1, <2>1, <2>2, <2>3, <2>4
<1>5. fundedAt' = fundedAt \/ (phase[j] = "budgeted" /\ fundedAt' = [fundedAt EXCEPT ![j] = memory[Key(j)].version])
  BY <1>1 DEF Create, Fund, HandIn, Cancel
<1>6. sent \subseteq sent' /\ sent' \subseteq Event
  BY <1>4 DEF AcpTypeOK
<1>7. file' \in Seq(sent') /\ batch' \in Seq(sent') /\ event' \in sent' \cup {None}
  <2>1. file \in Seq(sent') /\ batch \in Seq(sent')
    BY <1>6, SeqGrows DEF Traffic
  <2>2. file' \in Seq(sent')
    <3>1. CASE UNCHANGED file
      BY <2>1, <3>1
    <3>2. ASSUME NEW e \in Event, file' = Append(file, e), sent' = sent \cup {e}
          PROVE  file' \in Seq(sent')
      <4>1. e \in sent'
        BY <3>2
      <4> QED
        BY <2>1, <3>2, <4>1, SeqFacts
    <3> QED
      BY <1>4, <3>1, <3>2
  <2> QED
    BY <1>0, <1>6, <2>1, <2>2 DEF Traffic
<1>8. AcpTypeOK' /\ Traffic'
  <2>1. file' \in Seq(Event) /\ batch' \in Seq(Event)
    BY <1>6, <1>7, SeqGrows
  <2>2. fundedAt' \in [Jobs -> Nat]
    <3>1. memory[Key(j)].version \in Nat
      BY Asked DEF AcpTypeOK
    <3> QED
      BY <1>5, <3>1 DEF AcpTypeOK
  <2>3. phase' \in [Jobs -> Phases] /\ deliverable' \in [Jobs -> Datum \cup {None}]
    BY <1>2, <1>3 DEF AcpTypeOK
  <2> QED
    BY <1>0, <1>6, <1>7, <2>1, <2>2, <2>3 DEF AcpTypeOK, Traffic
<1>9. phase[j] \notin Late /\ (p \in Late => p # "budgeted")
  BY <1>1 DEF Create, Fund, HandIn, Cancel, Late
<1>10. SentTruly'
  <2>1. \A e \in sent : e.job \in Jobs
    BY DEF AcpTypeOK, Event
  <2> QED
    BY <1>2, <1>4, <1>9, <2>1 DEF SentTruly, AcpTypeOK, Late, IsGrant
<1>11. DeliveredIsOver' /\ JournaledGrantsDelivered' /\ JournalNext' /\ CheckNext' /\ CompleteNext'
  BY <1>0, <1>2, <1>3 DEF DeliveredIsOver, JournaledGrantsDelivered, JournalNext, CheckNext, CompleteNext,
     AcpTypeOK
<1>12. PaidForIsOld'
  <2>1. \A i \in Jobs : memory[Key(i)].version \in Nat
    BY Asked DEF AcpTypeOK
  <2>2. ASSUME NEW i \in Jobs
        PROVE  fundedAt'[i] = fundedAt[i] \/ fundedAt'[i] = memory[Key(i)].version
    BY <1>5 DEF AcpTypeOK
  <2> QED
    BY <1>0, <2>1, <2>2 DEF PaidForIsOld, Key
<1>13. SubmitNext'
  <2> SUFFICES ASSUME pc = "command", command = "submit" PROVE SubmitNext'
    BY <1>0 DEF SubmitNext
  <2>1. event \in sent /\ event.type = "funded" /\ event.job \in Jobs
    BY DEF SubmitNext, Traffic, AcpTypeOK, Event
  <2>2. event.job # j
    BY <1>9, <2>1 DEF SentTruly
  <2> QED
    BY <1>0, <1>5, <2>1, <2>2 DEF SubmitNext, AcpTypeOK, Eligible, Key
<1>14. DeliveredAsFunded'
  BY <1>3, <1>5 DEF DeliveredAsFunded, AcpTypeOK, Eligible, Key
<1> QED
  BY <1>8, <1>10, <1>11, <1>12, <1>13, <1>14

LEMMA EditStep ==
  ASSUME AcpInv, Edit
  PROVE  AcpInv'
<1> USE AcpAssumption DEF AcpAssumption, AcpInv
<1>1. UNCHANGED <<chain, batch, hand, pc, checked, journal, faults>>
  BY DEF Edit
<1>2. PICK k \in Keys, there \in BOOLEAN :
        /\ memory[k].version < MaxEdits
        /\ memory' = [memory EXCEPT ![k] = [version |-> @.version + 1, present |-> there]]
  BY DEF Edit
<1>3. memory' \in [Keys -> [version: 0..MaxEdits, present: BOOLEAN]]
  BY <1>2 DEF AcpTypeOK
<1>4. \A l \in Keys : memory'[l].version >= memory[l].version
  BY <1>2 DEF AcpTypeOK
<1>5. AcpTypeOK'
  BY <1>1, <1>3 DEF AcpTypeOK, chain, hand
<1>6. PaidForIsOld'
  <2>1. \A j \in Jobs : memory[Key(j)].version \in Int /\ memory'[Key(j)].version \in Int
    BY <1>3, Asked DEF AcpTypeOK
  <2> QED
    BY <1>1, <1>4, <2>1, Asked DEF PaidForIsOld, AcpTypeOK, chain, Key
<1>7. Traffic' /\ SentTruly' /\ DeliveredIsOver' /\ JournaledGrantsDelivered' /\ JournalNext'
      /\ SubmitNext' /\ CheckNext' /\ CompleteNext' /\ DeliveredAsFunded'
  BY <1>1 DEF chain, hand, Traffic, SentTruly, DeliveredIsOver, JournaledGrantsDelivered,
     JournalNext, SubmitNext, CheckNext, CompleteNext, DeliveredAsFunded
<1> QED
  BY <1>5, <1>6, <1>7

-----------------------------------------------------------------------------
(* Events on their way.                                                    *)

\* A step that changes nothing but the events on their way, and which is in hand.
LEMMA MovesKeep ==
  ASSUME AcpInv,
         UNCHANGED <<phase, deliverable, fundedAt, sent, data, checked, memory, journal>>,
         Traffic', faults' \in 0..MaxFaults,
         \/ UNCHANGED <<event, command, pc>>
         \/ pc' \in {"idle", "read"} /\ (event' = None <=> pc' = "idle") /\ command' \in {command, None}
  PROVE  AcpInv'
<1> USE DEF AcpInv
<1>1. file' \in Seq(Event) /\ batch' \in Seq(Event)
  BY SeqGrows DEF Traffic, AcpTypeOK
<1>2. AcpTypeOK'
  BY <1>1 DEF AcpTypeOK, Traffic
<1>3. SentTruly' /\ DeliveredIsOver' /\ JournaledGrantsDelivered' /\ PaidForIsOld' /\ DeliveredAsFunded'
  BY DEF SentTruly, DeliveredIsOver, JournaledGrantsDelivered, PaidForIsOld, DeliveredAsFunded
<1>4. JournalNext' /\ SubmitNext' /\ CheckNext' /\ CompleteNext'
  BY DEF JournalNext, SubmitNext, CheckNext, CompleteNext
<1> QED
  BY <1>2, <1>3, <1>4

LEMMA DrainStep == AcpInv /\ Drain => AcpInv'
<1> SUFFICES ASSUME AcpInv, Drain PROVE AcpInv'
  OBVIOUS
<1> DEFINE n == IF Len(file) < Limit THEN Len(file) ELSE Limit
<1>1. file \in Seq(sent) /\ batch \in Seq(sent) /\ event \in sent \cup {None}
  BY DEF AcpInv, Traffic
<1>2. n \in 0..Len(file)
  BY <1>1, AcpAssumption DEF AcpAssumption
<1>3. batch' = SubSeq(file, 0 + 1, n) /\ file' = SubSeq(file, n + 1, Len(file))
  BY DEF Drain
<1>4. 0 \in 0..Len(file) /\ Len(file) \in 0..Len(file)
  BY <1>1
<1>5. batch' \in Seq(sent) /\ file' \in Seq(sent)
  <2> HIDE DEF n
  <2> QED
    BY <1>1, <1>2, <1>3, <1>4, SeqFacts
<1>6. Traffic'
  BY <1>1, <1>5 DEF Drain, Traffic, hand
<1> QED
  BY <1>6, MovesKeep DEF Drain, hand, AcpInv, AcpTypeOK

LEMMA TakeStep == AcpInv /\ Take => AcpInv'
<1> SUFFICES ASSUME AcpInv, Take PROVE AcpInv'
  OBVIOUS
<1>1. Tail(batch) \in Seq(sent) /\ << >> \in Seq(sent) /\ event' \in sent
  BY SeqFacts DEF AcpInv, Traffic, Take
<1>2. event' # None
  BY <1>1, AcpAssumption DEF AcpAssumption, AcpInv, AcpTypeOK
<1>3. Traffic'
  BY <1>1 DEF AcpInv, Traffic, Take, chain
<1> QED
  BY <1>2, <1>3, MovesKeep DEF Take, chain, AcpInv, AcpTypeOK

LEMMA RedeliverStep == AcpInv /\ Redeliver => AcpInv'
<1> SUFFICES ASSUME AcpInv, Redeliver PROVE AcpInv'
  OBVIOUS
<1>1. file' \in Seq(sent)
  BY SeqFacts DEF AcpInv, Traffic, Redeliver
<1>2. Traffic'
  BY <1>1 DEF AcpInv, Traffic, Redeliver, hand
<1> QED
  BY <1>2, MovesKeep, AcpAssumption DEF AcpAssumption, Redeliver, Fault, hand, AcpInv, AcpTypeOK

LEMMA LoseStep == AcpInv /\ Lose => AcpInv'
<1> SUFFICES ASSUME AcpInv, Lose PROVE AcpInv'
  OBVIOUS
<1>1. file' \in Seq(sent)
  BY SeqFacts DEF AcpInv, Traffic, Lose
<1>2. Traffic'
  BY <1>1 DEF AcpInv, Traffic, Lose, hand
<1> QED
  BY <1>2, MovesKeep, AcpAssumption DEF AcpAssumption, Lose, Fault, hand, AcpInv, AcpTypeOK

LEMMA CrashStep == AcpInv /\ Crash => AcpInv'
<1> SUFFICES ASSUME AcpInv, Crash PROVE AcpInv'
  OBVIOUS
<1>1. Traffic'
  BY DEF AcpInv, Traffic, Crash, Return, chain
<1> QED
  BY <1>1, MovesKeep, AcpAssumption DEF AcpAssumption, Crash, Return, Fault, chain, AcpInv, AcpTypeOK

-----------------------------------------------------------------------------
(* The handlers and their commands.                                        *)

LEMMA FetchFinds ==
  ASSUME AcpInv, NEW j \in Jobs, Fetch(j) # None
  PROVE  /\ Fetch(j) \in Datum
         /\ IsGrant(j) => Eligible(j)
         /\ Fetch(j).key = Key(j) /\ Fetch(j).version >= fundedAt[j]
<1>1. Fetch(j) = [key |-> Key(j), version |-> memory[Key(j)].version] /\ (IsGrant(j) => Eligible(j))
  BY DEF Fetch, OnFile
<1>2. Key(j) \in Keys /\ memory[Key(j)].version \in Nat
  BY Asked, AcpAssumption DEF AcpInv, AcpTypeOK, AcpAssumption
<1>3. fundedAt[j] <= memory[Key(j)].version
  BY DEF AcpInv, PaidForIsOld
<1> QED
  BY <1>1, <1>2, <1>3 DEF Datum, AcpInv, AcpTypeOK

LEMMA FetchTyped == ASSUME AcpInv, NEW j \in Jobs PROVE Fetch(j) \in Datum \cup {None}
<1>1. CASE Fetch(j) = None
  BY <1>1
<1>2. CASE Fetch(j) # None
  BY <1>2, FetchFinds
<1> QED
  BY <1>1, <1>2

LEMMA ReadStep == AcpInv /\ Read => AcpInv'
<1> SUFFICES ASSUME AcpInv, Read PROVE AcpInv'
  OBVIOUS
<1> DEFINE j == event.job
<1>1. /\ pc = "read" /\ UNCHANGED <<chain, batch, memory, journal, faults>>
      /\ data' = Fetch(j)
      /\ event' = event /\ checked' = checked
      /\ \/ pc' = "command" /\ command' \in {"accept", "reject"}
         \/ pc' = "command" /\ command' = "submit" /\ event.type = "funded" /\ data' # None
         \/ pc' = "check" /\ command' = command /\ data' # None
  BY DEF Read, HandleAccessRequest, DeliverAccessGrant, EvaluateBrandConsistency, Issue
<1>2. event \in sent /\ event \in Event /\ event # None
  BY <1>1 DEF AcpInv, AcpTypeOK, Traffic
<1>3. j \in Jobs
  BY <1>2 DEF Event
<1>4. data' \in Datum \cup {None}
  BY <1>1, <1>3, FetchTyped
<1>5. AcpTypeOK'
  BY <1>1, <1>2, <1>4 DEF AcpInv, AcpTypeOK, chain, Commands
<1>6. Traffic' /\ SentTruly' /\ DeliveredIsOver' /\ JournaledGrantsDelivered' /\ PaidForIsOld'
      /\ DeliveredAsFunded'
  BY <1>1 DEF AcpInv, chain, Traffic, SentTruly, DeliveredIsOver, JournaledGrantsDelivered,
     PaidForIsOld, DeliveredAsFunded
<1>7. JournalNext' /\ CheckNext' /\ CompleteNext'
  BY <1>1 DEF JournalNext, CheckNext, CompleteNext
<1>8. SubmitNext'
  <2> SUFFICES ASSUME pc' = "command", command' = "submit" PROVE SubmitNext'
    BY DEF SubmitNext
  <2>1. event.type = "funded" /\ data' # None
    BY <1>1
  <2>2. IsGrant(j)
    BY <1>2, <2>1 DEF AcpInv, SentTruly
  <2>3. Eligible(j) /\ data'.key = Key(j) /\ data'.version >= fundedAt[j]
    BY <1>1, <1>3, <2>1, <2>2, FetchFinds
  <2> QED
    BY <1>1, <2>1, <2>3 DEF SubmitNext, chain, Eligible, Key
<1> QED
  BY <1>5, <1>6, <1>7, <1>8 DEF AcpInv

LEMMA CheckStep == AcpInv /\ Check => AcpInv'
<1> SUFFICES ASSUME AcpInv, Check PROVE AcpInv'
  OBVIOUS
<1>1. /\ pc = "check" /\ pc' = "command"
      /\ UNCHANGED <<chain, batch, event, data, memory, journal, faults>>
  BY DEF Check
<1>2. PICK o \in Outcomes :
        /\ checked' = [checked EXCEPT ![event.job] = o]
        /\ command' = IF o = "pass" THEN "complete" ELSE "reject"
  BY DEF Check
<1>3. event \in Event /\ event # None
  BY <1>1 DEF AcpInv, AcpTypeOK
<1>4. event.job \in Jobs
  BY <1>3 DEF Event
<1>5. AcpTypeOK'
  <2>1. checked' \in [Jobs -> Outcomes \cup {None}]
    BY <1>2, <1>4 DEF AcpInv, AcpTypeOK
  <2>2. data # None
    BY <1>1 DEF AcpInv, CheckNext
  <2> QED
    BY <1>1, <1>2, <1>3, <2>1, <2>2 DEF AcpInv, AcpTypeOK, chain, Commands
<1>6. Traffic' /\ SentTruly' /\ DeliveredIsOver' /\ JournaledGrantsDelivered' /\ PaidForIsOld'
      /\ DeliveredAsFunded'
  BY <1>1 DEF AcpInv, chain, Traffic, SentTruly, DeliveredIsOver, JournaledGrantsDelivered,
     PaidForIsOld, DeliveredAsFunded
<1>7. JournalNext' /\ CheckNext' /\ SubmitNext'
  BY <1>1, <1>2 DEF JournalNext, CheckNext, SubmitNext
<1>8. CompleteNext'
  BY <1>1, <1>2, <1>4 DEF CompleteNext, AcpInv, AcpTypeOK
<1> QED
  BY <1>5, <1>6, <1>7, <1>8 DEF AcpInv

\* A command that takes effect, whatever the handler learns of it.
LEMMA EffectStep ==
  ASSUME AcpInv, pc = "command", Allowed(command, event.job), Effect(command, event.job),
         Succeed \/ Return,
         UNCHANGED <<batch, data, checked, memory, journal>>, faults' \in 0..MaxFaults
  PROVE  AcpInv'
<1> DEFINE j == event.job
<1>1. event \in Event /\ event \in sent /\ event # None
  BY DEF AcpInv, AcpTypeOK, Traffic
<1>2. j \in Jobs
  BY <1>1 DEF Event
<1>3. UNCHANGED <<fundedAt, file, sent>>
  BY DEF Effect
<1>4. PICK p \in {"budgeted"} \cup Over : phase' = [phase EXCEPT ![j] = p]
  <2>1. command \in Commands
    BY DEF AcpInv, AcpTypeOK
  <2>2. CASE command = "accept"
    BY <2>2 DEF Effect, Turn, Over
  <2>3. CASE command = "submit"
    BY <2>3 DEF Effect, Turn, Over
  <2>4. CASE command = "complete"
    BY <2>4 DEF Effect, Turn, Over
  <2>5. CASE command = "reject"
    BY <2>5 DEF Effect, Turn, Over
  <2> QED
    BY <2>1, <2>2, <2>3, <2>4, <2>5 DEF Commands
<1>5. \/ p = "budgeted" /\ phase[j] \in {"open", "budgeted"} /\ deliverable' = deliverable
      \/ p \in Over /\ command # "submit" /\ deliverable' = deliverable
      \/ p \in Over /\ command = "submit" /\ phase[j] = "funded"
           /\ deliverable' = [deliverable EXCEPT ![j] = data]
  <2>0. phase'[j] = p
    BY <1>2, <1>4 DEF AcpInv, AcpTypeOK
  <2>1. CASE command = "accept"
    BY <1>2, <1>4, <2>0, <2>1 DEF Effect, Allowed, Turn, Over, AcpInv, AcpTypeOK
  <2>2. CASE command = "submit"
    BY <1>2, <1>4, <2>0, <2>2 DEF Effect, Allowed, Turn, Over, AcpInv, AcpTypeOK
  <2>3. CASE command = "complete"
    BY <1>2, <1>4, <2>0, <2>3 DEF Effect, Allowed, Turn, Over, AcpInv, AcpTypeOK
  <2>4. CASE command = "reject"
    BY <1>2, <1>4, <2>0, <2>4 DEF Effect, Allowed, Turn, Over, AcpInv, AcpTypeOK
  <2>5. CASE command \notin Commands
    BY <2>5 DEF AcpInv, AcpTypeOK
  <2> QED
    BY <2>1, <2>2, <2>3, <2>4, <2>5 DEF Commands
<1>6. \/ pc' = "journal" /\ command = "submit" /\ UNCHANGED <<event, command>>
      \/ pc' = "idle" /\ event' = None /\ command' = None
  BY DEF Succeed, Return
<1>7. command = "submit" => data \in Datum /\ data # None
  BY DEF AcpInv, AcpTypeOK
<1>8. AcpTypeOK'
  <2>1. phase' \in [Jobs -> Phases] /\ deliverable' \in [Jobs -> Datum \cup {None}]
    <3>1. phase \in [Jobs -> Phases] /\ p \in Phases
      BY <1>4 DEF AcpInv, AcpTypeOK, Phases, Over
    <3>2. deliverable \in [Jobs -> Datum \cup {None}]
      BY DEF AcpInv, AcpTypeOK
    <3> QED
      BY <1>2, <1>4, <1>5, <1>7, <3>1, <3>2
  <2> QED
    BY <1>3, <1>6, <2>1 DEF AcpInv, AcpTypeOK
<1>9. Traffic' /\ PaidForIsOld'
  BY <1>3, <1>6 DEF AcpInv, Traffic, PaidForIsOld
<1>10. SentTruly'
  <2>1. \A e \in sent : e.job \in Jobs
    BY DEF AcpInv, AcpTypeOK, Event
  <2>2. phase[j] \in Late => p \in Late
    BY <1>5 DEF Late, Over
  <2> QED
    BY <1>3, <1>4, <2>1, <2>2 DEF AcpInv, SentTruly, AcpTypeOK
<1>11. DeliveredIsOver'
  BY <1>4, <1>5 DEF AcpInv, DeliveredIsOver, AcpTypeOK, Over
<1>12. ASSUME command = "submit"
       PROVE  deliverable[j] = None /\ deliverable' = [deliverable EXCEPT ![j] = data] /\ journal[j] = 0
  <2>1. phase[j] = "funded" /\ deliverable' = [deliverable EXCEPT ![j] = data]
    BY <1>12 DEF Allowed, Effect
  <2>2. deliverable[j] = None
    BY <1>2, <2>1 DEF AcpInv, DeliveredIsOver, Over
  <2> QED
    <3>1. journal[j] \in Nat /\ journal[j] <= 1 /\ journal[j] # 1
      BY <1>2, <2>2 DEF AcpInv, JournaledGrantsDelivered, AcpTypeOK
    <3> QED
      BY <2>1, <2>2, <3>1
<1>13. \A k \in Jobs : deliverable[k] # None => deliverable'[k] = deliverable[k]
  BY <1>2, <1>5, <1>12 DEF AcpInv, AcpTypeOK
<1>14. JournaledGrantsDelivered'
  BY <1>13 DEF AcpInv, JournaledGrantsDelivered
<1>15. JournalNext'
  BY <1>2, <1>6, <1>7, <1>12 DEF AcpInv, JournalNext, AcpTypeOK
<1>16. SubmitNext' /\ CheckNext' /\ CompleteNext'
  BY <1>6 DEF SubmitNext, CheckNext, CompleteNext
<1>17. DeliveredAsFunded'
  <2>1. \A k \in Jobs : deliverable'[k] = deliverable[k] \/ (k = j /\ command = "submit" /\ deliverable'[k] = data)
    BY <1>2, <1>5 DEF AcpInv, AcpTypeOK
  <2> QED
    BY <1>3, <2>1 DEF AcpInv, DeliveredAsFunded, SubmitNext, Eligible, Key
<1> QED
  BY <1>8, <1>9, <1>10, <1>11, <1>14, <1>15, <1>16, <1>17 DEF AcpInv

\* A handler that ends without another effect.
LEMMA ReturnStep ==
  ASSUME AcpInv, Return, UNCHANGED <<chain, batch, data, checked, memory, journal>>,
         faults' \in 0..MaxFaults
  PROVE  AcpInv'
<1>1. Traffic'
  BY DEF AcpInv, Traffic, Return, chain
<1> QED
  BY <1>1, MovesKeep DEF Return, chain

LEMMA RunStep == AcpInv /\ Run => AcpInv'
<1> SUFFICES ASSUME AcpInv, Run PROVE AcpInv'
  OBVIOUS
<1>1. faults' \in 0..MaxFaults
  BY DEF AcpInv, AcpTypeOK, Run
<1>2. CASE Allowed(command, event.job)
  BY <1>1, <1>2, EffectStep DEF Run
<1>3. CASE ~Allowed(command, event.job)
  BY <1>1, <1>3, ReturnStep DEF Run
<1> QED
  BY <1>2, <1>3

LEMMA FailStep == AcpInv /\ Fail => AcpInv'
<1> SUFFICES ASSUME AcpInv, Fail PROVE AcpInv'
  OBVIOUS
<1>1. faults' \in 0..MaxFaults
  BY AcpAssumption DEF AcpAssumption, AcpInv, AcpTypeOK, Fail, Fault
<1>2. CASE UNCHANGED chain
  BY <1>1, <1>2, ReturnStep DEF Fail
<1>3. CASE pc = "command" /\ Allowed(command, event.job) /\ Effect(command, event.job)
  BY <1>1, <1>3, EffectStep DEF Fail
<1> QED
  BY <1>2, <1>3 DEF Fail

LEMMA JournalStep == AcpInv /\ Journal => AcpInv'
<1> SUFFICES ASSUME AcpInv, Journal PROVE AcpInv'
  OBVIOUS
<1> DEFINE j == event.job
<1>1. /\ pc = "journal" /\ pc' = "idle" /\ event' = None /\ command' = None
      /\ journal' = [journal EXCEPT ![j] = @ + 1]
      /\ UNCHANGED <<chain, batch, data, checked, memory, faults>>
  BY DEF Journal, Return
<1>2. j \in Jobs
  BY <1>1 DEF AcpInv, AcpTypeOK, Event
<1>3. deliverable[j] # None /\ journal[j] = 0
  BY <1>1 DEF AcpInv, JournalNext
<1>4. AcpTypeOK'
  BY <1>1, <1>2, <1>3 DEF AcpInv, AcpTypeOK, chain
<1>5. Traffic' /\ SentTruly' /\ DeliveredIsOver' /\ PaidForIsOld' /\ DeliveredAsFunded'
  BY <1>1 DEF AcpInv, chain, Traffic, SentTruly, DeliveredIsOver, PaidForIsOld, DeliveredAsFunded
<1>6. JournaledGrantsDelivered'
  BY <1>1, <1>2, <1>3 DEF AcpInv, AcpTypeOK, chain, JournaledGrantsDelivered
<1>7. JournalNext' /\ SubmitNext' /\ CheckNext' /\ CompleteNext'
  BY <1>1 DEF JournalNext, SubmitNext, CheckNext, CompleteNext
<1> QED
  BY <1>4, <1>5, <1>6, <1>7 DEF AcpInv

LEMMA AcpStep == AcpInv /\ [Next]_vars => AcpInv'
<1> SUFFICES ASSUME AcpInv, [Next]_vars PROVE AcpInv'
  OBVIOUS
<1>1. CASE UNCHANGED vars
  <2>1. faults' \in 0..MaxFaults /\ Traffic'
    BY <1>1 DEF vars, chain, hand, AcpInv, AcpTypeOK, Traffic
  <2> QED
    BY <1>1, <2>1, MovesKeep DEF vars, chain, hand
<1>2. CASE Host \/ Handler
  BY <1>2, DrainStep, TakeStep, ReadStep, CheckStep, RunStep, JournalStep DEF Host, Handler
<1> QED
  BY <1>1, <1>2, OthersStep, EditStep, FailStep, CrashStep, RedeliverStep, LoseStep DEF Next

LEMMA AcpInvariant == Spec => []AcpInv
  BY AcpInit, AcpStep, PTL DEF Spec

-----------------------------------------------------------------------------
\* Every value the host, the journal and the chain hold has its type.
THEOREM AcpTypeCorrect == Spec => []AcpTypeOK
<1>1. AcpInv => AcpTypeOK
  BY DEF AcpInv
<1> QED
  BY <1>1, AcpInvariant, PTL

\* DeliveredAsFunded, for any jobs, edits and faults.
THEOREM DeliveriesAsFunded == Spec => []DeliveredAsFunded
<1>1. AcpInv => DeliveredAsFunded
  BY DEF AcpInv
<1> QED
  BY <1>1, AcpInvariant, PTL

\* JournaledGrantsDelivered, for any jobs, edits and faults.
THEOREM JournalIsTrue == Spec => []JournaledGrantsDelivered
<1>1. AcpInv => JournaledGrantsDelivered
  BY DEF AcpInv
<1> QED
  BY <1>1, AcpInvariant, PTL

\* ReleasedOnlyIfConsistent, for any jobs, edits and faults.
THEOREM ReleasesAreChecked == Spec => ReleasedOnlyIfConsistent
<1>1. AcpInv /\ [Next]_vars =>
        [\A j \in Jobs : phase'[j] = "completed" /\ phase[j] # "completed" => checked[j] = "pass"]_vars
  <2> SUFFICES ASSUME AcpInv, [Next]_vars, NEW j \in Jobs,
                      phase'[j] = "completed", phase[j] # "completed"
               PROVE  checked[j] = "pass"
    OBVIOUS
  <2>1. pc = "command" /\ Effect(command, event.job)
    BY DEF Next, Others, Create, Fund, HandIn, Cancel, Turn, Edit, Host, Handler, Drain, Take, Read, Check,
       Run, Journal, Fail, Crash, Redeliver, Lose, vars, chain, AcpInv, AcpTypeOK
  <2>2. event.job = j /\ command = "complete"
    <3>1. command \in Commands
      BY <2>1 DEF AcpInv, AcpTypeOK
    <3>2. phase' = [phase EXCEPT ![event.job] =
                      CASE command = "accept" -> "budgeted" [] command = "submit" -> "submitted"
                        [] command = "complete" -> "completed" [] command = "reject" -> "rejected"]
      BY <2>1 DEF Effect, Turn
    <3>3. event.job = j
      BY <3>2 DEF AcpInv, AcpTypeOK
    <3>4. command = "complete"
      BY <3>1, <3>2, <3>3 DEF AcpInv, AcpTypeOK, Commands
    <3> QED
      BY <3>3, <3>4
  <2> QED
    BY <2>1, <2>2 DEF AcpInv, CompleteNext
<1> QED
  BY <1>1, AcpInvariant, PTL DEF Spec, ReleasedOnlyIfConsistent

-----------------------------------------------------------------------------
(* Deliveries that are missing from the journal.                           *)

Lost == {j \in Jobs : deliverable[j] # None /\ journal[j] = 0 /\ ~InHand(j)}

LostInv == IsFiniteSet(Lost) /\ Cardinality(Lost) <= faults

\* Each step loses the grant in hand and counts a fault, or loses none.
LEMMA LostStep ==
  ASSUME AcpInv, [Next]_vars
  PROVE  \/ Lost' \subseteq Lost /\ faults' \in {faults, faults + 1}
         \/ Lost' \subseteq Lost \cup {event.job} /\ faults' = faults + 1
<1> USE DEF AcpInv, AcpTypeOK, Lost, InHand
<1>1. CASE Others
  <2>1. UNCHANGED <<pc, event, journal, faults>>
    BY <1>1 DEF Others, hand
  <2>2. deliverable' = deliverable
    BY <1>1 DEF Others, Create, Fund, HandIn, Cancel
  <2> QED
    BY <2>1, <2>2
<1>2. CASE Edit
  BY <1>2 DEF Edit, chain, hand
<1>3. CASE Drain
  BY <1>3 DEF Drain, hand
<1>4. CASE Take
  BY <1>4 DEF Take, chain
<1>5. CASE Read
  <2>1. pc = "read" /\ pc' \in {"command", "check"} /\ UNCHANGED <<deliverable, journal, faults>>
    BY <1>5 DEF Read, HandleAccessRequest, DeliverAccessGrant, EvaluateBrandConsistency, Issue, chain
  <2> QED
    BY <2>1
<1>6. CASE Check
  BY <1>6 DEF Check, chain
<1>7. CASE Run
  <2>1. pc = "command" /\ UNCHANGED <<journal, faults>>
    BY <1>7 DEF Run
  <2>2. CASE deliverable' = deliverable
    BY <2>1, <2>2
  <2>3. CASE deliverable' # deliverable
    <3>1. command = "submit" /\ deliverable' = [deliverable EXCEPT ![event.job] = data] /\ Succeed
      BY <1>7, <2>3 DEF Run, Effect, chain
    <3>2. pc' = "journal" /\ event' = event
      BY <3>1 DEF Succeed
    <3> QED
      BY <2>1, <3>1, <3>2
  <2> QED
    BY <2>2, <2>3
<1>8. CASE Journal
  BY <1>8 DEF Journal, Return, chain
<1>9. CASE Fail
  <2>1. faults' = faults + 1 /\ UNCHANGED journal
    BY <1>9 DEF Fail, Fault
  <2>2. deliverable' = deliverable \/ deliverable' = [deliverable EXCEPT ![event.job] = data]
    BY <1>9 DEF Fail, Effect, chain
  <2> QED
    BY <2>1, <2>2
<1>10. CASE Crash
  BY <1>10 DEF Crash, Fault, chain
<1>11. CASE Redeliver
  BY <1>11 DEF Redeliver, Fault, hand
<1>12. CASE Lose
  BY <1>12 DEF Lose, Fault, hand
<1>13. CASE UNCHANGED vars
  BY <1>13 DEF vars, chain, hand
<1> QED
  BY <1>1, <1>2, <1>3, <1>4, <1>5, <1>6, <1>7, <1>8, <1>9, <1>10, <1>11, <1>12, <1>13
  DEF Next, Host, Handler

\* GrantLossesAreFaults, for any jobs, edits and faults.
THEOREM LossesAreFaults == Spec => []GrantLossesAreFaults
<1>1. Init => LostInv
  <2> SUFFICES ASSUME Init PROVE LostInv
    OBVIOUS
  <2>1. Lost = {}
    BY DEF Init, Lost
  <2> QED
    BY <2>1, FS_EmptySet DEF Init, LostInv
<1>2. AcpInv /\ LostInv /\ [Next]_vars => LostInv'
  <2> SUFFICES ASSUME AcpInv, LostInv, [Next]_vars PROVE LostInv'
    OBVIOUS
  <2>1. IsFiniteSet(Lost) /\ Cardinality(Lost) \in Nat /\ faults \in Nat /\ Cardinality(Lost) <= faults
    BY FS_CardinalityType, AcpAssumption DEF LostInv, AcpInv, AcpTypeOK, AcpAssumption
  <2>2. CASE Lost' \subseteq Lost /\ faults' \in {faults, faults + 1}
    <3>1. IsFiniteSet(Lost') /\ Cardinality(Lost') \in Nat /\ Cardinality(Lost') <= Cardinality(Lost)
      BY <2>1, <2>2, FS_Subset, FS_CardinalityType
    <3> QED
      BY <2>1, <2>2, <3>1 DEF LostInv
  <2>3. CASE Lost' \subseteq Lost \cup {event.job} /\ faults' = faults + 1
    <3>1. /\ IsFiniteSet(Lost \cup {event.job})
          /\ Cardinality(Lost \cup {event.job}) \in {Cardinality(Lost), Cardinality(Lost) + 1}
      BY <2>1, FS_AddElement
    <3>2. IsFiniteSet(Lost') /\ Cardinality(Lost') \in Nat
          /\ Cardinality(Lost') <= Cardinality(Lost \cup {event.job})
      BY <2>3, <3>1, FS_Subset, FS_CardinalityType
    <3> QED
      BY <2>1, <2>3, <3>1, <3>2 DEF LostInv
  <2> QED
    BY <2>2, <2>3, LostStep
<1>3. LostInv => GrantLossesAreFaults
  BY DEF LostInv, Lost, GrantLossesAreFaults
<1> QED
  BY <1>1, <1>2, <1>3, AcpInvariant, PTL DEF Spec
=============================================================================
