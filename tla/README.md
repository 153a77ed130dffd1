# Kinostate in TLA+

A model of Kinostate, a memory-native video agent: what it does to a brand's
memory, to its clients' payments, to its journal, to a wallet and to its ACP jobs
when requests interleave, calls fail and the process dies. TLC checks it on small
instances; TLAPS proves the main properties for every instance. File and line
references are to the repository root (`src/kinostate/...` is the Python package).

## 1. The system

One brand's memory is one SQLite file behind `BrandMemory`; every call of it is
one transaction and nothing spans two. FastAPI runs each request on a pool
thread (the endpoints are plain `def`), so the handlers interleave between any
two calls. No handler catches an exception or retries.

| Component | State it keeps | Operations | What makes it correct |
|---|---|---|---|
| HTTP API (`api/main.py`) | the locals of each request | onboard, add entity, generate, review | every request answered; a 200 means everything was written; a review stands |
| API keys (`api/auth.py`) | `_api_key` in REFERENCE | `issue_api_key`, `verify_api_key` | a key once shown keeps working; a key on file has been shown |
| Brand memory (`memory/tenant_store.py`) | REFERENCE, WARM, HOT, COLD | get/set of each tier, `write_event`, archive, delete | each call atomic; COLD append-only |
| Router (`router/router.py`) | none | `pick_model`, `route_and_generate` | a model that keeps failing gives way; one event per generation |
| Compiler (`compiler/`) | none | nine adapters: `compile`, `validate` | refuses what the model cannot serve, accepts what it can, tags what it sends |
| Verification (`verification/qa.py`) | none | `run_qa`, `_update_confidence` | rejected entities never pass; each verdict counted once |
| Metering (`economic/base_x402.py`, `clients/x402_client.py`) | none; the facilitator knows what settled | `meter_call`, `record_cost` | no generation without its own payment; cost recorded |
| Visual similarity (`verification/visual_similarity.py`) | cached CLIP model, temporary files | `check_visual_consistency` | no file lost or left behind; the model loaded a bounded number of times |
| fal.ai client (`router/clients/fal_client.py`) | one job's URLs and deadline | `run_model` | ends in time; never a result of an unfinished job |
| Anchoring (`economic/clients/base_client.py`) | the wallet's nonce, on chain | `send_hash_transaction` | no gap of nonces; no displacement of an earlier anchoring |
| ACP (`economic/virtuals_acp.py`, `clients/acp_cli.py`) | the job, on chain; the listener's file | accept, deliver, evaluate, drain | nothing delivered unfunded or journaled undelivered; nothing released unchecked; every request seen and handled |
| Brand paths (`config.py`) | none | `brand_db_path` | a brand id names one file |
| Demo scripts (`scripts/`) | none | walks through the above; `acp_job_demo.py` drains events and handles one job | |

Interaction: `generate` calls, in this order, `verify_api_key`; if
`KINOSTATE_X402_PAY_TO_ADDRESS` is set, `meter_call`, which reads the spending
policy and asks the facilitator to verify and then settle; `get_entity` for each
entity; `route_and_generate`, which reads the first entity again, compiles and
validates the payload, runs the vendor's model through `fal_client` and writes an
event; `run_qa`, which reads the palette and the entity, compares frames through
`visual_similarity`, writes an event, and reads and writes the entity; and
`record_cost`, which writes an event. The calls share nothing but the file, the
process-wide CLIP model and the facilitator. ACP jobs reach the brand by events a
listener writes to a file. The handlers are written to be called per drained event,
but the repository has no loop that does so: `acp_job_demo.py` drains once, calls one
handler for its own job and ends. A handler reads the memory, issues one CLI command
and, for a grant, writes an event.
Anchoring is called by the demo only, but is written for concurrent callers of
one wallet.

What is hard: a read and a write back of a whole entity body with other threads
in between; a key issued by a read and a write; money that moves before the work
it pays for; three journal events that belong together; a deadline tested after
a status; a nonce read before it is used; an event that is gone from the file
before it is handled, or comes twice; a crash or a lost answer between any two of
these. `PROJECT.json` lists each hazard at its line, with the properties that cover
it or the reason none does.

## 2. Modules

```
Adapters -> TenantStore -> Threads -> Auth -> Metering -> Router -> Verification -> Api -> ApiProperties
   |                                                                                            |
   |                               AtomicBrand (abstract) <- - - - refined by - - - - - - - - - +
   |                                                                                            |
   |                          MCApi, ApiProofs -> AuditProofs -> ApartProofs -> RoutingProofs <----+
   |
   +--> Compiler -> FalClient -> MCFal, FalProofs         Anchor -> AnchorProofs
                        |                                 Similarity -> MCSimilarity, SimilarityProofs
   VendorCall (abstract) <- - refined by                  AcpJobs -> MCAcp, AcpProofs
```

(`A -> B`: B extends A.)

| Module | Models | State and actions |
|---|---|---|
| `Adapters` | `compiler/` as the router sees it | no state. An adapter is a record of what its `compile` and `validate` refuse; `Offers` is the test of the duration, `Serves` all of them together; `Catalogue` holds the nine. |
| `TenantStore` | `memory/tenant_store.py` | `palette`, `apiKey` (REFERENCE), `entity` (WARM), `ceiling` (HOT), `journal` (COLD); `SetEntity`, `WriteEvent` |
| `Threads` | FastAPI's pool, process and exceptions | `thread`: where each request stands and its locals; `Reply`, `Raise`, `Crash` |
| `Auth` | `api/auth.py` | `IssueKeyCheck`, `IssueKeyStore`, `VerifyKey` |
| `Metering` | `base_x402.py`, `x402_client.py` | `settledBy`: the facilitator's memory; `ReadPolicy`, `VerifyPayment`, `SettlePayment`, `SettlementLost`, `RecordCost` |
| `Router` | `router.py`, the entity loop of `generate` | `LoadEntity`, `Route`, `CallModel`, `JournalGeneration` |
| `Verification` | `qa.py` | `QaPalette`, `QaEntity`, `JournalQa`, `QaLoad`, `QaStore` |
| `Api` | `main.py` | `Arrive`, `SetPalette`, `CreateEntity`, `ReviewLoad`, `ReviewStore`, `JournalReview`, `SetBudget`, `Retire`; `Next`, `Spec` |
| `AtomicBrand` | the promise behind `auth.py`, `qa.py`, `main.py` | `key`, `status`, `scores`; `IssueKey`, `Create`, `Judge`, `Learn`, `Retire`, each one step |
| `ApiProperties` | | the properties of the API, and the refinement mapping to `AtomicBrand` |
| `Compiler` | `compiler/` in detail: what each adapter puts into the payload and when it refuses | no state. `Images`, `Tags`, `CompileRefuses`, `ValidateRefuses`, `Accepted` |
| `FalClient` | `_call_model` and `fal_client.py` | `pc`, `deadline`, `seen`, `outcome`; the vendor's `job`; the clock. `Compile`, `Connect`, `Submit`, `ServePoll`, `PollAnswered`, `Wake`, `Fetch`, `Broken`, `Finish`, `Tick` |
| `VendorCall` | the promise behind `_call_model` | `job`, `result`; `Submit`, `Work`, `Video`, `Mock`, `Refuse` |
| `Similarity` | `visual_similarity.py` | per check `pc`, `got`, `length`, `sampled`, `outcome`; `files`; `model`, `loads`. `DownloadReference`, `DownloadVideo`, `EmbedReferences`, `LoadModel`, `SampleFrames`, `Compare`, `CleanUp`, `Crash` |
| `Anchor` | `anchor_provenance`, `base_client.py` | per anchoring `pc`, `nonce`, `price`; the node's `pool` and the chain's `mined`. `GetNonce`, `GetPrice`, `Send`, `Fail`, `Mine` |
| `AcpJobs` | `virtuals_acp.py`, `acp_cli.py`, the listener of `acp_job_demo.py` | on chain `phase`, `deliverable`; the listener's `file`; the host's `batch` and `event`; a handler's `pc`, `data`, `command`; `memory`; `journal`. `Drain`, `Take`, `Read` (one disjunct per handler), `Check`, `Run`, `Journal`, and the faults |
| `MCApi`, `MCFal`, `MCSimilarity`, `MCAcp` | | the workloads and constants of the runs |
| `ApiProofs`, `AuditProofs`, `ApartProofs`, `RoutingProofs`, `FalProofs`, `SimilarityProofs`, `AnchorProofs`, `AcpProofs` | | the theorems |

How to read the API against the code. A request is a thread whose `pc` names the
call it makes next; each action is one such call with the code up to the following
one. `loaded`, `model`, `held` and `passed` are the handler's locals; they die
when it answers. A generation id and an API key are fresh random values, so
each is named by the request that drew it. A journal event is reduced to its kind,
the generation it is about, the entity, the model and the verdict; the texts and
the compiled payload are left out. Confidence is an integer number of
1/`Scale`; the runs choose `Scale` so that the updates by 3/10 they can reach
stay exact. Durations are counted in half seconds, so that Python's `round`
(half to even) shows.

How the others are read. `FalClient` follows one shot from request to video in
discrete time: the clock moves only while the client is blocked, in an exchange or
asleep. An answer's status is fixed when the vendor serves the poll (`ServePoll`)
and used when it arrives (`PollAnswered`), so a job may finish in between. A status
the code does not know is neither done nor failed and behaves as queued, as in the
code. In `Similarity` a temporary file is named by the check and the position of
what it holds. In `Anchor` the three RPC calls of one anchoring are three steps; a
transaction is the anchoring that signed it. In `AcpJobs` the data of a grant is
the key and the version of what was read, a handler is its read, its command and
its journal entry, and `Edit` may change the memory between any two. What calls the
handlers, the host, is not in the repository: `Take` hands over one event and keeps the
rest of the batch or, like the demo, lets go of it, and nothing says that it ever does
either.

The environment, and what is assumed of it.

- The facilitator refuses a spent payment and may refuse any other; a settlement
  that answers success has spent it; its answer may be lost.
- A live vendor may fail a job, finish it late or never; a mocked one cannot fail.
  The comparison of frames may come out either way.
- An operator may set the ceiling and archive or delete entities through
  `BrandMemory`, on the same file.
- An HTTP exchange ends within `HttpTimeout`. httpx bounds each phase of an exchange
  (connecting, each read, each write) and not their sum; the bound on the sum is
  an assumption, and `EndsInTime` is relative to it.
- A node counts the mined transactions and the gap-free part of its pool as
  pending, takes a replacement only at a higher price, and mines by nonce. It
  does not forget transactions.
- ACP's protocol refuses commands that do not fit the phase of a job, and the CLI
  then exits non-zero. These rules, and when a listener writes an event, are
  modelled from how the handlers and `acp_job_demo.py` use them. `reject_job` is
  documented "as evaluator" (`acp_cli.py:134`), yet two handlers call it as provider:
  whether the protocol lets them is the constant `ProviderMayReject`, and no theorem
  depends on it.
- `IS_TESTNET` is "true", "false" or unset. The commands take unset as "true"
  (`acp_cli.py:60`), the listener as "false" (`acp_job_demo.py:62`); an event reaches the
  listener if the two networks are one.

## 3. Runs

| Run | Checks | Bounds, and why they are enough |
|---|---|---|
| `concurrent` | `TypeOK`, `JournalLinked`, `AcknowledgedIsJournaled`, `PaidGenerations`, `KeyShownOnce`, `EveryRequestAnswered`, `AtomicUnlessOvertaken` | metered; four requests, two at a time, one fault, an operator: two onboardings, or one and an entity; two generations that may hold one payment, or two, or a review instead. Two threads are enough for every race of a read with a write; the fault may be an exception, a lost settlement or a crash at any step. |
| `apart` | `IssuedKeysStayValid`, `RejectionHolds`, `OutcomesCounted`, `ImplementsAtomicBrand`, `TwiceFailedIsAvoided` | two threads, one fault; five requests, no two of which rewrite the same record at once (`ApartSpec`, below): an onboarding, a creation, then a generation, a second entity, the first one created anew or a second onboarding, then a generation, and last a generation or a review that rejects. Two entities, one without an asset; an unknown model, and durations a model refuses; one stubbed and one live model, so that of three generations the third is routed while the second failure of the first two may be in the journal only |
| `generating` | `FalTypeOK`, `ServesIsAccepted`, `EndsInTime`, `NotGivenUpEarly`, `CallEnds`, `ImplementsVendorCall` | one shot, any of the nine adapters; casts and durations on both sides of every limit of every adapter; a timeout of 4, an interval of 1 and exchanges of up to 2, so that a poll may begin before the deadline and end after it, and several polls fit in |
| `acp` | `AcpTypeOK`, `DeliveredAsFunded`, `JournaledGrantsDelivered`, `GrantLossesAreFaults`, `ReleasedOnlyIfConsistent`, `HandledJobsMove` | a grant that is eligible, one that is not, and an evaluation, the first and the last about one entity; batches of at most two of three events, so that a batch and a rest exist; one edit of each key, which may add, change or remove it at any time; one fault, which may be a failing command with or without effect, a failing write or check, a crash, a repeated or a lost event; a host that may drop the rest of any batch; the mainnet setting, which the commands have to derive; a provider may reject |
| `similarity` | `SimilarityTypeOK`, `LeftoversExplained`, `LoadsBounded`, `SampledInVideo`, `ChecksEnd` | three checks on two threads, so that one starts when others have loaded the model; one or two references; videos with no frames, fewer than, as many as, and more than the three samples; a crash |
| `anchor` | `AnchorTypeOK`, `NoNonceGap`, `OnlyOverlappingDisplace`, `AnchoringsSettle` | three anchorings that overlap as they like and two gas prices: one may displace another while a third has read the same nonce or the next |

`Deadlock` is not checked: each of these systems stops when its workload has been served.

Runs that show where the code and what is said of it part (`expect: violation`).
`PROJECT.json` quotes the line each contradicts.

| Run | Property | What TLC finds |
|---|---|---|
| `key_race` | `IssuedKeysStayValid` | two onboardings of one brand at once are both shown a key, and the first stops working |
| `lost_review` | `ReviewStands` | a verdict writes the whole body it read before a review back over it |
| `unrecorded` | `PaidCallsJournaled` | a call that the vendor fails after its payment settled leaves neither a generation event nor a cost |
| `stale_verdict` | `RejectedNeverPasses` | an entity is rejected while the frames of its output are compared, and the output passes |
| `double_load` | `LoadedOncePerProcess` | two checks that find no model each load one |
| `displaced` | `ReturnedHashesStand` | an anchoring that was answered with a hash is replaced in the pool by an overlapping, dearer one |

What concurrency takes from the brand's memory. A key, a review and a verdict are
each a read and a later write of one record, and the code takes no lock. Three layers
of properties say what follows.

- `AtomicUnlessOvertaken` holds in every behaviour: a step that changes a key, a status
  or a score is one whole operation of `AtomicBrand`, or it is an `OvertakenWrite`, the
  write of a thread whose check or body another write had made stale, and that one
  damages no other record. So whatever goes wrong goes wrong there.
- `key_race` and `lost_review` are behaviours of the code in which it does. A verdict is lost
  from the score the same way, by two verdicts that read the same score or a review that read
  it before a verdict was stored: `Spec` with two threads violates `OutcomesCounted` too. In
  `stale_verdict` no write is overtaken: the decision that is journaled is.
- `ApartSpec` leaves out the behaviours in which two requests rewrite one record at the
  same time: a creation or the write of a review against another write of the same
  entity, a verdict from its journaling to the storing of its score, a key from its
  check to its storing. It is the specification of a server that takes a lock there,
  which this one does not; any number of requests still run side by side, also of one
  entity. What `apart` checks under it is what a lock would buy. It is not
  needed that the comparison of frames is inside the lock: `RejectionHolds` speaks of
  what is generated after the rejection, while `RejectedNeverPasses`, what the code's
  message promises, fails even then if a review comes in between.

Divergences that were met while modelling and that no run shows, as nothing in the model
depends on them or the whole trace is a step or two:

- `fal_client.py:47-48` promises `FalError` on any failure; a poll or a fetch answered with an
  error status (115, 131) or an exchange that breaks off raises what httpx or json raises. The
  one caller treats all alike.
- `xai_grok_imagine_video.py:6` says the prompt must tag each reference image; `compile` writes
  one tag per entity (57) and sends every canonical and additional image (61-64), so with
  additional images the last ones are untagged and a tag may point at another entity's.
  `PlainImagesTagged` proves that the tags cover the images otherwise.
- `acp_job_demo.py:62` starts its listener with `IS_TESTNET` defaulting to "false", the commands
  default to "true" (`acp_cli.py:60`): with the variable unset no event arrives.
- `drain_events` takes up to ten events out of the file (`acp_cli.py:104-112`), and the demo makes
  one handler call and ends (`acp_job_demo.py:76-85`), so what else it drained is gone;
  `virtuals_acp.py:13-14` speaks of handlers invoked per drained event.

Fairness.

- `Api`: weak fairness of each thread's own step and of nothing else. The operating
  system keeps scheduling a thread that can run, and every blocking call of a handler
  returns or raises: `CallEnds` shows it of the vendor's call, `ChecksEnd` of the
  visual check; that the x402 library's client gives up on a silent facilitator is an
  assumption about that library. Nothing is assumed of clients, the operator or
  faults.
- `FalClient`: time passes and the client runs. Nothing of the vendor, which may
  neither work nor answer.
- `Similarity`: each check goes on; downloads have a timeout, the rest is computation.
- `Anchor`: each anchoring goes on (RPC calls have a timeout), and blocks are made.
- `AcpJobs`: none. Nothing in the repository keeps a host running.

## 4. Theorems

Assumed of the constants: the named `ASSUME`s of the modules. They say that names,
requests, payments, statuses and results are distinct from `None`, that `Scale`,
`Limit` and `FrameSamples` are positive, that the workload consists of calls, and
that bounds are natural numbers. TLC evaluates them in the runs. Every other value
of every constant, the number of requests, threads, jobs, checks, anchorings and
faults among them, is arbitrary.

The API.

| Theorem | States | Argument |
|---|---|---|
| `TypeCorrect` | `Spec => []TypeOK` | `TypeOK` is inductive because it also says that a thread stands at a step of its own handler (`AtOwnStep`), which is what gives each action the fields of the call it reads, and that a body is in hand where one is written back. One lemma per group of actions. The score stays in `0..Scale` by `LearnTyped`. |
| `GenerationsArePaid` | `Spec => []PaidGenerations` | `PaidInv`: past the settlement a thread has paid, and so has the thread behind every generation event. `PaidGenerations` alone is not inductive: it does not say why the next event will be paid. `PaidStays` (a payment settles once, a call does not change) keeps it; `SettlesAsItMoves` establishes it. |
| `JournalIsLinked` | `Spec => []JournalLinked` | `JournalInv`: for every step, the kinds of events a thread still owes (`Owed`) are not in the journal about its generation, and the generation event is there once it is due. `OwedShrinks` and `NewEventOwed` say that an event is written by the thread that owed it, once. |
| `AcknowledgedGenerations` | `Spec => []AcknowledgedIsJournaled` | `AckInv`, on top of `JournalInv`: a thread past its verdict has journaled it, and one about to record its cost was judged or had no entity. `OkReplies` names the only steps that answer a generation 200. |
| `KeyIsShown` | `Spec => []KeyShownOnce` | `KeyInv` and `KeyOnFile`: the key on file belongs to a request that was shown it or is about to be. |
| `AtomicOrOvertaken` | `Spec => AtomicUnlessOvertaken` | one lemma per action that writes: what it writes is its body with one thing changed, so the step is the operation if the body is the one on file, and an overtaken write otherwise. No assumption on threads, faults or the operator. |
| `KeysStayValid` | `ApartSpec => []IssuedKeysStayValid` | a request about to store a key still finds none on file, which is what two threads break. |
| `ImplementsBrand` | with nothing retirable, `ApartSpec => ImplementsAtomicBrand` | what a thread holds of an entity it is about to write back is what is on file (`BodyInv`): a write back changes the one thing its operation is about. |
| `ReviewsStand` | with nothing retirable, `ApartSpec => ReviewStands` | from the same invariant: a verdict stores the status it read, and that is the one on file. |
| `RejectionsHold` | with nothing retirable, `ApartSpec => []RejectionHolds` | once a rejection is journaled and nobody approves or creates the entity anew, its status on file is "rejected" and stays so, so that no thread that generates later reads another. |
| `OutcomesAreCounted` | with nothing retirable, `ApartSpec => []OutcomesCounted` | `CountInv`, below. |
| `TwiceFailedAvoided` | with nothing retirable and `Scale >= 4`, `ApartSpec => TwiceFailedIsAvoided` | `AvoidInv`, below. |

The assumption that nothing is retirable means that the operator archives and deletes no
entity. A retired entity that a thread has in hand comes back when the thread writes, which
is an overtaken write.

What the memory learns (`RoutingProofs`). `OutcomesCounted` speaks of moments when no
request is in flight; in between a verdict is in the journal and not yet in the score. `CountInv`
says so: while a request stands between the two (`Unlearnt`), the journal is ahead of
the score by exactly that verdict, and otherwise they agree (`Counted`). That alone is
not inductive either. An entity must not appear after it has been judged, so `LifeInv`
says that whatever was judged is on file, that a request past the loading of its
entities has its first one on file (`Known`), and that without faults whatever is on
file was created by a request that answered so; a second creation would start the scores
afresh, and both properties leave it out (`CreatedOnce`). `TwiceFailedIsAvoided`
looks at a request while it is routed, when another one may have journaled a failure and not
stored it. `AvoidInv` adds that a model's replayed score is no higher than `Once` after
failures only and than `Twice` after two of them (`Sunk`: seven tenths of a half, and seven
tenths of that, rounded down), and that a verdict that is not in the score yet is in the
journal (`Tried`). So the score on file is the journal's or that of before the last verdict
(`OnFile`), and either way below a fresh half (`SunkBefore`, which needs `Scale >= 4` for one
failure to show), while an untried model has just that half. `pick_model` returns the model
with the highest score (`PickedBest`): the threshold, 0.3 by default, filters by the same
order as the maximum that follows, so it never changes the choice.

The score that a journal adds up to (`Replayed`) and the number of images of a cast
(`ImageCount`) are recursive functions over sequences of any length. What is proved of
them is proved by induction in a first-order form: `Induction` takes the set of the
numbers that have the property, so no operator has to be passed, and follows from the
well-foundedness of `<` on the naturals (`WFMin`). That the recursive function exists
(`ScoresExist`, `CountExists`, `JoinExists`) is proved the same way, from the partial
functions up to a bound.

`ApiProofs` also proves the shape of a step (`Follows`, `Moves`, `PaymentsMove`,
`JournalMoves`): where a thread may go next and which actions move money or the
journal. `AuditProofs` and `ApartProofs` rest on these rather than on the actions.

The vendor's call (`FalProofs`). `FalTypeCorrect`, `CallEndsInTime` and `LastLookIsLate`
follow from one invariant, `FalInv`: where the client is, how
late an exchange or a sleep there may have begun (`Paced`), what the client's place
tells of the job (`Linked`: none before the submission, done at the fetch), and that
an answer "queued" is no older than the exchange that brings it (`Fresh`).
`CallImplements` (`Spec => ImplementsVendorCall`) maps each step to a step of
`VendorCall` or a stutter, by `Linked`. `ServesIsAcceptance`
(`Spec => []ServesIsAccepted` where `ADAPTERS` is the `Catalogue`) needs no invariant but
the types: `EveryImageListed` shows by induction that the flat list of images is as long
as the images are many, and `CatalogueStyles` that an adapter that lists fewer, a stub,
refuses by the number of entities before its number of images could matter. `PlainImagesTagged` (`Spec => []EveryImageTagged` if no entity brings
additional images) bounds a divergence listed below.

Anchoring (`AnchorProofs`). `AnchorTypeCorrect`, `NoGapEver` and
`DisplacedByOverlapping` follow from `AnchorInv`. Its heart is that a nonce once in
use, in the pool or on chain, stays in use: an anchoring that knows a nonce has it
no higher than the next free one (`BelowUsed`), transactions of the pool follow the
mined ones, one per nonce (`PoolAhead`, `OnePerNonce`), an anchored hash's nonce is in
use (`AnchoredUsed`), and an anchoring that began after others had ended was told a
nonce above theirs (`Fresh`).

Visual similarity (`SimilarityProofs`). `SimilarityTypeCorrect` and
`LeftoversAlwaysExplained` share `FilesInv`. `LoadsAlwaysBounded` needs a count: the
loads so far and the threads that are about to load are together no more than
`ThreadLimit`, and once the model is there no further thread joins them.
`SampledAlwaysInVideo` rests on arithmetic lemmas about the rounded-down positions:
`FrameIndexInVideo`, and `FrameIndexGrows`, which splits into a video longer than the
samples (`FrameIndexGrowsLong`) and one just as long, where the i-th position is i - 1
(`FrameIndexShort`).

ACP (`AcpProofs`). `AcpTypeCorrect`, `DeliveriesAsFunded`, `JournalIsTrue`,
`LossesAreFaults` and `ReleasesAreChecked` follow from `AcpInv`: only events of the
right kind of job travel (`Traffic`), a funding event is of a job that has been funded
(`SentTruly`) and data a handler holds for it is no older than that
(`PaidForIsOld`), a delivered job takes no second delivery (`DeliveredIsOver`), the
one about to be journaled has just been delivered (`JournalNext`), and what a command
was chosen for (`SubmitNext`, `CheckNext`, `CompleteNext`). `LossesAreFaults` adds
`LostInv`: each fault lets at most one more delivery go unjournaled.

Every safety property of a passing run but `HandledJobsMove` is stated by a theorem. Only
model-checked are it and the liveness properties, which need fairness and `ENABLED` and so are
out of the prover's reach: `EveryRequestAnswered`, `CallEnds`, `ChecksEnd`,
`AnchoringsSettle`.

## 5. Not modelled

- the wording of prompts, reasons and events, the names of payload fields,
  resolutions and aspect ratios: nothing is decided by them. Which image a tag points
  at is modelled (`Compiler`).
- CLIP embeddings and video decoding: their verdict is nondeterministic;
- several brands: their files differ, so a brand's requests never meet another's
  (`config.brand_db_path` refuses an id that is not a plain file name; that
  refusal ends the request before any step of the model);
- full-text search, `read_events` and `export_path`: they change nothing;
- `register_provider` and `whoami`, which only read, and `use_agent`, which switches
  the CLI's active agent and is called by the demo scripts only, each in one thread;
- a dispatcher of ACP events: the repository has none, so nothing is claimed about jobs
  being served in the end; `HandledJobsMove` says what a handler does once it is called;
- the demo scripts, but for the listener of `acp_job_demo.py` and what it does with its
  batch: sequential walks through the components above, with no state of their own;
- the duration a payload carries: a stub sends the request's unrounded or, Pika, none, the
  others the rounded one. What is refused over it is modelled (`Offers`);
- the ceiling as a budget for all calls together: the code compares it with one
  price and keeps no sum; the requirements can be read either way;
- what a fault between the storing and the showing of a key does to a brand:
  `KeyShownOnce` is stated for behaviours without faults, as nothing in the code makes
  up for one;
- retiring an entity as a promise: no document says that an archived entity stays so;
  `concurrent` lets the operator retire one at any time.

## 6. What is left

1. The composition of `FalClient` with the API's `CallModel`: both are shown against
   what lies between them (`VendorCall`; the assumption that a call ends), but no
   single specification runs several clients inside the request threads.
