----------------------------- MODULE TenantStore -----------------------------
(***************************************************************************)
(* One brand's memory (kinostate.memory.tenant_store): the SQLite file     *)
(* behind BrandMemory.  Every call of BrandMemory is one transaction, and  *)
(* so one step of the threads that share the file; nothing spans two.      *)
(*                                                                         *)
(*   REFERENCE   palette, apiKey   brand law and the issued API key        *)
(*   WARM        entity            canon, approval status, confidence      *)
(*   HOT         ceiling           the budget ceiling of spending_policy   *)
(*   COLD        journal           append-only events                      *)
(*                                                                         *)
(* An API key is named by the onboarding request that drew it, and a       *)
(* generation_id by the request that generated: both are fresh randoms.    *)
(***************************************************************************)
EXTENDS Adapters

CONSTANTS
  Names,        \* names of entities
  Requests,     \* the requests the brand's clients ever send
  Ceilings,     \* budget ceilings an operator may set
  Scale,        \* confidence 1.0; scores are multiples of 1/Scale
  None          \* Python's None: no record, no value

Statuses == {"pending", "approved", "rejected"}

EntityBody == [asset: BOOLEAN, additional: Nat, status: Statuses,
               confidence: [Models -> 0..Scale]]

TenantStoreAssumption ==
  /\ Scale \in Nat /\ Scale > 0
  /\ Ceilings \subseteq Nat
  /\ None \notin Requests /\ None \notin Names /\ None \notin Nat
  /\ None \notin Statuses /\ None \notin EntityBody
ASSUME TenantStoreAssumption

VARIABLES palette, apiKey, entity, ceiling, journal
store == <<palette, apiKey, entity, ceiling, journal>>

\* A model the entity has no score for counts as 0.5 (router and QA agree).
Unscored == [m \in Models |-> Scale \div 2]

\* `ref` is the generation an event is about, `ok` its verdict.
Event == [kind: {"generation", "qa", "cost", "review"}, ref: Requests,
          name: Names \cup {None}, model: Models \cup {None}, ok: BOOLEAN]

StoreTypeOK ==
  /\ palette \in BOOLEAN              \* is a non-empty palette_hex on file?
  /\ apiKey \in Requests \cup {None}
  /\ entity \in [Names -> EntityBody \cup {None}]
  /\ ceiling \in Ceilings \cup {None}
  /\ journal \in Seq(Event)

\* A new brand's file; its operator may have set a spending policy already.
EmptyStore ==
  /\ palette = FALSE
  /\ apiKey = None
  /\ entity = [n \in Names |-> None]
  /\ ceiling \in Ceilings \cup {None}
  /\ journal = << >>

-----------------------------------------------------------------------------
SetEntity(n, body) == entity' = [entity EXCEPT ![n] = body]

WriteEvent(event) == journal' = Append(journal, event)

\* The events of one kind about one generation, in journal order.
Written(kind, ref) ==
  { i \in DOMAIN journal : journal[i].kind = kind /\ journal[i].ref = ref }
=============================================================================
