------------------------------ MODULE Adapters ------------------------------
(***************************************************************************)
(* The compiler layer's model adapters (kinostate.compiler), as far as the *)
(* rest of the system can tell them apart: whether `_call_model` reaches a *)
(* real vendor, and which requests compile() and validate() accept.        *)
(* Prompt text and vendor field names are left out.                        *)
(***************************************************************************)
EXTENDS Integers, Sequences

CONSTANT ADAPTERS         \* the adapters on offer, in the dict's order

\* A limit the adapter does not enforce; above every value of a request.
Unchecked == 1000

\* `seconds` bounds the whole seconds asked for, `images` the reference
\* images of all the entities together, `entities` the entities of a call.
Adapter == [live: BOOLEAN, needsAsset: BOOLEAN, minEntities: Nat,
            maxEntities: Nat, maxImages: Nat, minSeconds: Nat, maxSeconds: Nat]

AdaptersAssumption == ADAPTERS \in Seq(Adapter) /\ Len(ADAPTERS) > 0
ASSUME AdaptersAssumption

\* A model is named by its position in ADAPTERS.
Models == 1..Len(ADAPTERS)

-----------------------------------------------------------------------------
\* A stub vendor: it counts entities, looks at nothing else, and is mocked.
Stub(entities) ==
  [live |-> FALSE, needsAsset |-> FALSE, minEntities |-> 0,
   maxEntities |-> entities, maxImages |-> Unchecked,
   minSeconds |-> 0, maxSeconds |-> Unchecked]

\* A vendor compiled for fal.ai: every entity brings its reference image.
Fal(live, least, entities, images, shortest, longest) ==
  [live |-> live, needsAsset |-> TRUE, minEntities |-> least,
   maxEntities |-> entities, maxImages |-> images,
   minSeconds |-> shortest, maxSeconds |-> longest]

RunwayAdapter            == Stub(3)
PikaAdapter              == Stub(1)
LumaAdapter              == Stub(4)
KlingAdapter             == Stub(4)
KlingO1ReferenceAdapter  == Fal(FALSE, 0, 7, Unchecked, 3, 10)
SeedanceAdapter          == Fal(FALSE, 0, 9, 9, 4, 15)
MinimaxH3Adapter         == Fal(TRUE, 0, 9, 9, 5, 15)
XaiGrokImagineVideoAdapter == Fal(TRUE, 1, 7, 7, 1, 10)
GeminiOmniFlashAdapter   == Fal(TRUE, 0, 10, 10, 3, 10)

Catalogue == << RunwayAdapter, PikaAdapter, LumaAdapter, KlingAdapter,
                KlingO1ReferenceAdapter, SeedanceAdapter, MinimaxH3Adapter,
                XaiGrokImagineVideoAdapter, GeminiOmniFlashAdapter >>

-----------------------------------------------------------------------------
\* Python's round(), half to even, of a duration counted in half seconds.
Rounded(halves) ==
  LET down == halves \div 2
  IN  IF halves % 2 = 1 /\ down % 2 = 1 THEN down + 1 ELSE down

\* resolve_duration_seconds and resolve_duration_in_range return: the vendor
\* offers the whole seconds that the duration rounds to.
Offers(a, halves) == Rounded(halves) \in a.minSeconds .. a.maxSeconds

\* An entity as the compiler sees it: is its canonical asset on file, and how
\* many additional images does it bring?
Portrait == [asset: BOOLEAN, additional: Nat]

ImageCount(entities) ==
  LET count[k \in 0..Len(entities)] ==
        IF k = 0 THEN 0 ELSE count[k - 1] + 1 + entities[k].additional
  IN  count[Len(entities)]

\* compile() and validate() of the adapter both return, raising nothing.
Serves(a, entities, halves) ==
  /\ Len(entities) \in a.minEntities .. a.maxEntities
  /\ a.needsAsset =>
       /\ \A i \in DOMAIN entities : entities[i].asset
       /\ Offers(a, halves)
       /\ ImageCount(entities) <= a.maxImages
=============================================================================
