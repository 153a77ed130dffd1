------------------------------ MODULE Compiler ------------------------------
(***************************************************************************)
(* Translating a request into the payload of one vendor                    *)
(* (kinostate.compiler): what each adapter's compile() puts into the body  *)
(* and what its validate() then refuses.  Adapters says which requests get *)
(* through; this module says how.  A reference image is named by whose it  *)
(* is: <<k, 0>> is the canonical asset of the k-th entity, <<k, j>> its    *)
(* j-th additional image.  A tag of the prompt is the position, in the     *)
(* list of images, of the image it makes the vendor look at.               *)
(***************************************************************************)
EXTENDS Adapters, SequencesExt

\* A request for a shot: its entities and its duration in half seconds.
Shot == [entities: Seq(Portrait), halves: Nat]

\* How an adapter lists the images: all of every entity, one of every entity,
\* or one of the first entity alone; and what it tags in the prompt.
Style == [lists: {"every_image", "canonical", "primary"},
          tags: {"nothing", "elements", "entities", "images"}]

StubStyle     == [lists |-> "canonical",   tags |-> "nothing"]
PikaStyle     == [lists |-> "primary",     tags |-> "nothing"]
ElementsStyle == [lists |-> "every_image", tags |-> "elements"]
FlatStyle     == [lists |-> "every_image", tags |-> "nothing"]
XaiStyle      == [lists |-> "every_image", tags |-> "entities"]
GeminiStyle   == [lists |-> "every_image", tags |-> "images"]

\* The styles of the Catalogue, in its order.
Styles == << StubStyle, PikaStyle, StubStyle, StubStyle, ElementsStyle,
             FlatStyle, FlatStyle, XaiStyle, GeminiStyle >>

-----------------------------------------------------------------------------
\* Mutant: only the first additional image of an entity is sent.
OwnImagesTwo(entities, k) ==
  [j \in 1..(IF entities[k].additional = 0 THEN 1 ELSE 2) |-> <<k, j - 1>>]

\* The images of the k-th entity, its canonical asset first.
OwnImages(entities, k) == [j \in 1..(1 + entities[k].additional) |-> <<k, j - 1>>]

Images(style, entities) ==
  CASE style.lists = "every_image" ->
         FlattenSeq([k \in DOMAIN entities |-> OwnImages(entities, k)])
    [] style.lists = "canonical" -> [k \in DOMAIN entities |-> <<k, 0>>]
    [] style.lists = "primary" -> IF entities = << >> THEN << >> ELSE << <<1, 0>> >>

\* "@ElementN" is the N-th entity with all its images, "@ImageN" the N-th
\* image of the flat list, "<IMAGE_REF_N>" the same counted from 0.
Tags(style, entities) ==
  CASE style.tags = "nothing"  -> {}
    [] style.tags = "elements" -> DOMAIN Images(style, entities)
    [] style.tags = "entities" -> DOMAIN entities
    [] style.tags = "images"   -> DOMAIN Images(style, entities)

\* compile() raises: an image is missing, there is none at all for a vendor
\* that has no prompt-only mode, or the vendor does not offer the duration.  A
\* stub sends what it is given, or no duration, and refuses nothing.
CompileRefuses(a, shot) ==
  /\ a.needsAsset
  /\ \/ Len(shot.entities) < a.minEntities
     \/ \E k \in DOMAIN shot.entities : ~shot.entities[k].asset
     \/ ~Offers(a, shot.halves)

\* validate() raises: the payload has too many entities, or images.
ValidateRefuses(a, style, shot) ==
  \/ Len(shot.entities) > a.maxEntities
  \/ Len(Images(style, shot.entities)) > a.maxImages

Accepted(m, shot) ==
  /\ ~CompileRefuses(ADAPTERS[m], shot)
  /\ ~ValidateRefuses(ADAPTERS[m], Styles[m], shot)
=============================================================================
