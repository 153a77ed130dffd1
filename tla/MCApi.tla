------------------------------- MODULE MCApi -------------------------------
(***************************************************************************)
(* Instances of the API for TLC: the workloads the .cfg files choose from. *)
(* Requests are numbered in the order of their workload, not in the order  *)
(* they arrive; where one offers several calls, it turns out to be any.    *)
(***************************************************************************)
EXTENDS ApiProperties

Onboard(p) == [op |-> "onboard", palette |-> p]
Add(n, a) == [op |-> "add", name |-> n, asset |-> a, additional |-> 0]
Review(g, n, ok) == [op |-> "review", generation |-> g, name |-> n, approved |-> ok]

\* A shot of five seconds (ten half seconds), which every adapter can serve.
Shot(ns, override, payment) ==
  [op |-> "generate", names |-> ns, override |-> override,
   payment |-> payment, duration |-> 10]

\* The API's default of four seconds, too short for minimax_h3.
DefaultShot(ns, override) == [Shot(ns, override, None) EXCEPT !.duration = 8]

\* A stub and a live vendor, in the order of the catalogue.
StubFirst == << RunwayAdapter, MinimaxH3Adapter >>
\* Two live vendors and no stub to hide behind.
BothLive == << MinimaxH3Adapter, GeminiOmniFlashAdapter >>

\* Two onboardings, or one and an entity; two generations that may hold the
\* same payment, the second perhaps a review instead.
ConcurrentWorkload ==
  << {Onboard(TRUE)}, {Add("aria", TRUE), Onboard(FALSE)},
     {Shot(<<"aria">>, None, "p1"), Shot(<<"aria", "aria">>, None, None)},
     {Shot(<<"aria">>, 2, "p1"), Shot(<<"aria">>, None, "p2"),
      Shot(<< >>, None, "p2"), Review(3, "aria", FALSE)} >>

\* Three generations of one entity, the last routed by what the others taught, of
\* which the first may be a second onboarding or entity instead and the last a
\* review; an entity without an asset; an unknown model, and a duration that a
\* model refuses.
ApartWorkload ==
  << {Onboard(TRUE)}, {Add("aria", TRUE)},
     {Shot(<<"aria">>, 2, None), Add("bob", FALSE), Add("aria", TRUE), Onboard(FALSE)},
     {Shot(<<"aria", "bob">>, None, None), Shot(<<"aria">>, 2, None),
      DefaultShot(<<"aria">>, 3), DefaultShot(<<"aria">>, 2)},
     {Shot(<<"aria">>, None, None), Review(4, "aria", FALSE)} >>

KeyRace == << {Onboard(TRUE)}, {Onboard(TRUE)} >>

\* A generation beside a review, or beside another generation.
GenerationRace ==
  << {Onboard(TRUE)}, {Add("aria", TRUE)}, {Shot(<<"aria">>, None, None)},
     {Review(3, "aria", FALSE), Shot(<<"aria">>, None, None)} >>

\* Two paid shots without entities: only the vendor can refuse them.
PaidWorkload ==
  << {Onboard(TRUE)}, {Shot(<< >>, None, "p1")}, {Shot(<< >>, None, "p2")} >>
=============================================================================
