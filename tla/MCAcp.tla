------------------------------- MODULE MCAcp -------------------------------
(***************************************************************************)
(* An instance of AcpJobs: a grant of an entity, a grant of a tier that    *)
(* may not be shared, and an evaluation against that entity.               *)
(***************************************************************************)
EXTENDS AcpJobs

Job(role, tier, key) == [role |-> role, tier |-> tier, key |-> key]

Asked == << Job("grant", "warm", "aria"), Job("grant", "hot", "session"),
            Job("evaluation", "warm", "aria") >>
=============================================================================
