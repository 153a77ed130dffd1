----------------------------- MODULE VendorCall -----------------------------
(***************************************************************************)
(* What the router may rely on when it has a shot generated, whatever goes *)
(* on in between: at most one job is handed to the vendor, the caller gets *)
(* a video only of a job that is done, and a vendor that is called for     *)
(* real is never stood in for by a mocked output.                          *)
(***************************************************************************)
CONSTANT Live             \* the models that are called for real

VARIABLES model, job, result

Init == job = "none" /\ result = "pending"

\* The vendor has the job; its caller may have given up by then.
Hand == job = "none" /\ job' = "queued"

Work == job = "queued" /\ job' \in {"done", "failed"} /\ UNCHANGED result

Submit == result = "pending" /\ Hand /\ result' \in {"pending", "error"}

Video == result = "pending" /\ job = "done" /\ result' = "video" /\ UNCHANGED job

Mock ==
  /\ model \notin Live /\ job = "none"
  /\ result = "pending" /\ result' = "mock"
  /\ UNCHANGED job

Refuse == result = "pending" /\ result' = "error" /\ UNCHANGED job

Next == (Submit \/ Work \/ Video \/ Mock \/ Refuse) /\ UNCHANGED model

Spec == Init /\ [][Next]_<<model, job, result>>
=============================================================================
