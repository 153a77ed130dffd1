---------------------------- MODULE Similarity ----------------------------
(***************************************************************************)
(* The visual-consistency check (kinostate.verification.visual_similarity) *)
(* as the threads of one process run it: downloads into temporary files,   *)
(* the CLIP model that the first embedding loads and lru_cache keeps, the  *)
(* frames sampled from the video, and the clean-up.  The verdict itself,   *)
(* the cosine of two embeddings, is left open.                             *)
(***************************************************************************)
EXTENDS Integers, FiniteSets

CONSTANTS
  Checks,       \* the checks to run; each is run once
  References,   \* how many reference images each compares with
  ThreadLimit,  \* checks that run at a time
  Lengths,      \* the frames a video may have; 0 if none can be read
  FrameSamples, \* FRAME_SAMPLE_COUNT
  MaxCrashes,   \* bound on the crashes of the process
  None

Verdicts == {"passed", "failed"}

\* "DownloadError" is the VisualSimilarityError of _download, "CheckError" any
\* exception raised inside the try block.
Errors == {"DownloadError", "CheckError", "Killed"}

SimilarityAssumption ==
  /\ References \in [Checks -> Nat \ {0}]
  /\ ThreadLimit \in Nat /\ MaxCrashes \in Nat
  /\ Lengths \subseteq Nat /\ FrameSamples \in Nat \ {0}
  /\ None \notin Verdicts \cup Errors
ASSUME SimilarityAssumption

VARIABLES
  pc,           \* where each check is
  got,          \* how many reference images a check has downloaded
  files,        \* the temporary files on disk, <<check, 0>> for a video
  length,       \* how many frames a check's video has
  sampled,      \* and which of them it looks at
  model,        \* _get_clip_model's cache is filled
  loads,        \* history: the times this process loaded the model
  outcome,      \* of each check: a verdict, or what it raised
  crashes
video == <<length, sampled>>
process == <<model, loads, crashes>>
vars == <<pc, got, files, video, process, outcome>>

Steps == {"idle", "references", "video", "embed", "load", "sample", "compare",
          "clean", "done"}

Running(c) == pc[c] \notin {"idle", "done"}

\* The files a check has written so far, as long as it has not cleaned up.
Written(c) ==
  CASE pc[c] \in {"references", "video"} -> {<<c, i>> : i \in 1..got[c]}
    [] pc[c] \in {"embed", "load", "sample", "compare", "clean"} ->
         {<<c, i>> : i \in 0..References[c]}
    [] OTHER -> {}

SimilarityTypeOK ==
  /\ pc \in [Checks -> Steps]
  /\ outcome \in [Checks -> Verdicts \cup Errors \cup {None}]
  /\ \A c \in Checks :
       /\ got[c] \in 0..References[c]
       /\ pc[c] = "done" => outcome[c] # None
       /\ length[c] \in Nat /\ sampled[c] \subseteq Nat
  /\ \A f \in files : f[1] \in Checks /\ f[2] \in 0..References[f[1]]
  /\ model \in BOOLEAN /\ loads \in Nat /\ crashes \in 0..MaxCrashes

Init ==
  /\ pc = [c \in Checks |-> "idle"] /\ got = [c \in Checks |-> 0]
  /\ files = {} /\ length = [c \in Checks |-> 0] /\ sampled = [c \in Checks |-> {}]
  /\ model = FALSE /\ loads = 0
  /\ outcome = [c \in Checks |-> None] /\ crashes = 0

-----------------------------------------------------------------------------
Goto(c, step) == pc' = [pc EXCEPT ![c] = step]
Result(c, o) == outcome' = [outcome EXCEPT ![c] = o]

Start(c) ==
  /\ pc[c] = "idle"
  /\ Cardinality({d \in Checks : Running(d)}) < ThreadLimit
  /\ Goto(c, "references")
  /\ UNCHANGED <<got, files, video, outcome, process>>

\* _download raises, outside the try block: nothing is cleaned up.
DownloadFails(c) == Goto(c, "done") /\ Result(c, "DownloadError") /\ UNCHANGED <<got, files>>

\* Mutant: one image more than there are.
DownloadReferenceMore(c) ==
  /\ pc[c] = "references"
  /\ got' = [got EXCEPT ![c] = @ + 1] /\ files' = files \cup {<<c, got[c] + 1>>}
  /\ Goto(c, IF got[c] = References[c] THEN "video" ELSE "references")
  /\ UNCHANGED <<video, outcome, process>>

\* The reference images, one after the other.
DownloadReference(c) ==
  /\ pc[c] = "references"
  /\ \/ /\ got' = [got EXCEPT ![c] = @ + 1]
        /\ files' = files \cup {<<c, got[c] + 1>>}
        /\ Goto(c, IF got[c] + 1 = References[c] THEN "video" ELSE "references")
        /\ UNCHANGED outcome
     \/ DownloadFails(c)
  /\ UNCHANGED <<video, process>>

DownloadVideo(c) ==
  /\ pc[c] = "video"
  /\ \/ /\ files' = files \cup {<<c, 0>>} /\ Goto(c, "embed")
        /\ \E n \in Lengths : length' = [length EXCEPT ![c] = n]
        /\ UNCHANGED <<got, outcome>>
     \/ DownloadFails(c) /\ UNCHANGED length
  /\ UNCHANGED <<sampled, process>>

\* An exception inside the try block: the finally clause is next.
Fail(c) == Goto(c, "clean") /\ Result(c, "CheckError")

\* _embed_image of the reference images; the first one may find no model.
EmbedReferences(c) ==
  /\ pc[c] = "embed"
  /\ IF model THEN (Goto(c, "sample") /\ UNCHANGED outcome) \/ Fail(c)
              ELSE Goto(c, "load") /\ UNCHANGED outcome
  /\ UNCHANGED <<got, files, video, process>>

\* Mutant: the model is returned and not kept.
LoadModelUncached(c) ==
  /\ pc[c] = "load"
  /\ loads' = loads + 1 /\ Goto(c, "sample") /\ UNCHANGED <<outcome, model>>
  /\ UNCHANGED <<got, files, video, crashes>>

\* Mutant: a load that fails is tried again.
LoadModelAgain(c) ==
  /\ pc[c] = "load"
  /\ \/ loads' = loads + 1 /\ model' = TRUE /\ Goto(c, "sample")
     \/ Goto(c, "embed") /\ UNCHANGED <<model, loads>>
  /\ UNCHANGED <<got, files, video, crashes, outcome>>

\* _get_clip_model runs outside lru_cache's lock: several threads may be in it.
\* The model is kept once it is loaded; an exception is not.
LoadModel(c) ==
  /\ pc[c] = "load"
  /\ \/ loads' = loads + 1 /\ model' = TRUE /\ Goto(c, "sample") /\ UNCHANGED outcome
     \/ Fail(c) /\ UNCHANGED <<model, loads>>
  /\ UNCHANGED <<got, files, video, crashes>>

\* Mutant: the samples are spread to the end of the video.
FrameIndexToEnd(total, i) == (total * i) \div FrameSamples

\* The i-th of the frames spread evenly across a video, counted from 0.
FrameIndex(total, i) == (total * i) \div (FrameSamples + 1)

\* sample_frames: a video without frames, or one that cannot be decoded, raises.
SampleFrames(c) ==
  /\ pc[c] = "sample"
  /\ \/ /\ length[c] > 0 /\ Goto(c, "compare")
        /\ sampled' = [sampled EXCEPT ![c] = {FrameIndex(length[c], i) : i \in 1..FrameSamples}]
        /\ UNCHANGED outcome
     \/ Fail(c) /\ UNCHANGED sampled
  /\ UNCHANGED <<got, files, length, process>>

\* The frames are embedded and compared with the references.
Compare(c) ==
  /\ pc[c] = "compare"
  /\ Fail(c) \/ (Goto(c, "clean") /\ \E v \in Verdicts : Result(c, v))
  /\ UNCHANGED <<got, files, video, process>>

Forget(c) ==
  /\ length' = [length EXCEPT ![c] = 0] /\ sampled' = [sampled EXCEPT ![c] = {}]

\* Mutant: only the reference images are unlinked.
CleanUpReferences(c) ==
  /\ pc[c] = "clean" /\ Goto(c, "done") /\ Forget(c)
  /\ files' = files \ {<<c, i>> : i \in 1..References[c]}
  /\ UNCHANGED <<got, outcome, process>>

\* The finally clause unlinks what was downloaded.
CleanUp(c) ==
  /\ pc[c] = "clean" /\ Goto(c, "done") /\ Forget(c)
  /\ files' = files \ {<<c, i>> : i \in 0..References[c]}
  /\ UNCHANGED <<got, outcome, process>>

Proceed(c) ==
  DownloadReference(c) \/ DownloadVideo(c) \/ EmbedReferences(c) \/ LoadModel(c)
    \/ SampleFrames(c) \/ Compare(c) \/ CleanUp(c)

\* The process ends, and with it its threads and its model; files stay.
Crash ==
  /\ crashes < MaxCrashes /\ crashes' = crashes + 1
  /\ pc' = [c \in Checks |-> IF Running(c) THEN "done" ELSE pc[c]]
  /\ outcome' = [c \in Checks |-> IF Running(c) THEN "Killed" ELSE outcome[c]]
  /\ length' = [c \in Checks |-> 0] /\ sampled' = [c \in Checks |-> {}]
  /\ model' = FALSE /\ loads' = 0
  /\ UNCHANGED <<got, files>>

Next == (\E c \in Checks : Start(c) \/ Proceed(c)) \/ Crash

\* Downloads have a timeout and the rest is computation: a check goes on.
Spec == Init /\ [][Next]_vars /\ \A c \in Checks : WF_vars(Proceed(c))

-----------------------------------------------------------------------------
\* A temporary file is one a running check still needs, or was left behind by a
\* check that a failed download or a crash ended: nothing else leaves files, and
\* no check loses a file to another one's clean-up (check_visual_consistency).
LeftoversExplained ==
  /\ \A c \in Checks : Written(c) \subseteq files
  /\ \A f \in files : f \in Written(f[1]) \/ outcome[f[1]] \in {"DownloadError", "Killed"}

\* What lru_cache does give: each thread loads the model once at most until the
\* process ends, however many checks it runs and loads fail (_get_clip_model).
LoadsBounded == loads <= ThreadLimit

\* "The CLIP model is loaded once per process and cached" (visual_similarity.py).
LoadedOncePerProcess == loads <= 1

\* Every sampled frame exists, and they are all different if the video is long
\* enough for that (sample_frames).
SampledInVideo ==
  \A c \in Checks : pc[c] = "compare" =>
    /\ \A n \in sampled[c] : n < length[c]
    /\ length[c] >= FrameSamples => Cardinality(sampled[c]) = FrameSamples

\* A check that is running ends, so the request that waits for it does too.
ChecksEnd == \A c \in Checks : Running(c) ~> ~Running(c)
=============================================================================
