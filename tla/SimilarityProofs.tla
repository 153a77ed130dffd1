-------------------------- MODULE SimilarityProofs --------------------------
(***************************************************************************)
(* Proofs about Similarity, for every set of checks and images, any number *)
(* of threads, crashes and frames.  The temporary files rest on an         *)
(* invariant that says what a check has written at each of its steps; the  *)
(* loads of the model on one that counts, beside the loads, the threads    *)
(* that are about to load; the sampled frames on arithmetic.               *)
(***************************************************************************)
EXTENDS Similarity, FiniteSetTheorems, TLAPS

USE DEF SimilarityAssumption

-----------------------------------------------------------------------------
(* The temporary files.                                                    *)

Shapes ==
  /\ got \in [Checks -> Nat] /\ length \in [Checks -> Nat]
  /\ sampled \in [Checks -> SUBSET Nat]

\* How many images a check has at each step, and what it has concluded.
Stages ==
  \A c \in Checks :
    /\ pc[c] = "idle" => got[c] = 0
    /\ pc[c] = "references" => got[c] < References[c]
    /\ pc[c] = "video" => got[c] = References[c]
    /\ pc[c] \notin {"clean", "done"} => outcome[c] = None
    /\ pc[c] = "clean" => outcome[c] \in Verdicts \cup {"CheckError"}

FilesInv == SimilarityTypeOK /\ Shapes /\ Stages /\ LeftoversExplained

LEMMA FilesInit == Init => FilesInv
<1> SUFFICES ASSUME Init PROVE FilesInv
  OBVIOUS
<1> model \in BOOLEAN
  BY Zenon DEF Init
<1>1. SimilarityTypeOK
  BY SimilarityAssumption DEF Init, SimilarityTypeOK, Steps
<1>2. Shapes /\ Stages
  BY DEF Init, Shapes, Stages
<1>3. LeftoversExplained
  BY DEF Init, LeftoversExplained, Written
<1> QED
  BY <1>1, <1>2, <1>3 DEF FilesInv

\* A step of one check that leaves the files alone, and what it has written.
LEMMA FilesUntouched ==
  ASSUME FilesInv, NEW c \in Checks, NEW s \in Steps, Goto(c, s),
         \/ UNCHANGED outcome
         \/ outcome[c] = None /\ \E o \in Verdicts \cup {"CheckError"} : Result(c, o),
         UNCHANGED <<got, files>>, Written(c)' = Written(c)
  PROVE  LeftoversExplained'
<1>1. ASSUME NEW d \in Checks \ {c} PROVE Written(d)' = Written(d)
  <2>1. pc'[d] = pc[d] /\ got'[d] = got[d]
    BY DEF Goto, FilesInv, SimilarityTypeOK
  <2> QED
    BY <2>1, Zenon DEF Written
<1>2. \A d \in Checks : outcome[d] \in {"DownloadError", "Killed"} => outcome'[d] = outcome[d]
  BY SimilarityAssumption DEF Result, FilesInv, SimilarityTypeOK, Errors
<1>3. \A f \in files : f[1] \in Checks
  BY DEF FilesInv, SimilarityTypeOK
<1> QED
  BY <1>1, <1>2, <1>3 DEF FilesInv, LeftoversExplained

LEMMA FilesStep == FilesInv /\ [Next]_vars => FilesInv'
<1> SUFFICES ASSUME FilesInv, [Next]_vars PROVE FilesInv'
  OBVIOUS
<1> USE SimilarityAssumption DEF Goto, Result, video, process
<1>0. \A f \in files : f[1] \in Checks
  BY DEF FilesInv, SimilarityTypeOK
<1>1. ASSUME NEW c \in Checks, Start(c) PROVE FilesInv'
  <2>1. SimilarityTypeOK' /\ Shapes' /\ Stages'
    BY <1>1 DEF Start, FilesInv, SimilarityTypeOK, Shapes, Stages, Steps
  <2>2. Written(c)' = Written(c)
    BY <1>1 DEF Start, Written, FilesInv, SimilarityTypeOK, Stages
  <2>3. LeftoversExplained'
    BY <1>1, <2>2, FilesUntouched DEF Start, Steps
  <2> QED
    BY <2>1, <2>3 DEF FilesInv
<1>2. ASSUME NEW c \in Checks, pc[c] \in {"references", "video"}, DownloadFails(c),
             UNCHANGED <<video, process>>
      PROVE  FilesInv'
  <2>1. SimilarityTypeOK' /\ Shapes' /\ Stages'
    BY <1>2 DEF DownloadFails, FilesInv, SimilarityTypeOK, Shapes, Stages, Steps, Errors
  <2>2. \A d \in Checks \ {c} : Written(d)' = Written(d) /\ outcome'[d] = outcome[d]
    BY <1>2 DEF DownloadFails, Written, FilesInv, SimilarityTypeOK
  <2>3. Written(c)' = {} /\ outcome'[c] = "DownloadError"
    BY <1>2 DEF DownloadFails, Written, FilesInv, SimilarityTypeOK
  <2>4. LeftoversExplained'
    BY <1>0, <1>2, <2>2, <2>3 DEF DownloadFails, FilesInv, LeftoversExplained
  <2> QED
    BY <2>1, <2>4 DEF FilesInv
<1>3. ASSUME NEW c \in Checks, DownloadReference(c), got' = [got EXCEPT ![c] = @ + 1] PROVE FilesInv'
  <2>1. /\ pc[c] = "references" /\ files' = files \cup {<<c, got[c] + 1>>}
        /\ Goto(c, IF got[c] + 1 = References[c] THEN "video" ELSE "references")
        /\ UNCHANGED <<outcome, video, process>>
    BY <1>3 DEF DownloadReference, DownloadFails, FilesInv, Shapes
  <2>2. SimilarityTypeOK' /\ Shapes' /\ Stages'
    BY <1>3, <2>1 DEF FilesInv, SimilarityTypeOK, Shapes, Stages, Steps
  <2>3. \A d \in Checks \ {c} : Written(d)' = Written(d)
    BY <1>3, <2>1 DEF Written, FilesInv, SimilarityTypeOK, Shapes
  <2>4. Written(c) = {<<c, i>> : i \in 1..got[c]}
    BY <2>1 DEF Written
  <2>5. Written(c)' = {<<c, i>> : i \in 1..(got[c] + 1)}
    BY <1>3, <2>1 DEF Written, FilesInv, SimilarityTypeOK, Shapes
  <2>6. Written(c)' = Written(c) \cup {<<c, got[c] + 1>>}
    <3>1. 1..(got[c] + 1) = (1..got[c]) \cup {got[c] + 1}
      BY DEF FilesInv, Shapes
    <3> QED
      BY <2>4, <2>5, <3>1
  <2>7. <<c, got[c] + 1>>[1] = c
    OBVIOUS
  <2>8. LeftoversExplained'
    BY <1>0, <2>1, <2>3, <2>6, <2>7 DEF FilesInv, LeftoversExplained
  <2> QED
    BY <2>2, <2>8 DEF FilesInv
<1>4. ASSUME NEW c \in Checks, DownloadVideo(c), Goto(c, "embed") PROVE FilesInv'
  <2>1. /\ pc[c] = "video" /\ files' = files \cup {<<c, 0>>}
        /\ \E n \in Lengths : length' = [length EXCEPT ![c] = n]
        /\ UNCHANGED <<got, outcome, sampled, process>>
    BY <1>4 DEF DownloadVideo, DownloadFails, FilesInv, SimilarityTypeOK
  <2>2. SimilarityTypeOK' /\ Shapes' /\ Stages'
    BY <1>4, <2>1 DEF FilesInv, SimilarityTypeOK, Shapes, Stages, Steps
  <2>3. \A d \in Checks \ {c} : Written(d)' = Written(d)
    BY <1>4, <2>1 DEF Written, FilesInv, SimilarityTypeOK
  <2>4. Written(c) = {<<c, i>> : i \in 1..References[c]}
    BY <2>1 DEF Written, FilesInv, Stages
  <2>5. Written(c)' = {<<c, i>> : i \in 0..References[c]}
    BY <1>4, <2>1 DEF Written, FilesInv, SimilarityTypeOK
  <2>6. Written(c)' = Written(c) \cup {<<c, 0>>}
    <3>1. 0..References[c] = (1..References[c]) \cup {0}
      OBVIOUS
    <3> QED
      BY <2>4, <2>5, <3>1
  <2>7. <<c, 0>>[1] = c
    OBVIOUS
  <2>8. LeftoversExplained'
    BY <1>0, <2>1, <2>3, <2>6, <2>7 DEF FilesInv, LeftoversExplained
  <2> QED
    BY <2>2, <2>8 DEF FilesInv
<1>5. ASSUME NEW c \in Checks, NEW s \in {"load", "sample", "compare", "clean"},
             pc[c] \in {"embed", "load", "sample", "compare"}, Goto(c, s),
             \/ s # "clean" /\ UNCHANGED outcome
             \/ s = "clean" /\ \E o \in Verdicts \cup {"CheckError"} : Result(c, o),
             UNCHANGED <<got, files, length, crashes>>, Shapes', model' \in BOOLEAN, loads' \in Nat
      PROVE  FilesInv'
  <2>1. SimilarityTypeOK' /\ Stages'
    BY <1>5 DEF FilesInv, SimilarityTypeOK, Shapes, Stages, Steps, Errors, Verdicts
  <2>2. Written(c)' = Written(c)
    BY <1>5 DEF Written, FilesInv, SimilarityTypeOK
  <2>3. outcome[c] = None
    BY <1>5 DEF FilesInv, Stages
  <2>4. LeftoversExplained'
    BY <1>5, <2>2, <2>3, FilesUntouched DEF Steps
  <2> QED
    BY <1>5, <2>1, <2>4 DEF FilesInv
<1>6. ASSUME NEW c \in Checks, EmbedReferences(c) PROVE FilesInv'
  BY <1>5, <1>6 DEF EmbedReferences, Fail, FilesInv, Shapes, SimilarityTypeOK
<1>7. ASSUME NEW c \in Checks, LoadModel(c) PROVE FilesInv'
  <2>1. Shapes' /\ model' \in BOOLEAN /\ loads' \in Nat /\ pc[c] = "load"
    <3>1. model' \in BOOLEAN
      <4>1. model \in BOOLEAN
        BY DEF FilesInv, SimilarityTypeOK
      <4> QED
        BY <1>7, <4>1, Zenon DEF LoadModel
    <3>2. pc[c] = "load" /\ UNCHANGED <<got, length, sampled>> /\ loads' \in Nat
      BY <1>7 DEF LoadModel, FilesInv, SimilarityTypeOK
    <3> QED
      BY <3>1, <3>2 DEF FilesInv, Shapes
  <2>2. CASE Goto(c, "sample") /\ UNCHANGED outcome
    BY <1>5, <1>7, <2>1, <2>2 DEF LoadModel
  <2>3. CASE Fail(c)
    BY <1>5, <1>7, <2>1, <2>3 DEF LoadModel, Fail
  <2> QED
    BY <1>7, <2>2, <2>3 DEF LoadModel
<1>8. ASSUME NEW c \in Checks, SampleFrames(c) PROVE FilesInv'
  <2>1. \A n \in Nat, i \in 1..FrameSamples : FrameIndex(n, i) \in Nat
    <3> SUFFICES ASSUME NEW n \in Nat, NEW i \in 1..FrameSamples PROVE FrameIndex(n, i) \in Nat
      OBVIOUS
    <3>1. n * i \in Nat
      OBVIOUS
    <3> QED
      BY <3>1 DEF FrameIndex
  <2>2. Shapes'
    BY <1>8, <2>1 DEF SampleFrames, Fail, FilesInv, Shapes
  <2> QED
    BY <1>5, <1>8, <2>2 DEF SampleFrames, Fail, FilesInv, SimilarityTypeOK
<1>9. ASSUME NEW c \in Checks, Compare(c) PROVE FilesInv'
  BY <1>5, <1>9 DEF Compare, Fail, FilesInv, Shapes, SimilarityTypeOK
<1>10. ASSUME NEW c \in Checks, CleanUp(c) PROVE FilesInv'
  <2>0. Shapes'
    BY <1>10 DEF CleanUp, Forget, FilesInv, Shapes
  <2>1. Stages'
    BY <1>10 DEF CleanUp, FilesInv, SimilarityTypeOK, Stages
  <2> outcome[c] \in Verdicts \cup Errors
    BY <1>10 DEF CleanUp, FilesInv, Stages, Errors
  <2> SimilarityTypeOK'
    BY <1>10, <2>0 DEF CleanUp, FilesInv, SimilarityTypeOK, Shapes, Steps
  <2>2. \A d \in Checks \ {c} : Written(d)' = Written(d)
    BY <1>10 DEF CleanUp, Written, FilesInv, SimilarityTypeOK
  <2>3. Written(c)' = {} /\ Written(c) = {<<c, i>> : i \in 0..References[c]}
    BY <1>10 DEF CleanUp, Written, FilesInv, SimilarityTypeOK
  <2>4. \A d \in Checks \ {c} : \A f \in Written(d) : f \notin Written(c)
    BY <2>3 DEF Written
  <2>5. files' = files \ Written(c) /\ UNCHANGED outcome
    BY <1>10, <2>3 DEF CleanUp
  <2>6. LeftoversExplained'
    BY <1>0, <2>2, <2>3, <2>4, <2>5 DEF FilesInv, LeftoversExplained
  <2> QED
    BY <2>0, <2>1, <2>6 DEF FilesInv
<1>11. CASE Crash
  <2>1. Shapes' /\ Stages'
    BY <1>11 DEF Crash, Running, FilesInv, SimilarityTypeOK, Shapes, Stages
  <2> model' \in BOOLEAN
    BY <1>11, Zenon DEF Crash
  <2> SimilarityTypeOK'
    BY <1>11, <2>1 DEF Crash, Running, FilesInv, SimilarityTypeOK, Shapes, Steps, Errors
  <2>2. \A d \in Checks : Written(d)' = {}
    BY <1>11 DEF Crash, Running, Written, FilesInv, SimilarityTypeOK
  <2>3. \A d \in Checks : ~Running(d) => Written(d) = {}
    BY DEF Running, Written
  <2>4. LeftoversExplained'
    BY <1>0, <1>11, <2>2, <2>3 DEF Crash, FilesInv, LeftoversExplained
  <2> QED
    BY <2>1, <2>4 DEF FilesInv
<1>12. CASE UNCHANGED vars
  BY <1>12 DEF vars, FilesInv, SimilarityTypeOK, Shapes, Stages, LeftoversExplained, Written
<1>13. ASSUME NEW c \in Checks, DownloadReference(c) PROVE FilesInv'
  BY <1>2, <1>3, <1>13 DEF DownloadReference
<1>14. ASSUME NEW c \in Checks, DownloadVideo(c) PROVE FilesInv'
  BY <1>2, <1>4, <1>14 DEF DownloadVideo
<1> QED
  BY <1>1, <1>6, <1>7, <1>8, <1>9, <1>10, <1>11, <1>12, <1>13, <1>14 DEF Next, Proceed

LEMMA FilesInvariant == Spec => []FilesInv
  BY FilesInit, FilesStep, PTL DEF Spec

\* Every check is somewhere, and what it holds has its type.
THEOREM SimilarityTypeCorrect == Spec => []SimilarityTypeOK
<1>1. FilesInv => SimilarityTypeOK
  BY DEF FilesInv
<1> QED
  BY <1>1, FilesInvariant, PTL

\* LeftoversExplained, for any number of checks, images, threads and crashes.
THEOREM LeftoversAlwaysExplained == Spec => []LeftoversExplained
<1>1. FilesInv => LeftoversExplained
  BY DEF FilesInv
<1> QED
  BY <1>1, FilesInvariant, PTL

-----------------------------------------------------------------------------
(* The loads of the model.                                                 *)

Threads == {c \in Checks : Running(c)}
Loading == {c \in Checks : pc[c] = "load"}

\* A thread that is about to load counts as a load, and none starts to once the
\* model is kept.
LoadsInv ==
  /\ IsFiniteSet(Threads) /\ Cardinality(Threads) <= ThreadLimit
  /\ ~model => loads = 0
  /\ loads + Cardinality(Loading) <= ThreadLimit

LEMMA LoadingFewer ==
  ASSUME IsFiniteSet(Threads)
  PROVE  /\ IsFiniteSet(Loading) /\ Cardinality(Loading) \in Nat /\ Cardinality(Threads) \in Nat
         /\ Cardinality(Loading) <= Cardinality(Threads)
<1>1. Loading \subseteq Threads
  BY DEF Loading, Threads, Running
<1> QED
  BY <1>1, FS_Subset, FS_CardinalityType

LEMMA LoadsInit == Init => LoadsInv
<1> SUFFICES ASSUME Init PROVE LoadsInv
  OBVIOUS
<1>1. Threads = {} /\ Loading = {}
  BY DEF Init, Threads, Running, Loading
<1>2. ~model => loads = 0
  BY DEF Init
<1> QED
  BY <1>1, <1>2, FS_EmptySet, SimilarityAssumption DEF Init, LoadsInv

LEMMA LoadsStep == FilesInv /\ LoadsInv /\ [Next]_vars => LoadsInv'
<1> SUFFICES ASSUME FilesInv, LoadsInv, [Next]_vars PROVE LoadsInv'
  OBVIOUS
<1> USE SimilarityAssumption DEF Goto, Result, video, process
<1>0. pc \in [Checks -> Steps] /\ loads \in Nat
  BY DEF FilesInv, SimilarityTypeOK
<1>1. /\ IsFiniteSet(Threads) /\ Cardinality(Threads) <= ThreadLimit
      /\ IsFiniteSet(Loading) /\ Cardinality(Loading) \in Nat /\ Cardinality(Threads) \in Nat
  BY LoadingFewer DEF LoadsInv
<1>2. ASSUME Threads' \subseteq Threads, Loading' \subseteq Loading, UNCHANGED <<model, loads>>
      PROVE  LoadsInv'
  <2>1. IsFiniteSet(Threads') /\ Cardinality(Threads') <= ThreadLimit
    BY <1>1, <1>2, FS_Subset, FS_CardinalityType
  <2>2. Cardinality(Loading') \in Nat /\ Cardinality(Loading') <= Cardinality(Loading)
    BY <1>1, <1>2, FS_Subset, FS_CardinalityType
  <2>3. ~model' => loads' = 0
    BY <1>2 DEF LoadsInv
  <2>4. loads' + Cardinality(Loading') <= ThreadLimit
    BY <1>0, <1>1, <1>2, <2>2 DEF LoadsInv
  <2> QED
    BY <2>1, <2>3, <2>4 DEF LoadsInv
<1>3. ASSUME NEW c \in Checks, Start(c) PROVE LoadsInv'
  <2>1. Threads' = Threads \cup {c} /\ Loading' = Loading
    BY <1>0, <1>3 DEF Start, Threads, Running, Loading
  <2>2. c \notin Threads /\ Cardinality(Threads) < ThreadLimit
    BY <1>3 DEF Start, Threads, Running
  <2>3. IsFiniteSet(Threads') /\ Cardinality(Threads') = Cardinality(Threads) + 1
    BY <1>1, <2>1, <2>2, FS_AddElement
  <2>4. (~model' => loads' = 0) /\ loads' = loads
    BY <1>3 DEF Start, LoadsInv
  <2> QED
    BY <1>0, <1>1, <2>1, <2>2, <2>3, <2>4 DEF LoadsInv
<1>4. ASSUME NEW c \in Checks, Running(c), UNCHANGED <<model, loads>>,
             NEW s \in Steps \ {"load"}, Goto(c, s)
      PROVE  LoadsInv'
  <2>1. Threads' \subseteq Threads /\ Loading' \subseteq Loading
    BY <1>0, <1>4 DEF Threads, Running, Loading
  <2> QED
    BY <1>2, <1>4, <2>1
<1>5. ASSUME NEW c \in Checks, EmbedReferences(c) PROVE LoadsInv'
  <2>1. CASE model
    BY <1>4, <1>5, <2>1 DEF EmbedReferences, Fail, Running, Steps
  <2>2. CASE ~model
    <3>1. pc[c] = "embed" /\ Goto(c, "load") /\ UNCHANGED <<model, loads>>
      BY <1>5, <2>2 DEF EmbedReferences
    <3>2. Threads' = Threads
      BY <1>0, <3>1 DEF Threads, Running
    <3>3. Cardinality(Loading') \in Nat /\ Cardinality(Loading') <= Cardinality(Threads')
      <4>1. Loading' \subseteq Threads'
        BY DEF Loading, Threads, Running
      <4> QED
        BY <1>1, <3>2, <4>1, FS_Subset, FS_CardinalityType
    <3>4. loads' = 0
      BY <2>2, <3>1 DEF LoadsInv
    <3> QED
      BY <1>1, <3>2, <3>3, <3>4 DEF LoadsInv
  <2> QED
    BY <2>1, <2>2
<1>6. ASSUME NEW c \in Checks, LoadModel(c) PROVE LoadsInv'
  <2>1. CASE Fail(c) /\ UNCHANGED <<model, loads>>
    BY <1>4, <1>6, <2>1 DEF LoadModel, Fail, Running, Steps
  <2>2. CASE loads' = loads + 1 /\ model' = TRUE /\ Goto(c, "sample")
    <3>1. Threads' = Threads /\ Loading' = Loading \ {c} /\ c \in Loading
      BY <1>0, <1>6, <2>2 DEF LoadModel, Threads, Running, Loading
    <3>2. Cardinality(Loading') = Cardinality(Loading) - 1
      BY <1>1, <3>1, FS_RemoveElement
    <3>3. ~model' => loads' = 0
      BY <2>2
    <3>4. loads' + Cardinality(Loading') <= ThreadLimit
      BY <1>0, <1>1, <2>2, <3>2 DEF LoadsInv
    <3> QED
      BY <1>1, <3>1, <3>3, <3>4 DEF LoadsInv
  <2> QED
    BY <1>6, <2>1, <2>2 DEF LoadModel
<1>7. CASE Crash
  <2>1. Threads' = {} /\ Loading' = {}
    BY <1>0, <1>7 DEF Crash, Threads, Running, Loading
  <2>2. loads' = 0
    BY <1>7 DEF Crash
  <2> QED
    BY <2>1, <2>2, FS_EmptySet DEF LoadsInv
<1>8. CASE UNCHANGED vars
  <2>1. Threads' = Threads /\ Loading' = Loading /\ UNCHANGED <<model, loads>>
    BY <1>8 DEF vars, Threads, Running, Loading
  <2> QED
    BY <1>2, <2>1
<1>9. ASSUME NEW c \in Checks, DownloadReference(c) PROVE LoadsInv'
  BY <1>4, <1>9 DEF DownloadReference, DownloadFails, Running, Steps
<1>10. ASSUME NEW c \in Checks, DownloadVideo(c) PROVE LoadsInv'
  BY <1>4, <1>10 DEF DownloadVideo, DownloadFails, Running, Steps
<1>11. ASSUME NEW c \in Checks, SampleFrames(c) PROVE LoadsInv'
  BY <1>4, <1>11 DEF SampleFrames, Fail, Running, Steps
<1>12. ASSUME NEW c \in Checks, Compare(c) PROVE LoadsInv'
  BY <1>4, <1>12 DEF Compare, Fail, Running, Steps
<1>13. ASSUME NEW c \in Checks, CleanUp(c) PROVE LoadsInv'
  BY <1>4, <1>13 DEF CleanUp, Running, Steps
<1> QED
  BY <1>3, <1>5, <1>6, <1>7, <1>8, <1>9, <1>10, <1>11, <1>12, <1>13 DEF Next, Proceed

\* LoadsBounded, for any number of checks, threads and crashes.
THEOREM LoadsAlwaysBounded == Spec => []LoadsBounded
<1>1. FilesInv /\ LoadsInv => LoadsBounded
  BY LoadingFewer, SimilarityAssumption DEF LoadsInv, LoadsBounded, FilesInv, SimilarityTypeOK
<1> QED
  BY <1>1, LoadsInit, LoadsStep, FilesInvariant, PTL DEF Spec

-----------------------------------------------------------------------------
(* The sampled frames.                                                     *)

\* Of a video as short as the number of samples every frame is looked at.
LEMMA FrameIndexShort ==
  ASSUME NEW i \in 1..FrameSamples
  PROVE  FrameIndex(FrameSamples, i) = i - 1
<1>1. FrameSamples \in Nat /\ i \in Nat
  BY SimilarityAssumption
<1> DEFINE D == FrameSamples + 1
           x == FrameSamples * i
           p == x \div D
<1>2. D \in Nat \ {0} /\ x \in Nat /\ D - i \in 1..(D - 1) /\ i - 1 \in Nat
  BY <1>1
<1>3. x = (i - 1) * D + (D - i)
  BY <1>1
<1>4. p \in Nat /\ x = (p * D) + (x % D) /\ x % D \in 0..(D - 1)
  <2> HIDE DEF D, x
  <2> QED
    BY <1>2
<1>5. p = i - 1
  <2> HIDE DEF D, x, p
  <2>1. CASE p > i - 1
    <3>1. p * D >= (i - 1) * D + D
      <4>1. PICK d \in Nat : p = (i - 1) + 1 + d
        <5>1. p - (i - 1) - 1 \in Nat /\ p = (i - 1) + 1 + (p - (i - 1) - 1)
          BY <1>1, <1>4, <2>1
        <5> QED BY <5>1
      <4>2. p * D = (i - 1) * D + D + d * D
        BY <1>2, <4>1
      <4> QED BY <1>2, <4>2
    <3>2. (i - 1) * D \in Nat /\ p * D \in Nat
      BY <1>2, <1>4
    <3> QED BY <1>1, <1>2, <1>3, <1>4, <3>1, <3>2
  <2>2. CASE p < i - 1
    <3>1. (i - 1) * D >= p * D + D
      <4>1. PICK d \in Nat : i - 1 = p + 1 + d
        <5>1. (i - 1) - p - 1 \in Nat /\ i - 1 = p + 1 + ((i - 1) - p - 1)
          BY <1>1, <1>2, <1>4, <2>2
        <5> QED BY <5>1
      <4>2. (i - 1) * D = p * D + D + d * D
        BY <1>2, <1>4, <4>1
      <4> QED BY <1>2, <1>4, <4>2
    <3>2. (i - 1) * D \in Nat /\ p * D \in Nat
      BY <1>2, <1>4
    <3> QED BY <1>1, <1>2, <1>3, <1>4, <3>1, <3>2
  <2> QED BY <1>1, <1>4, <2>1, <2>2
<1> QED BY <1>5 DEF FrameIndex

\* Dividing by the number of samples and one more: what the next sample adds.
LEMMA FrameIndexGrowsLong ==
  ASSUME NEW n \in Nat, NEW i \in 1..FrameSamples, NEW j \in 1..FrameSamples, i < j,
         n > FrameSamples
  PROVE  FrameIndex(n, i) < FrameIndex(n, j)
<1>1. FrameSamples \in Nat /\ i \in Nat /\ j \in Nat
  BY SimilarityAssumption
<1>2. n * i \in Nat /\ n * j \in Nat /\ n * j >= n * i + n
  <2>1. PICK d \in Nat : j = i + 1 + d
    <3>1. j - i - 1 \in Nat /\ j = i + 1 + (j - i - 1)
      BY <1>1
    <3> QED
      BY <3>1
  <2>2. n * j = (n * i) + n + (n * d)
    BY <1>1, <2>1
  <2>3. n * i \in Nat /\ n * d \in Nat
    BY <1>1, <2>1
  <2> QED
    BY <2>2, <2>3
<1> DEFINE D == FrameSamples + 1
           x == n * i
           y == n * j
<1>3. D \in Nat \ {0} /\ x \in Nat /\ y \in Nat /\ y >= x + D
  BY <1>1, <1>2
<1>4. x \div D < y \div D
  <2> HIDE DEF D, x, y
  <2> DEFINE p == x \div D
             q == y \div D
  <2>1. p \in Nat /\ q \in Nat /\ x = (p * D) + (x % D) /\ y = (q * D) + (y % D)
        /\ x % D \in 0..(D - 1) /\ y % D \in 0..(D - 1)
    BY <1>3
  <2>2. q * D > p * D
    <3> HIDE DEF p, q
    <3>1. p * D \in Nat /\ q * D \in Nat
      BY <1>3, <2>1
    <3> QED
      BY <1>3, <2>1, <3>1
  <2>3. q > p
    <3> HIDE DEF p, q
    <3> SUFFICES ASSUME q <= p PROVE FALSE
      BY <2>1
    <3>1. q * D <= p * D
      BY <1>3, <2>1
    <3> QED
      BY <1>3, <2>1, <2>2, <3>1
  <2> QED
    BY <2>3
<1> QED
  BY <1>4 DEF FrameIndex

LEMMA FrameIndexGrows ==
  ASSUME NEW n \in Nat, NEW i \in 1..FrameSamples, NEW j \in 1..FrameSamples, i < j,
         n >= FrameSamples
  PROVE  FrameIndex(n, i) < FrameIndex(n, j)
<1>1. CASE n > FrameSamples
  BY <1>1, FrameIndexGrowsLong
<1>2. CASE n = FrameSamples
  <2>1. FrameIndex(n, i) = i - 1 /\ FrameIndex(n, j) = j - 1
    BY <1>2, FrameIndexShort
  <2> QED BY <2>1, SimilarityAssumption
<1> QED BY <1>1, <1>2, SimilarityAssumption

LEMMA FrameIndexInVideo ==
  ASSUME NEW n \in Nat, n > 0, NEW i \in 1..FrameSamples
  PROVE  FrameIndex(n, i) \in Nat /\ FrameIndex(n, i) < n
<1>1. FrameSamples \in Nat /\ i \in Nat
  BY SimilarityAssumption
<1> DEFINE D == FrameSamples + 1
           x == n * i
           y == n * D
<1>2. D \in Nat \ {0} /\ x \in Nat /\ y \in Nat /\ x < y
  <2>1. PICK d \in Nat : D = i + 1 + d
    <3>1. FrameSamples - i \in Nat /\ D = i + 1 + (FrameSamples - i)
      BY <1>1
    <3> QED
      BY <3>1
  <2>2. n * D = (n * i) + n + (n * d)
    BY <1>1, <2>1
  <2>3. n * i \in Nat /\ n * d \in Nat
    BY <1>1, <2>1
  <2> QED
    BY <1>1, <2>2, <2>3
<1>3. x \div D \in Nat /\ x \div D < n
  <2> HIDE DEF D, x
  <2> DEFINE p == x \div D
  <2>1. p \in Nat /\ x = (p * D) + (x % D) /\ x % D \in 0..(D - 1)
    BY <1>2
  <2> HIDE DEF p
  <2> SUFFICES ASSUME p >= n PROVE FALSE
    BY <2>1 DEF p
  <2>2. p * D >= n * D
    BY <1>2, <2>1
  <2> QED
    BY <1>2, <2>1, <2>2
<1> QED
  BY <1>3 DEF FrameIndex

Sampled == \A c \in Checks : pc[c] = "compare" =>
  length[c] > 0 /\ sampled[c] = {FrameIndex(length[c], i) : i \in 1..FrameSamples}

LEMMA SampledInit == Init => Sampled
  BY DEF Init, Sampled

LEMMA SampledStep == FilesInv /\ Sampled /\ [Next]_vars => Sampled'
<1> SUFFICES ASSUME FilesInv, Sampled, [Next]_vars PROVE Sampled'
  OBVIOUS
<1> USE DEF FilesInv, SimilarityTypeOK, Shapes, Sampled, Goto, Result, video, process
<1>1. ASSUME NEW c \in Checks, Start(c) PROVE Sampled'
  BY <1>1 DEF Start
<1>2. ASSUME NEW c \in Checks, DownloadReference(c) PROVE Sampled'
  BY <1>2 DEF DownloadReference, DownloadFails
<1>3. ASSUME NEW c \in Checks, DownloadVideo(c) PROVE Sampled'
  BY <1>3 DEF DownloadVideo, DownloadFails
<1>4. ASSUME NEW c \in Checks, EmbedReferences(c) PROVE Sampled'
  BY <1>4 DEF EmbedReferences, Fail
<1>5. ASSUME NEW c \in Checks, LoadModel(c) PROVE Sampled'
  BY <1>5 DEF LoadModel, Fail
<1>6. ASSUME NEW c \in Checks, SampleFrames(c) PROVE Sampled'
  BY <1>6 DEF SampleFrames, Fail
<1>7. ASSUME NEW c \in Checks, Compare(c) PROVE Sampled'
  BY <1>7 DEF Compare, Fail
<1>8. ASSUME NEW c \in Checks, CleanUp(c) PROVE Sampled'
  BY <1>8 DEF CleanUp, Forget
<1>9. CASE Crash
  BY <1>9 DEF Crash, Running
<1>10. CASE UNCHANGED vars
  BY <1>10 DEF vars
<1> QED
  BY <1>1, <1>2, <1>3, <1>4, <1>5, <1>6, <1>7, <1>8, <1>9, <1>10 DEF Next, Proceed

\* SampledInVideo, for a video of any length and any number of samples.
THEOREM SampledAlwaysInVideo == Spec => []SampledInVideo
<1>1. FilesInv /\ Sampled => SampledInVideo
  <2> SUFFICES ASSUME FilesInv, Sampled, NEW c \in Checks, pc[c] = "compare"
               PROVE  /\ \A n \in sampled[c] : n < length[c]
                      /\ length[c] >= FrameSamples => Cardinality(sampled[c]) = FrameSamples
    BY DEF SampledInVideo
  <2> DEFINE n == length[c]
             f == [i \in 1..FrameSamples |-> FrameIndex(n, i)]
  <2>1. n \in Nat /\ n > 0 /\ sampled[c] = {FrameIndex(n, i) : i \in 1..FrameSamples}
    BY DEF FilesInv, SimilarityTypeOK, Sampled
  <2>2. \A m \in sampled[c] : m < n
    BY <2>1, FrameIndexInVideo
  <2>3. ASSUME n >= FrameSamples PROVE Cardinality(sampled[c]) = FrameSamples
    <3>1. \A i, j \in 1..FrameSamples : i # j => f[i] # f[j]
      <4> SUFFICES ASSUME NEW i \in 1..FrameSamples, NEW j \in 1..FrameSamples, i # j
                   PROVE  f[i] # f[j]
        OBVIOUS
      <4>1. FrameIndex(n, i) \in Nat /\ FrameIndex(n, j) \in Nat
        BY <2>1, FrameIndexInVideo
      <4>2. CASE i < j
        BY <2>1, <2>3, <4>1, <4>2, FrameIndexGrows
      <4>3. CASE j < i
        BY <2>1, <2>3, <4>1, <4>3, FrameIndexGrows
      <4> QED
        BY <4>2, <4>3, SimilarityAssumption
    <3>2. f \in Bijection(1..FrameSamples, sampled[c])
      BY <2>1, <3>1 DEF Bijection, Injection, Surjection, IsInjective
    <3>3. IsFiniteSet(1..FrameSamples) /\ Cardinality(1..FrameSamples) = FrameSamples
      BY FS_Interval, SimilarityAssumption
    <3> QED
      BY <3>2, <3>3, FS_Bijection DEF ExistsBijection
  <2> QED
    BY <2>2, <2>3
<1> QED
  BY <1>1, SampledInit, SampledStep, FilesInvariant, PTL DEF Spec
=============================================================================
