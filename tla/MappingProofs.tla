--------------------------- MODULE MappingProofs ---------------------------
(***************************************************************************)
(* For any number of pictures and any chunk size and overlap: no readable  *)
(* picture is left out of the chunks, neighbours meet in one, each file    *)
(* has one turn, and a panorama is made of its run's chunks.               *)
(***************************************************************************)
EXTENDS Mapping, TLAPS, FiniteSetTheorems

USE DEF MappingAssumption
USE MappingAssumption

(* The end of the last chunk made, of a pass that has begun its loop. *)
Covered == at + setting.overlap

(* The chunks made so far cover the pictures up to Covered. *)
Progress ==
  pass = "chunk" /\ setting.overlap < setting.size /\ setting.overlap > 0 =>
    /\ Total >= 2 => \A p \in 1..Total : at > 0 /\ p <= Covered => p \in tried
    /\ \A p \in 1..(Total - 1) : at > 0 /\ p + 1 <= Covered => p \in shared

(* What a pass is about to count, and what it has counted. *)
Booked ==
  /\ pass # "idle" => processed <= listed
  /\ pass = "chunk" => images \subseteq (processed + 1)..listed
  /\ skipped \subseteq 1..processed
  /\ \A f \in Files : turns[f] = IF f <= processed /\ f \notin skipped THEN 1 ELSE 0

(* The run's folder holds the run's chunks alone, and so does the panorama. *)
FolderIsOfThisRun ==
  /\ folder = NoFolder => panorama = {}
  /\ mixed \subseteq 0..run
  /\ folder = NoFolder => run \notin mixed
  /\ run \notin mixed /\ folder \in DOMAIN disk => \A c \in disk[folder] : c.run = run
  /\ run \notin mixed => \A c \in panorama : c.run = run

LEMMA TotalIsNat ==
  ASSUME TypeOK
  PROVE  Total \in Nat
<1>1. IsFiniteSet(Files)
  BY FS_Interval, 1 \in Int, MaxFiles \in Int DEF Files
<1>2. IsFiniteSet(images)
  BY <1>1, FS_Subset DEF TypeOK
<1> QED
  BY <1>2, FS_CardinalityType DEF Total

LEMMA SettingType ==
  ASSUME TypeOK
  PROVE  setting.size \in Nat \ {0} /\ setting.overlap \in Nat
BY DEF TypeOK

(* ---- types -------------------------------------------------------------- *)

(* Every variable keeps its type, whatever the settings and the bounds. *)
THEOREM TypeCorrect == Spec => []TypeOK
<1>1. Init => TypeOK
  <2> SUFFICES ASSUME Init PROVE TypeOK
    OBVIOUS
  <2>1. DiskType
    BY DEF Init, DiskType
  <2>2. folder \in {NoFolder} /\ setting \in Settings /\ turns \in [Files -> Nat]
    BY DEF Init, Files
  <2> QED
    BY <2>1, <2>2 DEF Init, TypeOK
<1>2. TypeOK /\ [Next]_vars => TypeOK'
  <2> SUFFICES ASSUME TypeOK, [Next]_vars
               PROVE  TypeOK'
    OBVIOUS
  <2>0. UNCHANGED disk => DiskType'
    BY DEF TypeOK, DiskType
  <2>1. CASE AddFile
    <3>1. files' \in 0..MaxFiles /\ files + 1 \in Files
      BY <2>1 DEF AddFile, TypeOK, Files
    <3>3. broken' \subseteq Files
      BY <2>1, <3>1 DEF AddFile, TypeOK
    <3>2. UNCHANGED <<second, disk, panorama, folder, processed, counter, images, pass, listed,
                      setting, at, run, mixed, tried, shared, turns, skipped>>
      BY <2>1 DEF AddFile, object, local, history
    <3> QED
      BY <2>0, <3>1, <3>2, <3>3 DEF TypeOK
  <2>2. CASE \E f \in Files : FileCompleted(f)
    BY <2>0, <2>2 DEF FileCompleted, TypeOK, object, local, history
  <2>3. CASE SecondPasses
    BY <2>0, <2>3 DEF SecondPasses, TypeOK, object, local, history
  <2>4. CASE FolderNotMade
    BY <2>0, <2>4 DEF FolderNotMade, FolderInUse, TypeOK, outside, local
  <2>5. CASE \E s \in Settings : ListFiles(s)
    <3>1. PICK s \in Settings : ListFiles(s)
      BY <2>5
    <3>2. DiskType'
      BY <3>1 DEF ListFiles, TypeOK, DiskType
    <3>3. /\ folder' \in {NoFolder} \union (0..MaxSeconds) /\ mixed' \subseteq 0..MaxRuns
          /\ pass' \in {"idle", "load", "chunk"}
      BY <3>1 DEF ListFiles, NamedFolder, FolderInUse, TypeOK
    <3> QED
      BY <3>1, <3>2, <3>3 DEF ListFiles, TypeOK, outside
  <2>6. CASE LoadImages
    BY <2>0, <2>6 DEF LoadImages, TypeOK, Files, outside
  <2>7. CASE OverlapRefused
    BY <2>0, <2>7 DEF OverlapRefused, TypeOK, outside, object, history
  <2>8. CASE ProcessChunk
    <3>1. Total \in Nat /\ setting.size \in Nat /\ setting.overlap \in Nat
      BY TotalIsNat, SettingType
    <3>2. Chunk \subseteq Nat
      BY <3>1 DEF Chunk, ChunkEnd, Min2, TypeOK
    <3>3. tried' \subseteq Nat /\ shared' \subseteq Nat
      BY <2>8, <3>2 DEF ProcessChunk, TypeOK
    <3>4. DiskType'
      BY <2>8 DEF ProcessChunk, Saved, ChunkFile, TypeOK, DiskType
    <3>5. at' \in Nat
      BY <2>8, <3>1 DEF ProcessChunk, TypeOK
    <3>6. counter' \in Nat
      BY <2>0, <2>8 DEF ProcessChunk, TypeOK
    <3>7. UNCHANGED <<files, broken, second, panorama, folder, processed, images, pass, listed, setting,
                      run, mixed, turns, skipped>>
      BY <2>8 DEF ProcessChunk, outside
    <3> QED
      BY <2>0, <3>3, <3>4, <3>5, <3>6, <3>7 DEF TypeOK
  <2>9. CASE FinishPass
    <3>1. /\ processed' = listed /\ images' = {} /\ pass' = "idle"
          /\ skipped' \subseteq skipped \union ((processed + 1)..listed)
          /\ UNCHANGED <<outside, disk, panorama, folder, counter, listed, setting, at, run, mixed, tried, shared>>
      BY <2>9 DEF FinishPass
    <3>2. turns' \in [Files -> Nat]
      BY <2>9 DEF FinishPass, TypeOK
    <3>3. skipped' \subseteq Files /\ processed' \in 0..MaxFiles
      BY <3>1 DEF TypeOK, Files
    <3> QED
      BY <2>0, <3>1, <3>2, <3>3 DEF TypeOK, outside
  <2>10. CASE SecondPass
    <3>1. panorama' \subseteq ChunkFile
      BY <2>10 DEF SecondPass, TypeOK, DiskType
    <3> QED
      BY <2>0, <2>10, <3>1 DEF SecondPass, TypeOK, outside, object, local, history
  <2>11. CASE Reset
    <3>1. /\ folder' = NoFolder /\ run' \in 0..MaxRuns /\ turns' \in [Files -> Nat]
          /\ UNCHANGED <<files, broken, second, disk, pass, listed, setting, at, mixed>>
      BY <2>11 DEF Reset, TypeOK, outside, local
    <3>2. /\ images' = {} /\ processed' = 0 /\ counter' = 0 /\ panorama' = {}
          /\ tried' = {} /\ shared' = {} /\ skipped' = {}
      BY <2>11 DEF Reset
    <3> QED
      BY <2>0, <3>1, <3>2 DEF TypeOK
  <2>12. CASE UNCHANGED vars
    BY <2>0, <2>12 DEF TypeOK, vars, outside, object, local, history
  <2> QED
    BY <2>1, <2>2, <2>3, <2>4, <2>5, <2>6, <2>7, <2>8, <2>9, <2>10, <2>11, <2>12 DEF Next
<1> QED
  BY <1>1, <1>2, PTL DEF Spec

(* ---- the chunk loop ------------------------------------------------------ *)

(* One turn of the loop: the chunk made joins up with the ones before it. *)
LEMMA ChunkJoins ==
  ASSUME TypeOK, Progress, ProcessChunk
  PROVE  Progress'
<1> DEFINE size == setting.size
           overlap == setting.overlap
<1>1. Total \in Nat /\ size \in Nat /\ overlap \in Nat /\ at \in Nat
  BY TotalIsNat, SettingType DEF TypeOK
<1>2. images' = images /\ setting' = setting /\ at' = at + (size - overlap) /\ overlap < size
  BY DEF ProcessChunk
<1>3. Total' = Total /\ pass' = pass /\ pass = "chunk" /\ at < Total
  BY <1>2 DEF Total, ProcessChunk
<1> SUFFICES ASSUME overlap > 0
             PROVE  /\ Total >= 2 => \A p \in 1..Total : p <= at + size => p \in tried'
                    /\ \A p \in 1..(Total - 1) : p + 1 <= at + size => p \in shared'
  BY <1>1, <1>2, <1>3 DEF Progress, Covered
<1>4. ASSUME Total >= 2, NEW p \in 1..Total, p <= at + size
      PROVE  p \in tried'
  <2>1. CASE p > at /\ ChunkEnd - at >= 2
    <3>1. p \in Chunk
      BY <1>1, <1>4, <2>1 DEF Chunk, ChunkEnd, Min2
    <3> QED
      BY <2>1, <3>1, <1>1 DEF ProcessChunk, ChunkEnd, Min2
  <2>2. CASE p <= at
    <3>1. p \in tried
      BY <1>1, <1>2, <1>3, <1>4, <2>2 DEF Progress, Covered
    <3> QED
      BY <3>1 DEF ProcessChunk
  <2>3. CASE p > at /\ ~(ChunkEnd - at >= 2)
    <3>1. at > 0 /\ p <= at + overlap
      BY <1>1, <1>2, <1>3, <1>4, <2>3 DEF ChunkEnd, Min2
    <3>2. p \in tried
      BY <1>1, <1>2, <1>3, <1>4, <3>1 DEF Progress, Covered
    <3> QED
      BY <3>2 DEF ProcessChunk
  <2> QED
    BY <2>1, <2>2, <2>3, <1>1
<1>5. ASSUME NEW p \in 1..(Total - 1), p + 1 <= at + size
      PROVE  p \in shared'
  <2>1. CASE p > at
    <3>1. p \in Chunk /\ p + 1 \in Chunk
      BY <1>1, <1>5, <2>1 DEF Chunk, ChunkEnd, Min2
    <3> QED
      BY <3>1 DEF ProcessChunk
  <2>2. CASE p <= at
    <3>1. p \in shared
      BY <1>1, <1>2, <1>3, <1>5, <2>2 DEF Progress, Covered
    <3> QED
      BY <3>1 DEF ProcessChunk
  <2> QED
    BY <2>1, <2>2, <1>1
<1> QED
  BY <1>4, <1>5

(* The rest of the steps leave a running loop alone, or begin one. *)
LEMMA ProgressKept ==
  ASSUME TypeOK, Progress, [Next]_vars
  PROVE  Progress'
<1>1. CASE ProcessChunk
  BY <1>1, ChunkJoins
<1>2. CASE LoadImages
  BY <1>2 DEF LoadImages, Progress
<1>3. CASE \/ OverlapRefused \/ FinishPass \/ Reset \/ \E s \in Settings : ListFiles(s)
  BY <1>3 DEF OverlapRefused, FinishPass, Reset, ListFiles, local, Progress
<1>4. CASE \/ AddFile \/ (\E f \in Files : FileCompleted(f)) \/ SecondPasses
           \/ FolderNotMade \/ SecondPass \/ UNCHANGED vars
  <2>1. UNCHANGED <<images, pass, setting, at, tried, shared>>
    BY <1>4 DEF AddFile, FileCompleted, SecondPasses, FolderNotMade, SecondPass, vars,
                object, local, history
  <2> QED
    BY <2>1 DEF Progress, Covered, Total
<1> QED
  BY <1>1, <1>2, <1>3, <1>4 DEF Next

LEMMA LoopInvariant == Spec => [](TypeOK /\ Progress)
<1>1. Init => Progress
  BY DEF Init, Progress
<1>2. TypeOK /\ Progress /\ [Next]_vars => Progress'
  BY ProgressKept
<1> QED
  BY <1>1, <1>2, TypeCorrect, PTL DEF Spec

(* firstPass hands every picture it could read to a stitcher along with another, *)
(* for every number of pictures, chunk size and overlap: the last chunk may be a *)
(* single picture, which the overlap had put in the chunk before.                *)
THEOREM EveryImageIsTriedAlways == Spec => []EveryImageIsTried
<1>1. TypeOK /\ Progress => EveryImageIsTried
  <2> SUFFICES ASSUME TypeOK, Progress, LoopDone, setting.overlap > 0, Total >= 2
               PROVE  1..Total \subseteq tried
    BY DEF EveryImageIsTried
  <2>1. Total \in Nat /\ at \in Nat /\ setting.overlap \in Nat
    BY TotalIsNat, SettingType DEF TypeOK
  <2> QED
    BY <2>1 DEF LoopDone, Progress, Covered
<1> QED
  BY <1>1, LoopInvariant, PTL

(* Any two pictures that follow each other meet in a chunk, for every setting. *)
THEOREM NeighboursShareAChunkAlways == Spec => []NeighboursShareAChunk
<1>1. TypeOK /\ Progress => NeighboursShareAChunk
  <2> SUFFICES ASSUME TypeOK, Progress, LoopDone, setting.overlap > 0,
                      NEW p \in 1..(Total - 1)
               PROVE  p \in shared
    BY DEF NeighboursShareAChunk
  <2>1. Total \in Nat /\ at \in Nat /\ setting.overlap \in Nat
    BY TotalIsNat, SettingType DEF TypeOK
  <2> QED
    BY <2>1 DEF LoopDone, Progress, Covered
<1> QED
  BY <1>1, LoopInvariant, PTL

(* ---- which files had their turn ------------------------------------------ *)

LEMMA BookedKept ==
  ASSUME TypeOK, Booked, [Next]_vars
  PROVE  Booked'
<1>1. CASE \/ AddFile \/ (\E f \in Files : FileCompleted(f)) \/ SecondPasses
           \/ FolderNotMade \/ ProcessChunk \/ SecondPass \/ UNCHANGED vars
  <2>1. UNCHANGED <<pass, processed, listed, images, turns, skipped>>
    BY <1>1 DEF AddFile, FileCompleted, SecondPasses, FolderNotMade, ProcessChunk, SecondPass,
                vars, object, local, history
  <2> QED
    BY <2>1 DEF Booked
<1>2. CASE \E s \in Settings : ListFiles(s)
  BY <1>2 DEF ListFiles, Booked, TypeOK
<1>3. CASE LoadImages
  BY <1>3 DEF LoadImages, Booked
<1>4. CASE OverlapRefused
  BY <1>4 DEF OverlapRefused, Booked, object, history
<1>5. CASE FinishPass
  <2>1. /\ processed \in Nat /\ listed \in Nat /\ processed <= listed
        /\ images \subseteq (processed + 1)..listed
    BY <1>5 DEF FinishPass, Booked, TypeOK
  <2>2. skipped' \subseteq 1..processed'
    BY <1>5, <2>1 DEF FinishPass, Booked
  <2>3. ASSUME NEW f \in Files
        PROVE  turns'[f] = IF f <= processed' /\ f \notin skipped' THEN 1 ELSE 0
    <3>1. f \in Nat /\ turns[f] = IF f <= processed /\ f \notin skipped THEN 1 ELSE 0
      BY DEF Booked, Files
    <3>2. f \in skipped => f <= processed
      BY <2>1 DEF Booked
    <3>3. CASE f \in images
      BY <1>5, <2>1, <3>1, <3>2, <3>3 DEF FinishPass
    <3>4. CASE f \notin images
      BY <1>5, <2>1, <3>1, <3>2, <3>4 DEF FinishPass
    <3> QED
      BY <3>3, <3>4
  <2> QED
    BY <1>5, <2>2, <2>3 DEF FinishPass, Booked
<1>6. CASE Reset
  BY <1>6 DEF Reset, Booked, Files, local
<1> QED
  BY <1>1, <1>2, <1>3, <1>4, <1>5, <1>6 DEF Next

(* Each file counted had its one turn, each other file none, whatever is saved to *)
(* the folder while a pass runs.                                                  *)
THEOREM EachFileHasOneTurnAlways == Spec => []EachFileHasOneTurn
<1>1. Init => Booked
  BY DEF Init, Booked, Files
<1>2. TypeOK /\ Booked /\ [Next]_vars => Booked'
  BY BookedKept
<1>3. TypeOK /\ Booked => EachFileHasOneTurn
  <2> SUFFICES ASSUME Booked, NEW f \in Files
               PROVE  turns[f] + (IF f \in skipped THEN 1 ELSE 0)
                        = (IF f <= processed THEN 1 ELSE 0)
    BY DEF EachFileHasOneTurn
  <2> QED
    BY DEF Booked, Files
<1> QED
  BY <1>1, <1>2, <1>3, TypeCorrect, PTL DEF Spec

(* ---- what a panorama is made of ------------------------------------------ *)

LEMMA InUse ==
  ASSUME TypeOK
  PROVE  /\ second \in DOMAIN disk => run \in mixed \union FolderInUse
         /\ mixed \subseteq 0..run => mixed \union FolderInUse \subseteq 0..run
         /\ second # NoFolder
BY DEF FolderInUse, TypeOK, NoFolder

LEMMA FolderKept ==
  ASSUME TypeOK, FolderIsOfThisRun, [Next]_vars
  PROVE  FolderIsOfThisRun'
<1>1. CASE \/ AddFile \/ (\E f \in Files : FileCompleted(f)) \/ SecondPasses
           \/ LoadImages \/ OverlapRefused \/ FinishPass \/ UNCHANGED vars
  <2>1. UNCHANGED <<folder, disk, mixed, run, panorama>>
    BY <1>1 DEF AddFile, FileCompleted, SecondPasses, LoadImages, OverlapRefused, FinishPass,
                vars, object, history
  <2> QED
    BY <2>1 DEF FolderIsOfThisRun
<1>2. CASE FolderNotMade
  <2>1. /\ folder = NoFolder /\ folder' = second /\ mixed' = mixed \union FolderInUse
        /\ UNCHANGED <<disk, run, panorama>>
    BY <1>2 DEF FolderNotMade
  <2> QED
    BY <2>1, InUse DEF FolderIsOfThisRun
<1>3. CASE \E s \in Settings : ListFiles(s)
  <2>1. PICK s \in Settings : ListFiles(s)
    BY <1>3
  <2>2. folder' # NoFolder /\ run' = run /\ panorama' = panorama
    BY <2>1 DEF ListFiles, NamedFolder, TypeOK, NoFolder
  <2>3. CASE folder = NoFolder
    <3>1. folder' = second /\ mixed' = mixed \union FolderInUse /\ panorama = {}
      BY <2>1, <2>3 DEF ListFiles, NamedFolder, FolderIsOfThisRun
    <3>2. second \notin DOMAIN disk => disk'[second] = {}
      BY <2>1, <2>3 DEF ListFiles
    <3> QED
      BY <2>2, <3>1, <3>2, InUse DEF FolderIsOfThisRun
  <2>4. CASE folder # NoFolder
    BY <2>1, <2>2, <2>4 DEF ListFiles, NamedFolder, FolderIsOfThisRun
  <2> QED
    BY <2>3, <2>4
<1>4. CASE ProcessChunk
  <2>1. UNCHANGED <<folder, mixed, run, panorama>>
    BY <1>4 DEF ProcessChunk
  <2>2. CASE UNCHANGED disk
    BY <2>1, <2>2 DEF FolderIsOfThisRun
  <2>3. CASE folder \in DOMAIN disk /\ disk' = Saved
    BY <2>1, <2>3 DEF Saved, FolderIsOfThisRun
  <2> QED
    BY <1>4, <2>2, <2>3 DEF ProcessChunk
<1>5. CASE SecondPass
  BY <1>5 DEF SecondPass, FolderIsOfThisRun, TypeOK, DiskType, NoFolder, outside, object, history
<1>6. CASE Reset
  BY <1>6 DEF Reset, FolderIsOfThisRun, TypeOK, DiskType, NoFolder
<1> QED
  BY <1>1, <1>2, <1>3, <1>4, <1>5, <1>6 DEF Next

(* Runs that begin in different seconds keep their chunks apart. *)
THEOREM PanoramaIsOfThisRunAlways == Spec => []PanoramaIsOfThisRun
<1>1. Init => FolderIsOfThisRun
  BY DEF Init, FolderIsOfThisRun
<1>2. TypeOK /\ FolderIsOfThisRun /\ [Next]_vars => FolderIsOfThisRun'
  BY FolderKept
<1>3. FolderIsOfThisRun => PanoramaIsOfThisRun
  BY DEF FolderIsOfThisRun, PanoramaIsOfThisRun
<1> QED
  BY <1>1, <1>2, <1>3, TypeCorrect, PTL DEF Spec
=============================================================================
