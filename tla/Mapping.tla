------------------------------ MODULE Mapping ------------------------------
(***************************************************************************)
(* The two-pass panorama of cv/mapping.cpp: firstPass() lists the pictures *)
(* of the mapping folder, loads those it has not counted yet and stitches  *)
(* them chunk by chunk, consecutive chunks sharing some pictures;          *)
(* secondPass() stitches the saved chunks of the run's folder.             *)
(*                                                                         *)
(* File k is the k-th picture by name: the camera names its files by the   *)
(* time they were taken, so a new file sorts last.  The folder is written  *)
(* by other threads while a pass runs (AddFile, FileCompleted).  A panorama *)
(* is what it was made of; pixels are left out.                            *)
(***************************************************************************)
EXTENDS Integers, FiniteSets

CONSTANTS MaxFiles,    \* bound on the pictures taken
          MaxBroken,   \* bound on the pictures that are unreadable at a time
          MaxSeconds,  \* bound on the clock
          MaxRuns,     \* bound on the runs, a run ending with reset()
          Settings     \* the chunk sizes and overlaps firstPass is called with

ASSUME MappingAssumption ==
  /\ MaxFiles \in Nat /\ MaxBroken \in Nat /\ MaxSeconds \in Nat /\ MaxRuns \in Nat
  /\ Settings \subseteq [size : Nat \ {0}, overlap : Nat]

NoFolder == -1

VARIABLES files,      \* the pictures in the folder are 1..files
          broken,     \* those imread cannot decode (yet)
          second,     \* the clock, as fine as currentDateTimeStr() reads it
          disk,       \* run folder -> chunk files in it, for the folders that exist
          panorama,   \* the chunks the last final_*.jpg was made of
          folder,     \* current_run_folder, named by a second
          processed,  \* processed_image_count
          counter,    \* chunk_counter
          images,     \* the pictures of `images`, in the order of their names
          pass,       \* where firstPass is
          listed,     \* all_filenames.size()
          setting,    \* chunk_size and overlap of the pass
          at,         \* i of chunkListWithOverlap: the next chunk's first picture
          run,        \* history: how often reset() was called
          mixed,      \* history: the runs whose folder was an earlier run's too
          tried,      \* history: positions of `images` handed to a stitcher
          shared,     \* history: positions that were in a chunk with the next one
          turns,      \* history: how many finished passes stitched each file
          skipped     \* history: the files a finished pass could not read

outside == <<files, broken, second>>
object  == <<folder, processed, counter, images>>
local   == <<pass, listed, setting, at>>
history == <<run, mixed, tried, shared, turns, skipped>>
vars == <<outside, disk, panorama, object, local, history>>

Min2(a, b) == IF a < b THEN a ELSE b

Files == 1..MaxFiles
ChunkFile == [number : Nat, second : 0..MaxSeconds, run : 0..MaxRuns]

Init ==
  /\ files = 0 /\ broken = {} /\ second = 0
  /\ disk = [s \in {} |-> {}] /\ panorama = {}
  /\ folder = NoFolder /\ processed = 0 /\ counter = 0 /\ images = {}
  /\ pass = "idle" /\ listed = 0 /\ setting \in Settings /\ at = 0
  /\ run = 0 /\ mixed = {} /\ tried = {} /\ shared = {}
  /\ turns = [f \in Files |-> 0] /\ skipped = {}

(* ---- the folder of pictures and the clock ------------------------------ *)

\* A picture is saved; it may be half written when a pass lists it.
AddFile ==
  /\ files < MaxFiles
  /\ files' = files + 1
  /\ \/ broken' = broken
     \/ Cardinality(broken) < MaxBroken /\ broken' = broken \union {files + 1}
  /\ UNCHANGED <<second, disk, panorama, object, local, history>>

FileCompleted(f) ==
  /\ f \in broken
  /\ broken' = broken \ {f}
  /\ UNCHANGED <<files, second, disk, panorama, object, local, history>>

SecondPasses ==
  /\ second < MaxSeconds
  /\ second' = second + 1
  /\ UNCHANGED <<files, broken, disk, panorama, object, local, history>>

(* ---- firstPass --------------------------------------------------------- *)

\* The run folder: named once per run, and made once.
NamedFolder == IF folder = NoFolder THEN second ELSE folder

FolderInUse == IF second \in DOMAIN disk THEN {run} ELSE {}

\* The name stays set when the directory cannot be made, and firstPass throws.
FolderNotMade ==
  /\ pass = "idle" /\ folder = NoFolder
  /\ folder' = second
  /\ mixed' = mixed \union FolderInUse
  /\ UNCHANGED <<outside, disk, panorama, processed, counter, images, local,
                 run, tried, shared, turns, skipped>>

\* Makes the folder and lists the pictures.  Nothing new: an early return.
ListFiles(s) ==
  /\ pass = "idle"
  /\ folder' = NamedFolder
  /\ disk' = IF folder = NoFolder
               THEN [d \in DOMAIN disk \union {second} |->
                       IF d \in DOMAIN disk THEN disk[d] ELSE {}]
               ELSE disk
  /\ mixed' = IF folder = NoFolder THEN mixed \union FolderInUse ELSE mixed
  /\ setting' = s
  /\ listed' = files
  /\ pass' = IF files <= processed THEN "idle" ELSE "load"
  /\ UNCHANGED <<outside, panorama, processed, counter, images, at,
                 run, tried, shared, turns, skipped>>

\* A mutant: the folder is listed again.
LoadImagesListedAgain ==
  /\ pass = "load"
  /\ images' = ((processed + 1)..files) \ broken
  /\ at' = 0 /\ tried' = {} /\ shared' = {}
  /\ pass' = "chunk"
  /\ UNCHANGED <<outside, disk, panorama, folder, processed, counter,
                 listed, setting, run, mixed, turns, skipped>>

\* Reads the new pictures.  An unreadable one is left out with a warning.
LoadImages ==
  /\ pass = "load"
  /\ images' = ((processed + 1)..listed) \ broken
  /\ at' = 0 /\ tried' = {} /\ shared' = {}
  /\ pass' = "chunk"
  /\ UNCHANGED <<outside, disk, panorama, folder, processed, counter,
                 listed, setting, run, mixed, turns, skipped>>

\* chunkListWithOverlap throws, and with it firstPass.
OverlapRefused ==
  /\ pass = "chunk" /\ at = 0
  /\ setting.overlap >= setting.size
  /\ pass' = "idle"
  /\ UNCHANGED <<outside, disk, panorama, object, listed, setting, at, history>>

Total == Cardinality(images)
ChunkEndShort == Min2(at + setting.size - 1, Total)
ChunkEnd == Min2(at + setting.size, Total)
Chunk == (at + 1)..ChunkEnd

\* The chunk file's name is the chunk's number and the second it is saved in;
\* an older file of that name is overwritten.
Saved ==
  [disk EXCEPT ![folder] =
     {c \in @ : ~(c.number = counter + 1 /\ c.second = second)}
       \union {[number |-> counter + 1, second |-> second, run |-> run]}]

\* processChunk of the next chunk.  One picture is not enough for the stitcher;
\* it may fail on more, and the file may not be written: the chunk is lost.
ProcessChunk ==
  /\ pass = "chunk"
  /\ setting.overlap < setting.size
  /\ at < Total
  /\ counter' = counter + 1
  /\ at' = at + (setting.size - setting.overlap)
  /\ tried' = IF ChunkEnd - at < 2 THEN tried ELSE tried \union Chunk
  /\ shared' = shared \union {p \in Chunk : p + 1 \in Chunk}
  /\ \/ disk' = disk
     \/ ChunkEnd - at >= 2 /\ folder \in DOMAIN disk /\ disk' = Saved
  /\ UNCHANGED <<outside, panorama, folder, processed, images, pass, listed, setting,
                 run, mixed, turns, skipped>>

\* All pictures listed at the start count as processed, the unreadable too.
FinishPass ==
  /\ pass = "chunk"
  /\ setting.overlap < setting.size
  /\ at >= Total
  /\ processed' = listed
  /\ images' = {}
  /\ pass' = "idle"
  /\ turns' = [f \in Files |-> IF f \in images THEN turns[f] + 1 ELSE turns[f]]
  /\ skipped' = skipped \union (((processed + 1)..listed) \ images)
  /\ UNCHANGED <<outside, disk, panorama, folder, counter, listed, setting, at,
                 run, mixed, tried, shared>>

(* ---- secondPass and reset ---------------------------------------------- *)

\* Chunk files lie in run folders only: without a run folder the scan of
\* run_subdir finds none.  A folder that was never made makes the scan throw.
SecondPass ==
  /\ pass = "idle"
  /\ folder \in DOMAIN disk
  /\ Cardinality(disk[folder]) >= 2
  /\ panorama' = disk[folder]
  /\ UNCHANGED <<outside, disk, object, local, history>>

\* A mutant: the next run goes on in the same folder.
ResetInFolder ==
  /\ pass = "idle" /\ run < MaxRuns
  /\ images' = {} /\ processed' = 0 /\ counter' = 0
  /\ run' = run + 1
  /\ tried' = {} /\ shared' = {} /\ panorama' = {}
  /\ turns' = [f \in Files |-> 0] /\ skipped' = {}
  /\ UNCHANGED <<outside, disk, local, folder, mixed>>

Reset ==
  /\ pass = "idle" /\ run < MaxRuns
  /\ images' = {} /\ processed' = 0 /\ counter' = 0 /\ folder' = NoFolder
  /\ run' = run + 1
  /\ tried' = {} /\ shared' = {} /\ panorama' = {}
  /\ turns' = [f \in Files |-> 0] /\ skipped' = {}
  /\ UNCHANGED <<outside, disk, local, mixed>>

Next ==
  \/ AddFile
  \/ \E f \in Files : FileCompleted(f)
  \/ SecondPasses
  \/ FolderNotMade
  \/ \E s \in Settings : ListFiles(s)
  \/ LoadImages
  \/ OverlapRefused
  \/ ProcessChunk
  \/ FinishPass
  \/ SecondPass
  \/ Reset

Spec == Init /\ [][Next]_vars

-----------------------------------------------------------------------------
DiskType ==
  /\ DOMAIN disk \subseteq 0..MaxSeconds
  /\ \A d \in DOMAIN disk : disk[d] \subseteq ChunkFile

TypeOK ==
  /\ files \in 0..MaxFiles /\ broken \subseteq Files /\ second \in 0..MaxSeconds
  /\ DiskType /\ panorama \subseteq ChunkFile
  /\ folder \in {NoFolder} \union (0..MaxSeconds)
  /\ processed \in 0..MaxFiles /\ counter \in Nat /\ images \subseteq Files
  /\ pass \in {"idle", "load", "chunk"}
  /\ listed \in 0..MaxFiles /\ setting \in Settings /\ at \in Nat
  /\ run \in 0..MaxRuns /\ mixed \subseteq 0..MaxRuns
  /\ tried \subseteq Nat /\ shared \subseteq Nat
  /\ turns \in [Files -> Nat] /\ skipped \subseteq Files

\* The chunk loop is over and its result not yet booked.
LoopDone == pass = "chunk" /\ setting.overlap < setting.size /\ at >= Total

\* firstPass leaves out no picture it could read: when the chunk loop ends, every
\* loaded picture was handed to a stitcher together with another one.  It takes
\* an overlap (a trailing chunk of one picture is dropped by globalStitch, and
\* only the overlap had put that picture in the chunk before) and two pictures.
EveryImageIsTried ==
  LoopDone /\ setting.overlap > 0 /\ Total >= 2 => 1..Total \subseteq tried

\* Any two consecutive loaded pictures are in one chunk, so that the panoramas of
\* the chunks have a picture in common and secondPass can join them.
NeighboursShareAChunk ==
  LoopDone /\ setting.overlap > 0 => 1..(Total - 1) \subseteq shared

\* Between passes the counter says exactly which files had their turn: each file
\* counted was stitched in one finished pass or was unreadable in it, and no
\* file that is not counted was, whatever arrived while the passes ran.
EachFileHasOneTurn ==
  pass = "idle" =>
    \A f \in Files :
      turns[f] + (IF f \in skipped THEN 1 ELSE 0) = (IF f <= processed THEN 1 ELSE 0)

\* The final panorama is made of this run's chunks alone, as mapping.hpp says of
\* the run folder, unless two runs began within one second.
PanoramaIsOfThisRun == run \notin mixed => \A c \in panorama : c.run = run
=============================================================================
