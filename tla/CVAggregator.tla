----------------------------- MODULE CVAggregator -----------------------------
(***************************************************************************)
(* CVAggregator: images are analysed by at most MaxPipelines worker        *)
(* threads; an image that comes when all are busy waits in overflow_queue. *)
(*                                                                         *)
(* runPipeline is called by the tick thread and by GCS handlers, terminate *)
(* by handlers of POST /targets/matched and by the destructor, popAllRuns  *)
(* by GET /targets/all.  Every section under mut is one action; a worker   *)
(* lowers num_worker_threads outside it, in an action of its own.          *)
(*                                                                         *)
(* A worker thread is named by the image it was spawned with.  Abstracted: *)
(* what an image shows.  External: Pipeline::run, which returns.           *)
(***************************************************************************)
EXTENDS Integers, Sequences, FiniteSets

CONSTANTS
    Images,         \* the images given to one aggregator
    Terminators,    \* the calls of terminate() made by handlers
    Destructor,     \* the call made by ~CVAggregator
    MaxPipelines    \* MAX_CV_PIPELINES

ASSUME ImagesAssumption       == IsFiniteSet(Images)
ASSUME DestructorAssumption   == Destructor \notin Terminators
ASSUME MaxPipelinesAssumption == MaxPipelines \in Nat \ {0}

Callers == Terminators \cup {Destructor}

VARIABLES
    accepting,  \* accepting_images
    active,     \* num_worker_threads
    threads,    \* worker_threads
    overflow,   \* overflow_queue
    worker,     \* of each worker thread: where it is
    image,      \* and the image it works on
    runs,       \* results->runs
    delivered,  \* images whose run popAllRuns has returned
    dropped,    \* images given up: refused, not spawned, or discarded by terminate()
    caller,     \* of each call of terminate(): where it is
    joins       \* and the threads it joins

workVars == <<active, threads, worker, image>>
callVars == <<caller, joins>>
vars == <<accepting, workVars, overflow, runs, delivered, dropped, callVars>>

Elements(seq) == {seq[n] : n \in DOMAIN seq}

Live    == {w \in Images : worker[w] \in {"run", "next", "leave"}}
Running == {w \in Images : worker[w] = "run"}
Analysed == {image[w] : w \in Running}
Seen    == Elements(overflow) \cup Analysed \cup Elements(runs) \cup delivered \cup dropped

TypeOK ==
    /\ accepting \in BOOLEAN
    /\ active \in 0..MaxPipelines
    /\ threads \subseteq Images
    /\ overflow \in Seq(Images)
    /\ worker \in [Images -> {"none", "run", "next", "leave", "done"}]
    /\ image \in [Images -> Images]
    /\ runs \in Seq(Images)
    /\ delivered \subseteq Images /\ dropped \subseteq Images
    /\ caller \in [Callers -> {"idle", "join", "returned"}]
    /\ joins \in [Callers -> SUBSET Images]

Init ==
    /\ accepting = TRUE
    /\ active = 0 /\ threads = {}
    /\ worker = [w \in Images |-> "none"] /\ image = [w \in Images |-> w]
    /\ overflow = <<>> /\ runs = <<>>
    /\ delivered = {} /\ dropped = {}
    /\ caller = [c \in Callers |-> "idle"] /\ joins = [c \in Callers |-> {}]

-------------------------------------------------------------------------------
(* The callers' operations.  None begins once the destructor has: it runs  *)
(* when the last shared_ptr to the aggregator goes away.                   *)

Usable == caller[Destructor] = "idle"

BusyOffByOne == active > MaxPipelines

Busy == active >= MaxPipelines

RunPipelineRefused(i) ==
    /\ Usable /\ i \notin Seen /\ ~accepting
    /\ dropped' = dropped \cup {i}
    /\ UNCHANGED <<accepting, workVars, overflow, runs, delivered, callVars>>

RunPipelineQueued(i) ==
    /\ Usable /\ i \notin Seen /\ accepting /\ Busy
    /\ overflow' = Append(overflow, i)
    /\ UNCHANGED <<accepting, workVars, runs, delivered, dropped, callVars>>

RunPipelineSpawned(i) ==
    /\ Usable /\ i \notin Seen /\ accepting /\ ~Busy
    /\ active' = active + 1
    /\ threads' = threads \cup {i}
    /\ worker' = [worker EXCEPT ![i] = "run"]
    /\ image' = [image EXCEPT ![i] = i]
    /\ UNCHANGED <<accepting, overflow, runs, delivered, dropped, callVars>>

\* std::thread throws: the count is taken back and the image is lost.
RunPipelineNotSpawned(i) ==
    /\ Usable /\ i \notin Seen /\ accepting /\ ~Busy
    /\ dropped' = dropped \cup {i}
    /\ UNCHANGED <<accepting, workVars, overflow, runs, delivered, callVars>>

PopAllRuns ==
    /\ Usable /\ runs # <<>>
    /\ delivered' = delivered \cup Elements(runs)
    /\ runs' = <<>>
    /\ UNCHANGED <<accepting, workVars, overflow, dropped, callVars>>

KeepAccepting == UNCHANGED accepting

StopAccepting == accepting' = FALSE

\* terminate() of c under mut: with no thread left to join it returns at once.
BeginTerminate(c) ==
    /\ Usable /\ caller[c] = "idle"
    /\ c = Destructor => \A t \in Terminators : caller[t] # "join"
    /\ StopAccepting
    /\ overflow' = <<>> /\ dropped' = dropped \cup Elements(overflow)
    /\ threads' = {}
    /\ joins' = [joins EXCEPT ![c] = threads]
    /\ caller' = [caller EXCEPT ![c] = IF threads = {} THEN "returned" ELSE "join"]
    /\ UNCHANGED <<active, worker, image, runs, delivered>>

JoinedAny(c) == \E w \in joins[c] : worker[w] = "done"

Joined(c) == \A w \in joins[c] : worker[w] = "done"

EndTerminate(c) ==
    /\ caller[c] = "join" /\ Joined(c)
    /\ caller' = [caller EXCEPT ![c] = "returned"]
    /\ UNCHANGED <<accepting, workVars, overflow, runs, delivered, dropped, joins>>

-------------------------------------------------------------------------------
(* The worker threads.                                                     *)

Goto(w, label) == worker' = [worker EXCEPT ![w] = label]

\* The pipeline has run: its result is stored ...
Record(w) ==
    /\ worker[w] = "run"
    /\ runs' = Append(runs, image[w])
    /\ Goto(w, "next")
    /\ UNCHANGED <<accepting, active, threads, image, overflow, delivered, dropped, callVars>>

\* ... and, under another lock, the next image is taken,
TakeNextNotPopped(w) ==
    /\ worker[w] = "next" /\ overflow # <<>>
    /\ image' = [image EXCEPT ![w] = Head(overflow)]
    /\ Goto(w, "run")
    /\ UNCHANGED <<accepting, active, threads, overflow, runs, delivered, dropped, callVars>>

TakeNext(w) ==
    /\ worker[w] = "next" /\ overflow # <<>>
    /\ image' = [image EXCEPT ![w] = Head(overflow)]
    /\ overflow' = Tail(overflow)
    /\ Goto(w, "run")
    /\ UNCHANGED <<accepting, active, threads, runs, delivered, dropped, callVars>>

WaitForWork == overflow = <<>> /\ accepting

NoWork == overflow = <<>>

\* or the loop is left;
Break(w) ==
    /\ worker[w] = "next" /\ NoWork
    /\ Goto(w, "leave")
    /\ UNCHANGED <<accepting, active, threads, image, overflow, runs, delivered, dropped,
                   callVars>>

\* the thread counts itself out, without mut, and ends.
Leave(w) ==
    /\ worker[w] = "leave"
    /\ active' = active - 1
    /\ Goto(w, "done")
    /\ UNCHANGED <<accepting, threads, image, overflow, runs, delivered, dropped, callVars>>

-------------------------------------------------------------------------------
RunPipeline(i) ==
    \/ RunPipelineRefused(i) \/ RunPipelineQueued(i)
    \/ RunPipelineSpawned(i) \/ RunPipelineNotSpawned(i)

Work(w) == Record(w) \/ TakeNext(w) \/ Break(w) \/ Leave(w)

Next ==
    \/ PopAllRuns
    \/ \E i \in Images : RunPipeline(i) \/ Work(i)
    \/ \E c \in Callers : BeginTerminate(c) \/ EndTerminate(c)

Spec == Init /\ [][Next]_vars

\* Threads that can go on do; nobody has to call anything.
Fairness ==
    /\ \A w \in Images : WF_vars(Work(w))
    /\ \A c \in Callers : WF_vars(EndTerminate(c))

FairSpec == Spec /\ Fairness

-------------------------------------------------------------------------------
(* num_worker_threads counts the threads that have not left, even though they lower it
   outside mut, so the test in runPipeline keeps the pipelines within MAX_CV_PIPELINES. *)
WorkerBound ==
    /\ active = Cardinality(Live)
    /\ Cardinality(Live) <= MaxPipelines

\* No image is analysed twice or delivered twice: it is in the queue, being analysed,
\* recorded, delivered or dropped, in one of these places only, and there once.
NoRepeats(seq) == \A m, n \in DOMAIN seq : seq[m] = seq[n] => m = n

EachImageOnce ==
    /\ NoRepeats(overflow) /\ NoRepeats(runs)
    /\ \A v, w \in Running : image[v] = image[w] => v = w
    /\ Elements(overflow) \cap (Analysed \cup Elements(runs) \cup delivered \cup dropped) = {}
    /\ Analysed \cap (Elements(runs) \cup delivered \cup dropped) = {}
    /\ Elements(runs) \cap (delivered \cup dropped) = {}
    /\ delivered \cap dropped = {}

\* A thread that has not ended is joined by somebody: it is in worker_threads or in the
\* local vector of a terminate() that waits for it (std::thread must not be destroyed
\* unjoined), so when the destructor returns no worker can touch the freed aggregator.
NoWorkerOutlives ==
    /\ \A w \in Live : w \in threads \/ \E c \in Callers : caller[c] = "join" /\ w \in joins[c]
    /\ caller[Destructor] = "returned" => Live = {}

\* Images are handled as the abstract pipeline says.
Stage ==
    [i \in Images |->
        CASE i \in dropped -> "discarded"
          [] i \in delivered -> "delivered"
          [] i \in Elements(runs) -> "recorded"
          [] i \in Elements(overflow) \cup Analysed -> "accepted"
          [] OTHER -> "new"]

Abstract == INSTANCE ImagePipeline WITH open <- accepting, stage <- Stage

\* runPipeline, the workers, popAllRuns and terminate() together accept, analyse, deliver
\* and discard images as ImagePipeline promises.
ImplementsImagePipeline == Abstract!Spec

\* A call of terminate() returns, whatever the workers and the queue were doing.
TerminateReturns == \A c \in Callers : caller[c] = "join" ~> caller[c] = "returned"
===============================================================================
