--------------------------- MODULE CVAggregatorProofs ---------------------------
(***************************************************************************)
(* The bound on the pipelines of CVAggregator, and the lifetime of its     *)
(* worker threads, for any images, any number of calls of terminate() and  *)
(* any MaxPipelines.                                                       *)
(***************************************************************************)
EXTENDS CVAggregator, FiniteSetTheorems, TLAPS

(* num_worker_threads is the number of threads that have not left. *)
Counted == active = Cardinality(Live)

(* A thread is named by its first image, and that image stays accounted for: the name is
   not given twice. *)
NamesUsedOnce == \A w \in Images : worker[w] # "none" => w \in Seen

(* Every live thread is in worker_threads or is being joined. *)
Owned == \A w \in Live : w \in threads \/ \E c \in Callers : caller[c] = "join" /\ w \in joins[c]

(* The destructor comes last: it alone joins, and nothing is spawned any more. *)
DestructorLast ==
    caller[Destructor] # "idle" =>
        threads = {} /\ \A t \in Terminators : caller[t] # "join"

(* When it has returned, no thread is left. *)
DestructorJoined == caller[Destructor] = "returned" => Live = {}

IInv == TypeOK /\ Counted /\ NamesUsedOnce /\ Owned /\ DestructorLast /\ DestructorJoined

-------------------------------------------------------------------------------
(* Live threads are finitely many, and a thread that starts or leaves changes their
   number by one. *)
LEMMA LiveFinite ==
    ASSUME NEW S, S \subseteq Images
    PROVE  IsFiniteSet(S) /\ Cardinality(S) \in Nat
BY ImagesAssumption, FS_Subset, FS_CardinalityType

(* The images of a queue, after one is put in and after one is taken out. *)
LEMMA ElementsAppend ==
    ASSUME NEW S, NEW q \in Seq(S), NEW x \in S
    PROVE  Elements(Append(q, x)) = Elements(q) \cup {x}
<1> DEFINE r == Append(q, x)
<1>1. /\ DOMAIN r = DOMAIN q \cup {Len(q) + 1}
      /\ r[Len(q) + 1] = x
      /\ \A n \in DOMAIN q : r[n] = q[n]
  OBVIOUS
<1>2. Elements(r) \subseteq Elements(q) \cup {x}
  BY <1>1 DEF Elements
<1>3. Elements(q) \cup {x} \subseteq Elements(r)
  BY <1>1 DEF Elements
<1> QED
  BY <1>2, <1>3

LEMMA ElementsTail ==
    ASSUME NEW S, NEW q \in Seq(S), q # <<>>
    PROVE  Elements(q) = Elements(Tail(q)) \cup {Head(q)} /\ Head(q) \in S
<1>1. Head(q) = q[1] /\ 1 \in DOMAIN q /\ q[1] \in S
  OBVIOUS
<1>2. ASSUME NEW n \in DOMAIN q
      PROVE  q[n] \in Elements(Tail(q)) \cup {Head(q)}
  <2>1. CASE n = 1
    BY <1>1, <2>1
  <2>2. CASE n # 1
    <3>1. n - 1 \in DOMAIN Tail(q) /\ Tail(q)[n - 1] = q[n]
      BY <2>2
    <3> QED
      BY <3>1 DEF Elements
  <2> QED
    BY <2>1, <2>2
<1>3. ASSUME NEW n \in DOMAIN Tail(q)
      PROVE  Tail(q)[n] \in Elements(q)
  <2>1. n + 1 \in DOMAIN q /\ Tail(q)[n] = q[n + 1]
    OBVIOUS
  <2> QED
    BY <2>1 DEF Elements
<1>4. Head(q) \in Elements(q)
  BY <1>1 DEF Elements
<1> QED
  BY <1>1, <1>2, <1>3, <1>4 DEF Elements

LEMMA ElementsEmpty == Elements(<<>>) = {}
BY DEF Elements

(* ~Busy and Busy are integer comparisons. *)
LEMMA BusyBound == TypeOK /\ ~Busy => active + 1 \in 0..MaxPipelines
BY MaxPipelinesAssumption DEF TypeOK, Busy

-------------------------------------------------------------------------------
(* The initial state. *)
LEMMA InitInv == Init => IInv
<1> SUFFICES ASSUME Init PROVE IInv
  OBVIOUS
<1>1. TypeOK
  BY MaxPipelinesAssumption DEF Init, TypeOK
<1>2. Live = {}
  BY DEF Init, Live
<1>3. Counted
  BY <1>2, FS_EmptySet DEF Init, Counted
<1>4. NamesUsedOnce /\ Owned /\ DestructorLast /\ DestructorJoined
  BY <1>2 DEF Init, NamesUsedOnce, Owned, DestructorLast, DestructorJoined, Callers
<1> QED
  BY <1>1, <1>3, <1>4 DEF IInv

(* No step loses sight of an image. *)
LEMMA SeenGrows ==
    ASSUME TypeOK, NamesUsedOnce, [Next]_vars
    PROVE  Seen \subseteq Seen'
<1> USE DEF TypeOK, Running, Analysed
<1>1. CASE PopAllRuns
  BY <1>1, ElementsEmpty DEF PopAllRuns, Seen, workVars, callVars
<1>2. ASSUME NEW i \in Images, RunPipeline(i)
      PROVE  Seen \subseteq Seen'
  <2>1. CASE RunPipelineRefused(i)
    BY <2>1 DEF RunPipelineRefused, Seen, workVars, callVars
  <2>2. CASE RunPipelineQueued(i)
    BY <2>2, ElementsAppend DEF RunPipelineQueued, Seen, workVars, callVars
  <2>3. CASE RunPipelineSpawned(i)
    <3>1. worker[i] = "none"
      BY <2>3 DEF RunPipelineSpawned, NamesUsedOnce
    <3>2. \A w \in Running : w \in Running' /\ image'[w] = image[w]
      BY <2>3, <3>1 DEF RunPipelineSpawned
    <3>3. {image[w] : w \in Running} \subseteq {image'[w] : w \in Running'}
      BY <3>2
    <3> QED
      BY <2>3, <3>3 DEF RunPipelineSpawned, Seen
  <2>4. CASE RunPipelineNotSpawned(i)
    BY <2>4 DEF RunPipelineNotSpawned, Seen, workVars, callVars
  <2> QED
    BY <1>2, <2>1, <2>2, <2>3, <2>4 DEF RunPipeline
<1>3. ASSUME NEW w \in Images, Work(w)
      PROVE  Seen \subseteq Seen'
  <2>1. CASE Record(w)
    BY <2>1, ElementsAppend DEF Record, Goto, Seen, callVars
  <2>2. CASE TakeNext(w)
    BY <2>2, ElementsTail DEF TakeNext, Goto, Seen, callVars
  <2>3. CASE Break(w)
    BY <2>3 DEF Break, Goto, Seen, callVars
  <2>4. CASE Leave(w)
    BY <2>4 DEF Leave, Goto, Seen, callVars
  <2> QED
    BY <1>3, <2>1, <2>2, <2>3, <2>4 DEF Work
<1>4. ASSUME NEW c \in Callers, BeginTerminate(c) \/ EndTerminate(c)
      PROVE  Seen \subseteq Seen'
  BY <1>4, ElementsEmpty DEF BeginTerminate, EndTerminate, Seen, workVars, callVars
<1>5. CASE UNCHANGED vars
  BY <1>5 DEF vars, Seen, workVars, callVars
<1> QED
  BY <1>1, <1>2, <1>3, <1>4, <1>5 DEF Next

-------------------------------------------------------------------------------
(* Every step keeps each part of the invariant. *)

\* The case analysis the lemmas below share.
LEMMA StepCases ==
    ASSUME [Next]_vars
    PROVE  \/ PopAllRuns
           \/ \E i \in Images : RunPipelineSpawned(i)
           \/ \E i \in Images : \/ RunPipelineRefused(i) \/ RunPipelineQueued(i)
                               \/ RunPipelineNotSpawned(i)
           \/ \E w \in Images : Record(w) \/ TakeNext(w) \/ Break(w)
           \/ \E w \in Images : Leave(w)
           \/ \E c \in Callers : BeginTerminate(c)
           \/ \E c \in Callers : EndTerminate(c)
           \/ UNCHANGED vars
BY DEF Next, RunPipeline, Work

LEMMA TypePreserved ==
    ASSUME TypeOK, Counted, [Next]_vars
    PROVE  TypeOK'
<1> USE DEF TypeOK
<1>1. CASE PopAllRuns
  <2>1. Elements(runs) \subseteq Images
    BY DEF Elements
  <2> QED
    BY <1>1, <2>1 DEF PopAllRuns, workVars, callVars
<1>2. ASSUME NEW i \in Images, RunPipelineSpawned(i)
      PROVE  TypeOK'
  BY <1>2, BusyBound DEF RunPipelineSpawned, callVars
<1>3. ASSUME NEW i \in Images,
             RunPipelineRefused(i) \/ RunPipelineQueued(i) \/ RunPipelineNotSpawned(i)
      PROVE  TypeOK'
  <2>1. CASE RunPipelineRefused(i)
    BY <2>1 DEF RunPipelineRefused, workVars, callVars
  <2>2. CASE RunPipelineQueued(i)
    BY <2>2 DEF RunPipelineQueued, workVars, callVars
  <2>3. CASE RunPipelineNotSpawned(i)
    BY <2>3 DEF RunPipelineNotSpawned, workVars, callVars
  <2> QED
    BY <1>3, <2>1, <2>2, <2>3
<1>4. ASSUME NEW w \in Images, Record(w) \/ TakeNext(w) \/ Break(w)
      PROVE  TypeOK'
  <2>1. CASE Record(w)
    BY <2>1 DEF Record, Goto, callVars
  <2>2. CASE TakeNext(w)
    BY <2>2, ElementsTail DEF TakeNext, Goto, callVars
  <2>3. CASE Break(w)
    BY <2>3 DEF Break, Goto, callVars
  <2> QED
    BY <1>4, <2>1, <2>2, <2>3
<1>5. ASSUME NEW w \in Images, Leave(w)
      PROVE  TypeOK'
  <2>1. w \in Live
    BY <1>5 DEF Leave, Live
  <2>2. Cardinality(Live) # 0
    BY <2>1, LiveFinite, FS_EmptySet DEF Live
  <2>3. active - 1 \in 0..MaxPipelines
    BY <2>2, MaxPipelinesAssumption DEF Counted
  <2> QED
    BY <1>5, <2>3 DEF Leave, Goto, callVars
<1>6. ASSUME NEW c \in Callers, BeginTerminate(c)
      PROVE  TypeOK'
  <2>1. Elements(overflow) \subseteq Images
    BY DEF Elements
  <2>2. overflow' \in Seq(Images) /\ dropped' \subseteq Images
    BY <1>6, <2>1 DEF BeginTerminate
  <2>3. /\ caller' \in [Callers -> {"idle", "join", "returned"}]
        /\ joins' \in [Callers -> SUBSET Images]
    BY <1>6 DEF BeginTerminate
  <2> QED
    BY <1>6, <2>2, <2>3 DEF BeginTerminate, StopAccepting
<1>7. ASSUME NEW c \in Callers, EndTerminate(c)
      PROVE  TypeOK'
  BY <1>7 DEF EndTerminate, workVars
<1>8. CASE UNCHANGED vars
  BY <1>8 DEF vars, workVars, callVars
<1> QED
  BY <1>1, <1>2, <1>3, <1>4, <1>5, <1>6, <1>7, <1>8, StepCases

(* How the live threads change: a spawn adds one, a thread that leaves is one less, and
   every other step leaves them and their count alone. *)
LEMMA LiveChanges ==
    ASSUME TypeOK, NamesUsedOnce, [Next]_vars
    PROVE  \/ \E i \in Images : /\ RunPipelineSpawned(i)
                                /\ i \notin Live /\ Live' = Live \cup {i}
           \/ \E w \in Images : /\ Leave(w)
                                /\ w \in Live /\ Live' = Live \ {w}
           \/ active' = active /\ Live' = Live
<1> USE DEF TypeOK, Live
<1>1. ASSUME NEW i \in Images, RunPipelineSpawned(i)
      PROVE  i \notin Live /\ Live' = Live \cup {i}
  <2>1. worker[i] = "none"
    BY <1>1 DEF RunPipelineSpawned, NamesUsedOnce
  <2> QED
    BY <1>1, <2>1 DEF RunPipelineSpawned
<1>2. ASSUME NEW w \in Images, Leave(w)
      PROVE  w \in Live /\ Live' = Live \ {w}
  BY <1>2 DEF Leave, Goto
<1>3. ASSUME NEW w \in Images, Record(w) \/ TakeNext(w) \/ Break(w)
      PROVE  active' = active /\ Live' = Live
  BY <1>3 DEF Record, TakeNext, Break, Goto
<1>4. ASSUME \/ PopAllRuns
             \/ \E i \in Images : \/ RunPipelineRefused(i) \/ RunPipelineQueued(i)
                                 \/ RunPipelineNotSpawned(i)
             \/ \E c \in Callers : BeginTerminate(c) \/ EndTerminate(c)
             \/ UNCHANGED vars
      PROVE  active' = active /\ Live' = Live
  BY <1>4 DEF PopAllRuns, RunPipelineRefused, RunPipelineQueued, RunPipelineNotSpawned,
              BeginTerminate, EndTerminate, vars, workVars
<1> QED
  BY <1>1, <1>2, <1>3, <1>4, StepCases

LEMMA CountedPreserved ==
    ASSUME TypeOK, Counted, NamesUsedOnce, [Next]_vars
    PROVE  Counted'
<1>0. IsFiniteSet(Live) /\ Cardinality(Live) \in Nat
  BY LiveFinite DEF Live
<1>1. ASSUME NEW i \in Images, RunPipelineSpawned(i), i \notin Live, Live' = Live \cup {i}
      PROVE  Counted'
  <2>1. Cardinality(Live') = Cardinality(Live) + 1
    BY <1>0, <1>1, FS_AddElement
  <2> QED
    BY <1>1, <2>1 DEF RunPipelineSpawned, Counted
<1>2. ASSUME NEW w \in Images, Leave(w), w \in Live, Live' = Live \ {w}
      PROVE  Counted'
  <2>1. Cardinality(Live') = Cardinality(Live) - 1
    BY <1>0, <1>2, FS_RemoveElement
  <2> QED
    BY <1>2, <2>1 DEF Leave, Counted
<1>3. CASE active' = active /\ Live' = Live
  BY <1>3 DEF Counted
<1> QED
  BY <1>1, <1>2, <1>3, LiveChanges

LEMMA NamesUsedOncePreserved ==
    ASSUME TypeOK, NamesUsedOnce, [Next]_vars
    PROVE  NamesUsedOnce'
<1>1. ASSUME NEW i \in Images, RunPipelineSpawned(i)
      PROVE  /\ i \in Seen'
             /\ \A w \in Images : worker'[w] # "none" => w = i \/ worker[w] # "none"
  <2>1. i \in Running' /\ image'[i] = i
    BY <1>1 DEF RunPipelineSpawned, TypeOK, Running
  <2> QED
    BY <1>1, <2>1 DEF RunPipelineSpawned, TypeOK, Seen, Analysed
<1>2. ASSUME ~ \E i \in Images : RunPipelineSpawned(i)
      PROVE  \A w \in Images : worker'[w] # "none" => worker[w] # "none"
  <2>1. ASSUME NEW w \in Images, Record(w) \/ TakeNext(w) \/ Break(w) \/ Leave(w)
        PROVE  \A v \in Images : worker'[v] # "none" => worker[v] # "none"
    BY <2>1 DEF Record, TakeNext, Break, Leave, Goto, TypeOK
  <2>2. ASSUME \/ PopAllRuns
               \/ \E i \in Images : \/ RunPipelineRefused(i) \/ RunPipelineQueued(i)
                                   \/ RunPipelineNotSpawned(i)
               \/ \E c \in Callers : BeginTerminate(c) \/ EndTerminate(c)
               \/ UNCHANGED vars
        PROVE  worker' = worker
    BY <2>2 DEF PopAllRuns, RunPipelineRefused, RunPipelineQueued, RunPipelineNotSpawned,
                BeginTerminate, EndTerminate, vars, workVars
  <2> QED
    BY <1>2, <2>1, <2>2, StepCases
<1> QED
  BY <1>1, <1>2, SeenGrows DEF NamesUsedOnce

LEMMA OwnedPreserved ==
    ASSUME TypeOK, NamesUsedOnce, Owned, [Next]_vars
    PROVE  Owned'
<1> DEFINE Kept == Live' \subseteq Live /\ threads' = threads /\ caller' = caller
                     /\ joins' = joins
<1>1. ASSUME NEW i \in Images, RunPipelineSpawned(i)
      PROVE  Owned'
  <2>1. Live' \subseteq Live \cup {i}
    BY <1>1 DEF RunPipelineSpawned, Live, TypeOK
  <2> QED
    BY <1>1, <2>1 DEF RunPipelineSpawned, callVars, Owned
<1>2. ASSUME NEW c \in Callers, BeginTerminate(c)
      PROVE  Owned'
  <2>1. Live' = Live
    BY <1>2 DEF BeginTerminate, Live
  <2>2. ASSUME NEW w \in Live, w \in threads
        PROVE  caller'[c] = "join" /\ w \in joins'[c]
    BY <1>2, <2>2 DEF BeginTerminate, TypeOK
  <2>3. ASSUME NEW w \in Live, NEW d \in Callers, caller[d] = "join", w \in joins[d]
        PROVE  caller'[d] = "join" /\ w \in joins'[d]
    BY <1>2, <2>3 DEF BeginTerminate, TypeOK
  <2> QED
    BY <2>1, <2>2, <2>3 DEF Owned
<1>3. ASSUME NEW c \in Callers, EndTerminate(c)
      PROVE  Owned'
  <2>1. Live' = Live /\ threads' = threads /\ joins' = joins
    BY <1>3 DEF EndTerminate, workVars, Live
  <2>2. ASSUME NEW w \in Live, NEW d \in Callers, caller[d] = "join", w \in joins[d]
        PROVE  caller'[d] = "join"
    <3>1. d # c
      BY <1>3, <2>2 DEF EndTerminate, Joined, Live
    <3> QED
      BY <1>3, <2>2, <3>1 DEF EndTerminate, TypeOK
  <2> QED
    BY <2>1, <2>2 DEF Owned
<1>4. ASSUME NEW w \in Images, Record(w) \/ TakeNext(w) \/ Break(w) \/ Leave(w)
      PROVE  Kept
  BY <1>4 DEF Record, TakeNext, Break, Leave, Goto, TypeOK, Live, callVars
<1>5. ASSUME \/ PopAllRuns
             \/ \E i \in Images : \/ RunPipelineRefused(i) \/ RunPipelineQueued(i)
                                 \/ RunPipelineNotSpawned(i)
             \/ UNCHANGED vars
      PROVE  Kept
  BY <1>5 DEF PopAllRuns, RunPipelineRefused, RunPipelineQueued, RunPipelineNotSpawned,
              vars, workVars, callVars, Live
<1>6. Kept => Owned'
  BY DEF Owned
<1> QED
  BY <1>1, <1>2, <1>3, <1>4, <1>5, <1>6, StepCases

LEMMA DestructorPreserved ==
    ASSUME TypeOK, NamesUsedOnce, Owned, DestructorLast, DestructorJoined, [Next]_vars
    PROVE  DestructorLast' /\ DestructorJoined'
<1> USE DEF TypeOK, Callers
<1>1. ASSUME NEW i \in Images, RunPipelineSpawned(i)
      PROVE  caller'[Destructor] = "idle"
  BY <1>1 DEF RunPipelineSpawned, Usable, callVars
<1>2. ASSUME NEW c \in Callers, BeginTerminate(c)
      PROVE  DestructorLast' /\ DestructorJoined'
  <2>1. CASE c = Destructor
    <3>1. threads' = {} /\ \A t \in Terminators : caller'[t] # "join"
      BY <1>2, <2>1, DestructorAssumption DEF BeginTerminate
    <3>2. ASSUME caller'[Destructor] = "returned"
          PROVE  Live = {}
      <4>1. threads = {} /\ \A d \in Callers : caller[d] # "join"
        BY <1>2, <2>1, <3>2 DEF BeginTerminate
      <4> QED
        BY <4>1 DEF Owned
    <3>3. Live' = Live
      BY <1>2 DEF BeginTerminate, Live
    <3> QED
      BY <3>1, <3>2, <3>3 DEF DestructorLast, DestructorJoined
  <2>2. CASE c # Destructor
    <3>1. caller'[Destructor] = "idle"
      BY <1>2, <2>2 DEF BeginTerminate, Usable
    <3> QED
      BY <3>1 DEF DestructorLast, DestructorJoined
  <2> QED
    BY <2>1, <2>2
<1>3. ASSUME NEW c \in Callers, EndTerminate(c)
      PROVE  DestructorLast' /\ DestructorJoined'
  <2>1. Live' = Live /\ threads' = threads
    BY <1>3 DEF EndTerminate, workVars, Live
  <2>2. /\ \A t \in Terminators : caller'[t] = "join" => caller[t] = "join"
        /\ caller'[Destructor] # "idle" => caller[Destructor] # "idle"
    BY <1>3 DEF EndTerminate
  <2>3. ASSUME c = Destructor
        PROVE  Live = {}
    <3>1. threads = {} /\ \A t \in Terminators : caller[t] # "join"
      BY <1>3, <2>3 DEF EndTerminate, DestructorLast
    <3>2. \A w \in Live : w \in joins[Destructor]
      BY <3>1 DEF Owned
    <3> QED
      BY <1>3, <2>3, <3>2 DEF EndTerminate, Joined, Live
  <2>4. c # Destructor => caller'[Destructor] = caller[Destructor]
    BY <1>3 DEF EndTerminate
  <2> QED
    BY <2>1, <2>2, <2>3, <2>4 DEF DestructorLast, DestructorJoined
<1>4. ASSUME \/ PopAllRuns
             \/ \E i \in Images : \/ RunPipelineRefused(i) \/ RunPipelineQueued(i)
                                 \/ RunPipelineNotSpawned(i)
             \/ \E w \in Images : Record(w) \/ TakeNext(w) \/ Break(w) \/ Leave(w)
             \/ UNCHANGED vars
      PROVE  caller' = caller /\ threads' = threads
  BY <1>4 DEF PopAllRuns, RunPipelineRefused, RunPipelineQueued, RunPipelineNotSpawned,
              Record, TakeNext, Break, Leave, vars, workVars, callVars
<1>5. (~ \E i \in Images : RunPipelineSpawned(i)) => Live' \subseteq Live
  BY LiveChanges
<1>6. ASSUME caller' = caller, threads' = threads, Live' \subseteq Live
      PROVE  DestructorLast' /\ DestructorJoined'
  BY <1>6 DEF DestructorLast, DestructorJoined
<1>7. CASE \E i \in Images : RunPipelineSpawned(i)
  BY <1>1, <1>7 DEF DestructorLast, DestructorJoined
<1>8. CASE ~ \E i \in Images : RunPipelineSpawned(i)
  BY <1>2, <1>3, <1>4, <1>5, <1>6, <1>8, StepCases
<1> QED
  BY <1>7, <1>8

-------------------------------------------------------------------------------
(* The inductive invariant, and what follows from it. *)

\* IInv holds in every reachable state: the step case joins the lemmas above.
THEOREM Inductive == Spec => []IInv
<1>1. IInv /\ [Next]_vars => IInv'
  BY TypePreserved, CountedPreserved, NamesUsedOncePreserved, OwnedPreserved,
     DestructorPreserved DEF IInv
<1> QED
  BY <1>1, InitInv, PTL DEF Spec

\* runPipeline, terminate(), popAllRuns and the workers keep every field of the aggregator
\* within its type; in particular num_worker_threads never goes below zero.
THEOREM TypeCorrect == Spec => []TypeOK
<1>1. IInv => TypeOK
  BY DEF IInv
<1> QED
  BY <1>1, Inductive, PTL

\* num_worker_threads is the number of threads that have not left, and with the test in
\* runPipeline it keeps them within MAX_CV_PIPELINES.
THEOREM WorkersBounded == Spec => []WorkerBound
<1>1. IInv => WorkerBound
  BY DEF IInv, TypeOK, Counted, WorkerBound
<1> QED
  BY <1>1, Inductive, PTL

\* Every live thread is joined by somebody, so none outlives ~CVAggregator.
THEOREM NoWorkerOutlivesAggregator == Spec => []NoWorkerOutlives
<1>1. IInv => NoWorkerOutlives
  BY DEF IInv, Owned, DestructorJoined, NoWorkerOutlives
<1> QED
  BY <1>1, Inductive, PTL

-------------------------------------------------------------------------------
(* Every image is in one place, once.                                      *)

\* A queue without repeats gets none from a new element, and loses its head for good.
LEMMA AppendNoRepeats ==
    ASSUME NEW S, NEW q \in Seq(S), NEW x \in S, NoRepeats(q), x \notin Elements(q)
    PROVE  NoRepeats(Append(q, x))
<1> DEFINE r == Append(q, x)
<1>1. /\ DOMAIN r = DOMAIN q \cup {Len(q) + 1}
      /\ r[Len(q) + 1] = x
      /\ \A n \in DOMAIN q : r[n] = q[n] /\ q[n] # x
  BY DEF Elements
<1> QED
  BY <1>1 DEF NoRepeats

LEMMA TailNoRepeats ==
    ASSUME NEW S, NEW q \in Seq(S), q # <<>>, NoRepeats(q)
    PROVE  NoRepeats(Tail(q)) /\ Elements(Tail(q)) = Elements(q) \ {Head(q)}
<1>1. /\ Head(q) = q[1] /\ 1 \in DOMAIN q
      /\ \A n \in DOMAIN Tail(q) : n + 1 \in DOMAIN q /\ n + 1 # 1 /\ Tail(q)[n] = q[n + 1]
  OBVIOUS
<1>2. NoRepeats(Tail(q))
  BY <1>1 DEF NoRepeats
<1>3. Head(q) \notin Elements(Tail(q))
  BY <1>1 DEF NoRepeats, Elements
<1> QED
  BY <1>2, <1>3, ElementsTail

LEMMA OnceInit == Init => EachImageOnce
BY ElementsEmpty DEF Init, EachImageOnce, NoRepeats, Running, Analysed

LEMMA OncePreserved ==
    ASSUME TypeOK, NamesUsedOnce, EachImageOnce, [Next]_vars
    PROVE  EachImageOnce'
<1> USE DEF TypeOK
<1>1. CASE PopAllRuns
  <2>1. /\ runs' = <<>> /\ delivered' = delivered \cup Elements(runs)
        /\ UNCHANGED <<overflow, worker, image, dropped>>
    BY <1>1 DEF PopAllRuns, workVars
  <2>2. Running' = Running /\ Analysed' = Analysed
    BY <2>1 DEF Running, Analysed
  <2>3. Elements(runs') = {} /\ NoRepeats(runs')
    BY <2>1, ElementsEmpty DEF NoRepeats
  <2> QED
    BY <2>1, <2>2, <2>3 DEF EachImageOnce
<1>2. ASSUME NEW i \in Images, RunPipelineRefused(i) \/ RunPipelineNotSpawned(i)
      PROVE  EachImageOnce'
  <2>1. /\ i \notin Seen /\ dropped' = dropped \cup {i}
        /\ UNCHANGED <<overflow, runs, worker, image, delivered>>
    BY <1>2 DEF RunPipelineRefused, RunPipelineNotSpawned, workVars
  <2>2. Running' = Running /\ Analysed' = Analysed
    BY <2>1 DEF Running, Analysed
  <2> QED
    BY <2>1, <2>2 DEF EachImageOnce, Seen
<1>3. ASSUME NEW i \in Images, RunPipelineQueued(i)
      PROVE  EachImageOnce'
  <2>1. /\ i \notin Seen /\ overflow' = Append(overflow, i)
        /\ UNCHANGED <<runs, worker, image, delivered, dropped>>
    BY <1>3 DEF RunPipelineQueued, workVars
  <2>2. Running' = Running /\ Analysed' = Analysed
    BY <2>1 DEF Running, Analysed
  <2>3. Elements(overflow') = Elements(overflow) \cup {i}
    BY <2>1, ElementsAppend
  <2>4. NoRepeats(overflow')
    BY <2>1, AppendNoRepeats DEF EachImageOnce, Seen
  <2> QED
    BY <2>1, <2>2, <2>3, <2>4 DEF EachImageOnce, Seen
<1>4. ASSUME NEW i \in Images, RunPipelineSpawned(i)
      PROVE  EachImageOnce'
  <2>1. /\ i \notin Seen /\ worker[i] = "none"
        /\ worker' = [worker EXCEPT ![i] = "run"] /\ image' = [image EXCEPT ![i] = i]
        /\ UNCHANGED <<overflow, runs, delivered, dropped>>
    BY <1>4 DEF RunPipelineSpawned, NamesUsedOnce
  <2>2. Running' = Running \cup {i} /\ i \notin Running
    BY <2>1 DEF Running
  <2>3. /\ image'[i] = i /\ i \notin Analysed
        /\ \A w \in Running : image'[w] = image[w] /\ image[w] # i
    BY <2>1, <2>2 DEF Seen, Analysed, Running
  <2>4. Analysed' = Analysed \cup {i}
    BY <2>2, <2>3 DEF Analysed
  <2>5. \A v, w \in Running' : image'[v] = image'[w] => v = w
    BY <2>2, <2>3 DEF EachImageOnce
  <2> QED
    BY <2>1, <2>4, <2>5 DEF EachImageOnce, Seen
<1>5. ASSUME NEW w \in Images, Record(w)
      PROVE  EachImageOnce'
  <2>1. /\ worker[w] = "run" /\ runs' = Append(runs, image[w])
        /\ worker' = [worker EXCEPT ![w] = "next"]
        /\ UNCHANGED <<image, overflow, delivered, dropped>>
    BY <1>5 DEF Record, Goto
  <2>2. w \in Running /\ Running' = Running \ {w}
    BY <2>1 DEF Running
  <2>3. image[w] \in Analysed /\ Analysed' = Analysed \ {image[w]}
    BY <2>1, <2>2 DEF Analysed, EachImageOnce
  <2>4. Elements(runs') = Elements(runs) \cup {image[w]}
    BY <2>1, ElementsAppend
  <2>5. NoRepeats(runs')
    BY <2>1, <2>3, AppendNoRepeats DEF EachImageOnce
  <2>6. \A u, v \in Running' : image'[u] = image'[v] => u = v
    BY <2>1, <2>2 DEF EachImageOnce
  <2> QED
    BY <2>1, <2>3, <2>4, <2>5, <2>6 DEF EachImageOnce
<1>6. ASSUME NEW w \in Images, TakeNext(w)
      PROVE  EachImageOnce'
  <2>1. /\ worker[w] = "next" /\ overflow # <<>>
        /\ overflow' = Tail(overflow) /\ image' = [image EXCEPT ![w] = Head(overflow)]
        /\ worker' = [worker EXCEPT ![w] = "run"]
        /\ UNCHANGED <<runs, delivered, dropped>>
    BY <1>6 DEF TakeNext, Goto
  <2>2. Head(overflow) \in Elements(overflow) /\ Head(overflow) \in Images
    BY <2>1, ElementsTail
  <2>3. Elements(overflow') = Elements(overflow) \ {Head(overflow)} /\ NoRepeats(overflow')
    BY <2>1, TailNoRepeats DEF EachImageOnce
  <2>4. Running' = Running \cup {w} /\ w \notin Running
    BY <2>1 DEF Running
  <2>5. /\ image'[w] = Head(overflow)
        /\ \A v \in Running : image'[v] = image[v] /\ image[v] # Head(overflow)
    <3>1. \A v \in Running : image[v] \in Analysed
      BY DEF Analysed
    <3> QED
      BY <2>1, <2>2, <2>4, <3>1 DEF EachImageOnce, Running
  <2>6. Analysed' = Analysed \cup {Head(overflow)}
    BY <2>4, <2>5 DEF Analysed
  <2>7. \A u, v \in Running' : image'[u] = image'[v] => u = v
    BY <2>4, <2>5 DEF EachImageOnce
  <2> QED
    BY <2>1, <2>2, <2>3, <2>6, <2>7 DEF EachImageOnce
<1>7. ASSUME NEW c \in Callers, BeginTerminate(c)
      PROVE  EachImageOnce'
  <2>1. /\ overflow' = <<>> /\ dropped' = dropped \cup Elements(overflow)
        /\ UNCHANGED <<runs, worker, image, delivered>>
    BY <1>7 DEF BeginTerminate
  <2>2. Running' = Running /\ Analysed' = Analysed
    BY <2>1 DEF Running, Analysed
  <2>3. Elements(overflow') = {} /\ NoRepeats(overflow')
    BY <2>1, ElementsEmpty DEF NoRepeats
  <2> QED
    BY <2>1, <2>2, <2>3 DEF EachImageOnce
<1>8. ASSUME \/ \E w \in Images : Break(w) \/ Leave(w)
             \/ \E c \in Callers : EndTerminate(c)
             \/ UNCHANGED vars
      PROVE  EachImageOnce'
  <2>1. UNCHANGED <<image, overflow, runs, delivered, dropped>> /\ Running' = Running
    BY <1>8 DEF Break, Leave, EndTerminate, Goto, vars, workVars, callVars, Running
  <2>2. Analysed' = Analysed
    BY <2>1 DEF Analysed
  <2> QED
    BY <2>1, <2>2 DEF EachImageOnce
<1> QED
  BY <1>1, <1>2, <1>3, <1>4, <1>5, <1>6, <1>7, <1>8, StepCases

\* No image is analysed or delivered twice, for any images, callers and pipelines.
THEOREM ImagesOnce == Spec => []EachImageOnce
<1>1. TypeOK /\ NamesUsedOnce /\ EachImageOnce /\ [Next]_vars => EachImageOnce'
  BY OncePreserved
<1>2. IInv => TypeOK /\ NamesUsedOnce
  BY DEF IInv
<1> QED
  BY <1>1, <1>2, OnceInit, Inductive, PTL DEF Spec

-------------------------------------------------------------------------------
(* CVAggregator implements ImagePipeline.                                  *)

\* The stage of an image, place by place.
LEMMA StageOf ==
    ASSUME EachImageOnce, NEW i \in Images
    PROVE  /\ i \in dropped => Stage[i] = "discarded"
           /\ i \in delivered => Stage[i] = "delivered"
           /\ i \in Elements(runs) => Stage[i] = "recorded"
           /\ i \in Elements(overflow) \cup Analysed => Stage[i] = "accepted"
           /\ i \notin Seen => Stage[i] = "new"
BY DEF EachImageOnce, Stage, Seen

LEMMA StageAfter ==
    ASSUME EachImageOnce', NEW i \in Images
    PROVE  /\ i \in dropped' => Stage'[i] = "discarded"
           /\ i \in Elements(runs)' => Stage'[i] = "recorded"
           /\ i \in (Elements(overflow) \cup Analysed)' => Stage'[i] = "accepted"
BY DEF EachImageOnce, Stage

\* What a step moves from one place to another changes its stage, and nothing else does.
LEMMA StageMoves ==
    ASSUME EachImageOnce, EachImageOnce', NEW i \in Images, NEW to,
           Stage'[i] = to,
           \A j \in Images \ {i} :
             /\ j \in dropped' <=> j \in dropped
             /\ j \in delivered' <=> j \in delivered
             /\ j \in Elements(runs)' <=> j \in Elements(runs)
             /\ j \in (Elements(overflow) \cup Analysed)' <=> j \in Elements(overflow) \cup Analysed
    PROVE  Stage' = [Stage EXCEPT ![i] = to]
<1>1. \A j \in Images \ {i} : Stage'[j] = Stage[j]
  BY DEF Stage
<1>2. DOMAIN Stage = Images /\ DOMAIN Stage' = Images
  BY DEF Stage
<1>3. Stage' = [j \in Images |-> Stage'[j]] /\ Stage = [j \in Images |-> Stage[j]]
  BY DEF Stage
<1> QED
  BY <1>1, <1>2, <1>3

LEMMA StageStays ==
    ASSUME dropped' = dropped, delivered' = delivered, runs' = runs,
           (Elements(overflow) \cup Analysed)' = Elements(overflow) \cup Analysed
    PROVE  Stage' = Stage
<1>1. Elements(runs)' = Elements(runs)
  BY DEF Elements
<1> QED
  BY <1>1 DEF Stage

LEMMA RefinesInit == Init => Abstract!Init
<1> SUFFICES ASSUME Init PROVE Abstract!Init
  OBVIOUS
<1>1. EachImageOnce /\ Seen = {}
  BY OnceInit, ElementsEmpty DEF Init, Seen, Analysed, Running
<1>2. \A i \in Images : Stage[i] = "new"
  BY <1>1, StageOf
<1>3. Stage = [i \in Images |-> "new"]
  BY <1>2 DEF Stage
<1> QED
  BY <1>3 DEF Init, Abstract!Init

LEMMA RefinesStep ==
    ASSUME TypeOK, NamesUsedOnce, EachImageOnce, EachImageOnce', [Next]_vars
    PROVE  [Abstract!Next]_(Abstract!vars)
<1> USE DEF TypeOK
<1>1. CASE PopAllRuns
  <2>1. /\ runs' = <<>> /\ delivered' = delivered \cup Elements(runs)
        /\ UNCHANGED <<accepting, overflow, worker, image, dropped>>
    BY <1>1 DEF PopAllRuns, workVars
  <2>2. Elements(runs)' = {} /\ Analysed' = Analysed /\ Elements(overflow)' = Elements(overflow)
    BY <2>1, ElementsEmpty DEF Running, Analysed
  <2>3. \A i \in Images : Stage'[i] = IF Stage[i] = "recorded" THEN "delivered" ELSE Stage[i]
    BY <2>1, <2>2 DEF Stage, EachImageOnce
  <2>4. Stage' = [i \in Images |-> IF Stage[i] = "recorded" THEN "delivered" ELSE Stage[i]]
    <3>1. Stage' = [i \in Images |-> Stage'[i]]
      BY DEF Stage
    <3> QED
      BY <2>3, <3>1
  <2> QED
    BY <2>1, <2>4 DEF Abstract!Next, Abstract!Deliver
<1>2. ASSUME NEW i \in Images, RunPipelineRefused(i) \/ RunPipelineNotSpawned(i)
      PROVE  Abstract!Refuse(i)
  <2>1. /\ i \notin Seen /\ dropped' = dropped \cup {i}
        /\ UNCHANGED <<accepting, overflow, runs, worker, image, delivered>>
    BY <1>2 DEF RunPipelineRefused, RunPipelineNotSpawned, workVars
  <2>2. Analysed' = Analysed
    BY <2>1 DEF Running, Analysed
  <2>3. Stage'[i] = "discarded" /\ Stage[i] = "new"
    BY <2>1, StageOf, StageAfter
  <2>4. Stage' = [Stage EXCEPT ![i] = "discarded"]
    BY <2>1, <2>2, <2>3, StageMoves
  <2> QED
    BY <2>1, <2>3, <2>4 DEF Abstract!Refuse, Abstract!Move
<1>3. ASSUME NEW i \in Images, RunPipelineQueued(i)
      PROVE  Abstract!Accept(i)
  <2>1. /\ i \notin Seen /\ overflow' = Append(overflow, i) /\ accepting = TRUE
        /\ UNCHANGED <<accepting, runs, worker, image, delivered, dropped>>
    BY <1>3 DEF RunPipelineQueued, workVars
  <2>2. Analysed' = Analysed /\ Elements(overflow') = Elements(overflow) \cup {i}
    BY <2>1, ElementsAppend DEF Running, Analysed
  <2>3. Stage'[i] = "accepted" /\ Stage[i] = "new"
    BY <2>1, <2>2, StageOf DEF Stage, Seen
  <2>4. Stage' = [Stage EXCEPT ![i] = "accepted"]
    BY <2>1, <2>2, <2>3, StageMoves
  <2> QED
    BY <2>1, <2>3, <2>4 DEF Abstract!Accept, Abstract!Move
<1>4. ASSUME NEW i \in Images, RunPipelineSpawned(i)
      PROVE  Abstract!Accept(i)
  <2>1. /\ i \notin Seen /\ worker[i] = "none" /\ accepting = TRUE
        /\ worker' = [worker EXCEPT ![i] = "run"] /\ image' = [image EXCEPT ![i] = i]
        /\ UNCHANGED <<accepting, overflow, runs, delivered, dropped>>
    BY <1>4 DEF RunPipelineSpawned, NamesUsedOnce
  <2>2. Running' = Running \cup {i} /\ i \notin Running
    BY <2>1 DEF Running
  <2>3. image'[i] = i /\ \A w \in Running : image'[w] = image[w]
    BY <2>1, <2>2 DEF Running
  <2>4. Analysed' = Analysed \cup {i}
    BY <2>2, <2>3 DEF Analysed
  <2>5. Stage'[i] = "accepted" /\ Stage[i] = "new"
    BY <2>1, <2>4, StageOf DEF Stage, Seen
  <2>6. Stage' = [Stage EXCEPT ![i] = "accepted"]
    BY <2>1, <2>4, <2>5, StageMoves
  <2> QED
    BY <2>1, <2>5, <2>6 DEF Abstract!Accept, Abstract!Move
<1>5. ASSUME NEW w \in Images, Record(w)
      PROVE  image[w] \in Images /\ Abstract!Record(image[w])
  <2>1. /\ worker[w] = "run" /\ runs' = Append(runs, image[w])
        /\ worker' = [worker EXCEPT ![w] = "next"]
        /\ UNCHANGED <<accepting, image, overflow, delivered, dropped>>
    BY <1>5 DEF Record, Goto
  <2>2. w \in Running /\ Running' = Running \ {w}
    BY <2>1 DEF Running
  <2>3. image[w] \in Analysed /\ Analysed' = Analysed \ {image[w]}
    BY <2>1, <2>2 DEF Analysed, EachImageOnce
  <2>4. Elements(runs') = Elements(runs) \cup {image[w]}
    BY <2>1, ElementsAppend
  <2>5. Stage[image[w]] = "accepted" /\ Stage'[image[w]] = "recorded"
    <3>1. Stage[image[w]] = "accepted"
      BY <2>3, StageOf
    <3>2. Stage'[image[w]] = "recorded"
      BY <2>4, StageAfter
    <3> QED
      BY <3>1, <3>2
  <2>6. Stage' = [Stage EXCEPT ![image[w]] = "recorded"]
    BY <2>1, <2>3, <2>4, <2>5, StageMoves
  <2> QED
    BY <2>1, <2>5, <2>6 DEF Abstract!Record, Abstract!Move
<1>6. ASSUME NEW w \in Images, TakeNext(w)
      PROVE  Stage' = Stage /\ accepting' = accepting
  <2>1. /\ worker[w] = "next" /\ overflow # <<>>
        /\ overflow' = Tail(overflow) /\ image' = [image EXCEPT ![w] = Head(overflow)]
        /\ worker' = [worker EXCEPT ![w] = "run"]
        /\ UNCHANGED <<accepting, runs, delivered, dropped>>
    BY <1>6 DEF TakeNext, Goto
  <2>2. Elements(overflow) = Elements(overflow') \cup {Head(overflow)}
    BY <2>1, ElementsTail
  <2>3. Running' = Running \cup {w} /\ w \notin Running
    BY <2>1 DEF Running
  <2>4. image'[w] = Head(overflow) /\ \A v \in Running : image'[v] = image[v]
    BY <2>1, <2>3 DEF Running
  <2>5. Analysed' = Analysed \cup {Head(overflow)}
    BY <2>3, <2>4 DEF Analysed
  <2> QED
    BY <2>1, <2>2, <2>5, StageStays
<1>7. ASSUME NEW c \in Callers, BeginTerminate(c)
      PROVE  Abstract!Close
  <2>1. /\ overflow' = <<>> /\ dropped' = dropped \cup Elements(overflow) /\ accepting' = FALSE
        /\ UNCHANGED <<runs, worker, image, delivered>>
    BY <1>7 DEF BeginTerminate, StopAccepting
  <2>2. Elements(overflow)' = {} /\ Analysed' = Analysed
    BY <2>1, ElementsEmpty DEF Running, Analysed
  <2>3. Elements(overflow) \subseteq {i \in Images : Stage[i] = "accepted"}
    <3>1. Elements(overflow) \subseteq Images
      BY DEF Elements
    <3> QED
      BY <3>1, StageOf
  <2>4. \A i \in Images :
          Stage'[i] = IF i \in Elements(overflow) THEN "discarded" ELSE Stage[i]
    <3>1. ASSUME NEW i \in Elements(overflow)
          PROVE  i \in Images /\ Stage'[i] = "discarded"
      BY <2>1, <2>3, StageAfter
    <3>2. ASSUME NEW i \in Images, i \notin Elements(overflow)
          PROVE  Stage'[i] = Stage[i]
      <4>1. Elements(runs)' = Elements(runs)
        BY <2>1 DEF Elements
      <4> QED
        BY <2>1, <2>2, <3>2, <4>1 DEF Stage
    <3> QED
      BY <3>1, <3>2
  <2>5. Stage' = [i \in Images |-> IF i \in Elements(overflow) THEN "discarded" ELSE Stage[i]]
    <3>1. Stage' = [i \in Images |-> Stage'[i]]
      BY DEF Stage
    <3> QED
      BY <2>4, <3>1
  <2> QED
    BY <2>1, <2>3, <2>5 DEF Abstract!Close
<1>8. ASSUME \/ \E w \in Images : Break(w) \/ Leave(w)
             \/ \E c \in Callers : EndTerminate(c)
             \/ UNCHANGED vars
      PROVE  Stage' = Stage /\ accepting' = accepting
  <2>1. UNCHANGED <<accepting, image, overflow, runs, delivered, dropped>> /\ Running' = Running
    BY <1>8 DEF Break, Leave, EndTerminate, Goto, vars, workVars, callVars, Running
  <2>2. Analysed' = Analysed
    BY <2>1 DEF Analysed
  <2> QED
    BY <2>1, <2>2, StageStays
<1> QED
  BY <1>1, <1>2, <1>3, <1>4, <1>5, <1>6, <1>7, <1>8, StepCases DEF Abstract!Next, Abstract!vars

\* runPipeline, the workers, popAllRuns and terminate() do to images only what ImagePipeline
\* lets happen to them.
THEOREM CarriesOutPipeline == Spec => ImplementsImagePipeline
<1>1. Init => Abstract!Init
  BY RefinesInit
<1>2. /\ TypeOK /\ NamesUsedOnce /\ EachImageOnce /\ EachImageOnce' /\ [Next]_vars
      => [Abstract!Next]_(Abstract!vars)
  BY RefinesStep
<1>3. IInv => TypeOK /\ NamesUsedOnce
  BY DEF IInv
<1> QED
  BY <1>1, <1>2, <1>3, Inductive, ImagesOnce, PTL DEF Spec, ImplementsImagePipeline, Abstract!Spec
===============================================================================
