------------------------------- MODULE RRTTree -------------------------------
(***************************************************************************)
(* The search of RRT::run: a tree of nodes grown from the start, goal by   *)
(* goal, and rewired around every new sample (RRT star).                   *)
(*                                                                         *)
(* Nodes are numbered as they are made; node 1 is the root.  Every node    *)
(* but the root is in the reachable list of one other, its parent.  A      *)
(* sample is the last in its parent's list, so RRTStarRecursive has looked *)
(* at all its siblings when it meets it and returns; otherwise the order   *)
(* of the children does not matter and the lists are sets.  The recursion  *)
(* is unfolded: visit holds the nodes whose frame is to come, frame and    *)
(* scan are the loop of the open one, todo holds the nodes                 *)
(* reassignCosts has not got to.                                           *)
(*                                                                         *)
(* Abstracted: points, Dubins curves and the bounds.  Which options exist  *)
(* between two nodes, which of them are in bounds and how long they are is *)
(* any choice from Lengths.  epochEvaluation is left out: it assigns its   *)
(* own copies of goal_node and goal_parent, and changes nothing.           *)
(***************************************************************************)
EXTENDS Integers, FiniteSets

CONSTANTS
    MaxNodes,    \* bound on the nodes of a search
    Goals,       \* the number of waypoints
    Lengths,     \* the lengths of Dubins curves
    Tries        \* config.pathing.rrt.iterations_per_waypoint

ASSUME MaxNodesAssumption    == MaxNodes \in Nat \ {0}
ASSUME GoalsAssumption       == Goals \in Nat \ {0}
ASSUME LengthsAssumption     == Lengths \subseteq Nat
ASSUME TriesAssumption       == Tries \in Nat

VARIABLES
    skipAllowed, \* config.pathing.rrt.allowed_to_skip_waypoints
    size,      \* nodes made so far
    parent,    \* of each node: the node in whose reachable list it is
    len,       \* path_length
    cost,
    search,    \* the nodes below current_head
    treeSize,  \* tree_size
    head,      \* current_head
    flown,     \* the length of flight_path
    goal,      \* current_goal_index
    tries,     \* i
    pc,        \* where RRT::run is
    sample, visit, frame, scan, todo

treeVars == <<size, parent, len, cost>>
headVars == <<search, treeSize, head, flown, goal, skipAllowed>>
starVars == <<sample, visit, frame, scan, todo>>
vars == <<treeVars, headVars, tries, pc, starVars>>

Nodes   == 1..MaxNodes
InTree  == 1..size
Grown   == 2..size

TypeOK ==
    /\ skipAllowed \in BOOLEAN
    /\ size \in Nodes
    /\ parent \in [Nodes -> 0..MaxNodes]
    /\ len \in [Nodes -> Nat] /\ cost \in [Nodes -> Nat]
    /\ search \subseteq InTree /\ head \in search
    /\ treeSize \in Nat
    /\ goal \in 1..(Goals + 1) /\ tries \in 0..Tries
    /\ pc \in {"direct", "sample", "star", "connect", "done"}
    /\ sample \in InTree /\ visit \subseteq InTree /\ frame \in 0..size
    /\ scan \subseteq Grown \ {sample} /\ todo \subseteq Grown

Init ==
    /\ skipAllowed \in BOOLEAN
    /\ size = 1 /\ parent = [n \in Nodes |-> 0]
    /\ len = [n \in Nodes |-> 0] /\ cost = [n \in Nodes |-> 0]
    /\ search = {1} /\ treeSize = 1 /\ head = 1 /\ flown = 0
    /\ goal = 1 /\ tries = 0 /\ pc = "direct"
    /\ sample = 1 /\ visit = {} /\ frame = 0 /\ scan = {} /\ todo = {}

Children(n) == {c \in Grown : parent[c] = n}

\* The length of the path findPathToNode finds from current_head.
SegmentLength[n \in search] == IF n = head THEN 0 ELSE SegmentLength[parent[n]] + len[n]

-------------------------------------------------------------------------------
(* Growing the tree.                                                       *)

CostOfAnchor(anchor, length) == cost[anchor]

CostThrough(anchor, length) == cost[anchor] + length

\* generateNode and addNode: a new node after anchor.
Grow(anchor, length) ==
    /\ size < MaxNodes
    /\ size' = size + 1
    /\ parent' = [parent EXCEPT ![size + 1] = anchor]
    /\ len' = [len EXCEPT ![size + 1] = length]
    /\ cost' = [cost EXCEPT ![size + 1] = CostThrough(anchor, length)]

KeepTreeSize == treeSize' = treeSize + 1

ResetTreeSize == treeSize' = 1

NextGoal ==
    /\ goal' = goal + 1
    /\ pc' = IF goal < Goals THEN "direct" ELSE "done"

\* addNodeToTree: the goal's node becomes current_head, the way to it is flown.
ConnectToGoal(anchor, length) ==
    /\ pc \in {"direct", "connect"} /\ anchor \in search
    /\ Grow(anchor, length)
    /\ flown' = flown + SegmentLength[anchor] + length
    /\ head' = size + 1
    /\ search' = {size + 1}
    /\ ResetTreeSize
    /\ NextGoal
    /\ UNCHANGED <<skipAllowed, tries, starVars>>

\* RRTIteration begins.
DirectFails ==
    /\ pc = "direct"
    /\ pc' = "sample" /\ tries' = 0
    /\ UNCHANGED <<treeVars, headVars, starVars>>

\* addSample succeeds with one of the options to the sample ...
SampleAdded(anchor, length) ==
    /\ pc = "sample" /\ tries < Tries /\ anchor \in search
    /\ Grow(anchor, length)
    /\ search' = search \cup {size + 1} /\ treeSize' = treeSize + 1
    /\ tries' = tries + 1
    /\ pc' = "star" /\ sample' = size + 1 /\ visit' = {head}
    /\ UNCHANGED <<skipAllowed, head, flown, goal, frame, scan, todo>>

\* ... or none is in bounds.
SampleRejected ==
    /\ pc = "sample" /\ tries < Tries
    /\ tries' = tries + 1
    /\ UNCHANGED <<treeVars, headVars, pc, starVars>>

TriesUsed ==
    /\ pc = "sample" /\ tries = Tries
    /\ pc' = "connect"
    /\ UNCHANGED <<treeVars, headVars, tries, starVars>>

\* No option to the goal is in bounds: the waypoint is skipped, or, after a second
\* attempt with every option, RRTIteration calls itself.
ConnectFails ==
    /\ pc = "connect"
    /\ \/ /\ skipAllowed /\ NextGoal
          /\ UNCHANGED <<treeVars, search, treeSize, head, flown, skipAllowed, tries, starVars>>
       \/ /\ ~skipAllowed
          /\ pc' = "sample" /\ tries' = 0
          /\ UNCHANGED <<treeVars, headVars, starVars>>

-------------------------------------------------------------------------------
(* RRTStar: rewiring around the sample.                                    *)

\* A frame of RRTStarRecursive begins with a copy of the children.
OpenFrame(n) ==
    /\ pc = "star" /\ todo = {} /\ frame = 0 /\ n \in visit
    /\ frame' = n
    /\ visit' = visit \ {n}
    /\ scan' = Children(n) \ {sample}
    /\ UNCHANGED <<treeVars, headVars, tries, pc, sample, todo>>

\* A child is too far away, or no option is in bounds and better.
KeepEdge(c) ==
    /\ pc = "star" /\ todo = {} /\ c \in scan
    /\ scan' = scan \ {c}
    /\ UNCHANGED <<treeVars, headVars, tries, pc, sample, visit, frame, todo>>

CompetitiveOnTie(c, length) == CostThrough(sample, length) <= cost[c]

CompetitiveByLength(c, length) == length < len[c]

Competitive(c, length) == CostThrough(sample, length) < cost[c]

LeaveCosts(c) == {}

CostsToReassign(c) == Children(c)

\* rewireEdge, and the begin of reassignCosts.
RewireEdge(c, length) ==
    /\ pc = "star" /\ todo = {} /\ c \in scan
    /\ Competitive(c, length)
    /\ parent' = [parent EXCEPT ![c] = sample]
    /\ len' = [len EXCEPT ![c] = length]
    /\ cost' = [cost EXCEPT ![c] = CostThrough(sample, length)]
    /\ scan' = scan \ {c}
    /\ todo' = CostsToReassign(c)
    /\ UNCHANGED <<size, headVars, tries, pc, sample, visit, frame>>

\* reassignCostsRecursive at one node.
ReassignCost(c) ==
    /\ c \in todo
    /\ cost' = [cost EXCEPT ![c] = cost[parent[c]] + len[c]]
    /\ todo' = (todo \ {c}) \cup Children(c)
    /\ UNCHANGED <<size, parent, len, headVars, tries, pc, sample, visit, frame, scan>>

RecurseOnSelf == {frame}

\* The frame recurses into the children it has left, or returns at the sample.
Recurse == IF parent[sample] = frame THEN {} ELSE Children(frame)

CloseFrame ==
    /\ pc = "star" /\ todo = {} /\ frame # 0 /\ scan = {}
    /\ visit' = visit \cup Recurse
    /\ frame' = 0
    /\ UNCHANGED <<treeVars, headVars, tries, pc, sample, scan, todo>>

StarEnds ==
    /\ pc = "star" /\ todo = {} /\ frame = 0 /\ visit = {}
    /\ pc' = "sample"
    /\ UNCHANGED <<treeVars, headVars, tries, starVars>>

\* RRT::run has returned.
Done == pc = "done" /\ UNCHANGED vars

-------------------------------------------------------------------------------
Star ==
    \/ \E n \in InTree : OpenFrame(n) \/ KeepEdge(n) \/ ReassignCost(n)
    \/ \E n \in InTree, length \in Lengths : RewireEdge(n, length)
    \/ CloseFrame \/ StarEnds

Next ==
    \/ \E anchor \in search, length \in Lengths :
           ConnectToGoal(anchor, length) \/ SampleAdded(anchor, length)
    \/ DirectFails \/ SampleRejected \/ TriesUsed \/ ConnectFails
    \/ Star \/ Done

Spec == Init /\ [][Next]_vars

FairSpec == Spec /\ WF_vars(Star)

-------------------------------------------------------------------------------
(* rewireEdge moves a node below a sample that must not be below the node itself, which the
   code never looks at: only the comparison of costs prevents a cycle, in which the
   recursions of tree.cpp would not end.  No set of nodes contains all its parents. *)
IsTree == \A S \in SUBSET Grown : (\A n \in S : parent[n] \in S) => S = {}

\* After each rewiring, reassignCosts leaves every cost the length of the way from the root.
CostsAreLengths == todo = {} => \A n \in Grown : cost[n] = cost[parent[n]] + len[n]

\* findPathToNode and the option searches go down from current_head: rewiring never moves a
\* node out of their reach, and tree_size stays the number of nodes they find.  What was
\* flown to reach the head, segment by segment, is what its cost says.
SearchIsBelowHead ==
    /\ \A S \in SUBSET (search \ {head}) : (\A n \in S : parent[n] \in S) => S = {}
    /\ \A n \in search \ {head} : parent[n] \in search
    /\ treeSize = Cardinality(search)
    /\ flown = cost[head]

\* Optimising never makes a way longer: no step raises the cost of a node.
CostsOnlyFall == [][\A n \in InTree : cost'[n] <= cost[n]]_vars

\* RRTStarRecursive and reassignCosts return.
StarReturns == pc = "star" ~> pc = "sample"
===============================================================================
