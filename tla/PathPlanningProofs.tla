------------------------- MODULE PathPlanningProofs -------------------------
(***************************************************************************)
(* The theorems of the two specifications of path planning.                *)
(*                                                                         *)
(* The tree of RRTTree stays a tree, with the costs of its paths, for any  *)
(* number of nodes, goals and tries and any lengths of curves.  The heart  *)
(* of it is lemma RewireKeepsTree.  A cycle made by moving a node below    *)
(* the sample would consist of nodes no dearer than the sample, so of      *)
(* nodes cheaper than the moved node was; but those do not need the new    *)
(* edge, and were a cycle before.                                          *)
(*                                                                         *)
(* Of the calls of Pathing, the bounds test sees excursions for any        *)
(* airspace, stride and length of path, the hover points show every        *)
(* rectangle, and the sweeps cover every convex zone.  For the sweeps, a   *)
(* line between two corners crosses at least two edges on the way round    *)
(* (Crossings), and edges that meet it in one place are the same edge,     *)
(* since no corner is between the ends of another edge (DifferentPlaces).  *)
(***************************************************************************)
EXTENDS RRTTree, Pathing, FiniteSetTheorems, TLAPS

(* Every node but the root has a parent, made before it or after it. *)
ParentsInTree == \A n \in Grown : parent[n] \in InTree

(* A node's cost is the length of its way, or, while reassignCosts has not got to it, more. *)
Costs ==
    \A n \in Grown :
        /\ cost[n] >= cost[parent[n]] + len[n]
        /\ n \notin todo => cost[n] = cost[parent[n]] + len[n]

(* RRT::run has not returned before the last goal. *)
GoalLeft == pc # "done" => goal <= Goals

IInv == TypeOK /\ ParentsInTree /\ IsTree /\ Costs /\ GoalLeft

-------------------------------------------------------------------------------
(* How a step changes the tree: a new leaf, a rewired node, a cost, or nothing. *)
LEMMA TreeChanges ==
    ASSUME [Next]_vars
    PROVE  \/ \E anchor \in search, length \in Lengths :
                  /\ Grow(anchor, length)
                  /\ ConnectToGoal(anchor, length) \/ SampleAdded(anchor, length)
           \/ \E c \in InTree, length \in Lengths : RewireEdge(c, length)
           \/ \E c \in InTree : ReassignCost(c)
           \/ UNCHANGED <<treeVars, todo>>
BY DEF Next, Star, ConnectToGoal, SampleAdded, DirectFails, SampleRejected, TriesUsed,
       ConnectFails, OpenFrame, KeepEdge, CloseFrame, StarEnds, Done, vars, starVars, treeVars

-------------------------------------------------------------------------------
(* Types. *)
LEMMA InitInv == Init => IInv
<1> SUFFICES ASSUME Init PROVE IInv
  OBVIOUS
<1>1. Grown = {}
  BY DEF Init, Grown
<1>2. TypeOK
  BY MaxNodesAssumption, GoalsAssumption, TriesAssumption
     DEF Init, TypeOK, Nodes, InTree, Grown
<1> QED
  BY <1>1, <1>2, GoalsAssumption DEF IInv, ParentsInTree, IsTree, Costs, GoalLeft, Init

TypedTree ==
    /\ size \in Nodes
    /\ parent \in [Nodes -> 0..MaxNodes]
    /\ len \in [Nodes -> Nat] /\ cost \in [Nodes -> Nat]

TypedSearch ==
    /\ skipAllowed \in BOOLEAN
    /\ search \subseteq InTree /\ head \in search
    /\ treeSize \in Nat /\ goal \in 1..(Goals + 1) /\ tries \in 0..Tries
    /\ pc \in {"direct", "sample", "star", "connect", "done"}

TypedStar ==
    /\ sample \in InTree /\ visit \subseteq InTree /\ frame \in 0..size
    /\ scan \subseteq Grown \ {sample} /\ todo \subseteq Grown

LEMMA TypeParts ==
    /\ TypeOK <=> TypedTree /\ TypedSearch /\ TypedStar
    /\ TypeOK' <=> TypedTree' /\ TypedSearch' /\ TypedStar'
BY DEF TypeOK, TypedTree, TypedSearch, TypedStar

LEMMA IntervalGrows ==
    ASSUME NEW n \in Nat, n >= 1
    PROVE  1..(n + 1) = (1..n) \cup {n + 1} /\ 2..(n + 1) = (2..n) \cup {n + 1}
OBVIOUS

\* A new leaf goes to the end of the numbering.
LEMMA GrowType ==
    ASSUME TypeOK, NEW anchor \in search, NEW length \in Lengths, Grow(anchor, length)
    PROVE  /\ TypedTree' /\ size \in Nat /\ size >= 1 /\ size' = size + 1
           /\ InTree' = InTree \cup {size + 1} /\ Grown' = Grown \cup {size + 1}
<1> USE MaxNodesAssumption, LengthsAssumption DEF TypeOK, Nodes, InTree, Grown, Grow, CostThrough
<1>1. size' \in Nodes /\ size \in Nat /\ size' = size + 1 /\ size >= 1
  OBVIOUS
<1>2. anchor \in Nodes /\ anchor \in 0..MaxNodes /\ length \in Nat
  <2>1. anchor \in 1..size /\ size \in 1..MaxNodes /\ size \in Nat /\ MaxNodes \in Nat
    OBVIOUS
  <2>2. length \in Nat
    BY LengthsAssumption
  <2> QED
    BY <2>1, <2>2
<1>3. cost[anchor] + length \in Nat
  <2>1. cost \in [Nodes -> Nat]
    OBVIOUS
  <2>2. cost[anchor] \in Nat
    BY <1>2, <2>1, Zenon
  <2>3. \A a, b \in Nat : a + b \in Nat
    OBVIOUS
  <2> QED
    BY <1>2, <2>2, <2>3, Zenon
<1>4. /\ parent' \in [Nodes -> 0..MaxNodes]
      /\ len' \in [Nodes -> Nat] /\ cost' \in [Nodes -> Nat]
  BY <1>2, <1>3
<1>5. InTree' = InTree \cup {size + 1} /\ Grown' = Grown \cup {size + 1}
  BY <1>1, IntervalGrows
<1> QED
  BY <1>1, <1>4, <1>5 DEF TypedTree

LEMMA TypePreserved ==
    ASSUME TypeOK, ParentsInTree, GoalLeft, [Next]_vars
    PROVE  TypeOK' /\ GoalLeft'
<1> USE MaxNodesAssumption, GoalsAssumption, TriesAssumption
    DEF starVars, treeVars, headVars, GoalLeft
<1>0. TypedTree /\ TypedSearch /\ TypedStar
  BY TypeParts
<1>1. ASSUME NEW anchor \in search, NEW length \in Lengths, ConnectToGoal(anchor, length)
      PROVE  TypeOK' /\ GoalLeft'
  <2>1. Grow(anchor, length)
    BY <1>1 DEF ConnectToGoal
  <2>2. size + 1 \in InTree' /\ InTree \subseteq InTree' /\ Grown \subseteq Grown' /\ TypedTree'
    BY <2>1, GrowType
  <2>3. goal' \in 1..(Goals + 1) /\ pc' \in {"direct", "done"} /\ GoalLeft'
    BY <1>0, <1>1 DEF ConnectToGoal, NextGoal, TypedSearch
  <2>4. TypedSearch'
    BY <1>0, <1>1, <2>2, <2>3 DEF ConnectToGoal, ResetTreeSize, TypedSearch
  <2>5. frame \in 0..size'
    BY <1>0, <2>1, GrowType DEF TypedStar
  <2>6. TypedStar'
    BY <1>0, <1>1, <2>2, <2>5 DEF ConnectToGoal, TypedStar
  <2> QED
    BY <2>2, <2>3, <2>4, <2>6, TypeParts
<1>2. ASSUME NEW anchor \in search, NEW length \in Lengths, SampleAdded(anchor, length)
      PROVE  TypeOK' /\ GoalLeft'
  <2>1. Grow(anchor, length)
    BY <1>2 DEF SampleAdded
  <2>2. size + 1 \in InTree' /\ InTree \subseteq InTree' /\ Grown \subseteq Grown' /\ TypedTree'
    BY <2>1, GrowType
  <2>3. search' \subseteq InTree' /\ head' \in search' /\ treeSize' \in Nat /\ tries' \in 0..Tries
    BY <1>0, <1>2, <2>2 DEF SampleAdded, TypedSearch
  <2>4. TypedSearch' /\ GoalLeft'
    BY <1>0, <1>2, <2>3 DEF SampleAdded, TypedSearch
  <2>5. frame \in 0..size' /\ size + 1 \notin Grown /\ head \in InTree
    BY <1>0, <2>1, GrowType DEF TypedStar, TypedSearch, Grown
  <2>6. TypedStar'
    BY <1>0, <1>2, <2>2, <2>5 DEF SampleAdded, TypedStar
  <2> QED
    BY <2>2, <2>4, <2>6, TypeParts
<1>3. ASSUME NEW c \in InTree, NEW length \in Lengths, RewireEdge(c, length)
      PROVE  TypeOK' /\ GoalLeft'
  <2>1. /\ length \in Nat /\ c \in Nodes /\ sample \in Nodes /\ sample \in 0..MaxNodes
        /\ InTree' = InTree /\ Grown' = Grown
    BY <1>0, <1>3, LengthsAssumption DEF RewireEdge, TypedTree, TypedStar, InTree, Grown, Nodes
  <2>2. cost[sample] + length \in Nat
    BY <1>0, <2>1 DEF TypedTree
  <2>3. TypedTree'
    BY <1>0, <1>3, <2>1, <2>2 DEF RewireEdge, CostThrough, TypedTree
  <2>4. TypedSearch' /\ GoalLeft'
    BY <1>0, <1>3, <2>1 DEF RewireEdge, TypedSearch
  <2>5. TypedStar'
    BY <1>0, <1>3, <2>1 DEF RewireEdge, CostsToReassign, Children, TypedStar
  <2> QED
    BY <2>3, <2>4, <2>5, TypeParts
<1>4. ASSUME NEW c \in InTree, ReassignCost(c)
      PROVE  TypeOK' /\ GoalLeft'
  <2>1. parent[c] \in Nodes /\ c \in Nodes /\ InTree' = InTree /\ Grown' = Grown
    BY <1>0, <1>4 DEF ReassignCost, ParentsInTree, TypedStar, TypedTree, InTree, Grown, Nodes
  <2>2. cost[parent[c]] + len[c] \in Nat
    BY <1>0, <2>1 DEF TypedTree
  <2>3. TypedTree'
    BY <1>0, <1>4, <2>2 DEF ReassignCost, TypedTree
  <2>4. TypedSearch' /\ GoalLeft'
    BY <1>0, <1>4, <2>1 DEF ReassignCost, TypedSearch
  <2>5. TypedStar'
    BY <1>0, <1>4, <2>1 DEF ReassignCost, Children, TypedStar
  <2> QED
    BY <2>3, <2>4, <2>5, TypeParts
<1>5. ASSUME DirectFails \/ SampleRejected \/ TriesUsed \/ ConnectFails
      PROVE  TypeOK' /\ GoalLeft'
  <2>1. InTree' = InTree /\ Grown' = Grown /\ TypedTree' /\ TypedStar'
    BY <1>0, <1>5 DEF DirectFails, SampleRejected, TriesUsed, ConnectFails, InTree, Grown,
                      TypedTree, TypedStar
  <2>2. CASE DirectFails \/ SampleRejected \/ TriesUsed
    BY <1>0, <2>1, <2>2, TypeParts DEF DirectFails, SampleRejected, TriesUsed, TypedSearch
  <2>3. CASE ConnectFails
    BY <1>0, <2>1, <2>3, TypeParts DEF ConnectFails, NextGoal, TypedSearch
  <2> QED
    BY <1>5, <2>2, <2>3
<1>6. ASSUME \/ \E n \in InTree : OpenFrame(n) \/ KeepEdge(n)
             \/ CloseFrame \/ StarEnds \/ UNCHANGED vars
      PROVE  TypeOK' /\ GoalLeft'
  <2>1. InTree' = InTree /\ Grown' = Grown /\ TypedTree'
    BY <1>0, <1>6 DEF OpenFrame, KeepEdge, CloseFrame, StarEnds, vars, InTree, Grown, TypedTree
  <2>2. TypedSearch' /\ GoalLeft'
    BY <1>0, <1>6, <2>1 DEF OpenFrame, KeepEdge, CloseFrame, StarEnds, vars, TypedSearch
  <2>3. /\ size \in Nat /\ 0 \in 0..size /\ \A n \in InTree : n \in 0..size
        /\ \A n \in Nodes : Children(n) \subseteq InTree /\ Children(n) \subseteq Grown
        /\ InTree \subseteq Nodes /\ Children(frame) \subseteq InTree
    BY <1>0 DEF TypedTree, InTree, Grown, Nodes, Children
  <2>4. TypedStar'
    BY <1>0, <1>6, <2>1, <2>3 DEF OpenFrame, KeepEdge, CloseFrame, StarEnds, Recurse, vars,
                                  TypedStar
  <2> QED
    BY <2>1, <2>2, <2>4, TypeParts
<1> QED
  BY <1>1, <1>2, <1>3, <1>4, <1>5, <1>6 DEF Next, Star, Done

\* Where the numbers of nodes lie.
LEMMA NodeSets ==
    ASSUME TypeOK
    PROVE  /\ size \in Nat /\ size >= 1 /\ InTree \subseteq Nodes /\ Grown \subseteq InTree
           /\ size + 1 \notin InTree /\ search \subseteq InTree
           /\ \A n \in Nodes : cost[n] \in Nat /\ len[n] \in Nat
<1>1. size \in Nat /\ size >= 1 /\ size <= MaxNodes
  BY MaxNodesAssumption DEF TypeOK, Nodes
<1> QED
  BY <1>1, MaxNodesAssumption DEF TypeOK, InTree, Grown, Nodes

-------------------------------------------------------------------------------
(* The costs. *)

\* Growing: the new leaf is nobody's parent, and gets its cost from its anchor.
LEMMA GrowCosts ==
    ASSUME TypeOK, ParentsInTree, Costs, NEW anchor \in search, NEW length \in Lengths,
           Grow(anchor, length), todo' = todo
    PROVE  ParentsInTree' /\ Costs'
<1>1. /\ InTree' = InTree \cup {size + 1} /\ Grown' = Grown \cup {size + 1}
      /\ size \in Nat /\ size >= 1 /\ size + 1 \in Nodes /\ anchor \in InTree
  BY GrowType DEF TypedTree, TypeOK
<1>2. length \in Nat /\ InTree \subseteq Nodes /\ Grown \subseteq Nodes /\ size + 1 \notin InTree
      /\ size + 1 \notin Grown /\ anchor # size + 1
  BY <1>1, NodeSets, LengthsAssumption
<1>3. /\ parent'[size + 1] = anchor /\ len'[size + 1] = length
      /\ cost'[size + 1] = cost[anchor] + length
      /\ \A n \in Nodes \ {size + 1} :
             parent'[n] = parent[n] /\ len'[n] = len[n] /\ cost'[n] = cost[n]
  BY <1>1, <1>2 DEF Grow, CostThrough, TypeOK
<1>4. ParentsInTree'
  BY <1>1, <1>2, <1>3 DEF ParentsInTree
<1>5. ASSUME NEW n \in Grown
      PROVE  /\ cost'[n] = cost[n] /\ len'[n] = len[n] /\ parent'[n] = parent[n]
             /\ cost'[parent'[n]] = cost[parent[n]]
  BY <1>2, <1>3 DEF ParentsInTree
<1>6. cost[anchor] \in Nat /\ cost'[anchor] = cost[anchor]
  BY <1>2, <1>3 DEF TypeOK
<1> QED
  BY <1>1, <1>2, <1>3, <1>4, <1>5, <1>6 DEF Costs

\* Rewiring: a child gets cheaper, its own children have to follow.
LEMMA RewireCosts ==
    ASSUME TypeOK, ParentsInTree, IsTree, Costs, NEW c \in InTree, NEW length \in Lengths,
           RewireEdge(c, length)
    PROVE  ParentsInTree' /\ Costs' /\ cost'[c] < cost[c]
<1>1. /\ InTree' = InTree /\ Grown' = Grown /\ c \in Grown /\ c # sample /\ sample \in InTree
      /\ InTree \subseteq Nodes /\ Grown \subseteq InTree /\ length \in Nat
  BY NodeSets, LengthsAssumption DEF RewireEdge, TypeOK, InTree, Grown
<1>2. /\ parent'[c] = sample /\ len'[c] = length /\ cost'[c] = cost[sample] + length
      /\ \A n \in Nodes \ {c} :
             parent'[n] = parent[n] /\ len'[n] = len[n] /\ cost'[n] = cost[n]
      /\ cost'[c] < cost[c] /\ todo = {} /\ todo' = Children(c)
  BY <1>1 DEF RewireEdge, Competitive, CostThrough, CostsToReassign, TypeOK
<1>3. ParentsInTree'
  BY <1>1, <1>2 DEF ParentsInTree
<1>4. \A n \in Grown : cost[n] = cost[parent[n]] + len[n]
  BY <1>2 DEF Costs
<1>5. \A n \in Nodes : cost[n] \in Nat /\ len[n] \in Nat
  BY DEF TypeOK
<1>6. ASSUME NEW n \in Grown, n # c
      PROVE  /\ cost'[n] >= cost'[parent'[n]] + len'[n]
             /\ n \notin todo' => cost'[n] = cost'[parent'[n]] + len'[n]
  <2>1. parent'[n] = parent[n] /\ cost'[n] = cost[n] /\ len'[n] = len[n] /\ parent[n] \in Nodes
    BY <1>1, <1>2, <1>6 DEF ParentsInTree
  <2>2. CASE parent[n] = c
    <3>1. cost'[c] \in Nat /\ cost[n] = cost[c] + len[n] /\ n \in todo'
      BY <1>1, <1>2, <1>4, <1>5, <2>2 DEF Children
    <3> QED
      BY <1>1, <1>2, <1>5, <2>1, <2>2, <3>1
  <2>3. CASE parent[n] # c
    <3>1. cost'[parent[n]] = cost[parent[n]] /\ cost[n] = cost[parent[n]] + len[n]
      BY <1>2, <1>4, <2>1, <2>3
    <3>2. cost[n] \in Nat /\ cost[parent[n]] \in Nat /\ len[n] \in Nat
      BY <1>1, <1>5, <2>1
    <3> QED
      BY <2>1, <3>1, <3>2
  <2> QED
    BY <2>2, <2>3
<1>7. cost'[c] = cost'[parent'[c]] + len'[c]
  BY <1>1, <1>2
<1>8. cost'[c] \in Nat
  BY <1>1, <1>2, <1>5
<1> QED
  BY <1>1, <1>2, <1>3, <1>6, <1>7, <1>8 DEF Costs

\* Reassigning: a node is brought down to its parent, its children have to follow.
LEMMA ReassignCosts ==
    ASSUME TypeOK, ParentsInTree, IsTree, Costs, NEW c \in InTree, ReassignCost(c)
    PROVE  ParentsInTree' /\ Costs' /\ cost'[c] <= cost[c]
<1>1. /\ InTree' = InTree /\ Grown' = Grown /\ c \in Grown /\ parent[c] \in InTree
      /\ InTree \subseteq Nodes /\ Grown \subseteq InTree
  BY NodeSets DEF ReassignCost, ParentsInTree, TypeOK, InTree, Grown
<1>2. parent[c] # c
  <2>1. {c} \in SUBSET Grown
    BY <1>1
  <2> QED
    BY <2>1 DEF IsTree
<1>3. /\ parent' = parent /\ len' = len /\ cost'[c] = cost[parent[c]] + len[c]
      /\ \A n \in Nodes \ {c} : cost'[n] = cost[n]
      /\ todo' = (todo \ {c}) \cup Children(c)
  BY <1>1 DEF ReassignCost, TypeOK
<1>4. \A n \in Nodes : cost[n] \in Nat /\ len[n] \in Nat
  BY DEF TypeOK
<1>5. cost'[c] <= cost[c] /\ cost'[c] \in Nat
  BY <1>1, <1>3, <1>4 DEF Costs
<1>6. ASSUME NEW n \in Grown, n # c
      PROVE  /\ cost'[n] >= cost'[parent[n]] + len[n]
             /\ n \notin todo' => cost'[n] = cost'[parent[n]] + len[n]
  <2>1. cost'[n] = cost[n] /\ parent[n] \in Nodes /\ cost[n] \in Nat /\ len[n] \in Nat
    BY <1>1, <1>3, <1>4, <1>6 DEF ParentsInTree
  <2>2. cost[n] >= cost[parent[n]] + len[n]
    BY DEF Costs
  <2>3. CASE parent[n] = c
    <3>1. n \in todo'
      BY <1>3, <2>3 DEF Children
    <3> QED
      BY <1>1, <1>4, <1>5, <2>1, <2>2, <2>3, <3>1
  <2>4. CASE parent[n] # c
    <3>1. n \notin todo' => n \notin todo
      BY <1>3, <1>6
    <3> QED
      BY <1>3, <2>1, <2>2, <2>4, <3>1 DEF Costs
  <2> QED
    BY <2>3, <2>4
<1>7. cost'[c] = cost'[parent[c]] + len[c]
  BY <1>1, <1>2, <1>3
<1> QED
  BY <1>1, <1>3, <1>5, <1>6, <1>7 DEF Costs, ParentsInTree

-------------------------------------------------------------------------------
(* The tree. *)

LEMMA GrowKeepsTree ==
    ASSUME TypeOK, ParentsInTree, IsTree, NEW anchor \in search, NEW length \in Lengths,
           Grow(anchor, length)
    PROVE  IsTree'
<1>1. /\ Grown' = Grown \cup {size + 1} /\ size + 1 \notin InTree /\ size + 1 \in Nodes
      /\ Grown \subseteq Nodes /\ anchor \in InTree /\ size + 1 \notin Grown
  BY GrowType, NodeSets DEF TypedTree
<1>2. parent'[size + 1] = anchor /\ \A n \in Grown : parent'[n] = parent[n]
  BY <1>1 DEF Grow, TypeOK
<1> SUFFICES ASSUME NEW S \in SUBSET Grown', \A n \in S : parent'[n] \in S
             PROVE  S = {}
  BY DEF IsTree
<1> DEFINE T == S \ {size + 1}
<1>3. T \subseteq Grown /\ \A n \in T : parent[n] \in T
  BY <1>1, <1>2 DEF ParentsInTree
<1>4. T = {}
  BY <1>3 DEF IsTree
<1>5. size + 1 \notin S
  BY <1>1, <1>2, <1>4
<1> QED
  BY <1>4, <1>5

\* A cycle through the new edge would hold a cycle without it, of its cheapest nodes.
LEMMA RewireKeepsTree ==
    ASSUME TypeOK, ParentsInTree, IsTree, Costs, NEW c \in InTree, NEW length \in Lengths,
           RewireEdge(c, length)
    PROVE  IsTree'
<1>1. /\ Grown' = Grown /\ c \in Grown /\ sample \in InTree /\ todo = {}
      /\ InTree \subseteq Nodes /\ Grown \subseteq InTree /\ length \in Nat
  BY NodeSets, LengthsAssumption DEF RewireEdge, TypeOK, InTree, Grown
<1>2. /\ parent'[c] = sample /\ \A n \in Grown \ {c} : parent'[n] = parent[n]
      /\ cost[sample] + length < cost[c]
  BY <1>1 DEF RewireEdge, Competitive, CostThrough, TypeOK
<1>3. \A n \in Nodes : cost[n] \in Nat /\ len[n] \in Nat
  BY DEF TypeOK
<1> SUFFICES ASSUME NEW S \in SUBSET Grown, \A n \in S : parent'[n] \in S
             PROVE  S = {}
  BY <1>1 DEF IsTree
<1> DEFINE T == {n \in S : cost[n] < cost[c]}
<1>4. c \notin T
  BY <1>1, <1>3
<1>5. ASSUME NEW n \in T
      PROVE  parent[n] \in T
  <2>1. n \in Grown /\ n # c /\ parent[n] \in S /\ parent[n] \in InTree
    BY <1>2, <1>4 DEF ParentsInTree
  <2>2. cost[n] >= cost[parent[n]] + len[n]
    BY <2>1 DEF Costs
  <2> QED
    BY <1>1, <1>3, <2>1, <2>2
<1>6. T = {}
  BY <1>5 DEF IsTree
<1>7. c \notin S
  <2>1. cost[sample] < cost[c]
    BY <1>1, <1>2, <1>3
  <2> QED
    BY <1>2, <1>6, <2>1
<1>8. \A n \in S : parent[n] \in S
  BY <1>2, <1>7
<1> QED
  BY <1>8 DEF IsTree

-------------------------------------------------------------------------------
(* The inductive invariant, and what follows from it. *)

LEMMA StepKeepsInv ==
    ASSUME IInv, [Next]_vars
    PROVE  IInv' /\ \A n \in InTree : cost'[n] <= cost[n]
<1> USE DEF IInv
<1>0. TypeOK' /\ GoalLeft'
  BY TypePreserved
<1>1. InTree \subseteq Nodes /\ \A n \in Nodes : cost[n] \in Nat
  BY NodeSets
<1>2. ASSUME NEW anchor \in search, NEW length \in Lengths, Grow(anchor, length),
             ConnectToGoal(anchor, length) \/ SampleAdded(anchor, length)
      PROVE  IInv' /\ \A n \in InTree : cost'[n] <= cost[n]
  <2>1. todo' = todo
    BY <1>2 DEF ConnectToGoal, SampleAdded, starVars
  <2>2. \A n \in InTree : cost'[n] = cost[n]
    BY <1>1, <1>2, GrowType DEF Grow, TypeOK, InTree, Nodes
  <2> QED
    BY <1>0, <1>1, <1>2, <2>1, <2>2, GrowCosts, GrowKeepsTree
<1>3. ASSUME NEW c \in InTree, NEW length \in Lengths, RewireEdge(c, length)
      PROVE  IInv' /\ \A n \in InTree : cost'[n] <= cost[n]
  <2>1. cost'[c] < cost[c] /\ cost'[c] \in Nat
    BY <1>0, <1>1, <1>3, RewireCosts DEF TypeOK
  <2>2. \A n \in InTree : n # c => cost'[n] = cost[n]
    BY <1>1, <1>3 DEF RewireEdge, TypeOK
  <2>3. \A n \in InTree : cost'[n] <= cost[n]
    BY <1>1, <2>1, <2>2
  <2> QED
    BY <1>0, <1>3, <2>3, RewireCosts, RewireKeepsTree
<1>4. ASSUME NEW c \in InTree, ReassignCost(c)
      PROVE  IInv' /\ \A n \in InTree : cost'[n] <= cost[n]
  <2>1. cost'[c] <= cost[c]
    BY <1>4, ReassignCosts
  <2>2. \A n \in InTree : n # c => cost'[n] = cost[n]
    BY <1>1, <1>4 DEF ReassignCost, TypeOK
  <2>3. \A n \in InTree : cost'[n] <= cost[n]
    BY <1>1, <2>1, <2>2
  <2>4. IsTree'
    BY <1>4 DEF ReassignCost, IsTree, Grown
  <2> QED
    BY <1>0, <1>4, <2>3, <2>4, ReassignCosts
<1>5. CASE UNCHANGED <<treeVars, todo>>
  <2>1. ParentsInTree' /\ IsTree' /\ Costs' /\ cost' = cost
    BY <1>5 DEF treeVars, ParentsInTree, IsTree, Costs, InTree, Grown
  <2> QED
    BY <1>0, <1>1, <2>1
<1> QED
  BY <1>2, <1>3, <1>4, <1>5, TreeChanges

\* Every reachable tree satisfies IInv.
THEOREM Inductive == Spec => []IInv
<1>1. IInv /\ [Next]_vars => IInv'
  BY StepKeepsInv
<1> QED
  BY <1>1, InitInv, PTL DEF Spec

\* The nodes, their numbering and the frames of the recursion keep their types.
THEOREM TypeCorrect == Spec => []TypeOK
<1>1. IInv => TypeOK
  BY DEF IInv
<1> QED
  BY <1>1, Inductive, PTL

\* addNode and rewireEdge keep the tree a tree, for any lengths, zero included: the strict
\* comparison of costs is all it takes.
THEOREM TreeStaysTree == Spec => []IsTree
<1>1. IInv => IsTree
  BY DEF IInv
<1> QED
  BY <1>1, Inductive, PTL

\* With reassignCosts done, every cost is the length of the way from the root.
THEOREM CostsStayLengths == Spec => []CostsAreLengths
<1>1. IInv => CostsAreLengths
  BY DEF IInv, Costs, CostsAreLengths
<1> QED
  BY <1>1, Inductive, PTL

\* No step of the search makes a way that is known longer.
THEOREM CostsNeverRise == Spec => CostsOnlyFall
<1>1. IInv /\ [Next]_vars => \A n \in InTree : cost'[n] <= cost[n]
  BY StepKeepsInv
<1>2. IInv /\ [Next]_vars => [\A n \in InTree : cost'[n] <= cost[n]]_vars
  BY <1>1
<1> QED
  BY <1>2, Inductive, PTL DEF Spec, CostsOnlyFall

-------------------------------------------------------------------------------
(* The search below the head. *)

(* The nodes of the search are the head and all that hangs below them. *)
Below ==
    /\ \A c \in Grown : parent[c] \in search <=> c \in search \ {head}
    /\ 1 \in search => head = 1
    /\ treeSize = Cardinality(search)
    /\ flown = cost[head]

(* The recursions over the tree stay in the search. *)
Recursions ==
    /\ pc = "star" => /\ sample \in search \ {head} /\ scan \subseteq search \ {head}
                      /\ visit \subseteq search /\ frame \in search \cup {0}
    /\ todo \subseteq search \ {head}
    /\ pc # "star" => todo = {} /\ frame = 0
    /\ frame = 0 => scan = {}

(* A node's way from the head is what its cost is more than the head's.  The function
   SegmentLength is one that satisfies its equation, because the difference of the costs
   does; two that satisfy it differ on a set of nodes that contains its parents. *)
LEMMA SegmentIsCost ==
    ASSUME IInv, Below, todo = {}
    PROVE  \A n \in search : SegmentLength[n] = cost[n] - cost[head]
<1> DEFINE Step(f) == [n \in search |-> IF n = head THEN 0 ELSE f[parent[n]] + len[n]]
           diff == [n \in search |-> cost[n] - cost[head]]
<1>1. /\ head \in search /\ search \subseteq Nodes
      /\ \A n \in Nodes : cost[n] \in Nat /\ len[n] \in Nat
  BY NodeSets DEF IInv, TypeOK
<1>2. \A n \in search \ {head} :
        n \in Grown /\ parent[n] \in search /\ cost[n] = cost[parent[n]] + len[n]
  <2> TAKE n \in search \ {head}
  <2>1. n \in Grown
    BY MaxNodesAssumption DEF IInv, TypeOK, Below, Grown, InTree, Nodes
  <2> QED
    BY <2>1 DEF IInv, Below, Costs
<1>3. diff = Step(diff)
  <2>1. ASSUME NEW n \in search
        PROVE  diff[n] = IF n = head THEN 0 ELSE diff[parent[n]] + len[n]
    <3>1. CASE n = head
      BY <1>1, <3>1
    <3>2. CASE n # head
      BY <1>1, <1>2, <3>2
    <3> QED
      BY <3>1, <3>2
  <2> QED
    BY <2>1
<1>4. SegmentLength = Step(SegmentLength)
  <2> HIDE DEF diff
  <2> QED
    BY <1>3 DEF SegmentLength
<1>5. \A n \in search :
        SegmentLength[n] = IF n = head THEN 0 ELSE SegmentLength[parent[n]] + len[n]
  BY <1>4
<1> HIDE DEF Step
<1> DEFINE S == {n \in search \ {head} : SegmentLength[n] # diff[n]}
<1>6. SegmentLength[head] = diff[head]
  BY <1>1, <1>5
<1>7. \A n \in S : parent[n] \in S
  <2> SUFFICES ASSUME NEW n \in S PROVE parent[n] \in S
    OBVIOUS
  <2>1. /\ n \in search /\ n # head /\ parent[n] \in search
        /\ SegmentLength[n] = SegmentLength[parent[n]] + len[n]
        /\ cost[n] = cost[parent[n]] + len[n]
    BY <1>2, <1>5
  <2>2. SegmentLength[parent[n]] # diff[parent[n]]
    <3>1. diff[n] = diff[parent[n]] + len[n]
      BY <1>1, <2>1
    <3> QED
      BY <2>1, <3>1
  <2> QED
    BY <2>1, <2>2, <1>6
<1>8. S = {}
  <2>1. S \in SUBSET Grown
    BY <1>2
  <2> QED
    BY <2>1, <1>7 DEF IInv, IsTree
<1> QED
  BY <1>6, <1>8

\* What a new leaf changes.
LEMMA GrowLeaf ==
    ASSUME IInv, NEW anchor \in search, NEW length \in Lengths, Grow(anchor, length)
    PROVE  /\ size \in Nat /\ size >= 1 /\ size' = size + 1 /\ size + 1 \notin InTree
           /\ Grown' = Grown \cup {size + 1} /\ anchor \in InTree /\ length \in Nat
           /\ parent'[size + 1] = anchor /\ cost'[size + 1] = cost[anchor] + length
           /\ \A n \in InTree : cost'[n] = cost[n]
           /\ \A n \in Grown : n \in InTree /\ parent'[n] = parent[n] /\ parent[n] \in InTree
<1> USE DEF IInv
<1>1. size \in Nat /\ size >= 1 /\ size < MaxNodes /\ size' = size + 1 /\ size + 1 \notin InTree
  BY NodeSets DEF Grow
<1>2. size + 1 \in Nodes /\ InTree \subseteq Nodes /\ anchor \in InTree /\ length \in Nat
  BY <1>1, NodeSets, MaxNodesAssumption, LengthsAssumption DEF Nodes
<1>3. /\ parent' = [parent EXCEPT ![size + 1] = anchor] /\ parent \in [Nodes -> 0..MaxNodes]
      /\ cost' = [cost EXCEPT ![size + 1] = cost[anchor] + length] /\ cost \in [Nodes -> Nat]
  BY DEF Grow, CostThrough, TypeOK
<1>4. \A n \in InTree : n # size + 1
  BY <1>1
<1>5. \A n \in Grown : n \in InTree /\ parent[n] \in InTree
  BY NodeSets DEF ParentsInTree
<1> QED
  BY <1>1, <1>2, <1>3, <1>4, <1>5, GrowType

LEMMA InitBelow == Init => Below /\ Recursions
<1> SUFFICES ASSUME Init PROVE Below /\ Recursions
  OBVIOUS
<1>1. Grown = {} /\ 1 \in Nodes
  BY MaxNodesAssumption DEF Init, Grown, Nodes
<1> QED
  BY <1>1, FS_Singleton DEF Init, Below, Recursions

LEMMA ConnectKeepsBelow ==
    ASSUME IInv, Below, Recursions, NEW anchor \in search, NEW length \in Lengths,
           ConnectToGoal(anchor, length)
    PROVE  Below' /\ Recursions'
<1>0. Grow(anchor, length) /\ todo = {} /\ pc # "star"
  BY DEF ConnectToGoal, Recursions
<1>3. head' = size + 1 /\ search' = {size + 1} /\ treeSize' = 1
  BY DEF ConnectToGoal, ResetTreeSize
<1>4. cost'[size + 1] = cost[anchor] + length /\ length \in Nat /\ anchor \in Nodes
  BY <1>0, GrowLeaf, NodeSets DEF IInv
<1>5. flown' = cost[anchor] + length
  <2>1. SegmentLength[anchor] = cost[anchor] - cost[head]
    BY <1>0, SegmentIsCost
  <2>2. cost[anchor] \in Nat /\ cost[head] \in Nat /\ flown = cost[head]
    BY NodeSets DEF IInv, TypeOK, Below
  <2>3. flown' = flown + SegmentLength[anchor] + length
    BY DEF ConnectToGoal
  <2> QED
    BY <2>1, <2>2, <2>3, <1>4
<1>6. Below'
  <2>1. \A c \in Grown' : parent'[c] \in InTree
    BY <1>0, GrowLeaf
  <2>2. \A c \in Grown' : ~(parent'[c] \in search') /\ ~(c \in search' \ {head'})
    BY <1>0, <1>3, <2>1, GrowLeaf
  <2>3. 1 \notin search' \/ head' = 1
    BY <1>3
  <2>4. treeSize' = Cardinality(search')
    BY <1>3, FS_Singleton
  <2> QED
    BY <1>3, <1>4, <1>5, <2>2, <2>3, <2>4 DEF Below
<1>7. Recursions'
  BY <1>0 DEF ConnectToGoal, NextGoal, Recursions, starVars
<1> QED
  BY <1>6, <1>7

LEMMA SampleKeepsBelow ==
    ASSUME IInv, Below, Recursions, NEW anchor \in search, NEW length \in Lengths,
           SampleAdded(anchor, length)
    PROVE  Below' /\ Recursions'
<1>0. Grow(anchor, length) /\ todo = {}
  BY DEF SampleAdded, Recursions
<1>1. search \subseteq InTree /\ head \in search /\ size + 1 \notin InTree /\ size + 1 # 1
  BY <1>0, GrowLeaf, NodeSets DEF IInv, TypeOK
<1>4. search' = search \cup {size + 1} /\ head' = head /\ flown' = flown /\ treeSize' = treeSize + 1
  BY DEF SampleAdded
<1>5. Cardinality(search') = Cardinality(search) + 1
  <2>1. IsFiniteSet(search)
    <3>1. IsFiniteSet(1..size)
      BY FS_Interval, NodeSets DEF IInv
    <3> QED
      BY <1>1, <3>1, FS_Subset DEF InTree
  <2>2. size + 1 \notin search
    BY <1>1
  <2> QED
    BY <1>4, <2>1, <2>2, FS_AddElement
<1>6. Below'
  <2>1. \A c \in Grown' : parent'[c] \in search' <=> c \in search' \ {head'}
    BY <1>0, <1>1, <1>4, GrowLeaf DEF Below
  <2>2. cost'[head'] = cost[head]
    BY <1>0, <1>1, <1>4, GrowLeaf
  <2> QED
    BY <1>1, <1>4, <1>5, <2>1, <2>2 DEF Below
<1>7. Recursions'
  <2>1. sample' = size + 1 /\ visit' = {head} /\ scan' = scan /\ frame' = frame /\ todo' = todo /\ pc' = "star"
    BY DEF SampleAdded
  <2> QED
    BY <1>0, <1>1, <1>4, <2>1 DEF Recursions
<1> QED
  BY <1>6, <1>7

LEMMA StepKeepsBelow ==
    ASSUME IInv, Below, Recursions, [Next]_vars
    PROVE  Below' /\ Recursions'
<1> USE DEF IInv
<1>0. /\ parent \in [Nodes -> 0..MaxNodes] /\ cost \in [Nodes -> Nat] /\ InTree \subseteq Nodes
      /\ head \in search /\ search \subseteq InTree /\ Grown \subseteq InTree
  BY NodeSets DEF TypeOK
<1>1. \A n \in search : Children(n) \subseteq search \ {head}
  BY DEF Children, Below
<1>2. ASSUME NEW anchor \in search, NEW length \in Lengths,
             ConnectToGoal(anchor, length) \/ SampleAdded(anchor, length)
      PROVE  Below' /\ Recursions'
  BY <1>2, ConnectKeepsBelow, SampleKeepsBelow
<1>3. ASSUME NEW c \in InTree, NEW length \in Lengths, RewireEdge(c, length)
      PROVE  Below' /\ Recursions'
  <2>1. c \in search \ {head} /\ sample \in search
    BY <1>3 DEF RewireEdge, Recursions
  <2>2. /\ \A n \in Nodes : parent'[n] = IF n = c THEN sample ELSE parent[n]
        /\ cost'[head] = cost[head]
    BY <1>0, <1>3, <2>1 DEF RewireEdge
  <2>3. Below'
    BY <1>0, <1>3, <2>1, <2>2 DEF RewireEdge, headVars, Below, Grown
  <2>4. todo' \subseteq search \ {head}
    BY <1>1, <1>3, <2>1 DEF RewireEdge, CostsToReassign
  <2> QED
    BY <1>3, <2>3, <2>4 DEF RewireEdge, headVars, Recursions
<1>4. ASSUME NEW c \in InTree, ReassignCost(c)
      PROVE  Below' /\ Recursions'
  <2>1. c \in search \ {head} /\ todo' \subseteq search \ {head} /\ pc = "star"
    BY <1>1, <1>4 DEF ReassignCost, Recursions
  <2>2. cost'[head] = cost[head]
    BY <1>0, <1>4, <2>1 DEF ReassignCost
  <2>3. Below'
    BY <1>4, <2>2 DEF ReassignCost, headVars, Below, Grown
  <2> QED
    BY <1>4, <2>1, <2>3 DEF ReassignCost, headVars, Recursions
<1>5. ASSUME NEW n \in InTree, OpenFrame(n)
      PROVE  Below' /\ Recursions'
  <2>1. n \in search /\ n # 0
    BY <1>5 DEF OpenFrame, Recursions, InTree
  <2>2. Below'
    BY <1>5 DEF OpenFrame, headVars, treeVars, Below, Grown
  <2> QED
    BY <1>1, <1>5, <2>1, <2>2 DEF OpenFrame, headVars, Recursions
<1>6. CASE CloseFrame
  <2>1. Recurse \subseteq search
    BY <1>1, <1>6 DEF CloseFrame, Recurse, Recursions
  <2>2. Below'
    BY <1>6 DEF CloseFrame, headVars, treeVars, Below, Grown
  <2> QED
    BY <1>6, <2>1, <2>2 DEF CloseFrame, headVars, Recursions
<1>7. ASSUME NEW c \in InTree, KeepEdge(c)
      PROVE  Below' /\ Recursions'
  BY <1>7 DEF KeepEdge, headVars, treeVars, Below, Recursions, Grown
<1>8. CASE StarEnds
  BY <1>8 DEF StarEnds, headVars, treeVars, starVars, Below, Recursions, Grown
<1>9. CASE DirectFails \/ SampleRejected \/ TriesUsed \/ ConnectFails
  BY <1>9 DEF DirectFails, SampleRejected, TriesUsed, ConnectFails, NextGoal,
     headVars, treeVars, starVars, Below, Recursions, Grown
<1>10. CASE UNCHANGED vars
  BY <1>10 DEF vars, headVars, treeVars, starVars, Below, Recursions, Grown
<1> QED
  BY <1>2, <1>3, <1>4, <1>5, <1>6, <1>7, <1>8, <1>9, <1>10 DEF Next, Star, Done

\* Whatever is rewired, findPathToNode and the searches for anchors see exactly the nodes
\* below current_head, tree_size counts them, and the flight path is as long as its cost.
THEOREM SearchStaysBelowHead == Spec => []SearchIsBelowHead
<1>1. IInv /\ Below => SearchIsBelowHead
  <2> SUFFICES ASSUME IInv, Below PROVE SearchIsBelowHead
    OBVIOUS
  <2>1. search \ {head} \subseteq Grown
    BY MaxNodesAssumption DEF IInv, TypeOK, Below, Grown, InTree, Nodes
  <2> QED
    BY <2>1 DEF IInv, IsTree, Below, SearchIsBelowHead
<1>2. IInv /\ (Below /\ Recursions) /\ [Next]_vars => (Below /\ Recursions)'
  BY StepKeepsBelow
<1>3. Init => Below /\ Recursions
  BY InitBelow
<1> QED
  BY <1>1, <1>2, <1>3, Inductive, PTL DEF Spec

-------------------------------------------------------------------------------
(* The calls. *)

LEMMA OtherCalls ==
    ASSUME NextCall
    PROVE  /\ CheckPath \/ call'.op # "path"
           /\ PlanSweeps \/ call'.op # "sweeps"
           /\ PlanHover \/ call'.op # "hover"
<1>1. CASE PlanSweeps
  BY <1>1 DEF PlanSweeps
<1>2. CASE CheckPath
  <2>1. PICK n \in 1..MaxPath, out \in Outside : \E excursions \in SUBSET (1..n) :
          call' = [op |-> "path", path |-> [i \in 1..n |-> IF i \in excursions THEN out ELSE InBounds]]
    BY <1>2 DEF CheckPath
  <2>2. call'.op = "path"
    BY <2>1
  <2> QED
    BY <1>2, <2>2
<1>3. CASE PlanHover
  <2>1. call'.op = "hover"
    BY <1>3 DEF PlanHover
  <2> QED
    BY <1>3, <2>1
<1>4. CASE PlanLsl \/ PlanRsr \/ PlanLsr \/ PlanRsl \/ PlanLrl \/ PlanRlr
  BY <1>4 DEF PlanLsl, PlanRsr, PlanLsr, PlanRsl, PlanLrl, PlanRlr, Plan
<1>5. CASE Return
  BY <1>5 DEF Return, NoCall
<1> QED
  BY <1>1, <1>2, <1>3, <1>4, <1>5 DEF NextCall, Call

-------------------------------------------------------------------------------
(* The bounds test.                                                        *)

\* Dividing by a stride.
LEMMA Strides ==
    ASSUME NEW s \in Nat \ {0}, NEW d \in Nat
    PROVE  /\ d \div s \in 0..d /\ d % s \in 0..(s - 1) /\ d = s * (d \div s) + (d % s)
<1>1. d % s \in 0..(s - 1)
  OBVIOUS
<1>2. d = s * (d \div s) + (d % s)
  OBVIOUS
<1>3. d \div s \in Int /\ d \div s >= 0
  OBVIOUS
<1>4. d \div s <= d
  OBVIOUS
<1> QED
  BY <1>1, <1>2, <1>3, <1>4

\* A function on 1..n is a sequence of n elements.
LEMMA FunctionIsSeq ==
    ASSUME NEW n \in Nat, NEW T, NEW f \in [1..n -> T]
    PROVE  f \in Seq(T) /\ Len(f) = n
<1>1. f \in Seq(T)
  BY SMT
<1>2. DOMAIN f = 1..n
  OBVIOUS
<1> QED
  BY <1>1, <1>2, SMT

\* Two neighbours are not both a multiple of the stride away.
LEMMA NotTwoMultiples ==
    ASSUME NEW s \in Nat, s > 1, NEW d \in Nat
    PROVE  d % s # 0 \/ (d + 1) % s # 0
<1> SUFFICES ASSUME d % s = 0, (d + 1) % s = 0 PROVE FALSE
  OBVIOUS
<1> DEFINE a == d \div s
           b == (d + 1) \div s
<1>1. s \in Nat \ {0} /\ d + 1 \in Nat
  BY SMT
<1>2. a \in Nat /\ b \in Nat /\ d = s * a + 0 /\ d + 1 = s * b + 0
  BY <1>1, Strides
<1> HIDE DEF a, b
<1>3. s * (b - a) = 1
  BY <1>2
<1>4. b - a \in Int /\ (b - a <= 0 \/ b - a >= 1)
  BY <1>2
<1>5. b - a <= 0 => s * (b - a) <= 0
  BY <1>4, SMT
<1>6. b - a >= 1 => s * (b - a) >= s
  BY <1>4, SMT
<1> QED
  BY <1>3, <1>4, <1>5, <1>6

LEMMA TestedIs ==
    ASSUME NEW n, NEW q
    PROVE  q \in Tested(n) <=>
             \/ q = Center(n)
             \/ q \in UNION {Walk(n, i) : i \in 1..(Interval - 1)} /\ q \in 0..(n - 1)
<1> DEFINE W == UNION {Walk(n, i) : i \in 1..(Interval - 1)}
<1>1. Tested(n) = {Center(n)} \union (W \intersect (0..(n - 1)))
  BY DEF Tested
<1> HIDE DEF W
<1>2. q \in Tested(n) <=> q = Center(n) \/ (q \in W /\ q \in 0..(n - 1))
  BY <1>1
<1> QED
  BY <1>2 DEF W

LEMMA TestedOffMultiples ==
    ASSUME NEW n \in Nat, NEW q \in 0..(n - 1), NEW d \in Nat,
           q = Center(n) + d \/ q = Center(n) - d, d % Interval # 0
    PROVE  q \in Tested(n)
<1> DEFINE k == d % Interval
           j == d \div Interval
           m == Center(n)
<1>1. Interval \in Nat \ {0} /\ m \in Nat /\ m <= n
  BY IntervalAssumption, SMT DEF Center
<1>2. j \in 0..d /\ k \in 0..(Interval - 1) /\ d = Interval * j + k
  BY <1>1, Strides
<1>3. d <= n
  BY <1>1, SMT
<1>4. q = m + k + Interval * j \/ q = m - k - Interval * j
  <2> HIDE DEF k, j, m
  <2> DEFINE p == Interval * j
  <2>1. p \in Int
    BY <1>1, <1>2
  <2> HIDE DEF p
  <2>2. d = p + k
    BY <1>2 DEF p
  <2>3. q = m + k + p \/ q = m - k - p
    BY <1>1, <1>2, <2>1, <2>2 DEF m
  <2> QED
    BY <2>3 DEF p
<1>5. k \in 1..(Interval - 1) /\ j \in 0..n
  BY <1>1, <1>2, <1>3
<1>6. q \in Walk(n, k)
  <2> HIDE DEF k, j
  <2> QED
    BY <1>4, <1>5 DEF Walk
<1>7. q \in UNION {Walk(n, i) : i \in 1..(Interval - 1)}
  <2> HIDE DEF k
  <2> QED
    BY <1>5, <1>6
<1> QED
  BY <1>7, TestedIs

LEMMA OneOfTwoTested ==
    ASSUME NEW n \in Nat, NEW q \in 0..(n - 2)
    PROVE  q \in Tested(n) \/ q + 1 \in Tested(n)
<1> DEFINE m == Center(n)
<1>1. m \in Nat /\ m \in Tested(n) /\ q \in 0..(n - 1) /\ q + 1 \in 0..(n - 1)
  BY SMT DEF Center, Tested
<1>2. CASE q >= m
  <2> DEFINE d == q - m
  <2>1. d \in Nat /\ d + 1 \in Nat /\ q = m + d /\ q + 1 = m + (d + 1)
    BY <1>1, <1>2
  <2> HIDE DEF d
  <2>2. d % Interval # 0 \/ (d + 1) % Interval # 0
    BY <2>1, IntervalAssumption, NotTwoMultiples
  <2> QED
    BY <1>1, <2>1, <2>2, TestedOffMultiples
<1>3. CASE q < m
  <2> DEFINE d == m - (q + 1)
  <2>1. d \in Nat /\ d + 1 \in Nat /\ q + 1 = m - d /\ q = m - (d + 1)
    BY <1>1, <1>3
  <2> HIDE DEF d
  <2>2. d % Interval # 0 \/ (d + 1) % Interval # 0
    BY <2>1, IntervalAssumption, NotTwoMultiples
  <2> QED
    BY <1>1, <2>1, <2>2, TestedOffMultiples
<1> QED
  BY <1>1, <1>2, <1>3

(* Whatever the airspace, the stride and the path: a path that isPathInBounds lets pass is never
   outside at two points in a row, and one that it refuses has a point outside. *)
THEOREM ExcursionsSeen == CallSpec => []ExcursionsAreSeen
<1>1. InitCall => ExcursionsAreSeen
  BY DEF InitCall, NoCall, ExcursionsAreSeen
<1>2. ASSUME ExcursionsAreSeen, [NextCall]_callVars PROVE ExcursionsAreSeen'
  <2>1. CASE CheckPath
    <3>1. PICK n \in 1..MaxPath, out \in Outside : \E excursions \in SUBSET (1..n) :
            LET path == [i \in 1..n |-> IF i \in excursions THEN out ELSE InBounds]
            IN  /\ call' = [op |-> "path", path |-> path]
                /\ answer' = IsPathInBounds(Region, Obstacles, path)
      BY <2>1 DEF CheckPath
    <3>2. PICK excursions \in SUBSET (1..n) :
            LET path == [i \in 1..n |-> IF i \in excursions THEN out ELSE InBounds]
            IN  /\ call' = [op |-> "path", path |-> path]
                /\ answer' = IsPathInBounds(Region, Obstacles, path)
      BY <3>1
    <3> DEFINE path == [i \in 1..n |-> IF i \in excursions THEN out ELSE InBounds]
               In(i) == IsPointInBounds(Region, Obstacles, path[i])
    <3>3. n \in Nat /\ n >= 1
      BY MaxPathAssumption
    <3>4. path \in Seq({path[i] : i \in 1..n}) /\ Len(path) = n /\ DOMAIN path = 1..n
      <4>1. DOMAIN path = 1..n
        OBVIOUS
      <4>2. path \in [1..n -> {path[i] : i \in 1..n}]
        OBVIOUS
      <4> DEFINE T == {path[i] : i \in 1..n}
      <4> HIDE DEF path, T
      <4>3. path \in Seq(T)
        BY <3>3, <4>2, FunctionIsSeq DEF T
      <4>4. Len(path) = n
        BY <3>3, <4>2, FunctionIsSeq DEF T
      <4> QED
        BY <4>1, <4>3, <4>4 DEF T
    <3>5. call' = [op |-> "path", path |-> path] /\ answer' = IsPathInBounds(Region, Obstacles, path)
      BY <3>2
    <3> HIDE DEF path
    <3>6. call'.path = path
      BY <3>5
    <3>7. answer' <=> \A i \in Tested(n) : In(i + 1)
      BY <3>4, <3>5, Zenon DEF IsPathInBounds
    <3>8. ASSUME answer', NEW i \in 1..(n - 1) PROVE In(i) \/ In(i + 1)
      <4> DEFINE q == i - 1
      <4>1. q \in 0..(n - 2) /\ q + 1 = i /\ (q + 1) + 1 = i + 1
        BY <3>3
      <4> HIDE DEF q
      <4>2. q \in Tested(n) \/ q + 1 \in Tested(n)
        BY <3>3, <4>1, OneOfTwoTested
      <4>3. In(q + 1) \/ In((q + 1) + 1)
        BY <3>7, <3>8, <4>2, Zenon
      <4> QED
        BY <4>1, <4>3
    <3>9. ASSUME ~answer' PROVE \E i \in DOMAIN path : ~In(i)
      <4>1. PICK i \in Tested(n) : ~In(i + 1)
        BY <3>7, <3>9
      <4>2. i \in 0..(n - 1)
        <5>1. Center(n) \in 0..(n - 1)
          BY <3>3, SMT DEF Center
        <5> QED
          BY <5>1, TestedIs
      <4>3. i + 1 \in DOMAIN path
        BY <3>3, <3>4, <4>2
      <4> QED
        BY <4>1, <4>3
    <3> HIDE DEF In
    <3>10. /\ answer' => \A i \in 1..(Len(path) - 1) : In(i) \/ In(i + 1)
           /\ ~answer' => \E i \in DOMAIN path : ~In(i)
      BY <3>4, <3>8, <3>9
    <3> QED
      BY <3>6, <3>10 DEF ExcursionsAreSeen, In
  <2>2. CASE UNCHANGED callVars
    BY <1>2, <2>2 DEF callVars, ExcursionsAreSeen
  <2>3. CASE ~CheckPath /\ NextCall
    <3>1. call'.op # "path"
      BY <2>3, OtherCalls
    <3> QED
      BY <3>1 DEF ExcursionsAreSeen
  <2> QED
    BY <1>2, <2>1, <2>2, <2>3
<1> QED
  BY <1>1, <1>2, PTL DEF CallSpec

-------------------------------------------------------------------------------
(* Sequences put together.                                                 *)

\* Induction: the least number for which something does not hold.
LEMMA LeastElement ==
    ASSUME NEW T, T \subseteq Nat, T # {}
    PROVE  \E n \in T : \A m \in T : n <= m
<1>1. PICK top \in T : TRUE
  OBVIOUS
<1> DEFINE Initials == {0..n : n \in T \intersect 0..top}
           R == StrictSubsetOrdering(0..top)
<1>2. IsWellFoundedOn(R, SUBSET (0..top))
  <2>1. IsFiniteSet(0..top)
    BY <1>1, FS_Interval
  <2> QED
    BY <2>1, FS_StrictSubsetOrderingWellFounded, FS_FiniteSubsetsOfFinite
<1>3. Initials \subseteq SUBSET (0..top) /\ Initials # {}
  <2>1. \A n \in 0..top : 0..n \subseteq 0..top
    BY <1>1
  <2>2. top \in 0..top
    BY <1>1
  <2> QED
    BY <1>1, <2>1, <2>2
<1>4. PICK b \in Initials : \A c \in Initials : ~(<<c, b>> \in R)
  <2> HIDE DEF Initials, R
  <2> QED
    BY <1>2, <1>3, WFMin, Zenon
<1>5. PICK n \in T \intersect 0..top : b = 0..n
  OBVIOUS
<1>6. ASSUME NEW m \in T, ~(n <= m) PROVE FALSE
  <2>1. m \in 0..top /\ 0..m \subseteq 0..n /\ n \in 0..n /\ n \notin 0..m /\ 0..n \subseteq 0..top
    BY <1>1, <1>6, SMT
  <2>2. 0..m \in Initials /\ <<0..m, b>> \in R
    BY <1>5, <2>1 DEF StrictSubsetOrdering
  <2> QED
    BY <1>4, <2>2
<1> QED
  BY <1>6

\* The first N sequences put together, step by step.
Joins(f, N, seqs) == f = [i \in 1..N |-> IF i = 1 THEN seqs[i] ELSE f[i - 1] \o seqs[i]]

LEMMA JoinsExist ==
    ASSUME NEW N \in Nat, NEW seqs PROVE \E f : Joins(f, N, seqs)
<1> DEFINE T == {n \in 0..N : ~\E f : Joins(f, n, seqs)}
<1>1. ASSUME T # {} PROVE FALSE
  <2>1. PICK n \in T : \A m \in T : n <= m
    <3>1. T \subseteq 0..N
      BY Zenon
    <3> HIDE DEF T
    <3>2. T \subseteq Nat
      BY <3>1
    <3> QED
      BY <3>2, <1>1, LeastElement
  <2>2. n # 0
    <3> DEFINE f == [i \in 1..0 |-> 0]
    <3>1. 1..0 = {}
      BY SMT
    <3>2. Joins(f, 0, seqs)
      BY <3>1 DEF Joins
    <3> HIDE DEF f
    <3> QED
      BY <2>1, <3>2
  <2>3. n - 1 \in 0..N /\ n \in 1..N /\ ~(n <= n - 1) /\ n - 1 \in Nat
    BY <2>1, <2>2, SMT
  <2>4. PICK f : Joins(f, n - 1, seqs)
    <3>1. n - 1 \notin T
      BY <2>1, <2>3, Zenon
    <3> QED
      BY <2>3, <3>1, Zenon
  <2> DEFINE g == [i \in 1..n |-> IF i = n THEN IF n = 1 THEN seqs[n] ELSE f[n - 1] \o seqs[n] ELSE f[i]]
  <2>5. ASSUME NEW i \in 1..n PROVE g[i] = IF i = 1 THEN seqs[i] ELSE g[i - 1] \o seqs[i]
    <3>1. CASE i = n
      <4>1. i # 1 => n - 1 \in 1..n /\ n - 1 # n
        BY <2>3, <3>1, SMT
      <4> QED
        BY <3>1, <4>1
    <3>2. CASE i # n
      <4>1. i \in 1..(n - 1) /\ (i # 1 => i - 1 \in 1..n /\ i - 1 # n)
        BY <2>3, <3>2, SMT
      <4>2. f[i] = IF i = 1 THEN seqs[i] ELSE f[i - 1] \o seqs[i]
        BY <2>4, <4>1 DEF Joins
      <4>3. g[i] = f[i] /\ (i # 1 => g[i - 1] = f[i - 1])
        BY <3>2, <4>1
      <4> QED
        BY <4>2, <4>3
    <3> QED
      BY <3>1, <3>2
  <2>6. Joins(g, n, seqs)
    BY <2>5 DEF Joins
  <2> HIDE DEF g
  <2> QED
    BY <2>1, <2>6
<1>2. N \in 0..N /\ ~(N \in T)
  BY <1>1
<1> QED
  BY <1>2

LEMMA FlattenJoins ==
    ASSUME NEW seqs, Len(seqs) \in Nat \ {0}
    PROVE  \E f : Joins(f, Len(seqs), seqs) /\ FlattenSeq(seqs) = f[Len(seqs)]
<1> DEFINE Body(f) == [i \in 1..Len(seqs) |-> IF i = 1 THEN seqs[i] ELSE f[i - 1] \o seqs[i]]
           flat == CHOOSE f : f = Body(f)
<1>1. FlattenSeq(seqs) = flat[Len(seqs)]
  BY DEF FlattenSeq
<1>2. flat = Body(flat)
  <2>1. \E f : f = Body(f)
    BY JoinsExist DEF Joins
  <2> HIDE DEF Body
  <2> QED
    BY <2>1
<1>3. Joins(flat, Len(seqs), seqs)
  <2> HIDE DEF flat
  <2> QED
    BY <1>2 DEF Joins
<1> HIDE DEF flat
<1> QED
  BY <1>1, <1>3

LEMMA EmptyJoined ==
    ASSUME NEW U, NEW s \in Seq(U) PROVE s \o <<>> = s
<1> DEFINE x == s \o <<>>
<1>1. x \in Seq(U) /\ Len(x) = Len(s) /\ Len(s) \in Nat /\ \A i \in 1..Len(s) : x[i] = s[i]
  BY SMT
<1> HIDE DEF x
<1>2. x = s
  BY <1>1, SMT
<1> QED
  BY <1>2 DEF x

LEMMA LastOfJoin ==
    ASSUME NEW U, NEW s \in Seq(U), NEW t \in Seq(U)
    PROVE  /\ s \o t \in Seq(U) /\ Len(s) \in Nat /\ Len(t) \in Nat /\ Len(s \o t) = Len(s) + Len(t)
           /\ \A i \in 1..Len(s) : (s \o t)[i] = s[i]
           /\ \A i \in 1..Len(t) : (s \o t)[Len(s) + i] = t[i]
BY SMT

\* Sequences of one element, then empty ones.
FirstsUpTo(f, i, m, e, U) ==
    /\ f[i] \in Seq(U) /\ Len(f[i]) = (IF i <= m THEN i ELSE m)
    /\ \A j \in 1..Len(f[i]) : f[i][j] = e[j]

OnesThenNone(s, n, m, e, U) ==
    /\ Len(s) = n
    /\ \A i \in 1..m : e[i] \in U /\ s[i] = <<e[i]>>
    /\ \A i \in (m + 1)..n : s[i] = <<>>

LEMMA FlattenFirsts ==
    ASSUME NEW n \in Nat \ {0}, NEW m \in 0..n, NEW e, NEW U, NEW s, OnesThenNone(s, n, m, e, U)
    PROVE  /\ FlattenSeq(s) \in Seq(U) /\ Len(FlattenSeq(s)) = m
           /\ \A j \in 1..m : FlattenSeq(s)[j] = e[j]
<1> USE DEF OnesThenNone
<1>1. PICK f : Joins(f, n, s) /\ FlattenSeq(s) = f[n]
  BY FlattenJoins
<1> DEFINE T == {i \in 1..n : ~FirstsUpTo(f, i, m, e, U)}
<1>2. ASSUME T # {} PROVE FALSE
  <2>1. PICK i \in T : \A j \in T : i <= j
    <3>1. T \subseteq 1..n
      BY Zenon
    <3> HIDE DEF T
    <3>2. T \subseteq Nat
      BY <3>1
    <3> QED
      BY <3>2, <1>2, LeastElement
  <2>2. i \in 1..n /\ i \in Nat /\ m \in Nat
    BY <2>1
  <2>3. f[i] = IF i = 1 THEN s[i] ELSE f[i - 1] \o s[i]
    BY <1>1, <2>2 DEF Joins
  <2>4. i # 1 => i - 1 \in 1..n /\ FirstsUpTo(f, i - 1, m, e, U)
    <3>1. i # 1 => i - 1 \in 1..n /\ ~(i <= i - 1)
      BY <2>2
    <3> QED
      BY <2>1, <3>1, Zenon
  <2>5. CASE i <= m
    <3>1. e[i] \in U /\ s[i] = <<e[i]>>
      BY <2>2, <2>5
    <3>2. s[i] \in Seq(U) /\ Len(s[i]) = 1 /\ s[i][1] = e[i]
      BY <3>1, SMT
    <3>3. CASE i = 1
      BY <2>1, <2>2, <2>3, <2>5, <3>2, <3>3 DEF FirstsUpTo
    <3>4. CASE i # 1
      <4> DEFINE a == f[i - 1]
                 b == s[i]
      <4>1. f[i] = a \o b
        BY <2>3, <3>4
      <4>2. a \in Seq(U) /\ Len(a) = i - 1 /\ \A j \in 1..(i - 1) : a[j] = e[j]
        BY <2>2, <2>4, <2>5, <3>4 DEF FirstsUpTo
      <4>3. b \in Seq(U) /\ Len(b) = 1 /\ b[1] = e[i]
        BY <3>2
      <4> HIDE DEF a, b
      <4>4. /\ a \o b \in Seq(U) /\ Len(a \o b) = (i - 1) + 1
            /\ \A j \in 1..(i - 1) : (a \o b)[j] = a[j]
            /\ (a \o b)[(i - 1) + 1] = b[1]
        <5>1. /\ a \o b \in Seq(U) /\ Len(a \o b) = Len(a) + Len(b)
              /\ \A j \in 1..Len(a) : (a \o b)[j] = a[j]
              /\ \A j \in 1..Len(b) : (a \o b)[Len(a) + j] = b[j]
          <6>1. a \in Seq(U) /\ b \in Seq(U)
            BY <4>2, <4>3
          <6> QED
            BY <6>1, LastOfJoin
        <5>2. 1 \in 1..Len(b)
          BY <4>3
        <5> QED
          BY <4>2, <4>3, <5>1, <5>2
      <4>5. (i - 1) + 1 = i /\ \A j \in 1..i : j \in 1..(i - 1) \/ j = i
        BY <2>2
      <4>6. FirstsUpTo(f, i, m, e, U)
        BY <2>5, <4>1, <4>2, <4>3, <4>4, <4>5 DEF FirstsUpTo
      <4> QED
        BY <2>1, <4>6
    <3> QED
      BY <3>3, <3>4
  <2>6. CASE ~(i <= m)
    <3>1. s[i] = <<>>
      BY <2>2, <2>6
    <3>2. <<>> \in Seq(U) /\ Len(<<>>) = 0
      BY SMT
    <3>3. CASE i = 1
      <4>1. m = 0
        BY <2>2, <2>6, <3>3
      <4>2. f[i] = <<>>
        BY <2>3, <3>1, <3>3
      <4>3. 1..0 = {} /\ f[i] \in Seq(U) /\ Len(f[i]) = 0
        BY <3>2, <4>2
      <4>4. FirstsUpTo(f, i, m, e, U)
        BY <2>6, <4>1, <4>3 DEF FirstsUpTo
      <4> QED
        BY <2>1, <4>4
    <3>4. CASE i # 1
      <4> DEFINE a == f[i - 1]
      <4>1. f[i] = a \o <<>>
        BY <2>3, <3>1, <3>4
      <4>2. a \in Seq(U) /\ Len(a) = m /\ \A j \in 1..m : a[j] = e[j]
        <5>1. i - 1 <= m => i - 1 = m
          BY <2>2, <2>6
        <5> QED
          BY <2>2, <2>4, <3>4, <5>1 DEF FirstsUpTo
      <4> HIDE DEF a
      <4>3. a \o <<>> = a
        BY <4>2, EmptyJoined
      <4>4. FirstsUpTo(f, i, m, e, U)
        BY <2>6, <4>1, <4>2, <4>3 DEF FirstsUpTo
      <4> QED
        BY <2>1, <4>4
    <3> QED
      BY <3>3, <3>4
  <2> QED
    BY <2>5, <2>6
<1>3. n \in 1..n /\ ~(n \in T)
  BY <1>2
<1>4. FirstsUpTo(f, n, m, e, U)
  BY <1>3
<1>5. n <= m => n = m
  OBVIOUS
<1> QED
  BY <1>1, <1>4, <1>5 DEF FirstsUpTo

\* The first i of sequences that are not empty up to the R-th: every element is there, and two
\* neighbours are in S.
Linked(f, i, s, R, U, S) ==
    /\ f[i] \in Seq(U) /\ Len(f[i]) >= 1
    /\ \A k \in 1..(Len(f[i]) - 1) : <<f[i][k], f[i][k + 1]>> \in S
    /\ \A a \in 1..R : \A b \in 1..Len(s[a]) : a <= i => \E k \in 1..Len(f[i]) : f[i][k] = s[a][b]
    /\ i <= R => f[i][Len(f[i])] = s[i][Len(s[i])]

Chained(s, U, S) ==
    s \in Seq(U) /\ Len(s) >= 1 /\ \A k \in 1..(Len(s) - 1) : <<s[k], s[k + 1]>> \in S

\* x has the elements of s and those of t, and ends as t does.
HasBoth(x, s, t) ==
    /\ \A k \in 1..Len(s) : \E l \in 1..Len(x) : x[l] = s[k]
    /\ \A k \in 1..Len(t) : \E l \in 1..Len(x) : x[l] = t[k]
    /\ x[Len(x)] = t[Len(t)]

\* One sequence linked to another.
LEMMA LinkJoined ==
    ASSUME NEW U, NEW S, NEW s, NEW t, Chained(s, U, S), Chained(t, U, S), <<s[Len(s)], t[1]>> \in S
    PROVE  Chained(s \o t, U, S) /\ HasBoth(s \o t, s, t)
<1> DEFINE x == s \o t
           n == Len(s)
           m == Len(t)
<1>1. /\ x \in Seq(U) /\ n \in Nat /\ m \in Nat /\ Len(x) = n + m
      /\ \A i \in 1..n : x[i] = s[i]
      /\ \A i \in 1..m : x[n + i] = t[i]
  <2>1. s \in Seq(U) /\ t \in Seq(U)
    BY DEF Chained
  <2> QED
    BY <2>1, LastOfJoin
<1>2. /\ n >= 1 /\ m >= 1
      /\ \A k \in 1..(n - 1) : <<s[k], s[k + 1]>> \in S
      /\ \A k \in 1..(m - 1) : <<t[k], t[k + 1]>> \in S
  BY DEF Chained
<1> HIDE DEF x, n, m
<1>3. ASSUME NEW k \in 1..(n + m - 1) PROVE <<x[k], x[k + 1]>> \in S
  <2>1. CASE k < n
    <3>1. k \in 1..(n - 1) /\ k \in 1..n /\ k + 1 \in 1..n
      BY <1>1, <2>1
    <3>2. <<s[k], s[k + 1]>> \in S
      BY <1>2, <3>1
    <3> QED
      BY <1>1, <3>1, <3>2
  <2>2. CASE k = n
    <3>1. n \in 1..n /\ 1 \in 1..m /\ <<s[n], t[1]>> \in S
      BY <1>1, <1>2 DEF n
    <3> QED
      BY <1>1, <2>2, <3>1
  <2>3. CASE k > n
    <3> DEFINE j == k - n
    <3>1. j \in 1..(m - 1) /\ j \in 1..m /\ j + 1 \in 1..m /\ k = n + j /\ k + 1 = n + (j + 1)
      BY <1>1, <2>3
    <3> HIDE DEF j
    <3>2. <<t[j], t[j + 1]>> \in S
      BY <1>2, <3>1
    <3> QED
      BY <1>1, <3>1, <3>2
  <2> QED
    BY <1>1, <2>1, <2>2, <2>3
<1>4. ASSUME NEW k \in 1..n PROVE \E l \in 1..(n + m) : x[l] = s[k]
  <2>1. k \in 1..(n + m)
    BY <1>1
  <2> QED
    BY <1>1, <2>1
<1>5. ASSUME NEW k \in 1..m PROVE \E l \in 1..(n + m) : x[l] = t[k]
  <2>1. n + k \in 1..(n + m)
    BY <1>1
  <2> QED
    BY <1>1, <2>1
<1>6. x[n + m] = t[m]
  <2>1. m \in 1..m
    BY <1>1, <1>2
  <2> QED
    BY <1>1, <2>1
<1>7. Len(x) >= 1 /\ Len(x) - 1 = n + m - 1
  BY <1>1, <1>2
<1>8. /\ \A k \in 1..(Len(x) - 1) : <<x[k], x[k + 1]>> \in S
      /\ \A k \in 1..n : \E l \in 1..Len(x) : x[l] = s[k]
      /\ \A k \in 1..m : \E l \in 1..Len(x) : x[l] = t[k]
      /\ x[Len(x)] = t[m]
  BY <1>1, <1>3, <1>4, <1>5, <1>6, <1>7
<1> QED
  BY <1>1, <1>7, <1>8 DEF x, n, m, Chained, HasBoth

\* Sequences that are not empty up to the R-th, each linked in itself and to the next.
LinkedRows(s, n, R, U, S) ==
    /\ Len(s) = n
    /\ \A i \in 1..R : s[i] \in Seq(U) /\ Len(s[i]) >= 1
    /\ \A i \in (R + 1)..n : s[i] = <<>>
    /\ \A i \in 1..R : \A j \in 1..(Len(s[i]) - 1) : <<s[i][j], s[i][j + 1]>> \in S
    /\ \A i \in 1..(R - 1) : <<s[i][Len(s[i])], s[i + 1][1]>> \in S

LEMMA FlattenLinked ==
    ASSUME NEW n \in Nat \ {0}, NEW R \in 1..n, NEW U, NEW S, NEW s, LinkedRows(s, n, R, U, S)
    PROVE  LET F == FlattenSeq(s)
           IN  /\ F \in Seq(U)
               /\ \A k \in 1..(Len(F) - 1) : <<F[k], F[k + 1]>> \in S
               /\ \A a \in 1..R : \A b \in 1..Len(s[a]) : \E k \in 1..Len(F) : F[k] = s[a][b]
<1> USE DEF LinkedRows
<1>1. PICK f : Joins(f, n, s) /\ FlattenSeq(s) = f[n]
  BY FlattenJoins
<1> DEFINE T == {i \in 1..n : ~Linked(f, i, s, R, U, S)}
<1>2. ASSUME T # {} PROVE FALSE
  <2>1. PICK i \in T : \A j \in T : i <= j
    <3>1. T \subseteq 1..n
      BY Zenon
    <3> HIDE DEF T
    <3>2. T \subseteq Nat
      BY <3>1
    <3> QED
      BY <3>2, <1>2, LeastElement
  <2>2. i \in 1..n /\ i \in Nat /\ R \in Nat
    BY <2>1
  <2>3. f[i] = IF i = 1 THEN s[i] ELSE f[i - 1] \o s[i]
    BY <1>1, <2>2 DEF Joins
  <2>4. i # 1 => i - 1 \in 1..n /\ Linked(f, i - 1, s, R, U, S)
    <3>1. i # 1 => i - 1 \in 1..n /\ ~(i <= i - 1)
      BY <2>2
    <3> QED
      BY <2>1, <3>1, Zenon
  <2>5. CASE i = 1
    <3>1. 1 \in 1..R /\ f[1] = s[1] /\ \A a \in 1..R : a <= 1 => a = 1
      BY <2>2, <2>3, <2>5
    <3>2. Linked(f, 1, s, R, U, S)
      BY <3>1 DEF Linked
    <3> QED
      BY <2>1, <2>5, <3>2
  <2>6. CASE i # 1 /\ i <= R
    <3> DEFINE a == f[i - 1]
               b == s[i]
    <3>1. i \in 1..R /\ i - 1 \in 1..(R - 1) /\ i - 1 <= R /\ (i - 1) + 1 = i
          /\ \A c \in 1..R : c <= i => c <= i - 1 \/ c = i
      BY <2>2, <2>6
    <3>2. f[i] = a \o b
      BY <2>3, <2>6
    <3>3. /\ a \in Seq(U) /\ Len(a) >= 1 /\ \A k \in 1..(Len(a) - 1) : <<a[k], a[k + 1]>> \in S
          /\ \A c \in 1..R : \A d \in 1..Len(s[c]) : c <= i - 1 => \E k \in 1..Len(a) : a[k] = s[c][d]
          /\ a[Len(a)] = s[i - 1][Len(s[i - 1])]
      BY <2>4, <2>6, <3>1 DEF Linked
    <3>4. /\ b \in Seq(U) /\ Len(b) >= 1 /\ \A k \in 1..(Len(b) - 1) : <<b[k], b[k + 1]>> \in S
      BY <3>1
    <3>5. <<a[Len(a)], b[1]>> \in S
      <4>1. <<s[i - 1][Len(s[i - 1])], s[(i - 1) + 1][1]>> \in S
        BY <3>1
      <4> QED
        BY <3>1, <3>3, <4>1
    <3> DEFINE x == a \o b
    <3> HIDE DEF a
    <3>6. /\ x \in Seq(U) /\ Len(x) >= 1 /\ \A k \in 1..(Len(x) - 1) : <<x[k], x[k + 1]>> \in S
          /\ \A k \in 1..Len(a) : \E l \in 1..Len(x) : x[l] = a[k]
          /\ \A k \in 1..Len(b) : \E l \in 1..Len(x) : x[l] = b[k]
          /\ x[Len(x)] = b[Len(b)]
      <4>1. Chained(a, U, S) /\ Chained(b, U, S)
        BY <3>3, <3>4 DEF Chained
      <4> HIDE DEF b
      <4>2. Chained(x, U, S) /\ HasBoth(x, a, b)
        BY <3>5, <4>1, LinkJoined
      <4> HIDE DEF x
      <4> QED
        BY <4>2 DEF Chained, HasBoth
    <3>7. ASSUME NEW c \in 1..R, NEW d \in 1..Len(s[c]), c <= i PROVE \E k \in 1..Len(x) : x[k] = s[c][d]
      <4> HIDE DEF x
      <4>1. CASE c <= i - 1
        <5>1. PICK k \in 1..Len(a) : a[k] = s[c][d]
          BY <3>3, <4>1
        <5> QED
          BY <3>6, <5>1
      <4>2. CASE c = i
        BY <3>6, <4>2
      <4> QED
        BY <3>1, <3>7, <4>1, <4>2
    <3>8. Linked(f, i, s, R, U, S)
      <4>1. f[i] = x
        BY <3>2
      <4>2. x[Len(x)] = s[i][Len(s[i])]
        BY <3>6
      <4> HIDE DEF x
      <4> QED
        <5>1. /\ f[i] \in Seq(U) /\ Len(f[i]) >= 1
              /\ \A k \in 1..(Len(f[i]) - 1) : <<f[i][k], f[i][k + 1]>> \in S
          BY <3>6, <4>1
        <5>2. \A c \in 1..R : \A d \in 1..Len(s[c]) : c <= i => \E k \in 1..Len(f[i]) : f[i][k] = s[c][d]
          BY <3>7, <4>1
        <5>3. f[i][Len(f[i])] = s[i][Len(s[i])]
          BY <4>1, <4>2
        <5> QED
          BY <5>1, <5>2, <5>3, Zenon DEF Linked
    <3> QED
      BY <2>1, <3>8
  <2>7. CASE i # 1 /\ ~(i <= R)
    <3> DEFINE a == f[i - 1]
    <3>1. i \in (R + 1)..n /\ \A c \in 1..R : c <= i - 1
      BY <2>2, <2>7
    <3>2. f[i] = a \o <<>>
      BY <2>3, <2>7, <3>1
    <3>3. a \in Seq(U)
      BY <2>4, <2>7 DEF Linked
    <3>4. a \o <<>> = a
      <4> HIDE DEF a
      <4> QED
        BY <3>3, EmptyJoined
    <3>5. f[i] = f[i - 1]
      BY <3>2, <3>4
    <3>6. Linked(f, i, s, R, U, S)
      BY <2>4, <2>7, <3>1, <3>5 DEF Linked
    <3> QED
      BY <2>1, <3>6
  <2> QED
    BY <2>5, <2>6, <2>7
<1>3. n \in 1..n /\ ~(n \in T)
  BY <1>2
<1>4. Linked(f, n, s, R, U, S)
  BY <1>3
<1>5. \A a \in 1..R : a <= n
  OBVIOUS
<1> DEFINE F == FlattenSeq(s)
<1>6. F = f[n]
  BY <1>1
<1> HIDE DEF F, T
<1>7. /\ F \in Seq(U)
      /\ \A k \in 1..(Len(F) - 1) : <<F[k], F[k + 1]>> \in S
      /\ \A a \in 1..R : \A b \in 1..Len(s[a]) : a <= n => \E k \in 1..Len(F) : F[k] = s[a][b]
  BY <1>4, <1>6, Zenon DEF Linked
<1>8. \A a \in 1..R : \A b \in 1..Len(s[a]) : \E k \in 1..Len(F) : F[k] = s[a][b]
  BY <1>5, <1>7, Zenon
<1> QED
  BY <1>7, <1>8, Zenon DEF F

-------------------------------------------------------------------------------
(* The points over a rectangle.                                            *)

\* How many steps of d, from 0 on, stay below a.
StepsBelow(a, d) == (a + d - 1) \div d

LEMMA StepCount ==
    ASSUME NEW a \in Nat \ {0}, NEW d \in Nat \ {0}
    PROVE  /\ StepsBelow(a, d) \in Nat \ {0}
           /\ \A k \in Nat \ {0} : k <= StepsBelow(a, d) <=> d * (k - 1) < a
<1> DEFINE c == StepsBelow(a, d)
           r == (a + d - 1) % d
<1>1. a + d - 1 \in Nat
  OBVIOUS
<1>2. c \in Nat /\ r \in 0..(d - 1) /\ a + d - 1 = d * c + r
  <2> DEFINE t == a + d - 1
  <2>1. t \in Nat /\ c = t \div d /\ r = t % d
    BY <1>1 DEF StepsBelow
  <2> HIDE DEF t, c, r
  <2>2. t \div d \in 0..t /\ t % d \in 0..(d - 1) /\ t = d * (t \div d) + (t % d)
    BY <2>1, Strides
  <2> QED
    BY <2>1, <2>2 DEF t
<1> HIDE DEF c, r
<1>3. c # 0
  BY <1>2, SMT
<1>4. ASSUME NEW k \in Nat \ {0} PROVE k <= c <=> d * (k - 1) < a
  <2>1. k <= c => d * (k - 1) <= d * (c - 1)
    <3>1. k <= c => c - 1 - (k - 1) >= 0
      BY <1>2
    <3>2. k <= c => d * (c - 1 - (k - 1)) >= 0
      BY <1>2, <3>1, SMT
    <3> QED
      BY <1>2, <3>2, SMT
  <2>2. d * (c - 1) = d * c - d
    BY <1>2, SMT
  <2>3. k > c => d * (k - 1) >= d * c
    <3>1. k > c => k - 1 - c >= 0
      BY <1>2
    <3>2. k > c => d * (k - 1 - c) >= 0
      BY <1>2, <3>1, SMT
    <3> QED
      BY <1>2, <3>2, SMT
  <2> DEFINE p == d * c
             q == d * (k - 1)
  <2>4. p \in Int /\ q \in Int
    BY <1>2
  <2>5. d * (c - 1) = p - d /\ a + d - 1 = p + r
    BY <1>2, <2>2
  <2>6. (k <= c => q <= p - d) /\ (k > c => q >= p)
    BY <2>1, <2>3, <2>5
  <2> HIDE DEF p, q
  <2>7. k <= c <=> q < a
    BY <1>2, <2>4, <2>5, <2>6, SMT
  <2> QED
    BY <2>7 DEF q
<1> QED
  BY <1>2, <1>3, <1>4 DEF c

LEMMA ExtremeOfOne ==
    ASSUME NEW m \in Int PROVE Least({m, m}) = m /\ Greatest({m, m}) = m
<1>1. m \in {m, m} /\ (\A n \in {m, m} : m <= n) /\ (\A n \in {m, m} : m >= n)
  OBVIOUS
<1>2. Least({m, m}) \in {m, m}
  BY <1>1 DEF Least
<1>3. Greatest({m, m}) \in {m, m}
  BY <1>1 DEF Greatest
<1> QED
  BY <1>2, <1>3

Rectangle(w, h) == << <<0, 0>>, <<w, 0>>, <<w, h>>, <<0, h>> >>

LEMMA RectangleSides ==
    ASSUME NEW w \in Nat, NEW h \in Nat
    PROVE  LET zone == Rectangle(w, h)
           IN  /\ Least({X(zone[4]), X(zone[1])}) = 0 /\ Greatest({X(zone[3]), X(zone[2])}) = w
               /\ Least({Y(zone[1]), Y(zone[2])}) = 0 /\ Greatest({Y(zone[4]), Y(zone[3])}) = h
<1> DEFINE zone == Rectangle(w, h)
<1>1. /\ X(zone[4]) = 0 /\ X(zone[1]) = 0 /\ X(zone[3]) = w /\ X(zone[2]) = w
      /\ Y(zone[1]) = 0 /\ Y(zone[2]) = 0 /\ Y(zone[4]) = h /\ Y(zone[3]) = h
  BY DEF Rectangle, X, Y
<1> HIDE DEF zone
<1>2. /\ Least({X(zone[4]), X(zone[1])}) = 0 /\ Greatest({X(zone[3]), X(zone[2])}) = w
      /\ Least({Y(zone[1]), Y(zone[2])}) = 0 /\ Greatest({Y(zone[4]), Y(zone[3])}) = h
  BY <1>1, ExtremeOfOne
<1> QED
  BY <1>2 DEF zone

LEMMA SignOfProduct ==
    ASSUME NEW a \in Int, NEW b \in Nat \ {0}
    PROVE  (a * b < 0 <=> a < 0) /\ (a * (-b) > 0 <=> a < 0)
<1>1. a < 0 => a * b < 0
  BY SMT
<1>2. a >= 0 => a * b >= 0
  BY SMT
<1>3. a * (-b) = -(a * b)
  BY SMT
<1> DEFINE p == a * b
<1>4. p \in Int
  OBVIOUS
<1>5. p < 0 <=> a < 0
  BY <1>1, <1>2
<1> HIDE DEF p
<1>6. -p > 0 <=> p < 0
  BY <1>4
<1> QED
  BY <1>3, <1>5, <1>6 DEF p

\* The ray test, for a rectangle and a point to the right of its left side.
LEMMA InScaledZone ==
    ASSUME NEW w \in Nat \ {0}, NEW h \in Nat \ {0}, NEW px \in Nat, NEW py \in Int
    PROVE  IsPointInPolygon(ScaledZone(Rectangle(w, h)), <<px, py>>)
             <=> px < 22 * w /\ py >= -2 * h /\ py < 22 * h
<1> DEFINE zone == Rectangle(w, h)
           big  == ScaledZone(zone)
           p    == <<px, py>>
           crossed == {i \in DOMAIN big : RayCrosses(big[i], big[Before(big, i)], p)}
<1>1. /\ DOMAIN zone = 1..4
      /\ zone[1] = <<0, 0>> /\ zone[2] = <<w, 0>> /\ zone[3] = <<w, h>> /\ zone[4] = <<0, h>>
  BY DEF Rectangle
<1>2. SumOf(zone, 1) = 2 * w /\ SumOf(zone, 2) = 2 * h
  <2> HIDE DEF zone
  <2> QED
    BY <1>1 DEF SumOf
<1>3. /\ DOMAIN big = 1..4
      /\ big[1] = <<-2 * w, -2 * h>> /\ big[2] = <<22 * w, -2 * h>>
      /\ big[3] = <<22 * w, 22 * h>> /\ big[4] = <<-2 * w, 22 * h>>
  <2> HIDE DEF zone
  <2>1. DOMAIN big = 1..4 /\ \A i \in 1..4 : big[i] = <<24 * X(zone[i]) - 2 * w, 24 * Y(zone[i]) - 2 * h>>
    BY <1>1, <1>2 DEF ScaledZone
  <2> HIDE DEF big
  <2> QED
    BY <1>1, <2>1 DEF X, Y
<1>4. Len(big) = 4
  <2> HIDE DEF zone
  <2>1. big = [i \in 1..4 |-> <<24 * X(zone[i]) - 2 * w, 24 * Y(zone[i]) - 2 * h>>]
    BY <1>1, <1>2 DEF ScaledZone
  <2> DEFINE T == {big[i] : i \in 1..4}
  <2>2. big \in [1..4 -> T]
    BY <2>1
  <2> HIDE DEF big, T
  <2> QED
    BY <2>2, FunctionIsSeq
<1> HIDE DEF big, zone
<1>5. Before(big, 1) = 4 /\ Before(big, 2) = 1 /\ Before(big, 3) = 2 /\ Before(big, 4) = 3
  BY <1>4 DEF Before
<1>6. /\ ~RayCrosses(big[2], big[1], p) /\ ~RayCrosses(big[4], big[3], p)
  BY <1>3 DEF RayCrosses, X, Y
<1>7. ~RayCrosses(big[1], big[4], p)
  <2> DEFINE rise == 22 * h - (-2 * h)
             a == px - (-2 * w)
             left == a * rise - ((-2 * w) - (-2 * w)) * (py - (-2 * h))
  <2>1. rise \in Nat \ {0} /\ a \in Int /\ ~(a < 0) /\ (-2 * w) - (-2 * w) = 0 /\ py - (-2 * h) \in Int
    BY SMT
  <2>2. RayCrosses(big[1], big[4], p) => left < 0
    <3>1. rise > 0
      BY <2>1
    <3> QED
      BY <1>3, <3>1 DEF RayCrosses, X, Y
  <2> HIDE DEF rise, a
  <2>3. left = a * rise
    BY <2>1, SMT
  <2>4. ~(a * rise < 0)
    BY <2>1, SignOfProduct
  <2> QED
    BY <2>2, <2>3, <2>4
<1>8. RayCrosses(big[3], big[2], p) <=> px < 22 * w /\ py >= -2 * h /\ py < 22 * h
  <2> DEFINE rise == (-2 * h) - 22 * h
             b == 24 * h
             a == px - 22 * w
             left == a * rise - (22 * w - 22 * w) * (py - 22 * h)
  <2>1. rise = -b /\ b \in Nat \ {0} /\ a \in Int /\ (a < 0 <=> px < 22 * w)
        /\ 22 * w - 22 * w = 0 /\ py - 22 * h \in Int /\ ~(rise > 0)
    BY SMT
  <2>2. RayCrosses(big[3], big[2], p) <=> ((22 * h > py) # (-2 * h > py)) /\ left > 0
    BY <1>3, <2>1 DEF RayCrosses, X, Y
  <2>3. ((22 * h > py) # (-2 * h > py)) <=> py >= -2 * h /\ py < 22 * h
    BY SMT
  <2> HIDE DEF rise, a, b
  <2>4. left = a * (-b)
    BY <2>1, SMT
  <2>5. a * (-b) > 0 <=> a < 0
    BY <2>1, SignOfProduct
  <2> HIDE DEF left
  <2> QED
    BY <2>1, <2>2, <2>3, <2>4, <2>5
<1>9. crossed = IF RayCrosses(big[3], big[2], p) THEN {3} ELSE {}
  <2>1. \A i \in 1..4 : i = 1 \/ i = 2 \/ i = 3 \/ i = 4
    OBVIOUS
  <2> HIDE DEF p
  <2>2. \A i \in 1..4 : RayCrosses(big[i], big[Before(big, i)], p) <=> i = 3 /\ RayCrosses(big[3], big[2], p)
    BY <1>5, <1>6, <1>7, <2>1
  <2> QED
    BY <1>3, <2>2
<1>10. IsPointInPolygon(big, p) <=> Cardinality(crossed) % 2 = 1
  BY DEF IsPointInPolygon
<1> HIDE DEF crossed, p
<1>11. Cardinality({3}) = 1 /\ Cardinality({}) = 0
  BY FS_Singleton, FS_EmptySet
<1>12. Cardinality(crossed) % 2 = 1 <=> RayCrosses(big[3], big[2], p)
  <2>1. CASE RayCrosses(big[3], big[2], p)
    <3>1. Cardinality(crossed) = 1
      BY <1>9, <1>11, <2>1
    <3> QED
      BY <2>1, <3>1
  <2>2. CASE ~RayCrosses(big[3], big[2], p)
    <3>1. Cardinality(crossed) = 0
      BY <1>9, <1>11, <2>2
    <3> QED
      BY <2>2, <3>1
  <2> QED
    BY <2>1, <2>2
<1> QED
  BY <1>8, <1>10, <1>12 DEF p, big, zone

\* A zone larger than the camera's vision, which is twice half.
Sizable(w, h, half) ==
    /\ w \in Nat /\ h \in Nat /\ half \in Nat \ {0}
    /\ w > 2 * half /\ h > 2 * half

Column(half, k)  == half + (2 * half) * (k - 1)
Line(h, half, r) == h - half - (2 * half) * (r - 1)

\* The columns and the lines whose points lie in the zone scaled by 1.2.
AtMost(a, b)      == IF a <= b THEN a ELSE b
Columns(w, half)  == AtMost(StepsBelow(w, 2 * half), StepsBelow(22 * w - 20 * half, 20 * (2 * half)))
Lines(h, half)    == AtMost(StepsBelow(h, 2 * half), StepsBelow(22 * h - 20 * half + 1, 20 * (2 * half)))

LEMMA Counts ==
    ASSUME NEW w, NEW h, NEW half, Sizable(w, h, half)
    PROVE  /\ StepsBelow(w, 2 * half) \in Nat \ {0} /\ StepsBelow(h, 2 * half) \in Nat \ {0}
           /\ Columns(w, half) \in 1..StepsBelow(w, 2 * half)
           /\ Lines(h, half) \in 1..StepsBelow(h, 2 * half)
           /\ \A k \in Nat \ {0} :
                /\ k <= Columns(w, half) <=> (2 * half) * (k - 1) < w /\ 20 * Column(half, k) < 22 * w
                /\ k <= Lines(h, half) <=> (2 * half) * (k - 1) < h /\ 20 * Line(h, half, k) >= -2 * h
                /\ k <= StepsBelow(w, 2 * half) <=> (2 * half) * (k - 1) < w
                /\ k <= StepsBelow(h, 2 * half) <=> (2 * half) * (k - 1) < h
<1> DEFINE d == 2 * half
           a == 22 * w - 20 * half
           b == 22 * h - 20 * half + 1
<1>1. /\ w \in Nat \ {0} /\ h \in Nat \ {0} /\ half \in Nat \ {0} /\ d \in Nat \ {0} /\ 20 * d \in Nat \ {0}
      /\ a \in Nat \ {0} /\ b \in Nat \ {0}
  BY SMT DEF Sizable
<1> HIDE DEF d, a, b
<1>2. /\ StepsBelow(w, d) \in Nat \ {0} /\ StepsBelow(h, d) \in Nat \ {0}
      /\ StepsBelow(a, 20 * d) \in Nat \ {0} /\ StepsBelow(b, 20 * d) \in Nat \ {0}
      /\ \A k \in Nat \ {0} : /\ k <= StepsBelow(w, d) <=> d * (k - 1) < w
                              /\ k <= StepsBelow(h, d) <=> d * (k - 1) < h
                              /\ k <= StepsBelow(a, 20 * d) <=> (20 * d) * (k - 1) < a
                              /\ k <= StepsBelow(b, 20 * d) <=> (20 * d) * (k - 1) < b
  BY <1>1, StepCount
<1>3. \A m \in Nat \ {0}, n \in Nat \ {0} :
        /\ AtMost(m, n) \in 1..m
        /\ \A k \in Nat : k <= AtMost(m, n) <=> k <= m /\ k <= n
  BY DEF AtMost
<1>4. /\ Columns(w, half) = AtMost(StepsBelow(w, d), StepsBelow(a, 20 * d))
      /\ Lines(h, half) = AtMost(StepsBelow(h, d), StepsBelow(b, 20 * d))
  BY DEF Columns, Lines, a, b, d
<1>5. ASSUME NEW k \in Nat \ {0}
      PROVE  /\ (20 * d) * (k - 1) < a <=> 20 * Column(half, k) < 22 * w
             /\ (20 * d) * (k - 1) < b <=> 20 * Line(h, half, k) >= -2 * h
  <2> DEFINE p == d * (k - 1)
  <2>1. p \in Int /\ (20 * d) * (k - 1) = 20 * p
    BY <1>1, SMT
  <2>2. Column(half, k) = half + p /\ Line(h, half, k) = h - half - p
    BY DEF Column, Line, d
  <2> HIDE DEF p
  <2> QED
    BY <1>1, <2>1, <2>2, SMT DEF a, b
<1>6. /\ Columns(w, half) \in 1..StepsBelow(w, d)
      /\ Lines(h, half) \in 1..StepsBelow(h, d)
      /\ \A k \in Nat : /\ k <= Columns(w, half) <=> k <= StepsBelow(w, d) /\ k <= StepsBelow(a, 20 * d)
                        /\ k <= Lines(h, half) <=> k <= StepsBelow(h, d) /\ k <= StepsBelow(b, 20 * d)
  <2> DEFINE wn == StepsBelow(w, d)
             hn == StepsBelow(h, d)
             an == StepsBelow(a, 20 * d)
             bn == StepsBelow(b, 20 * d)
  <2>1. wn \in Nat \ {0} /\ hn \in Nat \ {0} /\ an \in Nat \ {0} /\ bn \in Nat \ {0}
    BY <1>2
  <2>2. Columns(w, half) = AtMost(wn, an) /\ Lines(h, half) = AtMost(hn, bn)
    BY <1>4
  <2> HIDE DEF wn, hn, an, bn
  <2>3. /\ AtMost(wn, an) \in 1..wn /\ AtMost(hn, bn) \in 1..hn
        /\ \A k \in Nat : /\ k <= AtMost(wn, an) <=> k <= wn /\ k <= an
                          /\ k <= AtMost(hn, bn) <=> k <= hn /\ k <= bn
    BY <1>3, <2>1
  <2> QED
    BY <2>2, <2>3 DEF wn, hn, an, bn
<1>7. ASSUME NEW k \in Nat \ {0}
      PROVE  /\ k <= Columns(w, half) <=> d * (k - 1) < w /\ 20 * Column(half, k) < 22 * w
             /\ k <= Lines(h, half) <=> d * (k - 1) < h /\ 20 * Line(h, half, k) >= -2 * h
  BY <1>2, <1>5, <1>6
<1> QED
  BY <1>2, <1>6, <1>7 DEF d

Points == Int \X Int

\* The first m columns at height y.
RowOf(row, half, y, m) ==
    /\ row \in Seq(Points) /\ Len(row) = m
    /\ \A k \in 1..m : row[k] = <<Column(half, k), y>>

LEMMA RowIs ==
    ASSUME NEW w, NEW h, NEW half, Sizable(w, h, half), NEW y \in Int,
           NEW m, m = (IF 20 * y >= -2 * h /\ 20 * y < 22 * h THEN Columns(w, half) ELSE 0)
    PROVE  RowOf(Row(Rectangle(w, h), half, y), half, y, m)
<1> DEFINE zone == Rectangle(w, h)
           n == StepsBelow(w, 2 * half)
           e == [k \in 1..n |-> <<Column(half, k), y>>]
           s == [k \in 1..n |-> IF IsPointInPolygon(ScaledZone(zone), <<20 * Column(half, k), 20 * y>>)
                                THEN << <<Column(half, k), y>> >> ELSE <<>>]
<1>1. /\ w \in Nat \ {0} /\ h \in Nat \ {0} /\ half \in Nat \ {0}
      /\ n \in Nat \ {0} /\ m \in 0..n
      /\ \A k \in 1..n : k <= Columns(w, half) <=> 20 * Column(half, k) < 22 * w
  <2>1. w \in Nat \ {0} /\ h \in Nat \ {0} /\ half \in Nat \ {0}
    BY SMT DEF Sizable
  <2>2. n \in Nat \ {0} /\ Columns(w, half) \in 1..n
    BY Counts
  <2> HIDE DEF n
  <2>3. m \in 0..n
    BY <2>2
  <2>4. ASSUME NEW k \in 1..n PROVE k <= Columns(w, half) <=> 20 * Column(half, k) < 22 * w
    <3>1. k \in Nat \ {0} /\ k <= n
      BY <2>2
    <3>2. /\ k <= Columns(w, half) <=> (2 * half) * (k - 1) < w /\ 20 * Column(half, k) < 22 * w
          /\ k <= n <=> (2 * half) * (k - 1) < w
      BY <3>1, Counts DEF n
    <3> QED
      BY <3>1, <3>2
  <2> QED
    BY <2>1, <2>2, <2>3, <2>4
<1>2. Row(zone, half, y) = FlattenSeq(s)
  <2>1. /\ Least({X(zone[4]), X(zone[1])}) = 0 /\ Greatest({X(zone[3]), X(zone[2])}) = w
    BY <1>1, RectangleSides
  <2> HIDE DEF zone
  <2>2. (w + half) - (0 + half) + 2 * half - 1 = w + 2 * half - 1
    BY <1>1
  <2> DEFINE xs == Steps(0 + half, w + half, 2 * half)
  <2>3. xs = [k \in 1..n |-> (0 + half) + (2 * half) * (k - 1)]
    BY <2>2 DEF Steps, StepsBelow
  <2>4. DOMAIN xs = 1..n /\ \A k \in 1..n : xs[k] = Column(half, k)
    <3> HIDE DEF xs, n
    <3>1. 0 + half = half
      BY <1>1
    <3> QED
      BY <2>3, <3>1 DEF Column
  <2>5. Row(zone, half, y)
          = FlattenSeq([k \in DOMAIN xs |->
              IF IsPointInPolygon(ScaledZone(zone), <<20 * xs[k], 20 * y>>) THEN << <<xs[k], y>> >> ELSE <<>>])
    BY <2>1 DEF Row
  <2> DEFINE t == [k \in DOMAIN xs |->
              IF IsPointInPolygon(ScaledZone(zone), <<20 * xs[k], 20 * y>>) THEN << <<xs[k], y>> >> ELSE <<>>]
  <2>6. t = s
    <3> HIDE DEF xs, n
    <3> QED
      BY <2>4
  <2> QED
    BY <2>5, <2>6
<1>3. ASSUME NEW k \in 1..n
      PROVE  /\ Column(half, k) \in Nat
             /\ IsPointInPolygon(ScaledZone(zone), <<20 * Column(half, k), 20 * y>>)
                  <=> 20 * Column(half, k) < 22 * w /\ 20 * y >= -2 * h /\ 20 * y < 22 * h
  <2> DEFINE c == Column(half, k)
  <2>1. c \in Nat
    <3>1. k \in Nat /\ k - 1 >= 0 /\ (2 * half) \in Nat
      BY <1>1
    <3>2. (2 * half) * (k - 1) \in Nat
      BY <3>1, SMT
    <3> QED
      BY <1>1, <3>2 DEF Column
  <2> HIDE DEF c
  <2>2. 20 * c \in Nat /\ 20 * y \in Int
    BY <2>1
  <2>3. IsPointInPolygon(ScaledZone(zone), <<20 * c, 20 * y>>)
          <=> 20 * c < 22 * w /\ 20 * y >= -2 * h /\ 20 * y < 22 * h
    BY <1>1, <2>2, InScaledZone
  <2> QED
    BY <2>1, <2>3 DEF c
<1>4. DOMAIN s = 1..n /\ Len(s) = n
  <2> DEFINE T == {s[i] : i \in 1..n}
  <2>1. DOMAIN s = 1..n /\ s \in [1..n -> T]
    OBVIOUS
  <2> HIDE DEF s, T, n
  <2> QED
    BY <1>1, <2>1, FunctionIsSeq
<1>5. ASSUME NEW k \in 1..n
      PROVE  /\ e[k] = <<Column(half, k), y>> /\ e[k] \in Points
             /\ k <= m => s[k] = <<e[k]>>
             /\ ~(k <= m) => s[k] = <<>>
  <2>1. e[k] = <<Column(half, k), y>> /\ e[k] \in Points
    <3>1. e[k] = <<Column(half, k), y>>
      OBVIOUS
    <3>2. Column(half, k) \in Int /\ y \in Int
      <4>1. Column(half, k) \in Nat
        BY <1>3
      <4>2. \A c \in Nat : c \in Int
        OBVIOUS
      <4> QED
        BY <4>1, <4>2, Zenon
    <3> QED
      BY <3>1, <3>2, Zenon DEF Points
  <2>2. k <= m <=> 20 * Column(half, k) < 22 * w /\ 20 * y >= -2 * h /\ 20 * y < 22 * h
    <3>1. k >= 1
      BY <1>1
    <3> QED
      BY <1>1, <3>1
  <2> QED
    BY <1>3, <2>1, <2>2
<1> HIDE DEF s, e, n, zone
<1>6. /\ \A i \in 1..m : e[i] \in Points /\ s[i] = <<e[i]>>
      /\ \A i \in (m + 1)..n : s[i] = <<>>
  <2>1. \A i \in 1..m : i \in 1..n /\ i <= m
    BY <1>1
  <2>2. \A i \in (m + 1)..n : i \in 1..n /\ ~(i <= m)
    BY <1>1
  <2> QED
    BY <1>5, <2>1, <2>2
<1>7. /\ FlattenSeq(s) \in Seq(Points) /\ Len(FlattenSeq(s)) = m
      /\ \A j \in 1..m : FlattenSeq(s)[j] = e[j]
  <2>1. n \in Nat \ {0} /\ m \in 0..n
    BY <1>1
  <2>2. OnesThenNone(s, n, m, e, Points)
    BY <1>4, <1>6 DEF OnesThenNone
  <2> QED
    BY <2>1, <2>2, FlattenFirsts
<1>8. \A j \in 1..m : j \in 1..n
  BY <1>1
<1> QED
  BY <1>2, <1>5, <1>7, <1>8 DEF zone, RowOf

LEMMA ReversedIs ==
    ASSUME NEW U, NEW s \in Seq(U)
    PROVE  /\ Reversed(s) \in Seq(U) /\ Len(Reversed(s)) = Len(s)
           /\ \A k \in 1..Len(s) : Reversed(s)[k] = s[Len(s) + 1 - k]
<1> DEFINE n == Len(s)
           f == [k \in 1..n |-> s[n + 1 - k]]
<1>1. n \in Nat /\ DOMAIN s = 1..n /\ \A k \in 1..n : s[k] \in U
  BY SMT
<1>2. Reversed(s) = f
  BY <1>1 DEF Reversed
<1> HIDE DEF n
<1>3. \A k \in 1..n : n + 1 - k \in 1..n
  BY <1>1
<1>4. f \in [1..n -> U]
  BY <1>1, <1>3
<1>5. \A k \in 1..n : f[k] = s[n + 1 - k]
  OBVIOUS
<1> HIDE DEF f
<1>6. f \in Seq(U) /\ Len(f) = n
  BY <1>1, <1>4, FunctionIsSeq
<1> QED
  BY <1>2, <1>5, <1>6 DEF n

\* The rows over a rectangle: R of them from the top down, each with m points, back and forth.
RowsOver(s, w, h, half) ==
    LET n == StepsBelow(h, 2 * half)
        m == Columns(w, half)
        R == Lines(h, half)
    IN  /\ Len(s) = n
        /\ \A r \in 1..R :
             /\ s[r] \in Seq(Points) /\ Len(s[r]) = m
             /\ \A k \in 1..m : s[r][k] = <<Column(half, IF r % 2 = 1 THEN k ELSE m + 1 - k), Line(h, half, r)>>
        /\ \A r \in (R + 1)..n : s[r] = <<>>

LEMMA RowsAre ==
    ASSUME NEW w, NEW h, NEW half, Sizable(w, h, half)
    PROVE  RowsOver(HoverRows(Rectangle(w, h), half), w, h, half)
<1> DEFINE zone == Rectangle(w, h)
           d == 2 * half
           n == StepsBelow(h, d)
           m == Columns(w, half)
           R == Lines(h, half)
           row(r) == Row(zone, half, Line(h, half, r))
           s == [r \in 1..n |-> IF r % 2 = 1 THEN row(r) ELSE Reversed(row(r))]
<1>1. w \in Nat \ {0} /\ h \in Nat \ {0} /\ half \in Nat \ {0} /\ d \in Nat \ {0}
  BY SMT DEF Sizable
<1>2. n \in Nat \ {0} /\ m \in Nat \ {0} /\ R \in 1..n
  <2>1. /\ n \in Nat \ {0} /\ m \in 1..StepsBelow(w, d) /\ R \in 1..n /\ StepsBelow(w, d) \in Nat \ {0}
    BY Counts
  <2> HIDE DEF n, m, R
  <2>2. \A c \in Nat \ {0} : m \in 1..c => m \in Nat \ {0}
    OBVIOUS
  <2> QED
    BY <2>1, <2>2
<1>3. ASSUME NEW r \in 1..n
      PROVE  /\ Line(h, half, r) \in Int /\ 20 * Line(h, half, r) < 22 * h
             /\ r <= R <=> 20 * Line(h, half, r) >= -2 * h
  <2> DEFINE p == d * (r - 1)
             l == Line(h, half, r)
  <2>1. r \in Nat \ {0} /\ r - 1 \in Nat /\ r <= n
    BY <1>2
  <2>2. p \in Nat
    BY <1>1, <2>1, SMT
  <2>3. l = h - half - p
    BY DEF Line
  <2> HIDE DEF p
  <2>4. l \in Int /\ 20 * l < 22 * h
    BY <1>1, <2>2, <2>3
  <2>5. /\ r <= R <=> (2 * half) * (r - 1) < h /\ 20 * l >= -2 * h
        /\ r <= n <=> (2 * half) * (r - 1) < h
    BY <2>1, Counts
  <2> QED
    BY <2>1, <2>4, <2>5
<1>4. HoverRows(zone, half) = s
  <2> DEFINE start == h - half
             stop == 0 - half
             ys == Steps(-start, -stop, d)
  <2>1. /\ Greatest({Y(zone[4]), Y(zone[3])}) = h /\ Least({Y(zone[1]), Y(zone[2])}) = 0
    BY <1>1, RectangleSides
  <2> HIDE DEF zone
  <2>2. HoverRows(zone, half)
          = [r \in DOMAIN ys |-> IF r % 2 = 1 THEN Row(zone, half, -ys[r]) ELSE Reversed(Row(zone, half, -ys[r]))]
    BY <2>1 DEF HoverRows
  <2>3. (-stop) - (-start) + d - 1 = h + d - 1
    BY <1>1
  <2>4. ys = [k \in 1..n |-> (-start) + d * (k - 1)]
    BY <2>3 DEF Steps, StepsBelow
  <2>5. DOMAIN ys = 1..n /\ \A k \in 1..n : -ys[k] = Line(h, half, k)
    <3> HIDE DEF n
    <3>1. ASSUME NEW k \in 1..n PROVE -((-start) + d * (k - 1)) = Line(h, half, k)
      <4> DEFINE p == d * (k - 1)
      <4>1. k \in Int /\ d \in Int
        BY <1>1, <1>2
      <4>2. p \in Int
        BY <4>1, SMT
      <4>3. Line(h, half, k) = h - half - p
        BY DEF Line
      <4> HIDE DEF p
      <4>4. -((-start) + p) = h - half - p
        BY <1>1, <4>2
      <4> QED
        BY <4>3, <4>4 DEF p
    <3> QED
      BY <2>4, <3>1
  <2> HIDE DEF ys, n
  <2> QED
    BY <2>2, <2>5
<1>5. DOMAIN s = 1..n /\ Len(s) = n /\ \A r \in 1..n : s[r] = IF r % 2 = 1 THEN row(r) ELSE Reversed(row(r))
  <2> DEFINE T == {s[i] : i \in 1..n}
  <2>1. DOMAIN s = 1..n /\ s \in [1..n -> T]
    OBVIOUS
  <2>2. \A r \in 1..n : s[r] = IF r % 2 = 1 THEN row(r) ELSE Reversed(row(r))
    OBVIOUS
  <2> HIDE DEF s, T, n, row
  <2> QED
    BY <1>2, <2>1, <2>2, FunctionIsSeq
<1>6. ASSUME NEW r \in 1..n
      PROVE  /\ row(r) \in Seq(Points) /\ Len(row(r)) = (IF r <= R THEN m ELSE 0)
             /\ r <= R => \A k \in 1..m : row(r)[k] = <<Column(half, k), Line(h, half, r)>>
  <2> DEFINE l == Line(h, half, r)
             c == IF 20 * l >= -2 * h /\ 20 * l < 22 * h THEN Columns(w, half) ELSE 0
  <2>1. l \in Int
    BY <1>3
  <2>2. c = IF r <= R THEN m ELSE 0
    <3>1. 20 * l < 22 * h /\ (r <= R <=> 20 * l >= -2 * h)
      BY <1>3
    <3> HIDE DEF l, R
    <3> QED
      BY <3>1
  <2>3. /\ row(r) \in Seq(Points) /\ Len(row(r)) = c
        /\ \A k \in 1..c : row(r)[k] = <<Column(half, k), l>>
    <3>1. RowOf(Row(Rectangle(w, h), half, l), half, l, c)
      <4> HIDE DEF l, c, row, n, m, R, d, s, zone
      <4>1. c = IF 20 * l >= -2 * h /\ 20 * l < 22 * h THEN Columns(w, half) ELSE 0
        BY DEF c
      <4> QED
        BY <2>1, <4>1, RowIs
    <3> QED
      BY <3>1 DEF RowOf
  <2> HIDE DEF c, row, m, R
  <2> QED
    BY <2>2, <2>3 DEF l
<1> HIDE DEF s, row, n, m, R
<1>7. ASSUME NEW r \in 1..R
      PROVE  /\ s[r] \in Seq(Points) /\ Len(s[r]) = m
             /\ \A k \in 1..m : s[r][k] = <<Column(half, IF r % 2 = 1 THEN k ELSE m + 1 - k), Line(h, half, r)>>
  <2>1. r \in 1..n /\ r <= R
    BY <1>2
  <2>2. /\ row(r) \in Seq(Points) /\ Len(row(r)) = m
        /\ \A k \in 1..m : row(r)[k] = <<Column(half, k), Line(h, half, r)>>
    BY <1>6, <2>1
  <2>3. CASE r % 2 = 1
    BY <1>5, <2>1, <2>2, <2>3
  <2>4. CASE r % 2 # 1
    <3>1. s[r] = Reversed(row(r))
      BY <1>5, <2>1, <2>4
    <3>2. /\ Reversed(row(r)) \in Seq(Points) /\ Len(Reversed(row(r))) = m
          /\ \A k \in 1..m : Reversed(row(r))[k] = row(r)[m + 1 - k]
      BY <2>2, ReversedIs
    <3>3. \A k \in 1..m : m + 1 - k \in 1..m
      BY <1>2
    <3> QED
      BY <2>2, <2>4, <3>1, <3>2, <3>3
  <2> QED
    BY <2>3, <2>4
<1>8. ASSUME NEW r \in (R + 1)..n PROVE s[r] = <<>>
  <2>1. r \in 1..n /\ ~(r <= R)
    BY <1>2
  <2>2. row(r) \in Seq(Points) /\ Len(row(r)) = 0
    BY <1>6, <2>1
  <2>3. /\ Reversed(row(r)) \in Seq(Points) /\ Len(Reversed(row(r))) = 0
    BY <2>2, ReversedIs
  <2>4. \A q \in Seq(Points) : Len(q) = 0 => q = <<>>
    BY SMT
  <2> QED
    BY <1>5, <2>1, <2>2, <2>3, <2>4
<1>9. RowsOver(s, w, h, half)
  BY <1>5, <1>7, <1>8 DEF RowsOver, n, m, R
<1> QED
  BY <1>4, <1>9 DEF zone

\* From point to point the plane moves by one vision, along one axis.
Moves(half) ==
    {pq \in Points \X Points :
       {X(pq[2]) - X(pq[1]), Y(pq[2]) - Y(pq[1])} \in {{0, 2 * half}, {0, -2 * half}}}

LEMMA OneVision ==
    ASSUME NEW half \in Nat, NEW x \in Int, NEW y \in Int
    PROVE  /\ << <<x, y>>, <<x + 2 * half, y>> >> \in Moves(half)
           /\ << <<x, y>>, <<x - 2 * half, y>> >> \in Moves(half)
           /\ << <<x, y>>, <<x, y - 2 * half>> >> \in Moves(half)
<1>1. \A a, b, c, e \in Int :
        << <<a, b>>, <<c, e>> >> \in Moves(half)
          <=> {c - a, e - b} \in {{0, 2 * half}, {0, -2 * half}}
  BY Zenon DEF Moves, Points, X, Y
<1>2. /\ x + 2 * half \in Int /\ x - 2 * half \in Int /\ y - 2 * half \in Int
      /\ (x + 2 * half) - x = 2 * half /\ (x - 2 * half) - x = -2 * half /\ (y - 2 * half) - y = -2 * half
      /\ x - x = 0 /\ y - y = 0
  OBVIOUS
<1>3. /\ {2 * half, 0} \in {{0, 2 * half}, {0, -2 * half}}
      /\ {-2 * half, 0} \in {{0, 2 * half}, {0, -2 * half}}
      /\ {0, -2 * half} \in {{0, 2 * half}, {0, -2 * half}}
  BY SMT
<1>4. /\ << <<x, y>>, <<x + 2 * half, y>> >> \in Moves(half)
           <=> {(x + 2 * half) - x, y - y} \in {{0, 2 * half}, {0, -2 * half}}
      /\ << <<x, y>>, <<x - 2 * half, y>> >> \in Moves(half)
           <=> {(x - 2 * half) - x, y - y} \in {{0, 2 * half}, {0, -2 * half}}
      /\ << <<x, y>>, <<x, y - 2 * half>> >> \in Moves(half)
           <=> {x - x, (y - 2 * half) - y} \in {{0, 2 * half}, {0, -2 * half}}
  BY <1>1, <1>2
<1>5. /\ {(x + 2 * half) - x, y - y} = {2 * half, 0}
      /\ {(x - 2 * half) - x, y - y} = {-2 * half, 0}
      /\ {x - x, (y - 2 * half) - y} = {0, -2 * half}
  BY <1>2, Zenon
<1> QED
  BY <1>3, <1>4, <1>5, Zenon

\* Every point of a row is flown to, by moves of one vision.
AllFlown(F, w, h, half) ==
    /\ F \in Seq(Points)
    /\ \A k \in 1..(Len(F) - 1) : <<F[k], F[k + 1]>> \in Moves(half)
    /\ \A r \in 1..Lines(h, half) : \A k \in 1..Columns(w, half) :
         \E j \in 1..Len(F) : F[j] = <<Column(half, k), Line(h, half, r)>>

LEMMA RowsFlown ==
    ASSUME NEW w, NEW h, NEW half, Sizable(w, h, half)
    PROVE  AllFlown(HoverPoints(Rectangle(w, h), half), w, h, half)
<1> DEFINE n == StepsBelow(h, 2 * half)
           m == Columns(w, half)
           R == Lines(h, half)
           s == HoverRows(Rectangle(w, h), half)
           S == Moves(half)
           F == FlattenSeq(s)
           C(k) == Column(half, k)
           L(r) == Line(h, half, r)
           K(r, k) == IF r % 2 = 1 THEN k ELSE m + 1 - k
<1>1. w \in Nat \ {0} /\ h \in Nat \ {0} /\ half \in Nat \ {0}
  BY SMT DEF Sizable
<1>2. n \in Nat \ {0} /\ m \in Nat \ {0} /\ R \in 1..n
  <2>1. /\ n \in Nat \ {0} /\ m \in 1..StepsBelow(w, 2 * half) /\ R \in 1..n /\ StepsBelow(w, 2 * half) \in Nat \ {0}
    BY Counts
  <2> HIDE DEF n, m, R
  <2>2. \A c \in Nat \ {0} : m \in 1..c => m \in Nat \ {0}
    OBVIOUS
  <2> QED
    BY <2>1, <2>2
<1>3. /\ Len(s) = n
      /\ \A r \in 1..R : /\ s[r] \in Seq(Points) /\ Len(s[r]) = m
                         /\ \A k \in 1..m : s[r][k] = <<C(K(r, k)), L(r)>>
      /\ \A r \in (R + 1)..n : s[r] = <<>>
  BY RowsAre DEF RowsOver
<1>4. ASSUME NEW k \in Int
      PROVE  C(k) \in Int /\ C(k + 1) = C(k) + 2 * half /\ C(k - 1) = C(k) - 2 * half
             /\ L(k) \in Int /\ L(k + 1) = L(k) - 2 * half
  <2> DEFINE d == 2 * half
             p == d * (k - 1)
  <2>1. d \in Int /\ k - 1 \in Int
    BY <1>1
  <2> HIDE DEF d
  <2>2. p \in Int
    BY <2>1, SMT
  <2>3. d * ((k + 1) - 1) = p + d /\ d * ((k - 1) - 1) = p - d
    BY <2>1, SMT
  <2>4. /\ C(k) = half + p /\ C(k + 1) = half + d * ((k + 1) - 1) /\ C(k - 1) = half + d * ((k - 1) - 1)
        /\ L(k) = h - half - p /\ L(k + 1) = h - half - d * ((k + 1) - 1)
    BY DEF Column, Line, d
  <2> HIDE DEF p, C, L
  <2>5. /\ C(k) \in Int /\ C(k + 1) = C(k) + d /\ C(k - 1) = C(k) - d
        /\ L(k) \in Int /\ L(k + 1) = L(k) - d
    BY <1>1, <2>1, <2>2, <2>3, <2>4
  <2> QED
    BY <2>5 DEF d
<1> HIDE DEF n, m, R, s, C, L
<1>5. ASSUME NEW r \in 1..R, NEW j \in 1..(m - 1)
      PROVE  <<s[r][j], s[r][j + 1]>> \in S
  <2>1. j \in 1..m /\ j + 1 \in 1..m /\ r \in Int /\ j \in Int /\ m + 1 - j \in Int /\ m + 1 - (j + 1) = (m + 1 - j) - 1
    BY <1>2
  <2>2. s[r][j] = <<C(K(r, j)), L(r)>> /\ s[r][j + 1] = <<C(K(r, j + 1)), L(r)>>
    BY <1>3, <2>1
  <2>3. L(r) \in Int
    BY <1>4, <2>1
  <2>4. CASE r % 2 = 1
    <3>1. K(r, j) = j /\ K(r, j + 1) = j + 1
      BY <2>4
    <3>2. C(j) \in Int /\ C(j + 1) = C(j) + 2 * half
      BY <1>4, <2>1
    <3>3. << <<C(j), L(r)>>, <<C(j) + 2 * half, L(r)>> >> \in S
      BY <1>1, <2>3, <3>2, OneVision
    <3> QED
      BY <2>2, <3>1, <3>2, <3>3, Zenon
  <2>5. CASE r % 2 # 1
    <3> DEFINE i == m + 1 - j
    <3>1. K(r, j) = i /\ K(r, j + 1) = i - 1 /\ i \in Int
      BY <2>1, <2>5
    <3> HIDE DEF i
    <3>2. C(i) \in Int /\ C(i - 1) = C(i) - 2 * half
      BY <1>4, <3>1
    <3>3. << <<C(i), L(r)>>, <<C(i) - 2 * half, L(r)>> >> \in S
      BY <1>1, <2>3, <3>2, OneVision
    <3> QED
      BY <2>2, <3>1, <3>2, <3>3, Zenon
  <2> QED
    BY <2>4, <2>5
<1>6. ASSUME NEW r \in 1..(R - 1)
      PROVE  <<s[r][Len(s[r])], s[r + 1][1]>> \in S
  <2>1. r \in 1..R /\ r + 1 \in 1..R /\ r \in Int /\ 1 \in 1..m /\ m \in 1..m /\ m + 1 - m = 1 /\ m + 1 - 1 = m
    BY <1>2
  <2>2. s[r][Len(s[r])] = <<C(K(r, m)), L(r)>> /\ s[r + 1][1] = <<C(K(r + 1, 1)), L(r + 1)>>
    <3>1. Len(s[r]) = m
      BY <1>3, <2>1
    <3>2. s[r][m] = <<C(K(r, m)), L(r)>>
      BY <1>3, <2>1
    <3>3. s[r + 1][1] = <<C(K(r + 1, 1)), L(r + 1)>>
      BY <1>3, <2>1
    <3> QED
      BY <3>1, <3>2, <3>3
  <2>3. K(r, m) = K(r + 1, 1) /\ K(r, m) \in Int
    <3>1. (r % 2 = 1 /\ (r + 1) % 2 # 1) \/ (r % 2 # 1 /\ (r + 1) % 2 = 1)
      BY <2>1
    <3> QED
      BY <1>2, <2>1, <3>1
  <2> DEFINE k == K(r, m)
  <2> HIDE DEF k
  <2>4. k \in Int /\ s[r][Len(s[r])] = <<C(k), L(r)>> /\ s[r + 1][1] = <<C(k), L(r + 1)>>
    BY <2>2, <2>3 DEF k
  <2>5. C(k) \in Int /\ L(r) \in Int /\ L(r + 1) = L(r) - 2 * half
    BY <1>4, <2>1, <2>4
  <2>6. << <<C(k), L(r)>>, <<C(k), L(r) - 2 * half>> >> \in S
    BY <1>1, <2>5, OneVision
  <2> QED
    BY <2>4, <2>5, <2>6, Zenon
<1>7. LinkedRows(s, n, R, Points, S)
  <2>1. \A i \in 1..R : s[i] \in Seq(Points) /\ Len(s[i]) = m /\ Len(s[i]) >= 1
    BY <1>2, <1>3
  <2>2. \A i \in 1..R : \A j \in 1..(Len(s[i]) - 1) : <<s[i][j], s[i][j + 1]>> \in S
    BY <1>5, <2>1
  <2> HIDE DEF S
  <2> QED
    BY <1>3, <1>6, <2>1, <2>2 DEF LinkedRows
<1>8. /\ F \in Seq(Points)
      /\ \A k \in 1..(Len(F) - 1) : <<F[k], F[k + 1]>> \in S
      /\ \A a \in 1..R : \A b \in 1..Len(s[a]) : \E k \in 1..Len(F) : F[k] = s[a][b]
  <2> HIDE DEF S
  <2> QED
    BY <1>2, <1>7, FlattenLinked
<1> HIDE DEF F
<1>9. ASSUME NEW r \in 1..R, NEW k \in 1..m
      PROVE  \E j \in 1..Len(F) : F[j] = <<C(k), L(r)>>
  <2> DEFINE b == K(r, k)
  <2>1. b \in 1..m /\ K(r, b) = k
    BY <1>2
  <2> HIDE DEF b, K
  <2>2. Len(s[r]) = m /\ s[r][b] = <<C(K(r, b)), L(r)>>
    BY <1>3, <2>1
  <2>3. \E j \in 1..Len(F) : F[j] = s[r][b]
    BY <1>8, <2>1, <2>2
  <2> QED
    BY <2>1, <2>2, <2>3
<1>10. AllFlown(F, w, h, half)
  BY <1>8, <1>9 DEF AllFlown, m, R, C, L
<1> QED
  BY <1>10 DEF F, s, HoverPoints

\* A strip of the zone that a column shows, and one that a line shows.
LEMMA ColumnShows ==
    ASSUME NEW w, NEW h, NEW half, Sizable(w, h, half), NEW x \in 0..(w - half)
    PROVE  \E k \in 1..Columns(w, half) : Column(half, k) - half <= x /\ x + 1 <= Column(half, k) + half
<1> DEFINE d == 2 * half
           k == x \div d + 1
           p == d * (k - 1)
           c == Column(half, k)
<1>1. w \in Nat \ {0} /\ half \in Nat \ {0} /\ d \in Nat \ {0} /\ d = half + half /\ x \in Nat /\ x <= w - half
  BY SMT DEF Sizable
<1>2. k \in Nat \ {0} /\ p \in Nat /\ p <= x /\ x < p + d
  <2> DEFINE q == x \div d
             r == x % d
  <2> HIDE DEF d
  <2>1. q \in 0..x /\ r \in 0..(d - 1) /\ x = d * q + r
    BY <1>1, Strides
  <2>2. k = q + 1
    OBVIOUS
  <2> HIDE DEF q, r, k
  <2>3. k \in Nat \ {0} /\ k - 1 = q
    BY <1>1, <2>1, <2>2
  <2>4. p = d * q
    BY <2>3
  <2> HIDE DEF p
  <2> DEFINE t == d * q
  <2>5. t \in Nat
    BY <1>1, <2>1, SMT
  <2>6. x = t + r
    BY <2>1
  <2> HIDE DEF t
  <2>7. t <= x /\ x < t + d
    BY <1>1, <2>1, <2>5, <2>6
  <2> QED
    BY <2>3, <2>4, <2>5, <2>7 DEF t
<1>3. c = half + p
  BY DEF Column
<1> HIDE DEF k, p, c, d
<1>4. p < w /\ 20 * c < 22 * w /\ c - half <= x /\ x + 1 <= c + half
  BY <1>1, <1>2, <1>3
<1>5. k <= Columns(w, half) <=> p < w /\ 20 * c < 22 * w
  BY <1>2, Counts DEF p, d, c
<1>6. Columns(w, half) \in Nat
  <2>1. Columns(w, half) \in 1..StepsBelow(w, 2 * half) /\ StepsBelow(w, 2 * half) \in Nat \ {0}
    BY Counts
  <2> QED
    BY <2>1
<1>7. k \in 1..Columns(w, half)
  BY <1>2, <1>4, <1>5, <1>6
<1> QED
  BY <1>4, <1>7 DEF c

LEMMA LineShows ==
    ASSUME NEW w, NEW h, NEW half, Sizable(w, h, half), NEW y \in (half - 1)..(h - 1)
    PROVE  \E r \in 1..Lines(h, half) : Line(h, half, r) - half <= y /\ y + 1 <= Line(h, half, r) + half
<1> DEFINE d == 2 * half
           x == h - 1 - y
           k == x \div d + 1
           p == d * (k - 1)
           c == Line(h, half, k)
<1>1. /\ h \in Nat \ {0} /\ half \in Nat \ {0} /\ d \in Nat \ {0} /\ d = half + half
      /\ x \in Nat /\ x <= h - half /\ y \in Nat /\ y = h - 1 - x
  BY SMT DEF Sizable
<1>2. k \in Nat \ {0} /\ p \in Nat /\ p <= x /\ x < p + d
  <2> DEFINE q == x \div d
             r == x % d
  <2> HIDE DEF d, x
  <2>1. q \in 0..x /\ r \in 0..(d - 1) /\ x = d * q + r
    BY <1>1, Strides
  <2>2. k = q + 1
    OBVIOUS
  <2> HIDE DEF q, r, k
  <2>3. k \in Nat \ {0} /\ k - 1 = q
    BY <1>1, <2>1, <2>2
  <2>4. p = d * q
    BY <2>3
  <2> HIDE DEF p
  <2> DEFINE t == d * q
  <2>5. t \in Nat
    BY <1>1, <2>1, SMT
  <2>6. x = t + r
    BY <2>1
  <2> HIDE DEF t
  <2>7. t <= x /\ x < t + d
    BY <1>1, <2>1, <2>5, <2>6
  <2> QED
    BY <2>3, <2>4, <2>5, <2>7 DEF t
<1>3. c = h - half - p
  BY DEF Line
<1> HIDE DEF k, p, c, d, x
<1>4. p < h /\ 20 * c >= -2 * h /\ c - half <= y /\ y + 1 <= c + half
  BY <1>1, <1>2, <1>3
<1>5. k <= Lines(h, half) <=> p < h /\ 20 * c >= -2 * h
  BY <1>2, Counts DEF p, d, c
<1>6. Lines(h, half) \in Nat
  <2>1. Lines(h, half) \in 1..StepsBelow(h, 2 * half) /\ StepsBelow(h, 2 * half) \in Nat \ {0}
    BY Counts
  <2> QED
    BY <2>1
<1>7. k \in 1..Lines(h, half)
  BY <1>2, <1>4, <1>5, <1>6
<1> QED
  BY <1>4, <1>7 DEF c

\* The hover points show the zone, and the plane moves by one vision from each to the next, for
\* every rectangle larger than the vision (HoverCoveragePathing::run).
THEOREM HoverSeesZone == CallSpec => []HoverCoversZone
<1> DEFINE Planned ==
             call.op = "hover" =>
               \E w, h \in Sides, half \in Halves :
                 /\ Sizable(w, h, half)
                 /\ call.zone = Rectangle(w, h) /\ call.half = half
                 /\ answer = HoverPoints(Rectangle(w, h), half)
<1>1. InitCall => Planned
  BY DEF InitCall, NoCall
<1>2. Planned /\ [NextCall]_callVars => Planned'
  <2> SUFFICES ASSUME Planned, [NextCall]_callVars PROVE Planned'
    OBVIOUS
  <2>1. CASE PlanHover
    <3>1. PICK w \in Sides, h \in Sides, half \in Halves :
            /\ w > 2 * half /\ h > 2 * half
            /\ call' = [op |-> "hover", zone |-> Rectangle(w, h), half |-> half]
            /\ answer' = HoverPoints(Rectangle(w, h), half)
      BY <2>1 DEF PlanHover, Rectangle
    <3>2. Sizable(w, h, half)
      BY <3>1, SidesAssumption, HalvesAssumption DEF Sizable
    <3>3. call'.zone = Rectangle(w, h) /\ call'.half = half
      BY <3>1
    <3> QED
      BY <3>1, <3>2, <3>3
  <2>2. CASE UNCHANGED callVars
    BY <2>2 DEF callVars
  <2>3. CASE ~PlanHover /\ NextCall
    <3>1. call'.op # "hover"
      BY <2>3, OtherCalls
    <3> QED
      BY <3>1
  <2> QED
    BY <2>1, <2>2, <2>3
<1>3. Planned => HoverCoversZone
  <2> SUFFICES ASSUME Planned, call.op = "hover" PROVE HoverCoversZone
    BY DEF HoverCoversZone
  <2>1. PICK w \in Sides, h \in Sides, half \in Halves :
          /\ Sizable(w, h, half)
          /\ call.zone = Rectangle(w, h) /\ call.half = half
          /\ answer = HoverPoints(Rectangle(w, h), half)
    OBVIOUS
  <2>2. AllFlown(answer, w, h, half)
    BY <2>1, RowsFlown
  <2> HIDE DEF Planned
  <2>3. X(call.zone[3]) = w /\ Y(call.zone[3]) = h
    BY <2>1 DEF Rectangle, X, Y
  <2>4. answer \in Seq(Points) /\ DOMAIN answer = 1..Len(answer) /\ Len(answer) \in Nat
    <3>1. answer \in Seq(Points)
      BY <2>2 DEF AllFlown
    <3> QED
      BY <3>1, SMT
  <2>5. ASSUME NEW x \in 0..(w - half), NEW y \in (half - 1)..(h - 1)
        PROVE  \E j \in DOMAIN answer :
                 /\ X(answer[j]) - half <= x /\ x + 1 <= X(answer[j]) + half
                 /\ Y(answer[j]) - half <= y /\ y + 1 <= Y(answer[j]) + half
    <3>1. PICK k \in 1..Columns(w, half) : Column(half, k) - half <= x /\ x + 1 <= Column(half, k) + half
      BY <2>1, ColumnShows
    <3>2. PICK r \in 1..Lines(h, half) : Line(h, half, r) - half <= y /\ y + 1 <= Line(h, half, r) + half
      BY <2>1, LineShows
    <3>3. PICK j \in 1..Len(answer) : answer[j] = <<Column(half, k), Line(h, half, r)>>
      BY <2>2 DEF AllFlown
    <3>4. X(answer[j]) = Column(half, k) /\ Y(answer[j]) = Line(h, half, r)
      BY <3>3 DEF X, Y
    <3> QED
      BY <2>4, <3>1, <3>2, <3>4
  <2>6. ASSUME NEW k \in 1..(Len(answer) - 1)
        PROVE  {X(answer[k + 1]) - X(answer[k]), Y(answer[k + 1]) - Y(answer[k])}
                 \in {{0, 2 * half}, {0, -2 * half}}
    <3>1. <<answer[k], answer[k + 1]>> \in Moves(half)
      BY <2>2 DEF AllFlown
    <3> DEFINE a == answer[k]
               b == answer[k + 1]
    <3> HIDE DEF a, b
    <3>2. <<a, b>> \in Moves(half) => {X(b) - X(a), Y(b) - Y(a)} \in {{0, 2 * half}, {0, -2 * half}}
      BY DEF Moves
    <3> QED
      BY <3>1, <3>2, Zenon DEF a, b
  <2> DEFINE Seen(x, y, b) == \E k \in DOMAIN answer :
               /\ X(answer[k]) - b <= x /\ x + 1 <= X(answer[k]) + b
               /\ Y(answer[k]) - b <= y /\ y + 1 <= Y(answer[k]) + b
             Moved(k, b) == {X(answer[k + 1]) - X(answer[k]), Y(answer[k + 1]) - Y(answer[k])}
                              \in {{0, 2 * b}, {0, -2 * b}}
  <2>7. /\ \A x \in 0..(w - half), y \in (half - 1)..(h - 1) : Seen(x, y, half)
        /\ \A k \in 1..(Len(answer) - 1) : Moved(k, half)
    BY <2>5, <2>6
  <2>8. HoverCoversZone
          <=> /\ \A x \in 0..(X(call.zone[3]) - call.half),
                    y \in (call.half - 1)..(Y(call.zone[3]) - 1) : Seen(x, y, call.half)
              /\ \A k \in 1..(Len(answer) - 1) : Moved(k, call.half)
    BY Zenon DEF HoverCoversZone
  <2> HIDE DEF Seen, Moved
  <2> QED
    BY <2>1, <2>3, <2>7, <2>8
<1> HIDE DEF Planned
<1> QED
  BY <1>1, <1>2, <1>3, PTL DEF CallSpec

-------------------------------------------------------------------------------
(* The sweeps over a zone.                                                *)

\* A set of corners that has with each the next one has all of them.
LEMMA AllAround ==
    ASSUME NEW n \in Nat \ {0}, NEW S, S \subseteq 1..n, S # {},
           \A i \in S : (IF i = n THEN 1 ELSE i + 1) \in S
    PROVE  S = 1..n
<1>1. ASSUME NEW m \in 1..n, m \in S, NEW k \in m..n PROVE k \in S
  <2> DEFINE T == {j \in m..n : j \notin S}
  <2>1. CASE T # {}
    <3>1. T \subseteq Nat
      OBVIOUS
    <3>2. PICK j \in T : \A i \in T : j <= i
      <4> HIDE DEF T
      <4> QED
        BY <2>1, <3>1, LeastElement
    <3>3. j \in m..n /\ j \notin S /\ j # m
      BY <1>1, <3>2
    <3>4. j - 1 \in m..n /\ j - 1 \notin T /\ j - 1 # n /\ (j - 1) + 1 = j
      BY <3>2, <3>3
    <3> QED
      BY <3>3, <3>4
  <2>2. CASE T = {}
    BY <2>2
  <2> QED
    BY <2>1, <2>2
<1>2. PICK l \in S : l \in 1..n
  OBVIOUS
<1>3. n \in S
  BY <1>1, <1>2
<1>4. 1 \in S /\ 1 \in 1..n
  BY <1>3
<1> QED
  BY <1>1, <1>4

\* Of finitely many integers one is least, and one is greatest.
LEMMA LeastOf ==
    ASSUME NEW n \in Nat \ {0}, NEW f, \A i \in 1..n : f[i] \in Int
    PROVE  \E j \in 1..n : \A i \in 1..n : f[j] <= f[i]
<1> DEFINE Has(m) == \E j \in 1..m : \A i \in 1..m : f[j] <= f[i]
           T == {m \in 1..n : ~Has(m)}
<1>1. CASE T # {}
  <2>1. T \subseteq Nat
    OBVIOUS
  <2>2. PICK m \in T : \A k \in T : m <= k
    <3> HIDE DEF T
    <3> QED
      BY <1>1, <2>1, LeastElement, Zenon
  <2>3. CASE m = 1
    <3>1. 1..m = {1} /\ 1 \in 1..n
      BY <2>3
    <3>2. f[1] \in Int
      BY <3>1
    <3>3. f[1] <= f[1]
      BY <3>2
    <3>4. Has(m)
      BY <3>1, <3>3, Zenon
    <3>5. ~Has(m)
      BY <2>2, Zenon
    <3> QED
      BY <3>4, <3>5, Zenon
  <2>4. CASE m # 1
    <3>1. m - 1 \in 1..n /\ m - 1 \notin T /\ m \in 1..n
      <4>1. m \in 1..n
        BY <2>2, Zenon
      <4> HIDE DEF T
      <4>2. m - 1 \in 1..n /\ ~(m <= m - 1)
        BY <2>4, <4>1, SMT
      <4> QED
        BY <2>2, <4>1, <4>2, Zenon
    <3>2. PICK j \in 1..(m - 1) : \A i \in 1..(m - 1) : f[j] <= f[i]
      BY <3>1
    <3>3. j \in 1..m /\ \A i \in 1..m : i \in 1..(m - 1) \/ i = m
      BY <3>1
    <3>4. f[j] \in Int /\ f[m] \in Int /\ \A i \in 1..m : f[i] \in Int
      BY <3>1, <3>3
    <3>5. CASE f[j] <= f[m]
      BY <2>2, <3>2, <3>3, <3>5
    <3>6. CASE f[m] < f[j]
      <4>1. \A i \in 1..m : f[m] <= f[i]
        BY <3>2, <3>3, <3>4, <3>6
      <4> QED
        BY <2>2, <4>1
    <3> QED
      BY <3>4, <3>5, <3>6
  <2> QED
    BY <2>3, <2>4
<1>2. CASE T = {}
  BY <1>2
<1> QED
  BY <1>1, <1>2

LEMMA GreatestOf ==
    ASSUME NEW n \in Nat \ {0}, NEW f, \A i \in 1..n : f[i] \in Int
    PROVE  \E j \in 1..n : \A i \in 1..n : f[i] <= f[j]
<1> DEFINE g == [i \in 1..n |-> -f[i]]
<1>1. \A i \in 1..n : g[i] = -f[i] /\ g[i] \in Int
  OBVIOUS
<1> HIDE DEF g
<1>2. PICK j \in 1..n : \A i \in 1..n : g[j] <= g[i]
  BY <1>1, LeastOf
<1>3. \A i \in 1..n : f[i] <= f[j]
  BY <1>1, <1>2
<1> QED
  BY <1>3

LEMMA LeastIs ==
    ASSUME NEW S, S \subseteq Int, NEW m \in S, \A v \in S : m <= v
    PROVE  Least(S) = m
<1> DEFINE l == Least(S)
<1>1. l \in S /\ \A v \in S : l <= v
  BY DEF Least
<1> HIDE DEF l
<1>2. l \in Int /\ m \in Int /\ l <= m /\ m <= l
  BY <1>1
<1>3. l = m
  BY <1>2
<1> QED
  BY <1>3 DEF l

LEMMA GreatestIs ==
    ASSUME NEW S, S \subseteq Int, NEW m \in S, \A v \in S : v <= m
    PROVE  Greatest(S) = m
<1> DEFINE l == Greatest(S)
<1>1. l \in S /\ \A v \in S : l >= v
  BY DEF Greatest
<1> HIDE DEF l
<1>2. l \in Int /\ m \in Int /\ l <= m /\ m <= l
  BY <1>1
<1>3. l = m
  BY <1>2
<1> QED
  BY <1>3 DEF l

\* A zone as getAirdropWaypoints is given one.
Sound(zone) == zone \in Seq(Int \X Int) /\ Len(zone) >= 3

LEMMA CornerFacts ==
    ASSUME NEW zone, Sound(zone)
    PROVE  /\ Len(zone) \in Nat \ {0} /\ DOMAIN zone = 1..Len(zone)
           /\ \A i \in 1..Len(zone) :
                /\ zone[i] = <<zone[i][1], zone[i][2]>> /\ zone[i][1] \in Int /\ zone[i][2] \in Int
                /\ After(zone, i) \in 1..Len(zone) /\ After(zone, i) # i
<1>1. zone \in Seq(Int \X Int) /\ Len(zone) \in Nat /\ Len(zone) >= 3 /\ DOMAIN zone = 1..Len(zone)
  BY SMT DEF Sound
<1> DEFINE n == Len(zone)
<1>2. ASSUME NEW i \in 1..n
      PROVE  /\ zone[i] = <<zone[i][1], zone[i][2]>> /\ zone[i][1] \in Int /\ zone[i][2] \in Int
             /\ After(zone, i) \in 1..n /\ After(zone, i) # i
  <2>1. zone[i] \in Int \X Int
    BY <1>1, SMT
  <2>2. zone[i] = <<zone[i][1], zone[i][2]>> /\ zone[i][1] \in Int /\ zone[i][2] \in Int
    BY <2>1
  <2> HIDE DEF n
  <2>3. n \in Nat /\ n >= 3 /\ After(zone, i) = IF i = n THEN 1 ELSE i + 1
    BY <1>1 DEF n, After
  <2>4. After(zone, i) \in 1..n /\ After(zone, i) # i
    BY <2>3
  <2> QED
    BY <2>2, <2>4
<1> QED
  BY <1>1, <1>2

\* A line between corners, through none of them, is crossed by an edge to the one side
\* and by an edge back.
LEMMA Crossings ==
    ASSUME NEW zone, Sound(zone), NEW axis \in {1, 2}, NEW at \in Int,
           \A i \in 1..Len(zone) : zone[i][axis] # at,
           NEW l \in 1..Len(zone), zone[l][axis] < at, NEW g \in 1..Len(zone), at < zone[g][axis]
    PROVE  /\ \E i \in 1..Len(zone) : zone[i][axis] < at /\ at < zone[After(zone, i)][axis]
           /\ \E i \in 1..Len(zone) : zone[After(zone, i)][axis] < at /\ at < zone[i][axis]
<1> DEFINE n == Len(zone)
           v(i) == zone[i][axis]
           Low == {i \in 1..n : v(i) < at}
           High == {i \in 1..n : at < v(i)}
<1>1. /\ n \in Nat \ {0} /\ \A i \in 1..n : v(i) \in Int /\ After(zone, i) \in 1..n
      /\ \A i \in 1..n : After(zone, i) = IF i = n THEN 1 ELSE i + 1
  BY CornerFacts DEF After
<1>2. l \in 1..n /\ g \in 1..n /\ v(l) < at /\ at < v(g) /\ \A i \in 1..n : v(i) # at
  OBVIOUS
<1> HIDE DEF n, v
<1>3. ASSUME NEW i \in 1..n PROVE i \in Low <=> i \notin High
  <2>1. v(i) \in Int /\ v(i) # at
    BY <1>1, <1>2
  <2>2. v(i) < at <=> ~(at < v(i))
    BY <2>1
  <2> QED
    BY <2>2
<1>4. l \in Low /\ g \in High /\ Low \subseteq 1..n /\ High \subseteq 1..n
  BY <1>2
<1>5. \E i \in 1..n : i \in Low /\ After(zone, i) \in High
  <2>1. CASE \A i \in Low : After(zone, i) \in Low
    <3> HIDE DEF Low, High
    <3>1. \A i \in Low : (IF i = n THEN 1 ELSE i + 1) \in Low
      BY <1>1, <1>4, <2>1
    <3>2. Low = 1..n
      BY <1>1, <1>4, <3>1, AllAround
    <3> QED
      BY <1>2, <1>3, <1>4, <3>2
  <2>2. CASE \E i \in Low : After(zone, i) \notin Low
    <3> HIDE DEF Low, High
    <3> QED
      BY <1>1, <1>3, <1>4, <2>2
  <2> QED
    BY <2>1, <2>2
<1>6. \E i \in 1..n : i \in High /\ After(zone, i) \in Low
  <2>1. CASE \A i \in High : After(zone, i) \in High
    <3> HIDE DEF Low, High
    <3>1. \A i \in High : (IF i = n THEN 1 ELSE i + 1) \in High
      BY <1>1, <1>4, <2>1
    <3>2. High = 1..n
      BY <1>1, <1>4, <3>1, AllAround
    <3> QED
      BY <1>2, <1>3, <1>4, <3>2
  <2>2. CASE \E i \in High : After(zone, i) \notin High
    <3> HIDE DEF Low, High
    <3> QED
      BY <1>1, <1>3, <1>4, <2>2
  <2> QED
    BY <2>1, <2>2
<1> QED
  BY <1>5, <1>6 DEF n, v

\* Weights of one sign put together to nothing only what is nothing.
LEMMA WeightedSides ==
    ASSUME NEW x \in Int, NEW y \in Int, (x >= 0 /\ y >= 0) \/ (x <= 0 /\ y <= 0),
           NEW u \in Int, NEW w \in Int, (u > 0 /\ w > 0) \/ (u < 0 /\ w < 0), x * u + y * w = 0
    PROVE  x = 0 /\ y = 0
<1>1. \A a, b \in Int : (a >= 0 /\ b > 0) => a * b >= 0 /\ (a * b = 0 => a = 0)
  BY SMT
<1>2. \A a, b \in Int : a * b = (-a) * (-b) /\ a * b = -((-a) * b) /\ a * b = -(a * (-b)) /\ a * b \in Int
  BY SMT
<1> QED
  BY <1>1, <1>2

LEMMA ExactDivision ==
    ASSUME NEW c \in Int, NEW d \in Nat \ {0} PROVE (c * d) \div d = c
<1> DEFINE p == c * d
           q == p \div d
<1>1. p \in Int /\ q \in Int /\ q * d <= p /\ p < q * d + d
  BY SMT
<1>2. p - q * d = (c - q) * d /\ c - q \in Int
  BY <1>1, SMT
<1> DEFINE r == c - q
<1>3. r * d >= 0 /\ r * d < d
  BY <1>1, <1>2, SMT
<1>4. r \in Int
  BY <1>2
<1> HIDE DEF r
<1>5. r = 0
  <2>1. r >= 1 => r * d >= d
    BY <1>4, SMT
  <2>2. r <= -1 => r * d <= -d
    BY <1>4, SMT
  <2> QED
    BY <1>3, <1>4, <2>1, <2>2, SMT
<1> QED
  BY <1>1, <1>5 DEF r

\* The division of MeetsAt, whole because Fine is a multiple of the run.
LEMMA PartsOfRise ==
    ASSUME NEW r \in Int, NEW run \in Int, run # 0, NEW F \in Nat, F % (IF run > 0 THEN run ELSE -run) = 0
    PROVE  LET part == IF run > 0 THEN (r * F) \div run ELSE (-(r * F)) \div (-run)
           IN  part \in Int /\ part * run = F * r
<1> DEFINE d == IF run > 0 THEN run ELSE -run
           m == F \div d
<1>1. d \in Nat \ {0}
  BY SMT
<1>2. m \in Int /\ F = m * d
  <2> HIDE DEF d
  <2>1. F = d * (F \div d) + (F % d) /\ F \div d \in Int
    BY <1>1, SMT
  <2> QED
    BY <1>1, <2>1, SMT DEF d
<1>3. CASE run > 0
  <2>1. r * F = (r * m) * run /\ r * m \in Int /\ run \in Nat \ {0}
    BY <1>2, <1>3, SMT
  <2>2. (r * F) \div run = r * m
    BY <2>1, ExactDivision
  <2>3. (r * m) * run = F * r
    BY <1>2, <1>3, SMT
  <2> QED
    BY <1>3, <2>1, <2>2, <2>3
<1>4. CASE ~(run > 0)
  <2>1. -(r * F) = (-(r * m)) * (-run) /\ -(r * m) \in Int /\ -run \in Nat \ {0}
    BY <1>2, <1>4, SMT
  <2>2. (-(r * F)) \div (-run) = -(r * m)
    BY <2>1, ExactDivision
  <2>3. (-(r * m)) * run = F * r
    BY <1>2, <1>4, SMT
  <2> QED
    BY <1>4, <2>1, <2>2, <2>3
<1> QED
  BY <1>3, <1>4

\* A part of a rise lies within it.
LEMMA PartWithin ==
    ASSUME NEW E \in Int, NEW t \in Int, NEW D \in Int, Inside(t, 0, D), NEW v \in Int, v * D = E * t
    PROVE  v \in 0..E \/ v \in E..0
<1>1. ASSUME NEW e \in Nat, NEW s \in Nat, NEW d \in Nat \ {0}, s <= d, NEW x \in Int, x * d = e * s
      PROVE  0 <= x /\ x <= e
  <2>1. e * s >= 0 /\ e * (d - s) >= 0 /\ e * (d - s) = e * d - e * s
    BY <1>1, SMT
  <2>2. (e - x) * d = e * d - x * d
    BY SMT
  <2>3. x * d >= 0 /\ (e - x) * d >= 0
    BY <1>1, <2>1, <2>2, SMT
  <2>4. \A z \in Int : z * d >= 0 => z >= 0
    BY SMT
  <2> QED
    BY <2>3, <2>4, SMT
<1>2. ASSUME NEW e \in Int, NEW s \in Nat, NEW d \in Nat \ {0}, s <= d, NEW x \in Int, x * d = e * s
      PROVE  x \in 0..e \/ x \in e..0
  <2>1. CASE e >= 0
    BY <1>1, <1>2, <2>1
  <2>2. CASE e < 0
    <3>1. (-x) * d = (-e) * s /\ -x \in Int /\ -e \in Nat
      BY <1>2, <2>2, SMT
    <3>2. 0 <= -x /\ -x <= -e
      BY <1>1, <1>2, <3>1
    <3> QED
      BY <2>2, <3>2
  <2> QED
    BY <2>1, <2>2
<1>3. CASE D > 0
  BY <1>2, <1>3 DEF Inside
<1>4. CASE ~(D > 0)
  <2>1. v * (-D) = E * (-t) /\ -t \in Nat /\ -D \in Nat \ {0} /\ -t <= -D
    BY <1>4, SMT DEF Inside
  <2> QED
    BY <1>2, <2>1
<1> QED
  BY <1>3, <1>4

\* Where an edge meets a line it crosses.
LEMMA MeetsExactly ==
    ASSUME NEW zone, Sound(zone), Resolves(zone), NEW axis \in {1, 2}, NEW at \in Int,
           NEW i \in 1..Len(zone), Inside(at, zone[i][axis], zone[After(zone, i)][axis])
    PROVE  LET a == zone[i]  b == zone[After(zone, i)]  along == 3 - axis
               w == MeetsAt(a, b, at, axis)
           IN  /\ w \in Int
               /\ (w - Fine * a[along]) * (b[axis] - a[axis]) = Fine * ((b[along] - a[along]) * (at - a[axis]))
<1> DEFINE a == zone[i]
           b == zone[After(zone, i)]
           along == 3 - axis
           w == MeetsAt(a, b, at, axis)
           run == b[axis] - a[axis]
           r == (b[along] - a[along]) * (at - a[axis])
           part == IF run > 0 THEN (r * Fine) \div run ELSE (-(r * Fine)) \div (-run)
<1>1. along \in {1, 2}
  OBVIOUS
<1>2. a[axis] \in Int /\ a[along] \in Int /\ b[axis] \in Int /\ b[along] \in Int
  <2> HIDE DEF along
  <2>1. i \in 1..Len(zone) /\ After(zone, i) \in 1..Len(zone)
    BY CornerFacts
  <2>2. \A j \in 1..Len(zone), x \in {1, 2} : zone[j][x] \in Int
    BY CornerFacts
  <2> QED
    BY <1>1, <2>1, <2>2
<1>3. Inside(at, a[axis], b[axis])
  OBVIOUS
<1>4. run # 0 => Fine % (IF run > 0 THEN run ELSE -run) = 0
  <2>1. i \in DOMAIN zone
    BY CornerFacts
  <2> QED
    BY <2>1 DEF Resolves
<1>5. w = Fine * a[along] + part
  BY DEF MeetsAt
<1> HIDE DEF a, b, along, w
<1>6. r \in Int /\ run \in Int /\ run # 0
  <2>1. \A s, u \in Int : Inside(at, s, u) => u - s # 0
    BY SMT DEF Inside
  <2>2. \A s, u, x, y \in Int : (y - x) * (at - s) \in Int /\ u - s \in Int
    BY SMT
  <2> QED
    BY <1>2, <1>3, <2>1, <2>2, Zenon
<1>7. part \in Int /\ part * run = Fine * r
  <2> HIDE DEF run, r
  <2> QED
    BY <1>4, <1>6, FineAssumption, PartsOfRise
<1> DEFINE base == Fine * a[along]
<1>8. base \in Int
  BY <1>2, FineAssumption, SMT
<1> HIDE DEF part, base
<1>9. w \in Int /\ w - base = part
  BY <1>5, <1>7, <1>8 DEF base
<1> QED
  BY <1>7, <1>9 DEF a, b, along, w, base, run, r

\* The line from a to b is at w (in parts of F) where it is at the place `at` across.
On(w, F, ax, ay, bx, by, at) == (w - F * ay) * (bx - ax) = F * ((by - ay) * (at - ax))
\* The sides on which c and d are of the line from a to b, weighed by each other's distance.
Balance(ax, ay, bx, by, cx, cy, dx, dy, at) ==
    ((bx - ax) * (cy - ay) - (by - ay) * (cx - ax)) * (dx - at)
      + ((bx - ax) * (dy - ay) - (by - ay) * (dx - ax)) * (at - cx)

Balanced(ax, ay, bx, by, cx, cy, dx, dy, at) == Balance(ax, ay, bx, by, cx, cy, dx, dy, at) = 0

\* Two lines in one place: the ends of the one balance on the other.
LEMMA SamePlace ==
    ASSUME NEW ax \in Int, NEW ay \in Int, NEW bx \in Int, NEW by \in Int,
           NEW cx \in Int, NEW cy \in Int, NEW dx \in Int, NEW dy \in Int,
           NEW at \in Int, NEW w \in Int, NEW F \in Int, F # 0,
           On(w, F, ax, ay, bx, by, at), On(w, F, cx, cy, dx, dy, at)
    PROVE  Balanced(ax, ay, bx, by, cx, cy, dx, dy, at)
<1> DEFINE sum == Balance(ax, ay, bx, by, cx, cy, dx, dy, at)
           p == (w - F * ay) * (bx - ax) - F * ((by - ay) * (at - ax))
           q == (w - F * cy) * (dx - cx) - F * ((dy - cy) * (at - cx))
<1>1. F * sum = (dx - cx) * p - (bx - ax) * q
  BY SMT DEF Balance
<1>2. p = 0 /\ q = 0 /\ sum \in Int
  BY SMT DEF Balance, On
<1>3. (dx - cx) * 0 - (bx - ax) * 0 = 0
  BY SMT
<1> HIDE DEF sum, p, q
<1>4. F * sum = 0
  BY <1>1, <1>2, <1>3
<1>5. sum = 0
  BY <1>2, <1>4, SMT
<1> QED
  BY <1>5 DEF sum, Balanced

\* The side of a corner in the coordinate across the lines and the one along them.
Beside(zone, axis, i, k) ==
    LET a == zone[i]  b == zone[After(zone, i)]  p == zone[k]  along == 3 - axis
    IN  (b[axis] - a[axis]) * (p[along] - a[along]) - (b[along] - a[along]) * (p[axis] - a[axis])

LEMMA BesideIsSide ==
    ASSUME NEW zone, Sound(zone), Convex(zone), NEW axis \in {1, 2}, NEW i \in 1..Len(zone)
    PROVE  /\ \A k \in 1..Len(zone) : Beside(zone, axis, i, k) \in Int
           /\ \/ \A k \in 1..Len(zone) : Beside(zone, axis, i, k) >= 0
              \/ \A k \in 1..Len(zone) : Beside(zone, axis, i, k) <= 0
           /\ \A k \in 1..Len(zone) : Beside(zone, axis, i, k) = 0 =>
                ~Inside(zone[k][axis], zone[i][axis], zone[After(zone, i)][axis])
<1>1. /\ DOMAIN zone = 1..Len(zone) /\ After(zone, i) \in 1..Len(zone)
      /\ \A j \in 1..Len(zone) : zone[j][1] \in Int /\ zone[j][2] \in Int
  BY CornerFacts
<1>2. ASSUME NEW k \in 1..Len(zone)
      PROVE  /\ Side(zone, i, k) \in Int
             /\ Beside(zone, 1, i, k) = Side(zone, i, k)
             /\ Beside(zone, 2, i, k) = -Side(zone, i, k)
  <2> DEFINE a == zone[i]
             b == zone[After(zone, i)]
             p == zone[k]
  <2>1. /\ a[1] \in Int /\ a[2] \in Int /\ b[1] \in Int /\ b[2] \in Int /\ p[1] \in Int /\ p[2] \in Int
    BY <1>1
  <2>2. Side(zone, i, k) = (b[1] - a[1]) * (p[2] - a[2]) - (b[2] - a[2]) * (p[1] - a[1])
    BY Zenon DEF Side, X, Y
  <2>3. /\ Beside(zone, 1, i, k) = (b[1] - a[1]) * (p[2] - a[2]) - (b[2] - a[2]) * (p[1] - a[1])
        /\ Beside(zone, 2, i, k) = (b[2] - a[2]) * (p[1] - a[1]) - (b[1] - a[1]) * (p[2] - a[2])
    BY DEF Beside
  <2> HIDE DEF a, b, p
  <2> DEFINE s == (b[1] - a[1]) * (p[2] - a[2])
             t == (b[2] - a[2]) * (p[1] - a[1])
  <2>4. s \in Int /\ t \in Int
    <3>1. \A u, v, x, y \in Int : (u - v) * (x - y) \in Int
      BY SMT
    <3> QED
      BY <2>1, <3>1, Zenon
  <2>5. Side(zone, i, k) = s - t /\ Beside(zone, 1, i, k) = s - t /\ Beside(zone, 2, i, k) = t - s
    BY <2>2, <2>3, Zenon
  <2> HIDE DEF s, t
  <2> QED
    BY <2>4, <2>5
<1>3. \A k \in 1..Len(zone) : Side(zone, i, k) = 0 =>
        /\ ~Inside(zone[k][1], zone[i][1], zone[After(zone, i)][1])
        /\ ~Inside(zone[k][2], zone[i][2], zone[After(zone, i)][2])
  BY <1>1 DEF Convex, X, Y
<1>4. \/ \A k \in 1..Len(zone) : Side(zone, i, k) >= 0
      \/ \A k \in 1..Len(zone) : Side(zone, i, k) <= 0
  BY <1>1 DEF Convex
<1>5. CASE axis = 1
  BY <1>2, <1>3, <1>4, <1>5
<1>6. CASE axis = 2
  <2>1. \A k \in 1..Len(zone) : /\ Beside(zone, 2, i, k) \in Int /\ Side(zone, i, k) \in Int
                                /\ Beside(zone, 2, i, k) = -Side(zone, i, k)
    BY <1>2, SMT
  <2>2. \A k \in 1..Len(zone) : /\ Beside(zone, 2, i, k) <= 0 <=> Side(zone, i, k) >= 0
                                /\ Beside(zone, 2, i, k) >= 0 <=> Side(zone, i, k) <= 0
                                /\ Beside(zone, 2, i, k) = 0 <=> Side(zone, i, k) = 0
    BY <2>1, SMT
  <2> QED
    BY <1>3, <1>4, <1>6, <2>1, <2>2
<1> QED
  BY <1>5, <1>6

\* Four places, two of them on each side of a fifth, none of the one pair between the others.
LEMMA SamePairs ==
    ASSUME NEW at \in Int, NEW a \in Int, NEW b \in Int, NEW c \in Int, NEW d \in Int,
           Inside(at, a, b), Inside(at, c, d),
           ~Inside(c, a, b), ~Inside(d, a, b), ~Inside(a, c, d), ~Inside(b, c, d)
    PROVE  (c = a /\ d = b) \/ (c = b /\ d = a)
BY SMT DEF Inside

\* A corner on the line of an edge, and level with one end of it, is that end.
LEMMA LevelIsSame ==
    ASSUME NEW zone, Sound(zone), Convex(zone), NEW axis \in {1, 2}, NEW i \in 1..Len(zone),
           NEW at \in Int, Inside(at, zone[i][axis], zone[After(zone, i)][axis]),
           NEW k \in 1..Len(zone), Beside(zone, axis, i, k) = 0,
           NEW o \in {i, After(zone, i)}, zone[k][axis] = zone[o][axis]
    PROVE  k = o
<1> DEFINE along == 3 - axis
           a == zone[i]
           b == zone[After(zone, i)]
           p == zone[k]
<1>0. along \in {1, 2} /\ along # axis
  BY SMT
<1>1. /\ DOMAIN zone = 1..Len(zone)
      /\ i \in 1..Len(zone) /\ After(zone, i) \in 1..Len(zone) /\ k \in 1..Len(zone) /\ o \in 1..Len(zone)
      /\ \A j \in 1..Len(zone) : zone[j] = <<zone[j][1], zone[j][2]>> /\ zone[j][1] \in Int /\ zone[j][2] \in Int
  BY CornerFacts
<1>2. \A j \in 1..Len(zone) : zone[j][axis] \in Int /\ zone[j][along] \in Int
  <2> HIDE DEF along
  <2> QED
    BY <1>0, <1>1
<1>3. (b[axis] - a[axis]) * (p[along] - a[along]) - (b[along] - a[along]) * (p[axis] - a[axis]) = 0
  BY DEF Beside
<1>4. Inside(at, a[axis], b[axis]) /\ p[axis] = zone[o][axis] /\ (zone[o] = a \/ zone[o] = b)
  OBVIOUS
<1>5. /\ a[axis] \in Int /\ a[along] \in Int /\ b[axis] \in Int /\ b[along] \in Int
      /\ p[axis] \in Int /\ p[along] \in Int
  BY <1>1, <1>2
<1>6. \A ax, ay, bx, by, px, py \in Int :
        /\ Inside(at, ax, bx) => bx - ax # 0
        /\ ((bx - ax) * (py - ay) - (by - ay) * (px - ax) = 0 /\ px = ax /\ bx - ax # 0) => py = ay
        /\ ((bx - ax) * (py - ay) - (by - ay) * (px - ax) = 0 /\ px = bx /\ bx - ax # 0) => py = by
  <2> TAKE ax, ay, bx, by, px, py \in Int
  <2>1. Inside(at, ax, bx) => bx - ax # 0
    BY SMT DEF Inside
  <2>2. \A x, y \in Int : (x # 0 /\ x * y = 0) => y = 0
    BY SMT
  <2>3. ASSUME (bx - ax) * (py - ay) - (by - ay) * (px - ax) = 0, px = ax, bx - ax # 0 PROVE py = ay
    <3>1. (bx - ax) * (py - ay) = 0 /\ bx - ax \in Int /\ py - ay \in Int
      BY <2>3, SMT
    <3> QED
      BY <2>2, <2>3, <3>1, SMT
  <2>4. ASSUME (bx - ax) * (py - ay) - (by - ay) * (px - ax) = 0, px = bx, bx - ax # 0 PROVE py = by
    <3>1. (bx - ax) * (py - ay) - (by - ay) * (bx - ax) = (bx - ax) * (py - by)
      BY SMT
    <3>2. (bx - ax) * (py - by) = 0 /\ bx - ax \in Int /\ py - by \in Int
      BY <2>4, <3>1, SMT
    <3> QED
      BY <2>2, <2>4, <3>2, SMT
  <2> QED
    BY <2>1, <2>3, <2>4
<1>7. p[along] = zone[o][along]
  <2> HIDE DEF a, b, p, along
  <2>1. b[axis] - a[axis] # 0
    BY <1>4, <1>5, <1>6, Zenon
  <2>2. p[axis] = a[axis] => p[along] = a[along]
    BY <1>3, <1>5, <1>6, <2>1, Zenon
  <2>3. p[axis] = b[axis] => p[along] = b[along]
    BY <1>3, <1>5, <1>6, <2>1, Zenon
  <2> QED
    BY <1>4, <2>2, <2>3, Zenon
<1>8. zone[k] = zone[o]
  <2>1. zone[k][1] = zone[o][1] /\ zone[k][2] = zone[o][2]
    <3> HIDE DEF along
    <3> QED
      BY <1>0, <1>4, <1>7
  <2> QED
    BY <1>1, <2>1
<1> QED
  BY <1>1, <1>8 DEF Convex

LEMMA OnTwoLines ==
    ASSUME NEW zone, Sound(zone), NEW axis \in {1, 2}, NEW at \in Int, NEW w \in Int,
           NEW i \in 1..Len(zone), NEW k \in 1..Len(zone),
           (w - Fine * zone[i][3 - axis]) * (zone[After(zone, i)][axis] - zone[i][axis])
             = Fine * ((zone[After(zone, i)][3 - axis] - zone[i][3 - axis]) * (at - zone[i][axis])),
           (w - Fine * zone[k][3 - axis]) * (zone[After(zone, k)][axis] - zone[k][axis])
             = Fine * ((zone[After(zone, k)][3 - axis] - zone[k][3 - axis]) * (at - zone[k][axis]))
    PROVE  Beside(zone, axis, i, k) * (zone[After(zone, k)][axis] - at)
             + Beside(zone, axis, i, After(zone, k)) * (at - zone[k][axis]) = 0
<1> DEFINE along == 3 - axis
           a == zone[i]
           b == zone[After(zone, i)]
           c == zone[k]
           d == zone[After(zone, k)]
           ax == a[axis]
           ay == a[along]
           bx == b[axis]
           by == b[along]
           cx == c[axis]
           cy == c[along]
           dx == d[axis]
           dy == d[along]
<1>1. along \in {1, 2}
  BY SMT
<1>2. \A m \in 1..Len(zone) : zone[m][1] \in Int /\ zone[m][2] \in Int /\ After(zone, m) \in 1..Len(zone)
  BY CornerFacts
<1>3. /\ ax \in Int /\ ay \in Int /\ bx \in Int /\ by \in Int
      /\ cx \in Int /\ cy \in Int /\ dx \in Int /\ dy \in Int
  <2> HIDE DEF along
  <2> QED
    BY <1>1, <1>2
<1>4. On(w, Fine, ax, ay, bx, by, at)
  BY DEF On
<1>5. On(w, Fine, cx, cy, dx, dy, at)
  BY DEF On
<1>6. Fine \in Int /\ Fine # 0
  BY FineAssumption
<1>7. Beside(zone, axis, i, k) * (dx - at) + Beside(zone, axis, i, After(zone, k)) * (at - cx)
        = Balance(ax, ay, bx, by, cx, cy, dx, dy, at)
  BY DEF Beside, Balance
<1>8. Balanced(ax, ay, bx, by, cx, cy, dx, dy, at)
  <2> HIDE DEF ax, ay, bx, by, cx, cy, dx, dy
  <2> QED
    BY <1>3, <1>4, <1>5, <1>6, SamePlace, Zenon
<1> QED
  BY <1>7, <1>8 DEF Balanced

LEMMA AroundIt ==
    ASSUME NEW at \in Int, NEW s \in Int, NEW m \in Int, Inside(at, s, m)
    PROVE  /\ m - at \in Int /\ at - s \in Int
           /\ (m - at > 0 /\ at - s > 0) \/ (m - at < 0 /\ at - s < 0)
<1>1. (s < at /\ at < m) \/ (m < at /\ at < s)
  BY DEF Inside
<1> QED
  BY <1>1

\* The edges of a convex zone that a line crosses it crosses in different places.
LEMMA DifferentPlaces ==
    ASSUME NEW zone, Sound(zone), Convex(zone), Resolves(zone), NEW axis \in {1, 2}, NEW at \in Int,
           NEW i \in 1..Len(zone), Inside(at, zone[i][axis], zone[After(zone, i)][axis]),
           NEW k \in 1..Len(zone), Inside(at, zone[k][axis], zone[After(zone, k)][axis]),
           MeetsAt(zone[i], zone[After(zone, i)], at, axis) = MeetsAt(zone[k], zone[After(zone, k)], at, axis)
    PROVE  i = k
<1> DEFINE n == Len(zone)
           along == 3 - axis
           j == After(zone, i)
           l == After(zone, k)
           w == MeetsAt(zone[i], zone[j], at, axis)
<1>1. /\ n \in Nat /\ n >= 3 /\ i \in 1..n /\ j \in 1..n /\ k \in 1..n /\ l \in 1..n
      /\ j = (IF i = n THEN 1 ELSE i + 1) /\ l = (IF k = n THEN 1 ELSE k + 1)
      /\ \A m \in 1..n : zone[m][1] \in Int /\ zone[m][2] \in Int
  BY CornerFacts, SMT DEF Sound, After
<1>2. \A m \in 1..n : zone[m][axis] \in Int /\ zone[m][along] \in Int
  BY <1>1
<1>3. /\ w \in Int
      /\ (w - Fine * zone[i][along]) * (zone[j][axis] - zone[i][axis])
           = Fine * ((zone[j][along] - zone[i][along]) * (at - zone[i][axis]))
  BY MeetsExactly
<1>4. (w - Fine * zone[k][along]) * (zone[l][axis] - zone[k][axis])
           = Fine * ((zone[l][along] - zone[k][along]) * (at - zone[k][axis]))
  BY MeetsExactly
<1>5. Inside(at, zone[i][axis], zone[j][axis]) /\ Inside(at, zone[k][axis], zone[l][axis])
  OBVIOUS
<1>6. Fine \in Int /\ Fine # 0
  BY FineAssumption
<1> DEFINE Weighed(e, f, g) == Beside(zone, axis, e, f) * (zone[g][axis] - at)
                               + Beside(zone, axis, e, g) * (at - zone[f][axis])
<1>7. Weighed(i, k, l) = 0
  BY <1>3, <1>4, OnTwoLines
<1>8. Weighed(k, i, j) = 0
  BY <1>3, <1>4, OnTwoLines
<1>9. ASSUME NEW e \in 1..n, NEW f \in 1..n, NEW g \in 1..n, Inside(at, zone[f][axis], zone[g][axis]),
             Weighed(e, f, g) = 0
      PROVE  Beside(zone, axis, e, f) = 0 /\ Beside(zone, axis, e, g) = 0
  <2> DEFINE x == Beside(zone, axis, e, f)
             y == Beside(zone, axis, e, g)
             u == zone[g][axis] - at
             v == at - zone[f][axis]
  <2>1. x \in Int /\ y \in Int /\ ((x >= 0 /\ y >= 0) \/ (x <= 0 /\ y <= 0))
    BY BesideIsSide
  <2>2. u \in Int /\ v \in Int /\ ((u > 0 /\ v > 0) \/ (u < 0 /\ v < 0))
    <3>1. \A s, m \in Int : Inside(at, s, m) =>
            /\ m - at \in Int /\ at - s \in Int
            /\ (m - at > 0 /\ at - s > 0) \/ (m - at < 0 /\ at - s < 0)
      BY AroundIt, Zenon
    <3>2. zone[f][axis] \in Int /\ zone[g][axis] \in Int
      BY <1>2, <1>9, Zenon
    <3>3. Inside(at, zone[f][axis], zone[g][axis])
      BY <1>9
    <3> HIDE DEF x, y
    <3> QED
      BY <3>1, <3>2, <3>3, Zenon
  <2>3. x * u + y * v = 0
    BY <1>9
  <2> HIDE DEF x, y, u, v
  <2>4. x = 0 /\ y = 0
    BY <2>1, <2>2, <2>3, WeightedSides
  <2> QED
    BY <2>4 DEF x, y
<1> HIDE DEF Weighed, n, j, l, w, along
<1>10. /\ Beside(zone, axis, i, k) = 0 /\ Beside(zone, axis, i, l) = 0
       /\ Beside(zone, axis, k, i) = 0 /\ Beside(zone, axis, k, j) = 0
  BY <1>1, <1>5, <1>7, <1>8, <1>9
<1>11. /\ ~Inside(zone[k][axis], zone[i][axis], zone[j][axis])
       /\ ~Inside(zone[l][axis], zone[i][axis], zone[j][axis])
       /\ ~Inside(zone[i][axis], zone[k][axis], zone[l][axis])
       /\ ~Inside(zone[j][axis], zone[k][axis], zone[l][axis])
  <2>1. \A m \in 1..n : Beside(zone, axis, i, m) = 0 => ~Inside(zone[m][axis], zone[i][axis], zone[j][axis])
    BY BesideIsSide, Zenon DEF n, j
  <2>2. \A m \in 1..n : Beside(zone, axis, k, m) = 0 => ~Inside(zone[m][axis], zone[k][axis], zone[l][axis])
    BY BesideIsSide, Zenon DEF n, l
  <2> QED
    BY <1>1, <1>10, <2>1, <2>2, Zenon
<1>12. \/ zone[k][axis] = zone[i][axis] /\ zone[l][axis] = zone[j][axis]
       \/ zone[k][axis] = zone[j][axis] /\ zone[l][axis] = zone[i][axis]
  <2>1. /\ zone[i][axis] \in Int /\ zone[j][axis] \in Int
        /\ zone[k][axis] \in Int /\ zone[l][axis] \in Int
    BY <1>1, <1>2, Zenon
  <2> QED
    BY <1>5, <1>11, <2>1, SamePairs
<1>13. k = i \/ (k = j /\ l = i)
  <2>1. ASSUME NEW m \in 1..n, Beside(zone, axis, i, m) = 0, NEW o \in {i, j}, zone[m][axis] = zone[o][axis]
        PROVE  m = o
    BY <1>5, <2>1, LevelIsSame DEF n, j
  <2> QED
    BY <1>1, <1>10, <1>12, <2>1
<1> QED
  BY <1>1, <1>13

LEMMA LeastIn ==
    ASSUME NEW T, T \subseteq Nat, T # {}
    PROVE  Least(T) \in T
<1>1. PICK m \in T : \A k \in T : m <= k
  BY LeastElement
<1>2. T \subseteq Int
  OBVIOUS
<1>3. Least(T) = m
  BY <1>1, <1>2, LeastIs
<1> QED
  BY <1>1, <1>3

\* The line from a to b is, between its ends, a line from the one to the other.
LEMMA OnBetween ==
    ASSUME NEW ax \in Int, NEW ay \in Int, NEW bx \in Int, NEW by \in Int,
           NEW at \in Int, NEW w \in Int, NEW F \in Nat \ {0},
           On(w, F, ax, ay, bx, by, at), Inside(at, ax, bx)
    PROVE  /\ (F * at - F * ax) * (by - ay) = (w - F * ay) * (bx - ax)
           /\ F * at \in (F * ax)..(F * bx) \union (F * bx)..(F * ax)
           /\ w \in (F * ay)..(F * by) \union (F * by)..(F * ay)
<1>1. (F * at - F * ax) * (by - ay) = F * ((by - ay) * (at - ax))
  BY SMT
<1>2. F * at \in (F * ax)..(F * bx) \union (F * bx)..(F * ax)
  <2>1. \A s, u \in Int : s < u => F * s <= F * u
    <3> TAKE s, u \in Int
    <3>1. F * u - F * s = F * (u - s)
      BY SMT
    <3>2. s < u => F * (u - s) >= 0
      BY SMT
    <3>3. F * u \in Int /\ F * s \in Int
      BY SMT
    <3> QED
      BY <3>1, <3>2, <3>3
  <2>2. F * at \in Int /\ F * ax \in Int /\ F * bx \in Int
    BY SMT
  <2>3. (F * ax <= F * at /\ F * at <= F * bx) \/ (F * bx <= F * at /\ F * at <= F * ax)
    BY <2>1, Zenon DEF Inside
  <2> DEFINE m == F * at
             l == F * ax
             g == F * bx
  <2> HIDE DEF m, l, g
  <2>4. m \in l..g \union g..l
    BY <2>2, <2>3 DEF m, l, g
  <2> QED
    BY <2>4 DEF m, l, g
<1>3. w \in (F * ay)..(F * by) \union (F * by)..(F * ay)
  <2> DEFINE v == w - F * ay
             E == F * (by - ay)
             D == bx - ax
             s == at - ax
             base == F * ay
  <2>1. v \in Int /\ E \in Int /\ D \in Int /\ s \in Int /\ base \in Int /\ F * by \in Int
    BY SMT
  <2>2. Inside(s, 0, D)
    BY SMT DEF Inside
  <2>3. v * D = E * s
    <3>1. E * s = F * ((by - ay) * (at - ax))
      BY SMT
    <3> QED
      BY <3>1 DEF On
  <2>4. F * by = base + E /\ w = base + v
    BY SMT
  <2> HIDE DEF v, E, D, s
  <2>5. v \in 0..E \/ v \in E..0
    BY <2>1, <2>2, <2>3, PartWithin
  <2> HIDE DEF base
  <2>6. w \in base..(base + E) \union (base + E)..base
    BY <2>1, <2>4, <2>5
  <2> QED
    BY <2>4, <2>6 DEF base
<1> QED
  BY <1>1, <1>2, <1>3 DEF On

\* A point, from its coordinate across the lines of an axis and the one along them.
Place(axis, across, along) == IF axis = 1 THEN <<across, along>> ELSE <<along, across>>

LEMMA PlaceOnEdge ==
    ASSUME NEW zone, Sound(zone), Resolves(zone), NEW axis \in {1, 2}, NEW at \in Int,
           NEW i \in 1..Len(zone), Inside(at, zone[i][axis], zone[After(zone, i)][axis])
    PROVE  OnEdge(zone, Place(axis, Fine * at, MeetsAt(zone[i], zone[After(zone, i)], at, axis)))
<1> DEFINE along == 3 - axis
           a == zone[i]
           b == zone[After(zone, i)]
           w == MeetsAt(a, b, at, axis)
           p == Place(axis, Fine * at, w)
<1>1. along \in {1, 2} /\ (axis = 1 <=> along = 2) /\ (axis = 2 <=> along = 1)
  BY SMT
<1>2. /\ a[1] \in Int /\ a[2] \in Int /\ b[1] \in Int /\ b[2] \in Int /\ i \in DOMAIN zone
  BY CornerFacts
<1>3. w \in Int /\ On(w, Fine, a[axis], a[along], b[axis], b[along], at)
  BY MeetsExactly DEF On
<1>4. Inside(at, a[axis], b[axis])
  OBVIOUS
<1> HIDE DEF along, a, b, w
<1>5. /\ (Fine * at - Fine * a[axis]) * (b[along] - a[along]) = (w - Fine * a[along]) * (b[axis] - a[axis])
      /\ Fine * at \in (Fine * a[axis])..(Fine * b[axis]) \union (Fine * b[axis])..(Fine * a[axis])
      /\ w \in (Fine * a[along])..(Fine * b[along]) \union (Fine * b[along])..(Fine * a[along])
  <2>1. a[axis] \in Int /\ a[along] \in Int /\ b[axis] \in Int /\ b[along] \in Int
    BY <1>1, <1>2
  <2> QED
    BY <1>3, <1>4, <2>1, FineAssumption, OnBetween
<1>6. /\ (p[1] - Fine * a[1]) * (b[2] - a[2]) = (p[2] - Fine * a[2]) * (b[1] - a[1])
      /\ p[1] \in (Fine * a[1])..(Fine * b[1]) \union (Fine * b[1])..(Fine * a[1])
      /\ p[2] \in (Fine * a[2])..(Fine * b[2]) \union (Fine * b[2])..(Fine * a[2])
  <2>1. CASE axis = 1
    <3>1. p[1] = Fine * at /\ p[2] = w /\ along = 2
      BY <1>1, <2>1 DEF Place
    <3> HIDE DEF p
    <3> QED
      BY <1>5, <2>1, <3>1
  <2>2. CASE axis = 2
    <3>1. p[1] = w /\ p[2] = Fine * at /\ along = 1
      BY <1>1, <2>2 DEF Place
    <3> HIDE DEF p
    <3> QED
      BY <1>5, <2>2, <3>1
  <2> QED
    BY <2>1, <2>2
<1> HIDE DEF p
<1>7. OnEdge(zone, p)
  BY <1>2, <1>6 DEF OnEdge, X, Y, a, b
<1> QED
  BY <1>7 DEF p, w, a, b

\* An edge that has the line between its ends, and no end on it.
LEMMA MetIsCrossed ==
    ASSUME NEW zone, Sound(zone), NEW axis \in {1, 2}, NEW at \in Int,
           \A i \in 1..Len(zone) : zone[i][axis] # at
    PROVE  /\ Met(zone, at, axis) \subseteq 1..Len(zone)
           /\ \A i \in 1..Len(zone) :
                i \in Met(zone, at, axis) <=> Inside(at, zone[i][axis], zone[After(zone, i)][axis])
<1>1. /\ DOMAIN zone = 1..Len(zone)
      /\ \A i \in 1..Len(zone) : zone[i][1] \in Int /\ zone[i][2] \in Int /\ After(zone, i) \in 1..Len(zone)
  BY CornerFacts
<1>2. ASSUME NEW i \in 1..Len(zone)
      PROVE  EdgeMeets(zone[i], zone[After(zone, i)], at, axis)
               <=> Inside(at, zone[i][axis], zone[After(zone, i)][axis])
  <2> DEFINE s == zone[i][axis]
             u == zone[After(zone, i)][axis]
  <2>1. s \in Int /\ u \in Int /\ s # at /\ u # at
    BY <1>1
  <2>2. EdgeMeets(zone[i], zone[After(zone, i)], at, axis) <=> at \in u..s \/ at \in s..u
    BY DEF EdgeMeets
  <2> HIDE DEF s, u
  <2>3. (at \in u..s \/ at \in s..u) <=> Inside(at, s, u)
    BY <2>1 DEF Inside
  <2> QED
    BY <2>2, <2>3 DEF s, u
<1> QED
  BY <1>1, <1>2 DEF Met

\* A line through a convex zone, not through a corner, is cut by two edges in two places.
LEMMA TwoMeetings ==
    ASSUME NEW zone, Sound(zone), Convex(zone), Resolves(zone), NEW axis \in {1, 2}, NEW at \in Int,
           \A i \in 1..Len(zone) : zone[i][axis] # at,
           NEW l \in 1..Len(zone), zone[l][axis] < at, NEW g \in 1..Len(zone), at < zone[g][axis]
    PROVE  LET found == Meetings(zone, at, axis)
           IN  /\ found = <<found[1], found[2]>>
               /\ found[1] \in Int /\ found[2] \in Int /\ found[1] # found[2]
               /\ OnEdge(zone, Place(axis, Fine * at, found[1]))
               /\ OnEdge(zone, Place(axis, Fine * at, found[2]))
<1> DEFINE n == Len(zone)
           met == Met(zone, at, axis)
           first == Least(met)
           second == Least(met \ {first})
           Meeting(i) == MeetsAt(zone[i], zone[After(zone, i)], at, axis)
<1>1. met \subseteq 1..n /\ \A i \in 1..n : i \in met <=> Inside(at, zone[i][axis], zone[After(zone, i)][axis])
  BY MetIsCrossed
<1>2. PICK e \in 1..n : zone[e][axis] < at /\ at < zone[After(zone, e)][axis]
  BY Crossings
<1>3. PICK f \in 1..n : zone[After(zone, f)][axis] < at /\ at < zone[f][axis]
  BY Crossings
<1>4. zone[e][axis] \in Int /\ zone[f][axis] \in Int
  BY CornerFacts
<1>5. e # f
  BY <1>2, <1>3, <1>4
<1>6. e \in met /\ f \in met
  BY <1>1, <1>2, <1>3 DEF Inside
<1> HIDE DEF met
<1>7. first \in met
  <2>1. met \subseteq Nat
    BY <1>1
  <2> QED
    BY <1>6, <2>1, LeastIn
<1>8. second \in met /\ second # first
  <2> HIDE DEF first
  <2>1. met \ {first} \subseteq Nat /\ met \ {first} # {}
    <3>1. met \subseteq Nat
      BY <1>1
    <3>2. e # first \/ f # first
      BY <1>5
    <3> QED
      BY <1>6, <3>1, <3>2
  <2>2. Least(met \ {first}) \in met \ {first}
    BY <2>1, LeastIn
  <2> QED
    BY <2>2
<1>9. Meetings(zone, at, axis) = <<Meeting(first), Meeting(second)>>
  BY DEF Meetings, met
<1> HIDE DEF first, second
<1>10. ASSUME NEW i \in met
       PROVE  /\ i \in 1..n /\ Inside(at, zone[i][axis], zone[After(zone, i)][axis])
              /\ Meeting(i) \in Int /\ OnEdge(zone, Place(axis, Fine * at, Meeting(i)))
  <2>1. i \in 1..n /\ Inside(at, zone[i][axis], zone[After(zone, i)][axis])
    BY <1>1
  <2>2. Meeting(i) \in Int
    BY <2>1, MeetsExactly
  <2>3. OnEdge(zone, Place(axis, Fine * at, Meeting(i)))
    BY <2>1, PlaceOnEdge
  <2> QED
    BY <2>1, <2>2, <2>3
<1>11. Meeting(first) # Meeting(second)
  <2>1. /\ first \in 1..n /\ Inside(at, zone[first][axis], zone[After(zone, first)][axis])
        /\ second \in 1..n /\ Inside(at, zone[second][axis], zone[After(zone, second)][axis])
    BY <1>7, <1>8, <1>10
  <2> QED
    BY <1>8, <2>1, DifferentPlaces
<1> HIDE DEF Meeting
<1>12. Meetings(zone, at, axis)[1] = Meeting(first) /\ Meetings(zone, at, axis)[2] = Meeting(second)
  BY <1>9
<1> QED
  BY <1>7, <1>8, <1>9, <1>10, <1>11, <1>12

LEMMA LeastOfTwo ==
    ASSUME NEW a \in Int, NEW b \in Int, a < b
    PROVE  Least({a, b}) = a /\ Greatest({a, b}) = b
<1> DEFINE S == {a, b}
<1>1. S \subseteq Int /\ a \in S /\ b \in S
  OBVIOUS
<1>2. (\A v \in S : a <= v) /\ (\A v \in S : v <= b)
  OBVIOUS
<1> HIDE DEF S
<1>3. Least(S) = a
  BY <1>1, <1>2, LeastIs
<1>4. Greatest(S) = b
  BY <1>1, <1>2, GreatestIs
<1> QED
  BY <1>3, <1>4 DEF S

\* The ends of a scan line: on the zone's edges, the first above or left of the second.
LEMMA EndsAre ==
    ASSUME NEW zone, Sound(zone), Convex(zone), Resolves(zone), NEW vertical \in BOOLEAN, NEW line \in Int,
           \A i \in 1..Len(zone) : line # (IF vertical THEN X(zone[i]) ELSE -Y(zone[i])),
           \E i \in 1..Len(zone) : (IF vertical THEN X(zone[i]) ELSE -Y(zone[i])) < line,
           \E i \in 1..Len(zone) : line < (IF vertical THEN X(zone[i]) ELSE -Y(zone[i]))
    PROVE  LET e == Ends(zone, line, vertical)
           IN  /\ OnEdge(zone, e[1]) /\ OnEdge(zone, e[2])
               /\ X(e[1]) \in Int /\ X(e[2]) \in Int /\ Y(e[1]) \in Int /\ Y(e[2]) \in Int
               /\ vertical => X(e[1]) = Fine * line /\ X(e[2]) = Fine * line /\ Y(e[2]) < Y(e[1])
               /\ ~vertical => -Y(e[1]) = Fine * line /\ -Y(e[2]) = Fine * line /\ X(e[1]) < X(e[2])
<1> DEFINE axis == IF vertical THEN 1 ELSE 2
           at == IF vertical THEN line ELSE -line
           found == Meetings(zone, at, axis)
           low == Least({found[1], found[2]})
           high == Greatest({found[1], found[2]})
<1>1. axis \in {1, 2} /\ at \in Int
  OBVIOUS
<1>2. \A i \in 1..Len(zone) : zone[i][1] \in Int /\ zone[i][2] \in Int
  BY CornerFacts
<1>3. /\ \A i \in 1..Len(zone) : zone[i][axis] # at
      /\ \E i \in 1..Len(zone) : zone[i][axis] < at
      /\ \E i \in 1..Len(zone) : at < zone[i][axis]
  <2>1. CASE vertical
    BY <1>2, <2>1 DEF X
  <2>2. CASE ~vertical
    <3>1. \A m \in Int : (line # -m <=> m # -line) /\ (line < -m <=> m < -line) /\ (-m < line <=> -line < m)
      OBVIOUS
    <3>2. axis = 2 /\ at = -line
      BY <2>2
    <3>3. /\ \A i \in 1..Len(zone) : line # -zone[i][2]
          /\ \E i \in 1..Len(zone) : -zone[i][2] < line
          /\ \E i \in 1..Len(zone) : line < -zone[i][2]
      BY <2>2 DEF Y
    <3> HIDE DEF axis, at
    <3> QED
      BY <1>2, <3>1, <3>2, <3>3
  <2> QED
    BY <2>1, <2>2
<1> HIDE DEF axis, at
<1>4. /\ found[1] \in Int /\ found[2] \in Int /\ found[1] # found[2]
      /\ OnEdge(zone, Place(axis, Fine * at, found[1])) /\ OnEdge(zone, Place(axis, Fine * at, found[2]))
  BY <1>1, <1>3, TwoMeetings
<1> HIDE DEF found
<1>5. /\ low \in Int /\ high \in Int /\ low < high
      /\ OnEdge(zone, Place(axis, Fine * at, low)) /\ OnEdge(zone, Place(axis, Fine * at, high))
  <2> DEFINE a == found[1]
             b == found[2]
  <2> HIDE DEF a, b
  <2>1. a \in Int /\ b \in Int /\ a # b
    BY <1>4 DEF a, b
  <2>2. CASE a < b
    <3>1. low = a /\ high = b
      BY <2>1, <2>2, LeastOfTwo DEF a, b
    <3> QED
      BY <1>4, <2>1, <2>2, <3>1 DEF a, b
  <2>3. CASE b < a
    <3>1. low = b /\ high = a
      <4>1. {a, b} = {b, a}
        OBVIOUS
      <4>2. Least({b, a}) = b /\ Greatest({b, a}) = a
        BY <2>1, <2>3, LeastOfTwo
      <4> QED
        BY <4>1, <4>2 DEF a, b
    <3> QED
      BY <1>4, <2>1, <2>3, <3>1 DEF a, b
  <2> QED
    BY <2>1, <2>2, <2>3
<1>6. line * Fine = Fine * line /\ line * Fine \in Int /\ -(-(line * Fine)) = line * Fine
  BY FineAssumption, SMT
<1>7. CASE vertical
  <2>1. found = Meetings(zone, line, 1) /\ axis = 1 /\ at = line
    BY <1>7 DEF found, axis, at
  <2>2. Ends(zone, line, vertical) = << <<line * Fine, high>>, <<line * Fine, low>> >>
    BY <1>7, <2>1, Zenon DEF Ends
  <2> DEFINE e == Ends(zone, line, vertical)
  <2> HIDE DEF low, high
  <2>3. Place(axis, Fine * at, high) = <<line * Fine, high>> /\ Place(axis, Fine * at, low) = <<line * Fine, low>>
    BY <1>6, <2>1, Zenon DEF Place
  <2>4. e[1] = <<line * Fine, high>> /\ e[2] = <<line * Fine, low>>
    BY <2>2
  <2> HIDE DEF e
  <2>5. OnEdge(zone, e[1]) /\ OnEdge(zone, e[2])
    BY <1>5, <2>3, <2>4, Zenon
  <2>6. X(e[1]) = Fine * line /\ X(e[2]) = Fine * line /\ Y(e[1]) = high /\ Y(e[2]) = low
    BY <1>6, <2>4 DEF X, Y
  <2> QED
    BY <1>5, <1>6, <1>7, <2>5, <2>6 DEF e
<1>8. CASE ~vertical
  <2>1. found = Meetings(zone, -line, 2) /\ axis = 2 /\ at = -line
    BY <1>8 DEF found, axis, at
  <2>2. Ends(zone, line, vertical) = << <<low, -line * Fine>>, <<high, -line * Fine>> >>
    BY <1>8, <2>1, Zenon DEF Ends
  <2> HIDE DEF low, high
  <2>3. -line * Fine = Fine * (-line) /\ -line * Fine \in Int /\ -(-line * Fine) = Fine * line
    BY FineAssumption, SMT
  <2> DEFINE e == Ends(zone, line, vertical)
  <2>4. Place(axis, Fine * at, high) = <<high, -line * Fine>> /\ Place(axis, Fine * at, low) = <<low, -line * Fine>>
    <3>1. Fine * at = -line * Fine /\ axis # 1
      BY <2>1, <2>3
    <3> QED
      BY <3>1 DEF Place
  <2>5. e[1] = <<low, -line * Fine>> /\ e[2] = <<high, -line * Fine>>
    BY <2>2
  <2> HIDE DEF e
  <2>6. OnEdge(zone, e[1]) /\ OnEdge(zone, e[2])
    BY <1>5, <2>4, <2>5, Zenon
  <2>7. X(e[1]) = low /\ X(e[2]) = high /\ Y(e[1]) = -line * Fine /\ Y(e[2]) = -line * Fine
    BY <2>5 DEF X, Y
  <2> QED
    BY <1>5, <1>8, <2>3, <2>6, <2>7 DEF e
<1> QED
  BY <1>7, <1>8

\* The place of a point across the lines, in the direction in which they follow each other.
Across(vertical, p) == IF vertical THEN X(p) ELSE -Y(p)

\* Of the corners' places, the first and the last.
LEMMA Extremes ==
    ASSUME NEW n \in Nat \ {0}, NEW f, \A i \in 1..n : f[i] \in Int
    PROVE  LET S == {f[i] : i \in 1..n}
           IN  /\ \E l \in 1..n : Least(S) = f[l]
               /\ \E g \in 1..n : Greatest(S) = f[g]
               /\ \A i \in 1..n : Least(S) <= f[i] /\ f[i] <= Greatest(S)
<1> DEFINE S == {f[i] : i \in 1..n}
<1>1. PICK l \in 1..n : \A i \in 1..n : f[l] <= f[i]
  BY LeastOf
<1>2. PICK g \in 1..n : \A i \in 1..n : f[i] <= f[g]
  BY GreatestOf
<1>3. /\ S \subseteq Int /\ f[l] \in S /\ f[g] \in S
      /\ \A v \in S : f[l] <= v
      /\ \A v \in S : v <= f[g]
  BY <1>1, <1>2
<1> HIDE DEF S
<1>4. Least(S) = f[l]
  BY <1>3, LeastIs
<1>5. Greatest(S) = f[g]
  BY <1>3, GreatestIs
<1> QED
  BY <1>1, <1>2, <1>4, <1>5 DEF S

LEMMA Bounds ==
    ASSUME NEW zone, Sound(zone), NEW vertical \in BOOLEAN
    PROVE  LET first == IF vertical THEN XMin(zone) ELSE -YMax(zone)
               last  == IF vertical THEN XMax(zone) ELSE -YMin(zone)
           IN  /\ first \in Int /\ last \in Int /\ first <= last
               /\ ~vertical => YMin(zone) \in Int /\ YMax(zone) \in Int
               /\ \E l \in 1..Len(zone) : Across(vertical, zone[l]) = first
               /\ \E g \in 1..Len(zone) : Across(vertical, zone[g]) = last
<1> DEFINE n == Len(zone)
           f == [i \in 1..n |-> IF vertical THEN X(zone[i]) ELSE Y(zone[i])]
           S == {f[i] : i \in 1..n}
<1>1. n \in Nat \ {0} /\ DOMAIN zone = 1..n /\ \A i \in 1..n : X(zone[i]) \in Int /\ Y(zone[i]) \in Int
  BY CornerFacts DEF X, Y
<1>2. \A i \in 1..n : f[i] \in Int /\ f[i] = IF vertical THEN X(zone[i]) ELSE Y(zone[i])
  BY <1>1
<1> HIDE DEF f
<1>3. PICK l \in 1..n : Least(S) = f[l]
  BY <1>1, <1>2, Extremes
<1>4. PICK g \in 1..n : Greatest(S) = f[g]
  BY <1>1, <1>2, Extremes
<1>5. f[l] <= f[g]
  BY <1>1, <1>2, <1>3, <1>4, Extremes
<1>6. CASE vertical
  <2>1. S = {X(zone[i]) : i \in DOMAIN zone}
    BY <1>1, <1>2, <1>6
  <2> HIDE DEF S, n
  <2>2. XMin(zone) = f[l] /\ XMax(zone) = f[g]
    BY <1>3, <1>4, <2>1 DEF XMin, XMax
  <2> QED
    BY <1>2, <1>5, <1>6, <2>2 DEF Across, n
<1>7. CASE ~vertical
  <2>1. S = {Y(zone[i]) : i \in DOMAIN zone}
    BY <1>1, <1>2, <1>7
  <2> HIDE DEF S, n
  <2>2. YMin(zone) = f[l] /\ YMax(zone) = f[g]
    BY <1>3, <1>4, <2>1 DEF YMin, YMax
  <2>3. f[l] = Y(zone[l]) /\ f[g] = Y(zone[g]) /\ f[l] \in Int /\ f[g] \in Int
    BY <1>2, <1>7
  <2> QED
    BY <1>5, <1>7, <2>2, <2>3 DEF Across, n
<1> QED
  BY <1>6, <1>7

\* The lines fit: each runs between the sides, the last less than two radii from the last.
LEMMA LineCount ==
    ASSUME NEW first \in Int, NEW last \in Int, first <= last, NEW radius \in Nat \ {0}
    PROVE  LET start == first + radius
               stop  == last - radius
               lines == IF start > stop THEN 0 ELSE (stop - start) \div (2 * radius) + 1
           IN  /\ lines \in Nat
               /\ last - (first + 2 * lines * radius) \in 0..(2 * radius - 1)
               /\ \A k \in 1..lines :
                    /\ start + 2 * radius * (k - 1) = first + (2 * k - 1) * radius
                    /\ start + 2 * radius * (k - 1) \in Int
                    /\ first < start + 2 * radius * (k - 1) /\ start + 2 * radius * (k - 1) < last
<1> DEFINE start == first + radius
           stop == last - radius
           d == 2 * radius
           q == (stop - start) \div d
           r == (stop - start) % d
           lines == IF start > stop THEN 0 ELSE q + 1
<1>1. d \in Nat \ {0} /\ start \in Int /\ stop \in Int /\ last - first = stop - start + d
  OBVIOUS
<1>2. CASE start > stop
  <2>1. lines = 0 /\ 1..lines = {}
    BY <1>2
  <2>2. 2 * lines * radius = 0
    BY <2>1
  <2>3. last - (first + 0) \in 0..(d - 1)
    BY <1>1, <1>2
  <2> HIDE DEF lines
  <2> QED
    BY <2>1, <2>2, <2>3 DEF lines
<1>3. CASE start <= stop
  <2> DEFINE t == stop - start
  <2>1. t \in Nat
    BY <1>1, <1>3
  <2> HIDE DEF t, d, start, stop
  <2>2. t \div d \in Nat /\ t % d \in 0..(d - 1) /\ t = d * (t \div d) + (t % d)
    <3>1. d \in Nat \ {0}
      BY <1>1
    <3>2. t \div d \in 0..t /\ t % d \in 0..(d - 1) /\ t = d * (t \div d) + (t % d)
      BY <2>1, <3>1, Strides, Zenon
    <3>3. \A v \in 0..t : v \in Nat
      BY <2>1
    <3> QED
      BY <3>2, <3>3, Zenon
  <2>3. q \in Nat /\ r \in 0..(d - 1) /\ t = d * q + r
    BY <2>2 DEF t
  <2>4. lines = q + 1
    BY <1>1, <1>3
  <2> HIDE DEF q, r, lines
  <2>5. 2 * lines * radius = d * q + d
    BY <2>3, <2>4, SMT DEF d
  <2>6. last - first = d * q + r + d
    BY <1>1, <2>3 DEF t
  <2>7. last - (first + 2 * lines * radius) \in 0..(d - 1)
    <3> DEFINE p == d * q
    <3>1. p \in Int
      BY <1>1, <2>3
    <3>2. 2 * lines * radius = p + d /\ last - first = p + r + d
      BY <2>5, <2>6
    <3> HIDE DEF p
    <3>3. last - (first + 2 * lines * radius) = r
      BY <1>1, <2>3, <3>1, <3>2
    <3> QED
      BY <2>3, <3>3
  <2>8. ASSUME NEW k \in 1..lines
        PROVE  /\ start + d * (k - 1) = first + (2 * k - 1) * radius
               /\ start + d * (k - 1) \in Int
               /\ first < start + d * (k - 1) /\ start + d * (k - 1) < last
    <3> DEFINE p == d * q
               m == d * (k - 1)
    <3>1. p \in Int /\ m \in Int /\ k - 1 \in Nat /\ q - (k - 1) \in Nat
      BY <1>1, <2>3, <2>4
    <3>2. m >= 0 /\ p - m >= 0
      <4>1. p - m = d * (q - (k - 1))
        BY <1>1, <2>3, SMT
      <4>2. \A u \in Nat : d * u \in Nat
        BY <1>1, SMT
      <4> QED
        BY <3>1, <4>1, <4>2
    <3>3. start + m = first + (2 * k - 1) * radius
      BY SMT DEF start, d
    <3>4. start = first + radius /\ d = 2 * radius /\ last - first = p + r + d
      BY <2>6 DEF start, d
    <3> HIDE DEF p, m
    <3>5. first < start + m /\ start + m < last /\ start + m \in Int
      BY <2>3, <3>1, <3>2, <3>4
    <3> QED
      BY <3>3, <3>5 DEF m
  <2> QED
    BY <2>3, <2>4, <2>7, <2>8 DEF d, lines, start, stop, q
<1> HIDE DEF lines
<1> QED
  BY <1>1, <1>2, <1>3

\* ScanLines, in the direction in which the lines follow each other.
LEMMA LinesAre ==
    ASSUME NEW zone, Sound(zone), NEW radius \in Nat \ {0}, NEW vertical \in BOOLEAN
    PROVE  LET lines == ScanLines(zone, radius, vertical)
               first == IF vertical THEN XMin(zone) ELSE -YMax(zone)
               last  == IF vertical THEN XMax(zone) ELSE -YMin(zone)
           IN  /\ Len(lines) \in Nat /\ DOMAIN lines = 1..Len(lines)
               /\ last - (first + 2 * Len(lines) * radius) \in 0..(2 * radius - 1)
               /\ \A k \in 1..Len(lines) :
                    /\ lines[k] = first + (2 * k - 1) * radius /\ lines[k] \in Int
                    /\ \E l \in 1..Len(zone) : Across(vertical, zone[l]) < lines[k]
                    /\ \E g \in 1..Len(zone) : lines[k] < Across(vertical, zone[g])
<1> DEFINE first == IF vertical THEN XMin(zone) ELSE -YMax(zone)
           last  == IF vertical THEN XMax(zone) ELSE -YMin(zone)
           start == first + radius
           stop  == last - radius
           count == IF start > stop THEN 0 ELSE (stop - start) \div (2 * radius) + 1
           f == [k \in 1..count |-> start + 2 * radius * (k - 1)]
<1>1. /\ first \in Int /\ last \in Int /\ first <= last
      /\ \E l \in 1..Len(zone) : Across(vertical, zone[l]) = first
      /\ \E g \in 1..Len(zone) : Across(vertical, zone[g]) = last
  BY Bounds
<1>2. ScanLines(zone, radius, vertical) = f
  <2> DEFINE start0 == IF vertical THEN XMin(zone) + radius ELSE -(YMax(zone) - radius)
             stop0 == IF vertical THEN XMax(zone) - radius ELSE -(YMin(zone) + radius)
  <2>1. start0 = start /\ stop0 = stop
    <3>1. CASE vertical
      BY <3>1
    <3>2. CASE ~vertical
      <4>1. \A y \in Int : -y \in Int => -(y - radius) = -y + radius /\ -(y + radius) = -y - radius
        OBVIOUS
      <4>2. YMax(zone) \in Int /\ YMin(zone) \in Int
        BY <3>2, Bounds
      <4> QED
        BY <3>2, <4>1, <4>2
    <3> QED
      BY <3>1, <3>2
  <2>2. ScanLines(zone, radius, vertical)
          = [k \in 1..(IF start0 > stop0 THEN 0 ELSE (stop0 - start0) \div (2 * radius) + 1)
               |-> start0 + 2 * radius * (k - 1)]
    BY Zenon DEF ScanLines
  <2> HIDE DEF start0, stop0, start, stop
  <2> QED
    BY <2>1, <2>2
<1> HIDE DEF first, last
<1>3. /\ count \in Nat /\ last - (first + 2 * count * radius) \in 0..(2 * radius - 1)
      /\ \A k \in 1..count :
           /\ start + 2 * radius * (k - 1) = first + (2 * k - 1) * radius
           /\ start + 2 * radius * (k - 1) \in Int
           /\ first < start + 2 * radius * (k - 1) /\ start + 2 * radius * (k - 1) < last
  BY <1>1, LineCount
<1> HIDE DEF start, stop, count
<1>4. f \in [1..count -> Int]
  BY <1>3
<1>5. \A k \in 1..count : f[k] = start + 2 * radius * (k - 1)
  OBVIOUS
<1> HIDE DEF f
<1>6. Len(f) = count /\ DOMAIN f = 1..count
  BY <1>3, <1>4, FunctionIsSeq
<1> QED
  BY <1>1, <1>2, <1>3, <1>5, <1>6 DEF first, last

\* The waypoints of scan line k: from one of its ends to the other, heading along it.
Flown(zone, line, vertical, turned, from, to) ==
  LET ends == Ends(zone, line, vertical)
      psi  == (FirstHeading(vertical) + (IF turned THEN 6 ELSE 0)) % 12
  IN  /\ from = [at |-> ends[IF turned THEN 2 ELSE 1], psi |-> psi]
      /\ to   = [at |-> ends[IF turned THEN 1 ELSE 2], psi |-> psi]

LEMMA WaypointsAre ==
    ASSUME NEW zone, NEW radius, NEW oneWay \in BOOLEAN, NEW vertical \in BOOLEAN,
           Len(ScanLines(zone, radius, vertical)) \in Nat
    PROVE  LET lines  == ScanLines(zone, radius, vertical)
               answers == AirdropWaypoints(zone, radius, oneWay, vertical)
           IN  /\ Len(answers) \div 2 = Len(lines)
               /\ \A k \in 1..Len(lines) :
                    Flown(zone, lines[k], vertical, Turned(k, oneWay),
                          answers[2 * k - 1], answers[2 * k])
<1> DEFINE lines == ScanLines(zone, radius, vertical)
           n == Len(lines)
           Point(w) ==
             LET line == (w + 1) \div 2
                 ends == Ends(zone, lines[line], vertical)
                 second == (w % 2 = 0) # Turned(line, oneWay)
             IN  [at  |-> ends[IF second THEN 2 ELSE 1],
                  psi |-> (FirstHeading(vertical) + (IF Turned(line, oneWay) THEN 6 ELSE 0)) % 12]
           answers == AirdropWaypoints(zone, radius, oneWay, vertical)
<1>1. answers = [w \in 1..(2 * n) |-> Point(w)]
  BY Zenon DEF AirdropWaypoints
<1> HIDE DEF lines, Point, answers
<1>2. n \in Nat
  BY DEF lines
<1> HIDE DEF n
<1>3. Len(answers) = 2 * n
  <2>1. answers \in [1..(2 * n) -> {Point(w) : w \in 1..(2 * n)}]
    BY <1>1
  <2>2. 2 * n \in Nat
    BY <1>2
  <2> QED
    BY <2>1, <2>2, FunctionIsSeq
<1>4. (2 * n) \div 2 = n
  BY <1>2
<1>5. ASSUME NEW k \in 1..n
      PROVE  Flown(zone, lines[k], vertical, Turned(k, oneWay), answers[2 * k - 1], answers[2 * k])
  <2>1. answers[2 * k - 1] = Point(2 * k - 1) /\ answers[2 * k] = Point(2 * k)
    <3>1. 2 * k - 1 \in 1..(2 * n) /\ 2 * k \in 1..(2 * n)
      BY <1>2
    <3> QED
      BY <1>1, <3>1
  <2>2. ((2 * k - 1) + 1) \div 2 = k /\ (2 * k + 1) \div 2 = k
    BY <1>2
  <2>3. (2 * k - 1) % 2 = 1 /\ (2 * k) % 2 = 0
    BY <1>2
  <2>4. Turned(k, oneWay) \in BOOLEAN
    BY DEF Turned
  <2> DEFINE ends == Ends(zone, lines[k], vertical)
             psi == (FirstHeading(vertical) + (IF Turned(k, oneWay) THEN 6 ELSE 0)) % 12
             t == Turned(k, oneWay)
  <2>5. /\ Point(2 * k - 1) = [at |-> ends[IF (1 = 0) # t THEN 2 ELSE 1], psi |-> psi]
        /\ Point(2 * k) = [at |-> ends[IF (0 = 0) # t THEN 2 ELSE 1], psi |-> psi]
    BY <2>2, <2>3, Zenon DEF Point
  <2> HIDE DEF ends, psi
  <2>6. /\ (IF (1 = 0) # t THEN 2 ELSE 1) = (IF t THEN 2 ELSE 1)
        /\ (IF (0 = 0) # t THEN 2 ELSE 1) = (IF t THEN 1 ELSE 2)
    <3>1. CASE t
      BY <3>1
    <3>2. CASE ~t
      BY <3>2, <2>4
    <3> QED
      BY <3>1, <3>2
  <2> HIDE DEF t
  <2>7. /\ answers[2 * k - 1] = [at |-> ends[IF t THEN 2 ELSE 1], psi |-> psi]
        /\ answers[2 * k] = [at |-> ends[IF t THEN 1 ELSE 2], psi |-> psi]
    BY <2>1, <2>5, <2>6, Zenon
  <2> QED
    BY <2>7, Zenon DEF Flown, ends, psi, t
<1> QED
  BY <1>3, <1>4, <1>5 DEF lines, n, answers

\* A line that runs between corners and through none.
Crosses(zone, vertical, line) ==
  /\ \A i \in 1..Len(zone) : line # Across(vertical, zone[i])
  /\ \E l \in 1..Len(zone) : Across(vertical, zone[l]) < line
  /\ \E g \in 1..Len(zone) : line < Across(vertical, zone[g])

\* A line flown from one side to the other, heading along it.
Sweeps(zone, vertical, line, turned, from, to) ==
  /\ OnEdge(zone, from.at) /\ OnEdge(zone, to.at) /\ from.at # to.at
  /\ Travel(from.at, to.at) = from.psi /\ to.psi = from.psi
  /\ Across(vertical, from.at) = Fine * line
  /\ from.psi = (FirstHeading(vertical) + (IF turned THEN 6 ELSE 0)) % 12

LEMMA SweepOf ==
    ASSUME NEW zone, Sound(zone), Convex(zone), Resolves(zone), NEW vertical \in BOOLEAN,
           NEW line \in Int, Crosses(zone, vertical, line),
           NEW turned \in BOOLEAN, NEW from, NEW to, Flown(zone, line, vertical, turned, from, to)
    PROVE  Sweeps(zone, vertical, line, turned, from, to)
<1> DEFINE e == Ends(zone, line, vertical)
           a == e[1]
           b == e[2]
           psi == (FirstHeading(vertical) + (IF turned THEN 6 ELSE 0)) % 12
           p == e[IF turned THEN 2 ELSE 1]
           q == e[IF turned THEN 1 ELSE 2]
<1>1. /\ OnEdge(zone, a) /\ OnEdge(zone, b)
      /\ X(a) \in Int /\ X(b) \in Int /\ Y(a) \in Int /\ Y(b) \in Int
      /\ vertical => X(a) = Fine * line /\ X(b) = Fine * line /\ Y(b) < Y(a)
      /\ ~vertical => -Y(a) = Fine * line /\ -Y(b) = Fine * line /\ X(a) < X(b)
  BY EndsAre DEF Crosses, Across
<1>2. from = [at |-> p, psi |-> psi] /\ to = [at |-> q, psi |-> psi]
  BY Zenon DEF Flown
<1> HIDE DEF e, psi
<1>3. (turned => p = b /\ q = a) /\ (~turned => p = a /\ q = b)
  OBVIOUS
<1>4. from.at = p /\ to.at = q /\ from.psi = psi /\ to.psi = psi
  BY <1>2
<1> HIDE DEF p, q, a, b
<1>5. /\ OnEdge(zone, p) /\ OnEdge(zone, q)
      /\ X(p) \in Int /\ X(q) \in Int /\ Y(p) \in Int /\ Y(q) \in Int
      /\ vertical => X(p) = Fine * line /\ X(q) = Fine * line
      /\ ~vertical => -Y(p) = Fine * line /\ -Y(q) = Fine * line
      /\ vertical => IF turned THEN Y(p) < Y(q) ELSE Y(q) < Y(p)
      /\ ~vertical => IF turned THEN X(q) < X(p) ELSE X(p) < X(q)
  BY <1>1, <1>3
<1>6. psi = IF vertical THEN IF turned THEN 3 ELSE 9 ELSE IF turned THEN 6 ELSE 0
  BY SMT DEF psi, FirstHeading
<1>7. Travel(p, q) = psi
  <2> DEFINE xp == X(p)
             xq == X(q)
             yp == Y(p)
             yq == Y(q)
  <2>1. Travel(p, q) = CASE xq > xp -> 0 [] yq > yp -> 3 [] xq < xp -> 6 [] OTHER -> 9
    BY Zenon DEF Travel
  <2>2. CASE vertical
    <3>1. xp = xq /\ (IF turned THEN yp < yq ELSE yq < yp) /\ xp \in Int /\ yp \in Int /\ yq \in Int
      BY <1>5, <2>2
    <3> HIDE DEF xp, xq, yp, yq
    <3> QED
      BY <1>6, <2>1, <2>2, <3>1
  <2>3. CASE ~vertical
    <3>1. \A u, v \in Int : -u = -v => u = v
      OBVIOUS
    <3>2. yp = yq /\ (IF turned THEN xq < xp ELSE xp < xq) /\ xp \in Int /\ xq \in Int /\ yp \in Int
      BY <1>5, <2>3, <3>1
    <3> HIDE DEF xp, xq, yp, yq
    <3> QED
      BY <1>6, <2>1, <2>3, <3>2
  <2> QED
    BY <2>2, <2>3
<1>8. p # q
  BY <1>5
<1>9. Across(vertical, p) = Fine * line
  BY <1>5 DEF Across
<1> QED
  BY <1>4, <1>5, <1>7, <1>8, <1>9, Zenon DEF Sweeps, psi

\* The waypoints over any convex zone cover it, whatever the radius, up to less than two radii at the
\* last side, flown along the scan lines, and back and forth unless one way only (getAirdropWaypoints);
\* sweeps with a line through a corner of the zone are excepted.
THEOREM SweepsCover == CallSpec => []SweepsCoverZone
<1> DEFINE PlannedFor(zone, radius, oneWay, vertical) ==
             /\ call.zone = zone /\ call.radius = radius
             /\ call.oneWay = oneWay /\ call.vertical = vertical
             /\ answer = AirdropWaypoints(zone, radius, oneWay, vertical)
           Planned ==
             call.op = "sweeps" =>
               \E zone \in Zones, radius \in 1..MaxRadius, oneWay \in BOOLEAN, vertical \in BOOLEAN :
                 PlannedFor(zone, radius, oneWay, vertical)
<1>1. InitCall => Planned
  BY DEF InitCall, NoCall
<1>2. Planned /\ [NextCall]_callVars => Planned'
  <2> SUFFICES ASSUME Planned, [NextCall]_callVars PROVE Planned'
    OBVIOUS
  <2>1. CASE PlanSweeps
    <3>1. PICK zone \in Zones, radius \in 1..MaxRadius, oneWay \in BOOLEAN, vertical \in BOOLEAN :
            /\ call' = [op |-> "sweeps", zone |-> zone, radius |-> radius, oneWay |-> oneWay,
                        vertical |-> vertical]
            /\ answer' = AirdropWaypoints(zone, radius, oneWay, vertical)
      BY <2>1 DEF PlanSweeps
    <3>2. PlannedFor(zone, radius, oneWay, vertical)'
      BY <3>1
    <3> QED
      BY <3>2
  <2>2. CASE UNCHANGED callVars
    BY <2>2 DEF callVars
  <2>3. CASE ~PlanSweeps /\ NextCall
    <3>1. call'.op # "sweeps"
      BY <2>3, OtherCalls
    <3> QED
      BY <3>1
  <2> QED
    BY <2>1, <2>2, <2>3
<1>3. Planned => SweepsCoverZone
  <2> SUFFICES ASSUME Planned, call.op = "sweeps", ~CornerOn(call) PROVE SweepsCoverZone
    BY DEF SweepsCoverZone
  <2>1. PICK zone \in Zones, radius \in 1..MaxRadius, oneWay \in BOOLEAN, vertical \in BOOLEAN :
          PlannedFor(zone, radius, oneWay, vertical)
    OBVIOUS
  <2> HIDE DEF Planned
  <2>2. call.zone = zone /\ call.radius = radius /\ call.oneWay = oneWay /\ call.vertical = vertical
    BY <2>1
  <2>3. Sound(zone) /\ Convex(zone) /\ Resolves(zone) /\ DOMAIN zone = 1..Len(zone)
    <3>1. Sound(zone) /\ Convex(zone) /\ Resolves(zone)
      BY ZonesAssumption DEF Sound
    <3> QED
      BY <3>1, CornerFacts
  <2>4. radius \in Nat \ {0} /\ radius \in Int
    BY MaxRadiusAssumption
  <2> DEFINE lines == ScanLines(zone, radius, vertical)
             n     == Len(lines)
             first == IF vertical THEN XMin(zone) ELSE -YMax(zone)
             last  == IF vertical THEN XMax(zone) ELSE -YMin(zone)
             from(k) == answer[2 * k - 1]
             to(k)   == answer[2 * k]
  <2>5. /\ n \in Nat /\ DOMAIN lines = 1..n
        /\ last - (first + 2 * n * radius) \in 0..(2 * radius - 1)
        /\ \A k \in 1..n :
             /\ lines[k] = first + (2 * k - 1) * radius /\ lines[k] \in Int
             /\ \E l \in 1..Len(zone) : Across(vertical, zone[l]) < lines[k]
             /\ \E g \in 1..Len(zone) : lines[k] < Across(vertical, zone[g])
    BY <2>3, <2>4, LinesAre
  <2>6. ASSUME NEW k \in 1..n, NEW i \in 1..Len(zone) PROVE lines[k] # Across(vertical, zone[i])
    <3>1. ~(\E j \in DOMAIN zone : \E l \in DOMAIN lines :
              lines[l] = IF vertical THEN X(zone[j]) ELSE -Y(zone[j]))
      BY <2>2, Zenon DEF CornerOn
    <3> QED
      BY <2>3, <2>5, <3>1, Zenon DEF Across
  <2>7. /\ Len(answer) \div 2 = n
        /\ \A k \in 1..n : Flown(zone, lines[k], vertical, Turned(k, oneWay), from(k), to(k))
    <3>1. answer = AirdropWaypoints(zone, radius, oneWay, vertical)
      BY <2>1
    <3>2. Len(ScanLines(zone, radius, vertical)) \in Nat
      BY <2>5
    <3> DEFINE answers == AirdropWaypoints(zone, radius, oneWay, vertical)
    <3>3. /\ Len(answers) \div 2 = Len(lines)
          /\ \A k \in 1..Len(lines) :
               Flown(zone, lines[k], vertical, Turned(k, oneWay), answers[2 * k - 1], answers[2 * k])
      BY <3>2, WaypointsAre
    <3> HIDE DEF answers, lines
    <3> QED
      BY <3>1, <3>3 DEF answers
  <2> HIDE DEF lines, n, first, last, from, to
  <2>8. ASSUME NEW k \in 1..n
        PROVE  /\ OnEdge(zone, from(k).at) /\ OnEdge(zone, to(k).at) /\ from(k).at # to(k).at
               /\ Travel(from(k).at, to(k).at) = from(k).psi /\ to(k).psi = from(k).psi
               /\ Across(vertical, from(k).at) = Fine * (first + (2 * k - 1) * radius)
               /\ from(k).psi = (FirstHeading(vertical) + (IF Turned(k, oneWay) THEN 6 ELSE 0)) % 12
    <3> DEFINE line == lines[k]
               turned == Turned(k, oneWay)
    <3>1. /\ line \in Int /\ line = first + (2 * k - 1) * radius
          /\ \E l \in 1..Len(zone) : Across(vertical, zone[l]) < line
          /\ \E g \in 1..Len(zone) : line < Across(vertical, zone[g])
          /\ \A i \in 1..Len(zone) : line # Across(vertical, zone[i])
      BY <2>5, <2>6
    <3>2. turned \in BOOLEAN
      BY DEF Turned
    <3>3. Flown(zone, line, vertical, turned, from(k), to(k))
      BY <2>7
    <3>4. Crosses(zone, vertical, line)
      BY <3>1, Zenon DEF Crosses
    <3>5. line \in Int
      BY <3>1
    <3> HIDE DEF line, turned
    <3>6. Sweeps(zone, vertical, line, turned, from(k), to(k))
      BY <2>3, <3>2, <3>3, <3>4, <3>5, SweepOf, Zenon
    <3> QED
      BY <3>1, <3>6, Zenon DEF Sweeps, turned
  <2>9. ASSUME NEW k \in 1..(n - 1)
        PROVE  from(k + 1).psi = IF oneWay THEN from(k).psi ELSE (from(k).psi + 6) % 12
    <3>1. k \in 1..n /\ k + 1 \in 1..n /\ k \in Nat
      BY <2>5
    <3> DEFINE psi(t) == (FirstHeading(vertical) + (IF t THEN 6 ELSE 0)) % 12
    <3>2. from(k).psi = psi(Turned(k, oneWay)) /\ from(k + 1).psi = psi(Turned(k + 1, oneWay))
      BY <2>8, <3>1
    <3>3. CASE oneWay
      <4>1. Turned(k, oneWay) = FALSE /\ Turned(k + 1, oneWay) = FALSE
        BY <3>3 DEF Turned
      <4> HIDE DEF psi
      <4> QED
        BY <3>2, <3>3, <4>1, Zenon
    <3>4. CASE ~oneWay
      <4>1. \/ Turned(k, oneWay) = FALSE /\ Turned(k + 1, oneWay) = TRUE
            \/ Turned(k, oneWay) = TRUE /\ Turned(k + 1, oneWay) = FALSE
        <5>1. (k % 2 = 0 /\ (k + 1) % 2 # 0) \/ (k % 2 # 0 /\ (k + 1) % 2 = 0)
          BY <3>1
        <5> QED
          BY <3>4, <5>1, Zenon DEF Turned
      <4>2. psi(TRUE) = (psi(FALSE) + 6) % 12 /\ psi(FALSE) = (psi(TRUE) + 6) % 12
        BY SMT DEF FirstHeading
      <4> HIDE DEF psi
      <4> QED
        BY <3>2, <3>4, <4>1, <4>2, Zenon
    <3> QED
      BY <3>3, <3>4
  <2> DEFINE Goal(zz, rr, ww, vv) ==
        LET number == Len(answer) \div 2
            begin  == IF vv THEN XMin(zz) ELSE -YMax(zz)
            end    == IF vv THEN XMax(zz) ELSE -YMin(zz)
        IN  /\ \A k \in 1..number :
                 /\ OnEdge(zz, from(k).at) /\ OnEdge(zz, to(k).at)
                 /\ from(k).at # to(k).at
                 /\ Travel(from(k).at, to(k).at) = from(k).psi /\ to(k).psi = from(k).psi
                 /\ Across(vv, from(k).at) = Fine * (begin + (2 * k - 1) * rr)
            /\ end - (begin + 2 * number * rr) \in 0..(2 * rr - 1)
            /\ \A k \in 1..(number - 1) :
                 from(k + 1).psi = IF ww THEN from(k).psi ELSE (from(k).psi + 6) % 12
  <2>10. Goal(call.zone, call.radius, call.oneWay, call.vertical) => SweepsCoverZone
    BY Zenon DEF SweepsCoverZone, from, to, Across
  <2>11. Goal(zone, radius, oneWay, vertical)
    <3>1. Len(answer) \div 2 = n
      BY <2>7
    <3> QED
      BY <2>5, <2>8, <2>9, <3>1, Zenon DEF first, last
  <2> HIDE DEF Goal
  <2> QED
    BY <2>2, <2>10, <2>11
<1> HIDE DEF Planned
<1> QED
  BY <1>1, <1>2, <1>3, PTL DEF CallSpec
=============================================================================
