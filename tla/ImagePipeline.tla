----------------------------- MODULE ImagePipeline -----------------------------
(***************************************************************************)
(* What the CV aggregator promises about the images it is given: each one  *)
(* is either discarded or analysed once, its result is delivered once, and *)
(* nothing is accepted after the pipeline is closed.  Accepted images are  *)
(* discarded only by closing it.                                           *)
(***************************************************************************)
CONSTANT Images

VARIABLES
    open,   \* images may be accepted
    stage   \* of each image

vars == <<open, stage>>

Init == open = TRUE /\ stage = [i \in Images |-> "new"]

Move(i, from, to) == stage[i] = from /\ stage' = [stage EXCEPT ![i] = to]

Accept(i) == open /\ Move(i, "new", "accepted") /\ UNCHANGED open

\* The pipeline is closed, or has no thread to spare.
Refuse(i) == Move(i, "new", "discarded") /\ UNCHANGED open

Record(i) == Move(i, "accepted", "recorded") /\ UNCHANGED open

Deliver ==
    /\ stage' = [i \in Images |-> IF stage[i] = "recorded" THEN "delivered" ELSE stage[i]]
    /\ UNCHANGED open

\* Closing may discard images that are waiting to be analysed.
Close ==
    /\ open' = FALSE
    /\ \E waiting \in SUBSET {i \in Images : stage[i] = "accepted"} :
         stage' = [i \in Images |-> IF i \in waiting THEN "discarded" ELSE stage[i]]

Next ==
    \/ Deliver \/ Close
    \/ \E i \in Images : Accept(i) \/ Refuse(i) \/ Record(i)

Spec == Init /\ [][Next]_vars
===============================================================================
