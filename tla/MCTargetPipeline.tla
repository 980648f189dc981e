-------------------------- MODULE MCTargetPipeline --------------------------
(* TargetPipeline on pictures of 18 by 10 pixels, which as those of the camera *)
(* leave an odd padding above and below, and of another size.                  *)
EXTENDS TargetPipeline, TLC

\* Two headings off the axes, with cosine and sine of the triangle of 3, 4 and 5.
MCDirections == {<<1, 0, 1>>, <<0, 1, 1>>, <<3, 4, 5>>, <<-4, 3, 5>>}
MCFlight ==
  << [lat |-> 50, lng |-> 10, cosLat |-> <<3, 5>>, altitude |-> 2, heading |-> <<3, 4, 5>>],
     [lat |-> 60, lng |-> 20, cosLat |-> <<1, 2>>, altitude |-> 3, heading |-> <<-4, 3, 5>>] >>
\* Half a metre for a pixel at a height of one metre; a degree of seven metres.
MCPixelSize == <<1, 2>>
MCSizes == {[cols |-> 18, rows |-> 10], [cols |-> 10, rows |-> 12]}

Thing(x1, y1, x2, y2, scores) ==
  [x1 |-> x1, y1 |-> y1, x2 |-> x2, y2 |-> y2, scores |-> scores]
\* Three boxes of which each overlaps the next; a thing on the left and one on the
\* right with the one above a weak one; nothing.
MCScenes == {<<Thing(2, 0, 12, 6, <<7, 0>>), Thing(2, 0, 13, 6, <<8, 1>>),
               Thing(2, 0, 14, 6, <<9, 0>>)>>,
             <<Thing(0, 4, 2, 6, <<5, 5>>), Thing(4, 2, 7, 8, <<1, 9>>), Thing(5, 2, 6, 4, <<0, 1>>)>>,
             <<>>}
Symmetry == Permutations(Workers)
=============================================================================
