-------------------------- MODULE CameraUdpProofs --------------------------
(***************************************************************************)
(* Proofs about CameraUdp, for any number of callers, planes, chunks of a  *)
(* plane and requests: its type invariant; that planes are not mixed while *)
(* answers are only late; and that calls succeed while nothing goes wrong. *)
(*                                                                         *)
(* The argument is about what the callers have before them: the socket's   *)
(* buffer and behind it what is still on its way.  That is one answer      *)
(* after another, the first of which may be read in part.                  *)
(***************************************************************************)
EXTENDS CameraUdp, FiniteSetTheorems, TLAPS

\* A datagram of the first n requests.
Datagrams(n) ==
    {d \in [kind : {"header", "chunk", "pong"}, request : 1..n, plane : PlaneNums, index : Nat] :
        /\ d.index \in Indices(d.plane)
        /\ d.kind # "chunk" => d.index = 0
        /\ d.kind = "pong" => d.plane = 1}

\* The first and the last datagram of an answer.
BeginsAnswer(d) == d.kind = "pong" \/ (d.kind = "header" /\ d.plane = 1)
EndsAnswer(d) ==
    d.kind = "pong" \/ (d.kind = "chunk" /\ d.plane = Planes /\ d.index + 1 = Chunks[Planes])

\* What comes behind a datagram: the rest of its answer, then another answer.
Follows(d, e) ==
    \/ d.kind = "header" /\ e = Chunk(d.request, d.plane, 0)
    \/ d.kind = "chunk" /\ d.index + 1 < Chunks[d.plane] /\ e = Chunk(d.request, d.plane, d.index + 1)
    \/ /\ d.kind = "chunk" /\ d.index + 1 = Chunks[d.plane] /\ d.plane < Planes
       /\ e = Header(d.request, d.plane + 1)
    \/ EndsAnswer(d) /\ BeginsAnswer(e)

\* Answers one behind the other, of the first of which a part may have been read.
Ordered(s) == \A i \in 1..(Len(s) - 1) : Follows(s[i], s[i + 1])
WellFormed(s) == Ordered(s) /\ (Len(s) # 0 => EndsAnswer(s[Len(s)]))

\* At most one answer, or the rest of it.
OneAnswer(s) == \A i \in 1..Len(s) : EndsAnswer(s[i]) => i = Len(s)

-----------------------------------------------------------------------------
(* Sequences.                                                                *)

LEMMA ChunkCounts ==
  /\ Planes \in Nat \ {0} /\ 1 \in PlaneNums /\ Planes \in PlaneNums /\ PlaneNums \subseteq Nat
  /\ \A p \in PlaneNums : Chunks[p] \in Nat \ {0} /\ 0 \in Indices(p) /\ Chunks[p] - 1 \in Indices(p)
<1>1. \A p \in PlaneNums : Chunks[p] \in Nat \ {0}
  BY ChunksAssumption DEF PlaneNums
<1>2. \A p \in PlaneNums : 0 \in Indices(p) /\ Chunks[p] - 1 \in Indices(p)
  BY <1>1, SMT DEF Indices
<1> QED BY <1>1, <1>2, PlanesAssumption, SMT DEF PlaneNums

LEMMA SameSequence ==
  ASSUME NEW S, NEW s \in Seq(S), NEW t \in Seq(S), Len(s) = Len(t),
         \A i \in 1..Len(s) : s[i] = t[i]
  PROVE  s = t
BY SMT

LEMMA ConcatAssociative ==
  ASSUME NEW S, NEW q \in Seq(S), NEW s \in Seq(S), NEW a \in Seq(S) PROVE q \o (s \o a) = (q \o s) \o a
<1> DEFINE x == q \o (s \o a)
           y == (q \o s) \o a
<1>1. x \in Seq(S) /\ y \in Seq(S)
  OBVIOUS
<1>2. Len(x) = Len(y)
  BY SMT
<1>3. \A i \in 1..Len(x) : x[i] = y[i]
  BY SMT
<1> HIDE DEF x, y
<1>4. x = y
  BY <1>1, <1>2, <1>3, SameSequence
<1> QED BY <1>4 DEF x, y

\* A concatenation of three reads the same from either side.
Regroups(x, y, z) == x \o (y \o z) = (x \o y) \o z

LEMMA KeptAssociative ==
  ASSUME NEW S, NEW x \in Seq(S), NEW y \in Seq(S), NEW z \in Seq(S)
  PROVE  Regroups(x, y, z)
<1>1. (x \o y) \o z = x \o (y \o z)
  BY ConcatAssociative
<1> QED
  BY <1>1, Zenon DEF Regroups

LEMMA SecondPart ==
  ASSUME NEW S, NEW q \in Seq(S), NEW s \in Seq(S)
  PROVE  /\ s # <<>> => Append(q, Head(s)) \o Tail(s) = q \o s
         /\ q # <<>> => /\ Head(q) = (q \o s)[1] /\ Tail(q) \o s = Tail(q \o s) /\ q \o s # <<>>
                        /\ Tail(q) \in Seq(S) /\ Head(q) \in S
<1>1. ASSUME s # <<>> PROVE Append(q, Head(s)) \o Tail(s) = q \o s
  <2> DEFINE t == Append(q, Head(s)) \o Tail(s)
  <2>1. t \in Seq(S) /\ q \o s \in Seq(S) /\ Len(t) = Len(q \o s)
    BY <1>1, SMT
  <2>2. \A i \in 1..Len(t) : t[i] = (q \o s)[i]
    BY <1>1, SMT
  <2> HIDE DEF t
  <2>3. t = q \o s
    BY <2>1, <2>2, SameSequence
  <2> QED BY <2>3 DEF t
<1>2. ASSUME q # <<>>
      PROVE  /\ Head(q) = (q \o s)[1] /\ Tail(q) \o s = Tail(q \o s) /\ q \o s # <<>>
             /\ Tail(q) \in Seq(S) /\ Head(q) \in S
  <2> DEFINE t == Tail(q) \o s
  <2>0. Len(q) \in Nat \ {0} /\ q \o s \in Seq(S) /\ Len(q \o s) = Len(q) + Len(s) /\ Len(s) \in Nat
    BY <1>2, SMT
  <2>1. q \o s # <<>> /\ Tail(q) \in Seq(S) /\ Head(q) \in S /\ Head(q) = (q \o s)[1]
    BY <1>2, <2>0, SMT
  <2>2. t \in Seq(S) /\ Tail(q \o s) \in Seq(S) /\ Len(t) = Len(Tail(q \o s))
    BY <1>2, <2>0, SMT
  <2>3. \A i \in 1..Len(t) : t[i] = Tail(q \o s)[i]
    BY <1>2, <2>0, SMT
  <2> HIDE DEF t
  <2>4. t = Tail(q \o s)
    BY <2>2, <2>3, SameSequence
  <2> QED BY <2>1, <2>4 DEF t
<1> QED BY <1>1, <1>2

LEMMA ConcatFacts ==
  ASSUME NEW S, NEW s \in Seq(S), NEW a \in Seq(S)
  PROVE  /\ s \o a \in Seq(S) /\ Len(s \o a) = Len(s) + Len(a) /\ Len(s) \in Nat /\ Len(a) \in Nat
         /\ \A i \in 1..Len(s) : (s \o a)[i] = s[i]
         /\ \A i \in 1..Len(a) : (s \o a)[Len(s) + i] = a[i]
BY SMT

LEMMA TailFacts ==
  ASSUME NEW S, NEW s \in Seq(S), s # <<>>
  PROVE  /\ Tail(s) \in Seq(S) /\ Len(Tail(s)) = Len(s) - 1 /\ Len(s) \in Nat \ {0}
         /\ \A i \in 1..(Len(s) - 1) : Tail(s)[i] = s[i + 1]
         /\ s[1] \in S
BY SMT

LEMMA TailWellFormed ==
  ASSUME NEW S, NEW s \in Seq(S), s # <<>>, WellFormed(s) PROVE WellFormed(Tail(s))
<1>1. /\ Tail(s) \in Seq(S) /\ Len(Tail(s)) = Len(s) - 1 /\ Len(s) \in Nat \ {0}
      /\ \A i \in 1..(Len(s) - 1) : Tail(s)[i] = s[i + 1]
  BY TailFacts
<1> DEFINE n == Len(s)
<1>2. \A i \in 1..((n - 1) - 1) : Follows(s[i + 1], s[(i + 1) + 1]) /\ i \in 1..(n - 1) /\ i + 1 \in 1..(n - 1)
  <2> TAKE i \in 1..((n - 1) - 1)
  <2>1. i + 1 \in 1..(n - 1) /\ i \in 1..(n - 1)
    BY <1>1, SMT
  <2> QED BY <2>1 DEF WellFormed, Ordered
<1>3. Ordered(Tail(s))
  <2> HIDE DEF Follows
  <2> QED BY <1>1, <1>2 DEF Ordered
<1>4. n - 1 # 0 => n - 1 \in 1..(n - 1) /\ (n - 1) + 1 = n
  BY <1>1, SMT
<1>5. n - 1 # 0 => Tail(s)[n - 1] = s[n]
  <2> HIDE DEF n
  <2>1. n - 1 # 0 => Tail(s)[n - 1] = s[(n - 1) + 1]
    BY <1>1, <1>4 DEF n
  <2> QED BY <1>4, <2>1
<1> QED BY <1>1, <1>3, <1>5 DEF WellFormed

LEMMA ConcatWellFormed ==
  ASSUME NEW S, NEW s \in Seq(S), NEW a \in Seq(S), WellFormed(s), WellFormed(a),
         a # <<>>, BeginsAnswer(a[1])
  PROVE  WellFormed(s \o a)
<1> DEFINE n == Len(s)
           m == Len(a)
           t == s \o a
<1>1. /\ n \in Nat /\ m \in Nat \ {0} /\ Len(t) = n + m
      /\ \A i \in 1..n : t[i] = s[i]
      /\ \A i \in 1..m : t[n + i] = a[i]
  <2>1. m # 0
    BY SMT
  <2> QED BY <2>1, ConcatFacts
<1> HIDE DEF t
<1>2. ASSUME NEW i \in 1..(n + m - 1) PROVE Follows(t[i], t[i + 1])
  <2>1. CASE i < n
    <3>1. i \in 1..(n - 1) /\ i \in 1..n /\ i + 1 \in 1..n
      BY <1>1, <2>1, SMT
    <3> QED BY <1>1, <3>1 DEF WellFormed, Ordered
  <2>2. CASE i = n
    <3>1. n # 0 /\ n \in 1..n /\ 1 \in 1..m
      BY <1>1, <2>2, SMT
    <3>2. t[n] = s[n] /\ t[n + 1] = a[1]
      BY <1>1, <3>1
    <3> QED BY <2>2, <3>1, <3>2 DEF WellFormed, Follows
  <2>3. CASE i > n
    <3>1. i - n \in 1..(m - 1) /\ i - n \in 1..m /\ i - n + 1 \in 1..m
          /\ n + (i - n) = i /\ n + (i - n + 1) = i + 1
      BY <1>1, <2>3, SMT
    <3>2. t[n + (i - n)] = a[i - n] /\ t[n + (i - n + 1)] = a[i - n + 1]
      BY <1>1, <3>1
    <3>3. Follows(a[i - n], a[i - n + 1])
      BY <3>1 DEF WellFormed, Ordered
    <3> QED BY <3>1, <3>2, <3>3
  <2> QED BY <1>1, <2>1, <2>2, <2>3, SMT
<1>3. Len(t) # 0 /\ EndsAnswer(t[Len(t)])
  <2>1. m \in 1..m /\ n + m # 0
    BY <1>1, SMT
  <2> QED BY <1>1, <2>1 DEF WellFormed
<1>4. WellFormed(t)
  BY <1>1, <1>2, <1>3 DEF WellFormed, Ordered
<1> QED BY <1>4 DEF t

-----------------------------------------------------------------------------
(* What the camera sends for a picture.  FlattenSeq is a recursive function;  *)
(* that it exists and what it is follow from the least number without it.     *)

LEMMA LeastElement ==
  ASSUME NEW T, T \subseteq Nat, T # {}
  PROVE  \E n \in T : \A m \in T : n <= m
<1>1. PICK top \in T : TRUE
  OBVIOUS
<1> DEFINE Below == {0..n : n \in T \intersect 0..top}
           R == StrictSubsetOrdering(0..top)
<1>2. IsWellFoundedOn(R, SUBSET (0..top))
  <2>1. IsFiniteSet(0..top)
    BY <1>1, FS_Interval
  <2> QED BY <2>1, FS_StrictSubsetOrderingWellFounded, FS_FiniteSubsetsOfFinite
<1>3. Below \subseteq SUBSET (0..top) /\ Below # {}
  <2>1. \A n \in 0..top : 0..n \subseteq 0..top
    BY <1>1
  <2>2. top \in 0..top
    BY <1>1
  <2> QED BY <1>1, <2>1, <2>2
<1>4. PICK b \in Below : \A c \in Below : ~(<<c, b>> \in R)
  <2> HIDE DEF Below, R
  <2> QED BY <1>2, <1>3, WFMin, Zenon
<1>5. PICK n \in T \intersect 0..top : b = 0..n
  OBVIOUS
<1>6. ASSUME NEW m \in T, ~(n <= m) PROVE FALSE
  <2>1. m \in 0..top /\ 0..m \subseteq 0..n /\ n \in 0..n /\ n \notin 0..m /\ 0..n \subseteq 0..top
    BY <1>1, <1>6, SMT
  <2>2. 0..m \in Below /\ <<0..m, b>> \in R
    BY <1>5, <2>1 DEF StrictSubsetOrdering
  <2> QED BY <1>4, <2>2
<1> QED BY <1>6

LEMMA FlattenExists ==
  ASSUME NEW N \in Nat, NEW seqs
  PROVE  \E f : f = [i \in 1..N |-> IF i = 1 THEN seqs[i] ELSE f[i - 1] \o seqs[i]]
<1> DEFINE Body(f, n) == [i \in 1..n |-> IF i = 1 THEN seqs[i] ELSE f[i - 1] \o seqs[i]]
           T == {n \in 0..N : ~\E f : f = Body(f, n)}
<1>1. ASSUME T # {} PROVE FALSE
  <2>1. PICK n \in T : \A m \in T : n <= m
    <3>1. T \subseteq 0..N
      BY Zenon
    <3> HIDE DEF T
    <3>2. T \subseteq Nat
      BY <3>1
    <3> QED BY <3>2, <1>1, LeastElement
  <2>2. n # 0
    <3> DEFINE f == [i \in 1..0 |-> 0]
    <3>1. 1..0 = {}
      BY SMT
    <3>2. f = Body(f, 0)
      BY <3>1
    <3> HIDE DEF f, Body
    <3> QED BY <2>1, <3>2
  <2>3. n - 1 \in 0..N /\ n \in 1..N /\ ~(n <= n - 1) /\ n - 1 \in Nat
    BY <2>1, <2>2, SMT
  <2>4. PICK f : f = Body(f, n - 1)
    <3>1. n - 1 \notin T
      BY <2>1, <2>3, Zenon
    <3> QED BY <2>3, <3>1, Zenon
  <2> DEFINE g == [i \in 1..n |-> IF i = n THEN IF n = 1 THEN seqs[n] ELSE f[n - 1] \o seqs[n] ELSE f[i]]
  <2>5. \A i \in 1..n : g[i] = Body(g, n)[i]
    <3> TAKE i \in 1..n
    <3>0. \A j \in 1..n : j # n => j \in 1..(n - 1)
      BY <2>3, SMT
    <3>1. CASE i = n
      <4>1. i # 1 => n - 1 \in 1..n /\ n - 1 # n
        BY <2>3, <3>1, SMT
      <4> QED BY <3>1, <4>1
    <3>2. CASE i # n
      <4>1. i \in 1..(n - 1) /\ (i # 1 => i - 1 \in 1..n /\ i - 1 # n /\ i - 1 \in 1..(n - 1))
        BY <2>3, <3>2, SMT
      <4>2. f[i] = IF i = 1 THEN seqs[i] ELSE f[i - 1] \o seqs[i]
        BY <2>4, <4>1
      <4>3. g[i] = f[i] /\ (i # 1 => g[i - 1] = f[i - 1])
        BY <3>2, <4>1
      <4>4. Body(g, n)[i] = IF i = 1 THEN seqs[i] ELSE g[i - 1] \o seqs[i]
        BY Zenon
      <4> QED BY <4>2, <4>3, <4>4
    <3> QED BY <3>1, <3>2
  <2>6. g = Body(g, n)
    BY <2>5
  <2> HIDE DEF g, Body
  <2> QED BY <2>1, <2>6
<1>2. N \in 0..N
  OBVIOUS
<1>3. ~(N \in T)
  BY <1>1
<1> QED BY <1>2, <1>3

LEMMA PlaneSentIs ==
  ASSUME NEW n \in Nat, NEW r \in 1..n, NEW p \in PlaneNums
  PROVE  /\ PlaneSent(r, p) \in Seq(Datagrams(n)) /\ Len(PlaneSent(r, p)) = Chunks[p] + 1
         /\ PlaneSent(r, p)[1] = Header(r, p)
         /\ \A i \in 1..Chunks[p] : PlaneSent(r, p)[i + 1] = Chunk(r, p, i - 1)
<1> DEFINE h == <<Header(r, p)>>
           k == Chunks[p]
           cs == [i \in 1..k |-> Chunk(r, p, i - 1)]
<1>1. k \in Nat \ {0} /\ 0 \in Indices(p) /\ Indices(p) = 0..(k - 1)
  BY ChunkCounts DEF Indices
<1>2. Header(r, p) \in Datagrams(n)
  BY <1>1 DEF Header, Datagrams
<1>3. \A i \in 1..k : Chunk(r, p, i - 1) \in Datagrams(n)
  <2> TAKE i \in 1..k
  <2>1. i - 1 \in Indices(p) /\ i - 1 \in Nat
    BY <1>1, SMT
  <2> QED BY <2>1 DEF Chunk, Datagrams
<1>4. cs \in Seq(Datagrams(n)) /\ Len(cs) = k /\ \A i \in 1..k : cs[i] = Chunk(r, p, i - 1)
  <2> HIDE DEF k
  <2> QED BY <1>1, <1>3, SMT
<1>5. h \in Seq(Datagrams(n)) /\ Len(h) = 1 /\ h[1] = Header(r, p)
  BY <1>2
<1>6. PlaneSent(r, p) = h \o cs
  BY DEF PlaneSent
<1> HIDE DEF h, cs, k
<1>7. /\ h \o cs \in Seq(Datagrams(n)) /\ Len(h \o cs) = k + 1 /\ (h \o cs)[1] = h[1]
      /\ \A i \in 1..k : (h \o cs)[i + 1] = cs[i]
  <2>1. k \in Nat \ {0} /\ cs \in Seq(Datagrams(n)) /\ Len(cs) = k /\ h \in Seq(Datagrams(n)) /\ Len(h) = 1
    BY <1>1, <1>4, <1>5
  <2>2. /\ h \o cs \in Seq(Datagrams(n)) /\ Len(h \o cs) = Len(h) + Len(cs)
        /\ \A i \in 1..Len(h) : (h \o cs)[i] = h[i]
        /\ \A i \in 1..Len(cs) : (h \o cs)[Len(h) + i] = cs[i]
    <3>1. h \in Seq(Datagrams(n))
      BY <2>1
    <3>2. cs \in Seq(Datagrams(n))
      BY <2>1
    <3> QED BY <3>1, <3>2, ConcatFacts
  <2>3. 1 \in 1..Len(h) /\ 1 + k = k + 1 /\ \A i \in 1..k : 1 + i = i + 1
    BY <2>1, SMT
  <2> QED BY <2>1, <2>2, <2>3
<1> QED BY <1>4, <1>5, <1>6, <1>7 DEF k

\* The answer to a request is one well-formed answer from the header of the first plane on.
LEMMA PictureIs ==
  ASSUME NEW n \in Nat, NEW r \in 1..n
  PROVE  LET a == Picture(r)
         IN  /\ a \in Seq(Datagrams(n)) /\ a # <<>> /\ a[1] = Header(r, 1)
             /\ WellFormed(a) /\ OneAnswer(a)
<1> DEFINE seqs == [p \in PlaneNums |-> PlaneSent(r, p)]
           Body(f) == [i \in 1..Planes |-> IF i = 1 THEN seqs[i] ELSE f[i - 1] \o seqs[i]]
           flat == CHOOSE f : f = Body(f)
           \* The planes up to the i-th, put together to the sequence s.
           Part(s, i) ==
             /\ s \in Seq(Datagrams(n)) /\ Len(s) # 0 /\ s[1] = Header(r, 1) /\ Ordered(s)
             /\ s[Len(s)] = Chunk(r, i, Chunks[i] - 1)
             /\ \A j \in 1..(Len(s) - 1) : ~EndsAnswer(s[j])
           T == {i \in 1..Planes : ~Part(flat[i], i)}
<1>0. Planes \in Nat \ {0} /\ PlaneNums = 1..Planes
  BY PlanesAssumption DEF PlaneNums
<1>1. Picture(r) = flat[Planes]
  <2>1. seqs \in Seq(Seq(Datagrams(n))) /\ Len(seqs) = Planes
    BY <1>0, PlaneSentIs
  <2>2. FlattenSeq(seqs) = flat[Planes]
    BY <1>0, <2>1 DEF FlattenSeq
  <2> QED BY <2>2 DEF Picture
<1>2. flat = Body(flat)
  <2>1. \E f : f = Body(f)
    <3> HIDE DEF seqs
    <3> QED BY <1>0, FlattenExists
  <2> HIDE DEF Body
  <2> QED BY <2>1
<1>3. \A i \in 1..Planes : flat[i] = IF i = 1 THEN PlaneSent(r, 1) ELSE flat[i - 1] \o PlaneSent(r, i)
  <2> HIDE DEF flat
  <2> QED BY <1>0, <1>2
<1> HIDE DEF flat, seqs, Body
<1>4. \A p \in 1..Planes : LET s == PlaneSent(r, p) IN
        /\ s \in Seq(Datagrams(n)) /\ Len(s) = Chunks[p] + 1 /\ s[1] = Header(r, p) /\ Ordered(s)
        /\ s[Len(s)] = Chunk(r, p, Chunks[p] - 1)
        /\ \A j \in 1..(Len(s) - 1) : ~EndsAnswer(s[j])
  <2> TAKE p \in 1..Planes
  <2> DEFINE s == PlaneSent(r, p)
             k == Chunks[p]
  <2>1. /\ s \in Seq(Datagrams(n)) /\ Len(s) = k + 1 /\ s[1] = Header(r, p)
        /\ \A i \in 1..k : s[i + 1] = Chunk(r, p, i - 1)
        /\ k \in Nat \ {0}
    <3>1. n \in Nat /\ r \in 1..n /\ p \in PlaneNums
      BY <1>0, ChunkCounts DEF PlaneNums
    <3>2. /\ PlaneSent(r, p) \in Seq(Datagrams(n)) /\ Len(PlaneSent(r, p)) = Chunks[p] + 1
          /\ PlaneSent(r, p)[1] = Header(r, p)
          /\ \A i \in 1..Chunks[p] : PlaneSent(r, p)[i + 1] = Chunk(r, p, i - 1)
      BY <3>1, PlaneSentIs, Zenon
    <3>3. Chunks[p] \in Nat \ {0}
      BY <3>1, ChunkCounts, Zenon
    <3> QED BY <3>2, <3>3, Zenon
  <2> HIDE DEF s, k
  <2>2. \A i \in 1..(k + 1) : i = 1 \/ (i - 1 \in 1..k /\ (i - 1) + 1 = i)
    BY <2>1, SMT
  <2>3. \A i \in 1..(k + 1) : i # 1 => s[i] = Chunk(r, p, i - 2)
    <3> TAKE i \in 1..(k + 1)
    <3>1. i # 1 => s[(i - 1) + 1] = Chunk(r, p, (i - 1) - 1)
      BY <2>1, <2>2
    <3>2. (i - 1) - 1 = i - 2 /\ (i - 1) + 1 = i
      BY <2>1, SMT
    <3> QED BY <3>1, <3>2
  <2>4. Ordered(s)
    <3>1. SUFFICES ASSUME NEW i \in 1..k PROVE Follows(s[i], s[i + 1])
      <4>1. (k + 1) - 1 = k
        BY <2>1, SMT
      <4> QED BY <2>1, <4>1 DEF Ordered
    <3>2. s[i + 1] = Chunk(r, p, i - 1)
      BY <2>1
    <3>3. CASE i = 1
      BY <2>1, <3>2, <3>3 DEF Follows, Header
    <3>4. CASE i # 1
      <4>1. i \in 1..(k + 1) /\ (i - 2) + 1 = i - 1 /\ i - 1 < k
        BY <2>1, SMT
      <4>2. s[i] = Chunk(r, p, i - 2)
        BY <2>3, <3>4, <4>1
      <4> QED BY <3>2, <4>1, <4>2 DEF Follows, Chunk, k
    <3> QED BY <3>3, <3>4
  <2>5. s[k + 1] = Chunk(r, p, k - 1)
    <3>1. k \in 1..k
      BY <2>1
    <3> QED BY <2>1, <3>1
  <2>6. ASSUME NEW j \in 1..k PROVE ~EndsAnswer(s[j])
    <3>1. CASE j = 1
      BY <2>1, <3>1 DEF EndsAnswer, Header
    <3>2. CASE j # 1
      <4>1. j \in 1..(k + 1) /\ (j - 2) + 1 # k
        BY <2>1, SMT
      <4>2. s[j] = Chunk(r, p, j - 2)
        BY <2>3, <3>2, <4>1
      <4> QED BY <4>1, <4>2 DEF EndsAnswer, Chunk, k
    <3> QED BY <3>1, <3>2
  <2>7. (k + 1) - 1 = k
    BY <2>1, SMT
  <2> QED BY <2>1, <2>4, <2>5, <2>6, <2>7 DEF s, k
<1>5. ASSUME T # {} PROVE FALSE
  <2>1. PICK i \in T : \A m \in T : i <= m
    <3>1. T \subseteq Nat
      OBVIOUS
    <3> HIDE DEF T
    <3> QED BY <3>1, <1>5, LeastElement
  <2>2. CASE i = 1
    <3>1. flat[1] = PlaneSent(r, 1) /\ 1 \in 1..Planes
      BY <1>0, <1>3
    <3>2. Part(PlaneSent(r, 1), 1)
      <4>1. Chunks[1] + 1 # 0
        BY ChunkCounts, SMT
      <4> QED BY <1>4, <3>1, <4>1
    <3> QED BY <2>1, <2>2, <3>1, <3>2
  <2>3. CASE i # 1
    <3> DEFINE s == flat[i - 1]
               q == PlaneSent(r, i)
    <3>1. i \in 1..Planes /\ i - 1 \in 1..Planes /\ ~(i <= i - 1) /\ i - 1 < Planes /\ (i - 1) + 1 = i
      BY <1>0, <2>1, <2>3, SMT
    <3>2. Part(s, i - 1)
      <4>1. i - 1 \notin T
        BY <2>1, <3>1, Zenon
      <4> HIDE DEF Part, s
      <4> QED BY <3>1, <4>1 DEF s
    <3>3. flat[i] = s \o q
      BY <1>3, <2>3, <3>1
    <3>4. /\ q \in Seq(Datagrams(n)) /\ Len(q) = Chunks[i] + 1 /\ q[1] = Header(r, i) /\ Ordered(q)
          /\ q[Len(q)] = Chunk(r, i, Chunks[i] - 1)
          /\ \A j \in 1..(Len(q) - 1) : ~EndsAnswer(q[j])
          /\ Chunks[i] \in Nat \ {0} /\ Chunks[i - 1] \in Nat \ {0}
      BY <1>0, <1>4, <3>1, ChunkCounts
    <3> DEFINE l == Len(s)
               m == Len(q)
               t == s \o q
    <3>5. /\ l \in Nat \ {0} /\ m \in Nat /\ m >= 2 /\ t \in Seq(Datagrams(n)) /\ Len(t) = l + m
          /\ \A j \in 1..l : t[j] = s[j]
          /\ \A j \in 1..m : t[l + j] = q[j]
      <4>a. s \in Seq(Datagrams(n)) /\ Len(s) # 0
        BY <3>2, Zenon
      <4>b. q \in Seq(Datagrams(n)) /\ Len(q) = Chunks[i] + 1 /\ Chunks[i] \in Nat \ {0}
        BY <3>4, Zenon
      <4> HIDE DEF s, q, Part
      <4>1. s \in Seq(Datagrams(n)) /\ Len(s) # 0 /\ q \in Seq(Datagrams(n)) /\ Len(q) >= 2
        <5>1. Len(q) >= 2
          BY <4>b, SMT
        <5> QED BY <4>a, <4>b, <5>1, Zenon
      <4>2. s \in Seq(Datagrams(n)) /\ q \in Seq(Datagrams(n))
        BY <4>1
      <4>3. /\ t \in Seq(Datagrams(n)) /\ Len(t) = l + m /\ l \in Nat /\ m \in Nat
            /\ \A j \in 1..l : t[j] = s[j]
            /\ \A j \in 1..m : t[l + j] = q[j]
        BY <4>2, ConcatFacts
      <4> HIDE DEF l, m, t
      <4>4. l # 0 /\ m >= 2
        BY <4>1 DEF l, m
      <4> QED BY <4>3, <4>4
    <3> HIDE DEF t, s, q
    <3>6. s[l] = Chunk(r, i - 1, Chunks[i - 1] - 1) /\ ~EndsAnswer(s[l]) /\ Follows(s[l], q[1])
      <4>1. s[l] = Chunk(r, i - 1, Chunks[i - 1] - 1) /\ q[1] = Header(r, i)
        BY <3>2, <3>4
      <4>2. i - 1 # Planes /\ (Chunks[i - 1] - 1) + 1 = Chunks[i - 1]
        BY <1>0, <3>1, <3>4, SMT
      <4> QED BY <3>1, <4>1, <4>2 DEF Follows, EndsAnswer, Chunk
    <3>7. ASSUME NEW j \in 1..(l + m - 1) PROVE Follows(t[j], t[j + 1]) /\ ~EndsAnswer(t[j])
      <4>1. CASE j < l
        <5>1. j \in 1..(l - 1) /\ j \in 1..l /\ j + 1 \in 1..l
          BY <3>5, <4>1, SMT
        <5> QED BY <3>2, <3>5, <5>1 DEF Ordered
      <4>2. CASE j = l
        <5>1. l \in 1..l /\ 1 \in 1..m
          BY <3>5, SMT
        <5>2. t[j] = s[l] /\ t[j + 1] = q[1]
          BY <3>5, <4>2, <5>1
        <5> QED BY <3>6, <5>2
      <4>3. CASE j > l
        <5>0. l \in Nat /\ m \in Nat /\ j \in 1..(l + m - 1)
          BY <3>5
        <5>1. j - l \in 1..(m - 1) /\ j - l \in 1..m /\ j - l + 1 \in 1..m
              /\ l + (j - l) = j /\ l + (j - l + 1) = j + 1
          <6> HIDE DEF l, m
          <6> QED BY <4>3, <5>0, SMT
        <5>2. t[l + (j - l)] = q[j - l] /\ t[l + (j - l + 1)] = q[j - l + 1]
          BY <3>5, <5>1
        <5>3. Follows(q[j - l], q[j - l + 1]) /\ ~EndsAnswer(q[j - l])
          BY <3>4, <5>1 DEF Ordered
        <5> QED BY <5>1, <5>2, <5>3
      <4> QED BY <3>5, <4>1, <4>2, <4>3, SMT
    <3>8. Len(t) # 0 /\ t[1] = Header(r, 1) /\ t[Len(t)] = Chunk(r, i, Chunks[i] - 1)
      <4>1. 1 \in 1..l /\ m \in 1..m /\ l + m # 0
        BY <3>5, SMT
      <4>2. t[1] = s[1] /\ t[l + m] = q[m]
        BY <3>5, <4>1
      <4> QED BY <3>2, <3>4, <3>5, <4>1, <4>2
    <3>9. Part(t, i)
      BY <3>5, <3>7, <3>8 DEF Ordered
    <3> HIDE DEF Part
    <3> QED BY <2>1, <3>3, <3>9 DEF t
  <2> QED BY <2>2, <2>3
<1>6. Part(flat[Planes], Planes)
  <2>1. Planes \in 1..Planes /\ Planes \notin T
    BY <1>0, <1>5
  <2> QED BY <2>1
<1>7. ASSUME NEW a, Part(a, Planes) PROVE a # <<>> /\ WellFormed(a) /\ OneAnswer(a)
  <2>1. a # <<>> /\ Len(a) \in Nat /\ \A j \in 1..Len(a) : j \in 1..(Len(a) - 1) \/ j = Len(a)
    BY <1>7, SMT
  <2>2. EndsAnswer(a[Len(a)])
    <3>1. (Chunks[Planes] - 1) + 1 = Chunks[Planes]
      BY ChunkCounts, SMT
    <3> QED BY <1>7, <3>1 DEF EndsAnswer, Chunk
  <2> QED BY <1>7, <2>1, <2>2 DEF WellFormed, OneAnswer
<1> QED BY <1>1, <1>6, <1>7

LEMMA PongIs ==
  ASSUME NEW n \in Nat, NEW r \in 1..n
  PROVE  LET a == <<Pong(r)>>
         IN  /\ a \in Seq(Datagrams(n)) /\ a # <<>> /\ a[1] = Pong(r)
             /\ WellFormed(a) /\ OneAnswer(a)
<1>1. Pong(r) \in Datagrams(n) /\ EndsAnswer(Pong(r))
  BY ChunkCounts DEF Pong, Datagrams, EndsAnswer
<1> DEFINE a == <<Pong(r)>>
<1>2. a \in Seq(Datagrams(n)) /\ Len(a) = 1 /\ a[1] = Pong(r) /\ a # <<>>
  BY <1>1
<1> HIDE DEF a
<1>3. \A i \in 1..(Len(a) - 1) : FALSE
  BY <1>2, SMT
<1>4. \A i \in 1..Len(a) : i = Len(a)
  BY <1>2, SMT
<1>5. WellFormed(a) /\ OneAnswer(a)
  BY <1>1, <1>2, <1>3, <1>4 DEF WellFormed, Ordered, OneAnswer
<1> QED BY <1>2, <1>5 DEF a

-----------------------------------------------------------------------------
(* The inductive invariant, part by part.                                    *)

CallerTyped(c) ==
    /\ DOMAIN chunks[c] \subseteq Indices(header[c])
    /\ \A i \in DOMAIN chunks[c] : chunks[c][i] \in Sources
    /\ planes[c] \in Seq({planes[c][i] : i \in DOMAIN planes[c]}) /\ Len(planes[c]) < Planes
    /\ pc[c] # "body" => DOMAIN chunks[c] = {}
    /\ pc[c] \notin {"header", "body"} => Len(planes[c]) = 0
    /\ result[c].kind \in {"none", "failed", "connected", "picture"}

Typed ==
    /\ trouble \subseteq Troubles /\ open \in BOOLEAN /\ connected \in BOOLEAN
    /\ requests \in 0..MaxRequests
    /\ queue \in Seq(Datagrams(requests)) /\ sending \in Seq(Datagrams(requests))
    /\ pc \in [Callers -> Waiting \cup {"idle"}] /\ ready \in [Callers -> BOOLEAN]
    /\ request \in [Callers -> 0..requests] /\ header \in [Callers -> PlaneNums]
    /\ chunks = [c \in Callers |-> chunks[c]] /\ planes = [c \in Callers |-> planes[c]]
    /\ result = [c \in Callers |-> result[c]]
    /\ \A c \in Callers : CallerTyped(c)

\* What the callers have before them: the socket's buffer, then what is on its way.
Stream == queue \o sending

\* The caller has the first k chunks of a plane, and the next one is before it.
InPlane(c, r, k) ==
    /\ DOMAIN chunks[c] = 0..(k - 1)
    /\ \A i \in DOMAIN chunks[c] : chunks[c][i] = [request |-> r, plane |-> header[c]]
    /\ Stream # <<>> /\ Stream[1] = Chunk(r, header[c], k)

Alone == \A c, o \in Callers : pc[c] # "idle" /\ pc[o] # "idle" => c = o
AllIdle == \A c \in Callers : pc[c] = "idle"

PlanesWhole ==
    \A c \in Callers : trouble \subseteq {"late"} =>
        \A i \in DOMAIN planes[c] : \E s \in Sources : planes[c][i] = Whole(s.request, s.plane)

\* The same of what readImage has returned.
PicturesWhole ==
    \A c \in Callers : trouble \subseteq {"late"} /\ result[c].kind = "picture" =>
        \A i \in DOMAIN result[c].planes :
            \E s \in Sources : result[c].planes[i] = Whole(s.request, s.plane)

\* No datagram is lost and calls do not overlap: answers come whole and one by one.
Order ==
    trouble \subseteq {"late"} =>
        /\ WellFormed(Stream) /\ Alone /\ PlanesWhole
        /\ \A c \in Callers : pc[c] = "body" =>
             \E r \in 1..requests, k \in Indices(header[c]) : InPlane(c, r, k)

\* The caller has the first planes of its own answer, the rest of which is before it.
Expects(c) ==
    /\ Stream # <<>>
    /\ \A i \in 1..Len(planes[c]) : planes[c][i] = Whole(request[c], i)
    /\ pc[c] \in {"ping", "connect"} => Stream[1].kind = "pong"
    /\ pc[c] = "header" => Stream[1] = Header(request[c], Len(planes[c]) + 1)
    /\ pc[c] = "body" => header[c] = Len(planes[c]) + 1 /\ Stream[1].request = request[c]

GoodResult(c) ==
    /\ result[c].kind # "failed"
    /\ result[c].kind = "picture" =>
         result[c].planes = [p \in PlaneNums |-> Whole(result[c].request, p)]

\* Nothing goes wrong: there is only the answer to the call under way.
Success ==
    trouble = {} =>
        /\ OneAnswer(Stream)
        /\ AllIdle => Stream = <<>>
        /\ \A c \in Callers : pc[c] # "idle" => Expects(c)
        /\ \A c \in Callers : GoodResult(c)

IInv == Typed /\ Order /\ Success

-----------------------------------------------------------------------------
(* Types.                                                                    *)

LEMMA MoreDatagrams ==
  ASSUME NEW n \in Nat, NEW s \in Seq(Datagrams(n)) PROVE s \in Seq(Datagrams(n + 1))
<1>1. Datagrams(n) \subseteq Datagrams(n + 1)
  <2>1. 1..n \subseteq 1..(n + 1)
    BY SMT
  <2> QED BY <2>1 DEF Datagrams
<1> DEFINE S == Datagrams(n)
           T == Datagrams(n + 1)
<1> HIDE DEF S, T
<1>2. s \in Seq(S) /\ S \subseteq T
  BY <1>1 DEF S, T
<1>3. s \in Seq(T)
  BY <1>2, SMT
<1> QED BY <1>3 DEF T

LEMMA OwnRange ==
  ASSUME NEW S, NEW s \in Seq(S) PROVE s \in Seq({s[i] : i \in DOMAIN s})
<1> DEFINE T == {s[i] : i \in DOMAIN s}
<1>1. \A i \in DOMAIN s : s[i] \in T
  OBVIOUS
<1> HIDE DEF T
<1>2. s \in Seq(T)
  BY <1>1, SMT
<1> QED BY <1>2 DEF T

LEMMA DatagramIs ==
  ASSUME NEW n \in Nat, NEW d \in Datagrams(n)
  PROVE  /\ d.request \in 1..n /\ d.plane \in PlaneNums /\ d.index \in Indices(d.plane) /\ d.index \in Nat
         /\ d.kind \in {"header", "chunk", "pong"}
         /\ d.kind = "header" => d = Header(d.request, d.plane)
         /\ d.kind = "chunk" => d = Chunk(d.request, d.plane, d.index)
         /\ d.kind = "pong" => d = Pong(d.request)
BY DEF Datagrams, Header, Chunk, Pong

LEMMA SameCaller ==
  ASSUME NEW c, CallerTyped(c), requests \in Nat, requests' \in Nat, requests <= requests',
         pc'[c] = pc[c], header'[c] = header[c], chunks'[c] = chunks[c], planes'[c] = planes[c],
         result'[c].kind \in {"none", "failed", "connected", "picture"}
  PROVE  CallerTyped(c)'
<1>1. Sources \subseteq Sources'
  <2>1. 1..requests \subseteq 1..requests'
    BY SMT
  <2> QED BY <2>1 DEF Sources
<1> QED BY <1>1 DEF CallerTyped

LEMMA BackToIdle ==
  ASSUME NEW c, pc'[c] = "idle", header'[c] = 1, chunks'[c] = <<>>, planes'[c] = <<>>,
         result'[c].kind \in {"none", "failed", "connected", "picture"}
  PROVE  CallerTyped(c)'
<1>1. DOMAIN chunks'[c] = {} /\ Len(planes'[c]) = 0
  BY SMT
<1>2. planes'[c] \in Seq({planes'[c][i] : i \in DOMAIN planes'[c]})
  BY SMT
<1>3. 0 < Planes
  BY PlanesAssumption, SMT
<1> QED BY <1>1, <1>2, <1>3, SMT DEF CallerTyped

LEMMA ReturnTyped ==
  ASSUME Typed, NEW c \in Callers, NEW how, Return(c, how),
         how.kind \in {"failed", "connected", "picture"},
         UNCHANGED <<trouble, open, requests, sending>>, connected' \in BOOLEAN,
         queue' \in Seq(Datagrams(requests)), ready' \in [Callers -> BOOLEAN]
  PROVE  Typed'
<1>1. requests \in Nat /\ requests' = requests /\ 1 \in PlaneNums
  BY ChunkCounts, RequestsAssumption DEF Typed
<1>2. /\ pc' \in [Callers -> Waiting \cup {"idle"}] /\ request' \in [Callers -> 0..requests]
      /\ header' \in [Callers -> PlaneNums]
  BY <1>1 DEF Typed, Return
<1>3. /\ chunks' = [o \in Callers |-> IF o = c THEN <<>> ELSE chunks[o]]
      /\ planes' = [o \in Callers |-> IF o = c THEN <<>> ELSE planes[o]]
      /\ result' = [o \in Callers |-> IF o = c THEN how ELSE result[o]]
      /\ \A o \in Callers : /\ pc'[o] = IF o = c THEN "idle" ELSE pc[o]
                            /\ header'[o] = IF o = c THEN 1 ELSE header[o]
  BY DEF Typed, Return
<1>4. ASSUME NEW o \in Callers PROVE CallerTyped(o)'
  <2>1. CASE o = c
    <3>1. pc'[o] = "idle" /\ header'[o] = 1 /\ chunks'[o] = <<>> /\ planes'[o] = <<>> /\ result'[o] = how
      BY <1>3, <2>1
    <3> QED BY <3>1, BackToIdle
  <2>2. CASE o # c
    <3>1. CallerTyped(o) /\ result[o].kind \in {"none", "failed", "connected", "picture"}
      BY DEF Typed, CallerTyped
    <3>2. pc'[o] = pc[o] /\ header'[o] = header[o] /\ chunks'[o] = chunks[o] /\ planes'[o] = planes[o]
          /\ result'[o] = result[o]
      BY <1>3, <2>2
    <3>3. requests <= requests'
      BY <1>1, SMT
    <3> QED BY <1>1, <3>1, <3>2, <3>3, SameCaller
  <2> QED BY <2>1, <2>2
<1>5. /\ chunks' = [o \in Callers |-> chunks'[o]] /\ planes' = [o \in Callers |-> planes'[o]]
      /\ result' = [o \in Callers |-> result'[o]]
  BY <1>3
<1> QED BY <1>1, <1>2, <1>4, <1>5 DEF Typed

LEMMA CallTyped ==
  ASSUME Typed, NEW c \in Callers, NEW where \in {"header", "ping", "connect"}, NEW answer,
         answer \in Seq(Datagrams(requests + 1)), Begins(c, where), Send(c, answer),
         open' \in BOOLEAN, connected' = connected
  PROVE  Typed'
<1>1. requests \in Nat /\ requests' = requests + 1 /\ requests' \in 0..MaxRequests /\ requests' \in Nat
      /\ requests <= requests' /\ requests' \in 0..requests'
  <2>1. requests \in 0..MaxRequests /\ MaxRequests \in Nat /\ requests < MaxRequests /\ requests' = requests + 1
    BY RequestsAssumption DEF Typed, Send
  <2> QED BY <2>1, SMT
<1>2. queue' \in Seq(Datagrams(requests')) /\ sending' \in Seq(Datagrams(requests'))
  <2>0. queue \in Seq(Datagrams(requests)) /\ sending \in Seq(Datagrams(requests))
    BY DEF Typed
  <2>1. queue \in Seq(Datagrams(requests + 1)) /\ sending \in Seq(Datagrams(requests + 1))
    BY <1>1, <2>0, MoreDatagrams
  <2> DEFINE D == Datagrams(requests + 1)
  <2>2. queue' = queue /\ sending' = sending \o answer
    BY DEF Send
  <2> HIDE DEF D
  <2>3. sending \in Seq(D)
    BY <2>1 DEF D
  <2>4. answer \in Seq(D)
    BY DEF D
  <2>5. sending \o answer \in Seq(D)
    BY <2>3, <2>4, ConcatFacts
  <2> QED BY <1>1, <2>1, <2>2, <2>5 DEF D
<1>3. 0..requests \subseteq 0..requests'
  BY <1>1, SMT
<1>4. /\ pc' \in [Callers -> Waiting \cup {"idle"}] /\ request' \in [Callers -> 0..requests']
      /\ pc[c] = "idle" /\ \A o \in Callers : pc'[o] = IF o = c THEN where ELSE pc[o]
  BY <1>1, <1>3 DEF Typed, Begins, Send, Waiting
<1>5. /\ result' = [o \in Callers |-> result'[o]]
      /\ \A o \in Callers : result'[o].kind \in {"none", "failed", "connected", "picture"}
  BY DEF Typed, Send, CallerTyped
<1>6. UNCHANGED <<trouble, ready, header, chunks, planes>>
  BY DEF Send, readVars
<1>7. ASSUME NEW o \in Callers PROVE CallerTyped(o)'
  <2>1. CASE o # c
    <3>1. pc'[o] = pc[o] /\ CallerTyped(o)
      BY <1>4, <2>1 DEF Typed
    <3> QED BY <1>1, <1>5, <1>6, <3>1, SameCaller
  <2>2. CASE o = c
    <3>1. CallerTyped(o) /\ pc[o] = "idle" /\ pc'[o] = where
      BY <1>4, <2>2 DEF Typed
    <3>2. DOMAIN chunks[o] = {} /\ Len(planes[o]) = 0
      BY <3>1 DEF CallerTyped
    <3> QED BY <1>5, <1>6, <3>1, <3>2 DEF CallerTyped
  <2> QED BY <2>1, <2>2
<1> QED BY <1>1, <1>2, <1>4, <1>5, <1>6, <1>7 DEF Typed

LEMMA ReceivedTyped ==
  ASSUME Typed, NEW c \in Callers, NEW where, Receive(c, where)
  PROVE  /\ queue # <<>> /\ Head(queue) \in Datagrams(requests) /\ queue' \in Seq(Datagrams(requests))
         /\ ready' \in [Callers -> BOOLEAN] /\ requests \in Nat /\ Head(queue) = Stream[1]
         /\ Stream # <<>> /\ Stream' = Tail(Stream) /\ Stream \in Seq(Datagrams(requests))
<1> DEFINE D == Datagrams(requests)
<1>0. queue # <<>> /\ queue' = Tail(queue) /\ sending' = sending
  BY DEF Receive
<1>1. queue \in Seq(D)
  BY DEF Typed
<1>2. sending \in Seq(D)
  BY DEF Typed
<1> HIDE DEF D
<1>3. Head(queue) = (queue \o sending)[1] /\ Tail(queue) \o sending = Tail(queue \o sending) /\ queue \o sending # <<>>
      /\ Tail(queue) \in Seq(D) /\ Head(queue) \in D
  BY <1>0, <1>1, <1>2, SecondPart
<1>4. queue \o sending \in Seq(D)
  BY <1>1, <1>2, ConcatFacts
<1>5. ready' \in [Callers -> BOOLEAN] /\ requests \in Nat
  BY RequestsAssumption DEF Receive, Typed
<1> QED BY <1>0, <1>3, <1>4, <1>5 DEF Stream, D

LEMMA QuietTyped ==
  ASSUME Typed, UNCHANGED <<sockVars, requests, pc, request, readVars, result>>,
         queue' \in Seq(Datagrams(requests)), sending' \in Seq(Datagrams(requests)),
         ready' \in [Callers -> BOOLEAN]
  PROVE  Typed'
<1>1. requests \in Nat /\ requests <= requests /\ requests' = requests
  BY RequestsAssumption, SMT DEF Typed
<1>2. UNCHANGED <<trouble, open, connected, pc, request, header, chunks, planes, result>>
  BY DEF sockVars, readVars
<1>3. ASSUME NEW c \in Callers PROVE CallerTyped(c)'
  BY <1>1, <1>2, SameCaller DEF Typed, CallerTyped
<1> QED BY <1>1, <1>2, <1>3 DEF Typed

LEMMA DeliverTyped ==
  ASSUME Typed, Deliver PROVE Typed' /\ Stream' = Stream
<1> DEFINE D == Datagrams(requests)
<1>1. queue \in Seq(D)
  BY DEF Typed
<1>2. sending \in Seq(D)
  BY DEF Typed
<1>3. sending # <<>> /\ queue' = Append(queue, Head(sending)) /\ sending' = Tail(sending)
      /\ UNCHANGED <<sockVars, requests, pc, ready, request, readVars, result>>
  BY DEF Deliver
<1> HIDE DEF D
<1>4. Append(queue, Head(sending)) \in Seq(D) /\ Tail(sending) \in Seq(D)
  BY <1>1, <1>2, <1>3, SMT
<1>5. Append(queue, Head(sending)) \o Tail(sending) = queue \o sending
  BY <1>1, <1>2, <1>3, SecondPart
<1>6. ready' \in [Callers -> BOOLEAN]
  BY <1>3 DEF Typed
<1>7. Typed'
  BY <1>3, <1>4, <1>6, QuietTyped DEF D
<1> QED BY <1>3, <1>5, <1>7 DEF Stream

LEMMA LoseTyped ==
  ASSUME Typed, Lose PROVE Typed'
<1> DEFINE D == Datagrams(requests)
<1>1. sending \in Seq(D) /\ queue \in Seq(D) /\ ready \in [Callers -> BOOLEAN]
  BY DEF Typed
<1>2. sending # <<>> /\ sending' = Tail(sending) /\ queue' = queue /\ ready' = ready
      /\ UNCHANGED <<sockVars, requests, pc, request, readVars, result>>
  BY DEF Lose
<1> HIDE DEF D
<1>3. sending' \in Seq(D)
  BY <1>1, <1>2, SMT
<1> QED BY <1>1, <1>2, <1>3, QuietTyped DEF D

LEMMA TimeoutTyped ==
  ASSUME Typed, NEW c \in Callers, Timeout(c) PROVE Typed'
<1>1. Return(c, [kind |-> "failed"]) /\ UNCHANGED <<trouble, open, connected, requests, sending, queue, ready>>
  BY DEF Timeout, Fail, sockVars
<1>2. queue' \in Seq(Datagrams(requests)) /\ ready' \in [Callers -> BOOLEAN] /\ connected' \in BOOLEAN
  BY <1>1 DEF Typed
<1> QED BY <1>1, <1>2, ReturnTyped

LEMMA RecvHeaderTyped ==
  ASSUME Typed, NEW c \in Callers, RecvHeader(c) PROVE Typed'
<1>0. Receive(c, {"header"}) /\ connected' = connected
  BY DEF RecvHeader
<1>1. /\ Head(queue) \in Datagrams(requests) /\ queue' \in Seq(Datagrams(requests))
      /\ ready' \in [Callers -> BOOLEAN] /\ requests \in Nat
  BY <1>0, ReceivedTyped
<1>2. UNCHANGED <<trouble, open, requests, sending>> /\ pc[c] = "header"
  BY <1>0 DEF Receive
<1>3. CASE Head(queue).kind # "header" /\ Fail(c)
  BY <1>0, <1>1, <1>2, <1>3, ReturnTyped DEF Fail, Typed
<1>4. CASE /\ header' = [header EXCEPT ![c] = Head(queue).plane] /\ pc' = [pc EXCEPT ![c] = "body"]
           /\ UNCHANGED <<chunks, planes, request, result>>
  <2>1. Head(queue).plane \in PlaneNums
    BY <1>1, DatagramIs
  <2>2. /\ header' \in [Callers -> PlaneNums] /\ pc' \in [Callers -> Waiting \cup {"idle"}]
        /\ \A o \in Callers : o # c => header'[o] = header[o] /\ pc'[o] = pc[o]
        /\ pc'[c] = "body"
    BY <1>4, <2>1 DEF Typed, Waiting
  <2>3. ASSUME NEW o \in Callers PROVE CallerTyped(o)'
    <3>0. CallerTyped(o) /\ requests <= requests
      BY <1>1, SMT DEF Typed
    <3>1. CASE o # c
      BY <1>1, <1>2, <1>4, <2>2, <3>0, <3>1, SameCaller DEF CallerTyped
    <3>2. CASE o = c
      <4>1. DOMAIN chunks[o] = {} /\ pc'[o] = "body"
        BY <1>2, <2>2, <3>0, <3>2 DEF CallerTyped
      <4> QED BY <1>2, <1>4, <3>0, <4>1 DEF CallerTyped
    <3> QED BY <3>1, <3>2
  <2> QED BY <1>0, <1>1, <1>2, <1>4, <2>2, <2>3 DEF Typed
<1> QED BY <1>3, <1>4 DEF RecvHeader

LEMMA IgnoreTyped ==
  ASSUME Typed, NEW c \in Callers, Ignore(c) PROVE Typed'
<1>1. /\ Receive(c, {"body"}) /\ UNCHANGED <<trouble, open, connected, requests, sending>>
      /\ UNCHANGED <<pc, request, header, chunks, planes, result>>
  BY DEF Ignore, Receive, readVars
<1>2. queue' \in Seq(Datagrams(requests)) /\ ready' \in [Callers -> BOOLEAN] /\ sending' \in Seq(Datagrams(requests))
  BY <1>1, ReceivedTyped DEF Typed
<1> QED BY <1>1, <1>2, QuietTyped DEF sockVars, readVars

LEMMA RecvPingTyped ==
  ASSUME Typed, NEW c \in Callers, RecvPing(c) PROVE Typed'
<1>0. Receive(c, {"ping", "connect"}) /\ UNCHANGED <<trouble, open, requests, sending>>
  BY DEF RecvPing, Receive
<1>1. queue' \in Seq(Datagrams(requests)) /\ ready' \in [Callers -> BOOLEAN]
  BY <1>0, ReceivedTyped
<1>2. connected' \in BOOLEAN
  BY DEF RecvPing, Typed
<1>3. \E how : Return(c, how) /\ how.kind \in {"failed", "connected", "picture"}
  BY DEF RecvPing, Fail
<1> QED BY <1>0, <1>1, <1>2, <1>3, ReturnTyped

LEMMA RecvBodyTyped ==
  ASSUME Typed, NEW c \in Callers, RecvBody(c) PROVE Typed'
<1> DEFINE d == Head(queue)
           got == Stored(c, d)
           read == Append(planes[c], got)
<1>0. Receive(c, {"body"}) /\ Fits(c, d) /\ connected' = connected /\ UNCHANGED <<trouble, open, requests, sending>>
      /\ pc[c] = "body"
  BY DEF RecvBody, Receive
<1>1. /\ d \in Datagrams(requests) /\ queue' \in Seq(Datagrams(requests))
      /\ ready' \in [Callers -> BOOLEAN] /\ requests \in Nat
  BY <1>0, ReceivedTyped
<1>2. connected' \in BOOLEAN /\ CallerTyped(c)
  BY <1>0 DEF Typed
<1>3. DOMAIN got \subseteq Indices(header[c]) /\ \A i \in DOMAIN got : got[i] \in Sources
  <2>1. d.index \in Indices(header[c]) /\ Source(d) \in Sources
    BY <1>0, <1>1, DatagramIs DEF Fits, Source, Sources
  <2>2. DOMAIN chunks[c] \subseteq Indices(header[c]) /\ \A i \in DOMAIN chunks[c] : chunks[c][i] \in Sources
    BY <1>2 DEF CallerTyped
  <2>3. /\ DOMAIN got = DOMAIN chunks[c] \cup {d.index}
        /\ \A i \in DOMAIN got : got[i] = IF i = d.index THEN Source(d) ELSE chunks[c][i]
    BY DEF Stored
  <2> HIDE DEF d, got
  <2> QED BY <2>1, <2>2, <2>3
<1>4. read \in Seq({read[i] : i \in DOMAIN read}) /\ Len(read) = Len(planes[c]) + 1 /\ Len(planes[c]) \in Nat
      /\ Len(planes[c]) < Planes
  <2> DEFINE ps == planes[c]
             S == {ps[i] : i \in DOMAIN ps} \cup {got}
  <2>1. ps \in Seq({ps[i] : i \in DOMAIN ps}) /\ Len(ps) < Planes
    BY <1>2 DEF CallerTyped
  <2> HIDE DEF ps, got
  <2>2. ps \in Seq(S)
    BY <2>1, SMT
  <2>3. got \in S
    OBVIOUS
  <2> HIDE DEF S
  <2>4. Append(ps, got) \in Seq(S) /\ Len(Append(ps, got)) = Len(ps) + 1 /\ Len(ps) \in Nat
    BY <2>2, <2>3, SMT
  <2>5. \A U : \A s \in Seq(U) : s \in Seq({s[i] : i \in DOMAIN s})
    BY OwnRange
  <2> QED BY <2>1, <2>4, <2>5, Zenon DEF ps
<1>5. \/ /\ ~Complete(c, got)
         /\ chunks' = [chunks EXCEPT ![c] = got]
         /\ UNCHANGED <<pc, request, header, planes, result>>
      \/ /\ Complete(c, got) /\ ~AllPlanes(read)
         /\ planes' = [planes EXCEPT ![c] = read]
         /\ chunks' = [chunks EXCEPT ![c] = <<>>]
         /\ pc' = [pc EXCEPT ![c] = "header"]
         /\ UNCHANGED <<request, header, result>>
      \/ /\ Complete(c, got) /\ AllPlanes(read)
         /\ Return(c, [kind |-> "picture", request |-> request[c], planes |-> read])
  BY DEF RecvBody
<1> HIDE DEF got, read, d
<1>6. CASE /\ chunks' = [chunks EXCEPT ![c] = got]
           /\ UNCHANGED <<pc, request, header, planes, result>>
  <2>1. ASSUME NEW o \in Callers PROVE CallerTyped(o)'
    <3>0. CallerTyped(o) /\ requests <= requests
      BY <1>1, SMT DEF Typed
    <3>1. CASE o # c
      <4>1. chunks'[o] = chunks[o]
        BY <1>6, <3>1 DEF Typed
      <4> QED BY <1>0, <1>1, <1>6, <3>0, <4>1, SameCaller DEF CallerTyped
    <3>2. CASE o = c
      <4>1. chunks'[c] = got
        BY <1>6 DEF Typed
      <4> QED BY <1>0, <1>3, <1>6, <3>0, <3>2, <4>1 DEF CallerTyped, Sources
    <3> QED BY <3>1, <3>2
  <2> QED BY <1>0, <1>1, <1>2, <1>6, <2>1 DEF Typed
<1>7. CASE /\ ~AllPlanes(read)
           /\ planes' = [planes EXCEPT ![c] = read]
           /\ chunks' = [chunks EXCEPT ![c] = <<>>]
           /\ pc' = [pc EXCEPT ![c] = "header"]
           /\ UNCHANGED <<request, header, result>>
  <2>1. ASSUME NEW o \in Callers PROVE CallerTyped(o)'
    <3>0. CallerTyped(o) /\ requests <= requests
      BY <1>1, SMT DEF Typed
    <3>1. CASE o # c
      <4>1. chunks'[o] = chunks[o] /\ planes'[o] = planes[o] /\ pc'[o] = pc[o]
        BY <1>7, <3>1 DEF Typed
      <4> QED BY <1>0, <1>1, <1>7, <3>0, <4>1, SameCaller DEF CallerTyped
    <3>2. CASE o = c
      <4>1. chunks'[c] = <<>> /\ planes'[c] = read /\ pc'[c] = "header"
        BY <1>7 DEF Typed
      <4>2. DOMAIN chunks'[c] = {}
        BY <4>1, SMT
      <4>3. Len(read) < Planes
        BY <1>4, <1>7, PlanesAssumption, SMT DEF AllPlanes
      <4>4. request'[c] = request[c] /\ header'[c] = header[c] /\ result'[c] = result[c]
        BY <1>7
      <4>5. read \in Seq({read[i] : i \in DOMAIN read})
        BY <1>4
      <4>6. {planes'[c][i] : i \in DOMAIN planes'[c]} = {read[i] : i \in DOMAIN read}
        BY <4>1
      <4>7. result'[c].kind \in {"none", "failed", "connected", "picture"}
        BY <3>0, <3>2, <4>4 DEF CallerTyped
      <4> QED BY <3>2, <4>1, <4>2, <4>3, <4>5, <4>6, <4>7 DEF CallerTyped
    <3> QED BY <3>1, <3>2
  <2>2. pc' \in [Callers -> Waiting \cup {"idle"}]
    BY <1>7 DEF Typed, Waiting
  <2> QED BY <1>0, <1>1, <1>2, <1>7, <2>1, <2>2 DEF Typed
<1>8. CASE Return(c, [kind |-> "picture", request |-> request[c], planes |-> read])
  BY <1>0, <1>1, <1>2, <1>8, ReturnTyped
<1> QED BY <1>5, <1>6, <1>7, <1>8

LEMMA TypedImpliesTypeOK == Typed => TypeOK
<1> SUFFICES ASSUME Typed PROVE TypeOK
  OBVIOUS
<1>1. requests \in Nat
  BY RequestsAssumption DEF Typed
<1>2. \A d \in Datagrams(requests) : /\ d.kind \in {"header", "chunk", "pong"} /\ Source(d) \in Sources
                                     /\ d.index \in Indices(d.plane)
  BY <1>1, DatagramIs DEF Source, Sources
<1>3. Range(sending) \cup Range(queue) \subseteq Datagrams(requests)
  BY DEF Typed, Range
<1>4. \A c \in Callers :
           /\ DOMAIN chunks[c] \subseteq Indices(header[c]) /\ Range(chunks[c]) \subseteq Sources
           /\ Len(planes[c]) < Planes
           /\ result[c].kind \in {"none", "failed", "connected", "picture"}
  BY DEF Typed, CallerTyped, Range
<1> QED BY <1>2, <1>3, <1>4 DEF Typed, TypeOK

-----------------------------------------------------------------------------
(* The initial states, and the steps of one caller.                          *)

LEMMA InitInv == Init => IInv
<1> SUFFICES ASSUME Init PROVE IInv
  OBVIOUS
<1>1. queue = <<>> /\ sending = <<>> /\ Stream = <<>> /\ Len(Stream) = 0
  BY DEF Init, Stream
<1>2. \A c \in Callers : /\ pc[c] = "idle" /\ header[c] = 1 /\ chunks[c] = <<>> /\ planes[c] = <<>>
                         /\ result[c] = [kind |-> "none"]
  BY DEF Init
<1>3. DOMAIN <<>> = {} /\ Len(<<>>) = 0
  BY SMT
<1>4. ASSUME NEW c \in Callers PROVE CallerTyped(c)
  <2>1. DOMAIN chunks[c] = {} /\ planes[c] = <<>> /\ Len(planes[c]) = 0
    BY <1>2, <1>3
  <2>2. \A S : planes[c] \in Seq(S)
    BY <2>1, SMT
  <2>3. 0 < Planes
    BY PlanesAssumption, SMT
  <2> QED BY <1>2, <2>1, <2>2, <2>3 DEF CallerTyped
<1>5. Typed
  <2>1. requests \in 0..MaxRequests /\ \A n : <<>> \in Seq(Datagrams(n))
    BY RequestsAssumption, SMT DEF Init
  <2>2. pc \in [Callers -> Waiting \cup {"idle"}] /\ ready \in [Callers -> BOOLEAN]
        /\ request \in [Callers -> 0..requests] /\ header \in [Callers -> PlaneNums]
    BY ChunkCounts DEF Init
  <2>3. chunks = [c \in Callers |-> chunks[c]] /\ planes = [c \in Callers |-> planes[c]]
        /\ result = [c \in Callers |-> result[c]]
    BY DEF Init
  <2> QED BY <1>1, <1>4, <2>1, <2>2, <2>3 DEF Typed, Init
<1>6. WellFormed(Stream) /\ OneAnswer(Stream)
  <2>1. 1..0 = {} /\ 1..(0 - 1) = {}
    BY SMT
  <2> QED BY <1>1, <2>1 DEF WellFormed, Ordered, OneAnswer
<1>7. Order
  BY <1>2, <1>3, <1>6 DEF Order, Alone, PlanesWhole
<1>8. Success
  BY <1>1, <1>2, <1>6 DEF Success, GoodResult
<1> QED BY <1>5, <1>7, <1>8 DEF IInv

\* What is before the callers and where they are is as it was.
LEMMA Untouched ==
  ASSUME Order, Success, Stream' = Stream,
         UNCHANGED <<trouble, requests, pc, request, header, chunks, planes, result>>
  PROVE  Order' /\ Success'
<1>1. Sources' = Sources /\ (PlanesWhole => PlanesWhole')
  BY DEF Sources, PlanesWhole
<1>2. \A c \in Callers : /\ Expects(c) => Expects(c)'
                         /\ GoodResult(c) => GoodResult(c)'
  BY DEF Expects, GoodResult
<1>3. \A c \in Callers : \A r, k : InPlane(c, r, k) => InPlane(c, r, k)'
  BY DEF InPlane
<1>4. (Alone => Alone') /\ (AllIdle' => AllIdle)
  BY DEF Alone, AllIdle
<1>5. Order'
  BY <1>1, <1>3, <1>4 DEF Order
<1>6. Success'
  BY <1>2, <1>4 DEF Success
<1> QED BY <1>5, <1>6

LEMMA OrderMove ==
  ASSUME NEW c \in Callers, Order, trouble' = trouble, Sources \subseteq Sources',
         \A o \in Callers : o # c => pc'[o] = pc[o] /\ planes'[o] = planes[o],
         trouble \subseteq {"late"} =>
           /\ WellFormed(Stream)'
           /\ \A o \in Callers : o # c => pc[o] = "idle"
           /\ \A i \in DOMAIN planes'[c] : \E s \in Sources : planes'[c][i] = Whole(s.request, s.plane)
           /\ pc'[c] = "body" => \E r \in 1..requests', k \in Indices(header'[c]) : InPlane(c, r, k)'
  PROVE  Order'
<1> SUFFICES ASSUME trouble \subseteq {"late"}
             PROVE  /\ (WellFormed(Stream) /\ Alone /\ PlanesWhole)'
                    /\ \A o \in Callers : pc'[o] = "body" =>
                         \E r \in 1..requests', k \in Indices(header'[o]) : InPlane(o, r, k)'
  BY DEF Order
<1>1. Alone'
  BY DEF Alone
<1>2. PlanesWhole'
  <2>1. ASSUME NEW o \in Callers, NEW i \in DOMAIN planes'[o]
        PROVE  \E s \in Sources : planes'[o][i] = Whole(s.request, s.plane)
    BY <2>1 DEF Order, PlanesWhole
  <2> QED BY <2>1 DEF PlanesWhole
<1>3. ASSUME NEW o \in Callers, pc'[o] = "body"
      PROVE  \E r \in 1..requests', k \in Indices(header'[o]) : InPlane(o, r, k)'
  <2>1. o = c
    BY <1>3
  <2> QED BY <1>3, <2>1
<1> QED BY <1>1, <1>2, <1>3

LEMMA SuccessMove ==
  ASSUME NEW c \in Callers, Success, trouble' = trouble,
         \A o \in Callers : o # c => pc'[o] = pc[o] /\ result'[o] = result[o],
         trouble = {} =>
           /\ OneAnswer(Stream)' /\ GoodResult(c)'
           /\ \A o \in Callers : o # c => pc[o] = "idle"
           /\ pc'[c] = "idle" => Stream' = <<>>
           /\ pc'[c] # "idle" => Expects(c)'
  PROVE  Success'
<1> SUFFICES ASSUME trouble = {}
             PROVE  /\ OneAnswer(Stream)' /\ (AllIdle => Stream = <<>>)'
                    /\ \A o \in Callers : pc'[o] # "idle" => Expects(o)'
                    /\ \A o \in Callers : GoodResult(o)'
  BY DEF Success
<1>1. (AllIdle => Stream = <<>>)'
  BY DEF AllIdle
<1>2. ASSUME NEW o \in Callers, pc'[o] # "idle" PROVE Expects(o)'
  <2>1. o = c
    BY <1>2
  <2> QED BY <1>2, <2>1
<1>3. ASSUME NEW o \in Callers PROVE GoodResult(o)'
  <2>1. CASE o = c
    BY <2>1
  <2>2. CASE o # c
    BY <2>2 DEF Success, GoodResult
  <2> QED BY <2>1, <2>2
<1> QED BY <1>1, <1>2, <1>3

\* The answer goes on behind a datagram that does not end it, and with the last one nothing is left.
LEMMA NextDatagram ==
  ASSUME NEW S, NEW s \in Seq(S), s # <<>>
  PROVE  /\ WellFormed(s) /\ ~EndsAnswer(s[1]) => Tail(s) # <<>> /\ Follows(s[1], Tail(s)[1])
         /\ OneAnswer(s) => OneAnswer(Tail(s))
         /\ OneAnswer(s) /\ EndsAnswer(s[1]) => Tail(s) = <<>>
<1>1. /\ Tail(s) \in Seq(S) /\ Len(Tail(s)) = Len(s) - 1 /\ Len(s) \in Nat \ {0}
      /\ \A i \in 1..(Len(s) - 1) : Tail(s)[i] = s[i + 1]
  BY TailFacts
<1> DEFINE n == Len(s)
           t == Tail(s)
<1>2. (Len(t) = 0 <=> t = <<>>) /\ (n = 1 => Len(t) = 0) /\ 1 \in 1..n
      /\ (n # 1 => 1 \in 1..(n - 1) /\ Len(t) # 0)
  <2>1. t \in Seq(S) /\ Len(t) = n - 1 /\ n \in Nat \ {0}
    BY <1>1
  <2> HIDE DEF t, n
  <2>2. Len(t) = 0 <=> t = <<>>
    BY <2>1, SMT
  <2> QED BY <2>1, <2>2, SMT
<1>3. ASSUME WellFormed(s), ~EndsAnswer(s[1]) PROVE t # <<>> /\ Follows(s[1], t[1])
  <2>1. n # 1
    BY <1>1, <1>3 DEF WellFormed
  <2>2. t[1] = s[1 + 1] /\ Follows(s[1], s[1 + 1])
    BY <1>1, <1>2, <1>3, <2>1 DEF WellFormed, Ordered
  <2> QED BY <1>2, <2>1, <2>2
<1>4. ASSUME OneAnswer(s) PROVE OneAnswer(t)
  <2>1. ASSUME NEW i \in 1..(n - 1), EndsAnswer(t[i]) PROVE i = n - 1
    <3>1. t[i] = s[i + 1] /\ i + 1 \in 1..n
      BY <1>1, SMT
    <3>2. i + 1 = n
      BY <1>4, <2>1, <3>1 DEF OneAnswer
    <3>3. n \in Nat /\ i \in 1..(n - 1)
      BY <1>1
    <3> HIDE DEF n
    <3> QED BY <3>2, <3>3, SMT
  <2> QED BY <1>1, <2>1 DEF OneAnswer
<1>5. ASSUME OneAnswer(s), EndsAnswer(s[1]) PROVE t = <<>>
  <2>1. n = 1
    BY <1>2, <1>5 DEF OneAnswer
  <2> QED BY <1>2, <2>1
<1> QED BY <1>3, <1>4, <1>5

-----------------------------------------------------------------------------
(* Calls, and their end.                                                     *)

LEMMA CallKeeps ==
  ASSUME Typed, Order, Success, NEW c \in Callers, NEW where \in {"header", "ping", "connect"}, NEW answer,
         answer \in Seq(Datagrams(requests + 1)), answer # <<>>, WellFormed(answer), OneAnswer(answer),
         BeginsAnswer(answer[1]),
         where = "header" => answer[1] = Header(requests + 1, 1),
         where # "header" => answer[1].kind = "pong",
         Begins(c, where), Send(c, answer), open' \in BOOLEAN, connected' = connected
  PROVE  IInv'
<1> DEFINE D == Datagrams(requests + 1)
<1>0. requests \in Nat /\ requests' = requests + 1 /\ trouble' = trouble
      /\ UNCHANGED <<queue, header, chunks, planes>> /\ sending' = sending \o answer
  BY RequestsAssumption DEF Typed, Send, readVars
<1>1. /\ pc[c] = "idle" /\ \A o \in Callers : pc'[o] = IF o = c THEN where ELSE pc[o]
      /\ \A o \in Callers : result'[o] = IF o = c THEN [kind |-> "none"] ELSE result[o]
      /\ request'[c] = requests + 1
  BY DEF Typed, Begins, Send
<1>2. "overlap" \notin trouble => \A o \in Callers : pc[o] = "idle"
  BY DEF Begins
<1>3. queue \in Seq(Datagrams(requests)) /\ sending \in Seq(Datagrams(requests))
  BY DEF Typed
<1>4. queue \in Seq(D)
  BY <1>0, <1>3, MoreDatagrams
<1>5. sending \in Seq(D)
  BY <1>0, <1>3, MoreDatagrams
<1> HIDE DEF D
<1>6. answer \in Seq(D)
  BY DEF D
<1>7. Stream' = Stream \o answer
  <2>1. Regroups(queue, sending, answer)
    BY <1>4, <1>5, <1>6, KeptAssociative, Zenon
  <2>2. Stream' = queue \o (sending \o answer)
    BY <1>0 DEF Stream
  <2> QED BY <2>1, <2>2, Zenon DEF Regroups, Stream
<1>8. Stream \in Seq(D)
  BY <1>4, <1>5, ConcatFacts DEF Stream
<1>9. Sources \subseteq Sources'
  <2>1. 1..requests \subseteq 1..requests'
    BY <1>0, SMT
  <2> QED BY <2>1 DEF Sources
<1>10. Order'
  <2>1. ASSUME trouble \subseteq {"late"}
        PROVE  /\ WellFormed(Stream)' /\ \A o \in Callers : o # c => pc[o] = "idle"
               /\ \A i \in DOMAIN planes'[c] : \E s \in Sources : planes'[c][i] = Whole(s.request, s.plane)
               /\ pc'[c] # "body"
    <3>1. WellFormed(Stream) /\ PlanesWhole
      BY <2>1 DEF Order
    <3>2. WellFormed(Stream \o answer)
      BY <1>6, <1>8, <3>1, ConcatWellFormed
    <3>3. \A o \in Callers : pc[o] = "idle"
      BY <1>2, <2>1
    <3> QED BY <1>0, <1>1, <1>7, <2>1, <3>1, <3>2, <3>3 DEF PlanesWhole
  <2>2. \A o \in Callers : o # c => pc'[o] = pc[o] /\ planes'[o] = planes[o]
    BY <1>0, <1>1
  <2> QED BY <1>0, <1>9, <2>1, <2>2, OrderMove
<1>11. Success'
  <2>1. ASSUME trouble = {}
        PROVE  /\ OneAnswer(Stream)' /\ GoodResult(c)' /\ \A o \in Callers : o # c => pc[o] = "idle"
               /\ pc'[c] # "idle" /\ Expects(c)'
    <3>1. \A o \in Callers : pc[o] = "idle"
      BY <1>2, <2>1
    <3>2. Stream = <<>>
      BY <2>1, <3>1 DEF Success, AllIdle
    <3>3. Stream' = answer
      BY <1>6, <1>7, <3>2, SMT
    <3>4. Len(planes[c]) = 0 /\ pc'[c] = where
      BY <1>1 DEF Typed, CallerTyped
    <3>5. 0 + 1 = 1 /\ 1..0 = {}
      BY SMT
    <3>6. Expects(c)'
      BY <1>0, <1>1, <3>3, <3>4, <3>5 DEF Expects
    <3>7. result'[c].kind = "none"
      BY <1>1
    <3> QED BY <3>1, <3>3, <3>4, <3>6, <3>7 DEF GoodResult
  <2>2. \A o \in Callers : o # c => pc'[o] = pc[o] /\ result'[o] = result[o]
    BY <1>1
  <2> QED BY <1>0, <2>1, <2>2, SuccessMove
<1>12. Typed'
  BY CallTyped
<1> QED BY <1>10, <1>11, <1>12 DEF IInv

LEMMA CallsKeep ==
  ASSUME IInv, NEW c \in Callers, Call(c) PROVE IInv'
<1> DEFINE n == requests + 1
<1>1. n \in Nat /\ n \in 1..n /\ Typed /\ Order /\ Success
  BY RequestsAssumption, SMT DEF IInv, Typed
<1>2. CASE TakePicture(c)
  <2> DEFINE answer == Picture(n)
  <2>1. Begins(c, "header") /\ Send(c, answer) /\ open' = open /\ connected' = connected
    BY <1>2 DEF TakePicture
  <2>2. answer \in Seq(Datagrams(n)) /\ answer # <<>> /\ answer[1] = Header(n, 1)
        /\ WellFormed(answer) /\ OneAnswer(answer)
    BY <1>1, PictureIs
  <2>3. BeginsAnswer(answer[1]) /\ open' \in BOOLEAN
    BY <1>1, <2>1, <2>2 DEF BeginsAnswer, Header, Typed
  <2> HIDE DEF answer
  <2>4. "header" \in {"header", "ping", "connect"}
    OBVIOUS
  <2> QED BY <1>1, <2>1, <2>2, <2>3, <2>4, CallKeeps
<1>3. CASE Ping(c) \/ Connect(c)
  <2> DEFINE answer == <<Pong(n)>>
  <2>1. PICK where \in {"ping", "connect"} : Begins(c, where) /\ Send(c, answer)
    BY <1>3 DEF Ping, Connect
  <2>2. answer \in Seq(Datagrams(n)) /\ answer # <<>> /\ answer[1] = Pong(n)
        /\ WellFormed(answer) /\ OneAnswer(answer)
    BY <1>1, PongIs
  <2>3. BeginsAnswer(answer[1]) /\ answer[1].kind = "pong" /\ open' \in BOOLEAN /\ connected' = connected
    BY <1>1, <1>3, <2>2 DEF BeginsAnswer, Pong, Typed, Ping, Connect
  <2> HIDE DEF answer
  <2>4. where \in {"header", "ping", "connect"} /\ where # "header"
    BY <2>1
  <2> QED BY <1>1, <2>1, <2>2, <2>3, <2>4, CallKeeps
<1> QED BY <1>2, <1>3 DEF Call

LEMMA TimeoutKeeps ==
  ASSUME IInv, NEW c \in Callers, Timeout(c) PROVE IInv'
<1>0. Typed /\ Order /\ Success
  BY DEF IInv
<1>1. Return(c, [kind |-> "failed"]) /\ pc[c] # "idle" /\ queue = <<>> /\ ("late" \in trouble \/ sending = <<>>)
      /\ UNCHANGED <<trouble, requests, sending, queue>>
  BY DEF Timeout, Fail, TimesOut, Waiting, sockVars
<1>2. Stream' = Stream /\ Sources' = Sources
  BY <1>1 DEF Stream, Sources
<1>3. \A o \in Callers : /\ pc'[o] = IF o = c THEN "idle" ELSE pc[o]
                         /\ planes'[o] = IF o = c THEN <<>> ELSE planes[o]
                         /\ o # c => result'[o] = result[o]
  BY <1>0, <1>1 DEF Return, Typed
<1>4. Order'
  <2>1. ASSUME trouble \subseteq {"late"}
        PROVE  /\ WellFormed(Stream)' /\ \A o \in Callers : o # c => pc[o] = "idle"
               /\ DOMAIN planes'[c] = {} /\ pc'[c] # "body"
    <3>1. WellFormed(Stream) /\ Alone
      BY <1>0, <2>1 DEF Order
    <3>2. DOMAIN <<>> = {}
      BY SMT
    <3>3. \A o \in Callers : o # c => pc[o] = "idle"
      BY <1>1, <3>1 DEF Alone
    <3>4. DOMAIN planes'[c] = {} /\ pc'[c] # "body"
      BY <1>3, <3>2
    <3> QED BY <1>2, <3>1, <3>3, <3>4
  <2> QED BY <1>0, <1>1, <1>2, <1>3, <2>1, OrderMove
<1>5. Success'
  <2>1. trouble # {}
    <3>1. SUFFICES ASSUME trouble = {} PROVE FALSE
      OBVIOUS
    <3>2. Stream # <<>>
      BY <1>0, <1>1, <3>1 DEF Success, Expects
    <3>3. <<>> \o <<>> = <<>>
      BY SMT
    <3> QED BY <1>1, <3>1, <3>2, <3>3 DEF Stream
  <2> QED BY <1>1, <2>1 DEF Success
<1>6. Typed'
  BY <1>0, TimeoutTyped
<1> QED BY <1>4, <1>5, <1>6 DEF IInv

-----------------------------------------------------------------------------
(* What is received.                                                         *)

LEMMA ReceiveMoves ==
  ASSUME IInv, NEW c \in Callers, NEW where, Receive(c, where), where \subseteq Waiting
  PROVE  LET d == Head(queue)
         IN  /\ Typed /\ Order /\ Success /\ trouble' = trouble /\ Sources' = Sources /\ requests' = requests
             /\ requests \in Nat /\ d \in Datagrams(requests) /\ d = Stream[1] /\ Stream # <<>>
             /\ pc[c] \in where /\ pc[c] # "idle"
             /\ trouble \subseteq {"late"} =>
                  /\ WellFormed(Stream)'
                  /\ \A o \in Callers : o # c => pc[o] = "idle"
                  /\ ~EndsAnswer(d) => Stream' # <<>> /\ Follows(d, Stream'[1])
             /\ trouble = {} =>
                  /\ OneAnswer(Stream)' /\ GoodResult(c) /\ Expects(c)
                  /\ EndsAnswer(d) => Stream' = <<>>
<1> DEFINE d == Head(queue)
           s == Stream
<1>1. Typed /\ Order /\ Success
  BY DEF IInv
<1>2. /\ d \in Datagrams(requests) /\ requests \in Nat /\ d = s[1] /\ s # <<>> /\ Stream' = Tail(s)
      /\ s \in Seq(Datagrams(requests))
  BY <1>1, ReceivedTyped
<1>3. trouble' = trouble /\ requests' = requests /\ Sources' = Sources /\ pc[c] \in where /\ pc[c] # "idle"
  BY DEF Receive, Sources, Waiting
<1> HIDE DEF d, s
<1>4. /\ WellFormed(s) /\ ~EndsAnswer(s[1]) => Tail(s) # <<>> /\ Follows(s[1], Tail(s)[1])
      /\ OneAnswer(s) => OneAnswer(Tail(s))
      /\ OneAnswer(s) /\ EndsAnswer(s[1]) => Tail(s) = <<>>
      /\ WellFormed(s) => WellFormed(Tail(s))
  BY <1>2, NextDatagram, TailWellFormed
<1>5. trouble \subseteq {"late"} => WellFormed(s) /\ \A o \in Callers : o # c => pc[o] = "idle"
  BY <1>1, <1>3 DEF Order, Alone, s
<1>6. trouble = {} => OneAnswer(s) /\ GoodResult(c) /\ Expects(c)
  BY <1>1, <1>3 DEF Success, s
<1> QED BY <1>1, <1>2, <1>3, <1>4, <1>5, <1>6 DEF d, s

LEMMA RecvHeaderKeeps ==
  ASSUME IInv, NEW c \in Callers, RecvHeader(c) PROVE IInv'
<1> DEFINE d == Head(queue)
<1>0. Receive(c, {"header"}) /\ {"header"} \subseteq Waiting
  BY DEF RecvHeader, Waiting
<1>1. /\ Typed /\ Order /\ Success /\ trouble' = trouble /\ Sources' = Sources /\ requests' = requests
      /\ requests \in Nat /\ d \in Datagrams(requests) /\ d = Stream[1] /\ pc[c] = "header"
      /\ trouble \subseteq {"late"} =>
           /\ WellFormed(Stream)'
           /\ \A o \in Callers : o # c => pc[o] = "idle"
           /\ ~EndsAnswer(d) => Stream' # <<>> /\ Follows(d, Stream'[1])
      /\ trouble = {} => OneAnswer(Stream)' /\ GoodResult(c) /\ Expects(c)
  BY <1>0, ReceiveMoves
<1>2. Typed'
  BY <1>1, RecvHeaderTyped
<1> HIDE DEF d
<1>3. CASE d.kind # "header" /\ Fail(c)
  <2>1. \A o \in Callers : /\ pc'[o] = IF o = c THEN "idle" ELSE pc[o]
                           /\ planes'[o] = IF o = c THEN <<>> ELSE planes[o]
    BY <1>1, <1>3 DEF Fail, Return, Typed
  <2>2. DOMAIN planes'[c] = {} /\ pc'[c] # "body"
    <3>1. DOMAIN <<>> = {}
      BY SMT
    <3> QED BY <2>1, <3>1
  <2>3. Order'
    BY <1>1, <2>1, <2>2, OrderMove
  <2>4. trouble # {}
    BY <1>1, <1>3 DEF Expects, Header
  <2> QED BY <1>1, <1>2, <2>3, <2>4 DEF IInv, Success
<1>4. CASE /\ d.kind = "header" /\ header' = [header EXCEPT ![c] = d.plane]
           /\ pc' = [pc EXCEPT ![c] = "body"]
           /\ UNCHANGED <<chunks, planes, request, result>>
  <2>1. /\ header'[c] = d.plane /\ pc'[c] = "body"
        /\ \A o \in Callers : o # c => pc'[o] = pc[o]
    BY <1>1, <1>4 DEF Typed
  <2>2. d.request \in 1..requests /\ d.plane \in PlaneNums
    BY <1>1, DatagramIs
  <2>3. ASSUME trouble \subseteq {"late"}
        PROVE  Stream' # <<>> /\ Stream'[1] = Chunk(d.request, d.plane, 0)
    <3>1. ~EndsAnswer(d)
      BY <1>4 DEF EndsAnswer
    <3> QED BY <1>1, <1>4, <2>3, <3>1 DEF Follows, EndsAnswer
  <2>4. Order'
    <3>1. ASSUME trouble \subseteq {"late"}
          PROVE  \E r \in 1..requests', k \in Indices(header'[c]) : InPlane(c, r, k)'
      <4>0. PICK r \in 1..requests, p \in PlaneNums : r = d.request /\ p = d.plane
        BY <2>2
      <4>1. 0 \in Indices(p) /\ Stream' # <<>> /\ Stream'[1] = Chunk(r, p, 0) /\ header'[c] = p
        BY <2>1, <2>3, <3>1, <4>0, ChunkCounts
      <4>2. DOMAIN chunks[c] = {} /\ 0..(0 - 1) = {}
        <5>1. DOMAIN chunks[c] = {}
          BY <1>1 DEF Typed, CallerTyped
        <5>2. 0..(0 - 1) = {}
          BY SMT
        <5> QED BY <5>1, <5>2
      <4>3. InPlane(c, r, 0)'
        BY <1>4, <4>1, <4>2 DEF InPlane
      <4> QED BY <1>1, <4>1, <4>3
    <3>2. trouble \subseteq {"late"} =>
            \A i \in DOMAIN planes'[c] : \E s \in Sources : planes'[c][i] = Whole(s.request, s.plane)
      BY <1>1, <1>4 DEF Order, PlanesWhole
    <3> QED BY <1>1, <1>4, <2>1, <3>1, <3>2, OrderMove
  <2>5. Success'
    <3>1. ASSUME trouble = {} PROVE Expects(c)' /\ GoodResult(c)'
      <4>1. trouble \subseteq {"late"}
        BY <3>1
      <4>2. d = Header(request[c], Len(planes[c]) + 1)
            /\ \A i \in 1..Len(planes[c]) : planes[c][i] = Whole(request[c], i)
        BY <1>1, <3>1 DEF Expects
      <4>3. d.plane = Len(planes[c]) + 1 /\ d.request = request[c]
        BY <4>2 DEF Header
      <4>4. Stream'[1].request = d.request /\ Stream' # <<>>
        BY <2>3, <4>1 DEF Chunk
      <4>5. Expects(c)'
        BY <1>4, <2>1, <4>2, <4>3, <4>4 DEF Expects
      <4>6. GoodResult(c)'
        BY <1>1, <1>4, <3>1 DEF GoodResult
      <4> QED BY <4>5, <4>6
    <3>2. trouble = {} => trouble \subseteq {"late"}
      OBVIOUS
    <3> QED BY <1>1, <1>4, <2>1, <3>1, <3>2, SuccessMove
  <2> QED BY <1>2, <2>4, <2>5 DEF IInv
<1> QED BY <1>3, <1>4 DEF RecvHeader, d

\* In order, what comes behind a header fits in its plane.
LEMMA IgnoreKeeps ==
  ASSUME IInv, NEW c \in Callers, Ignore(c) PROVE IInv'
<1>0. Receive(c, {"body"}) /\ {"body"} \subseteq Waiting /\ ~Fits(c, Head(queue))
  BY DEF Ignore, Waiting
<1>1. /\ Typed /\ Order /\ Success /\ trouble' = trouble /\ pc[c] = "body" /\ Head(queue) = Stream[1]
  BY <1>0, ReceiveMoves
<1>2. ~(trouble \subseteq {"late"})
  <2>1. SUFFICES ASSUME trouble \subseteq {"late"} PROVE FALSE
    OBVIOUS
  <2>2. PICK r \in 1..requests, k \in Indices(header[c]) : InPlane(c, r, k)
    BY <1>1, <2>1 DEF Order
  <2>3. Head(queue) = Chunk(r, header[c], k)
    BY <1>1, <2>2 DEF InPlane
  <2> QED BY <1>0, <2>2, <2>3 DEF Fits, Chunk
<1>3. trouble # {}
  BY <1>2
<1>4. Typed'
  BY <1>1, IgnoreTyped
<1> QED BY <1>1, <1>2, <1>3, <1>4 DEF IInv, Order, Success

LEMMA RecvPingKeeps ==
  ASSUME IInv, NEW c \in Callers, RecvPing(c) PROVE IInv'
<1> DEFINE d == Head(queue)
<1>0. Receive(c, {"ping", "connect"}) /\ {"ping", "connect"} \subseteq Waiting
  BY DEF RecvPing, Waiting
<1>1. /\ Typed /\ Order /\ Success /\ trouble' = trouble /\ Sources' = Sources
      /\ d = Stream[1] /\ pc[c] \in {"ping", "connect"}
      /\ trouble \subseteq {"late"} => WellFormed(Stream)' /\ \A o \in Callers : o # c => pc[o] = "idle"
      /\ trouble = {} => /\ OneAnswer(Stream)' /\ Expects(c)
                         /\ EndsAnswer(d) => Stream' = <<>>
  BY <1>0, ReceiveMoves
<1> HIDE DEF d
<1>2. \/ d.kind = "pong" /\ Return(c, [kind |-> "connected"])
      \/ d.kind # "pong" /\ Return(c, [kind |-> "failed"])
  BY DEF RecvPing, Fail, d
<1>3. \A o \in Callers : /\ pc'[o] = IF o = c THEN "idle" ELSE pc[o]
                         /\ planes'[o] = IF o = c THEN <<>> ELSE planes[o]
                         /\ o # c => result'[o] = result[o]
  BY <1>1, <1>2 DEF Return, Typed
<1>4. Order'
  <2>1. DOMAIN planes'[c] = {} /\ pc'[c] # "body"
    <3>1. DOMAIN <<>> = {}
      BY SMT
    <3> QED BY <1>3, <3>1
  <2> QED BY <1>1, <1>3, <2>1, OrderMove
<1>5. Success'
  <2>1. ASSUME trouble = {} PROVE GoodResult(c)' /\ Stream' = <<>>
    <3>1. d.kind = "pong"
      BY <1>1, <2>1 DEF Expects
    <3>2. result'[c] = [kind |-> "connected"]
      BY <1>1, <1>2, <3>1 DEF Return, Typed
    <3>3. result'[c].kind = "connected"
      BY <3>2
    <3> QED BY <1>1, <2>1, <3>1, <3>3 DEF EndsAnswer, GoodResult
  <2>2. trouble = {} => trouble \subseteq {"late"}
    OBVIOUS
  <2>3. pc'[c] = "idle"
    BY <1>3
  <2> QED BY <1>1, <1>3, <2>1, <2>2, <2>3, SuccessMove
<1>6. Typed'
  BY <1>1, RecvPingTyped
<1> QED BY <1>4, <1>5, <1>6 DEF IInv

LEMMA PictureWhole ==
  ASSUME NEW T, NEW ps \in Seq(T), NEW got, NEW r, NEW p \in PlaneNums, p = Planes, Len(ps) + 1 = p,
         got = Whole(r, p),
         \A i \in 1..Len(ps) : ps[i] = Whole(r, i)
  PROVE  Append(ps, got) = [q \in PlaneNums |-> Whole(r, q)]
<1> DEFINE S == T \cup {got}
           read == Append(ps, got)
<1>1. ps \in Seq(S) /\ got \in S
  BY SMT
<1> HIDE DEF S
<1>2. Len(ps) \in Nat /\ Len(ps) + 1 = Planes
  BY <1>1, SMT
<1>3. read \in Seq(S) /\ Len(read) = Len(ps) + 1
      /\ (\A i \in 1..Len(ps) : read[i] = ps[i]) /\ read[Len(ps) + 1] = got
  BY <1>1, SMT
<1> HIDE DEF read
<1>4. read = [q \in 1..Planes |-> read[q]]
  BY <1>2, <1>3, SMT
<1>5. ASSUME NEW q \in 1..Planes PROVE read[q] = Whole(r, q)
  <2>1. q \in 1..Len(ps) \/ q = Len(ps) + 1
    BY <1>2, SMT
  <2> QED BY <1>2, <1>3, <2>1
<1>6. read = [q \in 1..Planes |-> Whole(r, q)]
  BY <1>4, <1>5
<1> QED BY <1>6 DEF read, PlaneNums

\* What a picture is made of stays, unless another takes its place.
LEMMA PicturesStay ==
  ASSUME trouble' = trouble, Sources \subseteq Sources', PicturesWhole,
         \A o \in Callers : result'[o] = result[o] \/ result'[o].kind # "picture"
  PROVE  PicturesWhole'
<1> SUFFICES ASSUME NEW o \in Callers, trouble \subseteq {"late"}, result'[o].kind = "picture",
                    NEW i \in DOMAIN result'[o].planes
             PROVE  \E s \in Sources' : result'[o].planes[i] = Whole(s.request, s.plane)
  BY DEF PicturesWhole, Whole, Indices
<1>1. result'[o] = result[o]
  OBVIOUS
<1>2. PICK s \in Sources : result[o].planes[i] = Whole(s.request, s.plane)
  BY <1>1 DEF PicturesWhole
<1> QED BY <1>1, <1>2

LEMMA RecvBodyKeeps ==
  ASSUME IInv, NEW c \in Callers, RecvBody(c)
  PROVE  IInv' /\ (PicturesWhole => PicturesWhole')
<1> DEFINE d == Head(queue)
           got == Stored(c, d)
           read == Append(planes[c], got)
           n == Len(planes[c])
<1>0. Receive(c, {"body"}) /\ {"body"} \subseteq Waiting
  BY DEF RecvBody, Waiting
<1>1. /\ Typed /\ Order /\ Success /\ trouble' = trouble /\ Sources' = Sources /\ requests' = requests
      /\ requests \in Nat /\ d = Stream[1] /\ pc[c] = "body"
      /\ trouble \subseteq {"late"} =>
           /\ WellFormed(Stream)'
           /\ \A o \in Callers : o # c => pc[o] = "idle"
           /\ ~EndsAnswer(d) => Stream' # <<>> /\ Follows(d, Stream'[1])
      /\ trouble = {} =>
           /\ OneAnswer(Stream)' /\ GoodResult(c) /\ Expects(c)
           /\ EndsAnswer(d) => Stream' = <<>>
  BY <1>0, ReceiveMoves
<1>2. Typed'
  BY <1>1, RecvBodyTyped
<1>3. \/ /\ ~Complete(c, got)
         /\ chunks' = [chunks EXCEPT ![c] = got]
         /\ UNCHANGED <<pc, request, header, planes, result>>
      \/ /\ Complete(c, got) /\ ~AllPlanes(read)
         /\ planes' = [planes EXCEPT ![c] = read]
         /\ chunks' = [chunks EXCEPT ![c] = <<>>]
         /\ pc' = [pc EXCEPT ![c] = "header"]
         /\ UNCHANGED <<request, header, result>>
      \/ /\ Complete(c, got) /\ AllPlanes(read)
         /\ Return(c, [kind |-> "picture", request |-> request[c], planes |-> read])
  BY DEF RecvBody
<1>4. planes[c] \in Seq({planes[c][i] : i \in DOMAIN planes[c]}) /\ header[c] \in PlaneNums
  BY <1>1 DEF Typed, CallerTyped
<1>5. n \in Nat /\ Len(read) = n + 1 /\ (\A i \in 1..n : read[i] = planes[c][i]) /\ read[n + 1] = got
      /\ DOMAIN read = 1..(n + 1) /\ DOMAIN planes[c] = 1..n
  <2> DEFINE ps == planes[c]
             S == {ps[i] : i \in DOMAIN ps} \cup {got}
  <2>1. \A i \in DOMAIN ps : ps[i] \in S
    OBVIOUS
  <2>2. got \in S
    OBVIOUS
  <2>3. ps \in Seq({ps[i] : i \in DOMAIN ps})
    BY <1>4
  <2> HIDE DEF S, ps, got
  <2>4. ps \in Seq(S)
    BY <2>1, <2>3, SMT
  <2>5. /\ Len(ps) \in Nat /\ Len(Append(ps, got)) = Len(ps) + 1
        /\ (\A i \in 1..Len(ps) : Append(ps, got)[i] = ps[i]) /\ Append(ps, got)[Len(ps) + 1] = got
        /\ DOMAIN Append(ps, got) = 1..(Len(ps) + 1) /\ DOMAIN ps = 1..Len(ps)
    BY <2>2, <2>4, SMT
  <2> QED BY <2>5 DEF ps
<1>11. /\ DOMAIN got = DOMAIN chunks[c] \cup {d.index}
       /\ \A i \in DOMAIN got : got[i] = IF i = d.index THEN Source(d) ELSE chunks[c][i]
       /\ got = [i \in DOMAIN got |-> got[i]]
  BY DEF Stored
<1> HIDE DEF d, got, read, n
\* In order, the caller has the first k chunks of the plane p of the request r, and gets the next.
<1>6. ASSUME trouble \subseteq {"late"}
      PROVE  \E r \in 1..requests, k \in Nat : LET p == header[c] IN
               /\ d = Chunk(r, p, k) /\ k \in Indices(p)
               /\ got = [i \in 0..k |-> [request |-> r, plane |-> p]]
               /\ Complete(c, got) <=> k + 1 = Chunks[p]
  <2>1. PICK r \in 1..requests, k \in Indices(header[c]) : InPlane(c, r, k)
    BY <1>1, <1>6 DEF Order
  <2> DEFINE p == header[c]
  <2>2. Chunks[p] \in Nat \ {0} /\ k \in Nat /\ k <= Chunks[p] - 1
    <3>1. Chunks[p] \in Nat \ {0} /\ k \in 0..(Chunks[p] - 1)
      BY <1>4, ChunkCounts DEF Indices
    <3> HIDE DEF p
    <3> QED BY <3>1, SMT
  <2>3. d = Chunk(r, p, k) /\ d.index = k /\ Source(d) = [request |-> r, plane |-> p]
    BY <1>1, <2>1 DEF InPlane, Chunk, Source
  <2>4. /\ DOMAIN got = DOMAIN chunks[c] \cup {d.index}
        /\ \A i \in DOMAIN got : got[i] = IF i = d.index THEN Source(d) ELSE chunks[c][i]
        /\ got = [i \in DOMAIN got |-> got[i]]
    BY <1>11
  <2>5. DOMAIN chunks[c] = 0..(k - 1) /\ \A i \in DOMAIN chunks[c] : chunks[c][i] = [request |-> r, plane |-> p]
    BY <2>1 DEF InPlane
  <2>6. 0..(k - 1) \cup {k} = 0..k
    BY <2>2, SMT
  <2>7. DOMAIN got = 0..k
    BY <2>3, <2>4, <2>5, <2>6
  <2>8. \A i \in DOMAIN got : got[i] = [request |-> r, plane |-> p]
    BY <2>3, <2>4, <2>5
  <2>9. got = [i \in 0..k |-> [request |-> r, plane |-> p]]
    BY <2>4, <2>7, <2>8
  <2>10. Cardinality(0..k) = k + 1
    <3>1. 0 \in Int /\ k \in Int /\ ~(0 > k) /\ (k - 0) + 1 = k + 1
      BY <2>2, SMT
    <3> QED BY <3>1, FS_Interval
  <2>11. Complete(c, got) <=> k + 1 = Chunks[p]
    BY <2>7, <2>10 DEF Complete
  <2> HIDE DEF p
  <2> QED BY <2>1, <2>2, <2>3, <2>9, <2>11 DEF p
<1>7. ASSUME ~Complete(c, got),
             chunks' = [chunks EXCEPT ![c] = got],
             UNCHANGED <<pc, request, header, planes, result>>
      PROVE  IInv'
  <2>1. chunks'[c] = got
    BY <1>1, <1>7 DEF Typed
  <2>2. ASSUME trouble \subseteq {"late"}
        PROVE  \E r \in 1..requests, k \in Indices(header[c]) : InPlane(c, r, k)' /\ d.request = r
    <3>1. PICK r \in 1..requests, k \in Nat : LET p == header[c] IN
               /\ d = Chunk(r, p, k) /\ k \in Indices(p)
               /\ got = [i \in 0..k |-> [request |-> r, plane |-> p]]
               /\ k + 1 # Chunks[p]
      BY <1>6, <1>7, <2>2
    <3>2. PICK p \in PlaneNums : p = header[c]
      BY <1>4
    <3>3. Chunks[p] \in Nat \ {0} /\ k + 1 < Chunks[p] /\ k + 1 \in Indices(p) /\ (k + 1) - 1 = k
      <4>1. Chunks[p] \in Nat \ {0} /\ k \in 0..(Chunks[p] - 1) /\ k + 1 # Chunks[p]
        BY <3>1, <3>2, ChunkCounts DEF Indices
      <4>2. k + 1 < Chunks[p] /\ k + 1 \in 0..(Chunks[p] - 1) /\ (k + 1) - 1 = k
        BY <4>1, SMT
      <4> QED BY <4>1, <4>2 DEF Indices
    <3>4. d.kind = "chunk" /\ d.request = r /\ d.plane = p /\ d.index = k
      BY <3>1, <3>2 DEF Chunk
    <3>5. ~EndsAnswer(d)
      BY <3>3, <3>4 DEF EndsAnswer
    <3>6. Stream' # <<>> /\ Stream'[1] = Chunk(r, p, k + 1)
      <4>1. Follows(d, Stream'[1]) /\ Stream' # <<>>
        BY <1>1, <2>2, <3>5
      <4>2. k + 1 # Chunks[p]
        BY <3>1, <3>2
      <4> QED BY <3>4, <3>5, <4>1, <4>2 DEF Follows
    <3>7. InPlane(c, r, k + 1)'
      <4>1. DOMAIN got = 0..k /\ \A i \in DOMAIN got : got[i] = [request |-> r, plane |-> p]
        BY <3>1, <3>2
      <4>2. header'[c] = p
        BY <1>7, <3>2
      <4> QED BY <2>1, <3>3, <3>6, <4>1, <4>2 DEF InPlane
    <3> QED BY <3>2, <3>3, <3>4, <3>7
  <2>3. Order'
    <3>1. trouble \subseteq {"late"} =>
            \A i \in DOMAIN planes'[c] : \E s \in Sources : planes'[c][i] = Whole(s.request, s.plane)
      BY <1>1, <1>7 DEF Order, PlanesWhole
    <3>2. trouble \subseteq {"late"} => \E r \in 1..requests', k \in Indices(header'[c]) : InPlane(c, r, k)'
      BY <1>1, <1>7, <2>2
    <3> QED BY <1>1, <1>7, <3>1, <3>2, OrderMove
  <2>4. Success'
    <3>1. ASSUME trouble = {} PROVE Expects(c)' /\ GoodResult(c)'
      <4>1. PICK r \in 1..requests, k \in Indices(header[c]) : InPlane(c, r, k)' /\ d.request = r
        BY <2>2, <3>1
      <4>2. header[c] = Len(planes[c]) + 1 /\ d.request = request[c]
            /\ \A i \in 1..Len(planes[c]) : planes[c][i] = Whole(request[c], i)
        BY <1>1, <3>1 DEF Expects
      <4>3. Stream' # <<>> /\ Stream'[1].request = r
        BY <4>1 DEF InPlane, Chunk
      <4>4. Expects(c)'
        BY <1>1, <1>7, <4>1, <4>2, <4>3 DEF Expects
      <4>5. GoodResult(c)'
        BY <1>1, <1>7, <3>1 DEF GoodResult
      <4> QED BY <4>4, <4>5
    <3>2. trouble = {} => trouble \subseteq {"late"}
      OBVIOUS
    <3> QED BY <1>1, <1>7, <3>1, <3>2, SuccessMove
  <2> QED BY <1>2, <2>3, <2>4 DEF IInv
\* With the last chunk the plane is whole.
<1>8. ASSUME Complete(c, got), trouble \subseteq {"late"}
      PROVE  \E r \in 1..requests : LET p == header[c] IN
               d = Chunk(r, p, Chunks[p] - 1) /\ got = Whole(r, p)
  <2>1. PICK r \in 1..requests, k \in Nat : LET p == header[c] IN
             /\ d = Chunk(r, p, k)
             /\ got = [i \in 0..k |-> [request |-> r, plane |-> p]]
             /\ k + 1 = Chunks[p]
    BY <1>6, <1>8
  <2>2. k = Chunks[header[c]] - 1
    BY <2>1, SMT
  <2> QED BY <2>1, <2>2 DEF Whole, Indices
\* So are then all the planes read.
<1>12. ASSUME Complete(c, got), trouble \subseteq {"late"}, NEW i \in DOMAIN read
       PROVE  \E s \in Sources : read[i] = Whole(s.request, s.plane)
  <2>1. i \in 1..n \/ i = n + 1
    <3>1. i \in 1..(n + 1) /\ n \in Nat
      BY <1>5, <1>12
    <3> QED BY <3>1, SMT
  <2>2. CASE i \in 1..n
    BY <1>1, <1>5, <1>12, <2>2 DEF Order, PlanesWhole
  <2>3. CASE i = n + 1
    <3>1. PICK r \in 1..requests : got = Whole(r, header[c])
      BY <1>8, <1>12
    <3> DEFINE s == [request |-> r, plane |-> header[c]]
    <3>2. s \in Sources /\ s.request = r /\ s.plane = header[c]
      BY <1>4 DEF Sources
    <3>3. read[i] = got
      BY <1>5, <2>3
    <3> HIDE DEF s
    <3> QED BY <3>1, <3>2, <3>3
  <2> QED BY <2>1, <2>2, <2>3
<1>9. ASSUME Complete(c, got), ~AllPlanes(read),
             planes' = [planes EXCEPT ![c] = read],
             chunks' = [chunks EXCEPT ![c] = <<>>],
             pc' = [pc EXCEPT ![c] = "header"],
             UNCHANGED <<request, header, result>>
      PROVE  IInv'
  <2>1. /\ planes'[c] = read /\ pc'[c] = "header"
        /\ \A o \in Callers : o # c => pc'[o] = pc[o] /\ planes'[o] = planes[o]
    BY <1>1, <1>9 DEF Typed
  <2>2. Order'
    <3>1. ASSUME trouble \subseteq {"late"}, NEW i \in DOMAIN planes'[c]
          PROVE  \E s \in Sources : planes'[c][i] = Whole(s.request, s.plane)
      BY <1>9, <1>12, <2>1, <3>1
    <3> QED BY <1>1, <2>1, <3>1, OrderMove
  <2>3. Success'
    <3>1. ASSUME trouble = {} PROVE Expects(c)' /\ GoodResult(c)'
      <4>0. trouble \subseteq {"late"}
        BY <3>1
      <4>1. PICK r \in 1..requests : d = Chunk(r, header[c], Chunks[header[c]] - 1) /\ got = Whole(r, header[c])
        BY <1>8, <1>9, <4>0
      <4>2. PICK p \in PlaneNums : p = header[c]
        BY <1>4
      <4>3. p = n + 1 /\ d.request = request[c] /\ \A i \in 1..n : planes[c][i] = Whole(request[c], i)
        BY <1>1, <3>1, <4>2 DEF Expects, n
      <4>4. d.kind = "chunk" /\ d.request = r /\ d.plane = p /\ d.index = Chunks[p] - 1
        BY <4>1, <4>2 DEF Chunk
      <4>5. p # Planes /\ p < Planes /\ (Chunks[p] - 1) + 1 = Chunks[p]
        <5>1. p # Planes
          BY <1>5, <1>9, <4>3 DEF AllPlanes
        <5>2. p \in 1..Planes /\ Planes \in Nat /\ Chunks[p] \in Nat
          BY <4>2, ChunkCounts DEF PlaneNums
        <5> QED BY <5>1, <5>2, SMT
      <4>6. ~EndsAnswer(d)
        BY <4>4, <4>5 DEF EndsAnswer
      <4>7. Stream' # <<>> /\ Stream'[1] = Header(r, p + 1)
        <5>1. Follows(d, Stream'[1]) /\ Stream' # <<>>
          BY <1>1, <4>0, <4>6
        <5>2. ~(Chunks[p] < Chunks[p])
          BY <4>2, ChunkCounts, SMT
        <5> QED BY <4>4, <4>5, <4>6, <5>1, <5>2 DEF Follows
      <4>8. \A i \in 1..(n + 1) : read[i] = Whole(request[c], i)
        <5> TAKE i \in 1..(n + 1)
        <5>1. i \in 1..n \/ i = n + 1
          BY <1>5, SMT
        <5> QED BY <1>5, <4>1, <4>2, <4>3, <4>4, <5>1
      <4>9. Len(planes'[c]) = n + 1 /\ request'[c] = request[c]
        BY <1>5, <1>9, <2>1
      <4>10. Expects(c)'
        BY <2>1, <4>3, <4>4, <4>7, <4>8, <4>9 DEF Expects
      <4>11. GoodResult(c)'
        BY <1>1, <1>9, <3>1 DEF GoodResult
      <4> QED BY <4>10, <4>11
    <3>2. trouble = {} => trouble \subseteq {"late"}
      OBVIOUS
    <3> QED BY <1>1, <1>9, <2>1, <3>1, <3>2, SuccessMove
  <2> QED BY <1>2, <2>2, <2>3 DEF IInv
<1>10. ASSUME Complete(c, got), AllPlanes(read),
              Return(c, [kind |-> "picture", request |-> request[c], planes |-> read])
       PROVE  IInv'
  <2>1. \A o \in Callers : /\ pc'[o] = IF o = c THEN "idle" ELSE pc[o]
                           /\ planes'[o] = IF o = c THEN <<>> ELSE planes[o]
                           /\ o # c => result'[o] = result[o]
    BY <1>1, <1>10 DEF Return, Typed
  <2>2. Order'
    <3>1. DOMAIN planes'[c] = {} /\ pc'[c] # "body"
      <4>1. DOMAIN <<>> = {}
        BY SMT
      <4> QED BY <2>1, <4>1
    <3> QED BY <1>1, <2>1, <3>1, OrderMove
  <2>3. Success'
    <3>1. ASSUME trouble = {} PROVE GoodResult(c)' /\ Stream' = <<>>
      <4>0. trouble \subseteq {"late"}
        BY <3>1
      <4>1. PICK r \in 1..requests : d = Chunk(r, header[c], Chunks[header[c]] - 1) /\ got = Whole(r, header[c])
        BY <1>8, <1>10, <4>0
      <4>2. PICK p \in PlaneNums : p = header[c]
        BY <1>4
      <4>3. p = n + 1 /\ d.request = request[c] /\ \A i \in 1..n : planes[c][i] = Whole(request[c], i)
        BY <1>1, <3>1, <4>2 DEF Expects, n
      <4>4. d.kind = "chunk" /\ d.request = r /\ d.plane = p /\ d.index = Chunks[p] - 1
        BY <4>1, <4>2 DEF Chunk
      <4>5. p = Planes /\ (Chunks[p] - 1) + 1 = Chunks[p]
        <5>1. p = Planes
          BY <1>5, <1>10, <4>3 DEF AllPlanes
        <5>2. Chunks[p] \in Nat
          BY <4>2, ChunkCounts
        <5> QED BY <5>1, <5>2, SMT
      <4>6. EndsAnswer(d)
        BY <4>4, <4>5 DEF EndsAnswer
      <4>7. read = [q \in PlaneNums |-> Whole(r, q)]
        <5> DEFINE ps == planes[c]
                   T == {ps[i] : i \in DOMAIN ps}
        <5>1. ps \in Seq(T)
          BY <1>4
        <5>2. Len(ps) + 1 = p /\ got = Whole(r, p) /\ \A i \in 1..Len(ps) : ps[i] = Whole(r, i)
          BY <4>1, <4>2, <4>3, <4>4 DEF n
        <5> HIDE DEF ps, T
        <5> HIDE DEF got, n, d
        <5>3. p \in PlaneNums /\ p = Planes
          BY <4>5
        <5>4. Append(ps, got) = [q \in PlaneNums |-> Whole(r, q)]
          BY <5>1, <5>2, <5>3, PictureWhole
        <5> QED BY <5>4 DEF read, ps
      <4>8. result'[c] = [kind |-> "picture", request |-> r, planes |-> read]
        BY <1>1, <1>10, <4>3, <4>4 DEF Return, Typed
      <4>9. result'[c].kind = "picture" /\ result'[c].request = r /\ result'[c].planes = read
        BY <4>8
      <4> QED BY <1>1, <3>1, <4>6, <4>7, <4>9 DEF GoodResult
    <3>2. trouble = {} => trouble \subseteq {"late"}
      OBVIOUS
    <3>3. pc'[c] = "idle"
      BY <2>1
    <3> QED BY <1>1, <2>1, <3>1, <3>2, <3>3, SuccessMove
  <2> QED BY <1>2, <2>2, <2>3 DEF IInv
<1>13. ASSUME PicturesWhole PROVE PicturesWhole'
  <2>1. CASE result' = result
    BY <1>1, <1>13, <2>1, PicturesStay
  <2>2. CASE /\ Complete(c, got) /\ AllPlanes(read)
             /\ Return(c, [kind |-> "picture", request |-> request[c], planes |-> read])
    <3>1. result'[c].planes = read /\ \A o \in Callers : o # c => result'[o] = result[o]
      BY <1>1, <2>2 DEF Return, Typed
    <3>2. ASSUME NEW o \in Callers, trouble \subseteq {"late"}, result'[o].kind = "picture",
                 NEW i \in DOMAIN result'[o].planes
          PROVE  \E s \in Sources : result'[o].planes[i] = Whole(s.request, s.plane)
      <4>1. CASE o = c
        BY <1>12, <2>2, <3>1, <3>2, <4>1
      <4>2. CASE o # c
        BY <1>13, <3>1, <3>2, <4>2 DEF PicturesWhole
      <4> QED BY <4>1, <4>2
    <3> QED BY <1>1, <3>2 DEF PicturesWhole, Whole, Indices
  <2> QED BY <1>3, <2>1, <2>2
<1> QED BY <1>3, <1>7, <1>9, <1>10, <1>13

-----------------------------------------------------------------------------
LEMMA NextKeepsInv == IInv /\ [Next]_vars => IInv'
<1> SUFFICES ASSUME IInv, [Next]_vars PROVE IInv'
  OBVIOUS
<1>0. Typed /\ Order /\ Success
  BY DEF IInv
<1>1. CASE Deliver
  <2>1. UNCHANGED <<trouble, requests, pc, request, header, chunks, planes, result>>
    BY <1>1 DEF Deliver, sockVars, readVars
  <2> QED BY <1>0, <1>1, <2>1, DeliverTyped, Untouched DEF IInv
<1>2. CASE Lose
  <2>1. Typed' /\ "loss" \in trouble' /\ "loss" \notin {"late"}
    BY <1>0, <1>2, LoseTyped DEF Lose, sockVars
  <2> QED BY <2>1 DEF IInv, Order, Success
<1>3. ASSUME NEW c \in Callers, WaitForData(c) PROVE IInv'
  <2>1. /\ ready' = [ready EXCEPT ![c] = TRUE]
        /\ UNCHANGED <<sockVars, requests, sending, queue, pc, request, readVars, result>>
    BY <1>3 DEF WaitForData
  <2>2. /\ queue' \in Seq(Datagrams(requests)) /\ sending' \in Seq(Datagrams(requests))
        /\ ready' \in [Callers -> BOOLEAN]
    BY <1>0, <2>1 DEF Typed
  <2>3. Typed' /\ Stream' = Stream
    BY <1>0, <2>1, <2>2, QuietTyped DEF Stream
  <2>4. UNCHANGED <<trouble, requests, pc, request, header, chunks, planes, result>>
    BY <2>1 DEF sockVars, readVars
  <2> QED BY <1>0, <2>3, <2>4, Untouched DEF IInv
<1>4. CASE UNCHANGED vars
  <2>1. /\ UNCHANGED <<sockVars, requests, sending, queue, pc, request, readVars, result>>
        /\ queue' \in Seq(Datagrams(requests)) /\ sending' \in Seq(Datagrams(requests))
        /\ ready' \in [Callers -> BOOLEAN]
    BY <1>0, <1>4 DEF vars, Typed
  <2>2. Typed' /\ Stream' = Stream
    BY <1>0, <2>1, QuietTyped DEF Stream
  <2>3. UNCHANGED <<trouble, requests, pc, request, header, chunks, planes, result>>
    BY <2>1 DEF sockVars, readVars
  <2> QED BY <1>0, <2>2, <2>3, Untouched DEF IInv
<1>5. ASSUME NEW c \in Callers, Call(c) \/ Answer(c) PROVE IInv'
  BY <1>3, <1>5, CallsKeep, TimeoutKeeps, RecvHeaderKeeps, IgnoreKeeps, RecvBodyKeeps, RecvPingKeeps
     DEF Answer
<1> QED BY <1>1, <1>2, <1>4, <1>5 DEF Next

LEMMA NextKeepsPictures == IInv /\ PicturesWhole /\ [Next]_vars => PicturesWhole'
<1> SUFFICES ASSUME IInv, PicturesWhole, [Next]_vars PROVE PicturesWhole'
  OBVIOUS
<1>0. Typed
  BY DEF IInv
<1>1. CASE UNCHANGED <<trouble, requests, result>>
  BY <1>1, PicturesStay DEF Sources
<1>2. ASSUME NEW c \in Callers, Call(c)
      PROVE  /\ trouble' = trouble /\ requests' = requests + 1
             /\ result' = [result EXCEPT ![c] = [kind |-> "none"]]
  BY <1>2 DEF Call, TakePicture, Ping, Connect, Send
<1>3. ASSUME NEW c \in Callers, Call(c) PROVE PicturesWhole'
  <2>1. requests \in Nat
    BY <1>0, RequestsAssumption, SMT DEF Typed
  <2>2. 1..requests \subseteq 1..(requests + 1)
    BY <2>1, SMT
  <2>3. Sources \subseteq Sources'
    BY <1>2, <1>3, <2>2 DEF Sources
  <2>4. \A o \in Callers : result'[o] = result[o] \/ result'[o].kind # "picture"
    BY <1>0, <1>2, <1>3 DEF Typed
  <2> QED BY <1>2, <1>3, <2>3, <2>4, PicturesStay
<1>4. ASSUME NEW c \in Callers, NEW how, how.kind # "picture", Return(c, how),
             UNCHANGED <<trouble, requests>>
      PROVE  PicturesWhole'
  <2>1. \A o \in Callers : result'[o] = result[o] \/ result'[o].kind # "picture"
    BY <1>0, <1>4 DEF Typed, Return
  <2> QED BY <1>4, <2>1, PicturesStay DEF Sources
<1>5. ASSUME NEW c \in Callers, Timeout(c) \/ RecvHeader(c) \/ RecvPing(c) PROVE PicturesWhole'
  <2>1. UNCHANGED <<trouble, requests>>
    BY <1>5 DEF Timeout, RecvHeader, RecvPing, Receive, sockVars
  <2>2. result' = result \/ Fail(c) \/ Return(c, [kind |-> "connected"])
    BY <1>5 DEF Timeout, RecvHeader, RecvPing
  <2>3. [kind |-> "failed"].kind # "picture" /\ [kind |-> "connected"].kind # "picture"
    OBVIOUS
  <2> QED BY <1>1, <1>4, <2>1, <2>2, <2>3 DEF Fail
<1>6. ASSUME NEW c \in Callers, WaitForData(c) \/ Ignore(c)
      PROVE  UNCHANGED <<trouble, requests, result>>
  BY <1>6 DEF WaitForData, Ignore, Receive, sockVars
<1>7. CASE Deliver \/ Lose \/ UNCHANGED vars
  BY <1>1, <1>7 DEF Deliver, Lose, vars, sockVars
<1> QED BY <1>1, <1>3, <1>5, <1>6, <1>7, RecvBodyKeeps DEF Next, Answer

\* The invariant is inductive: types, the order of what is before the callers, and, while
\* nothing goes wrong, whose answer that is.
THEOREM Inductive == Spec => []IInv
BY InitInv, NextKeepsInv, PTL DEF Spec

\* Every variable keeps its type, for any number of callers, planes, chunks and requests.
THEOREM TypeCorrect == Spec => []TypeOK
<1>1. IInv => TypeOK
  BY TypedImpliesTypeOK DEF IInv
<1> QED BY <1>1, Inductive, PTL

\* readImage and recvBody, which never empty the socket's buffer: while answers are late but
\* none is lost and calls do not overlap, every plane recvBody returned, to a readImage under way
\* or in its picture, the last one included, is one plane of one request.
THEOREM PlanesNotMixed == Spec => []PlanesAreNotMixed
<1>1. Init => PicturesWhole
  BY DEF Init, PicturesWhole
<1>2. Spec => []PicturesWhole
  BY <1>1, Inductive, NextKeepsPictures, PTL DEF Spec
<1>3. IInv /\ PicturesWhole => PlanesAreNotMixed
  BY DEF IInv, Order, PlanesWhole, PicturesWhole, PlanesAreNotMixed, IsOnePlane
<1> QED BY <1>2, <1>3, Inductive, PTL

\* With nothing lost, nothing late and one call at a time, no call on the camera fails, and a
\* picture is the one asked for: each call leaves the socket empty for the next.
THEOREM UndisturbedSucceed == Spec => []UndisturbedCallsSucceed
<1>1. IInv => UndisturbedCallsSucceed
  BY DEF IInv, Success, GoodResult, UndisturbedCallsSucceed
<1> QED BY <1>1, Inductive, PTL
=============================================================================
