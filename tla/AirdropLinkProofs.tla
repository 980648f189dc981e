-------------------------- MODULE AirdropLinkProofs --------------------------
(***************************************************************************)
(* Proofs about AirdropLink: the types, that the user is never handed a    *)
(* packet nobody sent, that no reset follows the acknowledgement, and that *)
(* the user gets the packets of the payloads in order, each once, for      *)
(* rings of any size, any handlers and copies and any packets.             *)
(*                                                                         *)
(* A thread that waits and one that pushes hold the mutex at other times;  *)
(* what makes the pop find the packet it was woken for is the count of     *)
(* waiting threads and of posts, while only one thread receives and the    *)
(* socket is not closed (operator Consumer).                               *)
(*                                                                         *)
(* The order needs an account besides (operator Ledger): until the socket  *)
(* is closed the queue holds the last packets sent, the packet in hand is  *)
(* the one before them, and what was returned or queued is what the client *)
(* does not keep for itself of all before that.  After the close only that *)
(* some such account was right once.  Taken is defined through FlattenSeq, *)
(* a recursive function under a CHOOSE: that the function exists and how   *)
(* Taken goes over a concatenation is shown by the least number for which  *)
(* it would not hold (LeastElement).                                       *)
(***************************************************************************)
EXTENDS AirdropLink, FiniteSetTheorems, TLAPS

-------------------------------------------------------------------------------
(* The ring.                                                               *)

LEMMA Sizes == Capacity \in Nat \ {0} /\ SizeMax \in Nat \ {0} /\ Capacity + 2 < SizeMax
BY CapacityAssumption, SizeMaxAssumption

\* Remainders.
LEMMA Below == ASSUME NEW n \in Nat \ {0}, NEW a \in 0..(n - 1) PROVE a % n = a
OBVIOUS

LEMMA Remainder == ASSUME NEW n \in Nat \ {0}, NEW a \in Int PROVE a % n \in 0..(n - 1)
OBVIOUS

\* The slot k places after slot f.
LEMMA SlotAfter ==
    ASSUME NEW f \in Slots, NEW k \in 0..Capacity
    PROVE  (f + k) % Capacity = IF f + k < Capacity THEN f + k ELSE f + k - Capacity
<1>1. f \in Nat /\ f < Capacity /\ k \in Nat /\ k <= Capacity /\ Capacity \in Nat
  BY Sizes DEF Slots
<1>2. CASE f + k < Capacity
  <2>1. f + k \in 0..(Capacity - 1)
    BY <1>1, <1>2
  <2> QED
    BY <1>2, <2>1, Sizes, Below
<1>3. CASE f + k >= Capacity
  <2>1. f + k \in Int /\ f + k >= Capacity /\ f + k - Capacity < Capacity
    BY <1>1, <1>3
  <2>2. (f + k) % Capacity = f + k - Capacity
    BY <1>1, <2>1
  <2> QED
    BY <1>1, <1>3, <2>2
<1> QED
  BY <1>1, <1>2, <1>3

\* What a push does to the slots, n packets after the front f.
LEMMA PushSlots ==
    ASSUME NEW f \in Slots, NEW n \in 0..(Capacity - 1), NEW b, b = (f + n) % Capacity
    PROVE  /\ b \in Slots /\ (n + 1) % SizeMax = n + 1
           /\ (b + 1) % Capacity = (f + (n + 1)) % Capacity
           /\ \A i \in 1..n : (f + i - 1) % Capacity # b /\ (f + i - 1) % Capacity \in Slots
           /\ (f + (n + 1) - 1) % Capacity = b
<1>1. f \in Nat /\ f < Capacity /\ n \in Nat /\ n < Capacity /\ Capacity \in Nat
  BY Sizes DEF Slots
<1>2. b = (IF f + n < Capacity THEN f + n ELSE f + n - Capacity) /\ b \in Slots
  <2>1. n \in 0..Capacity
    BY <1>1
  <2>2. b = (IF f + n < Capacity THEN f + n ELSE f + n - Capacity)
    BY <2>1, SlotAfter
  <2> QED
    BY <1>1, <2>2 DEF Slots
<1>3. (n + 1) % SizeMax = n + 1
  <2>1. n + 1 \in 0..(SizeMax - 1)
    BY <1>1, Sizes
  <2> QED
    BY <2>1, Sizes, Below
<1>4. (b + 1) % Capacity = (f + (n + 1)) % Capacity
  <2>1. /\ (f + (n + 1)) % Capacity
             = IF f + (n + 1) < Capacity THEN f + (n + 1) ELSE f + (n + 1) - Capacity
        /\ (b + 1) % Capacity = IF b + 1 < Capacity THEN b + 1 ELSE b + 1 - Capacity
    <3>1. n + 1 \in 0..Capacity /\ 1 \in 0..Capacity
      BY <1>1
    <3> QED
      BY <1>2, <3>1, SlotAfter
  <2> QED
    BY <1>1, <1>2, <2>1
<1>5. ASSUME NEW i \in 1..n
      PROVE  (f + i - 1) % Capacity # b /\ (f + i - 1) % Capacity \in Slots
  <2>1. i - 1 \in 0..Capacity /\ f + i - 1 = f + (i - 1) /\ i - 1 < n /\ i - 1 \in Nat
    BY <1>1
  <2>2. (f + i - 1) % Capacity
          = IF f + (i - 1) < Capacity THEN f + (i - 1) ELSE f + (i - 1) - Capacity
    BY <2>1, SlotAfter
  <2> QED
    BY <1>1, <1>2, <2>1, <2>2 DEF Slots
<1>6. f + (n + 1) - 1 = f + n
  BY <1>1
<1> QED
  BY <1>2, <1>3, <1>4, <1>5, <1>6

\* What a pop does.
LEMMA PopSlots ==
    ASSUME NEW f \in Slots, NEW n \in 1..Capacity, NEW g, g = (f + 1) % Capacity
    PROVE  /\ g \in Slots /\ (n - 1) % SizeMax = n - 1
           /\ (g + (n - 1)) % Capacity = (f + n) % Capacity
           /\ \A i \in 1..(n - 1) : (g + i - 1) % Capacity = (f + (i + 1) - 1) % Capacity
           /\ (f + 1 - 1) % Capacity = f
<1>1. f \in Nat /\ f < Capacity /\ n \in Nat /\ n >= 1 /\ n <= Capacity /\ Capacity \in Nat
  BY Sizes DEF Slots
<1>2. g = (IF f + 1 < Capacity THEN f + 1 ELSE f + 1 - Capacity) /\ g \in Slots
  <2>1. 1 \in 0..Capacity
    BY <1>1
  <2>2. g = (IF f + 1 < Capacity THEN f + 1 ELSE f + 1 - Capacity)
    BY <2>1, SlotAfter
  <2> QED
    BY <1>1, <2>2 DEF Slots
<1>3. ASSUME NEW k \in 1..n PROVE (g + (k - 1)) % Capacity = (f + k) % Capacity
  <2>1. k \in 0..Capacity /\ k - 1 \in 0..Capacity /\ k \in Nat
    BY <1>1
  <2>2. /\ (g + (k - 1)) % Capacity
             = IF g + (k - 1) < Capacity THEN g + (k - 1) ELSE g + (k - 1) - Capacity
        /\ (f + k) % Capacity = IF f + k < Capacity THEN f + k ELSE f + k - Capacity
    BY <1>2, <2>1, SlotAfter
  <2> QED
    BY <1>1, <1>2, <2>1, <2>2
<1>4. (g + (n - 1)) % Capacity = (f + n) % Capacity
  BY <1>1, <1>3
<1>5. ASSUME NEW i \in 1..(n - 1)
      PROVE  (g + i - 1) % Capacity = (f + (i + 1) - 1) % Capacity
  <2>1. i \in 1..n /\ g + i - 1 = g + (i - 1) /\ f + (i + 1) - 1 = f + i
    BY <1>1, <1>2 DEF Slots
  <2> QED
    BY <1>3, <2>1
<1>6. (n - 1) % SizeMax = n - 1
  <2>1. n - 1 \in 0..(SizeMax - 1)
    BY <1>1, Sizes
  <2> QED
    BY <2>1, Sizes, Below
<1>7. (f + 1 - 1) % Capacity = f
  <2>1. f + 1 - 1 = f /\ f \in 0..(Capacity - 1)
    BY <1>1
  <2> QED
    BY <2>1, Sizes, Below
<1> QED
  BY <1>2, <1>4, <1>5, <1>6, <1>7

\* Whatever its counters say, a queue stays one.
LEMMA QueueTypes ==
    ASSUME NEW P, NEW q \in QueueOf(P), NEW e \in P
    PROVE  /\ Pushed(q, e) \in QueueOf(P) /\ Popped(q) \in QueueOf(P)
           /\ Waiting(q) \in QueueOf(P) /\ Posted(q) \in QueueOf(P)
           /\ q.sem > 0 => Woken(q) \in QueueOf(P)
           /\ FrontPacket(q) \in P
<1>1. /\ q.arr \in [Slots -> P] /\ q.front \in Slots /\ q.back \in Slots
      /\ q.num \in Nat /\ q.waiting \in Nat /\ q.sem \in Nat
  BY Sizes DEF QueueOf
<1>2. ASSUME NEW n \in Nat
      PROVE  (n + 1) % SizeMax \in 0..(SizeMax - 1) /\ (n - 1) % SizeMax \in 0..(SizeMax - 1)
  <2>1. n + 1 \in Int /\ n - 1 \in Int
    OBVIOUS
  <2> QED
    BY <2>1, Sizes, Remainder
<1>3. ASSUME NEW f \in Slots PROVE After(f) \in Slots
  <2>1. f + 1 \in Int
    BY Sizes DEF Slots
  <2> QED
    BY <2>1, Sizes, Remainder DEF After, Slots
<1>4. Pushed(q, e) \in QueueOf(P)
  <2>1. /\ [q.arr EXCEPT ![q.back] = e] \in [Slots -> P]
        /\ After(q.back) \in Slots /\ (q.num + 1) % SizeMax \in 0..(SizeMax - 1)
        /\ (IF q.waiting > 0 THEN q.waiting - 1 ELSE q.waiting) \in Nat
        /\ (IF q.waiting > 0 THEN q.sem + 1 ELSE q.sem) \in Nat
    BY <1>1, <1>2, <1>3
  <2> QED
    BY <1>1, <2>1 DEF Pushed, QueueOf
<1>5. Popped(q) \in QueueOf(P)
  <2>1. After(q.front) \in Slots /\ (q.num - 1) % SizeMax \in 0..(SizeMax - 1)
    BY <1>1, <1>2, <1>3
  <2> QED
    BY <1>1, <2>1 DEF Popped, QueueOf
<1>6. Waiting(q) \in QueueOf(P) /\ Posted(q) \in QueueOf(P)
  BY <1>1 DEF Waiting, Posted, QueueOf
<1>7. q.sem > 0 => Woken(q) \in QueueOf(P)
  BY <1>1 DEF Woken, QueueOf
<1> QED
  BY <1>1, <1>4, <1>5, <1>6, <1>7 DEF FrontPacket

\* The packets lie between front and back.
Ring(q) == q.num <= Capacity /\ q.back = (q.front + q.num) % Capacity

\* One thread receives, and the socket is not closed: a post stands for a packet.
Consumer(q, at) ==
    /\ Ring(q)
    /\ at \in {"begin", "done"} => q.waiting = 0 /\ q.sem = 0
    /\ at = "sleep" => \/ q.waiting = 1 /\ q.sem = 0
                       \/ q.waiting = 0 /\ q.sem = 1 /\ q.num >= 1
    /\ at = "pop" => q.waiting = 0 /\ q.sem = 0 /\ q.num >= 1

LEMMA PushKeepsRing ==
    ASSUME NEW P, NEW q \in QueueOf(P), NEW e \in P, Ring(q), q.num < Capacity
    PROVE  /\ Ring(Pushed(q, e)) /\ Pushed(q, e).num = q.num + 1
           /\ \A i \in 1..q.num : Contents(Pushed(q, e))[i] = Contents(q)[i]
           /\ Contents(Pushed(q, e))[q.num + 1] = e
<1> DEFINE r == Pushed(q, e)
<1>1. /\ q.arr \in [Slots -> P] /\ q.front \in Slots /\ q.num \in 0..(Capacity - 1)
      /\ q.back = (q.front + q.num) % Capacity
  BY Sizes DEF QueueOf, Ring
<1>2. /\ r.front = q.front /\ r.back = (q.back + 1) % Capacity /\ r.arr = [q.arr EXCEPT ![q.back] = e]
      /\ r.num = (q.num + 1) % SizeMax
  BY DEF Pushed, After, QueueOf
<1>3. /\ q.back \in Slots /\ (q.num + 1) % SizeMax = q.num + 1
      /\ (q.back + 1) % Capacity = (q.front + (q.num + 1)) % Capacity
      /\ \A i \in 1..q.num : /\ (q.front + i - 1) % Capacity # q.back
                            /\ (q.front + i - 1) % Capacity \in Slots
      /\ (q.front + (q.num + 1) - 1) % Capacity = q.back
  BY <1>1, PushSlots
<1> HIDE DEF r
<1>4. r.num = q.num + 1 /\ r.num \in 1..Capacity /\ 1..q.num \subseteq 1..r.num
  BY <1>1, <1>2, <1>3, Sizes
<1>5. Ring(r)
  BY <1>2, <1>3, <1>4 DEF Ring
<1>6. \A i \in 1..q.num : Contents(r)[i] = Contents(q)[i]
  BY <1>1, <1>2, <1>3, <1>4 DEF Contents
<1>7. Contents(r)[q.num + 1] = e
  <2>1. q.num + 1 \in 1..r.num
    BY <1>1, <1>4
  <2> QED
    BY <1>1, <1>2, <1>3, <2>1 DEF Contents
<1> QED
  BY <1>4, <1>5, <1>6, <1>7 DEF r

LEMMA PopKeepsRing ==
    ASSUME NEW P, NEW q \in QueueOf(P), Ring(q), q.num >= 1
    PROVE  /\ Ring(Popped(q)) /\ Popped(q).num = q.num - 1
           /\ \A i \in 1..(q.num - 1) : Contents(Popped(q))[i] = Contents(q)[i + 1]
           /\ FrontPacket(q) = Contents(q)[1]
<1> DEFINE r == Popped(q)
<1>1. /\ q.arr \in [Slots -> P] /\ q.front \in Slots /\ q.num \in 1..Capacity
      /\ q.back = (q.front + q.num) % Capacity
  BY Sizes DEF QueueOf, Ring
<1>2. /\ r.front = (q.front + 1) % Capacity /\ r.back = q.back /\ r.arr = q.arr
      /\ r.num = (q.num - 1) % SizeMax
  BY DEF Popped, After, QueueOf
<1> HIDE DEF r
<1>3. /\ r.front \in Slots /\ r.num = q.num - 1
      /\ (r.front + (q.num - 1)) % Capacity = (q.front + q.num) % Capacity
      /\ \A i \in 1..(q.num - 1) : (r.front + i - 1) % Capacity = (q.front + (i + 1) - 1) % Capacity
      /\ (q.front + 1 - 1) % Capacity = q.front
  BY <1>1, <1>2, PopSlots
<1>4. Ring(r)
  BY <1>1, <1>2, <1>3, Sizes DEF Ring
<1>5. ASSUME NEW i \in 1..(q.num - 1) PROVE Contents(r)[i] = Contents(q)[i + 1]
  <2>1. i \in 1..r.num /\ i + 1 \in 1..q.num
    BY <1>1, <1>3
  <2> QED
    BY <1>2, <1>3, <2>1 DEF Contents
<1>6. FrontPacket(q) = Contents(q)[1]
  BY <1>1, <1>3 DEF FrontPacket, Contents
<1> QED
  BY <1>3, <1>4, <1>5, <1>6 DEF r

-------------------------------------------------------------------------------
(* A receiver and a pusher on one queue. *)

LEMMA ConsumerSteps ==
    ASSUME NEW P, NEW q \in QueueOf(P), NEW e \in P, NEW at, Consumer(q, at)
    PROVE  /\ q.num < Capacity /\ at \in {"begin", "done", "sleep", "pop"} => Consumer(Pushed(q, e), at)
           /\ at = "begin" /\ IsEmpty(q) => Consumer(Waiting(q), "sleep")
           /\ at = "begin" /\ ~IsEmpty(q) => Consumer(q, "pop")
           /\ at = "sleep" /\ q.sem > 0 => Consumer(Woken(q), "pop")
           /\ at = "pop" => Consumer(Popped(q), "begin") /\ Consumer(Popped(q), "done")
<1>1. q.num \in Nat /\ q.waiting \in Nat /\ q.sem \in Nat /\ Ring(q)
  BY Sizes DEF QueueOf, Consumer
<1>2. ASSUME q.num < Capacity, at \in {"begin", "done", "sleep", "pop"}
      PROVE  Consumer(Pushed(q, e), at)
  <2>1. Ring(Pushed(q, e)) /\ Pushed(q, e).num = q.num + 1
    BY <1>1, <1>2, PushKeepsRing
  <2>2. /\ Pushed(q, e).waiting = IF q.waiting > 0 THEN q.waiting - 1 ELSE q.waiting
        /\ Pushed(q, e).sem = IF q.waiting > 0 THEN q.sem + 1 ELSE q.sem
    BY DEF Pushed, QueueOf
  <2> QED
    BY <1>1, <1>2, <2>1, <2>2 DEF Consumer
<1>3. ASSUME at = "begin" PROVE IsEmpty(q) => Consumer(Waiting(q), "sleep")
  <2>1. /\ Waiting(q).waiting = q.waiting + 1 /\ Waiting(q).sem = q.sem /\ Waiting(q).num = q.num
        /\ Waiting(q).front = q.front /\ Waiting(q).back = q.back
    BY DEF Waiting, QueueOf
  <2> QED
    BY <1>1, <1>3, <2>1 DEF Consumer, Ring
<1>4. ASSUME at = "begin", ~IsEmpty(q) PROVE Consumer(q, "pop")
  BY <1>1, <1>4 DEF Consumer, IsEmpty
<1>5. ASSUME at = "sleep", q.sem > 0 PROVE Consumer(Woken(q), "pop")
  <2>1. /\ Woken(q).waiting = q.waiting /\ Woken(q).sem = q.sem - 1 /\ Woken(q).num = q.num
        /\ Woken(q).front = q.front /\ Woken(q).back = q.back
    BY DEF Woken, QueueOf
  <2> QED
    BY <1>1, <1>5, <2>1 DEF Consumer, Ring
<1>6. ASSUME at = "pop" PROVE Consumer(Popped(q), "begin") /\ Consumer(Popped(q), "done")
  <2>1. Ring(Popped(q)) /\ q.num >= 1
    BY <1>1, <1>6, PopKeepsRing DEF Consumer
  <2>2. Popped(q).waiting = q.waiting /\ Popped(q).sem = q.sem
    BY DEF Popped, QueueOf
  <2> QED
    BY <1>6, <2>1, <2>2 DEF Consumer
<1> QED
  BY <1>2, <1>3, <1>4, <1>5, <1>6

-------------------------------------------------------------------------------
(* The inductive invariant, part by part.                                  *)

(* The receive thread starts when the handshake is done, and the socket is closed after. *)
Phases ==
    /\ main \in {"setup", "join", "ack"} <=> worker = "none"
    /\ stopWorker <=> main \in {"close", "wait", "gone"}
    /\ worker = "ack" => recv = "done"

Real == FromPayload \ {"zero"}

(* Until the socket is closed, what is taken from it is a packet somebody sent. *)
Inbox ==
    /\ ~stopWorker => /\ Consumer(obc, recv) /\ obc.num <= Len(sent)
                      /\ \A i \in 1..obc.num : Contents(obc)[i] \in Real
                      /\ recv = "done" => packet \in Real
    /\ recvQueue \in Seq(Others) /\ handed \in Seq(Others)

NoAck == \A i \in 1..payload.num : Contents(payload)[i] # "ack"

(* During the handshake the payloads' receiver, the resets and the one acknowledgement
   are all there is on the other queue; the resets have ended when it is sent. *)
Outbox ==
    worker = "none" =>
        /\ Consumer(payload, peer)
        /\ \A h \in Handlers : sending[h].at = "idle" /\ left[h] = 0
        /\ sending["worker"].at = "idle"
        /\ sending["spam"].at # "idle" => spam = "sleep" /\ sending["spam"].what = "reset"
        /\ \A p \in {"spam", "main"} : sending[p].at = "push" => payload.num < Capacity
        /\ main # "ack" => sending["main"].at = "idle" /\ NoAck
        /\ main = "ack" =>
              /\ spam = "gone"
              /\ sending["main"].at # "idle" => sending["main"].what = "ack" /\ NoAck
              /\ \A i \in 1..payload.num : Contents(payload)[i] = "ack" => i = payload.num

IInv == TypeOK /\ Phases /\ Inbox /\ Outbox

-------------------------------------------------------------------------------
LEMMA EmptyQueues ==
    /\ EmptyQueue("zero") \in QueueOf(FromPayload) /\ EmptyQueue("zero") \in QueueOf(ToPayload)
    /\ Consumer(EmptyQueue("zero"), "begin") /\ EmptyQueue("zero").num = 0
<1>1. 0 \in Slots /\ 0 \in 0..(SizeMax - 1) /\ "zero" \in FromPayload /\ "zero" \in ToPayload
  BY Sizes DEF Slots, FromPayload, ForUser, ToPayload
<1>2. (0 + 0) % Capacity = 0
  BY Sizes
<1> QED
  BY <1>1, <1>2, Sizes DEF EmptyQueue, QueueOf, Consumer, Ring

LEMMA Names == /\ "main" \in Producers /\ "spam" \in Producers /\ "worker" \in Producers
               /\ Handlers \subseteq Producers
               /\ \A h \in Handlers : h # "main" /\ h # "spam" /\ h # "worker"
BY HandlersAssumption DEF Producers

LEMMA InitInv == Init => IInv
<1> SUFFICES ASSUME Init PROVE IInv
  OBVIOUS
<1> USE DEF Init
<1>1. TypeOK
  <2>1. Idle \in Sends
    BY DEF Idle, Sends, ToPayload
  <2>2. 0 \in 0..Copies /\ 0 \in 0..MaxSent /\ 0 <= MaxSent
    BY CopiesAssumption, MaxSentAssumption
  <2>3. sent \in Seq(FromPayload) /\ Len(sent) <= MaxSent /\ packet \in FromPayload
    BY <2>2 DEF FromPayload, ForUser
  <2>4. /\ sending \in [Producers -> Sends] /\ left \in [Handlers -> 0..Copies]
        /\ recvQueue \in Seq(ForUser) /\ handed \in Seq(Others) /\ setup \in 0..MaxSent
    BY <2>1, <2>2
  <2>5. obc \in QueueOf(FromPayload) /\ payload \in QueueOf(ToPayload)
    BY EmptyQueues
  <2> QED
    BY <2>3, <2>4, <2>5 DEF TypeOK
<1>2. Phases
  BY DEF Phases
<1>3. Inbox
  <2>1. obc.num = 0 /\ Len(sent) = 0
    BY EmptyQueues
  <2> QED
    BY <2>1, EmptyQueues DEF Inbox
<1>4. Outbox
  <2>1. payload.num = 0 /\ \A p \in Producers : sending[p].at = "idle"
    BY EmptyQueues DEF Idle
  <2> QED
    BY <2>1, EmptyQueues, Names DEF Outbox, NoAck
<1> QED
  BY <1>1, <1>2, <1>3, <1>4 DEF IInv

-------------------------------------------------------------------------------
(* What a step leaves alone. *)

LEMMA InboxStays ==
    ASSUME Inbox, UNCHANGED <<obc, recv, packet, stopWorker, recvQueue, handed, sent>>
    PROVE  Inbox'
BY DEF Inbox

LEMMA OutboxStays ==
    ASSUME Outbox, UNCHANGED <<payload, peer, sending, left, spam>>,
           main' = "ack" <=> main = "ack", worker' = "none" => worker = "none"
    PROVE  Outbox'
BY DEF Outbox, NoAck

TypedQueues  == obc \in QueueOf(FromPayload) /\ payload \in QueueOf(ToPayload)
TypedThreads ==
    /\ socket \in Sockets
    /\ main \in {"setup", "join", "ack", "run", "close", "wait", "gone"}
    /\ spam \in {"send", "sleep", "gone"} /\ worker \in {"none", "run", "ack", "gone"}
    /\ stopSpam \in BOOLEAN /\ stopWorker \in BOOLEAN
    /\ recv \in {"begin", "sleep", "pop", "done"} /\ packet \in FromPayload
    /\ peer \in {"begin", "sleep", "pop"}
TypedSending == sending \in [Producers -> Sends] /\ left \in [Handlers -> 0..Copies]
TypedLog ==
    /\ recvQueue \in Seq(ForUser) /\ handed \in Seq(Others)
    /\ sent \in Seq(FromPayload) /\ Len(sent) <= MaxSent /\ setup \in 0..MaxSent

LEMMA TypeParts ==
    /\ TypeOK <=> TypedQueues /\ TypedThreads /\ TypedSending /\ TypedLog
    /\ TypeOK' <=> TypedQueues' /\ TypedThreads' /\ TypedSending' /\ TypedLog'
BY DEF TypeOK, TypedQueues, TypedThreads, TypedSending, TypedLog

-------------------------------------------------------------------------------
(* Sending. *)

LEMMA CheckedKeepsInv ==
    ASSUME IInv, NEW p \in Producers, Checked(p) PROVE IInv'
<1> USE DEF Checked, recvVars, peerVars, history
<1>0. TypedQueues /\ TypedThreads /\ TypedSending /\ TypedLog
  BY TypeParts DEF IInv
<1>1. /\ sending[p].at = "check" /\ sending[p] \in Sends
      /\ \A r \in Producers : r # p => sending'[r] = sending[r]
      /\ IsFull(payload) => sending'[p] = Idle
      /\ ~IsFull(payload) => sending'[p] = [sending[p] EXCEPT !.at = "push"]
  BY <1>0 DEF TypedSending
<1>2. /\ sending'[p] \in Sends /\ sending'[p].at # "check"
      /\ sending'[p].at = "push" => ~IsFull(payload)
      /\ sending'[p].at # "idle" => sending'[p].what = sending[p].what
  BY <1>1 DEF Sends, Idle, ToPayload
<1>3. TypeOK'
  <2>1. sending' \in [Producers -> Sends]
    BY <1>0, <1>2 DEF TypedSending
  <2>2. left' \in [Handlers -> 0..Copies]
    BY <1>0, CopiesAssumption DEF TypedSending
  <2> QED
    BY <1>0, <2>1, <2>2, TypeParts DEF TypedQueues, TypedThreads, TypedSending, TypedLog
<1>4. Phases' /\ Inbox'
  BY InboxStays DEF IInv, Phases
<1>5. Outbox'
  <2> SUFFICES ASSUME worker = "none" PROVE Outbox'
    BY DEF Outbox
  <2>1. p \notin Handlers /\ p # "worker" /\ p \in {"spam", "main"}
    BY <1>1 DEF IInv, Outbox, Producers
  <2>2. left' = left /\ \A h \in Handlers : sending'[h] = sending[h]
    BY <1>1, <2>1, Names
  <2>3. payload.num < Capacity \/ IsFull(payload)
    <3>1. payload.num \in Nat /\ payload.num <= Capacity
      BY <1>0, Sizes DEF TypedQueues, QueueOf, IInv, Outbox, Consumer, Ring
    <3> QED
      BY <3>1, Sizes DEF IsFull
  <2>4. sending'["worker"].at = "idle"
    BY <1>1, <2>1, Names DEF IInv, Outbox
  <2>5. \A r \in {"spam", "main"} : sending'[r].at = "push" => payload.num < Capacity
    BY <1>1, <1>2, <2>3, Names DEF IInv, Outbox
  <2>6. \A r \in {"spam", "main"} :
          sending'[r].at # "idle" => sending[r].at # "idle" /\ sending'[r].what = sending[r].what
    BY <1>1, <1>2, Names
  <2> QED
    BY <2>2, <2>4, <2>5, <2>6 DEF IInv, Outbox, NoAck
<1> QED
  BY <1>3, <1>4, <1>5 DEF IInv

\* A packet that arrives where there is room for it, by the mock's push or as a datagram.
LEMMA ArrivalKeepsInv ==
    ASSUME IInv, NEW p \in Producers, sending[p].at # "idle",
           worker = "none" => payload.num < Capacity,
           payload' = Pushed(payload, sending[p].what),
           sending' = [sending EXCEPT ![p] = Idle],
           UNCHANGED <<socket, obc, main, spam, worker, stopSpam, stopWorker, recvVars, peerVars,
                       left, history>>
    PROVE  IInv'
<1> USE DEF recvVars, peerVars, history
<1>0. TypedQueues /\ TypedThreads /\ TypedSending /\ TypedLog
  BY TypeParts DEF IInv
<1> DEFINE what == sending[p].what
<1>1. /\ sending[p].at # "idle" /\ what \in ToPayload /\ payload' = Pushed(payload, what)
      /\ sending'[p] = Idle /\ Idle.at = "idle"
      /\ \A r \in Producers : r # p => sending'[r] = sending[r]
  BY <1>0 DEF TypedSending, Sends, Idle
<1>2. TypeOK'
  <2>1. sending' \in [Producers -> Sends]
    BY <1>0 DEF TypedSending, Sends, Idle, ToPayload
  <2>2. payload' \in QueueOf(ToPayload)
    BY <1>0, <1>1, QueueTypes DEF TypedQueues
  <2> QED
    BY <1>0, <2>1, <2>2, TypeParts DEF TypedQueues, TypedThreads, TypedSending, TypedLog
<1>3. Phases' /\ Inbox'
  BY InboxStays DEF IInv, Phases
<1>4. Outbox'
  <2> SUFFICES ASSUME worker = "none" PROVE Outbox'
    BY DEF Outbox
  <2>1. p \notin Handlers /\ p # "worker" /\ p \in {"spam", "main"}
    BY <1>1 DEF IInv, Outbox, Producers
  <2>2. \A h \in Handlers : sending'[h] = sending[h]
    BY <1>1, <2>1, Names
  <2>3. payload.num < Capacity /\ Consumer(payload, peer) /\ peer \in {"begin", "sleep", "pop"}
    BY <1>0, <1>1, <2>1 DEF IInv, Outbox, TypedThreads
  <2>4. Consumer(payload', peer)
    BY <1>0, <1>1, <2>3, ConsumerSteps DEF TypedQueues
  <2>5. /\ payload'.num = payload.num + 1 /\ payload.num \in Nat
        /\ \A i \in 1..payload.num : Contents(payload')[i] = Contents(payload)[i]
        /\ Contents(payload')[payload.num + 1] = what
    <3>1. Ring(payload) /\ payload \in QueueOf(ToPayload)
      BY <1>0, <2>3 DEF TypedQueues, Consumer
    <3>2. payload.num \in Nat
      BY <3>1, Sizes DEF QueueOf
    <3> HIDE DEF what
    <3> QED
      BY <1>1, <2>3, <3>1, <3>2, PushKeepsRing
  <2>6. sending'["worker"].at = "idle"
    BY <1>1, <2>1, Names DEF IInv, Outbox
  <2>7. CASE p = "spam"
    <3>1. spam = "sleep" /\ what = "reset" /\ main # "ack"
      BY <1>1, <2>7 DEF IInv, Outbox
    <3>2. sending["main"].at = "idle" /\ NoAck
      BY <3>1 DEF IInv, Outbox
    <3>3. NoAck'
      BY <2>5, <3>1, <3>2 DEF NoAck
    <3>4. sending'["main"] = sending["main"] /\ sending'["spam"].at = "idle"
      BY <1>1, <2>7, Names
    <3> QED
      BY <2>2, <2>4, <2>6, <3>1, <3>2, <3>3, <3>4 DEF IInv, Outbox
  <2>8. CASE p = "main"
    <3>1. main = "ack" /\ spam = "gone" /\ NoAck /\ what = "ack"
      BY <1>1, <2>8 DEF IInv, Outbox
    <3>2. sending'["spam"].at = "idle" /\ sending'["main"].at = "idle"
      BY <1>1, <2>8, <3>1, Names DEF IInv, Outbox
    <3>3. \A i \in 1..payload'.num : Contents(payload')[i] = "ack" => i = payload'.num
      BY <2>5, <3>1 DEF NoAck
    <3> QED
      BY <2>2, <2>4, <2>6, <3>1, <3>2, <3>3 DEF IInv, Outbox
  <2> QED
    BY <2>1, <2>7, <2>8
<1> QED
  BY <1>2, <1>3, <1>4 DEF IInv

LEMMA PushKeepsInv ==
    ASSUME IInv, NEW p \in Producers, Push(p) PROVE IInv'
<1>1. sending[p].at = "push" /\ "push" # "idle"
  BY DEF Push
<1>2. worker = "none" => payload.num < Capacity
  <2> SUFFICES ASSUME worker = "none" PROVE payload.num < Capacity
    OBVIOUS
  <2>1. p \in {"spam", "main"}
    BY <1>1 DEF IInv, Outbox, Producers
  <2> QED
    BY <1>1, <2>1 DEF IInv, Outbox
<1> QED
  BY <1>1, <1>2, ArrivalKeepsInv DEF Push

\* A datagram arrives, or is lost and the queue is as it was.
LEMMA DatagramKeepsInv ==
    ASSUME IInv, NEW p \in Producers, SendDatagram(p) PROVE IInv'
<1>0. TypedQueues /\ TypedThreads /\ TypedSending /\ TypedLog
  BY TypeParts DEF IInv
<1>1. /\ sending[p].at = "check" /\ "check" # "idle" /\ sending' = [sending EXCEPT ![p] = Idle]
      /\ UNCHANGED <<socket, obc, main, spam, worker, stopSpam, stopWorker, recvVars, peerVars,
                     left, history>>
  BY DEF SendDatagram
<1>2. CASE payload' = Pushed(payload, sending[p].what) /\ ~IsFull(payload)
  <2>1. worker = "none" => payload.num < Capacity
    <3> SUFFICES ASSUME worker = "none" PROVE payload.num < Capacity
      OBVIOUS
    <3>1. payload.num \in Nat /\ payload.num <= Capacity
      BY <1>0, Sizes DEF TypedQueues, QueueOf, IInv, Outbox, Consumer, Ring
    <3> QED
      BY <1>2, <3>1, Sizes DEF IsFull
  <2> QED
    BY <1>1, <1>2, <2>1, ArrivalKeepsInv
<1>3. CASE payload' = payload
  <2> USE DEF recvVars, peerVars, history
  <2>1. sending' \in [Producers -> Sends] /\ sending'[p].at = "idle"
        /\ \A r \in Producers : r # p => sending'[r] = sending[r]
    BY <1>0, <1>1 DEF TypedSending, Sends, Idle, ToPayload
  <2>2. TypeOK'
    BY <1>0, <1>1, <1>3, <2>1, TypeParts DEF TypedQueues, TypedThreads, TypedSending, TypedLog
  <2>3. Phases' /\ Inbox'
    BY <1>1, InboxStays DEF IInv, Phases
  <2>4. Outbox'
    <3>1. \A r \in Producers : sending'[r].at = "idle" \/ sending'[r] = sending[r]
      BY <2>1
    <3> QED
      BY <1>1, <1>3, <3>1, Names DEF IInv, Outbox, NoAck
  <2> QED
    BY <2>2, <2>3, <2>4 DEF IInv
<1> QED
  BY <1>2, <1>3 DEF SendDatagram

\* A handler sends when the handshake is over.
LEMMA HandlerKeepsInv ==
    ASSUME IInv, NEW h \in Handlers, SendBegin(h) \/ SendCopy(h) PROVE IInv'
<1> USE DEF SendBegin, SendCopy, Begin, recvVars, peerVars, history
<1>0. TypedQueues /\ TypedThreads /\ TypedSending /\ TypedLog
  BY TypeParts DEF IInv
<1>1. /\ sending' \in [Producers -> Sends] /\ left' \in [Handlers -> 0..Copies]
  <2>1. [at |-> "check", what |-> "data"] \in Sends
    BY DEF Sends, ToPayload
  <2>2. Copies - 1 \in 0..Copies /\ (left[h] > 0 => left[h] - 1 \in 0..Copies)
    BY <1>0, CopiesAssumption DEF TypedSending
  <2> QED
    BY <1>0, <2>1, <2>2, Names DEF TypedSending
<1>2. TypeOK'
  BY <1>0, <1>1, TypeParts DEF TypedQueues, TypedThreads, TypedSending, TypedLog
<1>3. worker # "none"
  BY DEF IInv, Phases, Outbox
<1> QED
  BY <1>2, <1>3, InboxStays DEF IInv, Phases, Outbox

-------------------------------------------------------------------------------
(* The payloads. *)

LEMMA PeerSendKeepsInv ==
    ASSUME IInv, NEW what \in FromPayload \ {"zero"}, PeerSend(what) PROVE IInv'
<1> USE DEF PeerSend, recvVars, peerVars, history
<1>0. TypedQueues /\ TypedThreads /\ TypedSending /\ TypedLog
  BY TypeParts DEF IInv
<1>1. obc \in QueueOf(FromPayload) /\ obc.num \in Nat /\ what \in FromPayload
  BY <1>0, Sizes DEF TypedQueues, QueueOf
<1>2. obc' \in QueueOf(FromPayload)
  BY <1>1, QueueTypes
<1>3. sent' \in Seq(FromPayload) /\ Len(sent') = Len(sent) + 1 /\ Len(sent) \in Nat
  BY <1>0, <1>1 DEF TypedLog
<1>4. TypeOK'
  <2>1. Len(sent') <= MaxSent
    BY <1>3, MaxSentAssumption
  <2> QED
    BY <1>0, <1>2, <1>3, <2>1, TypeParts DEF TypedQueues, TypedThreads, TypedSending, TypedLog
<1>5. Inbox'
  <2> SUFFICES ASSUME ~stopWorker
               PROVE  /\ Consumer(obc', recv) /\ obc'.num <= Len(sent')
                      /\ \A i \in 1..obc'.num : Contents(obc')[i] \in Real
    BY DEF IInv, Inbox
  <2>1. Consumer(obc, recv) /\ Ring(obc) /\ obc.num <= Len(sent)
    BY DEF IInv, Inbox, Consumer
  <2>2. obc.num < Capacity
    BY <1>1, <2>1, Sizes DEF Ring, IsFull
  <2>3. Consumer(obc', recv)
    BY <1>0, <1>1, <2>1, <2>2, ConsumerSteps DEF TypedThreads
  <2>4. /\ obc'.num = obc.num + 1
        /\ \A i \in 1..obc.num : Contents(obc')[i] = Contents(obc)[i]
        /\ Contents(obc')[obc.num + 1] = what
    BY <1>1, <2>1, <2>2, PushKeepsRing
  <2>5. what \in Real /\ \A i \in 1..obc.num : Contents(obc)[i] \in Real
    BY DEF IInv, Inbox, Real
  <2>6. obc'.num <= Len(sent')
    BY <1>1, <1>3, <2>1, <2>4
  <2>7. ASSUME NEW i \in 1..obc'.num PROVE Contents(obc')[i] \in Real
    <3>1. i \in 1..obc.num \/ i = obc.num + 1
      BY <1>1, <2>4
    <3>2. CASE i \in 1..obc.num
      BY <2>4, <2>5, <3>2
    <3>3. CASE i = obc.num + 1
      BY <2>4, <2>5, <3>3
    <3> QED
      BY <3>1, <3>2, <3>3
  <2> QED
    BY <2>3, <2>6, <2>7
<1> QED
  BY <1>4, <1>5, OutboxStays DEF IInv, Phases

LEMMA PeerReceiveKeepsInv ==
    ASSUME IInv, PeerReceive PROVE IInv'
<1> USE DEF PeerReceive, recvVars, peerVars, history
<1>0. TypedQueues /\ TypedThreads /\ TypedSending /\ TypedLog
  BY TypeParts DEF IInv
<1>1. payload \in QueueOf(ToPayload) /\ payload.num \in Nat /\ "zero" \in ToPayload
  BY <1>0, Sizes DEF TypedQueues, QueueOf, ToPayload
<1>2. payload' \in QueueOf(ToPayload) /\ peer' \in {"begin", "sleep", "pop"}
  BY <1>1, QueueTypes
<1>3. TypeOK'
  BY <1>0, <1>2, TypeParts DEF TypedQueues, TypedThreads, TypedSending, TypedLog
<1>4. Phases' /\ Inbox'
  BY InboxStays DEF IInv, Phases
<1>5. Outbox'
  <2> SUFFICES ASSUME worker = "none" PROVE Outbox'
    BY DEF Outbox
  <2>1. Consumer(payload, peer)
    BY DEF IInv, Outbox
  <2>2. Consumer(payload', peer')
    BY <1>1, <2>1, ConsumerSteps
  <2>3. CASE peer = "pop"
    <3>1. Ring(payload) /\ payload.num >= 1 /\ payload' = Popped(payload)
      BY <2>1, <2>3 DEF Consumer
    <3>2. /\ payload'.num = payload.num - 1
          /\ \A i \in 1..(payload.num - 1) : Contents(payload')[i] = Contents(payload)[i + 1]
      BY <1>1, <3>1, PopKeepsRing
    <3>3. \A i \in 1..payload'.num : /\ Contents(payload')[i] = Contents(payload)[i + 1]
                                    /\ i + 1 \in 1..payload.num
      BY <1>1, <3>2
    <3>4. NoAck => NoAck'
      BY <3>3 DEF NoAck
    <3>5. main = "ack" => \A i \in 1..payload'.num : Contents(payload')[i] = "ack" => i = payload'.num
      <4>1. ASSUME main = "ack", NEW i \in 1..payload'.num, Contents(payload')[i] = "ack"
            PROVE  i = payload'.num
        <5>1. i + 1 = payload.num
          BY <3>3, <4>1 DEF IInv, Outbox
        <5> QED
          BY <1>1, <3>2, <5>1
      <4> QED
        BY <4>1
    <3>6. payload.num < Capacity => payload'.num < Capacity
      BY <1>1, <3>2, Sizes
    <3> QED
      BY <2>2, <3>4, <3>5, <3>6 DEF IInv, Outbox
  <2>4. CASE peer # "pop"
    <3>1. /\ payload'.num = payload.num /\ payload'.arr = payload.arr
          /\ payload'.front = payload.front
      BY <1>1, <2>4 DEF Waiting, Woken, QueueOf
    <3>2. Contents(payload') = Contents(payload)
      BY <3>1 DEF Contents
    <3>3. NoAck => NoAck'
      BY <3>1, <3>2 DEF NoAck
    <3> QED
      BY <2>2, <3>1, <3>2, <3>3 DEF IInv, Outbox
  <2> QED
    BY <2>3, <2>4
<1> QED
  BY <1>3, <1>4, <1>5 DEF IInv

-------------------------------------------------------------------------------
(* The client's receive. *)

LEMMA ReceivingKeepsInv ==
    ASSUME IInv, RecvBegin \/ RecvWake \/ RecvPop PROVE IInv'
<1> USE DEF RecvBegin, RecvWake, RecvPop, Receiving, recvVars, peerVars, history
<1>0. TypedQueues /\ TypedThreads /\ TypedSending /\ TypedLog
  BY TypeParts DEF IInv
<1>1. obc \in QueueOf(FromPayload) /\ obc.num \in Nat /\ "zero" \in FromPayload
  BY <1>0, Sizes DEF TypedQueues, QueueOf, FromPayload, ForUser
<1>2. /\ obc' \in QueueOf(FromPayload) /\ recv' \in {"begin", "sleep", "pop", "done"}
      /\ packet' \in FromPayload
  BY <1>0, <1>1, QueueTypes DEF TypedThreads
<1>3. TypeOK'
  BY <1>0, <1>2, TypeParts DEF TypedQueues, TypedThreads, TypedSending, TypedLog
<1>4. Phases'
  BY DEF IInv, Phases
<1>5. Outbox'
  BY OutboxStays DEF IInv
<1>6. Inbox'
  <2> SUFFICES ASSUME ~stopWorker
               PROVE  /\ Consumer(obc', recv') /\ obc'.num <= Len(sent)
                      /\ \A i \in 1..obc'.num : Contents(obc')[i] \in Real
                      /\ recv' = "done" => packet' \in Real
    BY DEF IInv, Inbox
  <2>1. /\ Consumer(obc, recv) /\ obc.num <= Len(sent) /\ Len(sent) \in Nat
        /\ \A i \in 1..obc.num : Contents(obc)[i] \in Real
    BY <1>0 DEF IInv, Inbox, TypedLog
  <2>2. Consumer(obc', recv')
    BY <1>1, <2>1, ConsumerSteps
  <2>3. CASE RecvPop
    <3>1. Ring(obc) /\ obc.num >= 1
      BY <2>1, <2>3 DEF Consumer
    <3>2. /\ obc'.num = obc.num - 1 /\ packet' = Contents(obc)[1]
          /\ \A i \in 1..(obc.num - 1) : Contents(obc')[i] = Contents(obc)[i + 1]
      BY <1>1, <2>3, <3>1, PopKeepsRing
    <3>3. 1 \in 1..obc.num /\ obc'.num <= Len(sent)
          /\ \A i \in 1..obc'.num : i \in 1..(obc.num - 1) /\ i + 1 \in 1..obc.num
      BY <1>1, <2>1, <3>1, <3>2
    <3> QED
      BY <2>1, <2>2, <3>2, <3>3
  <2>4. CASE RecvBegin \/ RecvWake
    <3>1. obc'.num = obc.num /\ obc'.arr = obc.arr /\ obc'.front = obc.front /\ recv' # "done"
      BY <1>1, <2>4 DEF Waiting, Woken, QueueOf
    <3>2. Contents(obc') = Contents(obc)
      BY <3>1 DEF Contents
    <3> QED
      BY <2>1, <2>2, <3>1, <3>2
  <2> QED
    BY <2>3, <2>4
<1> QED
  BY <1>3, <1>4, <1>5, <1>6 DEF IInv

\* The packet of a recvfrom that fails is no packet; stop_worker is set by then.
LEMMA RecvFailsKeepsInv ==
    ASSUME IInv, RecvFails PROVE IInv'
<1> USE DEF RecvFails, Receiving, recvVars, peerVars, history
<1>0. TypedQueues /\ TypedThreads /\ TypedSending /\ TypedLog
  BY TypeParts DEF IInv
<1>1. packet' \in FromPayload
  BY DEF FromPayload, ForUser
<1>2. TypeOK'
  BY <1>0, <1>1, TypeParts DEF TypedQueues, TypedThreads, TypedSending, TypedLog
<1>3. Phases' /\ stopWorker
  BY DEF IInv, Phases, Closed
<1>4. Outbox'
  BY OutboxStays DEF IInv
<1>5. Inbox'
  BY <1>3 DEF IInv, Inbox
<1> QED
  BY <1>2, <1>3, <1>4, <1>5 DEF IInv

-------------------------------------------------------------------------------
(* The handshake. *)

LEMMA SpamKeepsInv ==
    ASSUME IInv, Spam PROVE IInv'
<1> USE DEF SpamReset, SpamWakes, Begin, recvVars, peerVars, history
<1>0. TypedQueues /\ TypedThreads /\ TypedSending /\ TypedLog
  BY TypeParts DEF IInv
<1>1. sending' \in [Producers -> Sends] /\ spam' \in {"send", "sleep", "gone"}
  <2>1. [at |-> "check", what |-> "reset"] \in Sends
    BY DEF Sends, ToPayload
  <2> QED
    BY <1>0, <2>1 DEF Spam, TypedSending, TypedThreads
<1>2. TypeOK'
  BY <1>0, <1>1, TypeParts DEF Spam, TypedQueues, TypedThreads, TypedSending, TypedLog
<1>3. Phases' /\ Inbox'
  BY InboxStays DEF Spam, IInv, Phases
<1>4. Outbox'
  <2>1. \A p \in Producers : p # "spam" => sending'[p] = sending[p]
    BY <1>0 DEF Spam, TypedSending
  <2>2. /\ spam' # "gone" => sending'["spam"].at # "push"
        /\ sending'["spam"].at # "idle" => spam' = "sleep" /\ sending'["spam"].what = "reset"
        /\ spam # "gone"
    BY <1>0, Names DEF Spam, TypedSending
  <2>3. sending'["spam"].at # "push"
    BY <1>0, Names DEF Spam, TypedSending
  <2>4. UNCHANGED <<payload, peer, left, main, worker>>
    BY DEF Spam
  <2>5. /\ \A h \in Handlers : sending'[h] = sending[h]
        /\ sending'["worker"] = sending["worker"] /\ sending'["main"] = sending["main"]
    BY <2>1, Names
  <2> QED
    BY <2>2, <2>3, <2>4, <2>5 DEF IInv, Outbox, NoAck
<1> QED
  BY <1>2, <1>3, <1>4 DEF IInv

LEMMA HandshakeKeepsInv ==
    ASSUME IInv, SetupPacket \/ Acknowledge \/ StartWorker PROVE IInv'
<1> USE DEF SetupPacket, Acknowledge, StartWorker, SpamJoined, Begin, recvVars, peerVars, history
<1>0. TypedQueues /\ TypedThreads /\ TypedSending /\ TypedLog
  BY TypeParts DEF IInv
<1>1. CASE SetupPacket
  <2>1. ~stopWorker /\ worker = "none"
    BY <1>1 DEF IInv, Phases
  <2>2. setup' \in 0..MaxSent
    <3>1. obc.num \in Nat /\ obc.num <= Len(sent) /\ Len(sent) \in Nat /\ Len(sent) <= MaxSent
      BY <1>0, <2>1, Sizes DEF IInv, Inbox, TypedQueues, QueueOf, TypedLog
    <3> QED
      BY <1>0, <1>1, <3>1, MaxSentAssumption DEF TypedLog
  <2>3. TypeOK'
    BY <1>0, <1>1, <2>2, TypeParts DEF TypedQueues, TypedThreads, TypedSending, TypedLog
  <2>4. Phases'
    BY <1>1, <2>1 DEF IInv, Phases
  <2>5. Inbox'
    BY <1>1 DEF IInv, Inbox, Consumer
  <2>6. Outbox'
    BY <1>1, OutboxStays DEF IInv
  <2> QED
    BY <2>3, <2>4, <2>5, <2>6 DEF IInv
<1>2. CASE Acknowledge
  <2>1. /\ [at |-> "check", what |-> "ack"] \in Sends
        /\ \A p \in Producers : p # "main" => sending'[p] = sending[p]
        /\ sending'["main"] = [at |-> "check", what |-> "ack"]
    BY <1>0, <1>2, Names DEF Sends, ToPayload, TypedSending
  <2>2. TypeOK'
    BY <1>0, <1>2, <2>1, TypeParts DEF TypedQueues, TypedThreads, TypedSending, TypedLog
  <2>3. Phases' /\ Inbox'
    BY <1>2, InboxStays DEF IInv, Phases
  <2>4. Outbox'
    <3>1. /\ \A h \in Handlers : sending'[h] = sending[h]
          /\ sending'["worker"] = sending["worker"] /\ sending'["spam"] = sending["spam"]
      BY <2>1, Names
    <3>2. worker = "none" => NoAck /\ sending["spam"].at = "idle"
      BY <1>2 DEF IInv, Outbox
    <3> QED
      BY <1>2, <2>1, <3>1, <3>2 DEF IInv, Outbox, NoAck
  <2> QED
    BY <2>2, <2>3, <2>4 DEF IInv
<1>3. CASE StartWorker
  <2>1. TypeOK'
    BY <1>0, <1>3, TypeParts DEF TypedQueues, TypedThreads, TypedSending, TypedLog
  <2>2. Inbox'
    BY <1>3, InboxStays DEF IInv
  <2> QED
    BY <1>3, <2>1, <2>2 DEF IInv, Phases, Outbox
<1> QED
  BY <1>1, <1>2, <1>3

-------------------------------------------------------------------------------
(* The receive thread, receive() and the destructor. *)

LEMMA WorkerKeepsInv ==
    ASSUME IInv, WorkerPacket \/ WorkerAcked PROVE IInv'
<1> USE DEF WorkerPacket, WorkerAcked, Begin, Queued, recvVars, peerVars, history
<1>0. TypedQueues /\ TypedThreads /\ TypedSending /\ TypedLog
  BY TypeParts DEF IInv
<1>1. sending' \in [Producers -> Sends]
  <2>1. [at |-> "check", what |-> "ack"] \in Sends
    BY DEF Sends, ToPayload
  <2> QED
    BY <1>0, <2>1 DEF TypedSending
<1>2. packet \in ForUser /\ packet \in Real => packet \in Others
  BY DEF Real, ForUser
<1>3. recvQueue' \in Seq(Others) /\ recvQueue' \in Seq(ForUser)
  <2>1. recvQueue \in Seq(Others) /\ recvQueue \in Seq(ForUser) /\ Others \subseteq ForUser
    BY <1>0 DEF IInv, Inbox, TypedLog, ForUser
  <2>2. recv = "done" /\ ~stopWorker => packet \in Real
    BY DEF IInv, Inbox
  <2> QED
    BY <1>2, <2>1, <2>2
<1>4. TypeOK'
  BY <1>0, <1>1, <1>3, TypeParts DEF TypedQueues, TypedThreads, TypedSending, TypedLog
<1>5. Phases' /\ worker' # "none"
  BY DEF IInv, Phases
<1>6. Inbox'
  BY <1>3 DEF IInv, Phases, Inbox, Consumer
<1> QED
  BY <1>4, <1>5, <1>6 DEF IInv, Outbox

LEMMA ReceiveKeepsInv ==
    ASSUME IInv, Receive PROVE IInv'
<1> USE DEF Receive, recvVars, peerVars, history
<1>0. TypedQueues /\ TypedThreads /\ TypedSending /\ TypedLog
  BY TypeParts DEF IInv
<1>1. /\ recvQueue' \in Seq(Others) /\ handed' \in Seq(Others) /\ recvQueue' \in Seq(ForUser)
  <2>1. recvQueue \in Seq(Others) /\ handed \in Seq(Others) /\ recvQueue \in Seq(ForUser)
    BY <1>0 DEF IInv, Inbox, TypedLog
  <2>2. Head(recvQueue) \in Others
    BY <2>1
  <2> QED
    BY <2>1, <2>2
<1>2. TypeOK'
  BY <1>0, <1>1, TypeParts DEF TypedQueues, TypedThreads, TypedSending, TypedLog
<1>3. Phases' /\ Outbox'
  BY OutboxStays DEF IInv, Phases
<1>4. Inbox'
  BY <1>1 DEF IInv, Inbox
<1> QED
  BY <1>2, <1>3, <1>4 DEF IInv

LEMMA DestructorKeepsInv ==
    ASSUME IInv, Destroy \/ CloseSocket \/ WorkerJoined PROVE IInv'
<1> USE DEF Destroy, StopBeforeClose, CloseSocket, WorkerJoined, recvVars, peerVars, history
<1>0. TypedQueues /\ TypedThreads /\ TypedSending /\ TypedLog
  BY TypeParts DEF IInv
<1>1. TypedQueues'
  <2>1. "zero" \in FromPayload /\ "zero" \in ToPayload
    BY DEF FromPayload, ForUser, ToPayload
  <2> QED
    BY <1>0, <2>1, QueueTypes DEF TypedQueues
<1>2. TypeOK'
  BY <1>0, <1>1, TypeParts DEF TypedThreads, TypedSending, TypedLog
<1>3. Phases' /\ worker' # "none" /\ stopWorker'
  BY DEF IInv, Phases
<1>4. Inbox'
  BY <1>3 DEF IInv, Inbox
<1> QED
  BY <1>2, <1>3, <1>4 DEF IInv, Outbox

-------------------------------------------------------------------------------
LEMMA NextKeepsInv == IInv /\ [Next]_vars => IInv'
<1> SUFFICES ASSUME IInv, [Next]_vars PROVE IInv'
  OBVIOUS
<1>1. CASE Client
  BY <1>1, ReceivingKeepsInv, RecvFailsKeepsInv, HandshakeKeepsInv, WorkerKeepsInv,
     DestructorKeepsInv DEF Client
<1>2. CASE Spam
  BY <1>2, SpamKeepsInv
<1>3. CASE Send
  BY <1>3, CheckedKeepsInv, PushKeepsInv, DatagramKeepsInv DEF Send, SendStep
<1>4. CASE Receive \/ Destroy
  BY <1>4, ReceiveKeepsInv, DestructorKeepsInv
<1>5. CASE \E h \in Handlers : SendBegin(h) \/ SendCopy(h)
  BY <1>5, HandlerKeepsInv
<1>6. CASE \E what \in FromPayload \ {"zero"} : PeerSend(what)
  BY <1>6, PeerSendKeepsInv
<1>7. CASE PeerReceive
  BY <1>7, PeerReceiveKeepsInv
<1>8. CASE UNCHANGED vars
  <2>1. TypeOK' /\ Phases' /\ Inbox' /\ Outbox'
    BY <1>8, TypeParts, InboxStays, OutboxStays
    DEF IInv, vars, recvVars, peerVars, history, Phases, TypedQueues, TypedThreads, TypedSending,
        TypedLog
  <2> QED
    BY <2>1 DEF IInv
<1> QED
  BY <1>1, <1>2, <1>3, <1>4, <1>5, <1>6, <1>7, <1>8 DEF Next

(* The strengthened invariant: the two queues' books, and what may lie in them at which phase. *)
THEOREM Inductive == Spec => []IInv
BY InitInv, NextKeepsInv, PTL DEF Spec

(* Every variable has its type; above all receive() returns only packets of the payloads, never
   what the ring held before, which the post that closes the socket makes the thread read. *)
THEOREM TypeCorrect == Spec => []TypeOK
<1>1. IInv => TypeOK
  BY DEF IInv
<1> QED
  BY <1>1, Inductive, PTL

(* In the packets to the payloads no reset is behind the acknowledgement, however long the
   resets wait for the full queue and whenever the handshake ends. *)
THEOREM NoResetFollowsAck == Spec => []NoResetAfterAck
<1>1. IInv => NoResetAfterAck
  <2> SUFFICES ASSUME IInv, worker = "none",
                      NEW i \in DOMAIN Contents(payload), NEW j \in DOMAIN Contents(payload),
                      Contents(payload)[i] = "ack", i < j
               PROVE  FALSE
    BY DEF NoResetAfterAck
  <2>1. i \in 1..payload.num /\ j \in 1..payload.num /\ payload.num \in Nat
    BY Sizes DEF Contents, IInv, TypeOK, QueueOf
  <2>2. i = payload.num
    BY <2>1 DEF IInv, Outbox, NoAck
  <2> QED
    BY <2>1, <2>2
<1> QED
  BY <1>1, Inductive, PTL
-------------------------------------------------------------------------------
(* What Taken keeps of a sequence.                                         *)

\* Induction: the least number for which something does not hold.
LEMMA LeastElement ==
    ASSUME NEW T, T \subseteq Nat, T # {}
    PROVE  \E n \in T : \A m \in T : n <= m
<1>1. PICK top \in T : TRUE
  OBVIOUS
<1> DEFINE Initials == {0..n : n \in T \intersect 0..top}
           R == StrictSubsetOrdering(0..top)
<1>2. IsWellFoundedOn(R, SUBSET (0..top))
  <2>1. IsFiniteSet(0..top)
    BY <1>1, FS_Interval
  <2> QED
    BY <2>1, FS_StrictSubsetOrderingWellFounded, FS_FiniteSubsetsOfFinite
<1>3. Initials \subseteq SUBSET (0..top) /\ Initials # {}
  <2>1. \A n \in 0..top : 0..n \subseteq 0..top
    BY <1>1
  <2>2. top \in 0..top
    BY <1>1
  <2> QED
    BY <1>1, <2>1, <2>2
<1>4. PICK b \in Initials : \A c \in Initials : ~(<<c, b>> \in R)
  <2> HIDE DEF Initials, R
  <2> QED
    BY <1>2, <1>3, WFMin, Zenon
<1>5. PICK n \in T \intersect 0..top : b = 0..n
  OBVIOUS
<1>6. ASSUME NEW m \in T, ~(n <= m) PROVE FALSE
  <2>1. m \in 0..top /\ 0..m \subseteq 0..n /\ n \in 0..n /\ n \notin 0..m /\ 0..n \subseteq 0..top
    BY <1>1, <1>6, SMT
  <2>2. 0..m \in Initials /\ <<0..m, b>> \in R
    BY <1>5, <2>1 DEF StrictSubsetOrdering
  <2> QED
    BY <1>4, <2>2
<1> QED
  BY <1>6

\* The first N sequences put together, step by step.
Joins(f, N, seqs) == f = [i \in 1..N |-> IF i = 1 THEN seqs[i] ELSE f[i - 1] \o seqs[i]]

LEMMA JoinsExist ==
    ASSUME NEW N \in Nat, NEW seqs PROVE \E f : Joins(f, N, seqs)
<1> DEFINE T == {n \in 0..N : ~\E f : Joins(f, n, seqs)}
<1>1. ASSUME T # {} PROVE FALSE
  <2>1. PICK n \in T : \A m \in T : n <= m
    <3>1. T \subseteq 0..N
      BY Zenon
    <3> HIDE DEF T
    <3>2. T \subseteq Nat
      BY <3>1
    <3> QED
      BY <3>2, <1>1, LeastElement
  <2>2. n # 0
    <3> DEFINE f == [i \in 1..0 |-> 0]
    <3>1. 1..0 = {}
      BY SMT
    <3>2. Joins(f, 0, seqs)
      BY <3>1 DEF Joins
    <3> HIDE DEF f
    <3> QED
      BY <2>1, <3>2
  <2>3. n - 1 \in 0..N /\ n \in 1..N /\ ~(n <= n - 1) /\ n - 1 \in Nat
    BY <2>1, <2>2, SMT
  <2>4. PICK f : Joins(f, n - 1, seqs)
    <3>1. n - 1 \notin T
      BY <2>1, <2>3, Zenon
    <3> QED
      BY <2>3, <3>1, Zenon
  <2> DEFINE g == [i \in 1..n |-> IF i = n THEN IF n = 1 THEN seqs[n] ELSE f[n - 1] \o seqs[n] ELSE f[i]]
  <2>5. ASSUME NEW i \in 1..n PROVE g[i] = IF i = 1 THEN seqs[i] ELSE g[i - 1] \o seqs[i]
    <3>1. CASE i = n
      <4>1. i # 1 => n - 1 \in 1..n /\ n - 1 # n
        BY <2>3, <3>1, SMT
      <4> QED
        BY <3>1, <4>1
    <3>2. CASE i # n
      <4>1. i \in 1..(n - 1) /\ (i # 1 => i - 1 \in 1..n /\ i - 1 # n)
        BY <2>3, <3>2, SMT
      <4>2. f[i] = IF i = 1 THEN seqs[i] ELSE f[i - 1] \o seqs[i]
        BY <2>4, <4>1 DEF Joins
      <4>3. g[i] = f[i] /\ (i # 1 => g[i - 1] = f[i - 1])
        BY <3>2, <4>1
      <4> QED
        BY <4>2, <4>3
    <3> QED
      BY <3>1, <3>2
  <2>6. Joins(g, n, seqs)
    BY <2>5 DEF Joins
  <2> HIDE DEF g
  <2> QED
    BY <2>1, <2>6
<1>2. N \in 0..N /\ ~(N \in T)
  BY <1>1
<1> QED
  BY <1>2

LEMMA FlattenJoins ==
    ASSUME NEW seqs, Len(seqs) \in Nat \ {0}
    PROVE  \E f : Joins(f, Len(seqs), seqs) /\ FlattenSeq(seqs) = f[Len(seqs)]
<1> DEFINE Body(f) == [i \in 1..Len(seqs) |-> IF i = 1 THEN seqs[i] ELSE f[i - 1] \o seqs[i]]
           flat == CHOOSE f : f = Body(f)
<1>1. FlattenSeq(seqs) = flat[Len(seqs)]
  BY DEF FlattenSeq
<1>2. flat = Body(flat)
  <2>1. \E f : f = Body(f)
    BY JoinsExist DEF Joins
  <2> HIDE DEF Body
  <2> QED
    BY <2>1
<1>3. Joins(flat, Len(seqs), seqs)
  <2> HIDE DEF flat
  <2> QED
    BY <1>2 DEF Joins
<1> HIDE DEF flat
<1> QED
  BY <1>1, <1>3

\* Two that join the same sequences agree as far as both go.
LEMMA JoinsAgree ==
    ASSUME NEW n \in Nat, NEW m \in Nat, m <= n, NEW s, NEW t, NEW f, NEW g,
           Joins(f, n, s), Joins(g, m, t), \A i \in 1..m : s[i] = t[i],
           NEW k \in 1..m
    PROVE  f[k] = g[k]
<1> DEFINE T == {i \in 1..m : f[i] # g[i]}
<1>1. ASSUME T # {} PROVE FALSE
  <2>1. PICK i \in T : \A j \in T : i <= j
    <3>1. T \subseteq 1..m
      BY Zenon
    <3> HIDE DEF T
    <3>2. T \subseteq Nat
      BY <3>1
    <3> QED
      BY <3>2, <1>1, LeastElement
  <2>2. i \in 1..m /\ i \in 1..n /\ (i # 1 => i - 1 \in 1..m /\ ~(i <= i - 1))
    BY <2>1, SMT
  <2>3. i # 1 => f[i - 1] = g[i - 1]
    BY <2>1, <2>2
  <2>4. /\ f[i] = IF i = 1 THEN s[i] ELSE f[i - 1] \o s[i]
        /\ g[i] = IF i = 1 THEN t[i] ELSE g[i - 1] \o t[i]
    BY <2>2 DEF Joins
  <2>5. f[i] = g[i]
    BY <2>2, <2>3, <2>4
  <2> QED
    BY <2>1, <2>5
<1> QED
  BY <1>1

\* What is kept of one packet.
One(e) == IF e \in ForUser THEN <<e>> ELSE <<>>

Picks(s) == [i \in DOMAIN s |-> One(s[i])]

LEMMA PicksIs ==
    ASSUME NEW U, NEW s \in Seq(U)
    PROVE  /\ Taken(s) = FlattenSeq(Picks(s)) /\ Len(Picks(s)) = Len(s) /\ Len(s) \in Nat
           /\ DOMAIN Picks(s) = 1..Len(s)
           /\ \A i \in 1..Len(s) : Picks(s)[i] = One(s[i])
           /\ \A i \in 1..Len(s) : Picks(s)[i] \in Seq(ForUser)
<1>1. Taken(s) = FlattenSeq(Picks(s))
  BY DEF Taken, Picks, One
<1>2. Len(s) \in Nat /\ DOMAIN s = 1..Len(s)
  BY SMT
<1>3. \A e : One(e) \in Seq(ForUser)
  BY SMT DEF One
<1>4. DOMAIN Picks(s) = 1..Len(s) /\ \A i \in 1..Len(s) : Picks(s)[i] = One(s[i])
  BY <1>2 DEF Picks
<1>5. Picks(s) \in Seq(Seq(ForUser))
  <2>1. Picks(s) = [i \in 1..Len(s) |-> One(s[i])]
    BY <1>2 DEF Picks
  <2> QED
    BY <1>2, <1>3, <2>1, SMT
<1>6. Len(Picks(s)) = Len(s)
  <2> DEFINE p == Picks(s)
  <2>1. p \in Seq(Seq(ForUser)) /\ DOMAIN p = 1..Len(s)
    BY <1>4, <1>5
  <2> HIDE DEF p
  <2>2. Len(p) = Len(s)
    BY <1>2, <2>1, SMT
  <2> QED
    BY <2>2 DEF p
<1> QED
  BY <1>1, <1>2, <1>3, <1>4, <1>6

LEMMA TakenEmpty == Taken(<<>>) = <<>>
<1>1. <<>> \in Seq({})
  BY SMT
<1>2. Taken(<<>>) = FlattenSeq(Picks(<<>>)) /\ Len(Picks(<<>>)) = Len(<<>>)
  BY <1>1, PicksIs
<1>3. Len(<<>>) = 0 /\ DOMAIN <<>> = {}
  BY SMT
<1>4. Picks(<<>>) = <<>>
  BY <1>3, SMT DEF Picks
<1> QED
  BY <1>2, <1>3, <1>4 DEF FlattenSeq

LEMMA TakenAppend ==
    ASSUME NEW U, NEW s \in Seq(U), NEW e \in U
    PROVE  Taken(Append(s, e)) = IF s = <<>> THEN One(e) ELSE Taken(s) \o One(e)
<1> DEFINE t == Append(s, e)
           n == Len(s)
<1>1. t \in Seq(U) /\ Len(t) = n + 1 /\ n \in Nat /\ t[n + 1] = e /\ (\A i \in 1..n : t[i] = s[i])
      /\ (s = <<>> <=> n = 0) /\ n + 1 \in Nat \ {0} /\ n <= n + 1 /\ n + 1 \in 1..(n + 1)
      /\ 1..n \subseteq 1..(n + 1)
  BY SMT
<1> HIDE DEF t
<1>2. /\ Taken(t) = FlattenSeq(Picks(t)) /\ Len(Picks(t)) = n + 1
      /\ \A i \in 1..(n + 1) : Picks(t)[i] = One(t[i])
  BY <1>1, PicksIs
<1>3. /\ Taken(s) = FlattenSeq(Picks(s)) /\ Len(Picks(s)) = n
      /\ \A i \in 1..n : Picks(s)[i] = One(s[i])
  BY PicksIs
<1> HIDE DEF n
<1>4. PICK f : Joins(f, n + 1, Picks(t)) /\ Taken(t) = f[n + 1]
  BY <1>1, <1>2, FlattenJoins
<1>5. f[n + 1] = IF n + 1 = 1 THEN One(e) ELSE f[(n + 1) - 1] \o One(e)
  BY <1>1, <1>2, <1>4 DEF Joins
<1>6. CASE n = 0
  <2>1. n + 1 = 1
    BY <1>6, SMT
  <2> QED
    BY <1>1, <1>4, <1>5, <1>6, <2>1 DEF t
<1>7. CASE n # 0
  <2>1. n \in Nat \ {0} /\ n + 1 # 1 /\ (n + 1) - 1 = n /\ n \in 1..n
    BY <1>1, <1>7, SMT
  <2>2. PICK g : Joins(g, n, Picks(s)) /\ Taken(s) = g[n]
    BY <1>3, <2>1, FlattenJoins
  <2>3. \A i \in 1..n : Picks(t)[i] = Picks(s)[i]
    BY <1>1, <1>2, <1>3
  <2>4. f[n] = g[n]
    BY <1>1, <1>4, <2>1, <2>2, <2>3, JoinsAgree
  <2> QED
    BY <1>1, <1>4, <1>5, <1>7, <2>1, <2>2, <2>4 DEF t
<1> QED
  BY <1>6, <1>7

LEMMA SameSequence ==
    ASSUME NEW U, NEW s \in Seq(U), NEW t \in Seq(U), Len(s) = Len(t),
           \A i \in 1..Len(s) : s[i] = t[i]
    PROVE  s = t
BY SMT

LEMMA Concats ==
    ASSUME NEW U, NEW s \in Seq(U), NEW t \in Seq(U)
    PROVE  s \o t \in Seq(U) /\ <<>> \o s = s /\ s \o <<>> = s
<1>1. <<>> \in Seq(U) /\ \A x \in Seq(U), y \in Seq(U) : x \o y \in Seq(U) /\ Len(x \o y) = Len(x) + Len(y)
  BY SMT
<1>2. ASSUME NEW x \in Seq(U), NEW y \in Seq(U), Len(x) = Len(y), \A i \in 1..Len(x) : x[i] = y[i]
      PROVE  x = y
  BY <1>2, SameSequence
<1>3. <<>> \o s = s
  <2>1. <<>> \o s \in Seq(U) /\ Len(<<>> \o s) = Len(s) /\ \A i \in 1..Len(s) : (<<>> \o s)[i] = s[i]
    BY SMT
  <2> DEFINE x == <<>> \o s
  <2> HIDE DEF x
  <2>2. x \in Seq(U) /\ Len(x) = Len(s) /\ \A i \in 1..Len(x) : x[i] = s[i]
    BY <2>1 DEF x
  <2>3. x = s
    BY <1>2, <2>2
  <2> QED
    BY <2>3 DEF x
<1>4. s \o <<>> = s
  <2>1. s \o <<>> \in Seq(U) /\ Len(s \o <<>>) = Len(s) /\ \A i \in 1..Len(s) : (s \o <<>>)[i] = s[i]
    BY SMT
  <2> DEFINE x == s \o <<>>
  <2> HIDE DEF x
  <2>2. x \in Seq(U) /\ Len(x) = Len(s) /\ \A i \in 1..Len(x) : x[i] = s[i]
    BY <2>1 DEF x
  <2>3. x = s
    BY <1>2, <2>2
  <2> QED
    BY <2>3 DEF x
<1> QED
  BY <1>1, <1>3, <1>4

LEMMA ConcatAssociative ==
    ASSUME NEW U, NEW s \in Seq(U), NEW t \in Seq(U), NEW a \in Seq(U)
    PROVE  s \o (t \o a) = (s \o t) \o a
<1> DEFINE x == s \o (t \o a)
           y == (s \o t) \o a
<1>1. x \in Seq(U) /\ y \in Seq(U)
  OBVIOUS
<1>2. Len(x) = Len(y)
  BY SMT
<1>3. \A i \in 1..Len(x) : x[i] = y[i]
  BY SMT
<1> HIDE DEF x, y
<1>4. x = y
  BY <1>1, <1>2, <1>3, SameSequence
<1> QED
  BY <1>4 DEF x, y

\* A sequence that is not empty, without its last element and with it.
LEMMA LastOff ==
    ASSUME NEW U, NEW s \in Seq(U), Len(s) # 0
    PROVE  \E r \in Seq(U), e \in U : s = Append(r, e) /\ Len(r) = Len(s) - 1
<1> DEFINE n == Len(s)
           r == [i \in 1..(n - 1) |-> s[i]]
<1>1. n \in Nat /\ n >= 1 /\ n \in 1..n /\ s[n] \in U /\ \A i \in 1..(n - 1) : s[i] \in U
  BY SMT
<1>2. r \in Seq(U) /\ Len(r) = n - 1 /\ \A i \in 1..(n - 1) : r[i] = s[i]
  <2> HIDE DEF n
  <2>1. n - 1 \in Nat
    BY <1>1, SMT
  <2>2. r \in [1..(n - 1) -> U]
    BY <1>1
  <2>3. r \in Seq(U)
    BY <2>1, <2>2, SMT
  <2>4. DOMAIN r = 1..(n - 1)
    OBVIOUS
  <2>5. Len(r) = n - 1
    <3> HIDE DEF r
    <3> QED
      BY <2>1, <2>3, <2>4, SMT
  <2> QED
    BY <2>3, <2>5
<1> HIDE DEF r
<1>3. s = Append(r, s[n])
  BY <1>1, <1>2, SMT
<1> QED
  BY <1>1, <1>2, <1>3

LEMMA TakenTyped ==
    ASSUME NEW U, NEW s \in Seq(U) PROVE Taken(s) \in Seq(ForUser)
<1> DEFINE T == {n \in Nat : \E r \in Seq(U) : Len(r) = n /\ Taken(r) \notin Seq(ForUser)}
<1>0. \A e : One(e) \in Seq(ForUser)
  BY SMT DEF One
<1>1. ASSUME T # {} PROVE FALSE
  <2>1. PICK n \in T : \A m \in T : n <= m
    <3>1. T \subseteq Nat
      OBVIOUS
    <3> HIDE DEF T
    <3> QED
      BY <3>1, <1>1, LeastElement
  <2>2. PICK r \in Seq(U) : Len(r) = n /\ Taken(r) \notin Seq(ForUser)
    BY <2>1
  <2>3. Len(r) # 0
    <3>0. <<>> \in Seq(ForUser)
      BY SMT
    <3>1. Taken(<<>>) \in Seq(ForUser)
      BY <3>0, TakenEmpty
    <3>2. Len(r) = 0 => r = <<>>
      BY SMT
    <3> QED
      BY <2>2, <3>1, <3>2
  <2>4. PICK q \in Seq(U), e \in U : r = Append(q, e) /\ Len(q) = n - 1
    <3>1. \E q \in Seq(U), e \in U : r = Append(q, e) /\ Len(q) = Len(r) - 1
      BY <2>3, LastOff
    <3> QED
      BY <2>2, <3>1
  <2>5. n - 1 \in Nat /\ ~(n <= n - 1)
    BY <2>1, <2>2, <2>3, SMT
  <2>6. Taken(q) \in Seq(ForUser)
    <3>1. n - 1 \notin T
      BY <2>1, <2>5, Zenon
    <3> QED
      BY <2>4, <2>5, <3>1, Zenon
  <2>7. Taken(r) = IF q = <<>> THEN One(e) ELSE Taken(q) \o One(e)
    BY <2>4, TakenAppend
  <2>8. One(e) \in Seq(ForUser)
    BY <1>0
  <2>9. Taken(q) \o One(e) \in Seq(ForUser)
    BY <2>6, <2>8, Concats
  <2> QED
    BY <2>2, <2>7, <2>8, <2>9
<1>2. Len(s) \in Nat /\ ~(Len(s) \in T)
  BY <1>1, SMT
<1> QED
  BY <1>2

Regroups(x, y, z) == x \o (y \o z) = (x \o y) \o z

LEMMA KeptAssociative ==
    ASSUME NEW x, NEW y, NEW z, x \in Seq(ForUser) /\ y \in Seq(ForUser) /\ z \in Seq(ForUser)
    PROVE  Regroups(x, y, z)
<1>1. (x \o y) \o z = x \o (y \o z)
  BY ConcatAssociative
<1> QED
  BY <1>1, Zenon DEF Regroups

\* The last element may be put on before or after joining.
AppendsLast(U, s, q, e) == s \o q \in Seq(U) /\ s \o Append(q, e) = Append(s \o q, e)

LEMMA JoinThenAppend ==
    ASSUME NEW U, NEW s \in Seq(U), NEW q \in Seq(U), NEW e \in U
    PROVE  AppendsLast(U, s, q, e)
<1> DEFINE x == s \o Append(q, e)
           y == Append(s \o q, e)
<1>1. /\ s \o q \in Seq(U) /\ x \in Seq(U) /\ y \in Seq(U) /\ Len(x) = Len(y)
  BY SMT
<1>2. \A i \in 1..Len(x) : x[i] = y[i]
  BY SMT
<1> HIDE DEF x, y
<1>3. x = y
  BY <1>1, <1>2, SameSequence
<1> QED
  BY <1>1, <1>3 DEF x, y, AppendsLast

\* What is kept of one sequence behind another.
LEMMA TakenConcat ==
    ASSUME NEW U, NEW s \in Seq(U), NEW t \in Seq(U)
    PROVE  Taken(s \o t) = Taken(s) \o Taken(t)
<1> DEFINE T == {n \in Nat : \E r \in Seq(U) : Len(r) = n /\ Taken(s \o r) # Taken(s) \o Taken(r)}
<1>0. \A e : One(e) \in Seq(ForUser)
  BY SMT DEF One
<1>1. ASSUME T # {} PROVE FALSE
  <2>1. PICK n \in T : \A m \in T : n <= m
    <3>1. T \subseteq Nat
      OBVIOUS
    <3> HIDE DEF T
    <3> QED
      BY <3>1, <1>1, LeastElement
  <2>2. PICK r \in Seq(U) : Len(r) = n /\ Taken(s \o r) # Taken(s) \o Taken(r)
    BY <2>1
  <2>3. Len(r) # 0
    <3>1. Len(r) = 0 => r = <<>>
      BY SMT
    <3>2. s \o <<>> = s /\ Taken(s) \in Seq(ForUser)
      BY Concats, TakenTyped
    <3>3. Taken(s) \o <<>> = Taken(s)
      BY <3>2, Concats
    <3> QED
      BY <2>2, <3>1, <3>2, <3>3, TakenEmpty
  <2>4. PICK q \in Seq(U), e \in U : r = Append(q, e) /\ Len(q) = n - 1
    <3>1. \E q \in Seq(U), e \in U : r = Append(q, e) /\ Len(q) = Len(r) - 1
      BY <2>3, LastOff
    <3> QED
      BY <2>2, <3>1
  <2>5. n - 1 \in Nat /\ ~(n <= n - 1)
    BY <2>1, <2>2, <2>3, SMT
  <2>6. Taken(s \o q) = Taken(s) \o Taken(q)
    <3>1. n - 1 \notin T
      BY <2>1, <2>5, Zenon
    <3> QED
      BY <2>4, <2>5, <3>1, Zenon
  <2>7. Taken(r) = Taken(q) \o One(e)
    <3>1. Taken(r) = IF q = <<>> THEN One(e) ELSE Taken(q) \o One(e)
      BY <2>4, TakenAppend
    <3>2. <<>> \o One(e) = One(e)
      BY <1>0, Concats
    <3> QED
      BY <3>1, <3>2, TakenEmpty
  <2>8. s \o q \in Seq(U) /\ s \o r = Append(s \o q, e)
    <3>1. AppendsLast(U, s, q, e)
      BY JoinThenAppend, Zenon
    <3> QED
      BY <2>4, <3>1, Zenon DEF AppendsLast
  <2>9. Taken(s \o r) = Taken(s \o q) \o One(e)
    <3>1. Taken(s \o r) = IF s \o q = <<>> THEN One(e) ELSE Taken(s \o q) \o One(e)
      BY <2>8, TakenAppend
    <3>2. <<>> \o One(e) = One(e)
      BY <1>0, Concats
    <3> QED
      BY <3>1, <3>2, TakenEmpty
  <2>10. Taken(s) \in Seq(ForUser) /\ Taken(q) \in Seq(ForUser) /\ One(e) \in Seq(ForUser)
    BY <1>0, TakenTyped
  <2>11. Taken(s) \o (Taken(q) \o One(e)) = (Taken(s) \o Taken(q)) \o One(e)
    <3>1. Regroups(Taken(s), Taken(q), One(e))
      BY <2>10, KeptAssociative, Zenon
    <3> QED
      BY <3>1, Zenon DEF Regroups
  <2> QED
    BY <2>2, <2>6, <2>7, <2>9, <2>11
<1>2. Len(t) \in Nat /\ ~(Len(t) \in T)
  BY <1>1, SMT
<1> QED
  BY <1>2

LEMMA TakenMore ==
    ASSUME NEW U, NEW s \in Seq(U), NEW e \in U
    PROVE  Taken(Append(s, e)) = Taken(s) \o One(e)
<1>1. Taken(Append(s, e)) = IF s = <<>> THEN One(e) ELSE Taken(s) \o One(e)
  BY TakenAppend
<1>2. One(e) \in Seq(ForUser)
  BY SMT DEF One
<1>3. <<>> \o One(e) = One(e)
  BY <1>2, Concats
<1> QED
  BY <1>1, <1>3, TakenEmpty

\* Past the first sequence of a concatenation come the elements of the second.
LEMMA ConcatElement ==
    ASSUME NEW U, NEW s \in Seq(U), NEW t \in Seq(U), NEW i \in 1..Len(t)
    PROVE  (s \o t)[Len(s) + i] = t[i]
BY SMT

\* Parts of a sequence.
LEMMA SubSeqParts ==
    ASSUME NEW U, NEW s \in Seq(U), NEW n \in 0..Len(s), NEW m \in 0..n
    PROVE  /\ SubSeq(s, m + 1, n) \o SubSeq(s, n + 1, Len(s)) = SubSeq(s, m + 1, Len(s))
           /\ n < Len(s) => SubSeq(s, m + 1, n + 1) = Append(SubSeq(s, m + 1, n), s[n + 1])
           /\ m = n => SubSeq(s, m + 1, n) = <<>>
           /\ \A e \in U : SubSeq(Append(s, e), m + 1, n) = SubSeq(s, m + 1, n)
<1> DEFINE l == Len(s)
           a == SubSeq(s, m + 1, n)
           b == SubSeq(s, n + 1, l)
           c == SubSeq(s, m + 1, l)
<1>1. l \in Nat /\ n \in Nat /\ m \in Nat /\ m <= n /\ n <= l /\ m \in 0..l /\ n \in 0..l /\ l \in 0..l
  BY SMT
<1>2. /\ a \in Seq(U) /\ Len(a) = n - m /\ \A i \in 1..(n - m) : a[i] = s[m + i]
  BY <1>1, SMT
<1>3. /\ b \in Seq(U) /\ Len(b) = l - n /\ \A i \in 1..(l - n) : b[i] = s[n + i]
  BY <1>1, SMT
<1>4. /\ c \in Seq(U) /\ Len(c) = l - m /\ \A i \in 1..(l - m) : c[i] = s[m + i]
  BY <1>1, SMT
<1>5. a \o b = c
  <2> DEFINE x == a \o b
  <2> HIDE DEF a, b, c, l
  <2>1. x \in Seq(U) /\ Len(x) = l - m
    <3>1. x \in Seq(U) /\ Len(x) = Len(a) + Len(b)
      <4>1. a \in Seq(U) /\ b \in Seq(U)
        BY <1>2, <1>3
      <4> QED
        BY <4>1, SMT
    <3>2. (n - m) + (l - n) = l - m
      BY <1>1, SMT
    <3> QED
      BY <1>2, <1>3, <3>1, <3>2
  <2>2. ASSUME NEW i \in 1..(l - m) PROVE x[i] = s[m + i]
    <3>1. CASE i <= n - m
      <4>1. i \in 1..(n - m) /\ i \in 1..Len(a)
        BY <1>1, <1>2, <3>1, SMT
      <4>2. x[i] = a[i]
        BY <1>2, <1>3, <4>1, SMT
      <4> QED
        BY <1>2, <4>1, <4>2
    <3>2. CASE i > n - m
      <4>1. i - (n - m) \in 1..(l - n) /\ n + (i - (n - m)) = m + i
        BY <1>1, <3>2, SMT
      <4>2. x[i] = b[i - (n - m)]
        <5> DEFINE j == i - (n - m)
        <5>1. a \in Seq(U) /\ b \in Seq(U) /\ Len(a) = n - m /\ j \in 1..Len(b) /\ i = (n - m) + j
          <6>1. i = (n - m) + j
            BY <1>1, SMT
          <6> HIDE DEF j
          <6>2. j \in 1..(l - n)
            BY <4>1 DEF j
          <6> QED
            BY <1>2, <1>3, <6>1, <6>2
        <5>2. (a \o b)[Len(a) + j] = b[j]
          <6> HIDE DEF j
          <6>1. a \in Seq(U) /\ b \in Seq(U) /\ j \in 1..Len(b)
            BY <5>1, Zenon
          <6> QED
            BY <6>1, ConcatElement, Zenon
        <5> QED
          BY <5>1, <5>2 DEF x
      <4>3. b[i - (n - m)] = s[n + (i - (n - m))]
        BY <1>3, <4>1
      <4> QED
        BY <4>1, <4>2, <4>3
    <3>3. i <= n - m \/ i > n - m
      BY <1>1, SMT
    <3> QED
      BY <3>1, <3>2, <3>3
  <2> HIDE DEF x
  <2>3. x = c
    BY <1>4, <2>1, <2>2, SameSequence
  <2> QED
    BY <2>3 DEF x
<1>6. ASSUME n < l PROVE SubSeq(s, m + 1, n + 1) = Append(a, s[n + 1])
  <2> DEFINE d == SubSeq(s, m + 1, n + 1)
             x == Append(a, s[n + 1])
  <2>1. n + 1 \in 0..l /\ m \in 0..(n + 1) /\ (n + 1) - m = (n - m) + 1 /\ n - m \in Nat
    BY <1>1, <1>6, SMT
  <2>2. /\ d \in Seq(U) /\ Len(d) = (n + 1) - m /\ \A i \in 1..((n + 1) - m) : d[i] = s[m + i]
    BY <1>1, <2>1, SMT
  <2>3. s[n + 1] \in U
    BY <1>1, <1>6, SMT
  <2> HIDE DEF a, d, l
  <2>4. /\ x \in Seq(U) /\ Len(x) = (n - m) + 1 /\ (\A i \in 1..(n - m) : x[i] = a[i])
        /\ x[(n - m) + 1] = s[n + 1]
    BY <1>2, <2>1, <2>3, SMT
  <2>5. ASSUME NEW i \in 1..((n - m) + 1) PROVE x[i] = s[m + i]
    <3>1. i \in 1..(n - m) \/ (i = (n - m) + 1 /\ m + i = n + 1)
      BY <1>1, <2>1, SMT
    <3> QED
      BY <1>2, <2>4, <3>1
  <2> HIDE DEF x
  <2>6. d = x
    BY <2>1, <2>2, <2>4, <2>5, SameSequence
  <2> QED
    BY <2>6 DEF d, x
<1>7. m = n => a = <<>>
  <2> HIDE DEF a
  <2>1. m = n => Len(a) = 0
    BY <1>1, <1>2, SMT
  <2> QED
    BY <1>2, <2>1, SMT
<1>8. ASSUME NEW e \in U PROVE SubSeq(Append(s, e), m + 1, n) = a
  <2> DEFINE t == Append(s, e)
             d == SubSeq(t, m + 1, n)
  <2>1. t \in Seq(U) /\ n \in 0..Len(t) /\ \A i \in 1..l : t[i] = s[i]
    BY <1>1, SMT
  <2> HIDE DEF t
  <2>2. d \in Seq(U) /\ Len(d) = n - m /\ \A i \in 1..(n - m) : d[i] = t[m + i]
    BY <1>1, <2>1, SMT
  <2>3. \A i \in 1..(n - m) : m + i \in 1..l
    BY <1>1, SMT
  <2>4. \A i \in 1..(n - m) : d[i] = a[i]
    BY <1>2, <2>1, <2>2, <2>3
  <2> HIDE DEF d, a
  <2>5. d = a
    BY <1>2, <2>2, <2>4, SameSequence
  <2> QED
    BY <2>5 DEF d, t
<1> QED
  BY <1>5, <1>6, <1>7, <1>8
-------------------------------------------------------------------------------
(* What the user was handed, against what the payloads sent.               *)

\* The packets of the payloads that the client has dealt with, by their number.
Dealt == Len(sent) - obc.num - (IF worker = "run" /\ recv = "done" THEN 1 ELSE 0)

\* The user has been handed, or will be, what is for the user between the handshake and packet n.
HandedUpTo(n) ==
    /\ n \in setup..Len(sent)
    /\ handed \o recvQueue = Taken(SubSeq(sent, setup + 1, n))

(* Until the socket is closed, the queue holds the last packets sent, and what is received is
   the one before them. *)
Ledger ==
    /\ ~stopWorker =>
         /\ \A i \in 1..obc.num : Contents(obc)[i] = sent[Len(sent) - obc.num + i]
         /\ recv = "done" => Len(sent) - obc.num >= 1 /\ packet = sent[Len(sent) - obc.num]
    /\ main = "setup" => setup = 0 /\ handed = <<>> /\ recvQueue = <<>>
    /\ main \in {"join", "ack"} => recv = "begin"
    /\ main \in {"join", "ack", "run"} => HandedUpTo(Dealt)
    /\ main \in {"close", "wait", "gone"} => \E n \in setup..Len(sent) : HandedUpTo(n)

\* What the earlier invariant says of the books.
Books ==
    /\ obc.num \in Nat /\ Len(sent) \in Nat /\ setup \in Nat /\ sent \in Seq(FromPayload)
    /\ handed \in Seq(ForUser) /\ recvQueue \in Seq(ForUser)
    /\ ~stopWorker => Consumer(obc, recv) /\ obc.num <= Len(sent)
    /\ main \in {"setup", "join", "ack", "run", "close", "wait", "gone"}
    /\ main \in {"setup", "join", "ack"} <=> worker = "none"
    /\ stopWorker <=> main \in {"close", "wait", "gone"}
    /\ obc \in QueueOf(FromPayload)

LEMMA BooksKept == IInv => Books
<1> SUFFICES ASSUME IInv PROVE Books
  OBVIOUS
<1>1. TypedQueues /\ TypedThreads /\ TypedLog
  BY TypeParts DEF IInv
<1>2. obc.num \in Nat /\ setup \in Nat /\ Len(sent) \in Nat
  BY <1>1, Sizes, MaxSentAssumption DEF TypedQueues, QueueOf, TypedLog
<1>3. handed \in Seq(ForUser)
  <2>1. handed \in Seq(Others) /\ Others \subseteq ForUser
    BY <1>1 DEF TypedLog, ForUser
  <2> QED
    BY <2>1, SMT
<1> QED
  BY <1>1, <1>2, <1>3 DEF IInv, Phases, Inbox, Books, TypedQueues, TypedThreads, TypedLog

LEMMA InitLedger == Init => Ledger
<1> SUFFICES ASSUME Init PROVE Ledger
  OBVIOUS
<1>1. obc.num = 0 /\ Len(sent) = 0 /\ 1..0 = {}
  BY EmptyQueues, SMT DEF Init
<1> QED
  BY <1>1 DEF Init, Ledger

\* Nothing is received, sent to the client or handed out; the constructor may go on.
LEMMA LedgerStays ==
    ASSUME Ledger, UNCHANGED <<obc, recv, packet, stopWorker, recvQueue, handed, sent, setup>>,
           \/ UNCHANGED <<main, worker>>
           \/ main = "join" /\ main' = "ack" /\ worker' = worker
           \/ main = "ack" /\ main' = "run" /\ recv = "begin"
    PROVE  Ledger'
<1>1. main \in {"join", "ack", "run"} => Dealt' = Dealt
  <2>1. CASE UNCHANGED <<main, worker>> \/ (main = "join" /\ main' = "ack" /\ worker' = worker)
    BY <2>1 DEF Dealt
  <2>2. CASE main = "ack" /\ main' = "run" /\ recv = "begin"
    BY <2>2 DEF Dealt
  <2> QED
    BY <2>1, <2>2
<1>2. \A n : HandedUpTo(n) => HandedUpTo(n)'
  BY DEF HandedUpTo
<1>3. main' \in {"join", "ack", "run"} =>
        Dealt' \in setup..Len(sent) /\ handed \o recvQueue = Taken(SubSeq(sent, setup + 1, Dealt'))
  BY <1>1 DEF Ledger, HandedUpTo
<1>4. HandedUpTo(Dealt)' <=> Dealt' \in setup'..Len(sent') /\ handed' \o recvQueue' = Taken(SubSeq(sent', setup' + 1, Dealt'))
  BY DEF HandedUpTo
<1>5. main' \in {"join", "ack", "run"} => HandedUpTo(Dealt)'
  BY <1>3, <1>4
<1>6. main' \in {"close", "wait", "gone"} => \E n \in setup'..Len(sent') : HandedUpTo(n)'
  BY <1>2 DEF Ledger
<1>7. /\ main' = "setup" => setup' = 0 /\ handed' = <<>> /\ recvQueue' = <<>>
      /\ main' \in {"join", "ack"} => recv' = "begin"
  BY DEF Ledger
<1>8. ~stopWorker' =>
         /\ \A i \in 1..obc'.num : Contents(obc')[i] = sent'[Len(sent') - obc'.num + i]
         /\ recv' = "done" => Len(sent') - obc'.num >= 1 /\ packet' = sent'[Len(sent') - obc'.num]
  BY DEF Ledger
<1> QED
  BY <1>5, <1>6, <1>7, <1>8 DEF Ledger

LEMMA PeerSendKeepsLedger ==
    ASSUME IInv, Ledger, NEW what \in FromPayload \ {"zero"}, PeerSend(what)
    PROVE  Ledger'
<1>0. Books
  BY BooksKept
<1>1. /\ ~IsFull(obc) /\ obc' = Pushed(obc, what) /\ sent' = Append(sent, what)
      /\ UNCHANGED <<recv, packet, stopWorker, recvQueue, handed, setup, main, worker>>
  BY DEF PeerSend, recvVars, history
<1>2. /\ Len(sent') = Len(sent) + 1 /\ sent'[Len(sent) + 1] = what
      /\ \A i \in 1..Len(sent) : sent'[i] = sent[i]
  BY <1>0, <1>1, SMT DEF Books
<1>3. Len(sent) \in Nat /\ obc.num \in Nat /\ setup \in Nat
  BY <1>0 DEF Books
<1>4. ASSUME ~stopWorker
      PROVE  /\ obc'.num = obc.num + 1 /\ obc.num <= Len(sent) /\ Contents(obc')[obc.num + 1] = what
             /\ \A i \in 1..obc.num : Contents(obc')[i] = Contents(obc)[i]
  <2>1. Ring(obc) /\ obc.num <= Len(sent) /\ what \in FromPayload
    BY <1>0, <1>4 DEF Books, Consumer
  <2>2. obc.num < Capacity
    BY <1>1, <1>3, <2>1, Sizes DEF Ring, IsFull
  <2> QED
    BY <1>0, <1>1, <2>1, <2>2, PushKeepsRing DEF Books
<1>5. ASSUME ~stopWorker
      PROVE  /\ \A i \in 1..obc'.num : Contents(obc')[i] = sent'[Len(sent') - obc'.num + i]
             /\ recv = "done" => Len(sent') - obc'.num >= 1 /\ packet = sent'[Len(sent') - obc'.num]
             /\ Dealt' = Dealt
  <2> DEFINE l == Len(sent)
             k == obc.num
             l1 == Len(sent')
             k1 == obc'.num
  <2>1. l \in Nat /\ k \in Nat /\ k <= l /\ l1 = l + 1 /\ k1 = k + 1
    BY <1>2, <1>3, <1>4, <1>5
  <2> HIDE DEF l, k, l1, k1
  <2>2. l1 - k1 = l - k /\ l - k \in Nat /\ (l - k) + (k + 1) = l + 1
        /\ (\A i \in 1..k : (l - k) + i \in 1..l) /\ (\A i \in 1..k1 : i \in 1..k \/ i = k + 1)
        /\ (l - k >= 1 => l - k \in 1..l)
    BY <2>1, SMT
  <2>3. ASSUME NEW i \in 1..k1 PROVE Contents(obc')[i] = sent'[(l1 - k1) + i]
    <3>1. CASE i \in 1..k
      <4>1. Contents(obc)[i] = sent[(l - k) + i]
        BY <1>5, <3>1 DEF Ledger, l, k
      <4>2. sent'[(l - k) + i] = sent[(l - k) + i]
        BY <1>2, <2>2, <3>1 DEF l
      <4>3. Contents(obc')[i] = Contents(obc)[i]
        BY <1>4, <1>5, <3>1 DEF k
      <4> QED
        BY <2>2, <4>1, <4>2, <4>3
    <3>2. CASE i = k + 1
      BY <1>2, <1>4, <1>5, <2>2, <3>2 DEF l, k
    <3> QED
      BY <2>2, <3>1, <3>2
  <2>4. recv = "done" => l1 - k1 >= 1 /\ packet = sent'[l1 - k1]
    <3>1. recv = "done" => l - k >= 1 /\ packet = sent[l - k]
      BY <1>5 DEF Ledger, l, k
    <3>2. l - k >= 1 => sent'[l - k] = sent[l - k]
      BY <1>2, <2>2 DEF l
    <3> QED
      BY <2>2, <3>1, <3>2
  <2>5. Dealt' = Dealt
    <3>1. /\ Dealt = (l - k) - (IF worker = "run" /\ recv = "done" THEN 1 ELSE 0)
          /\ Dealt' = (l1 - k1) - (IF worker' = "run" /\ recv' = "done" THEN 1 ELSE 0)
      BY DEF Dealt, l, k, l1, k1
    <3> QED
      BY <1>1, <2>2, <3>1
  <2> QED
    BY <2>3, <2>4, <2>5 DEF l1, k1
<1>6. ASSUME NEW n \in Nat, HandedUpTo(n)
      PROVE  n \in setup'..Len(sent') /\ handed' \o recvQueue' = Taken(SubSeq(sent', setup' + 1, n))
  <2>1. n \in setup..Len(sent) /\ handed \o recvQueue = Taken(SubSeq(sent, setup + 1, n))
    BY <1>6 DEF HandedUpTo
  <2>2. n \in 0..Len(sent) /\ setup \in 0..n /\ n \in setup..(Len(sent) + 1)
    BY <1>3, <2>1, SMT
  <2>3. sent \in Seq(FromPayload) /\ what \in FromPayload
    BY <1>0 DEF Books
  <2>4. SubSeq(Append(sent, what), setup + 1, n) = SubSeq(sent, setup + 1, n)
    BY <2>2, <2>3, SubSeqParts
  <2> QED
    BY <1>1, <1>2, <2>1, <2>2, <2>4
<1>7. main \in {"join", "ack", "run"} => HandedUpTo(Dealt)'
  <2> SUFFICES ASSUME main \in {"join", "ack", "run"}
               PROVE  Dealt' \in setup'..Len(sent') /\ handed' \o recvQueue' = Taken(SubSeq(sent', setup' + 1, Dealt'))
    BY DEF HandedUpTo
  <2>1. HandedUpTo(Dealt) /\ ~stopWorker
    BY <1>0 DEF Ledger, Books
  <2>2. Dealt \in Nat
    BY <1>3, <2>1, SMT DEF HandedUpTo
  <2>3. Dealt' = Dealt
    BY <1>5, <2>1
  <2> QED
    BY <1>6, <2>1, <2>2, <2>3
<1>8. main \in {"close", "wait", "gone"} => \E n \in setup'..Len(sent') : HandedUpTo(n)'
  <2> SUFFICES ASSUME main \in {"close", "wait", "gone"} PROVE \E n \in setup'..Len(sent') : HandedUpTo(n)'
    OBVIOUS
  <2>1. PICK n \in setup..Len(sent) : HandedUpTo(n)
    BY DEF Ledger
  <2>2. n \in Nat
    BY <1>3
  <2> QED
    BY <1>6, <2>1, <2>2 DEF HandedUpTo
<1> QED
  BY <1>1, <1>5, <1>7, <1>8 DEF Ledger

\* While nobody is handed anything and nothing is sent, a history stays what it is.
LEMMA HandedStays ==
    ASSUME UNCHANGED <<recvQueue, handed, sent, setup>>
    PROVE  /\ \A n : HandedUpTo(n) => HandedUpTo(n)'
           /\ (\E n \in setup..Len(sent) : HandedUpTo(n)) => \E n \in setup'..Len(sent') : HandedUpTo(n)'
           /\ \A n : n = Dealt' /\ HandedUpTo(n) => HandedUpTo(Dealt)'
<1>1. \A n : HandedUpTo(n) => HandedUpTo(n)'
  BY DEF HandedUpTo
<1>2. ASSUME NEW n, n = Dealt', HandedUpTo(n) PROVE HandedUpTo(Dealt)'
  <2>1. n \in setup'..Len(sent') /\ handed' \o recvQueue' = Taken(SubSeq(sent', setup' + 1, n))
    BY <1>2 DEF HandedUpTo
  <2>2. Dealt' \in setup'..Len(sent') /\ handed' \o recvQueue' = Taken(SubSeq(sent', setup' + 1, Dealt'))
    BY <1>2, <2>1
  <2> QED
    BY <2>2 DEF HandedUpTo
<1> QED
  BY <1>1, <1>2

LEMMA ReceivingKeepsLedger ==
    ASSUME IInv, Ledger, RecvBegin \/ RecvWake \/ RecvPop
    PROVE  Ledger'
<1> USE DEF RecvBegin, RecvWake, RecvPop, Receiving, peerVars, history
<1>0. Books
  BY BooksKept
<1>1. /\ UNCHANGED <<recvQueue, handed, sent, setup, main, worker, stopWorker>>
      /\ Receiving /\ recv # "done"
  OBVIOUS
<1>2. CASE RecvBegin \/ RecvWake
  <2>1. obc'.num = obc.num /\ Contents(obc') = Contents(obc) /\ recv' # "done" /\ packet' = packet
    BY <1>0, <1>2 DEF Waiting, Woken, QueueOf, Contents, Books
  <2>2. ~stopWorker' =>
         /\ \A i \in 1..obc'.num : Contents(obc')[i] = sent'[Len(sent') - obc'.num + i]
         /\ recv' = "done" => Len(sent') - obc'.num >= 1 /\ packet' = sent'[Len(sent') - obc'.num]
    BY <1>1, <2>1 DEF Ledger
  <2>3. Dealt' = Dealt
    BY <1>1, <2>1 DEF Dealt
  <2>4. main' \in {"join", "ack", "run"} => HandedUpTo(Dealt)'
    BY <1>1, <2>3, HandedStays DEF Ledger
  <2>5. main' \in {"close", "wait", "gone"} => \E n \in setup'..Len(sent') : HandedUpTo(n)'
    BY <1>1, HandedStays DEF Ledger
  <2>6. /\ main' = "setup" => setup' = 0 /\ handed' = <<>> /\ recvQueue' = <<>>
        /\ main' \in {"join", "ack"} => recv' = "begin"
    BY <1>0, <1>1 DEF Ledger, Books
  <2> QED
    BY <2>2, <2>4, <2>5, <2>6 DEF Ledger
<1>3. CASE RecvPop
  <2> DEFINE l == Len(sent)
             k == obc.num
             k1 == obc'.num
  <2>0. l \in Nat /\ k \in Nat /\ obc' = Popped(obc) /\ recv' = "done" /\ packet' = FrontPacket(obc)
    BY <1>0, <1>3 DEF Books
  <2>1. ASSUME ~stopWorker
        PROVE  /\ k1 = k - 1 /\ k >= 1 /\ k <= l /\ packet' = Contents(obc)[1]
               /\ \A i \in 1..k1 : Contents(obc')[i] = Contents(obc)[i + 1]
    <3>1. Ring(obc) /\ k <= l /\ k >= 1
      BY <1>0, <1>3, <2>1 DEF Books, Consumer
    <3> QED
      BY <1>0, <2>0, <3>1, PopKeepsRing DEF Books
  <2>2. ASSUME ~stopWorker
        PROVE  /\ \A i \in 1..k1 : Contents(obc')[i] = sent[l - k1 + i]
               /\ l - k1 >= 1 /\ packet' = sent[l - k1] /\ l - k1 - 1 = l - k
    <3> HIDE DEF l, k, k1
    <3>0. l - k1 = l - k + 1 /\ l - k + 1 >= 1 /\ l - k + 1 - 1 = l - k /\ 1 \in 1..k
          /\ \A i \in 1..k1 : i + 1 \in 1..k /\ l - k1 + i = l - k + (i + 1)
      BY <2>0, <2>1, <2>2, SMT
    <3>1. \A i \in 1..k : Contents(obc)[i] = sent[l - k + i]
      BY <2>2 DEF Ledger, l, k
    <3>2. ASSUME NEW i \in 1..k1 PROVE Contents(obc')[i] = sent[l - k1 + i]
      <4>1. Contents(obc')[i] = Contents(obc)[i + 1]
        BY <2>1, <2>2
      <4>2. Contents(obc)[i + 1] = sent[l - k + (i + 1)]
        BY <3>0, <3>1
      <4> QED
        BY <3>0, <4>1, <4>2
    <3>3. packet' = sent[l - k + 1]
      BY <2>1, <2>2, <3>0, <3>1
    <3>4. l - k1 >= 1 /\ l - k1 - 1 = l - k
      BY <2>0, <2>1, <2>2, SMT
    <3>5. packet' = sent[l - k1]
      BY <3>0, <3>3
    <3> QED
      BY <3>2, <3>4, <3>5
  <2>3. ~stopWorker' =>
         /\ \A i \in 1..obc'.num : Contents(obc')[i] = sent'[Len(sent') - obc'.num + i]
         /\ recv' = "done" => Len(sent') - obc'.num >= 1 /\ packet' = sent'[Len(sent') - obc'.num]
    BY <1>1, <2>2
  <2>4. main \in {"join", "ack", "run"} => Dealt' = Dealt /\ ~stopWorker /\ worker = "run"
    <3> SUFFICES ASSUME main \in {"join", "ack", "run"} PROVE Dealt' = Dealt /\ ~stopWorker /\ worker = "run"
      OBVIOUS
    <3>1. ~stopWorker /\ worker = "run"
      BY <1>0, <1>1 DEF Books
    <3>2. Dealt = l - k - 0 /\ Dealt' = l - k1 - 1
      BY <1>1, <2>0, <3>1 DEF Dealt
    <3>3. l - k - 0 = l - k
      BY <2>0
    <3> QED
      BY <2>2, <3>1, <3>2, <3>3
  <2>5. main' \in {"join", "ack", "run"} => HandedUpTo(Dealt)'
    BY <1>1, <2>4, HandedStays DEF Ledger
  <2>6. main' \in {"close", "wait", "gone"} => \E n \in setup'..Len(sent') : HandedUpTo(n)'
    BY <1>1, HandedStays DEF Ledger
  <2>7. /\ main' = "setup" => setup' = 0 /\ handed' = <<>> /\ recvQueue' = <<>>
        /\ main' \in {"join", "ack"} => recv' = "begin"
    BY <1>0, <1>1 DEF Ledger, Books
  <2> QED
    BY <2>3, <2>5, <2>6, <2>7 DEF Ledger
<1> QED
  BY <1>2, <1>3

LEMMA SetupKeepsLedger ==
    ASSUME IInv, Ledger, SetupPacket PROVE Ledger'
<1> USE DEF SetupPacket, peerVars
<1>0. Books
  BY BooksKept
<1>1. /\ UNCHANGED <<obc, recvQueue, handed, sent, worker, stopWorker, packet>>
      /\ main = "setup" /\ recv' = "begin" /\ worker = "none" /\ handed = <<>> /\ recvQueue = <<>> /\ setup = 0
  BY <1>0 DEF Ledger, Books
<1>2. ~stopWorker' =>
         /\ \A i \in 1..obc'.num : Contents(obc')[i] = sent'[Len(sent') - obc'.num + i]
         /\ recv' = "done" => Len(sent') - obc'.num >= 1 /\ packet' = sent'[Len(sent') - obc'.num]
  BY <1>1 DEF Ledger
<1>3. CASE packet = "mode"
  <2> DEFINE n == Len(sent) - obc.num
  <2>1. main' = "join" /\ setup' = n
    BY <1>3
  <2>2. obc.num <= Len(sent) /\ obc.num \in Nat /\ Len(sent) \in Nat /\ sent \in Seq(FromPayload)
    BY <1>0, <1>1 DEF Books
  <2>3. Dealt' = n
    <3>1. Dealt' = n - 0
      BY <1>1 DEF Dealt
    <3> QED
      BY <2>2, <3>1
  <2>4. n \in 0..Len(sent) /\ n \in 0..n /\ n \in n..Len(sent)
    BY <2>2
  <2> HIDE DEF n
  <2>5. SubSeq(sent, n + 1, n) = <<>>
    BY <2>2, <2>4, SubSeqParts
  <2>6. handed' \o recvQueue' = <<>>
    BY <1>1
  <2>7. HandedUpTo(Dealt)'
    BY <1>1, <2>1, <2>3, <2>4, <2>5, <2>6, TakenEmpty DEF HandedUpTo
  <2> QED
    BY <1>1, <1>2, <2>1, <2>7 DEF Ledger
<1>4. CASE packet # "mode"
  BY <1>1, <1>2, <1>4 DEF Ledger
<1> QED
  BY <1>3, <1>4

\* A history goes on with the next packet of the payloads.
LEMMA NextDealt ==
    ASSUME Books, NEW n \in Nat, HandedUpTo(n), n < Len(sent)
    PROVE  /\ n + 1 \in setup..Len(sent)
           /\ Taken(SubSeq(sent, setup + 1, n + 1)) = (handed \o recvQueue) \o One(sent[n + 1])
<1>1. n \in setup..Len(sent) /\ handed \o recvQueue = Taken(SubSeq(sent, setup + 1, n))
  BY DEF HandedUpTo
<1>2. setup \in Nat /\ Len(sent) \in Nat /\ sent \in Seq(FromPayload)
  BY DEF Books
<1>3. n \in 0..Len(sent) /\ setup \in 0..n /\ n + 1 \in setup..Len(sent)
  BY <1>1, <1>2, SMT
<1>4. SubSeq(sent, setup + 1, n + 1) = Append(SubSeq(sent, setup + 1, n), sent[n + 1])
  BY <1>2, <1>3, SubSeqParts
<1>5. SubSeq(sent, setup + 1, n) \in Seq(FromPayload) /\ sent[n + 1] \in FromPayload
  BY <1>2, <1>3, SMT
<1>6. Taken(SubSeq(sent, setup + 1, n + 1)) = Taken(SubSeq(sent, setup + 1, n)) \o One(sent[n + 1])
  BY <1>4, <1>5, TakenMore
<1> QED
  BY <1>1, <1>3, <1>6

LEMMA OneIs ==
    /\ \A e \in ForUser : One(e) = <<e>>
    /\ One("beat") = <<>> /\ One("mode") = <<>>
<1>1. "beat" \notin ForUser /\ "mode" \notin ForUser
  BY OthersAssumption DEF ForUser
<1> QED
  BY <1>1 DEF One

LEMMA QueueingOne ==
    ASSUME Books, NEW e \in ForUser
    PROVE  handed \o Append(recvQueue, e) = (handed \o recvQueue) \o <<e>>
<1>1. handed \in Seq(ForUser) /\ recvQueue \in Seq(ForUser)
  BY DEF Books
<1> DEFINE a == handed
           b == recvQueue
<1> HIDE DEF a, b
<1>2. a \in Seq(ForUser) /\ b \in Seq(ForUser) /\ <<e>> \in Seq(ForUser)
  BY <1>1, SMT DEF a, b
<1>3. Append(b, e) = b \o <<e>>
  <2> DEFINE x == Append(b, e)
             y == b \o <<e>>
  <2>1. x \in Seq(ForUser) /\ y \in Seq(ForUser) /\ Len(x) = Len(y) /\ \A i \in 1..Len(x) : x[i] = y[i]
    BY <1>2, SMT
  <2> HIDE DEF x, y
  <2>2. x = y
    BY <2>1, SameSequence
  <2> QED
    BY <2>2 DEF x, y
<1>4. a \o (b \o <<e>>) = (a \o b) \o <<e>>
  <2>1. Regroups(a, b, <<e>>)
    BY <1>2, KeptAssociative
  <2> QED
    BY <2>1 DEF Regroups
<1> QED
  BY <1>3, <1>4 DEF a, b

LEMMA WorkerKeepsLedger ==
    ASSUME IInv, Ledger, WorkerPacket PROVE Ledger'
<1> USE DEF WorkerPacket, peerVars, history
<1>0. Books
  BY BooksKept
<1>1. /\ UNCHANGED <<obc, handed, sent, setup, main, stopWorker, packet>>
      /\ worker = "run" /\ recv = "done" /\ main \in {"run", "close", "wait", "gone"}
  BY <1>0 DEF Books
<1>2. /\ ~stopWorker =>
           /\ \A i \in 1..obc'.num : Contents(obc')[i] = sent'[Len(sent') - obc'.num + i]
           /\ recv' = "done" => Len(sent') - obc'.num >= 1 /\ packet' = sent'[Len(sent') - obc'.num]
      /\ main' = "setup" => setup' = 0 /\ handed' = <<>> /\ recvQueue' = <<>>
      /\ main' \in {"join", "ack"} => recv' = "begin"
  BY <1>1 DEF Ledger
<1>3. CASE stopWorker
  <2>1. main \in {"close", "wait", "gone"} /\ recvQueue' = recvQueue
    BY <1>0, <1>3 DEF Books
  <2>2. \E n \in setup'..Len(sent') : HandedUpTo(n)'
    BY <1>1, <2>1, HandedStays DEF Ledger
  <2> QED
    BY <1>1, <1>2, <1>3, <2>1, <2>2 DEF Ledger
<1>4. CASE ~stopWorker
  <2> DEFINE n == Len(sent) - obc.num - 1
  <2>0. main = "run" /\ obc.num \in Nat /\ Len(sent) \in Nat /\ setup \in Nat
    BY <1>0, <1>1, <1>4 DEF Books
  <2>1. HandedUpTo(n)
    <3>1. Dealt = n
      BY <1>1 DEF Dealt
    <3> QED
      BY <2>0, <3>1 DEF Ledger
  <2>2. Len(sent) - obc.num >= 1 /\ packet = sent[Len(sent) - obc.num]
    BY <1>1, <1>4 DEF Ledger
  <2>3. n \in Nat /\ n < Len(sent) /\ n + 1 = Len(sent) - obc.num
    BY <2>0, <2>2
  <2>4. Dealt' = n + 1
    <3>1. recv' = "begin" \/ worker' = "ack"
      BY <1>4
    <3>2. Dealt' = Len(sent) - obc.num - 0
      BY <1>1, <3>1 DEF Dealt
    <3> QED
      BY <2>0, <2>3, <3>2
  <2> HIDE DEF n
  <2>5. /\ n + 1 \in setup..Len(sent)
        /\ Taken(SubSeq(sent, setup + 1, n + 1)) = (handed \o recvQueue) \o One(packet)
    BY <1>0, <2>1, <2>2, <2>3, NextDealt
  <2>6. handed \o recvQueue \in Seq(ForUser)
    BY <1>0, Concats DEF Books
  <2>7. handed \o recvQueue' = (handed \o recvQueue) \o One(packet)
    <3>1. CASE packet = "beat" \/ packet = "mode"
      <4>1. recvQueue' = recvQueue
        BY <1>4, <3>1, OthersAssumption DEF ForUser
      <4>2. One(packet) = <<>> /\ (handed \o recvQueue) \o <<>> = handed \o recvQueue
        BY <2>6, <3>1, OneIs, Concats
      <4> QED
        BY <4>1, <4>2
    <3>2. CASE packet \in ForUser
      <4>1. recvQueue' = Append(recvQueue, packet)
        BY <1>4, <3>2, OthersAssumption DEF ForUser, Queued
      <4> QED
        BY <1>0, <3>2, <4>1, OneIs, QueueingOne
    <3> QED
      BY <1>4, <3>1, <3>2
  <2>8. HandedUpTo(Dealt)'
    BY <1>1, <2>4, <2>5, <2>7 DEF HandedUpTo
  <2> QED
    BY <1>1, <1>2, <2>0, <2>8 DEF Ledger
<1> QED
  BY <1>3, <1>4

LEMMA AckedKeepsLedger ==
    ASSUME IInv, Ledger, WorkerAcked PROVE Ledger'
<1> USE DEF WorkerAcked, peerVars, history
<1>0. Books
  BY BooksKept
<1>1. /\ UNCHANGED <<obc, handed, recvQueue, sent, setup, main, stopWorker, packet>>
      /\ worker = "ack" /\ recv' = "begin" /\ main \in {"run", "close", "wait", "gone"}
  BY <1>0 DEF Books
<1>2. Dealt' = Dealt
  BY <1>1 DEF Dealt
<1>3. main' \in {"join", "ack", "run"} => HandedUpTo(Dealt)'
  BY <1>1, <1>2, HandedStays DEF Ledger
<1>4. main' \in {"close", "wait", "gone"} => \E n \in setup'..Len(sent') : HandedUpTo(n)'
  BY <1>1, HandedStays DEF Ledger
<1> QED
  BY <1>1, <1>3, <1>4 DEF Ledger

LEMMA HeadOver ==
    ASSUME NEW a, NEW b, a \in Seq(ForUser), b \in Seq(ForUser), b # <<>>
    PROVE  Append(a, Head(b)) \o Tail(b) = a \o b
<1> DEFINE x == Append(a, Head(b)) \o Tail(b)
           y == a \o b
<1>1. Head(b) \in ForUser /\ Tail(b) \in Seq(ForUser)
  BY SMT
<1>2. x \in Seq(ForUser) /\ y \in Seq(ForUser)
  BY <1>1, SMT
<1>3. Len(x) = Len(y)
  BY <1>1, SMT
<1>4. \A i \in 1..Len(x) : x[i] = y[i]
  BY <1>1, SMT
<1> HIDE DEF x, y
<1>5. x = y
  BY <1>2, <1>3, <1>4, SameSequence
<1> QED
  BY <1>5 DEF x, y

LEMMA ReceiveKeepsLedger ==
    ASSUME IInv, Ledger, Receive PROVE Ledger'
<1> USE DEF Receive, peerVars, history
<1>0. Books
  BY BooksKept
<1>1. UNCHANGED <<obc, sent, setup, main, worker, recv, stopWorker, packet>> /\ main = "run"
  OBVIOUS
<1>2. handed' \o recvQueue' = handed \o recvQueue
  BY <1>0, HeadOver DEF Books
<1>3. Dealt' = Dealt
  BY <1>1 DEF Dealt
<1>4. Dealt \in setup..Len(sent) /\ handed \o recvQueue = Taken(SubSeq(sent, setup + 1, Dealt))
  BY <1>1 DEF Ledger, HandedUpTo
<1>5. HandedUpTo(Dealt)'
  BY <1>1, <1>2, <1>3, <1>4 DEF HandedUpTo
<1> QED
  BY <1>1, <1>5 DEF Ledger

LEMMA PrefixOfConcat ==
    ASSUME NEW a, NEW b, a \in Seq(ForUser), b \in Seq(ForUser)
    PROVE  IsPrefix(a, a \o b)
<1> DEFINE t == a \o b
           p == SubSeq(t, 1, Len(a))
<1>1. /\ t \in Seq(ForUser) /\ Len(a) \in Nat /\ Len(t) \in Nat /\ Len(a) <= Len(t)
      /\ \A i \in 1..Len(a) : t[i] = a[i]
  BY SMT
<1> HIDE DEF t
<1>2. p \in Seq(ForUser) /\ Len(p) = Len(a) /\ \A i \in 1..Len(a) : p[i] = t[i]
  BY <1>1, SMT
<1>3. p = a
  <2> HIDE DEF p
  <2> QED
    BY <1>1, <1>2, SameSequence
<1>4. SubSeq(a, 1, Len(a)) = a
  <2> DEFINE x == SubSeq(a, 1, Len(a))
  <2>1. x \in Seq(ForUser) /\ Len(x) = Len(a) /\ \A i \in 1..Len(a) : x[i] = a[i]
    BY <1>1, SMT
  <2> HIDE DEF x
  <2>2. x = a
    BY <2>1, SameSequence
  <2> QED
    BY <2>2 DEF x
<1> HIDE DEF p
<1> QED
  BY <1>1, <1>3, <1>4 DEF IsPrefix, t, p

LEMMA DestructorKeepsLedger ==
    ASSUME IInv, Ledger, Destroy \/ CloseSocket \/ WorkerJoined PROVE Ledger'
<1> USE DEF Destroy, StopBeforeClose, CloseSocket, WorkerJoined, recvVars, peerVars, history
<1>0. Books
  BY BooksKept
<1>1. /\ UNCHANGED <<recvQueue, handed, sent, setup>> /\ stopWorker' /\ main' \in {"close", "wait", "gone"}
  BY <1>0 DEF Books
<1>2. \E n \in setup..Len(sent) : HandedUpTo(n)
  <2>1. CASE main = "run"
    <3>1. HandedUpTo(Dealt)
      BY <2>1 DEF Ledger
    <3> QED
      BY <3>1 DEF HandedUpTo
  <2>2. CASE main \in {"close", "wait"}
    BY <2>2 DEF Ledger
  <2> QED
    BY <2>1, <2>2
<1>3. \E n \in setup'..Len(sent') : HandedUpTo(n)'
  BY <1>1, <1>2, HandedStays
<1> QED
  BY <1>1, <1>3 DEF Ledger

LEMMA RecvFailsKeepsLedger ==
    ASSUME IInv, Ledger, RecvFails PROVE Ledger'
<1> USE DEF RecvFails, Receiving, peerVars, history
<1>0. Books
  BY BooksKept
<1>1. /\ UNCHANGED <<obc, recvQueue, handed, sent, setup, main, worker, stopWorker>>
      /\ stopWorker /\ main \in {"wait", "gone"}
  BY DEF Closed, IInv, Phases
<1>2. \E n \in setup'..Len(sent') : HandedUpTo(n)'
  BY <1>1, HandedStays DEF Ledger
<1> QED
  BY <1>1, <1>2 DEF Ledger

LEMMA NextKeepsLedger == IInv /\ Ledger /\ [Next]_vars => Ledger'
<1> SUFFICES ASSUME IInv, Ledger, [Next]_vars PROVE Ledger'
  OBVIOUS
<1>1. CASE RecvBegin \/ RecvWake \/ RecvPop
  BY <1>1, ReceivingKeepsLedger
<1>2. CASE SetupPacket
  BY <1>2, SetupKeepsLedger
<1>3. CASE Acknowledge
  BY <1>3, LedgerStays DEF Acknowledge, SpamJoined, recvVars, peerVars, history
<1>4. CASE StartWorker
  <2>1. main = "ack" /\ main' = "run" /\ recv = "begin"
    BY <1>4 DEF StartWorker, Ledger
  <2> QED
    BY <1>4, <2>1, LedgerStays DEF StartWorker, recvVars, peerVars, history
<1>5. CASE WorkerPacket
  BY <1>5, WorkerKeepsLedger
<1>6. CASE WorkerAcked
  BY <1>6, AckedKeepsLedger
<1>7. CASE Destroy \/ CloseSocket \/ WorkerJoined
  BY <1>7, DestructorKeepsLedger
<1>8. CASE Spam
  BY <1>8, LedgerStays DEF Spam, SpamReset, SpamWakes, recvVars, peerVars, history
<1>9. CASE Send
  BY <1>9, LedgerStays DEF Send, SendStep, Checked, Push, SendDatagram, recvVars, peerVars, history
<1>10. CASE Receive
  BY <1>10, ReceiveKeepsLedger
<1>11. CASE \E h \in Handlers : SendBegin(h) \/ SendCopy(h)
  BY <1>11, LedgerStays DEF SendBegin, SendCopy, recvVars, peerVars, history
<1>12. CASE \E what \in FromPayload \ {"zero"} : PeerSend(what)
  BY <1>12, PeerSendKeepsLedger
<1>13. CASE PeerReceive
  BY <1>13, LedgerStays DEF PeerReceive, recvVars, history
<1>14. CASE UNCHANGED vars
  BY <1>14, LedgerStays DEF vars, recvVars, peerVars, history
<1>15. CASE RecvFails
  BY <1>15, RecvFailsKeepsLedger
<1> QED
  BY <1>1, <1>2, <1>3, <1>4, <1>5, <1>6, <1>7, <1>8, <1>9, <1>10, <1>11, <1>12, <1>13, <1>14, <1>15
     DEF Next, Client

(* What the user was and will be handed is accounted for, packet by packet: against the packets
   the payloads sent, those still in the queue and the one the worker holds. *)
THEOREM LedgerInductive == Spec => [](IInv /\ Ledger)
<1>1. Init => IInv /\ Ledger
  BY InitInv, InitLedger
<1>2. (IInv /\ Ledger) /\ [Next]_vars => (IInv /\ Ledger)'
  BY NextKeepsInv, NextKeepsLedger
<1> QED
  BY <1>1, <1>2, PTL DEF Spec

-------------------------------------------------------------------------------
\* The packet in hand and those in the queue are the last ones the payloads sent.
LEMMA StillToDeal ==
    ASSUME IInv, Ledger, main = "run"
    PROVE  InHand \o Contents(obc) = SubSeq(sent, Dealt + 1, Len(sent))
<1> DEFINE l == Len(sent)
           k == obc.num
           d == Dealt
           x == InHand \o Contents(obc)
           y == SubSeq(sent, d + 1, l)
           held == worker = "run" /\ recv = "done"
<1>0. Books /\ ~stopWorker
  BY BooksKept DEF Books
<1>1. /\ l \in Nat /\ k \in Nat /\ sent \in Seq(FromPayload) /\ setup \in Nat
      /\ d \in setup..l /\ d = l - k - (IF held THEN 1 ELSE 0)
      /\ \A i \in 1..k : Contents(obc)[i] = sent[l - k + i]
      /\ held => l - k >= 1 /\ packet = sent[l - k]
  BY <1>0 DEF Ledger, HandedUpTo, Books, Dealt
<1>2. Contents(obc) \in Seq(FromPayload) /\ Len(Contents(obc)) = k
  <2>1. k <= l
    BY <1>0 DEF Books
  <2>2. \A i \in 1..k : l - k + i \in 1..l
    BY <1>1, <2>1
  <2>3. \A i \in 1..k : sent[l - k + i] \in FromPayload
    BY <1>1, <2>2, SMT
  <2> DEFINE c == Contents(obc)
  <2>4. c = [i \in 1..k |-> c[i]]
    BY DEF Contents
  <2>5. c \in [1..k -> FromPayload]
    <3> HIDE DEF c
    <3>1. \A i \in 1..k : c[i] \in FromPayload
      BY <1>1, <2>3 DEF c
    <3> QED
      BY <2>4, <3>1
  <2> HIDE DEF c, k
  <2>6. c \in Seq(FromPayload)
    BY <1>1, <2>5, SMT
  <2>7. DOMAIN c = 1..k
    BY <2>5
  <2>8. Len(c) = k
    BY <1>1, <2>6, <2>7, SMT
  <2> QED
    BY <2>6, <2>8 DEF c
<1>3. d \in Nat /\ d <= l /\ y \in Seq(FromPayload) /\ Len(y) = l - d /\ \A i \in 1..(l - d) : y[i] = sent[d + i]
  <2>1. d \in Nat /\ d <= l
    BY <1>1
  <2> HIDE DEF d
  <2>2. y \in Seq(FromPayload) /\ Len(y) = l - d /\ \A i \in 1..(l - d) : y[i] = sent[d + i]
    BY <1>1, <2>1, SMT
  <2> QED
    BY <2>1, <2>2
<1>4. CASE held
  <2>1. InHand = <<packet>> /\ d = l - k - 1 /\ packet = sent[l - k]
    BY <1>1, <1>4 DEF InHand
  <2>2. packet \in FromPayload
    BY <1>1, <1>4, <2>1, SMT
  <2> DEFINE c == Contents(obc)
  <2>3. x = <<packet>> \o c
    BY <2>1
  <2> HIDE DEF c, x, y, d, l, k, held
  <2>4. c \in Seq(FromPayload) /\ Len(c) = k
    BY <1>2 DEF c
  <2>5. /\ x \in Seq(FromPayload) /\ Len(x) = k + 1 /\ x[1] = packet
        /\ \A i \in 2..(k + 1) : x[i] = c[i - 1]
    BY <1>1, <2>2, <2>3, <2>4, SMT
  <2>6. ASSUME NEW i \in 1..(k + 1) PROVE x[i] = y[i]
    <3>1. i \in 1..(l - d) /\ y[i] = sent[d + i]
      <4>1. i \in 1..(l - d)
        BY <1>1, <2>1, SMT
      <4> QED
        BY <1>3, <4>1
    <3>2. CASE i = 1
      <4>1. d + i = l - k
        BY <1>1, <2>1, <3>2, SMT
      <4> QED
        BY <2>1, <2>5, <3>1, <3>2, <4>1
    <3>3. CASE i # 1
      <4>1. i \in 2..(k + 1) /\ i - 1 \in 1..k /\ l - k + (i - 1) = d + i
        BY <1>1, <2>1, <3>3, SMT
      <4>2. c[i - 1] = sent[l - k + (i - 1)]
        BY <1>1, <4>1 DEF c
      <4> QED
        BY <2>5, <3>1, <4>1, <4>2
    <3> QED
      BY <3>2, <3>3
  <2>7. l - d = k + 1
    BY <1>1, <2>1, SMT
  <2>8. x = y
    BY <1>3, <2>5, <2>6, <2>7, SameSequence
  <2> QED
    BY <2>8 DEF x, y, d, l
<1>5. CASE ~held
  <2>1. InHand = <<>> /\ d = l - k
    BY <1>1, <1>5 DEF InHand
  <2> DEFINE c == Contents(obc)
  <2>2. x = c
    <3>1. x = <<>> \o c
      BY <2>1
    <3>2. c \in Seq(FromPayload)
      BY <1>2
    <3> HIDE DEF c, x
    <3> QED
      BY <3>1, <3>2, Concats
  <2> HIDE DEF c, x, y, d, l, k, held
  <2>3. l - d = k /\ \A i \in 1..k : d + i = l - k + i
    BY <1>1, <2>1, SMT
  <2>4. \A i \in 1..k : c[i] = y[i]
    BY <1>1, <1>3, <2>3 DEF c
  <2>5. c = y
    BY <1>2, <1>3, <2>3, <2>4, SameSequence DEF c
  <2> QED
    BY <2>2, <2>5 DEF x, y, d, l
<1> QED
  BY <1>4, <1>5

(* From the handshake on the user gets what the payloads sent, in their order, nothing left out,
   nothing twice: what was returned, what is queued and what is still in the socket together,
   while the client runs; and what was returned and queued, as a beginning of it, also when it
   is being closed, which posts a semaphore nobody pushed for. *)
THEOREM HandedInOrder == Spec => []ReceivesInOrder
<1>1. IInv /\ Ledger => ReceivesInOrder
  <2> SUFFICES ASSUME IInv, Ledger PROVE ReceivesInOrder
    OBVIOUS
  <2>0. Books
    BY BooksKept
  <2> DEFINE all == SubSeq(sent, setup + 1, Len(sent))
             got == handed \o recvQueue
  <2>1. ASSUME NEW n, HandedUpTo(n)
        PROVE  /\ Taken(SubSeq(sent, n + 1, Len(sent))) \in Seq(ForUser)
               /\ Taken(all) = got \o Taken(SubSeq(sent, n + 1, Len(sent)))
    <3> DEFINE front == SubSeq(sent, setup + 1, n)
               rest == SubSeq(sent, n + 1, Len(sent))
    <3>1. /\ n \in 0..Len(sent) /\ setup \in 0..n /\ sent \in Seq(FromPayload)
          /\ got = Taken(front) /\ Len(sent) \in Nat
      <4>1. n \in setup..Len(sent) /\ got = Taken(front)
        BY <2>1 DEF HandedUpTo
      <4>2. setup \in Nat /\ Len(sent) \in Nat /\ sent \in Seq(FromPayload)
        BY <2>0 DEF Books
      <4> HIDE DEF got, front
      <4> QED
        BY <4>1, <4>2, SMT
    <3>2. front \o rest = all
      BY <3>1, SubSeqParts
    <3>3. front \in Seq(FromPayload) /\ rest \in Seq(FromPayload)
      BY <3>1, SMT
    <3> HIDE DEF front, rest, all, got
    <3>4. Taken(front \o rest) = Taken(front) \o Taken(rest) /\ Taken(rest) \in Seq(ForUser)
      BY <3>3, TakenConcat, TakenTyped
    <3> QED
      BY <3>1, <3>2, <3>4 DEF rest
  <2>2. got \in Seq(ForUser)
    BY <2>0, Concats DEF Books
  <2>3. main = "run" => handed \o recvQueue \o Taken(InHand \o Contents(obc)) = Taken(all)
    <3> SUFFICES ASSUME main = "run" PROVE got \o Taken(InHand \o Contents(obc)) = Taken(all)
      OBVIOUS
    <3>1. HandedUpTo(Dealt)
      BY DEF Ledger
    <3>2. InHand \o Contents(obc) = SubSeq(sent, Dealt + 1, Len(sent))
      BY StillToDeal
    <3>3. Taken(all) = got \o Taken(SubSeq(sent, Dealt + 1, Len(sent)))
      BY <2>1, <3>1
    <3> QED
      BY <3>2, <3>3
  <2>4. setup > 0 => IsPrefix(handed \o recvQueue, Taken(all))
    <3> SUFFICES ASSUME setup > 0 PROVE IsPrefix(got, Taken(all))
      OBVIOUS
    <3>1. \E n : HandedUpTo(n)
      BY <2>0 DEF Ledger, Books
    <3>2. PICK n : HandedUpTo(n)
      BY <3>1
    <3> DEFINE r == Taken(SubSeq(sent, n + 1, Len(sent)))
               t == Taken(all)
    <3>3. r \in Seq(ForUser) /\ t = got \o r
      BY <2>1, <3>2
    <3> HIDE DEF r, t, got, all
    <3>4. IsPrefix(got, t)
      BY <2>2, <3>3, PrefixOfConcat
    <3> QED
      BY <3>4 DEF t
  <2> QED
    BY <2>3, <2>4 DEF ReceivesInOrder
<1> QED
  BY <1>1, LedgerInductive, PTL
===============================================================================
