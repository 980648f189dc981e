----------------------------- MODULE PacketQueue -----------------------------
(***************************************************************************)
(* The queue of mock/packet_queue.c as operators: a ring of Capacity       *)
(* packets, and a semaphore for the threads that wait for one.  A thread   *)
(* that finds the queue empty counts itself as waiting and sleeps on the   *)
(* semaphore; when it wakes it takes the front packet, whether there is    *)
(* one or not.  Each operator is what happens under one hold of _mutex.    *)
(***************************************************************************)
EXTENDS Integers

CONSTANTS
    Capacity,   \* MAX_PACKETS
    SizeMax     \* one more than the largest size_t

ASSUME CapacityAssumption == Capacity \in Nat \ {0}
ASSUME SizeMaxAssumption  == SizeMax \in Nat /\ SizeMax > Capacity + 2

Slots == 0..(Capacity - 1)

QueueOf(Packets) ==
    [arr : [Slots -> Packets], front : Slots, back : Slots, num : 0..(SizeMax - 1),
     waiting : Nat, sem : Nat]

\* pqueue_init; static memory is zero.
EmptyQueue(zero) ==
    [arr |-> [i \in Slots |-> zero], front |-> 0, back |-> 0, num |-> 0, waiting |-> 0, sem |-> 0]

After(i) == (i + 1) % Capacity

IsFull(q)  == q.num = Capacity
IsEmpty(q) == q.num = 0

\* pqueue_push: somebody who waits is woken.
Pushed(q, packet) ==
    [q EXCEPT !.arr[q.back] = packet,
              !.back = After(q.back),
              !.num = (q.num + 1) % SizeMax,
              !.waiting = IF @ > 0 THEN @ - 1 ELSE @,
              !.sem = IF q.waiting > 0 THEN @ + 1 ELSE @]

FrontPacket(q) == q.arr[q.front]

\* pqueue_pop
Popped(q) == [q EXCEPT !.front = After(q.front), !.num = (q.num - 1) % SizeMax]

\* pqueue_wait_pop, before and after its sem_wait.
WaitingUncounted(q) == q

Waiting(q) == [q EXCEPT !.waiting = @ + 1]
Woken(q)   == [q EXCEPT !.sem = @ - 1]

NotPosted(q) == q

\* close_ad_socket posts the semaphore of each queue, and pushes nothing.
Posted(q) == [q EXCEPT !.sem = @ + 1]

\* The packets in the queue, oldest first, while there are no more than it holds.
Contents(q) == [i \in 1..q.num |-> q.arr[(q.front + i - 1) % Capacity]]
===============================================================================
