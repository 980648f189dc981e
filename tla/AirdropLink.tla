----------------------------- MODULE AirdropLink -----------------------------
(***************************************************************************)
(* AirdropClient: the handshake with the payloads, the background receive  *)
(* thread, senders, and the destructor.                                    *)
(*                                                                         *)
(* Two queues carry the packets, one in each direction.  Three threads of  *)
(* the client use them: main (constructor, destructor), spam (resets until *)
(* the handshake) and worker (receives); handlers send.  The payloads are  *)
(* external: one thread of theirs sends, another receives.                 *)
(*                                                                         *)
(* The build links one of two sockets, which socket names for a behaviour: *)
(* the tests' "mock", whose queues are rings with a semaphore, or "udp",   *)
(* whose queues are the buffers of the computers.  A datagram arrives or   *)
(* is lost, and is lost when the buffer is full; a thread asleep in        *)
(* recvfrom wakes for the next datagram, as the mock's does for the next   *)
(* packet.  They differ in what a full queue does to send(), and in what   *)
(* close_ad_socket does to a thread that receives.  Datagrams are neither  *)
(* reordered nor duplicated.                                               *)
(*                                                                         *)
(* A packet is its header.  "mode" is SET_MODE, "beat" a heartbeat of a    *)
(* known airdrop; Others are the rest, heartbeats of unknown airdrops      *)
(* included, and so is "zero", what zeroed memory reads as.  Heartbeat     *)
(* times and the modes themselves are abstracted.                          *)
(***************************************************************************)
EXTENDS PacketQueue, Sequences, SequencesExt

CONSTANTS
    Handlers,   \* threads that call send()
    Others,     \* packets for the user of the client
    Copies,     \* times send() sends a packet: eight
    MaxSent     \* bound on the packets of the payloads that arrive

ASSUME CopiesAssumption  == Copies \in Nat \ {0}
ASSUME MaxSentAssumption == MaxSent \in Nat
ASSUME HandlersAssumption == Handlers \intersect {"main", "spam", "worker"} = {}
ASSUME OthersAssumption   == Others \intersect {"mode", "beat", "zero"} = {}

VARIABLES
    socket,        \* which socket is linked; it never changes
    obc, payload,  \* obc_queue and payload_queue
    main,          \* where the constructor or the destructor is
    spam, worker,  \* where the threads are
    stopSpam,      \* stop
    stopWorker,    \* stop_worker
    recv,          \* where the client's recv_ad_packet is
    packet,        \* what it returned
    peer,          \* where the payloads' recv_ad_packet is
    sending,       \* where each producer's send_ad_packet is, and what it sends
    left,          \* copies left in each handler's send()
    recvQueue,     \* recv_queue
    sent,          \* history: packets the payloads sent that arrived
    setup,         \* history: how many of them the handshake took
    handed         \* history: packets receive() returned

recvVars == <<recv, packet, recvQueue>>
peerVars == <<peer, sent>>
history  == <<setup, handed>>
vars == <<socket, obc, payload, main, spam, worker, stopSpam, stopWorker, recvVars, peerVars,
          sending, left, history>>

ForUser     == Others \cup {"zero"}
FromPayload == ForUser \cup {"mode", "beat"}
ToPayload   == {"reset", "ack", "data", "zero"}
Producers   == Handlers \cup {"main", "spam", "worker"}
Sockets     == {"mock", "udp"}
Sends == [at : {"idle", "check", "push"}, what : ToPayload]
Idle == [at |-> "idle", what |-> "zero"]

TypeOK ==
    /\ socket \in Sockets
    /\ obc \in QueueOf(FromPayload) /\ payload \in QueueOf(ToPayload)
    /\ main \in {"setup", "join", "ack", "run", "close", "wait", "gone"}
    /\ spam \in {"send", "sleep", "gone"} /\ worker \in {"none", "run", "ack", "gone"}
    /\ stopSpam \in BOOLEAN /\ stopWorker \in BOOLEAN
    /\ recv \in {"begin", "sleep", "pop", "done"} /\ packet \in FromPayload
    /\ peer \in {"begin", "sleep", "pop"}
    /\ sending \in [Producers -> Sends] /\ left \in [Handlers -> 0..Copies]
    /\ recvQueue \in Seq(ForUser) /\ handed \in Seq(Others)
    /\ sent \in Seq(FromPayload) /\ Len(sent) <= MaxSent /\ setup \in 0..MaxSent

Init ==
    /\ socket \in Sockets
    /\ obc = EmptyQueue("zero") /\ payload = EmptyQueue("zero")
    /\ main = "setup" /\ spam = "send" /\ worker = "none"
    /\ stopSpam = FALSE /\ stopWorker = FALSE
    /\ recv = "begin" /\ packet = "zero" /\ peer = "begin"
    /\ sending = [p \in Producers |-> Idle] /\ left = [h \in Handlers |-> 0]
    /\ recvQueue = <<>> /\ sent = <<>> /\ setup = 0 /\ handed = <<>>

-------------------------------------------------------------------------------
(* send_ad_packet.  The mock's test for a full queue and its push are two holds of _mutex. *)

Begin(p, what) == sending' = [sending EXCEPT ![p] = [at |-> "check", what |-> what]]

Checked(p) ==
    /\ socket = "mock" /\ sending[p].at = "check"
    /\ sending' = [sending EXCEPT ![p] = IF IsFull(payload) THEN Idle ELSE [@ EXCEPT !.at = "push"]]
    /\ left' = IF p \in Handlers /\ IsFull(payload) THEN [left EXCEPT ![p] = 0] ELSE left
    /\ UNCHANGED <<socket, obc, payload, main, spam, worker, stopSpam, stopWorker, recvVars,
                   peerVars, history>>

Push(p) ==
    /\ sending[p].at = "push"
    /\ payload' = Pushed(payload, sending[p].what)
    /\ sending' = [sending EXCEPT ![p] = Idle]
    /\ UNCHANGED <<socket, obc, main, spam, worker, stopSpam, stopWorker, recvVars, peerVars, left,
                   history>>

\* close_ad_socket has closed the descriptor.
Closed == socket = "udp" /\ main \in {"wait", "gone"}

\* sendto has no way to tell a datagram that is lost.
SendDatagram(p) ==
    /\ socket = "udp" /\ sending[p].at = "check"
    /\ \/ ~Closed /\ ~IsFull(payload) /\ payload' = Pushed(payload, sending[p].what)
       \/ UNCHANGED payload
    /\ sending' = [sending EXCEPT ![p] = Idle]
    /\ UNCHANGED <<socket, obc, main, spam, worker, stopSpam, stopWorker, recvVars, peerVars, left,
                   history>>

\* send(): gives up at the first copy that finds the mock's queue full.
SendBegin(h) ==
    /\ main = "run" /\ sending[h].at = "idle" /\ left[h] = 0
    /\ Begin(h, "data")
    /\ left' = [left EXCEPT ![h] = Copies - 1]
    /\ UNCHANGED <<socket, obc, payload, main, spam, worker, stopSpam, stopWorker, recvVars,
                   peerVars, history>>

SendCopy(h) ==
    /\ sending[h].at = "idle" /\ left[h] > 0
    /\ Begin(h, "data")
    /\ left' = [left EXCEPT ![h] = @ - 1]
    /\ UNCHANGED <<socket, obc, payload, main, spam, worker, stopSpam, stopWorker, recvVars,
                   peerVars, history>>

-------------------------------------------------------------------------------
(* The payloads.  Their sender is the only producer of obc_queue.          *)

PeerSend(what) ==
    /\ Len(sent) < MaxSent /\ ~IsFull(obc) /\ main # "gone"
    /\ obc' = Pushed(obc, what) /\ sent' = Append(sent, what)
    /\ UNCHANGED <<socket, payload, main, spam, worker, stopSpam, stopWorker, recvVars, peer,
                   sending, left, history>>

PeerReceive ==
    /\ \/ /\ peer = "begin" /\ main # "gone" /\ IsEmpty(payload)
          /\ payload' = Waiting(payload) /\ peer' = "sleep"
       \/ /\ peer = "begin" /\ main # "gone" /\ ~IsEmpty(payload)
          /\ peer' = "pop" /\ UNCHANGED payload
       \/ /\ peer = "sleep" /\ payload.sem > 0
          /\ payload' = Woken(payload) /\ peer' = "pop"
       \/ /\ peer = "pop"
          /\ payload' = Popped(payload) /\ peer' = "begin"
    /\ UNCHANGED <<socket, obc, main, spam, worker, stopSpam, stopWorker, recvVars, sent, sending,
                   left, history>>

-------------------------------------------------------------------------------
(* recv_ad_packet in the client: first main calls it, then worker.         *)

Receiving == main = "setup" \/ worker = "run"

RecvBegin ==
    /\ Receiving /\ recv = "begin" /\ ~Closed
    /\ \/ IsEmpty(obc) /\ obc' = Waiting(obc) /\ recv' = "sleep"
       \/ ~IsEmpty(obc) /\ recv' = "pop" /\ UNCHANGED obc
    /\ UNCHANGED <<socket, payload, main, spam, worker, stopSpam, stopWorker, packet, recvQueue,
                   peerVars, sending, left, history>>

\* A recvfrom of a closed descriptor fails at once; the packet is as it was, zeroed.
RecvFails ==
    /\ Receiving /\ recv = "begin" /\ Closed
    /\ recv' = "done" /\ packet' = "zero"
    /\ UNCHANGED <<socket, obc, payload, main, spam, worker, stopSpam, stopWorker, recvQueue,
                   peerVars, sending, left, history>>

RecvWake ==
    /\ Receiving /\ recv = "sleep" /\ obc.sem > 0
    /\ obc' = Woken(obc) /\ recv' = "pop"
    /\ UNCHANGED <<socket, payload, main, spam, worker, stopSpam, stopWorker, packet, recvQueue,
                   peerVars, sending, left, history>>

RecvPop ==
    /\ Receiving /\ recv = "pop"
    /\ packet' = FrontPacket(obc) /\ obc' = Popped(obc) /\ recv' = "done"
    /\ UNCHANGED <<socket, payload, main, spam, worker, stopSpam, stopWorker, recvQueue, peerVars,
                   sending, left, history>>

-------------------------------------------------------------------------------
(* The constructor.                                                        *)

SpamReset ==
    /\ spam = "send"
    /\ Begin("spam", "reset") /\ spam' = "sleep"
    /\ UNCHANGED <<socket, obc, payload, main, worker, stopSpam, stopWorker, recvVars, peerVars,
                   left, history>>

SpamWakes ==
    /\ spam = "sleep" /\ sending["spam"].at = "idle"
    /\ spam' = IF stopSpam THEN "gone" ELSE "send"
    /\ UNCHANGED <<socket, obc, payload, main, worker, stopSpam, stopWorker, recvVars, peerVars,
                   sending, left, history>>

\* _establishConnection takes packets until one is SET_MODE.
SetupPacket ==
    /\ main = "setup" /\ recv = "done"
    /\ recv' = "begin"
    /\ \/ /\ packet = "mode"
          /\ stopSpam' = TRUE /\ main' = "join"
          /\ setup' = Len(sent) - obc.num
       \/ /\ packet # "mode"
          /\ UNCHANGED <<stopSpam, main, setup>>
    /\ UNCHANGED <<socket, obc, payload, spam, worker, stopWorker, packet, recvQueue, peerVars,
                   sending, left, handed>>

NotJoined == main = "join"

SpamJoined == main = "join" /\ spam = "gone"

Acknowledge ==
    /\ SpamJoined
    /\ Begin("main", "ack") /\ main' = "ack"
    /\ UNCHANGED <<socket, obc, payload, spam, worker, stopSpam, stopWorker, recvVars, peerVars,
                   left, history>>

StartWorker ==
    /\ main = "ack" /\ sending["main"].at = "idle"
    /\ main' = "run" /\ worker' = "run"
    /\ UNCHANGED <<socket, obc, payload, spam, stopSpam, stopWorker, recvVars, peerVars, sending,
                   left, history>>

-------------------------------------------------------------------------------
(* _receiveWorker                                                          *)

QueuedFirst == <<packet>> \o recvQueue

Queued == Append(recvQueue, packet)

\* stop_worker is read twice after each packet; a TRUE the second time drops the packet too.
WorkerPacket ==
    /\ worker = "run" /\ recv = "done"
    /\ \/ /\ stopWorker
          /\ worker' = "gone"
          /\ UNCHANGED <<recv, recvQueue, sending>>
       \/ /\ ~stopWorker /\ packet = "beat"
          /\ recv' = "begin"
          /\ UNCHANGED <<worker, recvQueue, sending>>
       \/ /\ ~stopWorker /\ packet = "mode"
          /\ Begin("worker", "ack") /\ worker' = "ack"
          /\ UNCHANGED <<recv, recvQueue>>
       \/ /\ ~stopWorker /\ packet \in ForUser
          /\ recvQueue' = Queued /\ recv' = "begin"
          /\ UNCHANGED <<worker, sending>>
    /\ UNCHANGED <<socket, obc, payload, main, spam, stopSpam, stopWorker, packet, peerVars, left,
                   history>>

WorkerAcked ==
    /\ worker = "ack" /\ sending["worker"].at = "idle"
    /\ worker' = "run" /\ recv' = "begin"
    /\ UNCHANGED <<socket, obc, payload, main, spam, stopSpam, stopWorker, packet, recvQueue,
                   peerVars, sending, left, history>>

\* receive()
Receive ==
    /\ main = "run" /\ recvQueue # <<>>
    /\ handed' = Append(handed, Head(recvQueue)) /\ recvQueue' = Tail(recvQueue)
    /\ UNCHANGED <<socket, obc, payload, main, spam, worker, stopSpam, stopWorker, recv, packet,
                   peerVars, sending, left, setup>>

-------------------------------------------------------------------------------
(* The destructor.  No handler holds a pointer to the client any more.     *)

StopForgotten == main' = "close" /\ UNCHANGED stopWorker

StopBeforeClose == main' = "close" /\ stopWorker' = TRUE

Destroy ==
    /\ main = "run"
    /\ \A h \in Handlers : sending[h].at = "idle" /\ left[h] = 0
    /\ StopBeforeClose
    /\ UNCHANGED <<socket, obc, payload, spam, worker, stopSpam, recvVars, peerVars, sending, left,
                   history>>

\* The mock wakes whoever waits; close(), which the shipped socket calls, wakes nobody.
CloseSocket ==
    /\ main = "close" /\ main' = "wait"
    /\ \/ socket = "mock" /\ obc' = Posted(obc) /\ payload' = Posted(payload)
       \/ socket = "udp" /\ UNCHANGED <<obc, payload>>
    /\ UNCHANGED <<socket, spam, worker, stopSpam, stopWorker, recvVars, peerVars, sending, left,
                   history>>

WorkerJoined ==
    /\ main = "wait" /\ worker = "gone"
    /\ main' = "gone"
    /\ UNCHANGED <<socket, obc, payload, spam, worker, stopSpam, stopWorker, recvVars, peerVars,
                   sending, left, history>>

-------------------------------------------------------------------------------
Client ==
    \/ RecvBegin \/ RecvFails \/ RecvWake \/ RecvPop
    \/ SetupPacket \/ Acknowledge \/ StartWorker
    \/ WorkerPacket \/ WorkerAcked
    \/ CloseSocket \/ WorkerJoined

Spam == SpamReset \/ SpamWakes

SendStep(p) == Checked(p) \/ Push(p) \/ SendDatagram(p)

Send == \E p \in Producers : SendStep(p)

Next ==
    \/ Client \/ Spam \/ Send \/ Receive \/ Destroy
    \/ \E h \in Handlers : SendBegin(h) \/ SendCopy(h)
    \/ \E what \in FromPayload \ {"zero"} : PeerSend(what)
    \/ PeerReceive

Spec == Init /\ [][Next]_vars

\* The client's threads go on; payloads and handlers may do nothing any more.
FairSpec ==
    /\ Spec /\ WF_vars(Client) /\ WF_vars(Spam)
    /\ \A p \in Producers : WF_vars(SendStep(p))

-------------------------------------------------------------------------------
\* The packets of s that are for the user, in order.
Taken(s) == FlattenSeq([i \in DOMAIN s |-> IF s[i] \in ForUser THEN <<s[i]>> ELSE <<>>])

\* What main or worker has taken from the queue and not dealt with.
InHand == IF worker = "run" /\ recv = "done" THEN <<packet>> ELSE <<>>

(* "Receives oldest packet since last receive() call": from the handshake on, what receive()
   returned, what it will return and what is still in the socket are the packets the payloads
   sent, in order, each once, without those the client keeps for itself.  The post that closes a
   queue wakes a thread for a packet that is not there; such a packet is not handed out,
   because stop_worker was set before. *)
ReceivesInOrder ==
    /\ main = "run" =>
        handed \o recvQueue \o Taken(InHand \o Contents(obc))
            = Taken(SubSeq(sent, setup + 1, Len(sent)))
    /\ setup > 0 =>
        IsPrefix(handed \o recvQueue, Taken(SubSeq(sent, setup + 1, Len(sent))))

(* A reset that follows the acknowledgement would undo the handshake in the payloads. *)
NoResetAfterAck ==
    worker = "none" =>
        \A i, j \in DOMAIN Contents(payload) :
            Contents(payload)[i] = "ack" /\ i < j => Contents(payload)[j] # "reset"

(* A SET_MODE in the socket ends the constructor, also when packets come before it and while
   the payloads leave the resets unread. *)
ConstructorReturns ==
    (\E i \in DOMAIN sent : sent[i] = "mode") ~> main \notin {"setup", "join", "ack"}

\* The receive thread is asleep in recvfrom, and nothing is there to wake it.
LeftAsleep == socket = "udp" /\ main = "wait" /\ worker = "run" /\ recv = "sleep" /\ obc.sem = 0

(* The destructor's wait for the receive thread ends, wherever the thread was: asleep for a
   packet, about to sleep, or answering.  Not with the shipped socket and a thread asleep in
   recvfrom, which "get[s] kicked out of the recv call" by no close(): the destructor then waits
   for a datagram, for ever when the payloads are silent. *)
DestructorReturns == main = "close" ~> (main = "gone" \/ []LeftAsleep)
===============================================================================
