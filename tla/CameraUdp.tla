------------------------------ MODULE CameraUdp ------------------------------
(***************************************************************************)
(* RPICamera and UDPClient: pictures fetched from the camera's computer    *)
(* over one UDP socket, which the tick thread and the GCS handlers share   *)
(* without a lock.                                                         *)
(*                                                                         *)
(* A picture is sent as planes; a plane is a header, which tells its size, *)
(* and chunks, which tell their number but neither their plane nor their   *)
(* request.  The camera is external.  It answers a request for a picture   *)
(* with all its planes in order, and a ping with a pong.                   *)
(*                                                                         *)
(* What may go wrong in a behaviour is fixed by trouble: datagrams are     *)
(* lost ("loss"), an answer takes longer than the timeout ("late"), calls  *)
(* overlap ("overlap").  Datagrams are not reordered.                      *)
(*                                                                         *)
(* Abstracted: pixels (a chunk is where it comes from), telemetry, clocks. *)
(* A call on a socket that is not open fails at once and changes nothing;  *)
(* so does opening a socket that is open.  Neither has an action.          *)
(***************************************************************************)
EXTENDS Integers, Sequences, SequencesExt

CONSTANTS
    Callers,      \* the tick thread and the handlers
    Planes,       \* three in the code: Y, U and V
    Chunks,       \* total_chunks of each plane
    MaxRequests   \* bound on the requests sent to the camera

ASSUME PlanesAssumption   == Planes \in Nat \ {0}
ASSUME ChunksAssumption   == Chunks \in [1..Planes -> Nat \ {0}]
ASSUME RequestsAssumption == MaxRequests \in Nat

Troubles == {"loss", "late", "overlap"}

VARIABLES
    trouble,    \* what may go wrong
    open,       \* socket_ is open
    connected,  \* RPICamera::connected
    requests,   \* requests sent to the camera
    sending,    \* datagrams on their way from the camera
    queue,      \* datagrams in the socket's buffer
    pc,         \* where each caller is
    ready,      \* waitForData has returned true
    request,    \* the request of the call
    header,     \* the plane whose header recvHeader returned
    chunks,     \* recvBody: where the content of each chunk received comes from
    planes,     \* readImage: the planes received
    result      \* how the last call ended

sockVars == <<trouble, open, connected>>
readVars == <<header, chunks, planes>>
vars == <<sockVars, requests, sending, queue, pc, ready, request, readVars, result>>

PlaneNums  == 1..Planes
Indices(p) == 0..(Chunks[p] - 1)

Header(r, p)   == [kind |-> "header", request |-> r, plane |-> p, index |-> 0]
Chunk(r, p, i) == [kind |-> "chunk", request |-> r, plane |-> p, index |-> i]
Pong(r)        == [kind |-> "pong", request |-> r, plane |-> 1, index |-> 0]

Source(d) == [request |-> d.request, plane |-> d.plane]
Sources   == [request : 1..requests, plane : PlaneNums]

\* A plane as it should be.
Whole(r, p) == [i \in Indices(p) |-> [request |-> r, plane |-> p]]

\* Every chunk of one plane of one request, at its place, and nothing else.
IsOnePlane(plane) == \E s \in Sources : plane = Whole(s.request, s.plane)

Waiting == {"header", "body", "ping", "connect"}

TypeOK ==
    /\ trouble \subseteq Troubles /\ open \in BOOLEAN /\ connected \in BOOLEAN
    /\ requests \in 0..MaxRequests
    /\ \A d \in Range(sending) \cup Range(queue) :
           /\ d.kind \in {"header", "chunk", "pong"} /\ Source(d) \in Sources
           /\ d.index \in Indices(d.plane)
    /\ pc \in [Callers -> Waiting \cup {"idle"}] /\ ready \in [Callers -> BOOLEAN]
    /\ request \in [Callers -> 0..requests] /\ header \in [Callers -> PlaneNums]
    /\ \A c \in Callers :
           /\ DOMAIN chunks[c] \subseteq Indices(header[c]) /\ Range(chunks[c]) \subseteq Sources
           /\ Len(planes[c]) < Planes
           /\ result[c].kind \in {"none", "failed", "connected", "picture"}

Init ==
    /\ trouble \in SUBSET Troubles
    /\ open = FALSE /\ connected = FALSE
    /\ requests = 0 /\ sending = <<>> /\ queue = <<>>
    /\ pc = [c \in Callers |-> "idle"] /\ ready = [c \in Callers |-> FALSE]
    /\ request = [c \in Callers |-> 0] /\ header = [c \in Callers |-> 1]
    /\ chunks = [c \in Callers |-> <<>>] /\ planes = [c \in Callers |-> <<>>]
    /\ result = [c \in Callers |-> [kind |-> "none"]]

-------------------------------------------------------------------------------
(* The camera and the network.                                             *)

PlaneSent(r, p) == <<Header(r, p)>> \o [i \in 1..Chunks[p] |-> Chunk(r, p, i - 1)]

Picture(r) == FlattenSeq([p \in PlaneNums |-> PlaneSent(r, p)])

Deliver ==
    /\ sending # <<>>
    /\ queue' = Append(queue, Head(sending)) /\ sending' = Tail(sending)
    /\ UNCHANGED <<sockVars, requests, pc, ready, request, readVars, result>>

Lose ==
    /\ "loss" \in trouble /\ sending # <<>>
    /\ sending' = Tail(sending)
    /\ UNCHANGED <<sockVars, requests, queue, pc, ready, request, readVars, result>>

-------------------------------------------------------------------------------
(* Calls begin by sending a request, and never empty the buffer before.    *)

Send(c, answer) ==
    /\ requests < MaxRequests
    /\ requests' = requests + 1
    /\ sending' = sending \o answer
    /\ request' = [request EXCEPT ![c] = requests + 1]
    /\ result' = [result EXCEPT ![c] = [kind |-> "none"]]
    /\ UNCHANGED <<trouble, queue, ready, readVars>>

Begins(c, where) ==
    /\ pc[c] = "idle"
    /\ "overlap" \in trouble \/ \A o \in Callers : pc[o] = "idle"
    /\ pc' = [pc EXCEPT ![c] = where]

TakePicture(c) ==
    /\ open /\ Begins(c, "header") /\ Send(c, Picture(requests + 1))
    /\ UNCHANGED <<open, connected>>

\* isConnected
Ping(c) ==
    /\ open /\ Begins(c, "ping") /\ Send(c, <<Pong(requests + 1)>>)
    /\ UNCHANGED <<open, connected>>

Connect(c) ==
    /\ ~connected /\ ~open /\ Begins(c, "connect") /\ Send(c, <<Pong(requests + 1)>>)
    /\ open' = TRUE
    /\ UNCHANGED connected

-------------------------------------------------------------------------------
(* Calls wait for an answer.                                               *)

\* The call is over; what it has read is dropped.
Return(c, how) ==
    /\ pc' = [pc EXCEPT ![c] = "idle"]
    /\ result' = [result EXCEPT ![c] = how]
    /\ request' = [request EXCEPT ![c] = 0]
    /\ header' = [header EXCEPT ![c] = 1]
    /\ chunks' = [chunks EXCEPT ![c] = <<>>] /\ planes' = [planes EXCEPT ![c] = <<>>]

Fail(c) == Return(c, [kind |-> "failed"])

WaitForData(c) ==
    /\ pc[c] \in Waiting /\ ~ready[c] /\ queue # <<>>
    /\ ready' = [ready EXCEPT ![c] = TRUE]
    /\ UNCHANGED <<sockVars, requests, sending, queue, pc, request, readVars, result>>

TimesOutBetweenPlanes(c) == pc[c] \in Waiting \ {"body"}

TimesOut(c) == pc[c] \in Waiting

Timeout(c) ==
    /\ TimesOut(c) /\ ~ready[c] /\ queue = <<>>
    /\ "late" \in trouble \/ sending = <<>>
    /\ Fail(c)
    /\ UNCHANGED <<sockVars, requests, sending, queue, ready>>

\* receive_from: whoever is first gets the datagram, another caller waits for the next.
Receive(c, where) ==
    /\ pc[c] \in where /\ ready[c] /\ queue # <<>>
    /\ queue' = Tail(queue)
    /\ ready' = [ready EXCEPT ![c] = FALSE]
    /\ UNCHANGED <<trouble, open, requests, sending>>

\* A datagram that is no header has another number where the magic should be.
RecvHeader(c) ==
    /\ Receive(c, {"header"})
    /\ UNCHANGED connected
    /\ \/ /\ Head(queue).kind = "header"
          /\ header' = [header EXCEPT ![c] = Head(queue).plane]
          /\ pc' = [pc EXCEPT ![c] = "body"]
          /\ UNCHANGED <<chunks, planes, request, result>>
       \/ Head(queue).kind # "header" /\ Fail(c)

FitsButLast(c, d) == d.kind = "chunk" /\ d.index + 1 \in Indices(header[c])

\* Long enough for a chunk, and in the bounds of the buffer.  A header, read as a chunk,
\* has the magic for a number, which is out of all bounds.
Fits(c, d) == d.kind = "chunk" /\ d.index \in Indices(header[c])

Ignore(c) ==
    /\ Receive(c, {"body"}) /\ ~Fits(c, Head(queue))
    /\ UNCHANGED <<connected, pc, request, readVars, result>>

CompleteButOne(c, got) == Cardinality(DOMAIN got) + 1 >= Chunks[header[c]]

Complete(c, got) == Cardinality(DOMAIN got) = Chunks[header[c]]

\* readImage has what it expects.
AllPlanes(read) == Len(read) = Planes

\* What recvBody has received, with d, which takes the place of a chunk of its number.
Stored(c, d) ==
    [i \in DOMAIN chunks[c] \cup {d.index} |-> IF i = d.index THEN Source(d) ELSE chunks[c][i]]

\* A chunk is stored; recvBody returns with the last one, readImage with the last plane.
RecvBody(c) ==
    /\ Receive(c, {"body"}) /\ Fits(c, Head(queue))
    /\ UNCHANGED connected
    /\ LET got  == Stored(c, Head(queue))
           read == Append(planes[c], got)
       IN \/ /\ ~Complete(c, got)
             /\ chunks' = [chunks EXCEPT ![c] = got]
             /\ UNCHANGED <<pc, request, header, planes, result>>
          \/ /\ Complete(c, got) /\ ~AllPlanes(read)
             /\ planes' = [planes EXCEPT ![c] = read]
             /\ chunks' = [chunks EXCEPT ![c] = <<>>]
             /\ pc' = [pc EXCEPT ![c] = "header"]
             /\ UNCHANGED <<request, header, result>>
          \/ /\ Complete(c, got) /\ AllPlanes(read)
             /\ Return(c, [kind |-> "picture", request |-> request[c], planes |-> read])

\* recvPing: anything but the ping's byte is a failure.
RecvPing(c) ==
    /\ Receive(c, {"ping", "connect"})
    /\ connected' = (connected \/ (pc[c] = "connect" /\ Head(queue).kind = "pong"))
    /\ \/ Head(queue).kind = "pong" /\ Return(c, [kind |-> "connected"])
       \/ Head(queue).kind # "pong" /\ Fail(c)

-------------------------------------------------------------------------------
Call(c) == TakePicture(c) \/ Ping(c) \/ Connect(c)

Answer(c) ==
    WaitForData(c) \/ Timeout(c) \/ RecvHeader(c) \/ Ignore(c) \/ RecvBody(c) \/ RecvPing(c)

Next == Deliver \/ Lose \/ \E c \in Callers : Call(c) \/ Answer(c)

Spec == Init /\ [][Next]_vars

\* Threads go on, and every datagram arrives or is lost.
FairSpec == Spec /\ WF_vars(Deliver) /\ \A c \in Callers : WF_vars(Answer(c))

-------------------------------------------------------------------------------
(* With the camera in time, no datagram lost and one call at a time, every call succeeds, and
   a picture is the one that was asked for: the bytes left in the buffer by one call, the
   headers and the counts of chunks never shift what the next call reads. *)
UndisturbedCallsSucceed ==
    \A c \in Callers : trouble = {} /\ result[c].kind # "none" =>
        /\ result[c].kind # "failed"
        /\ result[c].kind = "picture" =>
               result[c].planes = [p \in PlaneNums |-> Whole(result[c].request, p)]

(* Also when answers are late, and what is read belongs to an earlier call, a plane is never
   put together from two: recvBody starts behind a header and takes all that belongs to it.
   So is every plane it returned to readImage, and every one of the picture, the last included. *)
PlanesAreNotMixed ==
    \A c \in Callers : trouble \subseteq {"late"} =>
        /\ \A i \in DOMAIN planes[c] : IsOnePlane(planes[c][i])
        /\ result[c].kind = "picture" =>
               \A i \in DOMAIN result[c].planes : IsOnePlane(result[c].planes[i])

(* Whatever is lost or late, every call returns while calls do not overlap: the timeouts of
   waitForData are the only thing that ends a call whose answer never comes. *)
CallsReturn ==
    \A c \in Callers : pc[c] # "idle" /\ "overlap" \notin trouble ~> pc[c] = "idle"

(* "Reads the 3 planes (Y, U, V) from the camera": what takePicture converts is made of one
   chunk of each place of each plane, in order. *)
ReadsThePlanes ==
    \A c \in Callers : result[c].kind = "picture" =>
        \A p \in PlaneNums :
            /\ DOMAIN result[c].planes[p] = Indices(p)
            /\ \A i \in Indices(p) : result[c].planes[p][i].plane = p
===============================================================================
