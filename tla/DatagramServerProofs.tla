------------------------ MODULE DatagramServerProofs ------------------------
(***************************************************************************)
(* Proofs about DatagramServer for any endpoints, ids, datagrams and       *)
(* closes: its state is well typed, its two maps are inverse, it goes on   *)
(* receiving, a CUdpServer never crashes, the plugins hear of an endpoint  *)
(* in order, and the sessions they have are known to the server.           *)
(***************************************************************************)
EXTENDS DatagramServer, TLAPS

\* A leaf that names no prover is left to the SMT solver.
USE SMTT(20)

Events == {"connect", "data", "disconnect"}
----------------------------------------------------------------------------
(* Types.  TypeOK in parts, one for the variables that change together;    *)
(* a thread that handles a datagram or a close has the id of one.          *)

FlagsOK ==
    /\ io_type \in {"udp", "kcp"}
    /\ open \in BOOLEAN /\ crashed \in BOOLEAN
    /\ datagrams \in 0 .. MaxDatagrams

ListsOK ==
    /\ ids \in 0 .. MaxIds
    /\ udp_endpoint_2_id_list \in [Endpoints -> 0 .. ids]
    /\ udp_id_2_endpoint_list \in [Ids -> Endpoints \cup {NoEndpoint}]

Steps == {"receive", "new", "add", "handle", "use", "update", "over"}
Received == {"none", "packets", "bad", "empty", "noinit"}

IoOK ==
    /\ io \in [at : Steps, id : 0 .. ids, data : Received]
    /\ io.at \notin {"receive", "over"} => io.id \in 1 .. ids

QueueOK == closes \in Seq(1 .. ids) /\ Len(closes) <= MaxCloses

ClosingOK ==
    /\ closing \in [Threads -> [at : {"idle", "tell", "erase"}, id : 0 .. ids]]
    /\ \A t \in Threads : closing[t].at # "idle" => closing[t].id \in 1 .. ids

SetsOK == /\ left \subseteq 0 .. ids /\ freed \subseteq 1 .. ids
          /\ sessions \subseteq 1 .. ids /\ met \subseteq 1 .. ids

ToldOK == told \in [Ids -> Seq(Events)]

TInv == FlagsOK /\ ListsOK /\ IoOK /\ QueueOK /\ ClosingOK /\ SetsOK /\ ToldOK

\* The parts are TypeOK.
LEMMA TypesOfParts == TInv => TypeOK
  <1> SUFFICES ASSUME TInv PROVE TypeOK
    OBVIOUS
  <1>1. /\ FlagsOK /\ ListsOK /\ QueueOK /\ SetsOK
        /\ io \in [at : Steps, id : 0 .. ids, data : Received]
        /\ closing \in [Threads -> [at : {"idle", "tell", "erase"}, id : 0 .. ids]]
        /\ told \in [Ids -> Seq(Events)]
    BY DEF TInv, IoOK, ClosingOK, ToldOK
  <1> QED
    BY <1>1, Zenon DEF TypeOK, FlagsOK, ListsOK, QueueOK, SetsOK, Steps, Received, Events

\* A part keeps its types when its variables keep their values.
LEMMA Framed ==
    ASSUME TInv, ids' = ids
    PROVE  /\ UNCHANGED <<io_type, open, crashed, datagrams>> => FlagsOK'
           /\ UNCHANGED maps => ListsOK'
           /\ io' = io => IoOK'
           /\ closes' = closes => QueueOK'
           /\ closing' = closing => ClosingOK'
           /\ UNCHANGED <<left, freed, sessions, met>> => SetsOK'
           /\ told' = told => ToldOK'
  <1>1. FlagsOK /\ ListsOK /\ IoOK /\ QueueOK /\ ClosingOK /\ SetsOK /\ ToldOK
    BY DEF TInv
  <1>2. UNCHANGED <<io_type, open, crashed, datagrams>> => FlagsOK'
    BY <1>1, Zenon DEF FlagsOK
  <1>3. UNCHANGED maps => ListsOK'
    BY <1>1, Zenon DEF ListsOK, maps
  <1>4. io' = io => IoOK'
    BY <1>1, Zenon DEF IoOK
  <1>5. closes' = closes => QueueOK'
    BY <1>1, Zenon DEF QueueOK
  <1>6. closing' = closing => ClosingOK'
    BY <1>1, Zenon DEF ClosingOK
  <1>7. UNCHANGED <<left, freed, sessions, met>> => SetsOK'
    BY <1>1, Zenon DEF SetsOK
  <1>8. told' = told => ToldOK'
    BY <1>1, Zenon DEF ToldOK
  <1> QED
    BY <1>2, <1>3, <1>4, <1>5, <1>6, <1>7, <1>8, Zenon

\* A known id was given out.
LEMMA KnownIsGiven ==
    ASSUME ListsOK, MapsAgree, NEW id \in Ids, Known(id) PROVE id \in 1 .. ids
  <1>1. udp_id_2_endpoint_list[id] \in Endpoints
    BY DEF ListsOK, Known
  <1>2. udp_endpoint_2_id_list[udp_id_2_endpoint_list[id]] = id
    BY <1>1 DEF MapsAgree
  <1>3. id \in 0 .. ids /\ id \in Nat \ {0}
    BY <1>1, <1>2, BoundsOK DEF ListsOK, Ids
  <1> QED
    BY <1>3, BoundsOK DEF ListsOK

\* An event more leaves a sequence of events.
LEMMA TellType ==
    ASSUME ToldOK, NEW id \in Ids, NEW event \in Events, Tell(id, event)
    PROVE  ToldOK'
  BY DEF Tell, ToldOK

\* Erasing leaves lists of the same type.
LEMMA EraseType ==
    ASSUME ListsOK, ids' = ids, NEW id \in Ids, Erase(id)
    PROVE  ListsOK'
  BY BoundsOK DEF Erase, ListsOK

\* An id that was given out is one of Ids.
LEMMA GivenIsId == ASSUME ListsOK, NEW id \in 1 .. ids PROVE id \in Ids
  BY BoundsOK DEF ListsOK, Ids

\* A thread begins a close with its id ...
LEMMA ClosingBegins ==
    ASSUME ListsOK, ClosingOK, ids' = ids, NEW t \in Threads, NEW id \in 1 .. ids,
           NEW at \in {"tell", "erase"},
           closing' = [closing EXCEPT ![t] = [at |-> at, id |-> id]]
    PROVE  ClosingOK'
  BY BoundsOK DEF ClosingOK, ListsOK

\* ... and is idle at its end.
LEMMA ClosingEnds ==
    ASSUME ListsOK, ClosingOK, ids' = ids, NEW t \in Threads,
           closing' = [closing EXCEPT ![t] = Idle]
    PROVE  ClosingOK'
  BY BoundsOK DEF ClosingOK, ListsOK, Idle

\* What is left of a sequence without its first element.
LEMMA HeadAndTail ==
    ASSUME NEW S, NEW s \in Seq(S), s # <<>>
    PROVE  /\ Head(s) \in S /\ Tail(s) \in Seq(S)
           /\ Len(Tail(s)) = Len(s) - 1 /\ Len(s) \in Nat
           /\ \A i \in 1 .. Len(Tail(s)) : Tail(s)[i] = s[i + 1]
           /\ 1 \in 1 .. Len(s) /\ Head(s) = s[1]
  OBVIOUS

\* The first close is taken from the queue.
LEMMA QueuePops ==
    ASSUME QueueOK, ids' = ids, closes # <<>>, closes' = Tail(closes)
    PROVE  QueueOK' /\ Head(closes) \in 1 .. ids
  <1>1. closes \in Seq(1 .. ids)
    BY DEF QueueOK
  <1>2. /\ Head(closes) \in 1 .. ids /\ Tail(closes) \in Seq(1 .. ids)
        /\ Len(Tail(closes)) = Len(closes) - 1 /\ Len(closes) \in Nat
    BY <1>1, HeadAndTail, Zenon
  <1> QED
    BY <1>2, BoundsOK DEF QueueOK

\* A function stays one of its kind when it gets another value somewhere.
LEMMA StillFunction ==
    ASSUME NEW D, NEW R, NEW f \in [D -> R], NEW i, NEW v \in R
    PROVE  [f EXCEPT ![i] = v] \in [D -> R]
  BY Zenon

\* An element of a sequence is in its set.
LEMMA ElementIn == ASSUME NEW S, NEW s \in Seq(S), NEW i \in 1 .. Len(s) PROVE s[i] \in S
  OBVIOUS

\* A sequence over a set is one over a larger set.
LEMMA SeqGrows == ASSUME NEW S, NEW T, S \subseteq T, NEW s \in Seq(S) PROVE s \in Seq(T)
  OBVIOUS

\* A datagram: its endpoint has an id, or gets the next one.
LEMMA ArriveTypes ==
    ASSUME TInv, NEW e \in Endpoints, NEW data \in {"packets", "bad", "empty", "noinit"},
           Arrive(e, data)
    PROVE  TInv'
  <1>1. FlagsOK /\ ListsOK /\ IoOK /\ QueueOK /\ ClosingOK /\ SetsOK /\ ToldOK
    BY DEF TInv
  <1>2. /\ datagrams < MaxDatagrams /\ datagrams' = datagrams + 1
        /\ UNCHANGED <<io_type, open, closes, closing, left, sessions, told, crashed>>
    BY Zenon DEF Arrive, ArriveAs
  <1>3. FlagsOK'
    <2>1. datagrams' \in 0 .. MaxDatagrams
      BY <1>1, <1>2, BoundsOK DEF FlagsOK
    <2> QED
      BY <1>1, <1>2, <2>1, Zenon DEF FlagsOK
  <1>4. ToldOK'
    BY <1>1, <1>2, Zenon DEF ToldOK
  <1>5. CASE udp_endpoint_2_id_list[e] # 0
    <2>1. /\ UNCHANGED <<maps, ids, freed, met>>
          /\ io' = [at |-> "handle", id |-> udp_endpoint_2_id_list[e], data |-> data]
      BY <1>5, Zenon DEF Arrive, ArriveAs
    <2>2. udp_endpoint_2_id_list[e] \in 1 .. ids
      BY <1>1, <1>5, BoundsOK DEF ListsOK
    <2>3. IoOK'
      BY <1>1, <2>1, <2>2, BoundsOK DEF IoOK, ListsOK, Steps, Received
    <2> QED
      BY <1>2, <1>3, <1>4, <2>1, <2>3, Framed, Zenon DEF TInv
  <1>6. CASE udp_endpoint_2_id_list[e] = 0
    <2>1. /\ ids < MaxIds /\ ids' = ids + 1
          /\ udp_endpoint_2_id_list' = [udp_endpoint_2_id_list EXCEPT ![e] = ids + 1]
          /\ udp_id_2_endpoint_list' = [udp_id_2_endpoint_list EXCEPT ![ids + 1] = e]
          /\ io' = [at |-> IF data = "noinit" THEN "over" ELSE "new",
                    id |-> ids + 1, data |-> data]
          /\ freed' = IF data = "noinit" THEN {ids + 1} \cup freed ELSE freed
          /\ met' = IF data = "noinit" \/ left # {} THEN {ids + 1} \cup met ELSE met
      BY <1>6, Zenon DEF Arrive, ArriveAs
    <2>2. ids' \in 1 .. MaxIds /\ ids' \in 1 .. ids' /\ 0 .. ids \subseteq 0 .. ids'
          /\ 1 .. ids \subseteq 1 .. ids'
      BY <1>1, <2>1, BoundsOK DEF ListsOK
    <2>3. ListsOK'
      <3>1. udp_endpoint_2_id_list \in [Endpoints -> 0 .. ids']
        BY <1>1, <2>2 DEF ListsOK
      <3>2. udp_endpoint_2_id_list' \in [Endpoints -> 0 .. ids']
        BY <2>1, <2>2, <3>1
      <3>3. udp_id_2_endpoint_list' \in [Ids -> Endpoints \cup {NoEndpoint}]
        <4>1. e \in Endpoints \cup {NoEndpoint}
          OBVIOUS
        <4> QED
          BY <1>1, <2>1, <4>1, StillFunction, Zenon DEF ListsOK
      <3> QED
        BY <2>2, <3>2, <3>3, BoundsOK DEF ListsOK
    <2>4. IoOK'
      BY <2>1, <2>2 DEF IoOK, Steps, Received
    <2>5. QueueOK'
      BY <1>1, <1>2, <2>2, SeqGrows, Zenon DEF QueueOK
    <2>6. ClosingOK'
      BY <1>1, <1>2, <2>2 DEF ClosingOK
    <2>7. SetsOK'
      <3>1. freed' \subseteq freed \cup {ids'} /\ met' \subseteq met \cup {ids'}
        BY <2>1
      <3> QED
        BY <1>1, <1>2, <2>2, <3>1 DEF SetsOK
    <2> QED
      BY <1>3, <1>4, <2>3, <2>4, <2>5, <2>6, <2>7 DEF TInv
  <1> QED
    BY <1>5, <1>6

\* Of the IO thread's other steps all but the first two only move it on.
IoMoves == \/ LocalEndpoint \/ LocalEndpointThrows \/ KcpFind \/ KcpSkip
           \/ KcpUpdate \/ UdpEmpty \/ ReceiveError

\* Where they move it to.
LEMMA IoMovesTo ==
    ASSUME IoMoves
    PROVE  /\ \E at \in {"add", "use", "receive", "over"} :
                 /\ io' = [io EXCEPT !.at = at]
                 /\ at = "add" => io.at = "new"
                 /\ at = "use" => io.at = "handle"
                 /\ io.at \in {"new", "add"} => at = "add" \/ (at = "over" /\ ~open)
                 /\ io.at # "over"
           /\ UNCHANGED <<io_type, open, maps, ids, datagrams, closes, closing, left,
                          freed, sessions, told, met>>
  <1>1. CASE LocalEndpoint
    BY <1>1, Zenon DEF LocalEndpoint
  <1>2. CASE LocalEndpointThrows
    BY <1>2, Zenon DEF LocalEndpointThrows, ThrowsFrom, Over
  <1>3. CASE KcpFind
    BY <1>3, Zenon DEF KcpFind
  <1>4. CASE KcpSkip
    BY <1>4, Zenon DEF KcpSkip, ReceiveAgain
  <1>5. CASE KcpUpdate
    BY <1>5, Zenon DEF KcpUpdate, ReceiveAgain
  <1>6. CASE UdpEmpty
    BY <1>6, Zenon DEF UdpEmpty, Over
  <1>7. CASE ReceiveError
    BY <1>7, Zenon DEF ReceiveError, Over
  <1> QED
    BY <1>1, <1>2, <1>3, <1>4, <1>5, <1>6, <1>7, Zenon DEF IoMoves

\* A step with the same datagram has an id if it had one before.
LEMMA IoType ==
    ASSUME IoOK, ids' = ids, NEW at \in Steps, io' = [io EXCEPT !.at = at],
           at \notin {"receive", "over"} => io.at \notin {"receive", "over"}
    PROVE  IoOK'
  BY DEF IoOK

\* Only one of them touches crashed, which stays a truth value.
LEMMA IoMovesTypes == ASSUME TInv, IoMoves PROVE TInv'
  <1>1. FlagsOK /\ IoOK
    BY DEF TInv
  <1>2. PICK at \in {"add", "use", "receive", "over"} :
              /\ io' = [io EXCEPT !.at = at]
              /\ at = "add" => io.at = "new"
              /\ at = "use" => io.at = "handle"
    BY IoMovesTo
  <1>3. UNCHANGED <<io_type, open, maps, ids, datagrams, closes, closing, left,
                    freed, sessions, told, met>>
    BY IoMovesTo, Zenon
  <1>4. IoOK'
    BY <1>1, <1>2, <1>3, IoType DEF Steps
  <1>5. crashed' \in BOOLEAN
    <2>1. crashed' = crashed \/ crashed' = (io_type \in {"kcp"})
      BY Zenon DEF IoMoves, LocalEndpoint, LocalEndpointThrows, ThrowsFrom, KcpFind,
                   KcpSkip, KcpUpdate, UdpEmpty, ReceiveError
    <2>2. (io_type \in {"kcp"}) \in BOOLEAN
      OBVIOUS
    <2> QED
      BY <1>1, <2>1, <2>2, Zenon DEF FlagsOK
  <1>6. FlagsOK'
    BY <1>1, <1>3, <1>5, Zenon DEF FlagsOK
  <1> QED
    BY <1>3, <1>4, <1>6, Framed, Zenon DEF TInv

\* AddSession, Refuse and Deliver, which also tell somebody something.
LEMMA IoTellsTypes ==
    ASSUME TInv, AddSession \/ Refuse \/ Deliver
    PROVE  TInv'
  <1>1. ListsOK /\ IoOK /\ QueueOK /\ SetsOK /\ ToldOK
    BY DEF TInv
  <1>2. io.at \in {"add", "handle", "use"}
    BY Zenon DEF AddSession, Refuse, RefuseThen, Deliver, HandlesAt
  <1>3. io.id \in 1 .. ids
    BY <1>1, <1>2 DEF IoOK
  <1>4. io.id \in Ids
    BY <1>1, <1>3, GivenIsId
  <1>5. /\ UNCHANGED <<io_type, open, maps, ids, datagrams, closing, left, freed,
                       crashed, met>>
        /\ \E at \in {"handle", "update", "receive", "over"} : io' = [io EXCEPT !.at = at]
    BY Zenon DEF AddSession, Refuse, RefuseThen, Deliver, Parsed, ReceiveAgain
  <1>6. IoOK'
    BY <1>1, <1>2, <1>5, IoType DEF Steps
  <1>7. CASE AddSession
    <2>1. sessions' = sessions \cup {io.id} /\ Tell(io.id, "connect") /\ closes' = closes
      BY <1>7, Zenon DEF AddSession
    <2>2. SetsOK'
      BY <1>1, <1>3, <1>5, <2>1 DEF SetsOK
    <2>3. ToldOK'
      BY <1>1, <1>4, <2>1, TellType DEF Events
    <2> QED
      BY <1>5, <1>6, <2>1, <2>2, <2>3, Framed, Zenon DEF TInv
  <1>8. CASE Refuse
    <2>1. /\ Len(closes) < MaxCloses /\ closes' = Append(closes, io.id)
          /\ UNCHANGED <<sessions, told>>
      BY <1>8, Zenon DEF Refuse, RefuseThen
    <2>2. QueueOK'
      BY <1>1, <1>3, <1>5, <2>1, BoundsOK DEF QueueOK
    <2> QED
      BY <1>5, <1>6, <2>1, <2>2, Framed, Zenon DEF TInv
  <1>9. CASE Deliver
    <2>1. Tell(io.id, "data") /\ UNCHANGED <<sessions, closes>>
      BY <1>9, Zenon DEF Deliver
    <2>2. ToldOK'
      BY <1>1, <1>4, <2>1, TellType DEF Events
    <2> QED
      BY <1>5, <1>6, <2>1, <2>2, Framed, Zenon DEF TInv
  <1> QED
    BY <1>7, <1>8, <1>9

\* A close that is asked for.
LEMMA AskCloseTypes == ASSUME TInv, NEW id \in Ids, AskClose(id) PROVE TInv'
  <1>1. QueueOK /\ SetsOK
    BY DEF TInv
  <1>2. /\ id \in sessions /\ Len(closes) < MaxCloses /\ closes' = Append(closes, id)
        /\ UNCHANGED <<io_type, open, maps, ids, io, datagrams, closing, left,
                       freed, sessions, told, crashed, met>>
    BY Zenon DEF AskClose
  <1>3. QueueOK'
    BY <1>1, <1>2, BoundsOK DEF QueueOK, SetsOK
  <1> QED
    BY <1>2, <1>3, Framed, Zenon DEF TInv

\* The three steps of CUdpServer::close.
LEMMA UdpCloseTypes == ASSUME TInv, UdpClose \/ UdpTell \/ UdpErase PROVE TInv'
  <1>0. "work" \in Threads
    BY DEF Threads
  <1>1. ListsOK /\ QueueOK /\ ClosingOK /\ SetsOK /\ ToldOK
    BY DEF TInv
  <1>2. CASE UdpClose
    <2>1. /\ closes # <<>> /\ closes' = Tail(closes)
          /\ UNCHANGED <<io_type, open, maps, ids, io, datagrams, left, freed,
                         sessions, told, crashed, met>>
          /\ \/ closing' = closing
             \/ closing' = [closing EXCEPT !["work"] = [at |-> "tell", id |-> Head(closes)]]
      BY <1>2, Zenon DEF UdpClose, UdpCloseIf
    <2>2. Head(closes) \in 1 .. ids /\ QueueOK'
      BY <1>1, <2>1, QueuePops
    <2>3. closing' # closing => ClosingOK'
      BY <1>0, <1>1, <2>1, <2>2, ClosingBegins, Zenon
    <2> QED
      BY <2>1, <2>2, <2>3, Framed, Zenon DEF TInv
  <1>3. CASE UdpTell
    <2>1. /\ closing["work"].at = "tell"
          /\ closing' = [closing EXCEPT !["work"].at = "erase"]
          /\ sessions' = sessions \ {closing["work"].id}
          /\ Tell(closing["work"].id, "disconnect")
          /\ UNCHANGED <<io_type, open, maps, ids, io, datagrams, closes, left, freed,
                         crashed, met>>
      BY <1>3, Zenon DEF UdpTell, DeleteThreadSession
    <2>2. closing["work"].id \in 1 .. ids
      BY <1>0, <1>1, <2>1 DEF ClosingOK
    <2>3. ClosingOK'
      <3>1. closing["work"] \in [at : {"idle", "tell", "erase"}, id : 0 .. ids]
        BY <1>0, <1>1 DEF ClosingOK
      <3>2. [closing["work"] EXCEPT !.at = "erase"] = [at |-> "erase", id |-> closing["work"].id]
        BY <3>1
      <3>3. closing' = [closing EXCEPT !["work"] = [at |-> "erase", id |-> closing["work"].id]]
        BY <2>1, <3>2, Zenon
      <3> QED
        BY <1>0, <1>1, <2>1, <2>2, <3>3, ClosingBegins, Zenon
    <2>4. SetsOK'
      BY <1>1, <2>1 DEF SetsOK
    <2>5. ToldOK'
      BY <1>1, <2>1, <2>2, GivenIsId, TellType DEF Events
    <2> QED
      BY <2>1, <2>3, <2>4, <2>5, Framed, Zenon DEF TInv
  <1>4. CASE UdpErase
    <2>1. /\ closing["work"].at = "erase" /\ Erase(closing["work"].id)
          /\ closing' = [closing EXCEPT !["work"] = Idle]
          /\ UNCHANGED <<io_type, open, ids, io, datagrams, closes, left, freed,
                         sessions, told, crashed, met>>
      BY <1>4, Zenon DEF UdpErase
    <2>2. closing["work"].id \in 1 .. ids
      BY <1>0, <1>1, <2>1 DEF ClosingOK
    <2>3. ClosingOK'
      BY <1>0, <1>1, <2>1, ClosingEnds, Zenon
    <2>4. ListsOK'
      BY <1>1, <2>1, <2>2, GivenIsId, EraseType
    <2> QED
      BY <2>1, <2>3, <2>4, Framed, Zenon DEF TInv
  <1> QED
    BY <1>2, <1>3, <1>4

\* What a release does to the thread and to the sets, and that crashed stays
\* a truth value.
LEMMA ReleaseTypes ==
    ASSUME ListsOK, ClosingOK, SetsOK, ids' = ids, NEW t \in Threads, NEW id \in 1 .. ids,
           KcpRelease(t, id)
    PROVE  /\ ClosingOK' /\ crashed' \in BOOLEAN
           /\ freed' \subseteq 1 .. ids /\ met' \subseteq 1 .. ids
  <1>1. CASE Known(id)
    <2>1. /\ closing' = [closing EXCEPT ![t] = [at |-> "erase", id |-> id]]
          /\ freed' = freed \cup {id} /\ met' = met \cup ({id} \cap freed)
          /\ crashed' = FALSE \/ crashed' = (id \in freed)
      BY <1>1, Zenon DEF KcpRelease
    <2>2. ClosingOK'
      BY <2>1, ClosingBegins, Zenon
    <2>3. (id \in freed) \in BOOLEAN
      OBVIOUS
    <2>4. crashed' \in BOOLEAN
      BY <2>1, <2>3, Zenon
    <2>5. freed' \subseteq 1 .. ids /\ met' \subseteq 1 .. ids
      BY <2>1 DEF SetsOK
    <2> QED
      BY <2>2, <2>4, <2>5
  <1>2. CASE ~Known(id)
    <2>1. crashed' = TRUE /\ UNCHANGED <<freed, closing, met>>
      BY <1>2, Zenon DEF KcpRelease
    <2> QED
      BY <2>1, Zenon DEF ClosingOK, SetsOK
  <1> QED
    BY <1>1, <1>2

\* CKcpServer::close of an id, on either thread.
LEMMA KcpCloseTypes ==
    ASSUME TInv, KcpClose \/ \E id \in Ids : KcpCloseLeft(id) PROVE TInv'
  <1>1. FlagsOK /\ ListsOK /\ QueueOK /\ ClosingOK /\ SetsOK
    BY DEF TInv
  <1>2. "work" \in Threads /\ "server" \in Threads
    BY DEF Threads
  <1>3. CASE KcpClose
    <2>1. /\ closes # <<>> /\ closes' = Tail(closes) /\ KcpRelease("work", Head(closes))
          /\ UNCHANGED <<io_type, open, maps, ids, io, datagrams, left, sessions, told>>
      BY <1>3, Zenon DEF KcpClose
    <2>2. QueueOK' /\ Head(closes) \in 1 .. ids
      BY <1>1, <2>1, QueuePops, Zenon
    <2>3. /\ ClosingOK' /\ crashed' \in BOOLEAN
          /\ freed' \subseteq 1 .. ids /\ met' \subseteq 1 .. ids
      BY <1>1, <1>2, <2>1, <2>2, ReleaseTypes, Zenon
    <2>4. FlagsOK' /\ SetsOK'
      BY <1>1, <2>1, <2>3, Zenon DEF FlagsOK, SetsOK
    <2> QED
      BY <2>1, <2>2, <2>3, <2>4, Framed, Zenon DEF TInv
  <1>4. ASSUME NEW id \in Ids, KcpCloseLeft(id) PROVE TInv'
    <2>1. /\ id \in left /\ id # 0 /\ left' = left \ {id} /\ KcpRelease("server", id)
          /\ UNCHANGED <<io_type, open, maps, ids, io, datagrams, closes, sessions, told>>
      BY <1>4, Zenon DEF KcpCloseLeft
    <2>2. id \in 1 .. ids
      BY <1>1, <2>1, BoundsOK DEF SetsOK, ListsOK
    <2>3. /\ ClosingOK' /\ crashed' \in BOOLEAN
          /\ freed' \subseteq 1 .. ids /\ met' \subseteq 1 .. ids
      BY <1>1, <1>2, <2>1, <2>2, ReleaseTypes, Zenon
    <2>4. FlagsOK' /\ SetsOK'
      BY <1>1, <2>1, <2>3, Zenon DEF FlagsOK, SetsOK
    <2> QED
      BY <2>1, <2>3, <2>4, Framed, Zenon DEF TInv
  <1> QED
    BY <1>3, <1>4, Zenon

\* The end of it.
LEMMA KcpEraseTypes == ASSUME TInv, NEW t \in Threads, KcpErase(t) PROVE TInv'
  <1>1. ListsOK /\ ClosingOK /\ SetsOK /\ ToldOK
    BY DEF TInv
  <1>2. /\ closing[t].at = "erase" /\ Erase(closing[t].id)
        /\ sessions' = sessions \ {closing[t].id} /\ Tell(closing[t].id, "disconnect")
        /\ closing' = [closing EXCEPT ![t] = Idle]
        /\ UNCHANGED <<io_type, open, ids, io, datagrams, closes, left, freed,
                       crashed, met>>
    BY Zenon DEF KcpErase, DeleteThreadSession
  <1>3. closing[t].id \in 1 .. ids
    BY <1>1, <1>2 DEF ClosingOK
  <1>4. closing[t].id \in Ids /\ "disconnect" \in Events
    BY <1>1, <1>3, GivenIsId DEF Events
  <1>5. ClosingOK'
    BY <1>1, <1>2, ClosingEnds, Zenon
  <1>6. ListsOK' /\ ToldOK'
    BY <1>1, <1>2, <1>4, EraseType, TellType, Zenon
  <1>7. SetsOK'
    BY <1>1, <1>2, Zenon DEF SetsOK
  <1> QED
    BY <1>2, <1>5, <1>6, <1>7, Framed, Zenon DEF TInv

\* The steps that begin and end the close of a server.
LEMMA ServerTypes ==
    ASSUME TInv, MapsAgree,
           \/ UdpCloseServer \/ KcpCloseServer \/ KcpSocketClose
           \/ \E id \in Ids : UdpTellLeft(id)
    PROVE  TInv'
  <1>1. FlagsOK /\ ListsOK /\ IoOK /\ SetsOK /\ ToldOK
    BY DEF TInv
  <1>2. {id \in Ids : Known(id)} \subseteq 1 .. ids
    BY <1>1, KnownIsGiven
  <1>3. CASE UdpCloseServer
    <2>1. /\ open' = FALSE /\ left' = {id \in Ids : Known(id)} /\ met' \subseteq left'
          /\ udp_endpoint_2_id_list' = [e \in Endpoints |-> 0]
          /\ udp_id_2_endpoint_list' = [id \in Ids |-> NoEndpoint]
          /\ UNCHANGED <<io_type, ids, io, datagrams, closes, closing, freed, sessions,
                         told, crashed>>
      BY <1>3, Zenon DEF UdpCloseServer
    <2>2. FlagsOK'
      BY <1>1, <2>1, Zenon DEF FlagsOK
    <2>3. ListsOK'
      BY <1>1, <2>1, BoundsOK DEF ListsOK
    <2>4. SetsOK'
      BY <1>1, <1>2, <2>1 DEF SetsOK
    <2> QED
      BY <2>1, <2>2, <2>3, <2>4, Framed, Zenon DEF TInv
  <1>4. CASE KcpCloseServer
    <2>1. /\ left' = {id \in Ids : Known(id)} \cup {0}
          /\ met' = met \/ (io.at \in {"new", "add"} /\ met' = met \cup {io.id})
          /\ UNCHANGED <<io_type, open, maps, ids, io, datagrams, closes, closing,
                         freed, sessions, told, crashed>>
      BY <1>4 DEF KcpCloseServer
    <2>2. met' \subseteq 1 .. ids
      <3>1. io.at \in {"new", "add"} => io.id \in 1 .. ids
        BY <1>1 DEF IoOK
      <3> QED
        BY <1>1, <2>1, <3>1, Zenon DEF SetsOK
    <2>3. SetsOK'
      BY <1>1, <1>2, <2>1, <2>2, BoundsOK DEF SetsOK, ListsOK
    <2> QED
      BY <2>1, <2>3, Framed, Zenon DEF TInv
  <1>5. CASE KcpSocketClose
    <2>1. /\ open' = FALSE /\ left' = {}
          /\ UNCHANGED <<io_type, maps, ids, io, datagrams, closes, closing, freed,
                         sessions, told, crashed, met>>
      BY <1>5, Zenon DEF KcpSocketClose
    <2>2. FlagsOK' /\ SetsOK'
      BY <1>1, <2>1, Zenon DEF FlagsOK, SetsOK
    <2> QED
      BY <2>1, <2>2, Framed, Zenon DEF TInv
  <1>6. ASSUME NEW id \in Ids, UdpTellLeft(id) PROVE TInv'
    <2>1. /\ left' = left \ {id} /\ sessions' = sessions \ {id} /\ Tell(id, "disconnect")
          /\ UNCHANGED <<io_type, open, maps, ids, io, datagrams, closes, closing,
                         freed, crashed, met>>
      BY <1>6, Zenon DEF UdpTellLeft, DeleteThreadSession
    <2>2. SetsOK' /\ ToldOK'
      BY <1>1, <2>1, TellType, Zenon DEF SetsOK, Events
    <2> QED
      BY <2>1, <2>2, Framed, Zenon DEF TInv
  <1> QED
    BY <1>3, <1>4, <1>5, <1>6, Zenon

\* The steps by kind, the way the proofs below go through them.
LEMMA StepsByKind ==
    ASSUME [Next]_vars
    PROVE  \/ \E e \in Endpoints, data \in {"packets", "bad", "empty", "noinit"} :
                 Arrive(e, data)
           \/ IoMoves \/ AddSession \/ Refuse \/ Deliver
           \/ \E id \in Ids : AskClose(id)
           \/ UdpClose \/ UdpTell \/ UdpErase
           \/ KcpClose \/ (\E id \in Ids : KcpCloseLeft(id))
           \/ \E t \in Threads : KcpErase(t)
           \/ UdpCloseServer \/ KcpCloseServer \/ KcpSocketClose
           \/ \E id \in Ids : UdpTellLeft(id)
           \/ KcpUsesFreed
           \/ UNCHANGED vars
  <1>1. "work" \in Threads /\ "server" \in Threads
    BY DEF Threads
  <1> QED
    BY <1>1, Zenon DEF Next, IoThread, WorkThread, ServerThread, IoMoves

\* Every step keeps the types and the ids of busy threads.
LEMMA NextTInv == ASSUME TInv, MapsAgree, [Next]_vars PROVE TInv'
  <1>1. CASE KcpUsesFreed
    <2>1. /\ crashed' = TRUE
          /\ UNCHANGED <<io_type, open, maps, ids, io, datagrams, closes, closing,
                         left, freed, sessions, told, met>>
      BY <1>1, Zenon DEF KcpUsesFreed
    <2>2. FlagsOK'
      BY <2>1, Zenon DEF TInv, FlagsOK
    <2> QED
      BY <2>1, <2>2, Framed, Zenon DEF TInv
  <1>2. CASE UNCHANGED vars
    BY <1>2, Framed, Zenon DEF vars, TInv
  <1> QED
    BY <1>1, <1>2, StepsByKind, ArriveTypes, IoMovesTypes, IoTellsTypes, AskCloseTypes,
       UdpCloseTypes, KcpCloseTypes, KcpEraseTypes, ServerTypes, Zenon
----------------------------------------------------------------------------
(* The two lists are inverse to each other. *)

\* An id that is erased takes its endpoint with it.
LEMMA EraseAgrees ==
    ASSUME ListsOK, MapsAgree, NEW id \in Ids, Erase(id) PROVE MapsAgree'
  BY EndpointsOK, BoundsOK DEF ListsOK, MapsAgree, Erase, Ids

\* The steps that leave the lists alone.
LEMMA MapsKept ==
    \/ IoMoves \/ AddSession \/ Refuse \/ Deliver
    \/ (\E id \in Ids : AskClose(id)) \/ UdpClose \/ UdpTell
    \/ KcpClose \/ (\E id \in Ids : KcpCloseLeft(id)) \/ KcpCloseServer \/ KcpSocketClose
    \/ (\E id \in Ids : UdpTellLeft(id)) \/ KcpUsesFreed \/ UNCHANGED vars
    => UNCHANGED maps
  <1>1. IoMoves => UNCHANGED maps
    BY IoMovesTo, Zenon
  <1>2. AddSession \/ Refuse \/ Deliver => UNCHANGED maps
    BY Zenon DEF AddSession, Refuse, RefuseThen, Deliver
  <1>3. (\E id \in Ids : AskClose(id)) \/ UdpClose \/ UdpTell => UNCHANGED maps
    BY Zenon DEF AskClose, UdpClose, UdpCloseIf, UdpTell
  <1>4. KcpClose \/ (\E id \in Ids : KcpCloseLeft(id)) => UNCHANGED maps
    BY Zenon DEF KcpClose, KcpCloseLeft
  <1>5. KcpCloseServer \/ KcpSocketClose => UNCHANGED maps
    BY Zenon DEF KcpCloseServer, KcpSocketClose
  <1>6. (\E id \in Ids : UdpTellLeft(id)) \/ KcpUsesFreed \/ UNCHANGED vars => UNCHANGED maps
    BY Zenon DEF UdpTellLeft, KcpUsesFreed, vars
  <1> QED
    BY <1>1, <1>2, <1>3, <1>4, <1>5, <1>6, Zenon

\* A new id has no endpoint yet and a new endpoint no id; the other steps
\* that write the lists empty them or erase an id from both.
LEMMA NextMapsAgree == ASSUME TInv, MapsAgree, [Next]_vars PROVE MapsAgree'
  <1>0. ListsOK /\ ClosingOK
    BY DEF TInv
  <1>1. UNCHANGED maps => MapsAgree'
    BY DEF maps, MapsAgree
  <1>2. ASSUME NEW e \in Endpoints, NEW data \in {"packets", "bad", "empty", "noinit"},
               Arrive(e, data)
        PROVE  MapsAgree'
    <2>1. CASE udp_endpoint_2_id_list[e] # 0
      BY <1>1, <1>2, <2>1, Zenon DEF Arrive, ArriveAs
    <2>2. CASE udp_endpoint_2_id_list[e] = 0
      <3>0. /\ ids < MaxIds
            /\ udp_endpoint_2_id_list' = [udp_endpoint_2_id_list EXCEPT ![e] = ids + 1]
            /\ udp_id_2_endpoint_list' = [udp_id_2_endpoint_list EXCEPT ![ids + 1] = e]
        BY <1>2, <2>2, Zenon DEF Arrive, ArriveAs
      <3>1. ids + 1 \in Ids /\ ids + 1 \notin 1 .. ids
        BY <1>0, <3>0, BoundsOK DEF ListsOK, Ids
      <3>2. udp_id_2_endpoint_list[ids + 1] = NoEndpoint
        BY <1>0, <3>1, KnownIsGiven, Zenon DEF Known
      <3>3. \A f \in Endpoints : udp_endpoint_2_id_list[f] # ids + 1
        BY <1>0, BoundsOK DEF ListsOK
      <3>4. \A id \in Ids : udp_id_2_endpoint_list[id] # e
        BY <2>2, BoundsOK DEF MapsAgree, Ids
      <3> QED
        BY <1>0, <3>0, <3>1, <3>2, <3>3, <3>4, EndpointsOK DEF MapsAgree, ListsOK
    <2> QED
      BY <2>1, <2>2
  <1>3. CASE UdpCloseServer
    <2>1. /\ udp_endpoint_2_id_list' = [e \in Endpoints |-> 0]
          /\ udp_id_2_endpoint_list' = [id \in Ids |-> NoEndpoint]
      BY <1>3, Zenon DEF UdpCloseServer
    <2> QED
      BY <2>1, EndpointsOK, BoundsOK DEF MapsAgree, Ids
  <1>4. ASSUME NEW t \in Threads, Erase(closing[t].id), closing[t].at = "erase"
        PROVE  MapsAgree'
    <2>1. closing[t].id \in 1 .. ids
      BY <1>0, <1>4 DEF ClosingOK
    <2> QED
      BY <1>0, <1>4, <2>1, GivenIsId, EraseAgrees, Zenon
  <1>5. UdpErase => MapsAgree'
    BY <1>4, Zenon DEF UdpErase, Threads
  <1>6. \A t \in Threads : KcpErase(t) => MapsAgree'
    BY <1>4, Zenon DEF KcpErase
  <1> QED
    BY <1>1, <1>2, <1>3, <1>5, <1>6, StepsByKind, MapsKept, Zenon
----------------------------------------------------------------------------
(* Where a crash comes from. *)

\* A CKcpServer releases a kcpcb_ before it erases the entries of its id; a
\* CUdpServer has none.
Released ==
    /\ io_type = "udp" => freed = {}
    /\ io_type = "kcp" => \A t \in Threads :
          /\ closing[t].at # "tell"
          /\ closing[t].at = "erase" => closing[t].id \in freed
    /\ io_type = "kcp" /\ freed = {} => \A id \in 1 .. ids : Known(id)

\* A release by either thread: the kcpcb_ of a known id is released before
\* the entries go, and an unknown id was released before.
LEMMA ReleaseReleases ==
    ASSUME ClosingOK, Released, io_type = "kcp", NEW t \in Threads, NEW id \in 1 .. ids,
           KcpRelease(t, id), UNCHANGED <<io_type, open, maps, ids>>
    PROVE  Released' /\ CrashCause'
  <1>1. freed' # {}
    BY Zenon DEF KcpRelease, Released
  <1>2. \A u \in Threads :
           /\ closing'[u].at # "tell"
           /\ closing'[u].at = "erase" => closing'[u].id \in freed'
    <2>1. CASE Known(id)
      <3>1. /\ closing' = [closing EXCEPT ![t] = [at |-> "erase", id |-> id]]
            /\ freed' = freed \cup {id}
        BY <2>1, Zenon DEF KcpRelease
      <3> QED
        BY <3>1 DEF Released, ClosingOK
    <2>2. CASE ~Known(id)
      BY <2>2, Zenon DEF KcpRelease, Released
    <2> QED
      BY <2>1, <2>2
  <1> QED
    BY <1>1, <1>2, Zenon DEF Released, CrashCause

\* Only a release frees a kcpcb_ or sends a CKcpServer's thread to erase; an
\* id loses its entries after that, and a crash waits for it or for the close
\* of the socket.
LEMMA NextReleased ==
    ASSUME TInv, Released, CrashCause, [Next]_vars
    PROVE  Released' /\ CrashCause'
  <1>0. FlagsOK /\ ListsOK /\ QueueOK /\ ClosingOK /\ SetsOK
    BY DEF TInv
  <1>1. ASSUME UNCHANGED <<io_type, maps, ids, closing, freed>>,
               open' = open \/ open' = FALSE
        PROVE  Released' /\ (crashed' = crashed => CrashCause')
    <2>1. Released'
      BY <1>1, Zenon DEF Released, Known, maps
    <2>2. crashed' = crashed => CrashCause'
      BY <1>1 DEF CrashCause
    <2> QED
      BY <2>1, <2>2
  <1>2. ASSUME NEW e \in Endpoints, NEW data \in {"packets", "bad", "empty", "noinit"},
               Arrive(e, data)
        PROVE  Released' /\ CrashCause'
    <2>0. UNCHANGED <<io_type, open, closing, crashed>>
      BY <1>2, Zenon DEF Arrive, ArriveAs
    <2>1. CASE udp_endpoint_2_id_list[e] # 0
      BY <1>1, <1>2, <2>0, <2>1, Zenon DEF Arrive, ArriveAs
    <2>2. CASE udp_endpoint_2_id_list[e] = 0
      <3>1. /\ ids' = ids + 1 /\ ids < MaxIds
            /\ udp_id_2_endpoint_list' = [udp_id_2_endpoint_list EXCEPT ![ids + 1] = e]
            /\ freed' = freed \/ (io_type = "kcp" /\ freed' = {ids + 1} \cup freed)
        BY <1>2, <2>2, Zenon DEF Arrive, ArriveAs
      <3>2. (\A id \in 1 .. ids : Known(id)) => \A id \in 1 .. ids' : Known(id)'
        BY <1>0, <3>1, EndpointsOK, BoundsOK DEF Known, ListsOK, Ids
      <3> QED
        BY <2>0, <3>1, <3>2, Zenon DEF Released, CrashCause
    <2> QED
      BY <2>1, <2>2
  <1>3. KcpClose => Released' /\ CrashCause'
    BY <1>0, QueuePops, ReleaseReleases, Zenon DEF KcpClose, Threads
  <1>4. ASSUME NEW id \in Ids, KcpCloseLeft(id) PROVE Released' /\ CrashCause'
    <2>1. id \in left /\ id # 0
      BY <1>4, Zenon DEF KcpCloseLeft
    <2>2. id \in 1 .. ids
      BY <1>0, <2>1, BoundsOK DEF SetsOK, ListsOK
    <2> QED
      BY <1>0, <1>4, <2>2, ReleaseReleases, Zenon DEF KcpCloseLeft, Threads
  <1>5. ASSUME NEW t \in Threads, KcpErase(t) PROVE Released' /\ CrashCause'
    <2>1. /\ io_type = "kcp" /\ closing[t].at = "erase"
          /\ closing' = [closing EXCEPT ![t] = Idle]
          /\ UNCHANGED <<io_type, open, ids, freed, crashed>>
      BY <1>5, Zenon DEF KcpErase
    <2>2. freed # {}
      BY <2>1, Zenon DEF Released
    <2>3. \A u \in Threads :
             /\ closing'[u].at # "tell"
             /\ closing'[u].at = "erase" => closing'[u].id \in freed'
      BY <1>0, <2>1 DEF Released, ClosingOK, Idle
    <2> QED
      BY <2>1, <2>2, <2>3, Zenon DEF Released, CrashCause
  <1>6. ASSUME io_type = "udp", UNCHANGED <<io_type, freed, crashed>>
        PROVE  Released' /\ CrashCause'
    BY <1>6, Zenon DEF Released, CrashCause
  <1>7. \/ UdpCloseServer \/ UdpClose \/ UdpErase \/ (UdpTell /\ io_type = "udp")
        => Released' /\ CrashCause'
    BY <1>6, Zenon DEF UdpCloseServer, UdpClose, UdpCloseIf, UdpErase, UdpTell
  <1>8. UdpTell => io_type = "udp"
    BY <1>0, Zenon DEF UdpTell, Released, FlagsOK, Threads
  <1>9. CASE LocalEndpointThrows
    <2>1. /\ ~open /\ crashed' = (io_type \in {"kcp"})
          /\ UNCHANGED <<io_type, open, maps, ids, closing, freed>>
      BY <1>9, Zenon DEF LocalEndpointThrows, ThrowsFrom
    <2> QED
      BY <1>1, <2>1, Zenon DEF CrashCause
  <1>10. CASE KcpUsesFreed
    <2>1. /\ freed # {} /\ UNCHANGED <<io_type, open, maps, ids, closing, freed>>
      BY <1>10, Zenon DEF KcpUsesFreed
    <2>2. io_type = "kcp"
      BY <1>0, <2>1, Zenon DEF Released, FlagsOK
    <2> QED
      BY <1>1, <2>1, <2>2, Zenon DEF CrashCause
  <1>11. \/ KcpSocketClose \/ LocalEndpoint \/ KcpFind \/ KcpSkip \/ KcpUpdate
         \/ UdpEmpty \/ ReceiveError
         => Released' /\ CrashCause'
    BY <1>1, Zenon DEF KcpSocketClose, LocalEndpoint, KcpFind, KcpSkip, KcpUpdate,
                       UdpEmpty, ReceiveError
  <1>12. AddSession \/ Refuse \/ Deliver => Released' /\ CrashCause'
    BY <1>1, Zenon DEF AddSession, Refuse, RefuseThen, Deliver
  <1>13. \/ (\E id \in Ids : AskClose(id) \/ UdpTellLeft(id)) \/ KcpCloseServer
         \/ UNCHANGED vars
         => Released' /\ CrashCause'
    BY <1>1, Zenon DEF AskClose, UdpTellLeft, KcpCloseServer, vars
  <1> QED
    BY <1>2, <1>3, <1>4, <1>5, <1>7, <1>8, <1>9, <1>10, <1>11, <1>12, <1>13,
       StepsByKind, Zenon DEF IoMoves
----------------------------------------------------------------------------
(* The server goes on receiving. *)

\* The IO thread ends on an open socket only at one of the two datagrams, and
\* a socket is not opened again.
LEMMA NextKeepsReceiving ==
    ASSUME TInv, KeepsReceiving, [Next]_vars PROVE KeepsReceiving'
  <1>0. io \in [at : Steps, id : 0 .. ids, data : Received]
    BY DEF TInv, IoOK
  <1>1. ASSUME NEW e \in Endpoints, NEW data \in {"packets", "bad", "empty", "noinit"},
               Arrive(e, data)
        PROVE  KeepsReceiving'
    <2>1. /\ data = "noinit" => io_type = "kcp"
          /\ io_type' = io_type
          /\ \E id : io' = [at |-> "handle", id |-> id, data |-> data]
                     \/ io' = [at |-> IF data = "noinit" THEN "over" ELSE "new",
                               id |-> id, data |-> data]
      BY <1>1, Zenon DEF Arrive, ArriveAs
    <2> QED
      BY <2>1 DEF KeepsReceiving
  <1>2. ASSUME NEW at, io' = [io EXCEPT !.at = at], UNCHANGED <<io_type, open>>,
               at = "over" => ~open \/ (io_type = "udp" /\ io.data = "empty")
        PROVE  KeepsReceiving'
    <2>1. io'.at = at /\ io'.data = io.data
      BY <1>0, <1>2
    <2> QED
      BY <1>2, <2>1, Zenon DEF KeepsReceiving
  <1>3. LocalEndpoint \/ LocalEndpointThrows \/ AddSession => KeepsReceiving'
    BY <1>2, Zenon DEF LocalEndpoint, LocalEndpointThrows, ThrowsFrom, AddSession, Over
  <1>4. Refuse \/ Deliver => KeepsReceiving'
    BY <1>2, Zenon DEF Refuse, RefuseThen, Deliver, Parsed, ReceiveAgain
  <1>5. KcpFind \/ KcpSkip \/ KcpUpdate => KeepsReceiving'
    BY <1>2, Zenon DEF KcpFind, KcpSkip, KcpUpdate, ReceiveAgain
  <1>6. UdpEmpty \/ ReceiveError => KeepsReceiving'
    BY <1>2, Zenon DEF UdpEmpty, ReceiveError, Over
  <1>7. io' = io /\ io_type' = io_type /\ (open' = open \/ open' = FALSE) => KeepsReceiving'
    BY Zenon DEF KeepsReceiving
  <1>8. UdpClose \/ UdpTell \/ UdpErase \/ UdpCloseServer => KeepsReceiving'
    BY <1>7, Zenon DEF UdpClose, UdpCloseIf, UdpTell, UdpErase, UdpCloseServer
  <1>9. KcpClose \/ KcpCloseServer \/ KcpSocketClose \/ KcpUsesFreed => KeepsReceiving'
    BY <1>7, Zenon DEF KcpClose, KcpCloseServer, KcpSocketClose, KcpUsesFreed
  <1>10. \/ \E id \in Ids : AskClose(id) \/ UdpTellLeft(id) \/ KcpCloseLeft(id)
         \/ \E t \in Threads : KcpErase(t)
         \/ UNCHANGED vars
         => KeepsReceiving'
    BY <1>7, Zenon DEF AskClose, UdpTellLeft, KcpCloseLeft, KcpErase, vars
  <1> QED
    BY <1>1, <1>3, <1>4, <1>5, <1>6, <1>8, <1>9, <1>10, StepsByKind, Zenon DEF IoMoves
----------------------------------------------------------------------------
(* What the plugins hear of an id the server's close did not meet.         *)
(*                                                                         *)
(* An id of which nothing was told is on its way to AddSession, or nobody  *)
(* has it.  After its disconnect nobody can tell another: a CUdpServer has *)
(* forgotten the id, or its work thread is about to; a CKcpServer erases   *)
(* the entries in the same step.  Two threads of a CKcpServer close the    *)
(* same id only if the second found its kcpcb_ released, which is what met *)
(* records.                                                                *)

Waits(id) == \E i \in 1 .. Len(closes) : closes[i] = id
ClosedBy(t, id) == closing[t].at # "idle" /\ closing[t].id = id
Closed(id) == \E t \in Threads : ClosedBy(t, id)
Adding(id) == io.at \in {"new", "add"} /\ io.id = id
Handled(id) == io.at \in {"handle", "use", "update"} /\ io.id = id
Stopped == io.at = "over" /\ ~open
Ended(id) == \E i \in 1 .. Len(told[id]) : told[id][i] = "disconnect"

Unheard(id) ==
    /\ id \notin sessions /\ id \notin left
    /\ ~Waits(id) /\ ~Closed(id) /\ ~Handled(id)
    /\ Known(id) => Adding(id) \/ Stopped

UdpFine(id) ==
    /\ id \in left => ~Known(id) /\ ~ClosedBy("work", id)
    /\ id \in sessions => Known(id) \/ id \in left
    /\ ClosedBy("work", id) /\ closing["work"].at = "erase" => id \notin sessions
    /\ Ended(id) => /\ id \notin left
                    /\ Known(id) => ClosedBy("work", id)
                    /\ ClosedBy("work", id) => closing["work"].at = "erase"

KcpFine(id) ==
    /\ ~(ClosedBy("work", id) /\ ClosedBy("server", id))
    /\ id \in sessions => Known(id)
    /\ Ended(id) => ~Known(id) /\ ~Closed(id)

Fine(id) ==
    /\ InOrder(told[id])
    /\ id > ids \/ Adding(id) => told[id] = <<>>
    /\ Adding(id) => Known(id)
    /\ told[id] = <<>> => Unheard(id)
    /\ io_type = "udp" => UdpFine(id)
    /\ io_type = "kcp" => KcpFine(id)

HInv == /\ io_type = "udp" /\ open => left = {} /\ met = {}
        /\ \A id \in Ids \ met : Fine(id)

\* An event more, in its place.
LEMMA InOrderAppend ==
    ASSUME NEW s \in Seq(Events), InOrder(s), NEW e \in Events,
           s = <<>> <=> e = "connect",
           e = "disconnect" => \A i \in 1 .. Len(s) : s[i] # "disconnect"
    PROVE  InOrder(Append(s, e))
  <1> DEFINE r == Append(s, e)
  <1>1. /\ Len(s) \in Nat /\ Len(r) = Len(s) + 1
        /\ \A i \in 1 .. Len(s) : r[i] = s[i]
        /\ r[Len(s) + 1] = e
        /\ s = <<>> <=> Len(s) = 0
    OBVIOUS
  <1> HIDE DEF r
  <1>2. ASSUME NEW i \in 1 .. Len(r)
        PROVE  /\ r[i] = "connect" <=> i = 1
               /\ \A j \in 1 .. Len(r) : r[i] = "disconnect" /\ r[j] = "disconnect" => i = j
    <2>1. CASE i \in 1 .. Len(s)
      <3>1. r[i] = s[i] /\ (s[i] = "connect" <=> i = 1)
        BY <1>1, <2>1 DEF InOrder
      <3>2. ASSUME NEW j \in 1 .. Len(r), r[i] = "disconnect", r[j] = "disconnect"
            PROVE  i = j
        <4>1. j \in 1 .. Len(s)
          BY <1>1, <2>1, <3>1, <3>2
        <4> QED
          BY <1>1, <2>1, <3>1, <3>2, <4>1 DEF InOrder
      <3> QED
        BY <3>1, <3>2
    <2>2. CASE i = Len(s) + 1
      <3>1. r[i] = "connect" <=> i = 1
        BY <1>1, <2>2
      <3>2. ASSUME NEW j \in 1 .. Len(r), r[i] = "disconnect", r[j] = "disconnect"
            PROVE  i = j
        BY <1>1, <2>2, <3>2
      <3> QED
        BY <3>1, <3>2
    <2> QED
      BY <1>1, <2>1, <2>2
  <1> QED
    BY <1>2 DEF InOrder, r

\* What an event in its place does to the events of its id, and that it does
\* nothing to the others.
LEMMA TellKeeps ==
    ASSUME ToldOK, NEW y \in Ids, NEW e \in Events, Tell(y, e), InOrder(told[y]),
           told[y] = <<>> <=> e = "connect",
           e = "disconnect" => ~Ended(y)
    PROVE  /\ InOrder(told'[y]) /\ told'[y] # <<>>
           /\ Ended(y)' => Ended(y) \/ e = "disconnect"
           /\ \A id \in Ids : id # y => told'[id] = told[id]
  <1>1. told'[y] = Append(told[y], e) /\ \A id \in Ids : id # y => told'[id] = told[id]
    BY Zenon DEF Tell, ToldOK
  <1>2. told[y] \in Seq(Events)
    BY DEF ToldOK
  <1>3. InOrder(told'[y])
    BY <1>1, <1>2, InOrderAppend, Zenon DEF Ended
  <1>4. /\ Len(told'[y]) = Len(told[y]) + 1 /\ Len(told[y]) \in Nat
        /\ \A i \in 1 .. Len(told[y]) : told'[y][i] = told[y][i]
        /\ told'[y][Len(told[y]) + 1] = e
    BY <1>1, <1>2
  <1>5. told'[y] # <<>>
    BY <1>4
  <1>6. Ended(y)' => Ended(y) \/ e = "disconnect"
    BY <1>4 DEF Ended
  <1> QED
    BY <1>1, <1>3, <1>5, <1>6

\* What a step may not change about an id it is not about: the lists and
\* sets, ...
ListsSame(id) ==
    /\ told'[id] = told[id] /\ io_type' = io_type
    /\ id \in sessions' <=> id \in sessions
    /\ id \in left' <=> id \in left
    /\ Known(id)' <=> Known(id)

\* ... its closes, ...
ClosesSame(id) ==
    /\ \A t \in Threads : ClosedBy(t, id)' <=> ClosedBy(t, id)
    /\ ClosedBy("work", id) => closing'["work"].at = closing["work"].at
    /\ Waits(id)' => Waits(id)

\* ... and what the IO thread does with it.
IoSame(id) ==
    /\ id > ids' => id > ids
    /\ Adding(id)' => Adding(id)
    /\ Adding(id) => Adding(id)' \/ Stopped'
    /\ Handled(id)' => Handled(id)
    /\ Stopped => Stopped'

\* Then the id stays fine.
LEMMA SameFine ==
    ASSUME NEW id \in Ids, Fine(id), ListsSame(id), ClosesSame(id), IoSame(id)
    PROVE  Fine(id)'
  <1>1. InOrder(told'[id]) /\ (Ended(id)' <=> Ended(id))
    BY Zenon DEF Fine, ListsSame, Ended
  <1>2. id > ids' \/ Adding(id)' => told'[id] = <<>>
    BY Zenon DEF Fine, ListsSame, IoSame
  <1>3. Adding(id)' => Known(id)'
    BY Zenon DEF Fine, ListsSame, IoSame
  <1>4. told'[id] = <<>> => Unheard(id)'
    BY Zenon DEF Fine, Unheard, Closed, ListsSame, ClosesSame, IoSame
  <1>5. "work" \in Threads /\ "server" \in Threads
    BY DEF Threads
  <1>6. io_type = "udp" => UdpFine(id)'
    BY <1>1, <1>5, Zenon DEF Fine, UdpFine, ListsSame, ClosesSame
  <1>7. io_type = "kcp" => KcpFine(id)'
    BY <1>1, <1>5, Zenon DEF Fine, KcpFine, Closed, ListsSame, ClosesSame
  <1>8. io_type' = io_type
    BY DEF ListsSame
  <1> QED
    BY <1>1, <1>2, <1>3, <1>4, <1>6, <1>7, <1>8, Zenon DEF Fine

\* An id the plugins have heard of is fine if its server has it right.
LEMMA HeardFine ==
    ASSUME NEW id \in Ids, Fine(id), told[id] # <<>>, InOrder(told'[id]), told'[id] # <<>>,
           ids' = ids, Adding(id)' => Adding(id), io_type' = io_type,
           io_type = "udp" => UdpFine(id)', io_type = "kcp" => KcpFine(id)'
    PROVE  Fine(id)'
  BY Zenon DEF Fine

\* An id is heard of when it is anywhere but on its way to AddSession.
LEMMA Heard ==
    ASSUME NEW id \in Ids, Fine(id),
           \/ id \in sessions \/ id \in left \/ Waits(id) \/ Closed(id) \/ Handled(id)
           \/ (Known(id) /\ ~Adding(id) /\ ~Stopped)
    PROVE  told[id] # <<>> /\ ~Adding(id)
  BY Zenon DEF Fine, Unheard

\* The steps that do not touch what one of the three is about.
LEMMA Untouched ==
    ASSUME NEW id \in Ids
    PROVE  /\ UNCHANGED <<told, io_type, sessions, left, maps>> => ListsSame(id)
           /\ UNCHANGED <<closing, closes>> => ClosesSame(id)
           /\ UNCHANGED <<io, ids>> /\ (open' = open \/ open' = FALSE) => IoSame(id)
  <1>1. UNCHANGED <<told, io_type, sessions, left, maps>> => ListsSame(id)
    BY Zenon DEF ListsSame, Known, maps
  <1>2. UNCHANGED <<closing, closes>> => ClosesSame(id)
    BY Zenon DEF ClosesSame, ClosedBy, Waits
  <1>3. UNCHANGED <<io, ids>> /\ (open' = open \/ open' = FALSE) => IoSame(id)
    BY DEF IoSame, Adding, Handled, Stopped
  <1> QED
    BY <1>1, <1>2, <1>3

\* What the steps start from.
Before == TInv /\ MapsAgree /\ Released /\ HInv

\* A datagram: an endpoint with an id, of which the plugins heard because it
\* is known, or a new one.
LEMMA ArriveFine ==
    ASSUME Before, NEW e \in Endpoints, NEW data \in {"packets", "bad", "empty", "noinit"},
           Arrive(e, data)
    PROVE  HInv'
  <1>0. ListsOK /\ IoOK /\ QueueOK /\ ClosingOK /\ SetsOK /\ ToldOK /\ MapsAgree /\ HInv
    BY DEF Before, TInv
  <1>1. /\ io.at = "receive"
        /\ data = "noinit" => io_type = "kcp"
        /\ UNCHANGED <<io_type, open, closes, closing, left, sessions, told, crashed>>
    BY Zenon DEF Arrive, ArriveAs
  <1>2. \A id \in Ids : ~Adding(id) /\ ~Handled(id)
    BY <1>1 DEF Adding, Handled
  <1>3. ~Stopped
    BY <1>1 DEF Stopped
  <1>4. \A id \in Ids : ClosesSame(id)
    BY <1>1, Untouched, Zenon
  <1>5. CASE udp_endpoint_2_id_list[e] # 0
    <2> DEFINE x == udp_endpoint_2_id_list[e]
    <2>1. /\ UNCHANGED <<maps, ids, freed, met>>
          /\ io' = [at |-> "handle", id |-> x, data |-> data]
      BY <1>5, Zenon DEF Arrive, ArriveAs
    <2>2. \A id \in Ids : ListsSame(id)
      BY <1>1, <2>1, Untouched, Zenon
    <2>3. \A id \in Ids : ~Adding(id)' /\ (Handled(id)' => id = x)
      BY <2>1 DEF Adding, Handled
    <2>4. x \in Ids => Known(x)
      BY <1>0, EndpointsOK DEF MapsAgree, Known
    <2> HIDE DEF x
    <2>5. ASSUME NEW id \in Ids \ met' PROVE Fine(id)'
      <3>1. id \in Ids /\ Fine(id)
        BY <1>0, <2>1, <2>5, Zenon DEF HInv
      <3>2. CASE id = x
        <4>1. told[id] # <<>>
          BY <1>2, <1>3, <2>4, <3>1, <3>2, Heard, Zenon
        <4>2. /\ InOrder(told'[id]) /\ told'[id] # <<>> /\ (Ended(id)' <=> Ended(id))
          BY <1>1, <3>1, <4>1, Zenon DEF Fine, Ended
        <4>3. io_type = "udp" => UdpFine(id)'
          BY <1>4, <2>2, <3>1, <4>2, Zenon DEF Fine, UdpFine, ListsSame, ClosesSame, Threads
        <4>4. io_type = "kcp" => KcpFine(id)'
          BY <1>4, <2>2, <3>1, <4>2, Zenon
          DEF Fine, KcpFine, Closed, ListsSame, ClosesSame, Threads
        <4> QED
          BY <1>1, <2>1, <2>3, <3>1, <4>1, <4>2, <4>3, <4>4, HeardFine, Zenon
      <3>3. CASE id # x
        <4>1. IoSame(id)
          BY <1>2, <1>3, <2>1, <2>3, <3>1, <3>3, Zenon DEF IoSame
        <4> QED
          BY <1>4, <2>2, <3>1, <4>1, SameFine, Zenon
      <3> QED
        BY <3>2, <3>3
    <2> QED
      BY <1>0, <1>1, <2>1, <2>5, Zenon DEF HInv
  <1>6. CASE udp_endpoint_2_id_list[e] = 0
    <2>0. PICK x : x = ids + 1
      OBVIOUS
    <2>1. /\ ids < MaxIds /\ ids' = x
          /\ udp_id_2_endpoint_list' = [udp_id_2_endpoint_list EXCEPT ![x] = e]
          /\ io' = [at |-> IF data = "noinit" THEN "over" ELSE "new", id |-> x, data |-> data]
          /\ met' = IF data = "noinit" \/ left # {} THEN {x} \cup met ELSE met
      BY <1>6, <2>0, Zenon DEF Arrive, ArriveAs
    <2>2. x \in Ids /\ x > ids /\ x \notin 1 .. ids /\ x \notin 0 .. ids
      BY <1>0, <2>0, <2>1, BoundsOK DEF ListsOK, Ids
    <2>2a. \A id \in Ids : id > ids' => id > ids
      BY <1>0, <2>0, <2>1, BoundsOK DEF ListsOK, Ids
    <2>3. e # NoEndpoint
      BY EndpointsOK
    <2>4. \A id \in Ids : id # x => (Known(id)' <=> Known(id))
      BY <1>0, <2>1, Zenon DEF Known, ListsOK
    <2>5. Known(x)'
      BY <1>0, <2>1, <2>2, <2>3, Zenon DEF Known, ListsOK
    <2>6. \A id \in Ids : id # x => ~Adding(id)' /\ ~Handled(id)'
      BY <2>1 DEF Adding, Handled
    <2>7. ~Handled(x)' /\ (data # "noinit" => Adding(x)')
      BY <2>1 DEF Handled, Adding
    <2>8. x \notin sessions /\ x \notin left /\ ~Waits(x) /\ ~Closed(x)
      <3>1. x \notin sessions /\ x \notin left
        BY <1>0, <2>2, Zenon DEF SetsOK
      <3>2. ~Waits(x)
        BY <1>0, <2>2, ElementIn, Zenon DEF QueueOK, Waits
      <3>3. ~Closed(x)
        BY <1>0, <2>2, Zenon DEF ClosingOK, Closed, ClosedBy
      <3> QED
        BY <3>1, <3>2, <3>3
    <2>9. ASSUME NEW id \in Ids \ met' PROVE Fine(id)'
      <3>1. id \in Ids /\ Fine(id)
        BY <1>0, <2>1, <2>9, Zenon DEF HInv
      <3>2. CASE id = x
        <4>1. data # "noinit"
          BY <2>1, <2>9, <3>2, Zenon
        <4>2. told[x] = <<>> /\ told'[x] = <<>> /\ InOrder(told'[x])
          BY <1>1, <2>2, <3>1, <3>2, Zenon DEF Fine
        <4>3. ~Ended(x)'
          BY <4>2 DEF Ended
        <4>4. x \notin sessions' /\ x \notin left' /\ ~Waits(x)' /\ ~Closed(x)'
          BY <1>1, <2>8, Zenon DEF Waits, Closed, ClosedBy
        <4>5. ~ClosedBy("work", x)' /\ ~ClosedBy("server", x)'
          BY <4>4, Zenon DEF Closed, Threads
        <4>6. Unheard(x)'
          BY <2>7, <4>1, <4>4, Zenon DEF Unheard
        <4>7. UdpFine(x)' /\ KcpFine(x)'
          BY <4>3, <4>4, <4>5, Zenon DEF UdpFine, KcpFine
        <4> QED
          BY <2>5, <3>2, <4>2, <4>6, <4>7, Zenon DEF Fine
      <3>3. CASE id # x
        <4>1. IoSame(id)
          BY <1>2, <1>3, <2>2a, <2>6, <3>1, <3>3, Zenon DEF IoSame
        <4>2. ListsSame(id)
          BY <1>1, <2>4, <3>1, <3>3, Zenon DEF ListsSame
        <4> QED
          BY <1>4, <3>1, <4>1, <4>2, SameFine, Zenon
      <3> QED
        BY <3>2, <3>3
    <2>10. io_type' = "udp" /\ open' => left' = {} /\ met' = {}
      BY <1>0, <1>1, <2>1 DEF HInv
    <2> QED
      BY <2>9, <2>10, Zenon DEF HInv
  <1> QED
    BY <1>5, <1>6

\* A step that only moves the IO thread on.
LEMMA IoMovesFine == ASSUME Before, IoMoves PROVE HInv'
  <1>0. IoOK /\ HInv
    BY DEF Before, TInv
  <1>1. PICK at \in {"add", "use", "receive", "over"} :
              /\ io' = [io EXCEPT !.at = at]
              /\ at = "add" => io.at = "new"
              /\ at = "use" => io.at = "handle"
              /\ io.at \in {"new", "add"} => at = "add" \/ (at = "over" /\ ~open)
              /\ io.at # "over"
    BY IoMovesTo, Zenon
  <1>2. UNCHANGED <<io_type, open, maps, ids, datagrams, closes, closing, left,
                    freed, sessions, told, met>>
    BY IoMovesTo, Zenon
  <1>3. io'.at = at /\ io'.id = io.id
    BY <1>0, <1>1 DEF IoOK
  <1>4. ASSUME NEW id \in Ids \ met' PROVE Fine(id)'
    <2>1. id \in Ids /\ Fine(id)
      BY <1>0, <1>2, <1>4, Zenon DEF HInv
    <2>2. ListsSame(id) /\ ClosesSame(id)
      BY <1>2, <2>1, Untouched, Zenon
    <2>3. IoSame(id)
      BY <1>1, <1>2, <1>3 DEF IoSame, Adding, Handled, Stopped
    <2> QED
      BY <2>1, <2>2, <2>3, SameFine, Zenon
  <1> QED
    BY <1>0, <1>2, <1>4, Zenon DEF HInv

\* AddSession: the first the plugins hear of the id.
LEMMA AddSessionFine == ASSUME Before, AddSession PROVE HInv'
  <1>0. ListsOK /\ IoOK /\ ToldOK /\ HInv
    BY DEF Before, TInv
  <1>1. /\ io.at = "add" /\ io' = [io EXCEPT !.at = "handle"]
        /\ sessions' = sessions \cup {io.id} /\ Tell(io.id, "connect")
        /\ UNCHANGED <<io_type, open, maps, ids, closes, closing, left, met>>
    BY Zenon DEF AddSession
  <1>2. PICK x \in 1 .. ids : x = io.id
    BY <1>0, <1>1 DEF IoOK
  <1>3. x \in Ids
    BY <1>0, GivenIsId
  <1>4. io'.at = "handle" /\ io'.id = x /\ Adding(x)
    BY <1>0, <1>1, <1>2 DEF IoOK, Adding
  <1>5. \A id \in Ids : /\ ~Adding(id)' /\ (Adding(id) => id = x)
                        /\ Handled(id)' => id = x
    BY <1>2, <1>4 DEF Adding, Handled
  <1>6. ASSUME NEW id \in Ids \ met' PROVE Fine(id)'
    <2>1. id \in Ids /\ Fine(id) /\ ClosesSame(id)
      BY <1>0, <1>1, <1>6, Untouched, Zenon DEF HInv
    <2>2. \A i \in Ids : i # x => told'[i] = told[i]
      BY <1>0, <1>1, <1>2, Zenon DEF Tell, ToldOK
    <2>3. Known(id)' <=> Known(id)
      BY <1>1, Zenon DEF Known, maps
    <2>4. CASE id = x
      <3>1. told[x] = <<>> /\ Known(x)
        BY <1>4, <2>1, <2>4, Zenon DEF Fine
      <3>2. x \notin left /\ ~Closed(x)
        BY <2>1, <2>4, <3>1, Zenon DEF Fine, Unheard
      <3>3. ~Ended(x)
        BY <3>1 DEF Ended
      <3>4. InOrder(told'[x]) /\ told'[x] # <<>> /\ ~Ended(x)'
        BY <1>0, <1>1, <1>2, <1>3, <2>1, <2>4, <3>1, <3>3, TellKeeps, Zenon DEF Fine, Events
      <3>5. ~ClosedBy("work", x)' /\ ~ClosedBy("server", x)' /\ ~Closed(x)'
        BY <1>1, <3>2, Zenon DEF Closed, ClosedBy, Threads
      <3>6. x \notin left' /\ Known(x)'
        BY <1>1, <2>3, <2>4, <3>1, <3>2, Zenon
      <3>7. UdpFine(x)' /\ KcpFine(x)'
        BY <3>4, <3>5, <3>6, Zenon DEF UdpFine, KcpFine
      <3>8. ~(x > ids)'
        BY <1>0, <1>1, <1>2, BoundsOK DEF ListsOK
      <3> QED
        BY <1>5, <2>1, <2>4, <3>4, <3>7, <3>8, Zenon DEF Fine
    <2>5. CASE id # x
      <3>1. ListsSame(id)
        BY <1>1, <1>2, <2>1, <2>2, <2>3, <2>5, Zenon DEF ListsSame
      <3>2. ~Stopped
        BY <1>1, Zenon DEF Stopped
      <3>3. IoSame(id)
        BY <1>1, <1>5, <2>1, <2>5, <3>2, Zenon DEF IoSame
      <3> QED
        BY <2>1, <3>1, <3>3, SameFine, Zenon
    <2> QED
      BY <2>4, <2>5
  <1> QED
    BY <1>0, <1>1, <1>6, Zenon DEF HInv

\* What Refuse and Deliver have in common.
LEMMA ParsedIo ==
    ASSUME IoOK, ListsOK, Refuse \/ Deliver
    PROVE  /\ io.id \in Ids /\ Handled(io.id)
           /\ \A id \in Ids : IoSame(id)
           /\ UNCHANGED <<io_type, open, maps, ids, closing, left, sessions, met>>
  <1>1. /\ io.at \in {"handle", "use"}
        /\ io.at = HandlesAt /\ Parsed
        /\ UNCHANGED <<io_type, open, maps, ids, closing, left, sessions, met>>
    BY Zenon DEF Refuse, RefuseThen, Deliver, HandlesAt
  <1>2. io.id \in 1 .. ids
    BY <1>1 DEF IoOK
  <1>3. io.id \in Ids /\ Handled(io.id)
    BY <1>1, <1>2, GivenIsId, Zenon DEF Handled
  <1>4. PICK at \in {"update", "receive", "over"} : io' = [io EXCEPT !.at = at]
    BY <1>1, Zenon DEF Parsed, ReceiveAgain
  <1>5. io'.at = at /\ io'.id = io.id
    BY <1>4 DEF IoOK
  <1>6. ASSUME NEW id \in Ids PROVE IoSame(id)
    BY <1>1, <1>5 DEF IoSame, Adding, Handled, Stopped
  <1> QED
    BY <1>1, <1>3, <1>6

\* A close that joins the queue: the plugins have heard of its id.
LEMMA QueuedFine ==
    ASSUME Before, NEW x \in Ids, x \in sessions \/ Handled(x),
           closes' = Append(closes, x), \A id \in Ids : IoSame(id), ids' = ids,
           Adding(x)' => Adding(x),
           UNCHANGED <<io_type, open, maps, closing, left, sessions, told, met>>
    PROVE  HInv'
  <1>0. QueueOK /\ HInv
    BY DEF Before, TInv
  <1>1. \A id \in Ids : id # x => (Waits(id)' => Waits(id))
    BY <1>0 DEF QueueOK, Waits
  <1>2. ASSUME NEW id \in Ids \ met' PROVE Fine(id)'
    <2>1. id \in Ids /\ Fine(id) /\ ListsSame(id) /\ IoSame(id)
      BY <1>0, <1>2, Untouched, Zenon DEF HInv
    <2>2. \A t \in Threads : ClosedBy(t, id)' <=> ClosedBy(t, id)
      BY Zenon DEF ClosedBy
    <2>3. CASE id = x
      <3>1. told[id] # <<>>
        BY <2>1, <2>3, Heard, Zenon
      <3>2. /\ InOrder(told'[id]) /\ told'[id] # <<>> /\ (Ended(id)' <=> Ended(id))
        BY <2>1, <3>1, Zenon DEF Fine, Ended
      <3>3. io_type = "udp" => UdpFine(id)'
        BY <2>1, <2>2, <3>2, Zenon DEF Fine, UdpFine, ListsSame, Threads
      <3>4. io_type = "kcp" => KcpFine(id)'
        BY <2>1, <2>2, <3>2, Zenon DEF Fine, KcpFine, Closed, ListsSame, Threads
      <3> QED
        BY <2>1, <2>3, <3>1, <3>2, <3>3, <3>4, HeardFine, Zenon
    <2>4. CASE id # x
      <3>1. ClosesSame(id)
        BY <1>1, <2>1, <2>2, <2>4, Zenon DEF ClosesSame
      <3> QED
        BY <2>1, <3>1, SameFine, Zenon
    <2> QED
      BY <2>3, <2>4
  <1> QED
    BY <1>0, <1>2, Zenon DEF HInv

\* A datagram the parser turned down, and a close that is asked for.
LEMMA QueueingFine ==
    ASSUME Before, Refuse \/ \E id \in Ids : AskClose(id) PROVE HInv'
  <1>0. IoOK /\ ListsOK
    BY DEF Before, TInv
  <1>1. CASE Refuse
    <2>1. closes' = Append(closes, io.id) /\ told' = told
      BY <1>1, Zenon DEF Refuse, RefuseThen
    <2>2. /\ io.id \in Ids /\ Handled(io.id) /\ \A id \in Ids : IoSame(id)
          /\ UNCHANGED <<io_type, open, maps, ids, closing, left, sessions, met>>
      BY <1>0, <1>1, ParsedIo, Zenon
    <2>3. PICK x \in Ids : x = io.id
      BY <2>2
    <2>4. Handled(x) /\ (Adding(x)' => Adding(x))
      BY <2>2, <2>3, Zenon DEF IoSame
    <2> QED
      BY <2>1, <2>2, <2>3, <2>4, QueuedFine, Zenon
  <1>2. ASSUME NEW x \in Ids, AskClose(x) PROVE HInv'
    <2>1. /\ x \in sessions /\ closes' = Append(closes, x)
          /\ UNCHANGED <<io_type, open, maps, ids, io, closing, left, sessions, told, met>>
      BY <1>2, Zenon DEF AskClose
    <2>2. \A id \in Ids : IoSame(id)
      BY <2>1, Untouched, Zenon
    <2>3. Adding(x)' => Adding(x)
      BY <2>1, Zenon DEF Adding
    <2> QED
      BY <2>1, <2>2, <2>3, QueuedFine, Zenon
  <1> QED
    BY <1>1, <1>2, Zenon

\* Packets for the logic.
LEMMA DeliverFine == ASSUME Before, Deliver PROVE HInv'
  <1>0. IoOK /\ ListsOK /\ ToldOK /\ HInv
    BY DEF Before, TInv
  <1>1. /\ io.id \in Ids /\ Handled(io.id) /\ \A id \in Ids : IoSame(id)
        /\ UNCHANGED <<io_type, open, maps, ids, closing, left, sessions, met>>
    BY <1>0, ParsedIo, Zenon
  <1>2. PICK x \in Ids : x = io.id
    BY <1>1
  <1>3. Tell(x, "data") /\ closes' = closes /\ Handled(x)
    BY <1>1, <1>2, Zenon DEF Deliver
  <1>4. \A i \in Ids : i # x => told'[i] = told[i]
    BY <1>0, <1>3, Zenon DEF Tell, ToldOK
  <1>5. ASSUME NEW id \in Ids \ met' PROVE Fine(id)'
    <2>1. id \in Ids /\ Fine(id) /\ IoSame(id) /\ ClosesSame(id)
      BY <1>0, <1>1, <1>3, <1>5, Untouched, Zenon DEF HInv
    <2>2. Known(id)' <=> Known(id)
      BY <1>1, Zenon DEF Known, maps
    <2>3. CASE id = x
      <3>1. told[id] # <<>>
        BY <1>3, <2>1, <2>3, Heard, Zenon
      <3>2. InOrder(told[id]) /\ "data" \in Events
        BY <2>1 DEF Fine, Events
      <3>3. InOrder(told'[id]) /\ told'[id] # <<>> /\ (Ended(id)' => Ended(id))
        BY <1>0, <1>3, <2>1, <2>3, <3>1, <3>2, TellKeeps, Zenon
      <3>4. io_type = "udp" => UdpFine(id)'
        BY <1>1, <2>1, <2>2, <3>3, Zenon DEF Fine, UdpFine, ClosesSame, Threads
      <3>5. io_type = "kcp" => KcpFine(id)'
        BY <1>1, <2>1, <2>2, <3>3, Zenon DEF Fine, KcpFine, Closed, ClosesSame, Threads
      <3> QED
        BY <1>1, <2>1, <3>1, <3>3, <3>4, <3>5, HeardFine, Zenon DEF IoSame
    <2>4. CASE id # x
      <3>1. ListsSame(id)
        BY <1>1, <1>4, <2>1, <2>2, <2>4, Zenon DEF ListsSame
      <3> QED
        BY <2>1, <3>1, SameFine, Zenon
    <2> QED
      BY <2>3, <2>4
  <1> QED
    BY <1>0, <1>1, <1>5, Zenon DEF HInv

\* The first close of the queue: the others still wait, and its id did.
LEMMA QueueMoves ==
    ASSUME QueueOK, closes # <<>>, closes' = Tail(closes)
    PROVE  Waits(Head(closes)) /\ \A id \in Ids : Waits(id)' => Waits(id)
  <1>1. /\ Len(closes) \in Nat /\ Len(Tail(closes)) = Len(closes) - 1
        /\ \A i \in 1 .. Len(Tail(closes)) : Tail(closes)[i] = closes[i + 1]
        /\ 1 \in 1 .. Len(closes) /\ Head(closes) = closes[1]
    BY HeadAndTail, Zenon DEF QueueOK
  <1>2. Waits(Head(closes))
    BY <1>1, Zenon DEF Waits
  <1>3. \A i \in 1 .. Len(Tail(closes)) : i + 1 \in 1 .. Len(closes)
    BY <1>1
  <1>4. \A id \in Ids : Waits(id)' => Waits(id)
    BY <1>1, <1>3, Zenon DEF Waits
  <1> QED
    BY <1>2, <1>4

\* CUdpServer::close of an id the list has: nobody told its disconnect yet,
\* or the id would have gone from the list with that close.
LEMMA UdpCloseFine == ASSUME Before, UdpClose PROVE HInv'
  <1>0. QueueOK /\ ClosingOK /\ ListsOK /\ HInv
    BY DEF Before, TInv
  <1>1. /\ io_type = "udp" /\ closing["work"] = Idle
        /\ closes # <<>> /\ closes' = Tail(closes)
        /\ UNCHANGED <<io_type, open, maps, ids, io, left, sessions, told, met>>
        /\ \/ closing' = closing
           \/ /\ open /\ Known(Head(closes))
              /\ closing' = [closing EXCEPT !["work"] = [at |-> "tell", id |-> Head(closes)]]
    BY Zenon DEF UdpClose, UdpCloseIf
  <1>2. Head(closes) \in 1 .. ids
    BY <1>0, <1>1, HeadAndTail, Zenon DEF QueueOK
  <1>3. PICK y \in Ids : y = Head(closes)
    BY <1>0, <1>2, GivenIsId, Zenon
  <1>4. Waits(y) /\ \A id \in Ids : Waits(id)' => Waits(id)
    BY <1>0, <1>1, <1>3, QueueMoves, Zenon
  <1>5. \A id \in Ids : ~ClosedBy("work", id)
    BY <1>1 DEF ClosedBy, Idle
  <1>6. CASE closing' = closing
    <2>1. \A id \in Ids : ClosesSame(id) /\ ListsSame(id) /\ IoSame(id)
      <3>1. \A id \in Ids : ListsSame(id) /\ IoSame(id)
        BY <1>1, Untouched, Zenon
      <3> QED
        BY <1>4, <1>6, <3>1, Zenon DEF ClosesSame, ClosedBy
    <2> QED
      BY <1>0, <1>1, <2>1, SameFine, Zenon DEF HInv
  <1>7. CASE /\ open /\ Known(y)
             /\ closing' = [closing EXCEPT !["work"] = [at |-> "tell", id |-> y]]
    <2>1. left = {} /\ met = {}
      BY <1>0, <1>1, <1>7, Zenon DEF HInv
    <2>2. /\ closing'["work"].at = "tell" /\ closing'["work"].id = y
          /\ closing'["server"] = closing["server"]
      BY <1>0, <1>7 DEF ClosingOK, Threads
    <2>3. ClosedBy("work", y)'
      BY <2>2 DEF ClosedBy
    <2>4. \A id \in Ids : /\ id # y => ~ClosedBy("work", id)'
                          /\ ClosedBy("server", id)' <=> ClosedBy("server", id)
      BY <2>2, Zenon DEF ClosedBy
    <2>5. ASSUME NEW id \in Ids \ met' PROVE Fine(id)'
      <3>1. id \in Ids /\ Fine(id) /\ ListsSame(id) /\ IoSame(id)
        BY <1>0, <1>1, <2>5, Untouched, Zenon DEF HInv
      <3>2. CASE id = y
        <4>1. told[id] # <<>>
          BY <1>4, <3>1, <3>2, Heard, Zenon
        <4>2. ~Ended(id)
          BY <1>1, <1>5, <1>7, <3>1, <3>2, Zenon DEF Fine, UdpFine
        <4>3. InOrder(told'[id]) /\ told'[id] # <<>> /\ ~Ended(id)'
          BY <1>1, <3>1, <4>1, <4>2, Zenon DEF Fine, Ended
        <4>4. Known(id)' /\ id \notin left' /\ closing'["work"].at # "erase"
          BY <1>1, <1>7, <2>1, <2>2, <3>1, <3>2, Zenon DEF ListsSame
        <4>5. UdpFine(id)'
          BY <4>3, <4>4, Zenon DEF UdpFine
        <4> QED
          BY <1>1, <3>1, <4>1, <4>3, <4>5, HeardFine, Zenon DEF IoSame
      <3>3. CASE id # y
        <4>1. ClosesSame(id)
          BY <1>4, <1>5, <2>4, <3>1, <3>3, Zenon DEF ClosesSame, Threads
        <4> QED
          BY <3>1, <4>1, SameFine, Zenon
      <3> QED
        BY <3>2, <3>3
    <2> QED
      BY <1>1, <2>1, <2>5, Zenon DEF HInv
  <1> QED
    BY <1>1, <1>3, <1>6, <1>7, Zenon

\* A thread whose close is over has no id, the other keeps its own.
LEMMA ClosedAfter ==
    ASSUME ClosingOK, NEW t \in Threads, closing' = [closing EXCEPT ![t] = Idle], NEW id
    PROVE  /\ ~ClosedBy(t, id)'
           /\ \A u \in Threads : u # t => closing'[u] = closing[u]
           /\ \A u \in Threads : u # t => (ClosedBy(u, id)' <=> ClosedBy(u, id))
  <1>1. closing'[t] = Idle /\ \A u \in Threads : u # t => closing'[u] = closing[u]
    BY Zenon DEF ClosingOK
  <1>2. ~ClosedBy(t, id)'
    BY <1>1 DEF ClosedBy, Idle
  <1>3. \A u \in Threads : u # t => (ClosedBy(u, id)' <=> ClosedBy(u, id))
    BY <1>1, Zenon DEF ClosedBy
  <1> QED
    BY <1>1, <1>2, <1>3

\* The lists forget the id that is erased, and no other.
LEMMA EraseForgets ==
    ASSUME ListsOK, NEW y \in Ids, Erase(y)
    PROVE  ~Known(y)' /\ \A id \in Ids : id # y => (Known(id)' <=> Known(id))
  BY Zenon DEF Erase, ListsOK, Known

\* Only the work thread of a CUdpServer tells first: nobody else told it.
LEMMA UdpTellFine == ASSUME Before, UdpTell PROVE HInv'
  <1>0. FlagsOK /\ ListsOK /\ ClosingOK /\ ToldOK /\ Released /\ HInv /\ "work" \in Threads
    BY DEF Before, TInv, Threads
  <1>1. /\ closing["work"].at = "tell"
        /\ closing' = [closing EXCEPT !["work"].at = "erase"]
        /\ sessions' = sessions \ {closing["work"].id}
        /\ Tell(closing["work"].id, "disconnect")
        /\ UNCHANGED <<io_type, open, maps, ids, io, closes, left, met>>
    BY Zenon DEF UdpTell, DeleteThreadSession
  <1>2. io_type = "udp"
    BY <1>0, <1>1, Zenon DEF Released, FlagsOK
  <1>3. closing["work"].id \in 1 .. ids
    BY <1>0, <1>1 DEF ClosingOK
  <1>4. PICK y \in Ids : y = closing["work"].id
    BY <1>0, <1>3, GivenIsId, Zenon
  <1>5. /\ closing'["work"].at = "erase" /\ closing'["work"].id = y
        /\ closing'["server"] = closing["server"]
    BY <1>0, <1>1, <1>4 DEF ClosingOK, Threads
  <1>6. ClosedBy("work", y) /\ ClosedBy("work", y)' /\ Closed(y)
    BY <1>0, <1>1, <1>4, <1>5 DEF ClosedBy, Closed
  <1>7. \A id \in Ids : /\ id # y => ~ClosedBy("work", id) /\ ~ClosedBy("work", id)'
                        /\ ClosedBy("server", id)' <=> ClosedBy("server", id)
    BY <1>4, <1>5, Zenon DEF ClosedBy
  <1>8. ASSUME NEW id \in Ids \ met' PROVE Fine(id)'
    <2>1. id \in Ids /\ Fine(id) /\ IoSame(id)
      BY <1>0, <1>1, <1>8, Untouched, Zenon DEF HInv
    <2>2. Known(id)' <=> Known(id)
      BY <1>1, Zenon DEF Known, maps
    <2>3. CASE id = y
      <3>1. told[id] # <<>>
        BY <1>6, <2>1, <2>3, Heard, Zenon
      <3>2. UdpFine(id)
        BY <1>2, <2>1, Zenon DEF Fine
      <3>3. ~Ended(id) /\ id \notin left
        <4>1. closing["work"].at # "erase"
          BY <1>1
        <4> QED
          BY <1>6, <2>3, <3>2, <4>1, Zenon DEF UdpFine
      <3>4. InOrder(told[id]) /\ "disconnect" \in Events
        BY <2>1 DEF Fine, Events
      <3>5. InOrder(told'[id]) /\ told'[id] # <<>>
        BY <1>0, <1>1, <1>4, <2>3, <3>1, <3>3, <3>4, TellKeeps, Zenon
      <3>6. id \notin left' /\ id \notin sessions'
        BY <1>1, <1>4, <2>3, <3>3, Zenon
      <3>7. UdpFine(id)'
        BY <1>5, <1>6, <2>3, <3>6, Zenon DEF UdpFine
      <3> QED
        BY <1>1, <1>2, <2>1, <3>1, <3>5, <3>7, HeardFine, Zenon DEF IoSame
    <2>4. CASE id # y
      <3>1. told'[id] = told[id]
        BY <1>0, <1>1, <1>4, <2>1, <2>4, Zenon DEF Tell, ToldOK
      <3>2. ListsSame(id)
        BY <1>1, <1>4, <2>2, <2>4, <3>1, Zenon DEF ListsSame
      <3>3. Waits(id)' => Waits(id)
        BY <1>1, Zenon DEF Waits
      <3>4. ClosesSame(id)
        BY <1>7, <2>1, <2>4, <3>3, Zenon DEF ClosesSame, Threads
      <3> QED
        BY <2>1, <3>2, <3>4, SameFine, Zenon
    <2> QED
      BY <2>3, <2>4
  <1> QED
    BY <1>0, <1>1, <1>8, Zenon DEF HInv

\* The id leaves the lists; the plugins have lost it before.
LEMMA UdpEraseFine == ASSUME Before, UdpErase PROVE HInv'
  <1>0. ListsOK /\ ClosingOK /\ HInv /\ "work" \in Threads
    BY DEF Before, TInv, Threads
  <1>1. /\ io_type = "udp" /\ closing["work"].at = "erase" /\ Erase(closing["work"].id)
        /\ closing' = [closing EXCEPT !["work"] = Idle]
        /\ UNCHANGED <<io_type, open, ids, io, closes, left, sessions, told, met>>
    BY Zenon DEF UdpErase
  <1>2. closing["work"].id \in 1 .. ids
    BY <1>0, <1>1 DEF ClosingOK
  <1>3. PICK y \in Ids : y = closing["work"].id
    BY <1>0, <1>2, GivenIsId, Zenon
  <1>4. ClosedBy("work", y) /\ Closed(y) /\ \A id : id # y => ~ClosedBy("work", id)
    BY <1>0, <1>1, <1>3 DEF ClosedBy, Closed
  <1>5. \A id \in Ids : ~ClosedBy("work", id)' /\ (ClosedBy("server", id)' <=> ClosedBy("server", id))
    BY <1>0, <1>1, ClosedAfter, Zenon DEF Threads
  <1>6. ~Known(y)' /\ \A id \in Ids : id # y => (Known(id)' <=> Known(id))
    BY <1>0, <1>1, <1>3, EraseForgets, Zenon
  <1>7. ASSUME NEW id \in Ids \ met' PROVE Fine(id)'
    <2>1. id \in Ids /\ Fine(id) /\ IoSame(id)
      BY <1>0, <1>1, <1>7, Untouched, Zenon DEF HInv
    <2>2. CASE id = y
      <3>1. told[id] # <<>>
        BY <1>4, <2>1, <2>2, Heard, Zenon
      <3>2. UdpFine(id)
        BY <1>1, <2>1, Zenon DEF Fine
      <3>3. id \notin left' /\ id \notin sessions'
        BY <1>1, <1>4, <2>2, <3>2, Zenon DEF UdpFine
      <3>4. UdpFine(id)'
        BY <1>5, <1>6, <2>1, <2>2, <3>3, Zenon DEF UdpFine
      <3>5. InOrder(told'[id]) /\ told'[id] # <<>>
        BY <1>1, <2>1, <3>1, Zenon DEF Fine
      <3> QED
        BY <1>1, <2>1, <3>1, <3>4, <3>5, HeardFine, Zenon DEF IoSame
    <2>3. CASE id # y
      <3>1. ListsSame(id)
        BY <1>1, <1>6, <2>1, <2>3, Zenon DEF ListsSame
      <3>2. Waits(id)' => Waits(id)
        BY <1>1, Zenon DEF Waits
      <3>3. ClosesSame(id)
        BY <1>4, <1>5, <2>1, <2>3, <3>2, Zenon DEF ClosesSame, Threads
      <3> QED
        BY <2>1, <3>1, <3>3, SameFine, Zenon
    <2> QED
      BY <2>2, <2>3
  <1> QED
    BY <1>0, <1>1, <1>7, Zenon DEF HInv

\* close_server of an open CUdpServer: it met no id before, and has what was
\* known; of the ids it does not meet half added or half closed the plugins
\* have heard, and nobody is closing them.
LEMMA UdpCloseServerFine == ASSUME Before, UdpCloseServer PROVE HInv'
  <1>0. HInv
    BY DEF Before
  <1>1. /\ io_type = "udp" /\ open /\ open' = FALSE
        /\ left' = {id \in Ids : Known(id)}
        /\ udp_id_2_endpoint_list' = [id \in Ids |-> NoEndpoint]
        /\ met' = left' \cap ({closing["work"].id} \cup
                              IF io.at \in {"new", "add"} THEN {io.id} ELSE {})
        /\ UNCHANGED <<io_type, ids, io, closes, closing, sessions, told>>
    BY Zenon DEF UdpCloseServer
  <1>2. left = {} /\ met = {}
    BY <1>0, <1>1, Zenon DEF HInv
  <1>3. \A id \in Ids : ~Known(id)' /\ ClosesSame(id) /\ IoSame(id)
    <2>1. \A id \in Ids : ~Known(id)'
      BY <1>1, Zenon DEF Known
    <2> QED
      BY <1>1, <2>1, Untouched, Zenon
  <1>4. ~Stopped
    BY <1>1, Zenon DEF Stopped
  <1>5. ASSUME NEW id \in Ids \ met' PROVE Fine(id)'
    <2>1. id \in Ids /\ Fine(id)
      BY <1>0, <1>2, <1>5, Zenon DEF HInv
    <2>2. ~Adding(id)
      <3>1. Adding(id) => Known(id)
        BY <2>1, Zenon DEF Fine
      <3> QED
        BY <1>1, <1>5, <3>1 DEF Adding
    <2>3. id \in left' => Known(id) /\ ~ClosedBy("work", id)
      BY <1>1, <1>5 DEF ClosedBy
    <2>4. Known(id) => id \in left' /\ ~ClosedBy("work", id)
      BY <1>1, <2>1, <2>3, Zenon
    <2>5. ~Adding(id)'
      BY <1>3, <2>1, <2>2, Zenon DEF IoSame
    <2>6. InOrder(told'[id]) /\ (Ended(id)' <=> Ended(id))
      BY <1>1, <2>1, Zenon DEF Fine, Ended
    <2>7. told[id] = <<>> => Unheard(id) /\ id \notin left'
      BY <1>4, <2>1, <2>2, <2>3, Zenon DEF Fine, Unheard
    <2>8. told'[id] = <<>> => Unheard(id)'
      BY <1>1, <1>3, <2>1, <2>7, Zenon DEF Unheard, Closed, ClosesSame, IoSame
    <2>9. UdpFine(id)
      BY <1>1, <2>1, Zenon DEF Fine
    <2>10. id \in sessions => Known(id)
      BY <1>2, <2>9, Zenon DEF UdpFine
    <2>11. UdpFine(id)'
      <3>1. "work" \in Threads
        BY DEF Threads
      <3>2. /\ ClosedBy("work", id)' <=> ClosedBy("work", id)
            /\ sessions' = sessions /\ closing' = closing
        BY <1>1, <1>3, <2>1, <3>1, Zenon DEF ClosesSame
      <3>3. id \in left' => ~Known(id)' /\ ~ClosedBy("work", id)'
        BY <1>3, <2>1, <2>3, <3>2, Zenon
      <3>4. id \in sessions' => Known(id)' \/ id \in left'
        BY <2>4, <2>10, <3>2, Zenon
      <3>5. Ended(id)' => id \notin left'
        BY <2>3, <2>6, <2>9, Zenon DEF UdpFine
      <3> QED
        BY <1>3, <2>1, <2>6, <2>9, <3>2, <3>3, <3>4, <3>5, Zenon DEF UdpFine
    <2>12. id > ids' => told'[id] = <<>>
      BY <1>1, <2>1, Zenon DEF Fine
    <2> QED
      BY <1>1, <2>5, <2>6, <2>8, <2>11, <2>12, Zenon DEF Fine
  <1> QED
    BY <1>1, <1>5, Zenon DEF HInv

\* A session close_server had is taken from the plugins: nobody else closes it.
LEMMA UdpTellLeftFine == ASSUME Before, NEW y \in Ids, UdpTellLeft(y) PROVE HInv'
  <1>0. ToldOK /\ HInv
    BY DEF Before, TInv
  <1>1. /\ io_type = "udp" /\ y \in left
        /\ left' = left \ {y} /\ sessions' = sessions \ {y} /\ Tell(y, "disconnect")
        /\ UNCHANGED <<io_type, open, maps, ids, io, closes, closing, met>>
    BY Zenon DEF UdpTellLeft, DeleteThreadSession
  <1>2. ~(io_type = "udp" /\ open)
    BY <1>0, <1>1, Zenon DEF HInv
  <1>3. ASSUME NEW id \in Ids \ met' PROVE Fine(id)'
    <2>1. id \in Ids /\ Fine(id) /\ IoSame(id) /\ ClosesSame(id)
      BY <1>0, <1>1, <1>3, Untouched, Zenon DEF HInv
    <2>2. Known(id)' <=> Known(id)
      BY <1>1, Zenon DEF Known, maps
    <2>3. CASE id = y
      <3>1. told[id] # <<>> /\ UdpFine(id)
        BY <1>1, <2>1, <2>3, Heard, Zenon DEF Fine
      <3>2. ~Ended(id) /\ ~Known(id) /\ ~ClosedBy("work", id)
        BY <1>1, <2>3, <3>1, Zenon DEF UdpFine
      <3>3. InOrder(told[id]) /\ "disconnect" \in Events
        BY <2>1 DEF Fine, Events
      <3>4. InOrder(told'[id]) /\ told'[id] # <<>>
        BY <1>0, <1>1, <2>3, <3>1, <3>2, <3>3, TellKeeps, Zenon
      <3>5. ~ClosedBy("work", id)'
        BY <2>1, <3>2, Zenon DEF ClosesSame, Threads
      <3>6. id \notin left' /\ id \notin sessions'
        BY <1>1, <2>3, Zenon
      <3>7. UdpFine(id)'
        BY <2>2, <3>2, <3>5, <3>6, Zenon DEF UdpFine
      <3> QED
        BY <1>1, <2>1, <3>1, <3>4, <3>7, HeardFine, Zenon DEF IoSame
    <2>4. CASE id # y
      <3>1. told'[id] = told[id]
        BY <1>0, <1>1, <2>1, <2>4, Zenon DEF Tell, ToldOK
      <3>2. ListsSame(id)
        BY <1>1, <2>2, <2>4, <3>1, Zenon DEF ListsSame
      <3> QED
        BY <2>1, <3>2, SameFine, Zenon
    <2> QED
      BY <2>3, <2>4
  <1>4. ~(io_type' = "udp" /\ open')
    BY <1>1, <1>2
  <1> QED
    BY <1>3, <1>4, Zenon DEF HInv

\* The close of a CKcpServer begins and ends.
LEMMA KcpServerFine == ASSUME Before, KcpCloseServer \/ KcpSocketClose PROVE HInv'
  <1>0. HInv
    BY DEF Before
  <1>1. /\ io_type = "kcp" /\ (open' = open \/ open' = FALSE)
        /\ UNCHANGED <<io_type, maps, ids, io, closes, closing, sessions, told>>
    BY Zenon DEF KcpCloseServer, KcpSocketClose
  <1>2. ASSUME NEW id \in Ids, Fine(id), told[id] = <<>> => id \notin left' PROVE Fine(id)'
    <2>1. ClosesSame(id) /\ IoSame(id)
      BY <1>1, <1>2, Untouched, Zenon
    <2>2. /\ Known(id)' <=> Known(id)
          /\ InOrder(told'[id]) /\ (Ended(id)' <=> Ended(id))
      BY <1>1, <1>2, Zenon DEF Known, maps, Fine, Ended
    <2>3. told'[id] = <<>> => Unheard(id)'
      BY <1>1, <1>2, <2>1, <2>2, Zenon DEF Fine, Unheard, Closed, ClosesSame, IoSame
    <2>4. KcpFine(id)'
      BY <1>1, <1>2, <2>1, <2>2, Zenon DEF Fine, KcpFine, Closed, ClosesSame, Threads
    <2>5. id > ids' \/ Adding(id)' => told'[id] = <<>>
      BY <1>1, <1>2, <2>1, Zenon DEF Fine, IoSame
    <2>6. Adding(id)' => Known(id)'
      BY <1>2, <2>1, <2>2, Zenon DEF Fine, IoSame
    <2>7. io_type' # "udp"
      BY <1>1
    <2> QED
      BY <2>2, <2>3, <2>4, <2>5, <2>6, <2>7, Zenon DEF Fine
  <1>3. io_type' # "udp"
    BY <1>1
  <1>4. CASE KcpCloseServer
    <2>1. /\ open /\ left' = {id \in Ids : Known(id)} \cup {0}
          /\ met' = met \cup IF io.at \in {"new", "add"} THEN {io.id} ELSE {}
      BY <1>4, Zenon DEF KcpCloseServer
    <2>2. ASSUME NEW id \in Ids \ met' PROVE Fine(id)'
      <3>1. id \in Ids /\ Fine(id) /\ ~Adding(id)
        BY <1>0, <2>1, <2>2, Zenon DEF HInv, Adding
      <3>2. id # 0
        BY <3>1, BoundsOK DEF Ids
      <3>3. told[id] = <<>> => ~Known(id)
        BY <2>1, <3>1, Zenon DEF Fine, Unheard, Stopped
      <3> QED
        BY <1>2, <2>1, <3>1, <3>2, <3>3, Zenon
    <2> QED
      BY <1>3, <2>2, Zenon DEF HInv
  <1>5. CASE KcpSocketClose
    <2>1. left' = {} /\ met' = met
      BY <1>5, Zenon DEF KcpSocketClose
    <2> QED
      BY <1>0, <1>2, <1>3, <2>1, Zenon DEF HInv
  <1> QED
    BY <1>4, <1>5

\* A CKcpServer releases the kcpcb_ of an id: if another thread is closing the
\* id, it was released already and the id is met.
LEMMA ReleaseFine ==
    ASSUME Before, io_type = "kcp", NEW t \in Threads, NEW y \in Ids, KcpRelease(t, y),
           Waits(y) \/ y \in left,
           UNCHANGED <<io_type, open, maps, ids, io, sessions, told>>,
           \A id \in Ids : Waits(id)' => Waits(id),
           \A id \in Ids : id # y => (id \in left' <=> id \in left)
    PROVE  HInv'
  <1>0. ClosingOK /\ Released /\ HInv
    BY DEF Before, TInv
  <1>1. closing[t] = Idle /\ \A id : ~ClosedBy(t, id)
    BY DEF KcpRelease, Idle, ClosedBy
  <1>2. \A id \in Ids : IoSame(id) /\ (Known(id)' <=> Known(id))
    <2>1. \A id \in Ids : Known(id)' <=> Known(id)
      BY Zenon DEF Known, maps
    <2> QED
      BY <2>1, Untouched, Zenon
  <1>3. ASSUME NEW id \in Ids, Fine(id), id # y, ClosesSame(id) PROVE Fine(id)'
    <2>1. ListsSame(id)
      BY <1>2, <1>3, Zenon DEF ListsSame
    <2> QED
      BY <1>2, <1>3, <2>1, SameFine, Zenon
  <1>4. ASSUME Fine(y), KcpFine(y)' PROVE Fine(y)'
    <2>1. told[y] # <<>>
      BY <1>4, Heard, Zenon
    <2>2. InOrder(told'[y]) /\ told'[y] # <<>> /\ io_type # "udp"
      BY <1>4, <2>1, Zenon DEF Fine
    <2> QED
      BY <1>2, <1>4, <2>1, <2>2, HeardFine, Zenon DEF IoSame
  <1>5. CASE Known(y)
    <2>1. /\ closing' = [closing EXCEPT ![t] = [at |-> "erase", id |-> y]]
          /\ met' = met \cup ({y} \cap freed)
      BY <1>5, Zenon DEF KcpRelease
    <2>2. /\ closing'[t].at = "erase" /\ closing'[t].id = y
          /\ \A u \in Threads : u # t => closing'[u] = closing[u]
      BY <1>0, <2>1 DEF ClosingOK
    <2>3. \A u \in Threads, id \in Ids : u # t => (ClosedBy(u, id)' <=> ClosedBy(u, id))
      BY <2>2, Zenon DEF ClosedBy
    <2>4. \A id \in Ids : id # y => ~ClosedBy(t, id)'
      BY <2>2, Zenon DEF ClosedBy
    <2>5. ASSUME NEW id \in Ids \ met' PROVE Fine(id)'
      <3>1. id \in Ids /\ Fine(id) /\ (id = y => y \notin freed)
        BY <1>0, <2>1, <2>5, Zenon DEF HInv
      <3>2. CASE id = y
        <4>1. \A u \in Threads : ~ClosedBy(u, y)
          <5>1. \A u \in Threads : closing[u].at \in {"idle", "tell", "erase"}
            BY <1>0 DEF ClosingOK
          <5> QED
            BY <1>0, <3>1, <3>2, <5>1, Zenon DEF Released, ClosedBy
        <4>2. ~(ClosedBy("work", y)' /\ ClosedBy("server", y)')
          BY <2>3, <3>2, <4>1, Zenon DEF Threads
        <4>3. ~Ended(y) /\ (y \in sessions => Known(y))
          BY <1>5, <3>1, <3>2, Zenon DEF Fine, KcpFine
        <4>4. ~Ended(y)' /\ (y \in sessions' => Known(y)')
          BY <1>2, <4>3, Zenon DEF Ended
        <4>5. KcpFine(y)'
          BY <4>2, <4>4, Zenon DEF KcpFine
        <4> QED
          BY <1>4, <3>1, <3>2, <4>5, Zenon
      <3>3. CASE id # y
        <4>1. \A u \in Threads : ClosedBy(u, id)' <=> ClosedBy(u, id)
          BY <1>1, <2>3, <2>4, <3>1, <3>3, Zenon
        <4>2. ClosedBy("work", id) => closing'["work"].at = closing["work"].at
          BY <1>1, <2>2, Zenon DEF Threads
        <4>3. ClosesSame(id)
          BY <3>1, <4>1, <4>2, Zenon DEF ClosesSame
        <4> QED
          BY <1>3, <3>1, <3>3, <4>3, Zenon
      <3> QED
        BY <3>2, <3>3
    <2>6. io_type' # "udp"
      OBVIOUS
    <2> QED
      BY <2>5, <2>6, Zenon DEF HInv
  <1>6. CASE ~Known(y)
    <2>1. closing' = closing /\ met' = met
      BY <1>6, Zenon DEF KcpRelease
    <2>2. \A id \in Ids : ClosesSame(id)
      BY <2>1, Zenon DEF ClosesSame, ClosedBy
    <2>3. Fine(y) => KcpFine(y)'
      <3>1. Ended(y)' <=> Ended(y)
        BY Zenon DEF Ended
      <3> QED
        BY <1>2, <2>2, <3>1, Zenon DEF Fine, KcpFine, Closed, ClosesSame, Threads
    <2>4. io_type' # "udp"
      OBVIOUS
    <2> QED
      BY <1>0, <1>3, <1>4, <2>1, <2>2, <2>3, <2>4, Zenon DEF HInv
  <1> QED
    BY <1>5, <1>6

\* CKcpServer::close of an id that waits, or that the server's close has left.
LEMMA KcpCloseFine ==
    ASSUME Before, KcpClose \/ \E id \in Ids : KcpCloseLeft(id) PROVE HInv'
  <1>0. QueueOK /\ ListsOK
    BY DEF Before, TInv
  <1>1. CASE KcpClose
    <2>1. /\ io_type = "kcp" /\ closes # <<>> /\ closes' = Tail(closes)
          /\ KcpRelease("work", Head(closes))
          /\ UNCHANGED <<io_type, open, maps, ids, io, left, sessions, told>>
      BY <1>1, Zenon DEF KcpClose
    <2>2. Head(closes) \in 1 .. ids
      BY <1>0, <2>1, HeadAndTail, Zenon DEF QueueOK
    <2>3. PICK y \in Ids : y = Head(closes)
      BY <1>0, <2>2, GivenIsId, Zenon
    <2>4. Waits(y) /\ \A id \in Ids : Waits(id)' => Waits(id)
      BY <1>0, <2>1, <2>3, QueueMoves, Zenon
    <2> QED
      BY <2>1, <2>3, <2>4, ReleaseFine, Zenon DEF Threads
  <1>2. ASSUME NEW y \in Ids, KcpCloseLeft(y) PROVE HInv'
    <2>1. /\ io_type = "kcp" /\ y \in left /\ left' = left \ {y} /\ KcpRelease("server", y)
          /\ UNCHANGED <<io_type, open, maps, ids, io, closes, sessions, told>>
      BY <1>2, Zenon DEF KcpCloseLeft
    <2>2. \A id \in Ids : Waits(id)' => Waits(id)
      BY <2>1, Zenon DEF Waits
    <2>3. \A id \in Ids : id # y => (id \in left' <=> id \in left)
      BY <2>1, Zenon
    <2> QED
      BY <2>1, <2>2, <2>3, ReleaseFine, Zenon DEF Threads
  <1> QED
    BY <1>1, <1>2, Zenon

\* The entries of the id go and the plugins lose it, in one step.
LEMMA KcpEraseFine == ASSUME Before, NEW t \in Threads, KcpErase(t) PROVE HInv'
  <1>0. ListsOK /\ ClosingOK /\ ToldOK /\ HInv
    BY DEF Before, TInv
  <1>1. /\ io_type = "kcp" /\ closing[t].at = "erase" /\ Erase(closing[t].id)
        /\ sessions' = sessions \ {closing[t].id} /\ Tell(closing[t].id, "disconnect")
        /\ closing' = [closing EXCEPT ![t] = Idle]
        /\ UNCHANGED <<io_type, open, ids, io, closes, left, met>>
    BY Zenon DEF KcpErase, DeleteThreadSession
  <1>2. closing[t].id \in 1 .. ids
    BY <1>0, <1>1 DEF ClosingOK
  <1>3. PICK y \in Ids : y = closing[t].id
    BY <1>0, <1>2, GivenIsId, Zenon
  <1>4. ClosedBy(t, y) /\ Closed(y) /\ \A id : id # y => ~ClosedBy(t, id)
    BY <1>1, <1>3 DEF ClosedBy, Closed
  <1>5. \A id \in Ids :
           /\ ~ClosedBy(t, id)'
           /\ \A u \in Threads : u # t => closing'[u] = closing[u]
           /\ \A u \in Threads : u # t => (ClosedBy(u, id)' <=> ClosedBy(u, id))
    BY <1>0, <1>1, ClosedAfter, Zenon
  <1>6. ~Known(y)' /\ \A id \in Ids : id # y => (Known(id)' <=> Known(id))
    BY <1>0, <1>1, <1>3, EraseForgets, Zenon
  <1>7. ASSUME NEW id \in Ids \ met' PROVE Fine(id)'
    <2>1. id \in Ids /\ Fine(id) /\ IoSame(id)
      BY <1>0, <1>1, <1>7, Untouched, Zenon DEF HInv
    <2>2. CASE id = y
      <3>1. told[id] # <<>> /\ KcpFine(id)
        BY <1>1, <1>4, <2>1, <2>2, Heard, Zenon DEF Fine
      <3>2. ~Ended(id) /\ \A u \in Threads : u # t => ~ClosedBy(u, id)
        BY <1>4, <2>2, <3>1, Zenon DEF KcpFine, Threads
      <3>3. InOrder(told[id]) /\ "disconnect" \in Events
        BY <2>1 DEF Fine, Events
      <3>4. InOrder(told'[id]) /\ told'[id] # <<>>
        BY <1>0, <1>1, <1>3, <2>2, <3>1, <3>2, <3>3, TellKeeps, Zenon
      <3>5. \A u \in Threads : ~ClosedBy(u, id)'
        BY <1>5, <2>1, <3>2, Zenon
      <3>6. id \notin sessions' /\ ~Known(id)'
        BY <1>1, <1>3, <1>6, <2>2, Zenon
      <3>7. KcpFine(id)' /\ io_type # "udp"
        BY <1>1, <3>5, <3>6, Zenon DEF KcpFine, Closed, Threads
      <3> QED
        BY <1>1, <2>1, <3>1, <3>4, <3>7, HeardFine, Zenon DEF IoSame
    <2>3. CASE id # y
      <3>1. told'[id] = told[id]
        BY <1>0, <1>1, <1>3, <2>1, <2>3, Zenon DEF Tell, ToldOK
      <3>2. ListsSame(id)
        BY <1>1, <1>3, <1>6, <2>1, <2>3, <3>1, Zenon DEF ListsSame
      <3>3. Waits(id)' => Waits(id)
        BY <1>1, Zenon DEF Waits
      <3>4. /\ \A u \in Threads : ClosedBy(u, id)' <=> ClosedBy(u, id)
            /\ ClosedBy("work", id) => closing'["work"].at = closing["work"].at
        BY <1>4, <1>5, <2>1, <2>3, Zenon DEF Threads
      <3> QED
        BY <2>1, <3>2, <3>3, <3>4, SameFine, Zenon DEF ClosesSame
    <2> QED
      BY <2>2, <2>3
  <1>8. io_type' # "udp"
    BY <1>1
  <1> QED
    BY <1>7, <1>8, Zenon DEF HInv

\* Every step keeps what the plugins hear in order.
LEMMA NextHInv == ASSUME Before, [Next]_vars PROVE HInv'
  <1>1. CASE KcpUsesFreed \/ UNCHANGED vars
    <2>1. UNCHANGED <<io_type, open, maps, ids, io, closes, closing, left, sessions,
                      told, met>>
      BY <1>1, Zenon DEF KcpUsesFreed, vars
    <2>2. \A id \in Ids : ListsSame(id) /\ ClosesSame(id) /\ IoSame(id)
      BY <2>1, Untouched, Zenon
    <2> QED
      BY <2>1, <2>2, SameFine, Zenon DEF Before, HInv
  <1> QED
    BY <1>1, StepsByKind, ArriveFine, IoMovesFine, AddSessionFine, QueueingFine,
       DeliverFine, UdpCloseFine, UdpTellFine, UdpEraseFine, KcpCloseFine,
       KcpEraseFine, UdpCloseServerFine, UdpTellLeftFine, KcpServerFine, Zenon
----------------------------------------------------------------------------
IInv == TInv /\ MapsAgree /\ Released /\ CrashCause /\ KeepsReceiving /\ HInv

\* In the initial states nothing is known, nothing waits, nobody is busy and
\* nobody was told anything.
LEMMA InitIInv == ASSUME Init PROVE IInv
  <1>1. FlagsOK
    <2>1. open \in BOOLEAN /\ crashed \in BOOLEAN
      BY Zenon DEF Init
    <2>2. datagrams \in 0 .. MaxDatagrams
      BY BoundsOK DEF Init
    <2> QED
      BY <2>1, <2>2, Zenon DEF Init, FlagsOK
  <1>2. ListsOK
    BY BoundsOK DEF Init, ListsOK
  <1>3. IoOK
    BY DEF Init, IoOK, Steps, Received
  <1>4. QueueOK
    BY BoundsOK DEF Init, QueueOK
  <1>5. ClosingOK
    BY DEF Init, ClosingOK, Idle
  <1>6. SetsOK
    BY Zenon DEF Init, SetsOK
  <1>7. told \in [Ids -> {<<>>}] /\ ToldOK
    BY DEF Init, ToldOK
  <1>8. TInv
    BY <1>1, <1>2, <1>3, <1>4, <1>5, <1>6, <1>7 DEF TInv
  <1>9. \A id \in Ids : ~Known(id)
    BY Zenon DEF Init, Known
  <1>10. MapsAgree
    BY EndpointsOK, BoundsOK DEF Init, MapsAgree, Ids
  <1>11. Released /\ CrashCause /\ KeepsReceiving
    <2>1. freed = {} /\ \A t \in Threads : closing[t].at = "idle"
      BY DEF Init, Idle
    <2>2. ids = 0 /\ crashed = FALSE /\ io.at = "receive"
      BY DEF Init
    <2>3. 1 .. ids = {}
      BY <2>2
    <2> QED
      BY <2>1, <2>2, <2>3 DEF Released, CrashCause, KeepsReceiving
  <1>12. ASSUME NEW id \in Ids PROVE Fine(id)
    <2>1. told[id] = <<>>
      BY <1>7
    <2>2. InOrder(told[id]) /\ ~Ended(id)
      BY <2>1 DEF InOrder, Ended
    <2>3. ~Adding(id) /\ ~Handled(id)
      BY DEF Init, Adding, Handled
    <2>4. ~Waits(id) /\ id \notin sessions /\ id \notin left
      BY DEF Init, Waits
    <2>5. \A t \in Threads : ~ClosedBy(t, id)
      BY DEF Init, ClosedBy, Idle
    <2>6. Unheard(id)
      BY <1>9, <2>3, <2>4, <2>5, Zenon DEF Unheard, Closed
    <2>7. UdpFine(id) /\ KcpFine(id)
      BY <1>9, <2>2, <2>4, <2>5, Zenon DEF UdpFine, KcpFine, Threads
    <2> QED
      BY <2>1, <2>2, <2>3, <2>6, <2>7, Zenon DEF Fine
  <1>13. HInv
    BY <1>12, Zenon DEF Init, HInv
  <1> QED
    BY <1>8, <1>10, <1>11, <1>13 DEF IInv

\* IInv is an invariant.
LEMMA Invariance == Spec => []IInv
  <1>1. Init => IInv
    BY InitIInv
  <1>2. IInv /\ [Next]_vars => IInv'
    BY NextTInv, NextMapsAgree, NextReleased, NextKeepsReceiving, NextHInv, Zenon
    DEF IInv, Before
  <1> QED
    BY <1>1, <1>2, PTL DEF Spec

\* The state is well typed, and no list, queue or thread has an id that the
\* counter did not give out.
THEOREM TypeCorrect == Spec => []TypeOK
  <1>1. IInv => TypeOK
    BY TypesOfParts DEF IInv
  <1> QED
    BY <1>1, Invariance, PTL

\* udp_endpoint_2_id_list_ and udp_id_2_endpoint_list_ are inverse to each
\* other between any two accesses of the threads, in a CKcpServer too, which
\* locks nothing.
THEOREM MapsAgreeHolds == Spec => []MapsAgree
  <1>1. IInv => MapsAgree
    BY DEF IInv
  <1> QED
    BY <1>1, Invariance, PTL

\* A CUdpServer never crashes; a CKcpServer only after a release of a kcpcb_
\* or the close of its socket.
THEOREM CrashCauseHolds == Spec => []CrashCause
  <1>1. IInv => CrashCause
    BY DEF IInv
  <1> QED
    BY <1>1, Invariance, PTL

\* An open server goes on receiving but for an empty datagram (CUdpServer)
\* and an endpoint without a kcpcb_ (CKcpServer).
THEOREM KeepsReceivingHolds == Spec => []KeepsReceiving
  <1>1. IInv => KeepsReceiving
    BY DEF IInv
  <1> QED
    BY <1>1, Invariance, PTL

\* The plugins hear of an endpoint once, first and last in its place, however
\* many closes of it race, unless the server's close met it half added or
\* half closed.
THEOREM ToldInOrderHolds == Spec => []ToldInOrder
  <1>1. IInv => ToldInOrder
    BY Zenon DEF IInv, HInv, Fine, ToldInOrder
  <1> QED
    BY <1>1, Invariance, PTL

\* A session the work-thread logic has is in the lists of its server or about
\* to be taken by the server's close, with the same exception.
THEOREM SessionIsKnownHolds == Spec => []SessionIsKnown
  <1>1. ASSUME IInv PROVE SessionIsKnown
    <2>1. FlagsOK /\ ListsOK /\ SetsOK /\ HInv
      BY <1>1 DEF IInv, TInv
    <2>2. ASSUME NEW id \in sessions \ met PROVE Known(id) \/ id \in left
      <3>1. id \in Ids
        BY <2>1, <2>2, GivenIsId, Zenon DEF SetsOK
      <3>2. Fine(id) /\ io_type \in {"udp", "kcp"}
        BY <2>1, <2>2, <3>1, Zenon DEF HInv, FlagsOK
      <3> QED
        BY <2>2, <3>2, Zenon DEF Fine, UdpFine, KcpFine
    <2> QED
      BY <2>2, Zenon DEF SessionIsKnown
  <1> QED
    BY <1>1, Invariance, PTL
=============================================================================
