--------------------------- MODULE DatagramServer ---------------------------
(***************************************************************************)
(* The sessions of CUdpServer and CKcpServer (PSS_ASIO/UdpSession): one    *)
(* socket, and a session with a connect id for every endpoint a datagram   *)
(* came from, kept in udp_endpoint_2_id_list_ and udp_id_2_endpoint_list_. *)
(*                                                                         *)
(* Three threads meet here: the IO thread of the socket receives, a work   *)
(* thread runs the closes that close_session_event posted, and the thread  *)
(* that closes the server (close_all_service, close_single_service).       *)
(* CUdpServer locks udp_session_mutex_ for each access to its lists,       *)
(* CKcpServer locks nothing.  What add_thread_session, assignation_thread_ *)
(* module_logic and delete_thread_session post is recorded per connect id, *)
(* in the order in which the plugins will hear it.  The data, writing to   *)
(* an endpoint and bridged endpoints are left out; PacketParse has the     *)
(* parser, NetSvrManager the list of servers.                              *)
(***************************************************************************)
EXTENDS Naturals, Sequences, FiniteSets

CONSTANTS Endpoints,      \* remote addresses
          NoEndpoint,     \* none of them
          MaxIds,         \* connect ids that are given out
          MaxDatagrams,   \* datagrams that are received
          MaxCloses       \* closes that wait for the work thread

ASSUME EndpointsOK == NoEndpoint \notin Endpoints
ASSUME BoundsOK == MaxIds \in Nat \ {0} /\ MaxDatagrams \in Nat /\ MaxCloses \in Nat

VARIABLES io_type,
          open,                      \* socket_.is_open
          udp_endpoint_2_id_list,    \* 0 where there is no entry
          udp_id_2_endpoint_list,    \* NoEndpoint where there is no entry
          ids,                       \* connect ids given out
          io,                        \* the IO thread and its datagram
          datagrams,                 \* how many it received
          closes,                    \* posted by close_session_event
          closing,                   \* where work thread and closer stand
          left,                      \* the ids close of the server has left
          freed,                     \* ids without a kcpcb_, or a released one
          sessions,                  \* ids the work-thread logic has
          told,                      \* events posted for each id
          crashed,
          met   \* history: ids the server's close met half added or half closed

maps == <<udp_endpoint_2_id_list, udp_id_2_endpoint_list>>
vars == <<io_type, open, maps, ids, io, datagrams, closes, closing, left,
          freed, sessions, told, crashed, met>>

Ids == 1 .. MaxIds
Threads == {"work", "server"}
Idle == [at |-> "idle", id |-> 0]

Init ==
    /\ io_type \in {"udp", "kcp"}
    /\ open = TRUE
    /\ udp_endpoint_2_id_list = [e \in Endpoints |-> 0]
    /\ udp_id_2_endpoint_list = [id \in Ids |-> NoEndpoint]
    /\ ids = 0
    /\ io = [at |-> "receive", id |-> 0, data |-> "none"]
    /\ datagrams = 0
    /\ closes = <<>>
    /\ closing = [t \in Threads |-> Idle]
    /\ left = {}
    /\ freed = {} /\ sessions = {}
    /\ told = [id \in Ids |-> <<>>]
    /\ crashed = FALSE
    /\ met = {}

Known(id) == udp_id_2_endpoint_list[id] # NoEndpoint
Tell(id, event) == told' = [told EXCEPT ![id] = Append(@, event)]

\* Variant: the endpoint keeps its id.
EraseId(id) ==
    /\ udp_id_2_endpoint_list' = [udp_id_2_endpoint_list EXCEPT ![id] = NoEndpoint]
    /\ UNCHANGED udp_endpoint_2_id_list

\* Both entries of an id are erased, if it has any.
Erase(id) ==
    /\ udp_id_2_endpoint_list' = [udp_id_2_endpoint_list EXCEPT ![id] = NoEndpoint]
    /\ udp_endpoint_2_id_list' =
          [e \in Endpoints |-> IF udp_id_2_endpoint_list[id] = e THEN 0
                               ELSE udp_endpoint_2_id_list[e]]

\* delete_thread_session.
DeleteThreadSession(id) ==
    /\ sessions' = sessions \ {id}
    /\ Tell(id, "disconnect")

\* do_receive, after a datagram: on a closed socket its handler gets an error.
ReceiveAgain == io' = [io EXCEPT !.at = IF open THEN "receive" ELSE "over"]
Over == io' = [io EXCEPT !.at = "over"]
----------------------------------------------------------------------------
\* A datagram from e, which may have come before the socket was closed:
\* add_udp_endpoint finds its id or makes one, which fails in a CKcpServer
\* that gets no kcpcb_ for it; then do_receive_from receives no more.
ArriveAs(e, data, counter) ==
    /\ ~crashed
    /\ io.at = "receive"
    /\ datagrams < MaxDatagrams
    /\ datagrams' = datagrams + 1
    /\ data = "noinit" => io_type = "kcp" /\ udp_endpoint_2_id_list[e] = 0
    /\ \/ /\ udp_endpoint_2_id_list[e] # 0
          /\ io' = [at |-> "handle", id |-> udp_endpoint_2_id_list[e], data |-> data]
          /\ UNCHANGED <<maps, ids, freed, met>>
       \/ /\ udp_endpoint_2_id_list[e] = 0
          /\ ids < MaxIds
          /\ ids' = counter
          /\ udp_endpoint_2_id_list' = [udp_endpoint_2_id_list EXCEPT ![e] = ids + 1]
          /\ udp_id_2_endpoint_list' =
                [udp_id_2_endpoint_list EXCEPT ![ids + 1] = e]
          /\ io' = [at |-> IF data = "noinit" THEN "over" ELSE "new",
                    id |-> ids + 1, data |-> data]
          /\ freed' = IF data = "noinit" THEN {ids + 1} \cup freed ELSE freed
          /\ met' = IF data = "noinit" \/ left # {} THEN {ids + 1} \cup met ELSE met
    /\ UNCHANGED <<io_type, open, closes, closing, left, sessions, told, crashed>>

Arrive(e, data) == ArriveAs(e, data, ids + 1)

\* add_udp_endpoint asks for the local_endpoint of the new session ...
LocalEndpoint ==
    /\ ~crashed
    /\ io.at = "new" /\ open
    /\ io' = [io EXCEPT !.at = "add"]
    /\ UNCHANGED <<io_type, open, maps, ids, datagrams, closes, closing, left,
                   freed, sessions, told, crashed, met>>

\* ... which throws when the socket was closed meanwhile: CUdpServer catches
\* it, in CKcpServer it leaves the IO thread.
ThrowsFrom(types) ==
    /\ ~crashed
    /\ io.at = "new" /\ ~open
    /\ Over
    /\ crashed' = (io_type \in types)
    /\ UNCHANGED <<io_type, open, maps, ids, datagrams, closes, closing, left,
                   freed, sessions, told, met>>

\* Variant: CUdpServer does not catch it either.
ThrowsFromBoth == ThrowsFrom({"udp", "kcp"})

LocalEndpointThrows == ThrowsFrom({"kcp"})

\* The rest of add_udp_endpoint: the work-thread logic gets the session.
AddSession ==
    /\ ~crashed
    /\ io.at = "add"
    /\ io' = [io EXCEPT !.at = "handle"]
    /\ sessions' = sessions \cup {io.id}
    /\ Tell(io.id, "connect")
    /\ UNCHANGED <<io_type, open, maps, ids, datagrams, closes, closing, left,
                   freed, crashed, met>>

HandlesAt == IF io_type = "kcp" THEN "use" ELSE "handle"

\* What follows the parser: the next datagram, in a CKcpServer behind another
\* ikcp_update.
Parsed == IF io_type = "kcp" THEN io' = [io EXCEPT !.at = "update"] ELSE ReceiveAgain

\* do_receive_from, with a datagram the parser turns down.
RefuseThen(receive) ==
    /\ ~crashed
    /\ io.at = HandlesAt /\ io.data = "bad"
    /\ Len(closes) < MaxCloses
    /\ closes' = Append(closes, io.id)
    /\ receive
    /\ UNCHANGED <<io_type, open, maps, ids, datagrams, closing, left, freed,
                   sessions, told, crashed, met>>

\* Variant: a datagram the parser turned down is the last one.
RefuseAndStop == RefuseThen(Over)

Refuse == RefuseThen(Parsed)

\* do_receive_from, with packets for the logic.
Deliver ==
    /\ ~crashed
    /\ io.at = HandlesAt /\ io.data = "packets"
    /\ Tell(io.id, "data")
    /\ Parsed
    /\ UNCHANGED <<io_type, open, maps, ids, datagrams, closes, closing, left,
                   freed, sessions, crashed, met>>

\* do_receive_from of a CKcpServer first finds the session ...
KcpFind ==
    /\ ~crashed
    /\ io_type = "kcp"
    /\ io.at = "handle" /\ Known(io.id)
    /\ io' = [io EXCEPT !.at = "use"]
    /\ UNCHANGED <<io_type, open, maps, ids, datagrams, closes, closing, left,
                   freed, sessions, told, crashed, met>>

\* ... and has nothing for the logic if it is gone, or if the datagram was
\* empty, a request for the kcp id or an acknowledgement.
KcpSkip ==
    /\ ~crashed
    /\ io_type = "kcp"
    /\ \/ io.at = "handle" /\ ~Known(io.id)
       \/ io.at = "use" /\ io.data = "empty"
    /\ ReceiveAgain
    /\ UNCHANGED <<io_type, open, maps, ids, datagrams, closes, closing, left,
                   freed, sessions, told, crashed, met>>

\* The ikcp_update at the end of do_receive_from.
KcpUpdate ==
    /\ ~crashed
    /\ io.at = "update"
    /\ ReceiveAgain
    /\ UNCHANGED <<io_type, open, maps, ids, datagrams, closes, closing, left,
                   freed, sessions, told, crashed, met>>

\* do_receive_from of a CUdpServer with an empty datagram: no do_receive.
UdpEmpty ==
    /\ ~crashed
    /\ io_type = "udp"
    /\ io.at = "handle" /\ io.data = "empty"
    /\ Over
    /\ UNCHANGED <<io_type, open, maps, ids, datagrams, closes, closing, left,
                   freed, sessions, told, crashed, met>>

\* The IO thread works on a kcpcb_ that another thread has released: it may
\* crash, or go on.
KcpUsesFreed ==
    /\ ~crashed
    /\ io.at \in {"new", "use", "update"} /\ io.id \in freed
    /\ crashed' = TRUE
    /\ UNCHANGED <<io_type, open, maps, ids, io, datagrams, closes, closing,
                   left, freed, sessions, told, met>>

\* async_receive_from fails: the socket was closed.
ReceiveError ==
    /\ ~crashed
    /\ io.at = "receive" /\ ~open
    /\ Over
    /\ UNCHANGED <<io_type, open, maps, ids, datagrams, closes, closing, left,
                   freed, sessions, told, crashed, met>>
----------------------------------------------------------------------------
\* A plugin, or the check for idle sessions, closes a session.
AskClose(id) ==
    /\ ~crashed
    /\ id \in sessions
    /\ Len(closes) < MaxCloses
    /\ closes' = Append(closes, id)
    /\ UNCHANGED <<io_type, open, maps, ids, io, datagrams, closing, left,
                   freed, sessions, told, crashed, met>>

\* CUdpServer::close on the work thread: nothing to do on a closed socket or
\* for an id that is gone.
UdpCloseIf(goes_on) ==
    /\ ~crashed
    /\ io_type = "udp" /\ closing["work"] = Idle
    /\ closes # <<>>
    /\ closes' = Tail(closes)
    /\ closing' = IF goes_on
                  THEN [closing EXCEPT !["work"] = [at |-> "tell", id |-> Head(closes)]]
                  ELSE closing
    /\ UNCHANGED <<io_type, open, maps, ids, io, datagrams, left, freed,
                   sessions, told, crashed, met>>

\* Variant: it does not ask whether the id is there.
UdpCloseUnasked == UdpCloseIf(open)

UdpClose == UdpCloseIf(open /\ Known(Head(closes)))

\* Between its two locks the session is taken from the work-thread logic ...
UdpTell ==
    /\ ~crashed
    /\ closing["work"].at = "tell"
    /\ DeleteThreadSession(closing["work"].id)
    /\ closing' = [closing EXCEPT !["work"].at = "erase"]
    /\ UNCHANGED <<io_type, open, maps, ids, io, datagrams, closes, left, freed,
                   crashed, met>>

\* ... and then, if it is still there, from the lists.
UdpErase ==
    /\ ~crashed
    /\ io_type = "udp" /\ closing["work"].at = "erase"
    /\ Erase(closing["work"].id)
    /\ closing' = [closing EXCEPT !["work"] = Idle]
    /\ UNCHANGED <<io_type, open, ids, io, datagrams, closes, left, freed,
                   sessions, told, crashed, met>>

\* Variant: close_server closes the socket and leaves the sessions.
UdpCloseSocket ==
    /\ ~crashed
    /\ io_type = "udp" /\ open
    /\ open' = FALSE
    /\ UNCHANGED <<io_type, maps, ids, io, datagrams, closes, closing, left, freed,
                   sessions, told, crashed, met>>

\* CUdpServer::close_server empties the lists and closes the socket ...
UdpCloseServer ==
    /\ ~crashed
    /\ io_type = "udp" /\ open
    /\ open' = FALSE
    /\ left' = {id \in Ids : Known(id)}
    /\ udp_endpoint_2_id_list' = [e \in Endpoints |-> 0]
    /\ udp_id_2_endpoint_list' = [id \in Ids |-> NoEndpoint]
    /\ met' = left' \cap ({closing["work"].id} \cup
                          IF io.at \in {"new", "add"} THEN {io.id} ELSE {})
    /\ UNCHANGED <<io_type, ids, io, datagrams, closes, closing, freed, sessions,
                   told, crashed>>

\* ... and then takes the sessions it had from the work-thread logic.
UdpTellLeft(id) ==
    /\ ~crashed
    /\ io_type = "udp"
    /\ id \in left
    /\ left' = left \ {id}
    /\ DeleteThreadSession(id)
    /\ UNCHANGED <<io_type, open, maps, ids, io, datagrams, closes, closing,
                   freed, crashed, met>>

\* CKcpServer::close of an id, on either thread, does not ask whether there
\* is a session; its kcpcb_ is released, for the second time it may be ...
KcpRelease(t, id) ==
    /\ closing[t] = Idle
    /\ IF Known(id)
       THEN /\ freed' = freed \cup {id}
            /\ closing' = [closing EXCEPT ![t] = [at |-> "erase", id |-> id]]
            /\ crashed' \in {FALSE, (id \in freed)}
            /\ met' = met \cup ({id} \cap freed)
       ELSE crashed' = TRUE /\ UNCHANGED <<freed, closing, met>>

KcpClose ==
    /\ ~crashed
    /\ io_type = "kcp"
    /\ closes # <<>>
    /\ closes' = Tail(closes)
    /\ KcpRelease("work", Head(closes))
    /\ UNCHANGED <<io_type, open, maps, ids, io, datagrams, left, sessions, told>>

\* CKcpServer::close of the server closes the ids it saw, one by one, and the
\* socket at the end.
KcpCloseServer ==
    /\ ~crashed
    /\ io_type = "kcp" /\ open
    /\ left = {} /\ closing["server"] = Idle
    /\ left' = {id \in Ids : Known(id)} \cup {0}
    /\ met' = met \cup IF io.at \in {"new", "add"} THEN {io.id} ELSE {}
    /\ UNCHANGED <<io_type, open, maps, ids, io, datagrams, closes, closing,
                   freed, sessions, told, crashed>>

KcpCloseLeft(id) ==
    /\ ~crashed
    /\ io_type = "kcp"
    /\ id \in left \ {0}
    /\ left' = left \ {id}
    /\ KcpRelease("server", id)
    /\ UNCHANGED <<io_type, open, maps, ids, io, datagrams, closes, sessions,
                   told>>

KcpSocketClose ==
    /\ ~crashed
    /\ io_type = "kcp" /\ left = {0} /\ closing["server"] = Idle
    /\ open' = FALSE
    /\ left' = {}
    /\ UNCHANGED <<io_type, maps, ids, io, datagrams, closes, closing, freed,
                   sessions, told, crashed, met>>

\* Variant: the work-thread logic keeps the session.
KcpEraseOnly(t) ==
    /\ ~crashed
    /\ io_type = "kcp" /\ closing[t].at = "erase"
    /\ Erase(closing[t].id)
    /\ closing' = [closing EXCEPT ![t] = Idle]
    /\ UNCHANGED <<io_type, open, ids, io, datagrams, closes, left, freed,
                   sessions, told, crashed, met>>

\* ... the entries are erased, and the work-thread logic told in any case.
KcpErase(t) ==
    /\ ~crashed
    /\ io_type = "kcp" /\ closing[t].at = "erase"
    /\ Erase(closing[t].id)
    /\ DeleteThreadSession(closing[t].id)
    /\ closing' = [closing EXCEPT ![t] = Idle]
    /\ UNCHANGED <<io_type, open, ids, io, datagrams, closes, left, freed,
                   crashed, met>>

IoThread == \/ LocalEndpoint \/ LocalEndpointThrows \/ AddSession
            \/ Refuse \/ Deliver \/ KcpFind \/ KcpSkip \/ KcpUpdate
            \/ UdpEmpty \/ ReceiveError
WorkThread == UdpClose \/ UdpTell \/ UdpErase \/ KcpClose \/ KcpErase("work")
ServerThread == \/ \E id \in Ids : UdpTellLeft(id) \/ KcpCloseLeft(id)
                \/ KcpErase("server") \/ KcpSocketClose

Next ==
    \/ \E e \in Endpoints, data \in {"packets", "bad", "empty", "noinit"} :
          Arrive(e, data)
    \/ \E id \in Ids : AskClose(id)
    \/ UdpCloseServer \/ KcpCloseServer
    \/ IoThread \/ KcpUsesFreed \/ WorkThread \/ ServerThread

\* The threads are scheduled; datagrams, closes and the server's end are up
\* to others.
Fairness == WF_vars(IoThread) /\ WF_vars(WorkThread) /\ WF_vars(ServerThread)

Spec == Init /\ [][Next]_vars
FairSpec == Spec /\ Fairness
----------------------------------------------------------------------------
\* Type correctness; every id in use was given out by the counter.
TypeOK ==
    /\ io_type \in {"udp", "kcp"}
    /\ open \in BOOLEAN /\ crashed \in BOOLEAN
    /\ udp_endpoint_2_id_list \in [Endpoints -> 0 .. ids]
    /\ udp_id_2_endpoint_list \in [Ids -> Endpoints \cup {NoEndpoint}]
    /\ ids \in 0 .. MaxIds
    /\ io \in [at : {"receive", "new", "add", "handle", "use", "update", "over"},
               id : 0 .. ids,
               data : {"none", "packets", "bad", "empty", "noinit"}]
    /\ datagrams \in 0 .. MaxDatagrams
    /\ closes \in Seq(1 .. ids) /\ Len(closes) <= MaxCloses
    /\ closing \in [Threads -> [at : {"idle", "tell", "erase"}, id : 0 .. ids]]
    /\ left \subseteq 0 .. ids
    /\ freed \subseteq 1 .. ids /\ sessions \subseteq 1 .. ids
    /\ met \subseteq 1 .. ids
    /\ told \in [Ids -> Seq({"connect", "data", "disconnect"})]

\* The two lists of a server are inverse to each other whatever its threads
\* do: an id is looked up under the endpoint that has it.
MapsAgree ==
    \A e \in Endpoints, id \in Ids :
        udp_endpoint_2_id_list[e] = id <=> udp_id_2_endpoint_list[id] = e

\* A connect first and no other, and one disconnect at most.
InOrder(events) ==
    \A i \in 1 .. Len(events) :
        /\ events[i] = "connect" <=> i = 1
        /\ \A j \in 1 .. Len(events) :
              events[i] = "disconnect" /\ events[j] = "disconnect" => i = j

\* The plugins hear of an endpoint once, before anything else of it, and
\* that it is gone once, however its close by a plugin, by the parser and
\* by the server's close race; only an id that the server's close met half
\* added or half closed may be heard of twice or in another order.
ToldInOrder == \A id \in Ids \ met : InOrder(told[id])

\* A session the work-thread logic has is known to its server, which can
\* write to it and close it, or the server's close is about to take it.
SessionIsKnown == \A id \in sessions \ met : Known(id) \/ id \in left

\* A server that is open goes on receiving ("continue to receive data",
\* do_receive_from) whatever it was sent, but for an empty datagram to a
\* CUdpServer and an endpoint for which a CKcpServer gets no kcpcb_.
KeepsReceiving ==
    io.at = "over" /\ open => \/ io_type = "udp" /\ io.data = "empty"
                              \/ io_type = "kcp" /\ io.data = "noinit"

\* A CUdpServer survives every race of its threads.  A CKcpServer can fail
\* only where a close was under way or done: an id is closed that is gone,
\* a kcpcb_ is used after its release, or the socket is gone.
CrashCause == crashed => io_type = "kcp" /\ (freed # {} \/ ~open)

\* When the server is closed, all its sessions are taken from the plugins.
ServerCloseEndsAll == ~open ~> (sessions \subseteq met \/ crashed)
=============================================================================
