----------------------------- MODULE TcpSession -----------------------------
(***************************************************************************)
(* One accepted TCP connection: CTcpSession (TcpSession/TcpSession.cpp),   *)
(* the part of CWorkThreadLogic (Message/ModuleLogic.cpp) that connects it *)
(* with its work thread, and the plugin at the end of that thread.         *)
(*                                                                         *)
(* Three threads take part.  The socket belongs to the io_context of the   *)
(* acceptor, so reads and write completions run on that thread; what the   *)
(* session dispatches to io_context_, which CTcpServer::do_accept takes    *)
(* from the pool, runs on another one unless SameContext; the tasks of the *)
(* connection run on its work thread, in the order they were added         *)
(* (SerialExecutor).                                                       *)
(*                                                                         *)
(* Data is counted: a received chunk fills one unit of the receive buffer, *)
(* one answer of the plugin is one unit to send.  set_write_buffer and the *)
(* do_write that follows it are one step: send_thread_mutex_ is released   *)
(* between them, but the do_write of another thread that comes in between  *)
(* only sends this thread's data for it.                                   *)
(***************************************************************************)
EXTENDS Naturals, Sequences, FiniteSets

CONSTANTS Setups,       \* the surroundings a session may find itself in
          Cap,          \* session_recv_buffer_.max_buff_size_
          MaxRecv,      \* bound: chunks the peer sends
          MaxSend,      \* bound: answers of the plugin and bridged writes
          MaxClose,     \* bound: closes asked for by plugins and by timeouts
          MaxTasks      \* bound: tasks and handlers queued when a read into a
                        \* full buffer completes (its loop has no bound)

ASSUME ConstantsFit ==
    /\ Setups \subseteq [same : BOOLEAN, bridging : BOOLEAN,
                         sync : SUBSET {"connect", "data", "disconnect"}]
    /\ Cap \in Nat \ {0}
    /\ MaxRecv \in Nat /\ MaxSend \in Nat /\ MaxClose \in Nat /\ MaxTasks \in Nat

VARIABLES setup,             \* the session's surroundings, which do not change
          socket,            \* socket_: "accepted", "open" or "closed"
          listed,            \* the session is in sessions_list_
          reading,           \* the async_read_some in progress, or its result
          fill,              \* session_recv_buffer_.write_size_
          bridge,            \* io_state_ and io_bridge_connect_id_
          send_buffer_size,  \* units do_write took from session_send_buffer_
          send_data_size,    \* units whose async_write succeeded
          is_active_close,   \* is_active_close_
          flagging,          \* close() is before is_active_close_ = true
          posted,            \* handlers waiting in io_context_
          writing,           \* number of async_writes in progress
          tasks,             \* the work thread's queue
          heard,             \* history: the kinds of event the plugin was told
          failed,            \* history: write failures the plugin was told
          owed,              \* history: send_buffer_size at the first close()
          peer, inbound,     \* the peer, and what it sent that is not received
          sent, asked, got   \* counters for the bounds

sockVars == <<socket, listed>>
recvVars == <<reading, fill>>
sendVars == <<send_buffer_size, posted, writing>>
closeVars == <<is_active_close, flagging, owed>>
toldVars == <<heard, failed>>
peerVars == <<peer, inbound, got>>
vars == <<setup, sockVars, recvVars, bridge, sendVars, send_data_size, closeVars,
          tasks, toldVars, peerVars, sent, asked>>

SameContext == setup.same   \* the pool gave the session its acceptor's io_context
Sync == setup.sync          \* commands a plugin registered with CSyncLogic
Bridging == setup.bridging  \* a plugin bridges this connection to another one

Task == {"connect", "data", "send", "fail", "disconnect", "close"}
NotClosed == MaxSend + 1   \* owed before the first close()

Init ==
    /\ setup \in Setups
    /\ socket = "accepted" /\ listed = FALSE
    /\ reading = "none" /\ fill = 0 /\ bridge = "logic"
    /\ send_buffer_size = 0 /\ send_data_size = 0 /\ posted = <<>> /\ writing = 0
    /\ is_active_close = FALSE /\ flagging = FALSE /\ owed = NotClosed
    /\ tasks = <<>> /\ heard = {} /\ failed = 0
    /\ peer = "up" /\ inbound = 0 /\ got = 0 /\ sent = 0 /\ asked = 0

----------------------------------------------------------------------------
(* The steps the handlers are made of.  q is the work thread's queue as the *)
(* handler has left it so far.                                              *)

\* An event for the plugin: at once on the calling thread when the plugin
\* registered it as synchronous, else as a task of the work thread.
Tell(e, q) ==
    IF e \in Sync
    THEN heard' = heard \cup {e} /\ tasks' = q
    ELSE heard' = heard /\ tasks' = Append(q, e)

\* Variant for the mutation tests: a closing session drops the data silently.
DoWriteDrops(inline, q) ==
    /\ send_buffer_size' = send_buffer_size + 1
    /\ tasks' = q
    /\ IF is_active_close THEN UNCHANGED <<posted, writing>>
       ELSE IF inline
       THEN writing' = writing + 1 /\ UNCHANGED posted
       ELSE posted' = Append(posted, "write") /\ UNCHANGED writing

\* do_write of one unit.  On the thread of io_context_ (inline) the async_write
\* starts at once, from any other thread it is posted.
DoWrite(inline, q) ==
    /\ send_buffer_size' = send_buffer_size + 1
    /\ IF is_active_close
       THEN tasks' = Append(q, "fail") /\ UNCHANGED <<posted, writing>>
       ELSE /\ tasks' = q
            /\ IF inline
               THEN writing' = writing + 1 /\ UNCHANGED posted
               ELSE posted' = Append(posted, "write") /\ UNCHANGED writing

NoWrite(q) == tasks' = q /\ UNCHANGED sendVars

\* The plugin answers, or does not.
Answer == sent < MaxSend /\ sent' = sent + 1

\* do_read: a full buffer asks for the close, and is read into all the same; a
\* read into an empty range completes at once with nothing.
FullClose(f) == IF f = Cap THEN <<"close">> ELSE <<>>
DoRead(f) ==
    /\ fill' = f
    /\ reading' = IF f = Cap THEN "empty" ELSE "armed"

\* Variant: the session stays in the list until it is destroyed.
TellOnly(q) == Tell("disconnect", q) /\ UNCHANGED listed

\* delete_thread_session.
DeleteThreadSession(q) == listed' = FALSE /\ Tell("disconnect", q)

\* The handler close_immediaterly dispatches: delete_thread_session, then the
\* close of the socket.
Disconnect(q) ==
    /\ DeleteThreadSession(q)
    /\ socket' = "closed"

\* close_immediaterly called by a write completion.
CloseFromIo(q) ==
    IF socket # "open"
    THEN tasks' = q /\ UNCHANGED <<sockVars, posted, heard>>
    ELSE IF SameContext
         THEN Disconnect(q) /\ UNCHANGED posted
         ELSE /\ posted' = Append(posted, "close")
              /\ tasks' = q
              /\ UNCHANGED <<sockVars, heard>>

----------------------------------------------------------------------------
(* The thread of the socket. *)

\* Variant: open returns behind do_sync_message in every case.
OpenTellsSync ==
    /\ socket = "accepted"
    /\ socket' = "open"
    /\ listed' = TRUE
    /\ DoRead(0)
    /\ UNCHANGED <<setup, bridge, sendVars, send_data_size, closeVars, tasks,
                   toldVars, peerVars, sent, asked>>

\* open, called by do_accept: add_thread_session, then the first do_read.  A
\* synchronous CONNECT may be answered at once.
Open ==
    /\ socket = "accepted"
    /\ socket' = "open"
    /\ listed' = TRUE
    /\ DoRead(0)
    /\ \/ /\ Tell("connect", tasks)
          /\ UNCHANGED <<sendVars, sent>>
       \/ /\ "connect" \in Sync
          /\ heard' = heard \cup {"connect"}
          /\ Answer /\ DoWrite(SameContext, tasks)
    /\ UNCHANGED <<setup, bridge, send_data_size, closeVars, failed,
                   peerVars, asked>>

\* The reactor finds data, the end of the stream or a closed socket.
ReadReady ==
    /\ reading = "armed"
    /\ \/ /\ socket = "open" /\ inbound > 0
          /\ inbound' = inbound - 1
          /\ reading' = "data"
       \/ /\ socket = "closed" \/ (peer = "gone" /\ inbound = 0)
          /\ reading' = "error"
          /\ UNCHANGED inbound
    /\ UNCHANGED <<setup, sockVars, fill, bridge, sendVars, send_data_size,
                   closeVars, tasks, toldVars, peer, got, sent, asked>>

\* Variant: a read error ends the reading and nothing else.
ReadErrorOnly ==
    /\ reading = "error"
    /\ reading' = "none"
    /\ UNCHANGED <<setup, sockVars, fill, bridge, sendVars, send_data_size,
                   closeVars, tasks, toldVars, peerVars, sent, asked>>

\* do_read_some with an error.
ReadError ==
    /\ reading = "error"
    /\ reading' = "none"
    /\ tasks' = Append(tasks, "close")
    /\ UNCHANGED <<setup, sockVars, fill, bridge, sendVars, send_data_size,
                   closeVars, toldVars, peerVars, sent, asked>>

\* do_read_some in state SESSION_IO_LOGIC: the parser refuses the data, or
\* leaves f units of it in the buffer and makes a message of the rest.  Nothing
\* new came with an empty read, so the parser finds nothing new in it.
ReadSome ==
    /\ reading \in {"data", "empty"}
    /\ bridge = "logic"
    /\ LET now == IF reading = "data" THEN fill + 1 ELSE fill
       IN  \/ /\ DoRead(now)
              /\ tasks' = Append(tasks, "close") \o FullClose(now)
              /\ UNCHANGED <<heard, sendVars, sent>>
           \/ /\ DoRead(now)
              /\ tasks' = tasks \o FullClose(now)
              /\ UNCHANGED <<heard, sendVars, sent>>
           \/ /\ reading = "data"
              /\ \E f \in 0 .. now - 1 : DoRead(f)
              /\ \/ Tell("data", tasks) /\ UNCHANGED <<sendVars, sent>>
                 \/ /\ "data" \in Sync
                    /\ heard' = heard \cup {"data"}
                    /\ Answer /\ DoWrite(SameContext, tasks)
    /\ reading = "empty" => Len(tasks) + Len(posted) < MaxTasks
    /\ UNCHANGED <<setup, sockVars, bridge, send_data_size, closeVars,
                   failed, peerVars, asked>>

\* do_read_some in state SESSION_IO_BRIDGE: what was received goes to the other
\* session; when that is gone it goes to the plugin, once with the stale id and
\* then with id 0.
ReadBridged ==
    /\ reading \in {"data", "empty"}
    /\ bridge # "logic"
    /\ DoRead(fill)
    /\ \/ /\ bridge = "peer"
          /\ tasks' = tasks \o FullClose(fill)
          /\ UNCHANGED bridge
       \/ /\ tasks' = Append(tasks, "data") \o FullClose(fill)
          /\ bridge' = "lost"
    /\ reading = "empty" => Len(tasks) + Len(posted) < MaxTasks
    /\ UNCHANGED <<setup, sockVars, sendVars, send_data_size, closeVars,
                   toldVars, peerVars, sent, asked>>

\* do_write_finish.
WriteFinish ==
    /\ writing > 0
    /\ writing' = writing - 1
    /\ \/ /\ socket = "open"
          /\ send_data_size' = send_data_size + 1
          /\ IF is_active_close /\ send_buffer_size = send_data_size'
             THEN CloseFromIo(tasks)
             ELSE UNCHANGED <<sockVars, posted, tasks, heard>>
       \/ /\ socket = "closed" \/ peer = "gone"
          /\ UNCHANGED send_data_size
          /\ IF is_active_close
             THEN CloseFromIo(Append(tasks, "fail"))
             ELSE /\ tasks' = Append(tasks, "fail")
                  /\ UNCHANGED <<sockVars, posted, heard>>
    /\ UNCHANGED <<setup, recvVars, bridge, send_buffer_size, closeVars,
                   failed, peerVars, sent, asked>>

----------------------------------------------------------------------------
(* The thread of io_context_: the dispatched handlers. *)

RunWrite ==
    /\ posted # <<>> /\ Head(posted) = "write"
    /\ posted' = Tail(posted)
    /\ writing' = writing + 1
    /\ UNCHANGED <<setup, sockVars, recvVars, bridge, send_buffer_size,
                   send_data_size, closeVars, tasks, toldVars, peerVars,
                   sent, asked>>

\* When the socket has a thread of its own, that thread may run between
\* delete_thread_session and socket_.close().
RunClose ==
    /\ posted # <<>>
    /\ \/ /\ Head(posted) = "close" /\ SameContext
          /\ Disconnect(tasks)
          /\ posted' = Tail(posted)
       \/ /\ Head(posted) = "close" /\ ~SameContext
          /\ DeleteThreadSession(tasks)
          /\ posted' = <<"shut">> \o Tail(posted)
          /\ UNCHANGED socket
       \/ /\ Head(posted) = "shut"
          /\ socket' = "closed"
          /\ posted' = Tail(posted)
          /\ UNCHANGED <<listed, tasks, heard>>
    /\ UNCHANGED <<setup, recvVars, bridge, send_buffer_size, writing,
                   send_data_size, closeVars, failed, peerVars, sent, asked>>

----------------------------------------------------------------------------
(* The work thread. *)

IsNextTask(K) == ~flagging /\ tasks # <<>> /\ Head(tasks) \in K

\* do_thread_module_logic for CONNECT and DISCONNECT; an answer is dropped.
WorkTell ==
    /\ IsNextTask({"connect", "disconnect"})
    /\ heard' = heard \cup {Head(tasks)}
    /\ tasks' = Tail(tasks)
    /\ UNCHANGED <<setup, sockVars, recvVars, bridge, sendVars,
                   send_data_size, closeVars, failed, peerVars, sent, asked>>

\* do_work_thread_module_logic: the plugin hears of data or of a failed write
\* and may answer, while the session is listed.
WorkModule ==
    /\ IsNextTask({"data", "fail"})
    /\ heard' = heard \cup {Head(tasks)}
    /\ failed' = IF Head(tasks) = "fail" THEN failed + 1 ELSE failed
    /\ \/ NoWrite(Tail(tasks)) /\ UNCHANGED sent
       \/ listed /\ Answer /\ DoWrite(FALSE, Tail(tasks))
    /\ UNCHANGED <<setup, sockVars, recvVars, bridge, send_data_size,
                   closeVars, peerVars, asked>>

\* do_io_message_delivery.
WorkSend ==
    /\ IsNextTask({"send"})
    /\ IF listed THEN DoWrite(FALSE, Tail(tasks)) ELSE NoWrite(Tail(tasks))
    /\ UNCHANGED <<setup, sockVars, recvVars, bridge, send_data_size,
                   closeVars, toldVars, peerVars, sent, asked>>

\* Variant: close does not compare the sizes.
WorkCloseNow ==
    /\ IsNextTask({"close"})
    /\ tasks' = Tail(tasks)
    /\ owed' = IF owed = NotClosed THEN send_buffer_size ELSE owed
    /\ posted' = IF socket = "open" THEN Append(posted, "close") ELSE posted
    /\ UNCHANGED <<setup, sockVars, recvVars, bridge, send_buffer_size,
                   writing, send_data_size, is_active_close, flagging,
                   toldVars, peerVars, sent, asked>>

\* close: at once when everything taken was sent, else when the last write in
\* progress finishes and finds is_active_close_ set.
WorkClose ==
    /\ IsNextTask({"close"})
    /\ tasks' = Tail(tasks)
    /\ owed' = IF owed = NotClosed THEN send_buffer_size ELSE owed
    /\ IF send_buffer_size = send_data_size
       THEN /\ posted' = IF socket = "open" THEN Append(posted, "close") ELSE posted
            /\ UNCHANGED flagging
       ELSE flagging' = TRUE /\ UNCHANGED posted
    /\ UNCHANGED <<setup, sockVars, recvVars, bridge, send_buffer_size,
                   writing, send_data_size, is_active_close, toldVars,
                   peerVars, sent, asked>>

WorkFlag ==
    /\ flagging
    /\ is_active_close' = TRUE
    /\ flagging' = FALSE
    /\ UNCHANGED <<setup, sockVars, recvVars, bridge, sendVars,
                   send_data_size, owed, tasks, toldVars, peerVars, sent,
                   asked>>

----------------------------------------------------------------------------
(* Other threads, and the peer. *)

\* close_io_session of a plugin, or check_session_io_timeout.
AskClose ==
    /\ listed /\ asked < MaxClose
    /\ asked' = asked + 1
    /\ tasks' = Append(tasks, "close")
    /\ UNCHANGED <<setup, sockVars, recvVars, bridge, sendVars,
                   send_data_size, closeVars, toldVars, peerVars, sent>>

\* send_io_message of a plugin.
AskSend ==
    /\ socket # "accepted"
    /\ Answer
    /\ tasks' = Append(tasks, "send")
    /\ UNCHANGED <<setup, sockVars, recvVars, bridge, sendVars,
                   send_data_size, closeVars, toldVars, peerVars, asked>>

\* set_io_bridge_connect_id.
SetBridge ==
    /\ Bridging /\ listed
    /\ bridge' = IF bridge = "logic" THEN "peer" ELSE "logic"
    /\ UNCHANGED <<setup, sockVars, recvVars, sendVars, send_data_size,
                   closeVars, tasks, toldVars, peerVars, sent, asked>>

\* send_io_bridge_message: the session bridged to this one hands over what it
\* received, on the thread of its own socket.
BridgeWrite ==
    /\ Bridging /\ listed
    /\ Answer
    /\ \E inline \in BOOLEAN : DoWrite(inline, tasks)
    /\ UNCHANGED <<setup, sockVars, recvVars, bridge, send_data_size,
                   closeVars, toldVars, peerVars, asked>>

PeerSend ==
    /\ peer = "up" /\ got < MaxRecv
    /\ got' = got + 1
    /\ inbound' = inbound + 1
    /\ UNCHANGED <<setup, sockVars, recvVars, bridge, sendVars,
                   send_data_size, closeVars, tasks, toldVars, peer, sent,
                   asked>>

PeerLeave ==
    /\ peer = "up" /\ socket # "accepted"
    /\ peer' = "gone"
    /\ UNCHANGED <<setup, sockVars, recvVars, bridge, sendVars,
                   send_data_size, closeVars, tasks, toldVars, inbound, got,
                   sent, asked>>

----------------------------------------------------------------------------
SocketThread == Open \/ ReadReady \/ ReadError \/ ReadSome \/ ReadBridged \/ WriteFinish
ContextThread == RunWrite \/ RunClose
WorkThread == WorkTell \/ WorkModule \/ WorkSend \/ WorkClose \/ WorkFlag
Others == AskClose \/ AskSend \/ SetBridge \/ BridgeWrite \/ PeerSend \/ PeerLeave

Next == SocketThread \/ ContextThread \/ WorkThread \/ Others
Spec == Init /\ [][Next]_vars

\* The handlers of an io_context and the tasks of a work thread run in the
\* order they were queued, so none of them waits forever.
Fairness ==
    /\ WF_vars(Open)
    /\ WF_vars(ReadReady) /\ WF_vars(ReadError)
    /\ WF_vars(ReadSome \/ ReadBridged)
    /\ WF_vars(WriteFinish)
    /\ WF_vars(ContextThread)
    /\ WF_vars(WorkThread)
FairSpec == Spec /\ Fairness

----------------------------------------------------------------------------
Count(s, x) == Cardinality({i \in DOMAIN s : s[i] = x})
Failures == failed + Count(tasks, "fail")

\* Type correctness of the session's state.
TypeOK ==
    /\ setup \in Setups
    /\ socket \in {"accepted", "open", "closed"}
    /\ listed \in BOOLEAN
    /\ reading \in {"none", "armed", "data", "empty", "error"}
    /\ fill \in 0 .. Cap
    /\ bridge \in {"logic", "peer", "lost"}
    /\ send_buffer_size \in 0 .. MaxSend /\ send_data_size \in 0 .. MaxSend
    /\ is_active_close \in BOOLEAN /\ flagging \in BOOLEAN
    /\ owed \in 0 .. NotClosed
    /\ posted \in Seq({"write", "close", "shut"})
    /\ writing \in 0 .. MaxSend
    /\ tasks \in Seq(Task)
    /\ heard \subseteq Task \ {"send", "close"} /\ failed \in 0 .. MaxSend
    /\ peer \in {"up", "gone"} /\ inbound \in 0 .. MaxRecv /\ got \in 0 .. MaxRecv
    /\ sent \in 0 .. MaxSend /\ asked \in 0 .. MaxClose

\* Every unit do_write took is sent, or on its way through io_context_ and the
\* socket, or reported to the plugin as a failed write exactly once, whatever
\* closes run between its steps.
WritesAccounted ==
    send_buffer_size = send_data_size + writing + Count(posted, "write") + Failures

\* close() lets go what do_write took before it: the session leaves
\* sessions_list_ only when all of that was sent, or a write failed.
GracefulClose ==
    (socket # "accepted" /\ ~listed) => (send_data_size >= owed \/ Failures > 0)

\* The plugin hears nothing of a connection before its CONNECT, provided it
\* does not take data synchronously but CONNECT on the work thread.
ConnectFirst ==
    ("data" \in Sync => "connect" \in Sync) => (heard # {} => "connect" \in heard)

\* When the plugin hears DISCONNECT, the connection can no longer be found, and
\* a bridged or delayed send to its id cannot reach the session.
DisconnectedIsUnlisted ==
    ("disconnect" \in heard \/ Count(tasks, "disconnect") > 0) => ~listed

\* A session whose peer left before anything closed it is itself closed and
\* taken from sessions_list_, and the plugin hears DISCONNECT, unless data it
\* took is not sent: the read error travels from the socket's thread to the
\* work thread, to io_context_ and back to the work thread.
LeftIsRemoved ==
    (peer = "gone" /\ owed = NotClosed)
        ~> \/ socket = "closed" /\ ~listed /\ "disconnect" \in heard
           \/ send_buffer_size # send_data_size

=============================================================================
