------------------------ MODULE CommunicationService ------------------------
(***************************************************************************)
(* The links to other servers: CCommunicationService                       *)
(* (Common/CommunicationService.cpp), the life of the CTcpClientSession    *)
(* behind a link (TcpSession/TcpClientSession.cpp) and the two handlers of *)
(* CWorkThreadLogic that tell the service what became of it.               *)
(*                                                                         *)
(* The service's maps are guarded by the recursive mutex_.  run_check_task *)
(* (work thread 0), reset_connect (a work thread), run_first_io_connect    *)
(* (the main thread) and set_connect_id (io threads) hold it throughout;   *)
(* add_connect (a plugin's thread) takes and releases it three times.      *)
(* add_thread_session and delete_thread_session exclude each other with    *)
(* plugin_timer_mutex_ and are one step each.                              *)
(*                                                                         *)
(* A session is its place in sess, which is also its connect_id.  The      *)
(* number is the counter's in the order of the connection attempts and not *)
(* of their success; only its being unique matters.                        *)
(***************************************************************************)
EXTENDS Naturals, Sequences, FiniteSets, SequencesExt

CONSTANTS ServerIds,      \* server_id values the plugins use
          NeedReconnect,  \* those added with is_need_reconnect
          LateAdds,       \* plugins add servers from threads of their own too,
                          \* not only while the main thread loads them
          MaxSessions,    \* bound: connection attempts
          MaxAdds,        \* bound: calls of connect_io_server
          MaxRefusals,    \* bound: attempts that fail
          MaxEnds         \* bound: links the remote ends or a plugin closes

ASSUME ServersFit ==
    /\ ServerIds \subseteq Nat \ {0} /\ IsFiniteSet(ServerIds)
    /\ NeedReconnect \subseteq ServerIds
    /\ LateAdds \in BOOLEAN
    /\ MaxSessions \in Nat /\ MaxAdds \in Nat /\ MaxRefusals \in Nat /\ MaxEnds \in Nat

\* A server id is never a connect id: close_connect looks a server_id up among
\* the connect ids, and finds the wrong link where the two overlap.
ASSUME IdsDiffer == ServerIds \cap (0 .. MaxSessions) = {}

VARIABLES run,                      \* "no", "flagged", "done" (the io pool runs), "closed"
          communication_list,       \* server_id -> entry
          server_connect_id_list,   \* connect_id -> server_id
          server_is_connect_list,   \* server ids being connected
          sess,                     \* every session ever started
          adding,                   \* the add_connect in progress
          adds, refused, ended      \* counters for the bounds

mapVars == <<communication_list, server_connect_id_list, server_is_connect_list>>
bounds == <<adds, refused, ended>>
vars == <<run, mapVars, sess, adding, bounds>>

NotAdding == [step |-> "none", server |-> 0, session |-> 0]
Entry == [session : 0 .. MaxSessions, connect_id : 0 .. MaxSessions, need : BOOLEAN]
Session == [server : ServerIds, st : {"connecting", "up", "failed", "freed", "closed"},
            is_connect : BOOLEAN, reading : BOOLEAN, closes : Nat]

Init ==
    /\ run = "no"
    /\ communication_list = <<>>
    /\ server_connect_id_list = <<>>
    /\ server_is_connect_list = {}
    /\ sess = <<>>
    /\ adding = NotAdding
    /\ adds = 0 /\ refused = 0 /\ ended = 0

Put(f, k, v) == [x \in DOMAIN f \cup {k} |-> IF x = k THEN v ELSE f[x]]
Erase(f, k) == [x \in DOMAIN f \ {k} |-> f[x]]

----------------------------------------------------------------------------
(* Connecting. *)

NewSession(s) == [server |-> s, st |-> "connecting", is_connect |-> FALSE,
                  reading |-> FALSE, closes |-> 0]

\* io_connect, called with mutex_ held, for every server of S: one that is
\* being connected is left alone, the others get a session that connects.
IoConnect(S) ==
    LET start == IF run = "no" THEN {} ELSE S \ server_is_connect_list
        order == SetToSeq(start)
        SessionOf(s) == Len(sess) + (CHOOSE i \in DOMAIN order : order[i] = s)
    IN  /\ Len(sess) + Len(order) <= MaxSessions
        /\ sess' = sess \o [i \in DOMAIN order |-> NewSession(order[i])]
        /\ server_is_connect_list' = server_is_connect_list \cup start
        /\ communication_list' =
             [s \in DOMAIN communication_list |->
                IF s \in start
                THEN [communication_list[s] EXCEPT !.session = SessionOf(s)]
                ELSE communication_list[s]]
        /\ UNCHANGED server_connect_id_list

\* run_server_to_server: the flag, then run_first_io_connect; the io_contexts
\* run after it.
RunFlag ==
    /\ run = "no"
    /\ LateAdds \/ adding = NotAdding
    /\ run' = "flagged"
    /\ UNCHANGED <<mapVars, sess, adding, bounds>>

RunFirst ==
    /\ run = "flagged"
    /\ run' = "done"
    /\ IoConnect(DOMAIN communication_list)
    /\ UNCHANGED <<adding, bounds>>

IoRuns == run \in {"done", "closed"}

\* close, called by CWorkThreadLogic::close when the server stops.  The io pool
\* goes on running, and so do the work threads for a while.
CloseService ==
    /\ run = "done"
    /\ run' = "closed"
    /\ communication_list' = <<>>
    /\ server_connect_id_list' = <<>>
    /\ UNCHANGED <<server_is_connect_list, sess, adding, bounds>>

\* Variant for the mutation tests: a server that has no session is left alone.
IsDownHasSession(s) ==
    LET n == communication_list[s].session IN n # 0 /\ ~sess[n].is_connect

\* run_check_task, every s2s_timeout_seconds.
IsDown(s) ==
    LET n == communication_list[s].session IN n = 0 \/ ~sess[n].is_connect

CheckTask ==
    /\ IoConnect({s \in DOMAIN communication_list :
                    IsDown(s) /\ communication_list[s].need})
    /\ UNCHANGED <<run, adding, bounds>>

\* do_io_message_delivery to a connect_id that is no session (any more):
\* get_server_id, then reset_connect.
ResetConnect(c) ==
    /\ c \in DOMAIN server_connect_id_list
    /\ sess[c].st # "up"
    /\ server_connect_id_list[c] \in DOMAIN communication_list
    /\ IoConnect({server_connect_id_list[c]})
    /\ UNCHANGED <<run, adding, bounds>>

\* connect_io_server: is_exist, then add_connect, whose io_connect enters the
\* server, ...
AddExist(s) ==
    /\ LateAdds \/ run = "no"
    /\ adding = NotAdding /\ adds < MaxAdds
    /\ s \notin DOMAIN communication_list
    /\ adds' = adds + 1
    /\ adding' = [step |-> "enter", server |-> s, session |-> 0]
    /\ UNCHANGED <<run, mapVars, sess, refused, ended>>

AddEnter ==
    /\ adding.step = "enter"
    /\ communication_list' = Put(communication_list, adding.server,
         [session |-> 0, connect_id |-> 0, need |-> adding.server \in NeedReconnect])
    /\ adding' = [adding EXCEPT !.step = "start"]
    /\ UNCHANGED <<run, server_connect_id_list, server_is_connect_list, sess, bounds>>

\* ... starts a session unless one is being connected, ...
AddStart ==
    /\ adding.step = "start"
    /\ IF run = "no" \/ adding.server \in server_is_connect_list
       THEN adding' = NotAdding /\ UNCHANGED <<server_is_connect_list, sess>>
       ELSE /\ Len(sess) < MaxSessions
            /\ server_is_connect_list' = server_is_connect_list \cup {adding.server}
            /\ sess' = Append(sess, NewSession(adding.server))
            /\ adding' = [adding EXCEPT !.step = "store", !.session = Len(sess')]
    /\ UNCHANGED <<run, communication_list, server_connect_id_list, bounds>>

\* ... and stores it, in a new entry when the server was removed meanwhile.
AddStore ==
    /\ adding.step = "store"
    /\ communication_list' = Put(communication_list, adding.server,
         IF adding.server \in DOMAIN communication_list
         THEN [communication_list[adding.server] EXCEPT !.session = adding.session]
         ELSE [session |-> adding.session, connect_id |-> 0, need |-> FALSE])
    /\ adding' = NotAdding
    /\ UNCHANGED <<run, server_connect_id_list, server_is_connect_list, sess, bounds>>

----------------------------------------------------------------------------
(* What becomes of a session: handlers of the io threads. *)

\* Variant: the link is not entered under its connect_id.
SetConnectIdOnly(s, c) ==
    /\ server_is_connect_list' = server_is_connect_list \ {s}
    /\ communication_list' = IF s \notin DOMAIN communication_list THEN communication_list
                             ELSE [communication_list EXCEPT ![s].connect_id = c]
    /\ UNCHANGED server_connect_id_list

\* set_connect_id.  With connect_id 0 it erases the key 0, not the key of the
\* link that ended.
SetConnectId(s, c) ==
    /\ server_is_connect_list' = server_is_connect_list \ {s}
    /\ IF s \notin DOMAIN communication_list
       THEN UNCHANGED <<communication_list, server_connect_id_list>>
       ELSE IF c = 0
       THEN /\ communication_list' = [communication_list EXCEPT ![s].connect_id = 0,
                                                               ![s].session = 0]
            /\ server_connect_id_list' = Erase(server_connect_id_list, 0)
       ELSE /\ communication_list' = [communication_list EXCEPT ![s].connect_id = c]
            /\ server_connect_id_list' = Put(server_connect_id_list, c, s)

\* Nothing but communication_list_ and a running add_connect holds a session
\* that connects: async_connect is given the bare this.
Held(n) ==
    \/ \E s \in DOMAIN communication_list : communication_list[s].session = n
    \/ adding.session = n

\* handle_connect without an error: add_thread_session, then do_read.
Connected(n) ==
    /\ IoRuns /\ sess[n].st = "connecting" /\ Held(n)
    /\ sess' = [sess EXCEPT ![n].st = "up", ![n].is_connect = TRUE, ![n].reading = TRUE]
    /\ SetConnectId(sess[n].server, n)
    /\ UNCHANGED <<run, adding, bounds>>

\* handle_connect with an error tells the plugins, and no one else.
Refused(n) ==
    /\ IoRuns /\ sess[n].st = "connecting" /\ Held(n)
    /\ refused < MaxRefusals
    /\ refused' = refused + 1
    /\ sess' = [sess EXCEPT ![n].st = "failed"]
    /\ UNCHANGED <<run, mapVars, adding, adds, ended>>

\* A session that connects was freed: its socket is closed and handle_connect
\* comes with an error.
Aborted(n) ==
    /\ IoRuns /\ sess[n].st = "connecting" /\ ~Held(n)
    /\ sess' = [sess EXCEPT ![n].st = "freed"]
    /\ UNCHANGED <<run, mapVars, adding, bounds>>

\* do_read_some with an error: the remote side ended the link, or close did.
ReadError(n) ==
    /\ sess[n].reading
    /\ IF sess[n].st = "closed" THEN UNCHANGED ended
       ELSE ended < MaxEnds /\ ended' = ended + 1
    /\ sess' = [sess EXCEPT ![n].reading = FALSE, ![n].is_connect = FALSE,
                            ![n].closes = @ + 1]
    /\ UNCHANGED <<run, mapVars, adding, adds, refused>>

\* close_session_event for another reason: the packet parser refuses what was
\* received, or check_session_io_timeout finds the session idle.
CloseSessionEvent(n) ==
    /\ sess[n].st = "up"
    /\ ended < MaxEnds
    /\ ended' = ended + 1
    /\ sess' = [sess EXCEPT ![n].closes = @ + 1]
    /\ UNCHANGED <<run, mapVars, adding, adds, refused>>

\* Variant: the socket is closed without delete_thread_session.
CloseSocketOnly(n) ==
    /\ sess[n].closes > 0
    /\ sess' = [sess EXCEPT ![n].closes = @ - 1, ![n].st = "closed"]
    /\ UNCHANGED <<run, mapVars, adding, bounds>>

\* close, on a work thread and then on the io thread: delete_thread_session
\* and the close of the socket.  It does not ask whether that was done before.
Close(n) ==
    /\ sess[n].closes > 0
    /\ sess' = [sess EXCEPT ![n].closes = @ - 1, ![n].st = "closed"]
    /\ SetConnectId(sess[n].server, 0)
    /\ UNCHANGED <<run, adding, bounds>>

\* close_io_session of a plugin: close_connect when the link has a server, and
\* close_session_event while the session is listed.
CloseIoSession(n) ==
    /\ n \in DOMAIN server_connect_id_list \/ sess[n].st = "up"
    /\ ended < MaxEnds
    /\ ended' = ended + 1
    /\ IF n \in DOMAIN server_connect_id_list
       THEN LET s == server_connect_id_list[n]
            IN  /\ communication_list' = Erase(communication_list, s)
                /\ server_connect_id_list' =
                     IF s \in DOMAIN server_connect_id_list
                     THEN Erase(server_connect_id_list, server_connect_id_list[s])
                     ELSE server_connect_id_list
       ELSE UNCHANGED <<communication_list, server_connect_id_list>>
    /\ sess' = IF sess[n].st = "up" THEN [sess EXCEPT ![n].closes = @ + 1] ELSE sess
    /\ UNCHANGED <<run, server_is_connect_list, adding, adds, refused>>

----------------------------------------------------------------------------
Io(n) ==
    \/ Connected(n) \/ Refused(n) \/ Aborted(n)
    \/ ReadError(n) \/ CloseSessionEvent(n) \/ Close(n)

Next ==
    \/ RunFlag \/ RunFirst \/ CloseService \/ CheckTask \/ AddEnter \/ AddStart \/ AddStore
    \/ \E s \in ServerIds : AddExist(s)
    \/ \E n \in DOMAIN sess : Io(n) \/ ResetConnect(n) \/ CloseIoSession(n)

Spec == Init /\ [][Next]_vars

\* The main thread and the threads that call add_connect go on, the timer
\* comes again, every connection attempt ends and every close is carried out.
Fairness ==
    /\ WF_vars(RunFlag \/ RunFirst)
    /\ WF_vars(AddEnter \/ AddStart \/ AddStore)
    /\ WF_vars(CheckTask)
    /\ \A n \in 1 .. MaxSessions :
          /\ WF_vars(n \in DOMAIN sess /\ (Connected(n) \/ Refused(n)))
          /\ WF_vars(n \in DOMAIN sess /\ Aborted(n))
          /\ WF_vars(n \in DOMAIN sess /\ sess[n].st = "closed" /\ ReadError(n))
          /\ WF_vars(n \in DOMAIN sess /\ Close(n))
FairSpec == Spec /\ Fairness

----------------------------------------------------------------------------
\* Type correctness of the service's maps and of the sessions.
TypeOK ==
    /\ run \in {"no", "flagged", "done", "closed"}
    /\ DOMAIN communication_list \subseteq ServerIds
    /\ \A s \in DOMAIN communication_list : communication_list[s] \in Entry
    /\ DOMAIN server_connect_id_list \subseteq 1 .. MaxSessions
    /\ \A c \in DOMAIN server_connect_id_list : server_connect_id_list[c] \in ServerIds
    /\ server_is_connect_list \subseteq ServerIds
    /\ sess \in Seq(Session)
    /\ adding \in [step : {"none", "enter", "start", "store"},
                   server : ServerIds \cup {0}, session : 0 .. MaxSessions]

\* The connect_id the service gives for a server (get_connect_id) is one the
\* plugins can send to: that session connected, was not closed and belongs to
\* the server, whatever late disconnects, removals, repeated attempts and the
\* close of the service come between.
KnownIsUp ==
    \A s \in DOMAIN communication_list :
        LET c == communication_list[s].connect_id
        IN  c # 0 => sess[c].st = "up" /\ sess[c].server = s

\* The two maps agree: the link of a server is found under its connect_id too.
MapsAgree ==
    \A s \in DOMAIN communication_list :
        LET c == communication_list[s].connect_id
        IN  c # 0 => c \in DOMAIN server_connect_id_list /\ server_connect_id_list[c] = s

\* A server that is to be reconnected gets its link, again and again, until it
\* is removed (or the bound on the attempts is reached): the service is, in the
\* words of its header, the class that reconnects automatically.  Without a
\* refused attempt it does; what connect_id_ says of the link is another matter.
Reconnects ==
    \A s \in NeedReconnect :
        (s \in DOMAIN communication_list) ~>
            \/ s \notin DOMAIN communication_list
            \/ ~communication_list[s].need
            \/ \E n \in DOMAIN sess : sess[n].server = s /\ sess[n].st = "up"
            \/ Len(sess) = MaxSessions

=============================================================================
