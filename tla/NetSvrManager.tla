--------------------------- MODULE NetSvrManager ---------------------------
(***************************************************************************)
(* The listeners: CNetSvrManager (PSS_ASIO/Common/NetSvrManager.cpp), the  *)
(* accept loop of CTcpServer and the life of a CUdpServer's socket.        *)
(*                                                                         *)
(* Any thread calls start_single_service and close_single_service; the     *)
(* first looks for the address in the list of its protocol, and both post  *)
(* a task to work thread 0.  The handler of a listener runs on an IO       *)
(* thread: a TCP handler holds a plain pointer to its CTcpServer, which    *)
(* lives as long as its entry in the list, a UDP handler shares ownership. *)
(* Main runs close_all_service and then ends the work threads.             *)
(*                                                                         *)
(* Two sockets cannot listen on one TCP address; two can bind one UDP      *)
(* address, for CUdpServer sets reuse_address.  Addresses are free of      *)
(* other programs.                                                         *)
(***************************************************************************)
EXTENDS Naturals, Sequences

CONSTANTS Keys,         \* addresses, io_ip + "_" + io_port
          MaxServers,   \* how many listeners are made
          MaxTasks      \* how many tasks wait for work thread 0

ASSUME BoundsOK == MaxServers \in Nat /\ MaxTasks \in Nat

Protos == {"tcp", "udp"}

VARIABLES list,      \* tcp_service_list_, udp_service_list_; 0 is no entry
          srv,       \* the listeners that were made
          tasks,     \* posted to work thread 0
          main,      \* "up", after close_all_service, after TMS::Close
          crashed,   \* the process is gone
          doubled    \* history: addresses started while they were listed

vars == <<list, srv, tasks, main, crashed, doubled>>

Addresses == Protos \X Keys

\* A listener: "open" with a handler outstanding, "deaf" without one,
\* "closed" with the handler about to be called with operation_aborted,
\* "over" when that is done.
Listener == [proto : Protos, key : Keys, st : {"open", "deaf", "closed", "over"}]

Init ==
    /\ list = [p \in Protos |-> [k \in Keys |-> 0]]
    /\ srv = <<>>
    /\ tasks = <<>>
    /\ main = "up"
    /\ crashed = FALSE
    /\ doubled = {}

Closed(st) == CASE st = "open" -> "closed" [] st = "deaf" -> "over" [] OTHER -> st

\* close of the listeners in S, or the end of their acceptors.
CloseThem(s, S) ==
    [i \in DOMAIN s |-> IF i \in S THEN [s[i] EXCEPT !.st = Closed(@)] ELSE s[i]]

\* Variant: nothing goes with an entry.
OwnedNone(p, k) == {}

\* The TCP listener that goes with its entry in the list.
Owned(p, k) == IF p = "tcp" THEN {list[p][k]} ELSE {}
----------------------------------------------------------------------------
\* start_single_service, if it finds no entry.
StartSingle(p, k) ==
    /\ ~crashed
    /\ list[p][k] = 0
    /\ Len(tasks) < MaxTasks
    /\ tasks' = Append(tasks, [op |-> "start", proto |-> p, key |-> k])
    /\ UNCHANGED <<list, srv, main, crashed, doubled>>

\* close_single_service.
CloseSingle(p, k) ==
    /\ ~crashed
    /\ Len(tasks) < MaxTasks
    /\ tasks' = Append(tasks, [op |-> "close", proto |-> p, key |-> k])
    /\ UNCHANGED <<list, srv, main, crashed, doubled>>

\* The task of start_single_service: the constructor binds, start enters the
\* listener, which may take the place of another, and waits for clients; a
\* CTcpServer that could not bind has no acceptor to wait on.
RunStart ==
    /\ ~crashed /\ main # "down"
    /\ tasks # <<>> /\ Head(tasks).op = "start"
    /\ Len(srv) < MaxServers
    /\ LET p == Head(tasks).proto
           k == Head(tasks).key
           bound == \A i \in DOMAIN srv :
                       /\ srv[i].proto = p /\ srv[i].key = k
                       /\ srv[i].st \in {"open", "deaf"}
                       => p = "udp"
           new == [proto |-> p, key |-> k, st |-> IF bound THEN "open" ELSE "over"]
       IN  /\ srv' = Append(CloseThem(srv, Owned(p, k)), new)
           /\ list' = [list EXCEPT ![p][k] = Len(srv) + 1]
           /\ crashed' = ~bound
           /\ doubled' = IF list[p][k] = 0 THEN doubled ELSE doubled \cup {<<p, k>>}
    /\ tasks' = Tail(tasks)
    /\ UNCHANGED main

\* Variant: a list is searched that does not have it.
RunCloseMisses ==
    /\ ~crashed /\ main # "down"
    /\ tasks # <<>> /\ Head(tasks).op = "close"
    /\ tasks' = Tail(tasks)
    /\ UNCHANGED <<list, srv, main, crashed, doubled>>

\* The task of close_single_service: the entry is erased, the listener closed.
RunClose ==
    /\ ~crashed /\ main # "down"
    /\ tasks # <<>> /\ Head(tasks).op = "close"
    /\ LET p == Head(tasks).proto
           k == Head(tasks).key
       IN  /\ srv' = CloseThem(srv, {list[p][k]})
           /\ list' = [list EXCEPT ![p][k] = 0]
    /\ tasks' = Tail(tasks)
    /\ UNCHANGED <<main, crashed, doubled>>
----------------------------------------------------------------------------
\* Variant: the entry is erased, the socket stays.
GoesUnlisted(i) ==
    /\ ~crashed
    /\ srv[i].st = "open"
    /\ srv' = [srv EXCEPT ![i].st = "deaf"]
    /\ list' = [list EXCEPT ![srv[i].proto][srv[i].key] = 0]
    /\ UNCHANGED <<tasks, main, crashed, doubled>>

\* The handler ends without waiting again and without an event: an exception
\* in do_accept or in do_receive_from, an empty datagram.  (A handler that
\* opens a session or takes a datagram and waits again changes nothing here;
\* an error of async_receive_from is reported and changes as little.)
GoesDeaf(i) ==
    /\ ~crashed
    /\ srv[i].st = "open"
    /\ srv' = [srv EXCEPT ![i].st = "deaf"]
    /\ UNCHANGED <<list, tasks, main, crashed, doubled>>

\* Variant: the entry stays.
AcceptFailsOnly(i) ==
    /\ ~crashed
    /\ srv[i].proto = "tcp"
    /\ srv[i].st = "open"
    /\ srv' = [srv EXCEPT ![i].st = "over"]
    /\ UNCHANGED <<list, tasks, main, crashed, doubled>>

\* async_accept fails: send_accept_listen_fail erases the entry, and the
\* CTcpServer goes with it.
AcceptFails(i) ==
    /\ ~crashed
    /\ srv[i].proto = "tcp"
    /\ srv[i].st = "open"
    /\ srv' = [srv EXCEPT ![i].st = "over"]
    /\ list' = [list EXCEPT !["tcp"][srv[i].key] = 0]
    /\ UNCHANGED <<tasks, main, crashed, doubled>>

\* The handler of a closed listener.  A UDP one only reports.  A TCP one
\* does what AcceptFails does, to whichever listener is in the list by then;
\* its own is freed, and what it finds there is what was there or no memory.
Aborted(i) ==
    /\ ~crashed
    /\ srv[i].st = "closed"
    /\ LET over == [srv EXCEPT ![i].st = "over"]
           k == srv[i].key
       IN \/ /\ srv[i].proto = "udp"
             /\ srv' = over
             /\ UNCHANGED <<list, crashed>>
          \/ /\ srv[i].proto = "tcp"
             /\ srv' = CloseThem(over, {list["tcp"][k]})
             /\ list' = [list EXCEPT !["tcp"][k] = 0]
             /\ UNCHANGED crashed
          \/ /\ srv[i].proto = "tcp"
             /\ srv' = over
             /\ crashed' = TRUE
             /\ UNCHANGED list
    /\ UNCHANGED <<tasks, main, doubled>>

\* close_all_service, under list_mutex_ from its begin to its end.
CloseAll ==
    /\ ~crashed
    /\ main = "up"
    /\ main' = "closed"
    /\ srv' = CloseThem(srv, {list[a[1]][a[2]] : a \in Addresses})
    /\ list' = [p \in Protos |-> [k \in Keys |-> 0]]
    /\ UNCHANGED <<tasks, crashed, doubled>>

\* TMS::Close: work thread 0 ends.
CloseTms ==
    /\ ~crashed
    /\ main = "closed"
    /\ main' = "down"
    /\ UNCHANGED <<list, srv, tasks, crashed, doubled>>

Worker == RunStart \/ RunClose
Next ==
    \/ \E p \in Protos, k \in Keys : StartSingle(p, k) \/ CloseSingle(p, k)
    \/ Worker
    \/ \E i \in DOMAIN srv : GoesDeaf(i) \/ AcceptFails(i) \/ Aborted(i)
    \/ CloseAll \/ CloseTms

\* Work thread 0 and the IO threads are scheduled.
Fairness == WF_vars(Worker) /\ WF_vars(\E i \in DOMAIN srv : Aborted(i))

Spec == Init /\ [][Next]_vars
FairSpec == Spec /\ Fairness
----------------------------------------------------------------------------
\* Type correctness.
TypeOK ==
    /\ list \in [Protos -> [Keys -> 0 .. Len(srv)]]
    /\ srv \in Seq(Listener)
    /\ Len(srv) <= MaxServers /\ Len(tasks) <= MaxTasks
    /\ tasks \in Seq([op : {"start", "close"}, proto : Protos, key : Keys])
    /\ main \in {"up", "closed", "down"}
    /\ crashed \in BOOLEAN
    /\ doubled \subseteq Addresses

\* An open listener can be closed: it is in the list under its address
\* (NetSvrManager.cpp:167, 171), except for a UDP listener whose address was
\* started twice, because the list was asked before the task ran
\* (NetSvrManager.cpp:232).
OpenIsListed ==
    \A i \in DOMAIN srv :
        srv[i].st = "open" =>
            \/ list[srv[i].proto][srv[i].key] = i
            \/ srv[i].proto = "udp" /\ <<"udp", srv[i].key>> \in doubled

\* An entry never stands for a listener that is closed, which
\* start_single_service would take for a listener that is there
\* (NetSvrManager.cpp:214): close_single_service and the failed accept erase
\* it.  Its socket exists, even when it went deaf.
ListedHasSocket ==
    ~crashed =>
    \A p \in Protos, k \in Keys :
        list[p][k] # 0 => /\ srv[list[p][k]].st \in {"open", "deaf"}
                          /\ srv[list[p][k]].proto = p
                          /\ srv[list[p][k]].key = k

\* The only way to a crash is a TCP address started while it is listed, or
\* the handler of a CTcpServer that was closed (TcpServer.cpp:39).
CrashCause ==
    [][crashed' # crashed =>
          \/ \E k \in Keys : <<"tcp", k>> \in doubled'
          \/ \E i \in DOMAIN srv : srv[i].proto = "tcp" /\ srv[i].st = "closed"]_vars

Asked(op, p, k) ==
    \E n \in DOMAIN tasks : tasks[n] = [op |-> op, proto |-> p, key |-> k]

\* close_single_service takes effect: the address is without an open
\* listener, unless it is started again, was started twice, or the server
\* stops before.
CloseTakesEffect ==
    \A p \in Protos, k \in Keys :
        Asked("close", p, k) ~>
            \/ ~\E i \in DOMAIN srv :
                   srv[i].proto = p /\ srv[i].key = k /\ srv[i].st = "open"
            \/ Asked("start", p, k)
            \/ <<p, k>> \in doubled
            \/ crashed \/ main # "up" \/ Len(srv) = MaxServers
=============================================================================
