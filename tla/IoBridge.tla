------------------------------ MODULE IoBridge ------------------------------
(***************************************************************************)
(* Bridging two connections: CIotoIo (Message/IotoIo.cpp), the registry    *)
(* CIoBridge in front of it (Message/Iobridge.cpp) with its                *)
(* CSessionAddrList, and the io_bridge_connect_id_ of the sessions.        *)
(*                                                                         *)
(* A plugin maps one address to another; when sessions of both addresses   *)
(* are registered, each is told the id of the other and forwards what it   *)
(* receives.  CIotoIo works under a mutex, CSessionAddrList does not, and  *)
(* CIoBridge calls one after the other: the io threads, of which           *)
(* plugin_timer_mutex_ lets one at a time register or unregister a         *)
(* session, come between the steps of a plugin's add_session_io_mapping.   *)
(***************************************************************************)
EXTENDS Naturals, Sequences, FiniteSetsExt

CONSTANTS Addrs,     \* addresses, records with fields host and type
          Pairs,     \* the pairs <<from, to>> plugins map
          Types,     \* the bridge types they use
          Sessions,  \* session ids
          MaxEnds    \* bound: disconnects handled for one session

BridgeType == {"BATH", "FROM", "TO", "NONE"}

ASSUME PairsAreAddrs == Pairs \subseteq Addrs \X Addrs
ASSUME TypesAreTypes == Types \subseteq BridgeType
ASSUME SessionsArePositive == Sessions \subseteq Nat \ {0}

VARIABLES io_2_io_list,       \* the mappings, in the order they were added
          session_addr_list,  \* key -> session id
          bridge,             \* io_bridge_connect_id_ of every session
          addr,               \* the address of every session that connected
          ends,               \* disconnects handled, per session
          adding,             \* the add_session_io_mapping in progress
          event               \* the connect or disconnect in progress

vars == <<io_2_io_list, session_addr_list, bridge, addr, ends, adding, event>>

NoAddr == [host |-> "none", type |-> "none"]
ASSUME NoAddrIsNone == NoAddr \notin Addrs
Idle == [step |-> "idle", from |-> NoAddr, to |-> NoAddr, found |-> 0]
NoEvent == [op |-> "none", session |-> 0]
Step == {"idle", "find_from", "from", "link_from", "find_to", "to", "link_to"}

Mapping == [from : Addrs, to : Addrs, type : BridgeType,
            from_session : Sessions \cup {0}, to_session : Sessions \cup {0}]

Init ==
    /\ io_2_io_list = <<>>
    /\ session_addr_list = <<>>
    /\ bridge = [n \in Sessions |-> 0]
    /\ addr = [n \in Sessions |-> NoAddr]
    /\ ends = [n \in Sessions |-> 0]
    /\ adding = Idle
    /\ event = NoEvent

----------------------------------------------------------------------------
(* CSessionAddrList. *)

\* set_addr_key: every type but TCP and UDP has the key of a TTY.
Key(a) == <<a.host, IF a.type \in {"TCP", "UDP"} THEN a.type ELSE "TTY">>

Added(list, a, n) ==
    [k \in DOMAIN list \cup {Key(a)} |-> IF k = Key(a) THEN n ELSE list[k]]
Deleted(list, a) == [k \in DOMAIN list \ {Key(a)} |-> list[k]]
Found(list, a) == IF Key(a) \in DOMAIN list THEN list[Key(a)] ELSE 0

----------------------------------------------------------------------------
(* CIotoIo. *)

\* The ends of mapping m that link_io_bridge and unlink_io_bridge tell, if
\* both are there.
TellsFrom(m, n) == m.from_session = n /\ m.type \in {"BATH", "FROM"}
TellsTo(m, n) == m.to_session = n /\ m.type \in {"BATH", "TO"}

\* Variant: the from session of a FROM mapping is not told.
TellsBath(m, n) ==
    /\ m.from_session # 0 /\ m.to_session # 0
    /\ (m.type = "BATH" /\ m.from_session = n) \/ TellsTo(m, n)

Tells(m, n) ==
    /\ m.from_session # 0 /\ m.to_session # 0
    /\ TellsFrom(m, n) \/ TellsTo(m, n)

\* link_io_bridge: the session of the other end; the to session is told last.
Peer(m, n) == IF TellsTo(m, n) THEN m.from_session ELSE m.to_session

\* The bridge ids b when the mappings ms were linked one after the other, or
\* unlinked: a session has what it was told last.
LinkAll(b, ms) ==
    [n \in DOMAIN b |->
        LET I == {i \in DOMAIN ms : Tells(ms[i], n)}
        IN  IF I = {} THEN b[n] ELSE Peer(ms[Max(I)], n)]
UnlinkAll(b, ms) ==
    [n \in DOMAIN b |-> IF \E i \in DOMAIN ms : Tells(ms[i], n) THEN 0 ELSE b[n]]

\* Entry m with n as its session at address a: first as from, then as to.
WithFrom(m, a, n) == IF m.from = a THEN [m EXCEPT !.from_session = n] ELSE m
WithBoth(m, a, n) ==
    IF m.to = a THEN [WithFrom(m, a, n) EXCEPT !.to_session = n] ELSE WithFrom(m, a, n)

AllFrom(list, a, n) == [i \in DOMAIN list |-> WithFrom(list[i], a, n)]
AllBoth(list, a, n) == [i \in DOMAIN list |-> WithBoth(list[i], a, n)]

\* The copies the loops over the list take of each entry, one when it is from
\* address a and one when it is to it; one that is not taken tells nobody.
Copies(list, a, asFrom, asTo) ==
    [k \in 1 .. 2 * Len(list) |->
        LET i == (k + 1) \div 2
        IN  IF k % 2 = 1 /\ list[i].from = a THEN asFrom[i]
            ELSE IF k % 2 = 0 /\ list[i].to = a THEN asTo[i]
            ELSE [list[i] EXCEPT !.from_session = 0]]

\* regedit_bridge_session_info: the copies of a changed entry show it after
\* the change, ...
Register(a, n) ==
    LET list == io_2_io_list
    IN  /\ io_2_io_list' = AllBoth(list, a, n)
        /\ bridge' = LinkAll(bridge,
                            Copies(list, a, AllFrom(list, a, n), AllBoth(list, a, n)))

\* ... in unregedit_bridge_session_info before it.  Neither looks at the id.
Unregister(a) ==
    LET list == io_2_io_list
    IN  /\ io_2_io_list' = AllBoth(list, a, 0)
        /\ bridge' = UnlinkAll(bridge, Copies(list, a, list, AllFrom(list, a, 0)))

\* Variant: only loops are looked for.
ClashesLoop(x, m) == (x.type = "BATH" \/ m.type = "BATH") /\ x.to = m.from

\* Variant: only a from that is there already is looked for.
ClashesFrom(x, m) == x.from = m.from

\* check_io_mapping: the mapping x is refused.
Clashes(x, m) ==
    \/ x.from = m.from
    \/ (x.type = "BATH" \/ m.type = "BATH") /\ x.to = m.from
Refuses(x) == \E i \in DOMAIN io_2_io_list : Clashes(x, io_2_io_list[i])

\* Where the list has mappings from and to an address; the list without the
\* first element at one of the places I, and that element.
FromAt(list, a) == {i \in DOMAIN list : list[i].from = a}
ToAt(list, a) == {i \in DOMAIN list : list[i].to = a}
Without(list, i) == SubSeq(list, 1, i - 1) \o SubSeq(list, i + 1, Len(list))
Drop(list, I) == IF I = {} THEN list ELSE Without(list, Min(I))
Taken(list, I) == IF I = {} THEN <<>> ELSE <<list[Min(I)]>>

----------------------------------------------------------------------------
(* CIoBridge, called by plugins. *)

\* add_session_io_mapping: the entry, ...
AddMapping(p, type) ==
    LET x == [from |-> p[1], to |-> p[2], type |-> type,
              from_session |-> 0, to_session |-> 0]
    IN  /\ adding = Idle
        /\ ~Refuses(x)
        /\ io_2_io_list' = Append(io_2_io_list, x)
        /\ adding' = [step |-> "find_from", from |-> p[1], to |-> p[2], found |-> 0]
        /\ UNCHANGED <<session_addr_list, bridge, addr, ends, event>>

\* ... then the sessions that are there already: one is looked up, ...
AddFind ==
    /\ adding.step \in {"find_from", "find_to"}
    /\ LET a == IF adding.step = "find_from" THEN adding.from ELSE adding.to
           n == Found(session_addr_list, a)
       IN  adding' =
             IF n > 0
             THEN [adding EXCEPT !.found = n, !.step = IF @ = "find_from" THEN "from" ELSE "to"]
             ELSE IF adding.step = "find_from" THEN [adding EXCEPT !.step = "find_to"] ELSE Idle
    /\ UNCHANGED <<io_2_io_list, session_addr_list, bridge, addr, ends, event>>

\* ... entered in the address list once more, and registered.
AddRegister ==
    /\ adding.step \in {"from", "to"}
    /\ LET a == IF adding.step = "from" THEN adding.from ELSE adding.to
       IN  session_addr_list' = Added(session_addr_list, a, adding.found)
    /\ adding' = [adding EXCEPT !.step = IF @ = "from" THEN "link_from" ELSE "link_to"]
    /\ UNCHANGED <<io_2_io_list, bridge, addr, ends, event>>

AddLink ==
    /\ adding.step \in {"link_from", "link_to"}
    /\ Register(IF adding.step = "link_from" THEN adding.from ELSE adding.to, adding.found)
    /\ adding' = IF adding.step = "link_from"
                 THEN [adding EXCEPT !.step = "find_to", !.found = 0] ELSE Idle
    /\ UNCHANGED <<session_addr_list, addr, ends, event>>

\* delete_session_io_mapping: the first mapping from the address and the first
\* one to it.
DeleteMapping(a) ==
    LET list == io_2_io_list
        rest == Drop(list, FromAt(list, a))
    IN  /\ io_2_io_list' = Drop(rest, ToAt(rest, a))
        /\ bridge' = UnlinkAll(bridge, Taken(list, FromAt(list, a))
                                       \o Taken(rest, ToAt(rest, a)))
        /\ UNCHANGED <<session_addr_list, addr, ends, adding, event>>

(* CIoBridge, called by add_thread_session and delete_thread_session. *)

\* regedit_bridge_session_info.  Sessions are numbered in the order they come.
Connect(n, a) ==
    /\ event = NoEvent /\ addr[n] = NoAddr
    /\ \A m \in Sessions : m < n => addr[m] # NoAddr
    /\ addr' = [addr EXCEPT ![n] = a]
    /\ session_addr_list' = Added(session_addr_list, a, n)
    /\ event' = [op |-> "connect", session |-> n]
    /\ UNCHANGED <<io_2_io_list, bridge, ends, adding>>

ConnectLink ==
    /\ event.op = "connect"
    /\ Register(addr[event.session], event.session)
    /\ event' = NoEvent
    /\ UNCHANGED <<session_addr_list, addr, ends, adding>>

\* unregedit_bridge_session_info.  A session may be closed more than once, and
\* after another one of the same address connected.
Disconnect(n) ==
    /\ event = NoEvent /\ addr[n] # NoAddr /\ ends[n] < MaxEnds
    /\ ends' = [ends EXCEPT ![n] = @ + 1]
    /\ session_addr_list' = Deleted(session_addr_list, addr[n])
    /\ event' = [op |-> "disconnect", session |-> n]
    /\ UNCHANGED <<io_2_io_list, bridge, addr, adding>>

DisconnectLink ==
    /\ event.op = "disconnect"
    /\ Unregister(addr[event.session])
    /\ event' = NoEvent
    /\ UNCHANGED <<session_addr_list, addr, ends, adding>>

----------------------------------------------------------------------------
Plugin ==
    \/ \E p \in Pairs, type \in Types : AddMapping(p, type)
    \/ AddFind \/ AddRegister \/ AddLink
    \/ \E a \in Addrs : DeleteMapping(a)
Io ==
    \/ \E n \in Sessions : Disconnect(n) \/ \E a \in Addrs : Connect(n, a)
    \/ ConnectLink \/ DisconnectLink

Next == Plugin \/ Io
Spec == Init /\ [][Next]_vars

----------------------------------------------------------------------------
\* Type correctness of the registry: a session that is to be registered is
\* one, never the 0 of an address that is not in the list.
TypeOK ==
    /\ io_2_io_list \in Seq(Mapping)
    /\ \A k \in DOMAIN session_addr_list : session_addr_list[k] \in Sessions
    /\ addr \in [Sessions -> Addrs \cup {NoAddr}]
    /\ ends \in [Sessions -> Nat]
    /\ event \in [op : {"none", "connect", "disconnect"}, session : Sessions \cup {0}]
    /\ adding \in [step : Step, from : Addrs \cup {NoAddr}, to : Addrs \cup {NoAddr},
                   found : Sessions \cup {0}]
    /\ adding.step \in {"from", "to"} => adding.found \in Sessions

\* An address is the from of one mapping at most, so that deleting the mapping
\* of an address, which takes the first it finds, leaves none behind.
FromUnique ==
    \A i, j \in DOMAIN io_2_io_list :
        io_2_io_list[i].from = io_2_io_list[j].from => i = j

\* No two addresses have the same key in the address list, as a KCP and a TTY
\* address of the same host would.
KeysDiffer == \A a, b \in Addrs : Key(a) = Key(b) => a = b

\* When sessions of both ends of a mapping are registered, the from session
\* forwards to the to session that is registered now, however often either end
\* was replaced, provided plugins map nothing to its from address and the keys
\* differ.
Targets == {p[2] : p \in Pairs}
LinkedFrom ==
    \A i \in DOMAIN io_2_io_list :
        LET m == io_2_io_list[i]
        IN  (/\ m.from \notin Targets /\ m.type \in {"BATH", "FROM"}
             /\ m.from_session # 0 /\ m.to_session # 0)
              => bridge[m.from_session] = m.to_session

\* With a mapping in both directions, an address is the to of one mapping and
\* the from of another only in the order in which they were added:
\* check_io_mapping ("io mapping loop") compares the to of the new mapping with
\* the from of those it has, never the other way round, and no deletion and no
\* session that comes or goes moves one mapping before another.
LoopIsForward ==
    \A i, j \in DOMAIN io_2_io_list :
        /\ "BATH" \in {io_2_io_list[i].type, io_2_io_list[j].type}
        /\ io_2_io_list[i].to = io_2_io_list[j].from
        => i <= j

=============================================================================
