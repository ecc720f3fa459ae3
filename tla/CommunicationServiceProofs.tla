--------------------- MODULE CommunicationServiceProofs ---------------------
(***************************************************************************)
(* Proofs about CommunicationService for any finite set of servers and any *)
(* number of sessions: its state is well typed, the connect_id it gives    *)
(* for a server is that of a session that is up, and its two maps agree.   *)
(***************************************************************************)
EXTENDS CommunicationService, FiniteSetTheorems, TLAPS

\* A leaf that names no prover is left to the SMT solver.
USE SMTT(20)

\* The types; a call of add_connect that is under way has a server.
Types ==
    /\ TypeOK
    /\ Len(sess) <= MaxSessions
    /\ adding.step # "none" => adding.server \in ServerIds

\* KnownIsUp and MapsAgree for one server.  They need each other: a link that
\* comes up overwrites an entry of server_connect_id_list_, which no other
\* server may have.
LinkOK(s) ==
    LET c == communication_list[s].connect_id
    IN  c # 0 => /\ c \in 1 .. Len(sess)
                 /\ sess[c].st = "up" /\ sess[c].server = s
                 /\ c \in DOMAIN server_connect_id_list
                 /\ server_connect_id_list[c] = s

Links == \A s \in DOMAIN communication_list : LinkOK(s)

IInv == Types /\ Links
----------------------------------------------------------------------------
\* SetToSeq, the order in which io_connect is called for the servers of a
\* set, has each of them.
LEMMA OrderIs ==
    ASSUME NEW S, IsFiniteSet(S)
    PROVE  /\ SetToSeq(S) \in Seq(S)
           /\ \A s \in S : \E i \in DOMAIN SetToSeq(S) : SetToSeq(S)[i] = s
  <1> DEFINE n == Cardinality(S)
             f == SetToSeq(S)
  <1>1. n \in Nat /\ ExistsBijection(1 .. n, S)
    BY FS_CardinalityType
  <1>2. \E g \in [1 .. n -> S] : IsInjective(g)
    BY <1>1 DEF ExistsBijection, Bijection, Injection, IsInjective
  <1>3. f \in [1 .. n -> S] /\ IsInjective(f)
    BY <1>2 DEF SetToSeq
  <1> HIDE DEF f
  <1>4. f \in Injection(1 .. n, S)
    BY <1>3 DEF Injection, IsInjective
  <1>5. Cardinality(1 .. n) = Cardinality(S)
    <2>1. Cardinality(1 .. n) = IF 1 > n THEN 0 ELSE n - 1 + 1
      BY <1>1, FS_Interval
    <2> QED
      BY <1>1, <2>1
  <1>6. f \in Surjection(1 .. n, S)
    BY <1>4, <1>5, FS_Injection
  <1>7. \A s \in S : \E i \in 1 .. n : f[i] = s
    BY <1>6 DEF Surjection
  <1>8. f \in Seq(S) /\ DOMAIN f = 1 .. n
    BY <1>1, <1>3
  <1> QED
    BY <1>7, <1>8 DEF f

\* The servers a session is started for are servers, and a part of a finite
\* set is finite.
LEMMA PartIsFinite ==
    ASSUME NEW S, S \subseteq ServerIds PROVE IsFiniteSet(S)
  BY ServersFit, FS_Subset, Zenon

\* Initially there is no server, no link and no session.
LEMMA InitIInv == Init => IInv
  <1> SUFFICES ASSUME Init PROVE IInv
    OBVIOUS
  <1>1. DOMAIN <<>> = {} /\ Len(<<>>) = 0 /\ <<>> \in Seq(Session)
    OBVIOUS
  <1>2. TypeOK
    BY <1>1, ServersFit DEF Init, TypeOK, NotAdding
  <1> QED
    BY <1>1, <1>2, ServersFit DEF Init, IInv, Types, Links, NotAdding
\* Entries that keep their connect_id, and sessions and connect ids that are
\* kept where a link needs them, keep the links.
LEMMA LinksStay ==
    ASSUME IInv, Len(sess') \in Nat,
           \A s \in DOMAIN communication_list' :
              \/ communication_list'[s].connect_id = 0
              \/ /\ s \in DOMAIN communication_list
                 /\ communication_list'[s].connect_id = communication_list[s].connect_id,
           Len(sess) <= Len(sess'),
           \A c \in 1 .. Len(sess) :
              sess[c].st = "up" => sess'[c].st = "up" /\ sess'[c].server = sess[c].server,
           server_connect_id_list' = server_connect_id_list
    PROVE  Links'
  <1> SUFFICES ASSUME NEW s \in DOMAIN communication_list',
                      communication_list'[s].connect_id # 0
               PROVE  /\ communication_list'[s].connect_id \in 1 .. Len(sess')
                      /\ sess'[communication_list'[s].connect_id].st = "up"
                      /\ sess'[communication_list'[s].connect_id].server = s
                      /\ communication_list'[s].connect_id \in DOMAIN server_connect_id_list'
                      /\ server_connect_id_list'[communication_list'[s].connect_id] = s
    BY DEF Links, LinkOK
  <1> DEFINE c == communication_list[s].connect_id
  <1>1. s \in DOMAIN communication_list /\ communication_list'[s].connect_id = c
    OBVIOUS
  <1>2. /\ c \in 1 .. Len(sess) /\ sess[c].st = "up" /\ sess[c].server = s
        /\ c \in DOMAIN server_connect_id_list /\ server_connect_id_list[c] = s
    BY <1>1 DEF IInv, Links, LinkOK
  <1>3. Len(sess) \in Nat
    BY DEF IInv, Types, TypeOK
  <1> QED
    BY <1>1, <1>2, <1>3

\* io_connect starts sessions and enters them; it leaves the links alone.
LEMMA IoConnectKeeps ==
    ASSUME IInv, NEW S \in SUBSET ServerIds, IoConnect(S),
           run' \in {"no", "flagged", "done", "closed"}, adding' = adding
    PROVE  IInv'
  <1> DEFINE start == IF run = "no" THEN {} ELSE S \ server_is_connect_list
             order == SetToSeq(start)
             new == [i \in DOMAIN order |-> NewSession(order[i])]
             SessionOf(s) == Len(sess) + (CHOOSE i \in DOMAIN order : order[i] = s)
  <1>1. start \subseteq ServerIds
    OBVIOUS
  <1>2. order \in Seq(start) /\ \A s \in start : \E i \in DOMAIN order : order[i] = s
    <2>1. IsFiniteSet(start)
      BY <1>1, PartIsFinite
    <2> QED
      BY <2>1, OrderIs, Zenon
  <1>3. /\ Len(sess) + Len(order) <= MaxSessions
        /\ sess' = sess \o new
        /\ server_is_connect_list' = server_is_connect_list \cup start
        /\ communication_list' =
             [s \in DOMAIN communication_list |->
                IF s \in start
                THEN [communication_list[s] EXCEPT !.session = SessionOf(s)]
                ELSE communication_list[s]]
        /\ server_connect_id_list' = server_connect_id_list
    BY DEF IoConnect
  <1> HIDE DEF order
  <1>4. /\ Len(order) \in Nat /\ DOMAIN order = 1 .. Len(order)
        /\ \A i \in 1 .. Len(order) : order[i] \in ServerIds
    BY <1>1, <1>2
  <1>5. new \in Seq(Session) /\ Len(new) = Len(order)
    <2>1. \A i \in 1 .. Len(order) : NewSession(order[i]) \in Session
      BY <1>4 DEF NewSession, Session
    <2>2. new \in [1 .. Len(order) -> Session]
      BY <1>4, <2>1
    <2> HIDE DEF new
    <2> QED
      BY <1>4, <2>2
  <1> HIDE DEF new
  <1>6. sess \in Seq(Session) /\ Len(sess) \in Nat /\ MaxSessions \in Nat
    BY ServersFit DEF IInv, Types, TypeOK
  <1>7. /\ sess' \in Seq(Session) /\ Len(sess') = Len(sess) + Len(order)
        /\ \A i \in 1 .. Len(sess) : sess'[i] = sess[i]
    <2>1. /\ sess \o new \in Seq(Session) /\ Len(sess \o new) = Len(sess) + Len(new)
          /\ \A i \in 1 .. Len(sess) + Len(new) :
                (sess \o new)[i] = IF i <= Len(sess) THEN sess[i] ELSE new[i - Len(sess)]
      BY <1>5, <1>6
    <2> QED
      BY <1>3, <1>4, <1>5, <1>6, <2>1
  <1>8. \A s \in start : SessionOf(s) \in 0 .. MaxSessions
    <2> SUFFICES ASSUME NEW s \in start PROVE SessionOf(s) \in 0 .. MaxSessions
      OBVIOUS
    <2> DEFINE k == CHOOSE i \in DOMAIN order : order[i] = s
    <2>1. k \in 1 .. Len(order)
      BY <1>2, <1>4
    <2> HIDE DEF k
    <2>2. Len(sess) + k \in 0 .. MaxSessions
      BY <1>3, <1>4, <1>6, <2>1
    <2> QED
      BY <2>2 DEF k
  <1> HIDE DEF SessionOf, start
  <1>9. \A s \in DOMAIN communication_list :
           /\ communication_list[s] \in Entry
           /\ communication_list'[s] \in Entry
           /\ communication_list'[s].connect_id = communication_list[s].connect_id
    BY <1>3, <1>8, Zenon DEF IInv, Types, TypeOK, Entry
  <1>10. DOMAIN communication_list' = DOMAIN communication_list
    BY <1>3
  <1>11. Types'
    <2>1. TypeOK'
      BY <1>1, <1>3, <1>7, <1>9, <1>10, Zenon DEF IInv, Types, TypeOK
    <2> QED
      BY <1>3, <1>4, <1>6, <1>7, <2>1 DEF IInv, Types
  <1>12. Links'
    BY <1>3, <1>4, <1>6, <1>7, <1>9, <1>10, LinksStay
  <1> QED
    BY <1>11, <1>12 DEF IInv

\* The main thread, the timer and a failed delivery connect servers.
LEMMA ConnectingKeeps ==
    ASSUME IInv, RunFlag \/ RunFirst \/ CheckTask \/ \E c \in DOMAIN sess : ResetConnect(c)
    PROVE  IInv'
  <1>0. DOMAIN communication_list \subseteq ServerIds
    BY DEF IInv, Types, TypeOK
  <1>1. CASE RunFlag
    BY <1>1 DEF RunFlag, mapVars, bounds, IInv, Types, TypeOK, Links, LinkOK
  <1>2. CASE RunFirst
    <2>1. /\ IoConnect(DOMAIN communication_list)
          /\ run' \in {"no", "flagged", "done", "closed"} /\ adding' = adding
      BY <1>2 DEF RunFirst
    <2> QED
      BY <1>0, <2>1, IoConnectKeeps
  <1>3. CASE CheckTask
    <2> DEFINE S == {s \in DOMAIN communication_list :
                        IsDown(s) /\ communication_list[s].need}
    <2>1. /\ IoConnect(S)
          /\ run' \in {"no", "flagged", "done", "closed"} /\ adding' = adding
      BY <1>3 DEF CheckTask, IInv, Types, TypeOK
    <2>2. S \in SUBSET ServerIds
      BY <1>0
    <2> HIDE DEF S
    <2> QED
      BY <2>1, <2>2, IoConnectKeeps
  <1>4. ASSUME NEW c \in DOMAIN sess, ResetConnect(c)
        PROVE  IInv'
    <2> DEFINE S == {server_connect_id_list[c]}
    <2>1. /\ IoConnect(S)
          /\ run' \in {"no", "flagged", "done", "closed"} /\ adding' = adding
      BY <1>4 DEF ResetConnect, IInv, Types, TypeOK
    <2>2. S \in SUBSET ServerIds
      BY <1>0, <1>4 DEF ResetConnect
    <2> HIDE DEF S
    <2> QED
      BY <2>1, <2>2, IoConnectKeeps
  <1> QED
    BY <1>1, <1>2, <1>3, <1>4

\* connect_io_server: an entry is made anew without a link, or keeps its link.
LEMMA AddingKeeps ==
    ASSUME IInv, AddEnter \/ AddStart \/ AddStore \/ \E s \in ServerIds : AddExist(s)
    PROVE  IInv'
  <1>0. sess \in Seq(Session) /\ Len(sess) \in Nat /\ MaxSessions \in Nat
    BY ServersFit DEF IInv, Types, TypeOK
  <1>1. ASSUME NEW s \in ServerIds, AddExist(s)
        PROVE  IInv'
    BY <1>1, ServersFit DEF AddExist, mapVars, IInv, Types, TypeOK, Links, LinkOK
  <1>2. CASE AddEnter
    <2> DEFINE t == adding.server
               e == [session |-> 0, connect_id |-> 0, need |-> t \in NeedReconnect]
    <2>1. /\ communication_list' = Put(communication_list, t, e)
          /\ adding.step = "enter" /\ adding' = [adding EXCEPT !.step = "start"]
          /\ UNCHANGED <<run, server_connect_id_list, server_is_connect_list, sess>>
      BY <1>2 DEF AddEnter
    <2>2. t \in ServerIds /\ e \in Entry /\ e.connect_id = 0
      <3>1. (t \in NeedReconnect) \in BOOLEAN
        OBVIOUS
      <3> QED
        BY <1>0, <2>1, <3>1 DEF IInv, Types, Entry
    <2> HIDE DEF e
    <2>3. /\ DOMAIN communication_list' = DOMAIN communication_list \cup {t}
          /\ \A s \in DOMAIN communication_list' :
                communication_list'[s] = IF s = t THEN e ELSE communication_list[s]
      BY <2>1 DEF Put
    <2>4. Types'
      BY <2>1, <2>2, <2>3 DEF IInv, Types, TypeOK
    <2>5. Links'
      BY <1>0, <2>1, <2>2, <2>3, LinksStay
    <2> QED
      BY <2>4, <2>5 DEF IInv
  <1>3. CASE AddStart
    <2>1. CASE run = "no" \/ adding.server \in server_is_connect_list
      <3>1. /\ adding' = NotAdding
            /\ UNCHANGED <<run, mapVars, sess>>
        BY <1>3, <2>1 DEF AddStart, mapVars
      <3> QED
        BY <1>0, <3>1 DEF NotAdding, mapVars, IInv, Types, TypeOK, Links, LinkOK
    <2>2. CASE ~(run = "no" \/ adding.server \in server_is_connect_list)
      <3>1. /\ Len(sess) < MaxSessions
            /\ adding.step = "start"
            /\ server_is_connect_list' = server_is_connect_list \cup {adding.server}
            /\ sess' = Append(sess, NewSession(adding.server))
            /\ adding' = [adding EXCEPT !.step = "store", !.session = Len(sess')]
            /\ UNCHANGED <<run, communication_list, server_connect_id_list>>
        BY <1>3, <2>2 DEF AddStart
      <3>2. adding.server \in ServerIds
        BY <3>1 DEF IInv, Types
      <3>3. NewSession(adding.server) \in Session
        BY <3>2 DEF NewSession, Session
      <3>4. /\ sess' \in Seq(Session) /\ Len(sess') = Len(sess) + 1
            /\ \A i \in 1 .. Len(sess) : sess'[i] = sess[i]
        BY <1>0, <3>1, <3>3
      <3>5. Types'
        <4>1. /\ adding' \in [step : {"none", "enter", "start", "store"},
                              server : ServerIds \cup {0}, session : 0 .. MaxSessions]
              /\ adding'.server = adding.server
          <5>1. Len(sess') \in 0 .. MaxSessions
            BY <1>0, <3>1, <3>4
          <5>2. adding \in [step : {"none", "enter", "start", "store"},
                            server : ServerIds \cup {0}, session : 0 .. MaxSessions]
            BY DEF IInv, Types, TypeOK
          <5> QED
            BY <3>1, <5>1, <5>2, Zenon
        <4>2. TypeOK'
          BY <3>1, <3>2, <3>4, <4>1 DEF IInv, Types, TypeOK
        <4> QED
          BY <1>0, <3>1, <3>2, <3>4, <4>1, <4>2 DEF Types
      <3>6. Links'
        BY <1>0, <3>1, <3>4, LinksStay
      <3> QED
        BY <3>5, <3>6 DEF IInv
    <2> QED
      BY <2>1, <2>2
  <1>4. CASE AddStore
    <2> DEFINE t == adding.server
               e == IF t \in DOMAIN communication_list
                    THEN [communication_list[t] EXCEPT !.session = adding.session]
                    ELSE [session |-> adding.session, connect_id |-> 0, need |-> FALSE]
    <2>1. /\ communication_list' = Put(communication_list, t, e)
          /\ adding.step = "store" /\ adding' = NotAdding
          /\ UNCHANGED <<run, server_connect_id_list, server_is_connect_list, sess>>
      BY <1>4 DEF AddStore
    <2>2. /\ t \in ServerIds /\ e \in Entry
          /\ \/ e.connect_id = 0
             \/ /\ t \in DOMAIN communication_list
                /\ e.connect_id = communication_list[t].connect_id
      <3>1. t \in ServerIds /\ adding.session \in 0 .. MaxSessions
        BY <2>1 DEF IInv, Types, TypeOK
      <3>2. CASE t \in DOMAIN communication_list
        <4>1. communication_list[t] \in Entry
          BY <3>2 DEF IInv, Types, TypeOK
        <4> QED
          BY <3>1, <3>2, <4>1 DEF Entry
      <3>3. CASE t \notin DOMAIN communication_list
        BY <1>0, <3>1, <3>3 DEF Entry
      <3> QED
        BY <3>1, <3>2, <3>3
    <2> HIDE DEF e
    <2>3. /\ DOMAIN communication_list' = DOMAIN communication_list \cup {t}
          /\ \A s \in DOMAIN communication_list' :
                communication_list'[s] = IF s = t THEN e ELSE communication_list[s]
      BY <2>1 DEF Put
    <2>4. Types'
      BY <1>0, <2>1, <2>2, <2>3 DEF IInv, Types, TypeOK, NotAdding
    <2>5. Links'
      BY <1>0, <2>1, <2>2, <2>3, LinksStay
    <2> QED
      BY <2>4, <2>5 DEF IInv
  <1> QED
    BY <1>1, <1>2, <1>3, <1>4

\* What handlers do to one session: its server stays, and the others do.
LEMMA SessionChanges ==
    ASSUME IInv, NEW n \in DOMAIN sess, NEW x \in Session,
           x.server = sess[n].server, sess' = [sess EXCEPT ![n] = x]
    PROVE  /\ sess' \in Seq(Session) /\ Len(sess') = Len(sess)
           /\ Len(sess) \in Nat /\ n \in 1 .. Len(sess) /\ sess[n] \in Session
           /\ sess'[n] = x
           /\ \A c \in 1 .. Len(sess) : /\ sess'[c].server = sess[c].server
                                        /\ c # n => sess'[c] = sess[c]
  <1>1. /\ sess \in Seq(Session) /\ Len(sess) \in Nat
        /\ DOMAIN sess = 1 .. Len(sess)
    BY DEF IInv, Types, TypeOK
  <1>2. \A i \in 1 .. Len(sess) : sess[i] \in Session
    BY <1>1
  <1>3. sess' \in [1 .. Len(sess) -> Session] /\ DOMAIN sess' = 1 .. Len(sess)
    BY <1>1, <1>2
  <1>4. sess' \in Seq(Session)
    BY <1>1, <1>3
  <1>5. Len(sess') = Len(sess)
    BY <1>1, <1>3, <1>4
  <1> QED
    BY <1>1, <1>2, <1>3, <1>4, <1>5

\* A handler that changes neither the maps nor a session that is up, except
\* for its flags, keeps the links.
LEMMA HandlerKeeps ==
    ASSUME IInv, NEW n \in DOMAIN sess, NEW x \in Session,
           x.server = sess[n].server, sess[n].st = "up" => x.st = "up",
           sess' = [sess EXCEPT ![n] = x], UNCHANGED <<run, mapVars, adding>>
    PROVE  IInv'
  <1>1. /\ sess' \in Seq(Session) /\ Len(sess') = Len(sess)
        /\ Len(sess) \in Nat /\ n \in 1 .. Len(sess) /\ sess'[n] = x
        /\ \A c \in 1 .. Len(sess) : /\ sess'[c].server = sess[c].server
                                     /\ c # n => sess'[c] = sess[c]
    BY SessionChanges, Zenon
  <1>2. \A c \in 1 .. Len(sess) :
           sess[c].st = "up" => sess'[c].st = "up" /\ sess'[c].server = sess[c].server
    BY <1>1
  <1>3. Types'
    BY <1>1 DEF mapVars, IInv, Types, TypeOK
  <1>4. Links'
    BY <1>1, <1>2, LinksStay DEF mapVars
  <1> QED
    BY <1>3, <1>4 DEF IInv

\* A connection that fails or is read to its end.
LEMMA EventsKeep ==
    ASSUME IInv, NEW n \in DOMAIN sess,
           Refused(n) \/ Aborted(n) \/ ReadError(n) \/ CloseSessionEvent(n)
    PROVE  IInv'
  <1>0. sess[n] \in Session
    BY DEF IInv, Types, TypeOK
  <1>1. CASE Refused(n) \/ Aborted(n)
    <2> DEFINE x(st) == [sess[n] EXCEPT !.st = st]
    <2>1. PICK st \in {"failed", "freed"} :
             /\ sess' = [sess EXCEPT ![n] = x(st)] /\ sess[n].st = "connecting"
             /\ UNCHANGED <<run, mapVars, adding>>
      BY <1>1 DEF Refused, Aborted
    <2>2. x(st) \in Session /\ x(st).server = sess[n].server
      BY <1>0 DEF Session
    <2> HIDE DEF x
    <2> QED
      BY <2>1, <2>2, HandlerKeeps, Zenon
  <1>2. CASE ReadError(n)
    <2> DEFINE x == [sess[n] EXCEPT !.reading = FALSE, !.is_connect = FALSE,
                                    !.closes = @ + 1]
    <2>1. sess' = [sess EXCEPT ![n] = x] /\ UNCHANGED <<run, mapVars, adding>>
      BY <1>2, Zenon DEF ReadError
    <2>2. x \in Session /\ x.server = sess[n].server /\ x.st = sess[n].st
      <3> DEFINE y == [sess[n] EXCEPT !.reading = FALSE, !.is_connect = FALSE]
      <3>1. y \in Session /\ y.server = sess[n].server /\ y.st = sess[n].st
        BY <1>0, Zenon DEF Session
      <3>2. x = [y EXCEPT !.closes = @ + 1]
        OBVIOUS
      <3> HIDE DEF x, y
      <3> QED
        BY <3>1, <3>2 DEF Session
    <2> HIDE DEF x
    <2> QED
      BY <2>1, <2>2, HandlerKeeps, Zenon
  <1>3. CASE CloseSessionEvent(n)
    <2> DEFINE x == [sess[n] EXCEPT !.closes = @ + 1]
    <2>1. sess' = [sess EXCEPT ![n] = x] /\ UNCHANGED <<run, mapVars, adding>>
      BY <1>3 DEF CloseSessionEvent
    <2>2. x \in Session /\ x.server = sess[n].server /\ x.st = sess[n].st
      BY <1>0 DEF Session
    <2> HIDE DEF x
    <2> QED
      BY <2>1, <2>2, HandlerKeeps, Zenon
  <1> QED
    BY <1>1, <1>2, <1>3

\* handle_connect: the session is up when set_connect_id enters it, and no
\* other server has its connect_id, since that would be one of a session that
\* was up before.
LEMMA ConnectedKeeps ==
    ASSUME IInv, NEW n \in DOMAIN sess, Connected(n)
    PROVE  IInv'
  <1> DEFINE x == [sess[n] EXCEPT !.st = "up", !.is_connect = TRUE, !.reading = TRUE]
             s == sess[n].server
  <1>0. /\ sess[n] \in Session /\ s \in ServerIds
        /\ \A r \in DOMAIN communication_list : communication_list[r] \in Entry
    <2>1. sess[n] \in Session
      BY DEF IInv, Types, TypeOK
    <2>2. s \in ServerIds
      BY <2>1 DEF Session
    <2> QED
      BY <2>1, <2>2 DEF IInv, Types, TypeOK
  <1>1. /\ sess[n].st = "connecting" /\ sess' = [sess EXCEPT ![n] = x]
        /\ SetConnectId(s, n) /\ UNCHANGED <<run, adding>>
    BY Zenon DEF Connected
  <1>2. x \in Session /\ x.server = s /\ x.st = "up"
    BY <1>0, Zenon DEF Session
  <1> HIDE DEF x
  <1>3. /\ sess' \in Seq(Session) /\ Len(sess') = Len(sess)
        /\ Len(sess) \in Nat /\ n \in 1 .. Len(sess) /\ sess'[n] = x
        /\ \A c \in 1 .. Len(sess) : /\ sess'[c].server = sess[c].server
                                     /\ c # n => sess'[c] = sess[c]
    BY <1>1, <1>2, SessionChanges, Zenon
  <1>4. n \in 1 .. MaxSessions /\ n # 0
    BY <1>3, ServersFit DEF IInv, Types
  <1>5. server_is_connect_list' \subseteq ServerIds
    BY <1>1 DEF SetConnectId, IInv, Types, TypeOK
  <1>6. CASE s \notin DOMAIN communication_list
    <2>1. UNCHANGED <<communication_list, server_connect_id_list>>
      BY <1>1, <1>6 DEF SetConnectId
    <2>2. Types'
      BY <1>1, <1>3, <1>5, <2>1 DEF IInv, Types, TypeOK
    <2>3. Links'
      BY <1>1, <1>3, <2>1, LinksStay
    <2> QED
      BY <2>2, <2>3 DEF IInv
  <1>7. CASE s \in DOMAIN communication_list
    <2>1. /\ communication_list' = [communication_list EXCEPT ![s].connect_id = n]
          /\ server_connect_id_list' = Put(server_connect_id_list, n, s)
      BY <1>1, <1>4, <1>7 DEF SetConnectId
    <2>2. /\ DOMAIN communication_list' = DOMAIN communication_list
          /\ communication_list'[s] \in Entry /\ communication_list'[s].connect_id = n
          /\ \A r \in DOMAIN communication_list :
                r # s => communication_list'[r] = communication_list[r]
      BY <1>0, <1>4, <1>7, <2>1, ServersFit DEF Entry
    <2>3. /\ DOMAIN server_connect_id_list' = DOMAIN server_connect_id_list \cup {n}
          /\ server_connect_id_list'[n] = s
          /\ \A c \in DOMAIN server_connect_id_list :
                c # n => server_connect_id_list'[c] = server_connect_id_list[c]
      BY <2>1 DEF Put
    <2>4. Types'
      BY <1>0, <1>1, <1>3, <1>4, <1>5, <2>2, <2>3 DEF IInv, Types, TypeOK
    <2>5. ASSUME NEW r \in DOMAIN communication_list, r # s PROVE LinkOK(r)'
      <3>1. LinkOK(r) /\ communication_list'[r] = communication_list[r]
        BY <2>2, <2>5 DEF IInv, Links
      <3> QED
        BY <1>1, <1>3, <2>3, <3>1 DEF LinkOK
    <2>6. ASSUME NEW r \in DOMAIN communication_list, r = s PROVE LinkOK(r)'
      BY <1>2, <1>3, <2>2, <2>3, <2>6 DEF LinkOK
    <2> QED
      BY <2>2, <2>4, <2>5, <2>6 DEF IInv, Links
  <1> QED
    BY <1>6, <1>7

\* close: the server of the session that is closed, and no other, loses its
\* link, whether or not the link was still that session.
LEMMA CloseKeeps ==
    ASSUME IInv, NEW n \in DOMAIN sess, Close(n)
    PROVE  IInv'
  <1> DEFINE x == [sess[n] EXCEPT !.closes = @ - 1, !.st = "closed"]
             s == sess[n].server
  <1>0. /\ sess[n] \in Session /\ s \in ServerIds /\ MaxSessions \in Nat
        /\ \A r \in DOMAIN communication_list : communication_list[r] \in Entry
    <2>1. sess[n] \in Session
      BY DEF IInv, Types, TypeOK
    <2>2. s \in ServerIds
      BY <2>1 DEF Session
    <2> QED
      BY <2>1, <2>2, ServersFit DEF IInv, Types, TypeOK
  <1>1. /\ sess[n].closes > 0 /\ sess' = [sess EXCEPT ![n] = x]
        /\ SetConnectId(s, 0) /\ UNCHANGED <<run, adding>>
    BY Zenon DEF Close
  <1>2. x \in Session /\ x.server = s
    <2>1. sess[n].closes - 1 \in Nat
      BY <1>0, <1>1 DEF Session
    <2> QED
      BY <1>0, <2>1, Zenon DEF Session
  <1> HIDE DEF x
  <1>3. /\ sess' \in Seq(Session) /\ Len(sess') = Len(sess)
        /\ Len(sess) \in Nat /\ n \in 1 .. Len(sess)
        /\ \A c \in 1 .. Len(sess) : /\ sess'[c].server = sess[c].server
                                     /\ c # n => sess'[c] = sess[c]
    BY <1>1, <1>2, SessionChanges, Zenon
  <1>4. server_is_connect_list' \subseteq ServerIds
    BY <1>1 DEF SetConnectId, IInv, Types, TypeOK
  <1>5. /\ DOMAIN server_connect_id_list' = DOMAIN server_connect_id_list
        /\ \A c \in DOMAIN server_connect_id_list :
              server_connect_id_list'[c] = server_connect_id_list[c]
    <2>1. 0 \notin DOMAIN server_connect_id_list
      BY <1>0 DEF IInv, Types, TypeOK
    <2> QED
      BY <1>1, <2>1, Zenon DEF SetConnectId, Erase
  <1>6. /\ DOMAIN communication_list' = DOMAIN communication_list
        /\ \A r \in DOMAIN communication_list :
              /\ communication_list'[r] \in Entry
              /\ r # s => communication_list'[r] = communication_list[r]
              /\ r = s => communication_list'[r].connect_id = 0
    <2>1. CASE s \notin DOMAIN communication_list
      BY <1>0, <1>1, <2>1 DEF SetConnectId
    <2>2. CASE s \in DOMAIN communication_list
      <3>1. communication_list' = [communication_list EXCEPT
               ![s] = [@ EXCEPT !.connect_id = 0, !.session = 0]]
        BY <1>0, <1>1, <2>2 DEF SetConnectId, Entry
      <3>2. [communication_list[s] EXCEPT !.connect_id = 0, !.session = 0] \in Entry
        <4>1. communication_list[s] \in Entry /\ 0 \in 0 .. MaxSessions
          BY <1>0, <2>2
        <4> DEFINE y == [communication_list[s] EXCEPT !.connect_id = 0]
        <4>2. y \in Entry
          BY <4>1 DEF Entry
        <4> HIDE DEF y
        <4>3. [y EXCEPT !.session = 0] \in Entry
          BY <4>1, <4>2 DEF Entry
        <4> QED
          BY <4>3 DEF y
      <3> QED
        BY <1>0, <2>2, <3>1, <3>2 DEF Entry
    <2> QED
      BY <2>1, <2>2
  <1>7. Types'
    BY <1>1, <1>3, <1>4, <1>5, <1>6 DEF IInv, Types, TypeOK
  <1>8. ASSUME NEW r \in DOMAIN communication_list PROVE LinkOK(r)'
    <2>1. CASE r = s
      BY <1>6, <2>1 DEF LinkOK
    <2>2. CASE r # s
      <3>1. LinkOK(r) /\ communication_list'[r] = communication_list[r]
        BY <1>6, <2>2 DEF IInv, Links
      <3> QED
        BY <1>3, <1>5, <2>2, <3>1 DEF LinkOK
    <2> QED
      BY <2>1, <2>2
  <1> QED
    BY <1>6, <1>7, <1>8 DEF IInv, Links

\* close_io_session and the close of the service: entries go, and no connect
\* id is taken for a server's.
LEMMA RemovingKeeps ==
    ASSUME IInv, CloseService \/ \E n \in DOMAIN sess : CloseIoSession(n)
    PROVE  IInv'
  <1>1. CASE CloseService
    <2>1. DOMAIN <<>> = {}
      OBVIOUS
    <2> QED
      BY <1>1, <2>1 DEF CloseService, bounds, IInv, Types, TypeOK, Links
  <1>2. ASSUME NEW n \in DOMAIN sess, CloseIoSession(n)
        PROVE  IInv'
    <2> DEFINE x == IF sess[n].st = "up" THEN [sess[n] EXCEPT !.closes = @ + 1] ELSE sess[n]
    <2>0. sess[n] \in Session
      BY DEF IInv, Types, TypeOK
    <2>1. x \in Session /\ x.server = sess[n].server /\ x.st = sess[n].st
      BY <2>0 DEF Session
    <2>2. sess' = [sess EXCEPT ![n] = x]
      <3>1. CASE sess[n].st = "up"
        BY <1>2, <3>1 DEF CloseIoSession
      <3>2. CASE sess[n].st # "up"
        <4>1. sess' = sess /\ x = sess[n]
          BY <1>2, <3>2 DEF CloseIoSession
        <4>2. sess \in [1 .. Len(sess) -> Session]
          BY DEF IInv, Types, TypeOK
        <4> QED
          BY <4>1, <4>2
      <3> QED
        BY <3>1, <3>2
    <2> HIDE DEF x
    <2>3. /\ sess' \in Seq(Session) /\ Len(sess') = Len(sess)
          /\ Len(sess) \in Nat /\ n \in 1 .. Len(sess) /\ sess'[n] = x
          /\ \A c \in 1 .. Len(sess) : /\ sess'[c].server = sess[c].server
                                       /\ c # n => sess'[c] = sess[c]
      BY <2>1, <2>2, SessionChanges, Zenon
    <2>4. /\ server_connect_id_list' = server_connect_id_list
          /\ DOMAIN communication_list' \subseteq DOMAIN communication_list
          /\ \A s \in DOMAIN communication_list' :
                communication_list'[s] = communication_list[s]
          /\ UNCHANGED <<run, server_is_connect_list, adding>>
      <3>1. CASE n \in DOMAIN server_connect_id_list
        <4> DEFINE s == server_connect_id_list[n]
        <4>1. s \in ServerIds /\ DOMAIN server_connect_id_list \subseteq 1 .. MaxSessions
          BY <3>1 DEF IInv, Types, TypeOK
        <4>2. s \notin DOMAIN server_connect_id_list
          BY <4>1, IdsDiffer, ServersFit
        <4> QED
          BY <1>2, <3>1, <4>2 DEF CloseIoSession, Erase
      <3>2. CASE n \notin DOMAIN server_connect_id_list
        BY <1>2, <3>2 DEF CloseIoSession
      <3> QED
        BY <3>1, <3>2
    <2>5. Types'
      BY <2>3, <2>4 DEF IInv, Types, TypeOK
    <2>6. \A c \in 1 .. Len(sess) :
             sess[c].st = "up" => sess'[c].st = "up" /\ sess'[c].server = sess[c].server
      BY <2>1, <2>3
    <2>7. Links'
      BY <2>3, <2>4, <2>6, LinksStay
    <2> QED
      BY <2>5, <2>7 DEF IInv
  <1> QED
    BY <1>1, <1>2

\* Every step keeps the invariant.
LEMMA NextIInv == IInv /\ [Next]_vars => IInv'
  <1> SUFFICES ASSUME IInv, [Next]_vars PROVE IInv'
    OBVIOUS
  <1>1. CASE RunFlag \/ RunFirst \/ CheckTask \/ \E n \in DOMAIN sess : ResetConnect(n)
    BY <1>1, ConnectingKeeps
  <1>2. CASE AddEnter \/ AddStart \/ AddStore \/ \E s \in ServerIds : AddExist(s)
    BY <1>2, AddingKeeps
  <1>3. CASE CloseService \/ \E n \in DOMAIN sess : CloseIoSession(n)
    BY <1>3, RemovingKeeps
  <1>4. ASSUME NEW n \in DOMAIN sess, Io(n) PROVE IInv'
    BY <1>4, ConnectedKeeps, CloseKeeps, EventsKeep DEF Io
  <1>5. CASE UNCHANGED vars
    BY <1>5 DEF vars, mapVars, IInv, Types, TypeOK, Links, LinkOK
  <1> QED
    BY <1>1, <1>2, <1>3, <1>4, <1>5 DEF Next
----------------------------------------------------------------------------
\* The state of the service stays well typed: no entry, connect id or session
\* is of a server that was not added.
THEOREM TypeCorrect == Spec => []TypeOK
  <1>1. IInv => TypeOK
    BY DEF IInv, Types
  <1> QED
    BY <1>1, InitIInv, NextIInv, PTL DEF Spec

\* Whatever late disconnects, removals, repeated attempts and closes come
\* between, the connect_id the service gives for a server (get_connect_id) is
\* that of a session of this server that is up.
THEOREM KnownIsUpHolds == Spec => []KnownIsUp
  <1>1. IInv => KnownIsUp
    BY DEF IInv, Links, LinkOK, KnownIsUp
  <1> QED
    BY <1>1, InitIInv, NextIInv, PTL DEF Spec

\* A server that has a link is found under the connect_id of the link, though
\* set_connect_id leaves the connect ids of ended links in the map.
THEOREM MapsAgreeHolds == Spec => []MapsAgree
  <1>1. IInv => MapsAgree
    BY DEF IInv, Links, LinkOK, MapsAgree
  <1> QED
    BY <1>1, InitIInv, NextIInv, PTL DEF Spec

=============================================================================
