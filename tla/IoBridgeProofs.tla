--------------------------- MODULE IoBridgeProofs ---------------------------
(***************************************************************************)
(* That an address is the from of one mapping at most, that a chain of     *)
(* mappings runs forward, and that the from session of a mapping forwards  *)
(* to its to session, for every set of addresses, pairs and sessions.      *)
(***************************************************************************)
EXTENDS IoBridge, WellFoundedInduction, TLAPS

\* A leaf that names no prover is left to the SMT solver.
USE SMTT(20)

IInv == TypeOK /\ FromUnique /\ LoopIsForward

----------------------------------------------------------------------------
\* A set of numbers that is not empty has a least element, which Min gives.
LEMMA MinIsLeast ==
    ASSUME NEW I, I \subseteq Nat, I # {}
    PROVE  Min(I) \in I
<1>1. IsWellFoundedOn(OpToRel(<, Nat), Nat)
  BY NatLessThanWellFounded, Zenon
<1>2. PICK x \in I : \A y \in I : ~ (<<y, x>> \in OpToRel(<, Nat))
  BY <1>1, WFMin, Zenon
<1>3. \A y \in I : x =< y
  <2>1. \A y \in I : ~(y < x)
    BY <1>2, Zenon DEF OpToRel
  <2> QED
    BY <2>1
<1> QED
  BY <1>3, Zenon DEF Min

\* Taking an element out of a sequence moves each later one to the place before.
LEMMA WithoutIs ==
    ASSUME NEW S, NEW s \in Seq(S), NEW i \in 1 .. Len(s)
    PROVE  /\ Without(s, i) \in Seq(S)
           /\ Len(Without(s, i)) = Len(s) - 1
           /\ \A j \in 1 .. Len(s) - 1 :
                 Without(s, i)[j] = IF j < i THEN s[j] ELSE s[j + 1]
<1> DEFINE p == SubSeq(s, 1, i - 1)
           q == SubSeq(s, i + 1, Len(s))
<1>0. Len(s) \in Nat /\ i \in Nat /\ \A k \in 1 .. Len(s) : s[k] \in S
  OBVIOUS
<1>1. /\ p \in Seq(S) /\ Len(p) = i - 1
      /\ \A j \in 1 .. i - 1 : p[j] = s[j]
  <2>1. \A k \in 1 .. i - 1 : s[k] \in S
    BY <1>0
  <2>2. /\ p \in Seq(S)
        /\ Len(p) = IF 1 <= i - 1 THEN (i - 1) - 1 + 1 ELSE 0
        /\ \A j \in 1 .. (i - 1) - 1 + 1 : p[j] = s[1 + j - 1]
    BY <1>0, <2>1
  <2> QED
    BY <1>0, <2>2
<1>2. /\ q \in Seq(S) /\ Len(q) = Len(s) - i
      /\ \A j \in 1 .. Len(s) - i : q[j] = s[i + j]
  BY <1>0
<1>3. Without(s, i) = p \o q
  BY DEF Without
<1> HIDE DEF p, q
<1>4. /\ p \o q \in Seq(S) /\ Len(p \o q) = Len(p) + Len(q)
      /\ \A k \in 1 .. Len(p) + Len(q) :
            (p \o q)[k] = IF k <= Len(p) THEN p[k] ELSE q[k - Len(p)]
  <2>1. p \in Seq(S) /\ q \in Seq(S)
    BY <1>1, <1>2
  <2> QED
    BY <2>1
<1>5. ASSUME NEW j \in 1 .. Len(s) - 1
      PROVE  (p \o q)[j] = IF j < i THEN s[j] ELSE s[j + 1]
  <2>1. CASE j < i
    BY <1>0, <1>1, <1>2, <1>4, <2>1
  <2>2. CASE ~(j < i)
    <3>1. j \in 1 .. Len(p) + Len(q) /\ ~(j <= Len(p))
      BY <1>0, <1>1, <1>2, <2>2
    <3>2. (p \o q)[j] = q[j - Len(p)]
      BY <1>4, <3>1
    <3>3. j - (i - 1) \in 1 .. Len(s) - i /\ i + (j - (i - 1)) = j + 1
      BY <1>0, <2>2
    <3> QED
      BY <1>1, <1>2, <2>2, <3>2, <3>3
  <2> QED
    BY <2>1, <2>2, Zenon
<1> QED
  BY <1>0, <1>1, <1>2, <1>3, <1>4, <1>5

----------------------------------------------------------------------------
\* FromUnique and LoopIsForward of a list that is not the variable's.
Closes(m, n) == "BATH" \in {m.type, n.type} /\ m.to = n.from
Unique(list) ==
    \A i, j \in DOMAIN list : /\ list[i].from = list[j].from => i = j
                              /\ Closes(list[i], list[j]) => i <= j

\* Dropping a mapping leaves a list of mappings, each from an address of its
\* own, and in the order they had.
LEMMA DropUnique ==
    ASSUME NEW list \in Seq(Mapping), Unique(list), NEW I, I \subseteq DOMAIN list
    PROVE  Drop(list, I) \in Seq(Mapping) /\ Unique(Drop(list, I))
<1>0. Len(list) \in Nat /\ DOMAIN list = 1 .. Len(list)
  OBVIOUS
<1>1. CASE I = {}
  BY <1>1 DEF Drop
<1>2. CASE I # {}
  <2> DEFINE k == Min(I)
             r == Without(list, k)
  <2>1. k \in 1 .. Len(list)
    BY <1>0, <1>2, MinIsLeast
  <2> HIDE DEF k
  <2>2. /\ r \in Seq(Mapping)
        /\ Len(r) = Len(list) - 1
        /\ \A j \in 1 .. Len(list) - 1 :
              r[j] = IF j < k THEN list[j] ELSE list[j + 1]
    BY <2>1, WithoutIs
  <2>3. Drop(list, I) = r
    BY <1>2 DEF Drop, k
  <2> HIDE DEF r
  <2>4. DOMAIN r = 1 .. Len(list) - 1
    BY <2>2
  <2>5. ASSUME NEW i \in DOMAIN r, NEW j \in DOMAIN r
        PROVE  /\ r[i].from = r[j].from => i = j
               /\ Closes(r[i], r[j]) => i <= j
    <3> DEFINE At(x) == IF x < k THEN x ELSE x + 1
    <3>1. At(i) \in DOMAIN list /\ At(j) \in DOMAIN list
      BY <1>0, <2>1, <2>4
    <3>2. r[i] = list[At(i)] /\ r[j] = list[At(j)]
      BY <2>2, <2>4
    <3>3. /\ r[i].from = r[j].from => At(i) = At(j)
          /\ Closes(r[i], r[j]) => At(i) <= At(j)
      <4> HIDE DEF At
      <4> QED
        BY <3>1, <3>2 DEF Unique
    <3> QED
      BY <1>0, <2>1, <2>4, <3>3
  <2> QED
    BY <2>2, <2>3, <2>5 DEF Unique
<1> QED
  BY <1>1, <1>2

\* Registering and unregistering change the sessions of the mappings only.
LEMMA WithBothKeeps ==
    ASSUME NEW m \in Mapping, NEW a, NEW n \in Sessions \cup {0}
    PROVE  /\ WithBoth(m, a, n) \in Mapping
           /\ WithBoth(m, a, n).from = m.from
           /\ WithBoth(m, a, n).to = m.to
           /\ WithBoth(m, a, n).type = m.type
BY DEF WithBoth, WithFrom, Mapping

\* So the whole list stays well formed, and every from where it was.
LEMMA RegisterKeeps ==
    ASSUME NEW list \in Seq(Mapping), Unique(list), NEW a, NEW n \in Sessions \cup {0}
    PROVE  LET l == [i \in DOMAIN list |-> WithBoth(list[i], a, n)]
           IN  l \in Seq(Mapping) /\ Unique(l)
<1> DEFINE l == [i \in DOMAIN list |-> WithBoth(list[i], a, n)]
<1>0. /\ Len(list) \in Nat /\ DOMAIN list = 1 .. Len(list)
      /\ \A i \in DOMAIN list : list[i] \in Mapping
  OBVIOUS
<1>1. DOMAIN l = DOMAIN list /\ \A i \in DOMAIN list : l[i] = WithBoth(list[i], a, n)
  OBVIOUS
<1>2. \A i \in DOMAIN list : /\ l[i] \in Mapping /\ l[i].from = list[i].from
                             /\ l[i].to = list[i].to /\ l[i].type = list[i].type
  BY <1>0, <1>1, WithBothKeeps
<1>3. l \in [1 .. Len(list) -> Mapping]
  BY <1>0, <1>2
<1> HIDE DEF l
<1>4. l \in Seq(Mapping)
  BY <1>0, <1>3
<1>5. Unique(l)
  BY <1>1, <1>2 DEF Unique, Closes
<1> QED
  BY <1>4, <1>5 DEF l

----------------------------------------------------------------------------
\* A lookup in the address list, and what entering and removing a session
\* leave in it.
LEMMA AddrListKeeps ==
    ASSUME NEW list, \A k \in DOMAIN list : list[k] \in Sessions, NEW a
    PROVE  /\ Found(list, a) \in Sessions \cup {0}
           /\ \A k \in DOMAIN Deleted(list, a) : Deleted(list, a)[k] \in Sessions
           /\ \A n \in Sessions : \A k \in DOMAIN Added(list, a, n) :
                 Added(list, a, n)[k] \in Sessions
BY DEF Found, Deleted, Added

\* Every step keeps the mappings well formed and from different addresses.
LEMMA InvStep == IInv /\ [Next]_vars => IInv'
<1> SUFFICES ASSUME IInv, [Next]_vars
             PROVE  IInv'
  OBVIOUS
<1> USE DEF IInv
<1>0. /\ TypeOK /\ Unique(io_2_io_list)
      /\ (TypeOK' /\ Unique(io_2_io_list')) => IInv'
  BY DEF FromUnique, LoopIsForward, Unique, Closes
<1>1. ASSUME NEW p \in Pairs, NEW type \in Types, AddMapping(p, type)
      PROVE  IInv'
  <2> DEFINE x == [from |-> p[1], to |-> p[2], type |-> type,
                   from_session |-> 0, to_session |-> 0]
             l == io_2_io_list
  <2>1. /\ x \in Mapping /\ x.from = p[1]
        /\ p[1] \in Addrs /\ p[2] \in Addrs
    BY PairsAreAddrs, TypesAreTypes DEF Mapping
  <2>2. /\ ~Refuses(x) /\ l' = Append(l, x)
        /\ adding' = [step |-> "find_from", from |-> p[1], to |-> p[2], found |-> 0]
        /\ UNCHANGED <<session_addr_list, addr, ends, event>>
    BY <1>1 DEF AddMapping
  <2> HIDE DEF x
  <2>3. \A i \in DOMAIN l : l[i].from # x.from /\ ~Closes(x, l[i])
    BY <2>2 DEF Refuses, Clashes, Closes
  <2>4. TypeOK'
    <3>1. l' \in Seq(Mapping)
      BY <2>1, <2>2 DEF TypeOK
    <3> QED
      BY <2>1, <2>2, <3>1 DEF TypeOK, Step
  <2>5. Unique(l')
    <3>1. /\ DOMAIN l = 1 .. Len(l) /\ Len(l) \in Nat
          /\ DOMAIN l' = 1 .. Len(l) + 1
          /\ \A i \in 1 .. Len(l) : l'[i] = l[i]
          /\ l'[Len(l) + 1] = x
      BY <2>1, <2>2 DEF TypeOK
    <3> QED
      BY <1>0, <2>3, <3>1 DEF Unique
  <2> QED
    BY <1>0, <2>4, <2>5
<1>2. CASE AddFind
  <2> DEFINE a == IF adding.step = "find_from" THEN adding.from ELSE adding.to
             n == Found(session_addr_list, a)
  <2>1. n \in Sessions \cup {0}
    BY AddrListKeeps, Zenon DEF TypeOK
  <2>2. /\ adding' = IF n > 0
             THEN [adding EXCEPT !.found = n, !.step = IF @ = "find_from" THEN "from" ELSE "to"]
             ELSE IF adding.step = "find_from" THEN [adding EXCEPT !.step = "find_to"] ELSE Idle
        /\ UNCHANGED <<io_2_io_list, session_addr_list, addr, ends, event>>
    BY <1>2 DEF AddFind
  <2> HIDE DEF n
  <2>3. CASE n > 0
    <3>1. n \in Sessions /\ adding.step \in {"find_from", "find_to"}
      BY <1>2, <2>1, <2>3 DEF AddFind
    <3>2. adding' = [adding EXCEPT !.found = n,
                                   !.step = IF @ = "find_from" THEN "from" ELSE "to"]
      BY <2>2, <2>3
    <3>3. TypeOK'
      BY <2>2, <3>1, <3>2, Zenon DEF TypeOK, Step
    <3> QED
      BY <1>0, <2>2, <3>3
  <2>4. CASE ~(n > 0)
    <3>1. adding' = IF adding.step = "find_from"
                    THEN [adding EXCEPT !.step = "find_to"] ELSE Idle
      BY <2>2, <2>4
    <3>2. TypeOK'
      <4>1. CASE adding.step = "find_from"
        <5>1. adding' = [adding EXCEPT !.step = "find_to"]
          BY <3>1, <4>1
        <5> QED
          BY <2>2, <5>1, Zenon DEF TypeOK, Step
      <4>2. CASE adding.step # "find_from"
        <5>1. adding' = Idle
          BY <3>1, <4>2
        <5>2. /\ Idle \in [step : Step, from : Addrs \cup {NoAddr},
                            to : Addrs \cup {NoAddr}, found : Sessions \cup {0}]
              /\ Idle.step = "idle"
          BY DEF Idle, Step
        <5> QED
          BY <2>2, <5>1, <5>2, Zenon DEF TypeOK
      <4> QED
        BY <4>1, <4>2
    <3> QED
      BY <1>0, <2>2, <3>2
  <2> QED
    BY <2>3, <2>4
<1>3. CASE AddRegister
  <2> DEFINE a == IF adding.step = "from" THEN adding.from ELSE adding.to
  <2>1. /\ adding.found \in Sessions
        /\ session_addr_list' = Added(session_addr_list, a, adding.found)
        /\ adding' = [adding EXCEPT !.step = IF @ = "from" THEN "link_from" ELSE "link_to"]
        /\ UNCHANGED <<io_2_io_list, addr, ends, event>>
    BY <1>3 DEF AddRegister, TypeOK
  <2> HIDE DEF a
  <2>2. \A k \in DOMAIN session_addr_list' : session_addr_list'[k] \in Sessions
    BY <2>1, AddrListKeeps, Zenon DEF TypeOK
  <2>3. TypeOK'
    BY <2>1, <2>2, Zenon DEF TypeOK, Step
  <2> QED
    BY <1>0, <2>1, <2>3
<1>4. CASE AddLink
  <2> DEFINE a == IF adding.step = "link_from" THEN adding.from ELSE adding.to
  <2>1. /\ adding.found \in Sessions \cup {0}
        /\ io_2_io_list' = [i \in DOMAIN io_2_io_list |->
                              WithBoth(io_2_io_list[i], a, adding.found)]
        /\ UNCHANGED <<session_addr_list, addr, ends, event>>
    BY <1>4 DEF AddLink, Register, AllBoth, TypeOK
  <2> HIDE DEF a
  <2>2. io_2_io_list' \in Seq(Mapping) /\ Unique(io_2_io_list')
    <3>1. io_2_io_list \in Seq(Mapping)
      BY DEF TypeOK
    <3> QED
      BY <1>0, <2>1, <3>1, RegisterKeeps, Zenon
  <2>3. /\ adding' \in [step : Step, from : Addrs \cup {NoAddr},
                        to : Addrs \cup {NoAddr}, found : Sessions \cup {0}]
        /\ adding'.step \in {"find_to", "idle"}
    <3>1. CASE adding.step = "link_from"
      BY <1>4, <3>1, Zenon DEF AddLink, TypeOK, Step
    <3>2. CASE adding.step # "link_from"
      <4>1. adding' = Idle
        BY <1>4, <3>2 DEF AddLink
      <4> QED
        BY <4>1 DEF Idle, Step
    <3> QED
      BY <3>1, <3>2
  <2>4. TypeOK'
    BY <2>1, <2>2, <2>3 DEF TypeOK
  <2> QED
    BY <1>0, <2>2, <2>4
<1>5. ASSUME NEW a \in Addrs, DeleteMapping(a)
      PROVE  IInv'
  <2> DEFINE rest == Drop(io_2_io_list, FromAt(io_2_io_list, a))
  <2>1. /\ io_2_io_list' = Drop(rest, ToAt(rest, a))
        /\ UNCHANGED <<session_addr_list, addr, ends, adding, event>>
    BY <1>5 DEF DeleteMapping
  <2>2. rest \in Seq(Mapping) /\ Unique(rest)
    BY <1>0, DropUnique DEF TypeOK, FromAt
  <2> HIDE DEF rest
  <2>3. io_2_io_list' \in Seq(Mapping) /\ Unique(io_2_io_list')
    BY <2>1, <2>2, DropUnique DEF ToAt
  <2> QED
    BY <1>0, <2>1, <2>3 DEF TypeOK
<1>6. ASSUME NEW n \in Sessions, NEW a \in Addrs, Connect(n, a)
      PROVE  IInv'
  <2>1. /\ session_addr_list' = Added(session_addr_list, a, n)
        /\ event' = [op |-> "connect", session |-> n]
        /\ addr' = [addr EXCEPT ![n] = a]
        /\ UNCHANGED <<io_2_io_list, ends, adding>>
    BY <1>6 DEF Connect
  <2>2. \A k \in DOMAIN session_addr_list' : session_addr_list'[k] \in Sessions
    BY <2>1, AddrListKeeps, Zenon DEF TypeOK
  <2> QED
    BY <1>0, <2>1, <2>2 DEF TypeOK
<1>7. ASSUME NEW n \in Sessions, Disconnect(n)
      PROVE  IInv'
  <2>1. /\ session_addr_list' = Deleted(session_addr_list, addr[n])
        /\ event' = [op |-> "disconnect", session |-> n]
        /\ ends' = [ends EXCEPT ![n] = @ + 1]
        /\ UNCHANGED <<io_2_io_list, addr, adding>>
    BY <1>7 DEF Disconnect
  <2>2. \A k \in DOMAIN session_addr_list' : session_addr_list'[k] \in Sessions
    BY <2>1, AddrListKeeps, Zenon DEF TypeOK
  <2> QED
    BY <1>0, <2>1, <2>2 DEF TypeOK
<1>8. ASSUME NEW n \in Sessions \cup {0}, NEW a,
             io_2_io_list' = [i \in DOMAIN io_2_io_list |-> WithBoth(io_2_io_list[i], a, n)],
             event' = NoEvent, UNCHANGED <<session_addr_list, addr, ends, adding>>
      PROVE  IInv'
  <2>1. io_2_io_list' \in Seq(Mapping) /\ Unique(io_2_io_list')
    <3>1. io_2_io_list \in Seq(Mapping)
      BY DEF TypeOK
    <3> QED
      BY <1>0, <1>8, <3>1, RegisterKeeps, Zenon
  <2> QED
    BY <1>0, <1>8, <2>1 DEF TypeOK, NoEvent
<1>9. CASE ConnectLink
  <2>1. event.session \in Sessions \cup {0}
    BY DEF TypeOK
  <2> QED
    BY <1>8, <1>9, <2>1, Zenon DEF ConnectLink, Register, AllBoth
<1>10. CASE DisconnectLink
  BY <1>8, <1>10, Zenon DEF DisconnectLink, Unregister, AllBoth
<1>11. CASE UNCHANGED vars
  BY <1>0, <1>11 DEF vars, TypeOK
<1> QED
  BY <1>1, <1>2, <1>3, <1>4, <1>5, <1>6, <1>7, <1>9, <1>10, <1>11 DEF Next, Plugin, Io

\* The initial state has no mapping.
LEMMA InvInit == Init => IInv
BY DEF Init, IInv, TypeOK, FromUnique, LoopIsForward, Idle, NoEvent, Step

\* The registry stays well typed; in particular add_session_io_mapping never
\* registers a session it did not find.
THEOREM TypeCorrect == Spec => []TypeOK
<1>1. IInv => TypeOK
  BY DEF IInv
<1> QED
  BY <1>1, InvInit, InvStep, PTL DEF Spec

\* Whatever plugins map and delete while connections come and go, no two
\* mappings have the same from address: check_io_mapping and the append are one
\* step under the mutex, and nothing else enters a mapping or changes a from.
THEOREM FromUniqueHolds == Spec => []FromUnique
<1>1. IInv => FromUnique
  BY DEF IInv
<1> QED
  BY <1>1, InvInit, InvStep, PTL DEF Spec

\* A chain through a mapping in both directions runs forward in the list: what
\* check_io_mapping refuses in one order is never there, however mappings are
\* deleted and sessions replaced, and the other order is all that can be.
THEOREM LoopIsForwardHolds == Spec => []LoopIsForward
<1>1. IInv => LoopIsForward
  BY DEF IInv
<1> QED
  BY <1>1, InvInit, InvStep, PTL DEF Spec

----------------------------------------------------------------------------
\* A mapping whose sessions have its addresses, and one whose from session
\* forwards to its to session.
Sound(m) ==
    /\ <<m.from, m.to>> \in Pairs
    /\ m.from_session # 0 => addr[m.from_session] = m.from
    /\ m.to_session # 0 => addr[m.to_session] = m.to
Forwards(m) ==
    /\ m.from \notin Targets /\ m.type \in {"BATH", "FROM"}
    /\ m.from_session # 0 /\ m.to_session # 0
Linked(b, m) == Forwards(m) => b[m.from_session] = m.to_session

\* The sessions that are registered, and those that are about to be, have the
\* address they are registered at.
Known(n, a) == n \in Sessions /\ a \in Addrs /\ addr[n] = a
LinksInv ==
    /\ DOMAIN bridge = Sessions
    /\ \A i \in DOMAIN io_2_io_list :
           Sound(io_2_io_list[i]) /\ Linked(bridge, io_2_io_list[i])
ListInv ==
    \A k \in DOMAIN session_addr_list : \E a \in Addrs :
        Known(session_addr_list[k], a) /\ Key(a) = k
AddingInv ==
    /\ adding.step # "idle" => adding.from \in Addrs /\ adding.to \in Addrs
    /\ adding.step \in {"from", "link_from"} => Known(adding.found, adding.from)
    /\ adding.step \in {"to", "link_to"} => Known(adding.found, adding.to)
EventInv == event.op = "connect" => Known(event.session, addr[event.session])
JInv == LinksInv /\ ListInv /\ AddingInv /\ EventInv

\* The two copies of each entry.
LEMMA Halves ==
    ASSUME NEW N \in Nat
    PROVE  /\ \A k \in 1 .. 2 * N : /\ (k + 1) \div 2 \in 1 .. N
                                    /\ k % 2 = 1 => k = 2 * ((k + 1) \div 2) - 1
                                    /\ k % 2 = 0 => k = 2 * ((k + 1) \div 2)
           /\ \A i \in 1 .. N : /\ 2 * i - 1 \in 1 .. 2 * N /\ 2 * i \in 1 .. 2 * N
                                /\ (2 * i - 1) % 2 = 1 /\ (2 * i - 1 + 1) \div 2 = i
                                /\ (2 * i) % 2 = 0 /\ (2 * i + 1) \div 2 = i
OBVIOUS

\* A mapping that tells the from session of m, to whose from nothing is mapped,
\* has the same from, and tells it its to session.
LEMMA TellsItsOwn ==
    ASSUME NEW m, NEW x, Sound(m), Sound(x), m.from \notin Targets,
           m.from_session # 0, Tells(x, m.from_session)
    PROVE  x.from = m.from /\ Peer(x, m.from_session) = x.to_session
<1>1. CASE TellsTo(x, m.from_session)
  <2>1. x.to_session = m.from_session
    BY <1>1 DEF TellsTo
  <2>2. m.from = x.to /\ <<x.from, x.to>> \in Pairs
    BY <2>1 DEF Sound
  <2>3. x.to \in Targets
    BY <2>2, PairsAreAddrs DEF Targets
  <2> QED
    BY <2>2, <2>3
<1>2. CASE ~TellsTo(x, m.from_session)
  <2>1. TellsFrom(x, m.from_session)
    BY <1>2, Zenon DEF Tells
  <2>2. x.from_session = m.from_session
    BY <2>1 DEF TellsFrom
  <2> QED
    BY <1>2, <2>2 DEF Sound, Peer
<1> QED
  BY <1>1, <1>2

\* Registering a session at its address keeps a mapping sound.
LEMMA WithBothSound ==
    ASSUME NEW m \in Mapping, Sound(m), NEW a, NEW n, n = 0 \/ Known(n, a)
    PROVE  Sound(WithFrom(m, a, n)) /\ Sound(WithBoth(m, a, n))
BY DEF Sound, WithFrom, WithBoth, Mapping, Known

----------------------------------------------------------------------------
\* A session that nobody tells keeps its bridge id.
LEMMA ToldByNone ==
    ASSUME NEW b, NEW ms, NEW n \in DOMAIN b, \A k \in DOMAIN ms : ~Tells(ms[k], n)
    PROVE  LinkAll(b, ms)[n] = b[n] /\ UnlinkAll(b, ms)[n] = b[n]
<1>1. {i \in DOMAIN ms : Tells(ms[i], n)} = {}
  BY Zenon
<1> QED
  BY <1>1, Zenon DEF LinkAll, UnlinkAll

\* A session that a single mapping tells has the peer of that mapping.
LEMMA ToldByOne ==
    ASSUME NEW b, NEW ms, NEW n \in DOMAIN b, NEW k \in DOMAIN ms, k \in Nat,
           Tells(ms[k], n), \A j \in DOMAIN ms : Tells(ms[j], n) => j = k
    PROVE  LinkAll(b, ms)[n] = Peer(ms[k], n)
<1>1. {i \in DOMAIN ms : Tells(ms[i], n)} = {k}
  BY Zenon
<1>2. {k} # {} /\ Max({k}) = k
  BY DEF Max
<1> QED
  BY <1>1, <1>2, Zenon DEF LinkAll

\* What the copies ms are that regedit_bridge_session_info and
\* unregedit_bridge_session_info take of the entries at address a, and where
\* they are.
IsCopy(list, a, asFrom, asTo, i, k, m) ==
    \/ k = 2 * i - 1 /\ list[i].from = a /\ m = asFrom[i]
    \/ k = 2 * i /\ list[i].to = a /\ m = asTo[i]
    \/ m = [list[i] EXCEPT !.from_session = 0]
CopiesAre(list, a, asFrom, asTo, ms) ==
    /\ \A k \in DOMAIN ms : \E i \in DOMAIN list :
           IsCopy(list, a, asFrom, asTo, i, k, ms[k])
    /\ \A i \in DOMAIN list :
           /\ 2 * i - 1 \in DOMAIN ms /\ 2 * i \in DOMAIN ms
           /\ 2 * i - 1 \in Nat /\ 2 * i \in Nat
           /\ list[i].from = a => ms[2 * i - 1] = asFrom[i]
           /\ list[i].to = a => ms[2 * i] = asTo[i]

\* Copies are copies of the entries.
LEMMA CopiesAreCopies ==
    ASSUME NEW list \in Seq(Mapping), NEW a, NEW asFrom, NEW asTo
    PROVE  CopiesAre(list, a, asFrom, asTo, Copies(list, a, asFrom, asTo))
<1>0. PICK ms : ms = Copies(list, a, asFrom, asTo)
  BY Zenon
<1>1. PICK N \in Nat : N = Len(list) /\ DOMAIN list = 1 .. N
  OBVIOUS
<1>2. /\ DOMAIN ms = 1 .. 2 * N
      /\ \A k \in 1 .. 2 * N : \A i : i = (k + 1) \div 2 =>
            ms[k] = IF k % 2 = 1 /\ list[i].from = a THEN asFrom[i]
                    ELSE IF k % 2 = 0 /\ list[i].to = a THEN asTo[i]
                    ELSE [list[i] EXCEPT !.from_session = 0]
  BY <1>0, <1>1, Zenon DEF Copies
<1>3. ASSUME NEW k \in 1 .. 2 * N
      PROVE  \E i \in 1 .. N : IsCopy(list, a, asFrom, asTo, i, k, ms[k])
  <2>1. PICK i \in 1 .. N : /\ i = (k + 1) \div 2
                            /\ k % 2 = 1 => k = 2 * i - 1
                            /\ k % 2 = 0 => k = 2 * i
    BY Halves, Zenon
  <2>2. \/ k % 2 = 1 /\ list[i].from = a /\ ms[k] = asFrom[i]
        \/ k % 2 = 0 /\ list[i].to = a /\ ms[k] = asTo[i]
        \/ ms[k] = [list[i] EXCEPT !.from_session = 0]
    BY <1>2, <2>1, Zenon
  <2> QED
    BY <2>1, <2>2, Zenon DEF IsCopy
<1>4. ASSUME NEW i \in 1 .. N
      PROVE  /\ 2 * i - 1 \in 1 .. 2 * N /\ 2 * i \in 1 .. 2 * N
             /\ list[i].from = a => ms[2 * i - 1] = asFrom[i]
             /\ list[i].to = a => ms[2 * i] = asTo[i]
  <2>1. /\ 2 * i - 1 \in 1 .. 2 * N /\ 2 * i \in 1 .. 2 * N
        /\ (2 * i - 1) % 2 = 1 /\ i = (2 * i - 1 + 1) \div 2
        /\ (2 * i) % 2 = 0 /\ i = (2 * i + 1) \div 2
    BY Halves, Zenon
  <2>2. list[i].from = a => ms[2 * i - 1] = asFrom[i]
    BY <1>2, <2>1, Zenon
  <2>3. PICK k \in 1 .. 2 * N : /\ k = 2 * i /\ i = (k + 1) \div 2
                                /\ k % 2 = 0 /\ ~(k % 2 = 1)
    BY <2>1
  <2>4. list[i].to = a => ms[2 * i] = asTo[i]
    BY <1>2, <2>3, Zenon
  <2> QED
    BY <2>1, <2>2, <2>4, Zenon
<1>5. \A i \in 1 .. N : 2 * i - 1 \in Nat /\ 2 * i \in Nat
  OBVIOUS
<1> QED
  BY <1>0, <1>1, <1>2, <1>3, <1>4, <1>5 DEF CopiesAre

----------------------------------------------------------------------------
\* Copies of sound entries that tell the from session of m are copies of m.
LEMMA OnlyItsCopy ==
    ASSUME NEW list \in Seq(Mapping), Unique(list),
           \A i \in DOMAIN list : Sound(list[i]),
           NEW a, NEW asFrom, NEW asTo, NEW ms,
           CopiesAre(list, a, asFrom, asTo, ms),
           \A i \in DOMAIN list : /\ Sound(asFrom[i]) /\ asFrom[i].from = list[i].from
                                  /\ Sound(asTo[i]) /\ asTo[i].from = list[i].from,
           NEW j \in DOMAIN list, NEW m, Sound(m), m.from = list[j].from, Forwards(m),
           NEW k \in DOMAIN ms, Tells(ms[k], m.from_session)
    PROVE  /\ \/ k = 2 * j - 1 /\ list[j].from = a /\ ms[k] = asFrom[j]
              \/ k = 2 * j /\ list[j].to = a /\ ms[k] = asTo[j]
           /\ Peer(ms[k], m.from_session) = ms[k].to_session
<1>1. PICK i \in DOMAIN list : IsCopy(list, a, asFrom, asTo, i, k, ms[k])
  BY Zenon DEF CopiesAre
<1>2. ms[k] # [list[i] EXCEPT !.from_session = 0]
  <2>1. list[i] \in Mapping
    OBVIOUS
  <2>2. [list[i] EXCEPT !.from_session = 0].from_session = 0
    BY <2>1 DEF Mapping
  <2>3. ms[k].from_session # 0
    BY Zenon DEF Tells
  <2> QED
    BY <2>2, <2>3, Zenon
<1>3. Sound(ms[k]) /\ ms[k].from = list[i].from
  BY <1>1, <1>2, Zenon DEF IsCopy
<1>4. m.from \notin Targets /\ m.from_session # 0
  BY Zenon DEF Forwards
<1>5. ms[k].from = m.from /\ Peer(ms[k], m.from_session) = ms[k].to_session
  BY <1>3, <1>4, TellsItsOwn, Zenon
<1>6. i = j
  BY <1>3, <1>5, Zenon DEF Unique
<1> QED
  BY <1>1, <1>2, <1>5, <1>6, Zenon DEF IsCopy

\* A mapping from an address nothing is mapped to is not to that address.
LEMMA FromIsNotTo ==
    ASSUME NEW m, Sound(m), m.from \notin Targets
    PROVE  m.from # m.to
<1>1. m.to \in Targets
  BY PairsAreAddrs DEF Sound, Targets
<1> QED
  BY <1>1

\* The from of an entry stays.
LEMMA WithFromKeeps ==
    ASSUME NEW m \in Mapping, NEW a, NEW n
    PROVE  WithFrom(m, a, n).from = m.from
BY DEF WithFrom, Mapping

\* regedit_bridge_session_info links the mappings of the session that comes,
\* and leaves the others as they are.
LEMMA RegisterLinks ==
    ASSUME NEW list \in Seq(Mapping), Unique(list), NEW b, DOMAIN b = Sessions,
           \A i \in DOMAIN list : Sound(list[i]) /\ Linked(b, list[i]),
           NEW a, NEW n, Known(n, a), NEW j \in DOMAIN list
    PROVE  LET c == LinkAll(b, Copies(list, a, AllFrom(list, a, n), AllBoth(list, a, n)))
           IN  Linked(c, AllBoth(list, a, n)[j])
<1>1. PICK f, t, ms : /\ f = AllFrom(list, a, n) /\ t = AllBoth(list, a, n)
                      /\ ms = Copies(list, a, f, t) /\ CopiesAre(list, a, f, t, ms)
  BY CopiesAreCopies, Zenon
<1>2. n \in Sessions \cup {0}
  BY DEF Known
<1>3. \A i \in DOMAIN list : list[i] \in Mapping
  OBVIOUS
<1>4. \A i \in DOMAIN list : f[i] = WithFrom(list[i], a, n) /\ t[i] = WithBoth(list[i], a, n)
  BY <1>1, Zenon DEF AllFrom, AllBoth
<1>5. \A i \in DOMAIN list : /\ Sound(f[i]) /\ f[i].from = list[i].from
                             /\ Sound(t[i]) /\ t[i].from = list[i].from
  <2> SUFFICES ASSUME NEW i \in DOMAIN list
               PROVE  /\ Sound(f[i]) /\ f[i].from = list[i].from
                      /\ Sound(t[i]) /\ t[i].from = list[i].from
    BY Zenon
  <2>1. Sound(f[i]) /\ Sound(t[i])
    BY <1>3, <1>4, WithBothSound, Zenon
  <2>2. t[i].from = list[i].from /\ f[i].from = list[i].from
    <3>1. list[i] \in Mapping
      BY <1>3, Zenon
    <3>2. WithBoth(list[i], a, n).from = list[i].from
      BY <1>2, <3>1, WithBothKeeps, Zenon
    <3>3. WithFrom(list[i], a, n).from = list[i].from
      BY <3>1, WithFromKeeps, Zenon
    <3> QED
      BY <1>4, <3>2, <3>3, Zenon
  <2> QED
    BY <2>1, <2>2, Zenon
<1>6. PICK m \in Mapping : m = list[j] /\ Sound(m) /\ Linked(b, m)
  BY <1>3, Zenon
<1>7. SUFFICES ASSUME Forwards(t[j])
               PROVE  LinkAll(b, ms)[t[j].from_session] = t[j].to_session
  BY <1>1, Zenon DEF Linked
<1>8. PICK s : s = t[j].from_session
  BY Zenon
<1>9. /\ t[j].from \notin Targets /\ s # 0 /\ t[j].type \in {"BATH", "FROM"}
      /\ t[j].to_session # 0
  BY <1>7, <1>8, Zenon DEF Forwards
<1>10. t[j] = WithBoth(m, a, n) /\ f[j] = WithFrom(m, a, n) /\ t[j].from = m.from
  BY <1>4, <1>5, <1>6, Zenon
<1>11. m.from # m.to
  BY <1>6, <1>9, <1>10, FromIsNotTo, Zenon
<1>12. s \in DOMAIN b
  <2>1. t[j] \in Mapping
    BY <1>2, <1>10, WithBothKeeps
  <2> QED
    BY <1>8, <1>9, <2>1 DEF Mapping
<1>13. \A k \in DOMAIN ms : Tells(ms[k], s) =>
          /\ \/ k = 2 * j - 1 /\ m.from = a /\ ms[k] = f[j]
             \/ k = 2 * j /\ m.to = a /\ ms[k] = t[j]
          /\ Peer(ms[k], s) = ms[k].to_session
  BY <1>1, <1>5, <1>6, <1>7, <1>8, OnlyItsCopy
<1>14. PICK k1 \in DOMAIN ms, k2 \in DOMAIN ms :
          /\ k1 = 2 * j - 1 /\ k2 = 2 * j /\ k1 \in Nat /\ k2 \in Nat
          /\ m.from = a => ms[k1] = f[j]
          /\ m.to = a => ms[k2] = t[j]
  BY <1>1, <1>6, Zenon DEF CopiesAre
<1>15. Tells(t[j], s)
  BY <1>8, <1>9, Zenon DEF Tells, TellsFrom
<1>16. CASE m.from = a
  <2>1. m.to # a /\ f[j] = t[j]
    BY <1>10, <1>11, <1>16, Zenon DEF WithBoth
  <2>2. \A k \in DOMAIN ms : Tells(ms[k], s) => k = k1
    BY <1>13, <1>14, <2>1, Zenon
  <2>3. Tells(ms[k1], s) /\ ms[k1] = t[j]
    BY <1>14, <1>15, <1>16, <2>1, Zenon
  <2>4. LinkAll(b, ms)[s] = Peer(ms[k1], s)
    BY <1>12, <1>14, <2>2, <2>3, ToldByOne
  <2> QED
    BY <1>8, <1>13, <1>14, <2>3, <2>4, Zenon
<1>17. CASE m.to = a
  <2>1. m.from # a
    BY <1>11, <1>17
  <2>2. \A k \in DOMAIN ms : Tells(ms[k], s) => k = k2
    BY <1>13, <1>14, <2>1, Zenon
  <2>3. Tells(ms[k2], s) /\ ms[k2] = t[j]
    BY <1>14, <1>15, <1>17, Zenon
  <2>4. LinkAll(b, ms)[s] = Peer(ms[k2], s)
    BY <1>12, <1>14, <2>2, <2>3, ToldByOne
  <2> QED
    BY <1>8, <1>13, <1>14, <2>3, <2>4, Zenon
<1>18. CASE m.from # a /\ m.to # a
  <2>1. t[j] = m
    BY <1>10, <1>18, Zenon DEF WithBoth, WithFrom
  <2>2. \A k \in DOMAIN ms : ~Tells(ms[k], s)
    BY <1>13, <1>18, Zenon
  <2>3. LinkAll(b, ms)[s] = b[s]
    BY <1>12, <2>2, ToldByNone, Zenon
  <2> QED
    BY <1>6, <1>7, <1>8, <2>1, <2>3, Zenon DEF Linked
<1> QED
  BY <1>16, <1>17, <1>18, Zenon

\* unregedit_bridge_session_info leaves the links of the mappings that keep
\* both their sessions.
LEMMA UnregisterLinks ==
    ASSUME NEW list \in Seq(Mapping), Unique(list), NEW b, DOMAIN b = Sessions,
           \A i \in DOMAIN list : Sound(list[i]) /\ Linked(b, list[i]),
           NEW a, NEW j \in DOMAIN list
    PROVE  LET c == UnlinkAll(b, Copies(list, a, list, AllFrom(list, a, 0)))
           IN  Linked(c, AllBoth(list, a, 0)[j])
<1>1. PICK f, t, ms : /\ f = AllFrom(list, a, 0) /\ t = AllBoth(list, a, 0)
                      /\ ms = Copies(list, a, list, f) /\ CopiesAre(list, a, list, f, ms)
  BY CopiesAreCopies, Zenon
<1>2. \A i \in DOMAIN list : list[i] \in Mapping
  OBVIOUS
<1>3. \A i \in DOMAIN list : f[i] = WithFrom(list[i], a, 0) /\ t[i] = WithBoth(list[i], a, 0)
  BY <1>1, Zenon DEF AllFrom, AllBoth
<1>4. \A i \in DOMAIN list : /\ Sound(list[i]) /\ list[i].from = list[i].from
                             /\ Sound(f[i]) /\ f[i].from = list[i].from
  <2> SUFFICES ASSUME NEW i \in DOMAIN list
               PROVE  Sound(f[i]) /\ f[i].from = list[i].from
    BY Zenon
  <2>1. Sound(f[i])
    BY <1>2, <1>3, WithBothSound, Zenon
  <2>2. WithFrom(list[i], a, 0).from = list[i].from
    BY <1>2, WithFromKeeps, Zenon
  <2> QED
    BY <1>3, <2>1, <2>2, Zenon
<1>5. PICK m \in Mapping : m = list[j] /\ Sound(m) /\ Linked(b, m)
  BY <1>2, Zenon
<1>6. SUFFICES ASSUME Forwards(t[j])
               PROVE  UnlinkAll(b, ms)[t[j].from_session] = t[j].to_session
  BY <1>1, Zenon DEF Linked
<1>7. t[j].from_session # 0 /\ t[j].to_session # 0 /\ t[j] = WithBoth(m, a, 0)
  BY <1>3, <1>5, <1>6, Zenon DEF Forwards
<1>8. m.from # a /\ m.to # a
  BY <1>7 DEF WithBoth, WithFrom, Mapping
<1>9. t[j] = m
  BY <1>7, <1>8, Zenon DEF WithBoth, WithFrom
<1>10. PICK s : s = m.from_session
  BY Zenon
<1>11. Forwards(m) /\ s \in DOMAIN b
  BY <1>6, <1>7, <1>9, <1>10 DEF Mapping
<1>12. \A k \in DOMAIN ms : Tells(ms[k], s) => m.from = a \/ m.to = a
  BY <1>1, <1>4, <1>5, <1>10, <1>11, OnlyItsCopy
<1>13. \A k \in DOMAIN ms : ~Tells(ms[k], s)
  BY <1>8, <1>12, Zenon
<1>14. UnlinkAll(b, ms)[s] = b[s]
  BY <1>11, <1>13, ToldByNone, Zenon
<1> QED
  BY <1>5, <1>9, <1>10, <1>11, <1>14, Zenon DEF Linked

----------------------------------------------------------------------------
\* What is left of a list is in it, from other addresses than what was taken.
IsLeft(list, left, taken) ==
    /\ \A i \in DOMAIN left : \E j \in DOMAIN list :
           left[i] = list[j] /\ \A k \in DOMAIN taken : taken[k].from # list[j].from
    /\ taken \in Seq(Mapping)
    /\ \A k \in DOMAIN taken : \E j \in DOMAIN list : taken[k] = list[j]

\* Drop leaves what Taken does not take.
LEMMA DropTakes ==
    ASSUME NEW list \in Seq(Mapping), Unique(list), NEW I, I \subseteq DOMAIN list
    PROVE  IsLeft(list, Drop(list, I), Taken(list, I))
<1>0. Len(list) \in Nat /\ DOMAIN list = 1 .. Len(list)
  OBVIOUS
<1>1. CASE I = {}
  BY <1>1 DEF Drop, Taken, IsLeft
<1>2. CASE I # {}
  <2>1. PICK k \in 1 .. Len(list) : k = Min(I)
    BY <1>0, <1>2, MinIsLeast
  <2>2. PICK r \in Seq(Mapping) :
           /\ r = Without(list, k) /\ Len(r) = Len(list) - 1
           /\ \A j \in 1 .. Len(list) - 1 : r[j] = IF j < k THEN list[j] ELSE list[j + 1]
    BY WithoutIs, Zenon
  <2>3. Drop(list, I) = r /\ Taken(list, I) = <<list[k]>>
    BY <1>2, <2>1, <2>2, Zenon DEF Drop, Taken
  <2>4. DOMAIN r = 1 .. Len(list) - 1
    BY <2>2
  <2>5. ASSUME NEW i \in DOMAIN r
        PROVE  \E j \in DOMAIN list : r[i] = list[j] /\ list[k].from # list[j].from
    <3>1. PICK j \in DOMAIN list : j = (IF i < k THEN i ELSE i + 1) /\ j # k
      BY <1>0, <2>4
    <3>2. r[i] = list[j]
      BY <2>2, <2>4, <3>1
    <3>3. list[k].from # list[j].from
      BY <1>0, <3>1, Zenon DEF Unique
    <3> QED
      BY <3>2, <3>3, Zenon
  <2>6. /\ <<list[k]>> \in Seq(Mapping)
        /\ \A n \in DOMAIN <<list[k]>> : <<list[k]>>[n] = list[k]
    OBVIOUS
  <2>7. IsLeft(list, r, <<list[k]>>)
    <3>1. PICK t : t = <<list[k]>> /\ t \in Seq(Mapping) /\ \A n \in DOMAIN t : t[n] = list[k]
      BY <2>6, Zenon
    <3>2. \A i \in DOMAIN r : \E j \in DOMAIN list :
             r[i] = list[j] /\ \A n \in DOMAIN t : t[n].from # list[j].from
      BY <2>5, <3>1, Zenon
    <3> QED
      BY <1>0, <3>1, <3>2, Zenon DEF IsLeft
  <2> QED
    BY <2>3, <2>7, Zenon
<1> QED
  BY <1>1, <1>2, Zenon

\* What is in a concatenation is in one of its parts.
LEMMA ConcatHas ==
    ASSUME NEW p \in Seq(Mapping), NEW q \in Seq(Mapping), NEW k \in DOMAIN (p \o q)
    PROVE  \/ \E n \in DOMAIN p : (p \o q)[k] = p[n]
           \/ \E n \in DOMAIN q : (p \o q)[k] = q[n]
<1>1. /\ Len(p) \in Nat /\ DOMAIN p = 1 .. Len(p)
      /\ Len(q) \in Nat /\ DOMAIN q = 1 .. Len(q)
      /\ DOMAIN (p \o q) = 1 .. Len(p) + Len(q)
  OBVIOUS
<1>2. CASE k <= Len(p)
  <2>1. k \in DOMAIN p /\ (p \o q)[k] = p[k]
    BY <1>1, <1>2
  <2> QED
    BY <2>1, Zenon
<1>3. CASE ~(k <= Len(p))
  <2>1. k - Len(p) \in DOMAIN q /\ (p \o q)[k] = q[k - Len(p)]
    BY <1>1, <1>3
  <2> QED
    BY <2>1, Zenon
<1> QED
  BY <1>2, <1>3, Zenon

\* delete_session_io_mapping leaves the links of the mappings that stay.
LEMMA DeleteLinks ==
    ASSUME NEW list \in Seq(Mapping), Unique(list), NEW b, DOMAIN b = Sessions,
           \A i \in DOMAIN list : Sound(list[i]) /\ Linked(b, list[i]), NEW a,
           NEW rest, rest = Drop(list, FromAt(list, a)),
           NEW left, left = Drop(rest, ToAt(rest, a)),
           NEW i \in DOMAIN left
    PROVE  /\ Sound(left[i])
           /\ Linked(UnlinkAll(b, Taken(list, FromAt(list, a)) \o Taken(rest, ToAt(rest, a))),
                     left[i])
<1>1. PICK F, T : F = Taken(list, FromAt(list, a)) /\ T = Taken(rest, ToAt(rest, a))
  BY Zenon
<1>2. FromAt(list, a) \subseteq DOMAIN list /\ ToAt(rest, a) \subseteq DOMAIN rest
  BY DEF FromAt, ToAt
<1>3. rest \in Seq(Mapping) /\ Unique(rest)
  BY <1>2, DropUnique, Zenon
<1>4. IsLeft(list, rest, F)
  BY <1>1, <1>2, DropTakes, Zenon
<1>5. IsLeft(rest, left, T)
  BY <1>1, <1>2, <1>3, DropTakes, Zenon
<1>6. PICK y \in DOMAIN rest : left[i] = rest[y] /\ \A k \in DOMAIN T : T[k].from # rest[y].from
  BY <1>5, Zenon DEF IsLeft
<1>7. PICK z \in DOMAIN list : rest[y] = list[z] /\ \A k \in DOMAIN F : F[k].from # list[z].from
  BY <1>4, Zenon DEF IsLeft
<1>8. PICK m \in Mapping : /\ m = left[i] /\ Sound(m) /\ Linked(b, m)
                           /\ \A k \in DOMAIN F : F[k].from # m.from
                           /\ \A k \in DOMAIN T : T[k].from # m.from
  <2>1. list[z] \in Mapping
    OBVIOUS
  <2> QED
    BY <1>6, <1>7, <2>1, Zenon
<1>9. PICK ms : ms = F \o T
  BY Zenon
<1>10. \A k \in DOMAIN ms : \/ \E n \in DOMAIN F : ms[k] = F[n]
                            \/ \E n \in DOMAIN T : ms[k] = T[n]
  <2>1. F \in Seq(Mapping) /\ T \in Seq(Mapping)
    BY <1>4, <1>5, Zenon DEF IsLeft
  <2> QED
    BY <1>9, <2>1, ConcatHas, Zenon
<1>11. \A k \in DOMAIN ms : Sound(ms[k]) /\ ms[k].from # m.from
  <2>1. \A n \in DOMAIN F : Sound(F[n])
    BY <1>4, Zenon DEF IsLeft
  <2>2. \A n \in DOMAIN rest : Sound(rest[n])
    BY <1>4, Zenon DEF IsLeft
  <2>3. \A n \in DOMAIN T : Sound(T[n])
    BY <1>5, <2>2, Zenon DEF IsLeft
  <2> QED
    BY <1>8, <1>10, <2>1, <2>3, Zenon
<1>12. SUFFICES ASSUME Forwards(m)
                PROVE  UnlinkAll(b, ms)[m.from_session] = m.to_session
  BY <1>1, <1>8, <1>9, Zenon DEF Linked
<1>13. m.from \notin Targets /\ m.from_session # 0 /\ m.from_session \in DOMAIN b
  BY <1>12 DEF Forwards, Mapping
<1>14. \A k \in DOMAIN ms : ~Tells(ms[k], m.from_session)
  BY <1>8, <1>11, <1>13, TellsItsOwn, Zenon
<1>15. UnlinkAll(b, ms)[m.from_session] = b[m.from_session]
  BY <1>13, <1>14, ToldByNone, Zenon
<1> QED
  BY <1>8, <1>12, <1>15, Zenon DEF Linked

----------------------------------------------------------------------------
\* A step that leaves the mappings, the bridge ids and the addresses leaves the links.
LEMMA LinksStay == ASSUME LinksInv, UNCHANGED <<io_2_io_list, bridge, addr>> PROVE LinksInv'
BY DEF LinksInv, Linked, Sound

\* One that leaves the address list and the addresses leaves who is in it.
LEMMA ListStays == ASSUME ListInv, UNCHANGED <<session_addr_list, addr>> PROVE ListInv'
BY DEF ListInv, Known

\* One that leaves an add_session_io_mapping leaves the session it found.
LEMMA AddingStays == ASSUME AddingInv, UNCHANGED <<adding, addr>> PROVE AddingInv'
BY DEF AddingInv, Known

\* And one that leaves a connect in progress leaves the session that connects.
LEMMA EventStays == ASSUME EventInv, UNCHANGED <<event, addr>> PROVE EventInv'
BY DEF EventInv, Known

\* The mappings after a session is registered or unregistered.
LEMMA RegisterStep ==
    ASSUME TypeOK, Unique(io_2_io_list), LinksInv, NEW a, NEW n,
           \/ Known(n, a) /\ Register(a, n)
           \/ n = 0 /\ Unregister(a),
           UNCHANGED addr
    PROVE  LinksInv'
<1>1. PICK list, b :
         /\ list = io_2_io_list /\ list \in Seq(Mapping) /\ Unique(list)
         /\ b = bridge /\ DOMAIN b = Sessions
         /\ \A i \in DOMAIN list : Sound(list[i]) /\ Linked(b, list[i])
  BY Zenon DEF TypeOK, LinksInv
<1>2. PICK l : l = AllBoth(list, a, n)
  BY Zenon
<1>3. io_2_io_list' = l /\ DOMAIN l = DOMAIN list /\ DOMAIN bridge' = Sessions
  <2>1. CASE Register(a, n)
    BY <1>1, <1>2, <2>1, Zenon DEF Register, AllBoth, LinkAll
  <2>2. CASE n = 0 /\ Unregister(a)
    BY <1>1, <1>2, <2>2, Zenon DEF Unregister, AllBoth, UnlinkAll
  <2> QED
    BY <2>1, <2>2, Zenon
<1>4. ASSUME NEW i \in DOMAIN list
      PROVE  Sound(l[i]) /\ Linked(bridge', l[i])
  <2>1. list[i] \in Mapping /\ Sound(list[i])
    BY <1>1
  <2>2. l[i] = WithBoth(list[i], a, n)
    BY <1>2, Zenon DEF AllBoth
  <2>3. Sound(l[i])
    BY <2>1, <2>2, WithBothSound, Zenon
  <2>4. CASE Known(n, a) /\ Register(a, n)
    <3>1. bridge' = LinkAll(b, Copies(list, a, AllFrom(list, a, n), AllBoth(list, a, n)))
      BY <1>1, <2>4, Zenon DEF Register
    <3>2. Linked(bridge', l[i])
      BY <1>1, <1>2, <2>4, <3>1, RegisterLinks, Zenon
    <3> QED
      BY <2>3, <3>2, Zenon
  <2>5. CASE n = 0 /\ Unregister(a)
    <3>1. bridge' = UnlinkAll(b, Copies(list, a, list, AllFrom(list, a, 0)))
      BY <1>1, <2>5, Zenon DEF Unregister
    <3>2. Linked(bridge', l[i])
      BY <1>1, <1>2, <2>5, <3>1, UnregisterLinks, Zenon
    <3> QED
      BY <2>3, <3>2, Zenon
  <2> QED
    BY <2>4, <2>5, Zenon
<1> QED
  BY <1>3, <1>4 DEF LinksInv, Sound, Linked

\* The address list after a session is entered at its address.
LEMMA AddedKnown ==
    ASSUME ListInv, NEW n, NEW a, Known(n, a), UNCHANGED addr,
           session_addr_list' = Added(session_addr_list, a, n)
    PROVE  ListInv'
<1>1. ASSUME NEW k \in DOMAIN session_addr_list'
      PROVE  \E x \in Addrs : Known(session_addr_list'[k], x) /\ Key(x) = k
  <2>1. CASE k = Key(a)
    <3>1. session_addr_list'[k] = n /\ a \in Addrs
      BY <2>1 DEF Added, Known
    <3> QED
      BY <2>1, <3>1, Zenon
  <2>2. CASE k # Key(a)
    <3>1. k \in DOMAIN session_addr_list /\ session_addr_list'[k] = session_addr_list[k]
      BY <2>2 DEF Added
    <3> QED
      BY <3>1, Zenon DEF ListInv
  <2> QED
    BY <2>1, <2>2, Zenon
<1> QED
  BY <1>1 DEF ListInv, Known

\* add_session_io_mapping finds a session of the address it looks for.
LEMMA FindsKnown ==
    ASSUME KeysDiffer, TypeOK, ListInv, NEW a \in Addrs, Found(session_addr_list, a) > 0
    PROVE  Known(Found(session_addr_list, a), a)
<1>1. /\ Key(a) \in DOMAIN session_addr_list
      /\ Found(session_addr_list, a) = session_addr_list[Key(a)]
  BY DEF Found
<1>2. PICK x \in Addrs : Known(session_addr_list[Key(a)], x) /\ Key(x) = Key(a)
  BY <1>1, Zenon DEF ListInv
<1>3. x = a
  BY <1>2, Zenon DEF KeysDiffer
<1> QED
  BY <1>1, <1>2, <1>3, Zenon

\* A session that connects had no address, so none that is known changes it.
LEMMA ConnectKeeps ==
    ASSUME TypeOK, JInv, NEW n \in Sessions, NEW a \in Addrs, Connect(n, a)
    PROVE  JInv'
<1>1. /\ addr[n] = NoAddr /\ addr' = [addr EXCEPT ![n] = a]
      /\ session_addr_list' = Added(session_addr_list, a, n)
      /\ event' = [op |-> "connect", session |-> n]
      /\ UNCHANGED <<io_2_io_list, bridge, adding>>
  BY Zenon DEF Connect
<1>2. \A s \in Sessions : addr[s] \in Addrs => addr'[s] = addr[s]
  BY <1>1, NoAddrIsNone DEF TypeOK
<1>3. addr'[n] = a
  BY <1>1 DEF TypeOK
<1>4. \A s, x : Known(s, x) => s \in Sessions /\ x \in Addrs /\ addr'[s] = x
  BY <1>2 DEF Known
<1>5. LinksInv'
  <2>1. ASSUME NEW i \in DOMAIN io_2_io_list
        PROVE  Sound(io_2_io_list[i])'
    <3>1. PICK m \in Mapping : m = io_2_io_list[i] /\ Sound(m)
      BY DEF TypeOK, JInv, LinksInv
    <3>2. m.from \in Addrs /\ m.to \in Addrs
      BY DEF Mapping
    <3>3. m.from_session # 0 => addr'[m.from_session] = m.from
      BY <1>2, <3>1, <3>2 DEF Mapping, Sound
    <3>4. m.to_session # 0 => addr'[m.to_session] = m.to
      BY <1>2, <3>1, <3>2 DEF Mapping, Sound
    <3> QED
      BY <1>1, <3>1, <3>3, <3>4 DEF Sound
  <2> QED
    BY <1>1, <2>1 DEF JInv, LinksInv, Linked
<1>6. ListInv'
  <2>1. ASSUME NEW k \in DOMAIN session_addr_list'
        PROVE  \E x \in Addrs : /\ session_addr_list'[k] \in Sessions
                                /\ addr'[session_addr_list'[k]] = x /\ Key(x) = k
    <3>1. CASE k = Key(a)
      <4>1. session_addr_list'[k] = n
        BY <1>1, <3>1 DEF Added
      <4> QED
        BY <1>3, <3>1, <4>1, Zenon
    <3>2. CASE k # Key(a)
      <4>1. k \in DOMAIN session_addr_list /\ session_addr_list'[k] = session_addr_list[k]
        BY <1>1, <3>2 DEF Added
      <4>2. PICK x \in Addrs : Known(session_addr_list[k], x) /\ Key(x) = k
        BY <4>1, Zenon DEF JInv, ListInv
      <4> QED
        BY <1>4, <4>1, <4>2, Zenon
    <3> QED
      BY <3>1, <3>2, Zenon
  <2> QED
    BY <2>1 DEF ListInv, Known
<1>7. AddingInv'
  <2>1. /\ adding.step # "idle" => adding.from \in Addrs /\ adding.to \in Addrs
        /\ adding.step \in {"from", "link_from"} => Known(adding.found, adding.from)
        /\ adding.step \in {"to", "link_to"} => Known(adding.found, adding.to)
    BY Zenon DEF JInv, AddingInv
  <2> QED
    BY <1>1, <1>4, <2>1 DEF AddingInv, Known
<1>8. EventInv'
  BY <1>1, <1>3 DEF EventInv, Known
<1> QED
  BY <1>5, <1>6, <1>7, <1>8 DEF JInv

\* Every step leaves the from sessions forwarding to the sessions of their
\* mappings, if the keys of the address list differ.
LEMMA LinkStep == KeysDiffer /\ IInv /\ JInv /\ [Next]_vars => JInv'
<1> SUFFICES ASSUME KeysDiffer, IInv, JInv, [Next]_vars
             PROVE  JInv'
  BY Zenon
<1>0. /\ TypeOK /\ Unique(io_2_io_list)
      /\ LinksInv /\ ListInv /\ AddingInv /\ EventInv
      /\ LinksInv' /\ ListInv' /\ AddingInv' /\ EventInv' => JInv'
  BY DEF IInv, JInv, FromUnique, LoopIsForward, Unique, Closes
<1>1. ASSUME NEW p \in Pairs, NEW type \in Types, AddMapping(p, type)
      PROVE  JInv'
  <2>1. PICK x : /\ x = [from |-> p[1], to |-> p[2], type |-> type,
                         from_session |-> 0, to_session |-> 0]
                 /\ io_2_io_list' = Append(io_2_io_list, x)
                 /\ adding' = [step |-> "find_from", from |-> p[1], to |-> p[2], found |-> 0]
                 /\ UNCHANGED <<session_addr_list, bridge, addr, event>>
    BY <1>1, Zenon DEF AddMapping
  <2>2. p[1] \in Addrs /\ p[2] \in Addrs /\ p = <<p[1], p[2]>>
    BY PairsAreAddrs
  <2>3. Sound(x) /\ Linked(bridge, x) /\ x \in Mapping
    BY <2>1, <2>2, TypesAreTypes DEF Sound, Linked, Forwards, Mapping
  <2>4. \A i \in DOMAIN io_2_io_list' :
           \/ io_2_io_list'[i] = x
           \/ i \in DOMAIN io_2_io_list /\ io_2_io_list'[i] = io_2_io_list[i]
    <3>1. PICK l \in Seq(Mapping) : l = io_2_io_list
      BY <1>0, Zenon DEF TypeOK
    <3>2. PICK t, N :
             /\ N \in Nat /\ t = Append(l, x) /\ DOMAIN l = 1 .. N /\ DOMAIN t = 1 .. N + 1
             /\ \A i \in 1 .. N : t[i] = l[i]
             /\ t[N + 1] = x
      <4>1. /\ Len(l) \in Nat /\ DOMAIN l = 1 .. Len(l)
            /\ DOMAIN Append(l, x) = 1 .. Len(l) + 1
            /\ \A i \in 1 .. Len(l) : Append(l, x)[i] = l[i]
            /\ Append(l, x)[Len(l) + 1] = x
        BY <2>3
      <4> QED
        BY <4>1, Zenon
    <3>3. \A i \in DOMAIN t : t[i] = x \/ (i \in DOMAIN l /\ t[i] = l[i])
      <4>1. \A i \in 1 .. N + 1 : i \in 1 .. N \/ i = N + 1
        BY <3>2
      <4> QED
        BY <3>2, <4>1
    <3> QED
      BY <2>1, <3>1, <3>2, <3>3, Zenon
  <2>5. DOMAIN bridge = Sessions /\ \A i \in DOMAIN io_2_io_list' :
           Sound(io_2_io_list'[i]) /\ Linked(bridge, io_2_io_list'[i])
    BY <1>0, <2>3, <2>4, Zenon DEF LinksInv
  <2>6. LinksInv'
    BY <2>1, <2>5 DEF LinksInv, Sound, Linked
  <2>7. AddingInv'
    BY <2>1, <2>2 DEF AddingInv
  <2> QED
    BY <1>0, <2>1, <2>6, <2>7, ListStays, EventStays, Zenon
<1>2. CASE AddFind
  <2>1. PICK a, n :
          /\ a = (IF adding.step = "find_from" THEN adding.from ELSE adding.to)
          /\ n = Found(session_addr_list, a)
          /\ adding' = IF n > 0
               THEN [adding EXCEPT !.found = n, !.step = IF @ = "find_from" THEN "from" ELSE "to"]
               ELSE IF adding.step = "find_from" THEN [adding EXCEPT !.step = "find_to"] ELSE Idle
          /\ adding.step \in {"find_from", "find_to"}
          /\ UNCHANGED <<io_2_io_list, session_addr_list, bridge, addr, event>>
    BY <1>2, Zenon DEF AddFind
  <2>2. /\ adding.from \in Addrs /\ adding.to \in Addrs /\ a \in Addrs
        /\ adding.step = "find_from" \/ adding.step = "find_to"
    BY <1>0, <2>1 DEF AddingInv
  <2>3. n > 0 => Known(n, a)
    BY <1>0, <2>1, <2>2, FindsKnown, Zenon
  <2>4. AddingInv'
    <3>1. adding \in [step : Step, from : Addrs \cup {NoAddr}, to : Addrs \cup {NoAddr},
                      found : Sessions \cup {0}]
      BY <1>0, Zenon DEF TypeOK
    <3>2. CASE n > 0 /\ adding.step = "find_from"
      BY <2>1, <2>2, <2>3, <3>1, <3>2 DEF AddingInv, Known
    <3>3. CASE n > 0 /\ adding.step = "find_to"
      BY <2>1, <2>2, <2>3, <3>1, <3>3 DEF AddingInv, Known
    <3>4. CASE ~(n > 0) /\ adding.step = "find_from"
      BY <2>1, <2>2, <3>1, <3>4 DEF AddingInv
    <3>5. CASE ~(n > 0) /\ adding.step = "find_to"
      BY <2>1, <3>5 DEF AddingInv, Idle
    <3> QED
      BY <2>2, <3>2, <3>3, <3>4, <3>5, Zenon
  <2> QED
    BY <1>0, <2>1, <2>4, LinksStay, ListStays, EventStays, Zenon
<1>3. CASE AddRegister
  <2>1. PICK a :
          /\ a = (IF adding.step = "from" THEN adding.from ELSE adding.to)
          /\ session_addr_list' = Added(session_addr_list, a, adding.found)
          /\ adding' = [adding EXCEPT !.step = IF @ = "from" THEN "link_from" ELSE "link_to"]
          /\ adding.step \in {"from", "to"}
          /\ UNCHANGED <<io_2_io_list, bridge, addr, event>>
    BY <1>3, Zenon DEF AddRegister
  <2>2. Known(adding.found, a)
    BY <1>0, <2>1 DEF AddingInv
  <2>3. ListInv'
    BY <1>0, <2>1, <2>2, AddedKnown, Zenon
  <2>4. AddingInv'
    <3>1. adding \in [step : Step, from : Addrs \cup {NoAddr}, to : Addrs \cup {NoAddr},
                      found : Sessions \cup {0}]
      BY <1>0, Zenon DEF TypeOK
    <3> QED
      BY <1>0, <2>1, <3>1 DEF AddingInv, Known
  <2> QED
    BY <1>0, <2>1, <2>3, <2>4, LinksStay, EventStays, Zenon

<1>4. CASE AddLink
  <2>1. PICK a :
          /\ a = (IF adding.step = "link_from" THEN adding.from ELSE adding.to)
          /\ adding.step \in {"link_from", "link_to"}
          /\ Register(a, adding.found)
          /\ adding' = IF adding.step = "link_from"
                       THEN [adding EXCEPT !.step = "find_to", !.found = 0] ELSE Idle
          /\ UNCHANGED <<session_addr_list, addr, event>>
    BY <1>4, Zenon DEF AddLink
  <2>2. Known(adding.found, a)
    BY <1>0, <2>1 DEF AddingInv
  <2>3. LinksInv'
    BY <1>0, <2>1, <2>2, RegisterStep, Zenon
  <2>4. AddingInv'
    <3>1. adding \in [step : Step, from : Addrs \cup {NoAddr}, to : Addrs \cup {NoAddr},
                      found : Sessions \cup {0}]
      BY <1>0, Zenon DEF TypeOK
    <3>2. CASE adding.step = "link_from"
      BY <1>0, <2>1, <3>1, <3>2 DEF AddingInv
    <3>3. CASE adding.step # "link_from"
      BY <2>1, <3>3 DEF AddingInv, Idle
    <3> QED
      BY <3>2, <3>3
  <2> QED
    BY <1>0, <2>1, <2>3, <2>4, ListStays, EventStays, Zenon
<1>5. ASSUME NEW a \in Addrs, DeleteMapping(a)
      PROVE  JInv'
  <2>1. PICK list, b :
           /\ list = io_2_io_list /\ list \in Seq(Mapping) /\ Unique(list)
         /\ b = bridge /\ DOMAIN b = Sessions
           /\ \A i \in DOMAIN list : Sound(list[i]) /\ Linked(b, list[i])
    BY <1>0, Zenon DEF TypeOK, LinksInv
  <2>2. PICK rest, left :
           /\ rest = Drop(list, FromAt(list, a)) /\ left = Drop(rest, ToAt(rest, a))
           /\ io_2_io_list' = left
           /\ bridge' = UnlinkAll(b, Taken(list, FromAt(list, a)) \o Taken(rest, ToAt(rest, a)))
           /\ UNCHANGED <<session_addr_list, addr, adding, event>>
    BY <1>5, <2>1, Zenon DEF DeleteMapping
  <2>3. \A i \in DOMAIN left : Sound(left[i]) /\ Linked(bridge', left[i])
    <3>1. \A i \in DOMAIN left :
             /\ Sound(left[i])
             /\ Linked(UnlinkAll(b, Taken(list, FromAt(list, a)) \o Taken(rest, ToAt(rest, a))),
                       left[i])
      BY <2>1, <2>2, DeleteLinks
    <3> QED
      BY <2>2, <3>1, Zenon
  <2>4. DOMAIN bridge' = Sessions
    BY <2>1, <2>2, Zenon DEF UnlinkAll
  <2>5. LinksInv'
    BY <2>2, <2>3, <2>4 DEF LinksInv, Sound, Linked
  <2> QED
    BY <1>0, <2>2, <2>5, ListStays, AddingStays, EventStays, Zenon
<1>6. ASSUME NEW n \in Sessions, NEW a \in Addrs, Connect(n, a)
      PROVE  JInv'
  BY <1>0, <1>6, ConnectKeeps, Zenon
<1>7. ASSUME NEW n \in Sessions, Disconnect(n)
      PROVE  JInv'
  <2>1. /\ session_addr_list' = Deleted(session_addr_list, addr[n])
        /\ event' = [op |-> "disconnect", session |-> n]
        /\ UNCHANGED <<io_2_io_list, bridge, addr, adding>>
    BY <1>7, Zenon DEF Disconnect
  <2>2. ListInv'
    <3>1. \A k \in DOMAIN session_addr_list' : /\ k \in DOMAIN session_addr_list
                                               /\ session_addr_list'[k] = session_addr_list[k]
      BY <2>1 DEF Deleted
    <3> QED
      BY <1>0, <2>1, <3>1 DEF ListInv, Known
  <2>3. EventInv'
    BY <2>1 DEF EventInv
  <2> QED
    BY <1>0, <2>1, <2>2, <2>3, LinksStay, AddingStays, Zenon
<1>8. CASE ConnectLink
  <2>1. PICK a : /\ a = addr[event.session] /\ event.op = "connect"
                 /\ Register(a, event.session) /\ event' = NoEvent
                 /\ UNCHANGED <<session_addr_list, addr, adding>>
    BY <1>8, Zenon DEF ConnectLink
  <2>2. Known(event.session, a)
    BY <1>0, <2>1, Zenon DEF EventInv
  <2>3. LinksInv'
    BY <1>0, <2>1, <2>2, RegisterStep, Zenon
  <2>4. EventInv'
    BY <2>1 DEF EventInv, NoEvent
  <2> QED
    BY <1>0, <2>1, <2>3, <2>4, ListStays, AddingStays, Zenon
<1>9. CASE DisconnectLink
  <2>1. PICK a, n : /\ n = 0 /\ Unregister(a) /\ event' = NoEvent
                    /\ UNCHANGED <<session_addr_list, addr, adding>>
    BY <1>9, Zenon DEF DisconnectLink
  <2>2. LinksInv'
    BY <1>0, <2>1, RegisterStep, Zenon
  <2>3. EventInv'
    BY <2>1 DEF EventInv, NoEvent
  <2> QED
    BY <1>0, <2>1, <2>2, <2>3, ListStays, AddingStays, Zenon
<1>10. CASE UNCHANGED vars
  <2>1. UNCHANGED <<io_2_io_list, session_addr_list, bridge, addr, adding, event>>
    BY <1>10 DEF vars
  <2> QED
    BY <1>0, <2>1, LinksStay, ListStays, AddingStays, EventStays, Zenon
<1> QED
  BY <1>1, <1>2, <1>3, <1>4, <1>5, <1>6, <1>7, <1>8, <1>9, <1>10, Zenon DEF Next, Plugin, Io

\* Nothing is mapped and nobody is registered at the start.
LEMMA LinkInit == Init => JInv
BY DEF Init, JInv, LinksInv, ListInv, AddingInv, EventInv, Idle, NoEvent

\* When sessions of both ends of a mapping are registered, the from session
\* forwards to the to session that is registered now: for any number of
\* mappings, sessions and replacements, and whichever io thread comes between
\* the lookup and the registration of add_session_io_mapping, provided nothing
\* is mapped to its from address and the keys of the address list differ.
THEOREM LinkedFromHolds == KeysDiffer /\ Spec => []LinkedFrom
<1> SUFFICES ASSUME KeysDiffer
             PROVE  Spec => []LinkedFrom
  BY Zenon
<1>1. Init => IInv /\ JInv
  BY InvInit, LinkInit, Zenon
<1>2. IInv /\ JInv /\ [Next]_vars => IInv' /\ JInv'
  BY InvStep, LinkStep, Zenon
<1>3. IInv /\ JInv => LinkedFrom
  BY Zenon DEF JInv, LinksInv, Linked, Forwards, LinkedFrom
<1> QED
  BY <1>1, <1>2, <1>3, PTL DEF Spec

=============================================================================
