------------------------ MODULE NetSvrManagerProofs ------------------------
(***************************************************************************)
(* Proofs about NetSvrManager for any addresses, listeners and tasks: its  *)
(* state is well typed, an open listener is in the list, an entry of the   *)
(* list stands for a listener of its address that has its socket, and a    *)
(* crash has one of two causes.                                            *)
(***************************************************************************)
EXTENDS NetSvrManager, TLAPS

\* A leaf that names no prover is left to the SMT solver.
USE SMTT(20)

\* The three invariants need each other: the failed accept of an open
\* listener erases the entry under its address, which must be its own.
IInv == TypeOK /\ OpenIsListed /\ ListedHasSocket

Tasks == [op : {"start", "close"}, proto : Protos, key : Keys]
----------------------------------------------------------------------------
\* A closed listener is still a listener.
LEMMA ClosedType ==
    ASSUME NEW st \in {"open", "deaf", "closed", "over"}
    PROVE  /\ Closed(st) \in {"closed", "over"}
           /\ st \in {"closed", "over"} => Closed(st) = st
  BY DEF Closed

\* Closing listeners leaves the others, and every address, alone.
LEMMA CloseThemKeeps ==
    ASSUME NEW s \in Seq(Listener), NEW S
    PROVE  /\ CloseThem(s, S) \in Seq(Listener)
           /\ Len(CloseThem(s, S)) = Len(s)
           /\ \A i \in 1 .. Len(s) :
                 /\ CloseThem(s, S)[i].proto = s[i].proto
                 /\ CloseThem(s, S)[i].key = s[i].key
                 /\ i \notin S => CloseThem(s, S)[i] = s[i]
                 /\ i \in S => CloseThem(s, S)[i].st \in {"closed", "over"}
  <1> DEFINE c(i) == IF i \in S THEN [s[i] EXCEPT !.st = Closed(@)] ELSE s[i]
  <1>1. CloseThem(s, S) = [i \in 1 .. Len(s) |-> c(i)]
    BY DEF CloseThem
  <1>2. ASSUME NEW i \in 1 .. Len(s)
        PROVE  /\ c(i) \in Listener
               /\ c(i).proto = s[i].proto /\ c(i).key = s[i].key
               /\ i \notin S => c(i) = s[i]
               /\ i \in S => c(i).st \in {"closed", "over"}
    <2>1. s[i] \in Listener
      OBVIOUS
    <2>2. Closed(s[i].st) \in {"closed", "over"}
      BY <2>1, ClosedType DEF Listener
    <2> QED
      BY <2>1, <2>2 DEF Listener
  <1> HIDE DEF c
  <1>3. [i \in 1 .. Len(s) |-> c(i)] \in Seq(Listener)
    BY <1>2
  <1>4. Len([i \in 1 .. Len(s) |-> c(i)]) = Len(s)
    OBVIOUS
  <1> QED
    BY <1>1, <1>2, <1>3, <1>4

\* Work thread 0 takes a task off the queue.
LEMMA HeadTasks ==
    ASSUME TypeOK, tasks # <<>>
    PROVE  /\ Head(tasks) \in Tasks /\ Tail(tasks) \in Seq(Tasks)
           /\ Len(Tail(tasks)) <= MaxTasks
  <1>1. tasks \in Seq(Tasks) /\ Len(tasks) <= MaxTasks
    BY DEF TypeOK, Tasks
  <1> QED
    BY <1>1, BoundsOK

\* In the initial states there is no listener.
LEMMA InitIInv == Init => IInv
  <1> SUFFICES ASSUME Init PROVE IInv
    OBVIOUS
  <1> USE BoundsOK DEF Init
  <1>1. crashed \in BOOLEAN
    BY Zenon
  <1>2. TypeOK
    BY <1>1 DEF TypeOK
  <1> QED
    BY <1>2 DEF IInv, OpenIsListed, ListedHasSocket

\* What close_single_service, close_all_service, a failed accept and the late
\* handler of a closed listener have in common: entries E are erased, and a
\* listener that loses its socket is one of theirs.
LEMMA Unlist ==
    ASSUME IInv, ~crashed, NEW E \in SUBSET Addresses,
           srv' \in Seq(Listener), Len(srv') = Len(srv), doubled' = doubled,
           \A p \in Protos, k \in Keys :
              list'[p][k] = IF <<p, k>> \in E THEN 0 ELSE list[p][k],
           \A i \in 1 .. Len(srv) :
              /\ srv'[i].proto = srv[i].proto /\ srv'[i].key = srv[i].key
              /\ \/ srv'[i].st = srv[i].st
                 \/ srv[i].st = "closed" /\ srv'[i].st = "over"
                 \/ \E a \in E : list[a[1]][a[2]] = i,
           \A a \in E, i \in 1 .. Len(srv) :
              list[a[1]][a[2]] = i => srv'[i].st # "open"
    PROVE  OpenIsListed' /\ ListedHasSocket'
  <1> USE DEF IInv, TypeOK, Addresses
  <1>0. DOMAIN srv = 1 .. Len(srv) /\ DOMAIN srv' = 1 .. Len(srv)
    OBVIOUS
  <1>1. ASSUME NEW i \in 1 .. Len(srv), srv'[i].st = "open"
        PROVE  \/ list'[srv'[i].proto][srv'[i].key] = i
               \/ srv'[i].proto = "udp" /\ <<"udp", srv'[i].key>> \in doubled'
    <2>0. srv[i] \in Listener
      OBVIOUS
    <2>1. srv[i].proto \in Protos /\ srv[i].key \in Keys
      BY <2>0, Zenon DEF Listener
    <2>2. srv[i].st = "open"
      BY <1>1, Zenon
    <2>3. CASE list[srv[i].proto][srv[i].key] = i
      <3>1. <<srv[i].proto, srv[i].key>> \notin E
        BY <1>1, <2>3
      <3> QED
        BY <2>1, <2>3, <3>1
    <2>4. CASE srv[i].proto = "udp" /\ <<"udp", srv[i].key>> \in doubled
      BY <2>4, Zenon
    <2> QED
      BY <1>0, <2>2, <2>3, <2>4, Zenon DEF OpenIsListed
  <1>2. ASSUME NEW p \in Protos, NEW k \in Keys, list'[p][k] # 0
        PROVE  /\ srv'[list'[p][k]].st \in {"open", "deaf"}
               /\ srv'[list'[p][k]].proto = p /\ srv'[list'[p][k]].key = k
    <2> DEFINE i == list[p][k]
    <2>1. <<p, k>> \notin E /\ list'[p][k] = i
      BY <1>2
    <2>2. i \in 1 .. Len(srv)
      BY <1>2, <2>1
    <2>3. srv[i].st \in {"open", "deaf"} /\ srv[i].proto = p /\ srv[i].key = k
      BY <1>2, <2>1 DEF ListedHasSocket
    <2>4. ASSUME NEW a \in E, list[a[1]][a[2]] = i PROVE FALSE
      <3>1. PICK q \in Protos, l \in Keys : a = <<q, l>>
        OBVIOUS
      <3>2. srv[i].proto = q /\ srv[i].key = l
        BY <2>2, <2>4, <3>1 DEF ListedHasSocket
      <3> QED
        BY <2>1, <2>3, <3>1, <3>2
    <2>5. srv'[i].st = srv[i].st
      BY <2>2, <2>3, <2>4, Zenon
    <2> QED
      BY <2>1, <2>2, <2>3, <2>5
  <1>3. OpenIsListed'
    BY <1>0, <1>1 DEF OpenIsListed
  <1>4. ListedHasSocket'
    BY <1>2 DEF ListedHasSocket
  <1> QED
    BY <1>3, <1>4

\* The listener that RunStart makes is entered under its address, and what it
\* replaces there is closed or, for UDP, recorded in doubled.
LEMMA RunStartKeeps == IInv /\ RunStart => IInv'
  <1> SUFFICES ASSUME IInv, RunStart PROVE IInv'
    OBVIOUS
  <1> DEFINE p == Head(tasks).proto
             k == Head(tasks).key
             s == CloseThem(srv, Owned(p, k))
             bound == \A i \in DOMAIN srv :
                         /\ srv[i].proto = p /\ srv[i].key = k
                         /\ srv[i].st \in {"open", "deaf"}
                         => p = "udp"
             new == [proto |-> p, key |-> k, st |-> IF bound THEN "open" ELSE "over"]
             n == Len(srv) + 1
  <1>1. /\ ~crashed /\ tasks # <<>> /\ Len(srv) < MaxServers
        /\ srv' = Append(s, new)
        /\ list' = [list EXCEPT ![p][k] = n]
        /\ crashed' = ~bound
        /\ doubled' = IF list[p][k] = 0 THEN doubled ELSE doubled \cup {<<p, k>>}
        /\ tasks' = Tail(tasks) /\ main' = main
    BY DEF RunStart
  <1>2. Head(tasks) \in Tasks /\ Tail(tasks) \in Seq(Tasks) /\ Len(Tail(tasks)) <= MaxTasks
    BY <1>1, HeadTasks DEF IInv
  <1>3. p \in Protos /\ k \in Keys
    BY <1>2 DEF Tasks
  <1>4. srv \in Seq(Listener) /\ Len(srv) \in Nat
    BY DEF IInv, TypeOK
  <1>5. /\ s \in Seq(Listener) /\ Len(s) = Len(srv)
        /\ \A i \in 1 .. Len(srv) :
              /\ s[i].proto = srv[i].proto /\ s[i].key = srv[i].key
              /\ i \notin Owned(p, k) => s[i] = srv[i]
              /\ i \in Owned(p, k) => s[i].st \in {"closed", "over"}
    BY <1>4, CloseThemKeeps
  <1>6. bound \in BOOLEAN
    OBVIOUS
  <1>7. /\ new \in Listener /\ new.proto = p /\ new.key = k
        /\ bound => new.st = "open"
    BY <1>3 DEF Listener
  <1> HIDE DEF p, k, s, new, bound
  <1>8. /\ srv' \in Seq(Listener) /\ Len(srv') = n /\ srv'[n] = new
        /\ \A i \in 1 .. Len(srv) : srv'[i] = s[i]
    BY <1>1, <1>4, <1>5, <1>7
  <1>9. DOMAIN srv = 1 .. Len(srv) /\ DOMAIN srv' = 1 .. n
    BY <1>4, <1>8
  <1>10. list \in [Protos -> [Keys -> 0 .. Len(srv)]]
    BY DEF IInv, TypeOK
  <1>11. /\ list'[p][k] = n
         /\ \A q \in Protos, l \in Keys : <<q, l>> # <<p, k>> => list'[q][l] = list[q][l]
    BY <1>1, <1>3, <1>10
  <1>12. TypeOK'
    <2>1. list' \in [Protos -> [Keys -> 0 .. Len(srv')]]
      <3>1. list \in [Protos -> [Keys -> 0 .. n]] /\ n \in 0 .. n
        BY <1>4, <1>10
      <3> QED
        BY <1>1, <1>3, <1>8, <3>1
    <2>2. doubled' \subseteq Addresses
      BY <1>1, <1>3 DEF IInv, TypeOK, Addresses
    <2>3. crashed' \in BOOLEAN
      BY <1>1, <1>6, Zenon
    <2>4. Len(srv') <= MaxServers
      BY <1>1, <1>4, <1>8, BoundsOK
    <2> QED
      BY <1>1, <1>2, <1>8, <2>1, <2>2, <2>3, <2>4, Zenon DEF IInv, TypeOK, Tasks
  <1>13. OpenIsListed'
    <2>1. ASSUME NEW i \in 1 .. Len(srv), srv'[i].st = "open"
          PROVE  \/ list'[srv'[i].proto][srv'[i].key] = i
                 \/ srv'[i].proto = "udp" /\ <<"udp", srv'[i].key>> \in doubled'
      <3>1. srv'[i] = srv[i] /\ i \notin Owned(p, k)
        BY <1>5, <1>8, <2>1
      <3>2. srv[i] \in Listener
        BY <1>4
      <3>3. srv[i].proto \in Protos /\ srv[i].key \in Keys
        BY <3>2 DEF Listener
      <3>4. \/ list[srv[i].proto][srv[i].key] = i
            \/ srv[i].proto = "udp" /\ <<"udp", srv[i].key>> \in doubled
        BY <1>9, <2>1, <3>1 DEF IInv, OpenIsListed
      <3>5. CASE srv[i].proto = p /\ srv[i].key = k
        BY <1>1, <3>1, <3>3, <3>4, <3>5 DEF Owned, Protos
      <3>6. CASE <<srv[i].proto, srv[i].key>> # <<p, k>>
        BY <1>1, <1>11, <3>1, <3>3, <3>4, <3>6
      <3> QED
        BY <3>5, <3>6
    <2>2. list'[srv'[n].proto][srv'[n].key] = n
      BY <1>7, <1>8, <1>11
    <2>3. \A i \in 1 .. n : i \in 1 .. Len(srv) \/ i = n
      BY <1>4
    <2> QED
      BY <1>9, <2>1, <2>2, <2>3 DEF OpenIsListed
  <1>14. ListedHasSocket'
    <2> SUFFICES ASSUME ~crashed', NEW q \in Protos, NEW l \in Keys, list'[q][l] # 0
                 PROVE  /\ srv'[list'[q][l]].st \in {"open", "deaf"}
                        /\ srv'[list'[q][l]].proto = q /\ srv'[list'[q][l]].key = l
      BY DEF ListedHasSocket
    <2>1. CASE q = p /\ l = k
      BY <1>1, <1>7, <1>8, <1>11, <2>1, Zenon
    <2>2. CASE <<q, l>> # <<p, k>>
      <3>1. list'[q][l] = list[q][l] /\ list[q][l] \in 1 .. Len(srv)
        BY <1>4, <1>10, <1>11, <2>2
      <3>2. /\ srv[list[q][l]].st \in {"open", "deaf"}
            /\ srv[list[q][l]].proto = q /\ srv[list[q][l]].key = l
        BY <1>1, <3>1 DEF IInv, ListedHasSocket
      <3>3. list[q][l] # list[p][k]
        BY <1>1, <1>3, <2>2, <3>1, <3>2 DEF IInv, ListedHasSocket
      <3>4. list[q][l] \notin Owned(p, k)
        BY <3>3 DEF Owned
      <3> QED
        BY <1>5, <1>8, <3>1, <3>2, <3>4
    <2> QED
      BY <2>1, <2>2
  <1> QED
    BY <1>12, <1>13, <1>14 DEF IInv

\* Every step keeps IInv.
LEMMA NextIInv == IInv /\ [Next]_vars => IInv'
  <1> SUFFICES ASSUME IInv, [Next]_vars PROVE IInv'
    OBVIOUS
  <1>1. /\ srv \in Seq(Listener) /\ Len(srv) \in Nat /\ Len(srv) <= MaxServers
        /\ DOMAIN srv = 1 .. Len(srv)
        /\ list \in [Protos -> [Keys -> 0 .. Len(srv)]]
    BY DEF IInv, TypeOK
  <1>2. ASSUME NEW p \in Protos, NEW k \in Keys, StartSingle(p, k) \/ CloseSingle(p, k)
        PROVE  IInv'
    <2>1. PICK t \in Tasks : tasks' = Append(tasks, t)
      BY <1>2 DEF StartSingle, CloseSingle, Tasks
    <2>2. tasks \in Seq(Tasks) /\ Len(tasks) < MaxTasks
      BY <1>2 DEF StartSingle, CloseSingle, IInv, TypeOK, Tasks
    <2>3. tasks' \in Seq(Tasks) /\ Len(tasks') <= MaxTasks
      BY <2>1, <2>2, BoundsOK
    <2>4. UNCHANGED <<list, srv, main, crashed, doubled>>
      BY <1>2 DEF StartSingle, CloseSingle
    <2>5. TypeOK'
      BY <2>3, <2>4 DEF IInv, TypeOK, Tasks
    <2> QED
      BY <2>4, <2>5 DEF IInv, OpenIsListed, ListedHasSocket
  <1>3. CASE RunStart
    BY <1>3, RunStartKeeps
  <1>4. CASE RunClose
    <2> DEFINE p == Head(tasks).proto
               k == Head(tasks).key
    <2>1. /\ ~crashed /\ tasks # <<>> /\ tasks' = Tail(tasks)
          /\ srv' = CloseThem(srv, {list[p][k]})
          /\ list' = [list EXCEPT ![p][k] = 0]
          /\ UNCHANGED <<main, crashed, doubled>>
      BY <1>4 DEF RunClose
    <2>2. Head(tasks) \in Tasks /\ Tail(tasks) \in Seq(Tasks) /\ Len(Tail(tasks)) <= MaxTasks
      BY <2>1, HeadTasks DEF IInv
    <2>3. p \in Protos /\ k \in Keys
      BY <2>2 DEF Tasks
    <2> HIDE DEF p, k
    <2>4. srv' \in Seq(Listener) /\ Len(srv') = Len(srv)
      BY <1>1, <2>1, CloseThemKeeps
    <2>a. list' \in [Protos -> [Keys -> 0 .. Len(srv')]]
      <3>1. 0 \in 0 .. Len(srv) /\ list' = [list EXCEPT ![p][k] = 0]
        BY <1>1, <2>1
      <3>2. list' \in [Protos -> [Keys -> 0 .. Len(srv)]]
        BY <1>1, <2>3, <3>1
      <3> QED
        BY <2>4, <3>2
    <2>5. TypeOK'
      BY <1>1, <2>1, <2>2, <2>4, <2>a, Zenon DEF IInv, TypeOK, Tasks
    <2>6. \A i \in 1 .. Len(srv) :
             /\ srv'[i].proto = srv[i].proto /\ srv'[i].key = srv[i].key
             /\ i # list[p][k] => srv'[i] = srv[i]
             /\ i = list[p][k] => srv'[i].st \in {"closed", "over"}
      BY <1>1, <2>1, CloseThemKeeps
    <2>7. {<<p, k>>} \in SUBSET Addresses
      BY <2>3 DEF Addresses
    <2>8. \A q \in Protos, l \in Keys :
             list'[q][l] = IF <<q, l>> \in {<<p, k>>} THEN 0 ELSE list[q][l]
      BY <1>1, <2>1, <2>3
    <2>9. OpenIsListed' /\ ListedHasSocket'
      <3> DEFINE E == {<<p, k>>}
      <3>1. \A i \in 1 .. Len(srv) :
               /\ srv'[i].proto = srv[i].proto /\ srv'[i].key = srv[i].key
               /\ \/ srv'[i].st = srv[i].st
                  \/ srv[i].st = "closed" /\ srv'[i].st = "over"
                  \/ \E a \in E : list[a[1]][a[2]] = i
        BY <2>6
      <3>2. \A a \in E, i \in 1 .. Len(srv) : list[a[1]][a[2]] = i => srv'[i].st # "open"
        BY <2>6
      <3> HIDE DEF E
      <3> QED
        BY <2>1, <2>4, <2>7, <2>8, <3>1, <3>2, Unlist, Zenon DEF E
    <2> QED
      BY <2>5, <2>9 DEF IInv
  <1>5. ASSUME NEW i \in DOMAIN srv, GoesDeaf(i) PROVE IInv'
    <2>1. srv' = [srv EXCEPT ![i].st = "deaf"]
      BY <1>5 DEF GoesDeaf
    <2>2. /\ srv' \in Seq(Listener) /\ Len(srv') = Len(srv)
          /\ \A j \in 1 .. Len(srv) :
                /\ srv'[j].proto = srv[j].proto /\ srv'[j].key = srv[j].key
                /\ j # i => srv'[j] = srv[j]
                /\ j = i => srv'[j].st = "deaf"
      <3>1. srv[i] \in Listener
        BY <1>1
      <3>2. /\ [srv[i] EXCEPT !.st = "deaf"] \in Listener
            /\ [srv[i] EXCEPT !.st = "deaf"].proto = srv[i].proto
            /\ [srv[i] EXCEPT !.st = "deaf"].key = srv[i].key
            /\ [srv[i] EXCEPT !.st = "deaf"].st = "deaf"
        BY <3>1 DEF Listener
      <3> QED
        BY <1>1, <2>1, <3>2
    <2>3. TypeOK'
      BY <1>5, <2>2 DEF GoesDeaf, IInv, TypeOK
    <2>5. \A p \in Protos, k \in Keys : list[p][k] # 0 => list[p][k] \in 1 .. Len(srv)
      BY <1>1
    <2> QED
      BY <1>1, <1>5, <2>2, <2>3, <2>5 DEF GoesDeaf, IInv, OpenIsListed, ListedHasSocket
  <1>6. ASSUME NEW i \in DOMAIN srv, AcceptFails(i) PROVE IInv'
    <2> DEFINE k == srv[i].key
    <2>1. /\ ~crashed /\ srv[i].proto = "tcp" /\ srv[i].st = "open"
          /\ srv' = [srv EXCEPT ![i].st = "over"]
          /\ list' = [list EXCEPT !["tcp"][k] = 0]
          /\ UNCHANGED <<tasks, main, crashed, doubled>>
      BY <1>6 DEF AcceptFails
    <2>2. k \in Keys /\ "tcp" \in Protos
      <3>1. srv[i] \in Listener
        BY <1>1
      <3> QED
        BY <3>1 DEF Listener, Protos
    <2>3. list["tcp"][k] = i
      BY <2>1, Zenon DEF IInv, OpenIsListed
    <2>4. /\ srv' \in Seq(Listener) /\ Len(srv') = Len(srv)
          /\ \A j \in 1 .. Len(srv) :
                /\ srv'[j].proto = srv[j].proto /\ srv'[j].key = srv[j].key
                /\ j # i => srv'[j] = srv[j]
                /\ j = i => srv'[j].st = "over"
      <3>1. srv[i] \in Listener
        BY <1>1
      <3>2. /\ [srv[i] EXCEPT !.st = "over"] \in Listener
            /\ [srv[i] EXCEPT !.st = "over"].proto = srv[i].proto
            /\ [srv[i] EXCEPT !.st = "over"].key = srv[i].key
            /\ [srv[i] EXCEPT !.st = "over"].st = "over"
        BY <3>1 DEF Listener
      <3> QED
        BY <1>1, <2>1, <3>2
    <2> HIDE DEF k
    <2>5. TypeOK'
      BY <1>1, <2>1, <2>2, <2>4 DEF IInv, TypeOK
    <2>6. {<<"tcp", k>>} \in SUBSET Addresses
      BY <2>2 DEF Addresses
    <2>7. \A q \in Protos, l \in Keys :
             list'[q][l] = IF <<q, l>> \in {<<"tcp", k>>} THEN 0 ELSE list[q][l]
      BY <1>1, <2>1, <2>2
    <2>8. OpenIsListed' /\ ListedHasSocket'
      <3> DEFINE E == {<<"tcp", k>>}
      <3>1. \A j \in 1 .. Len(srv) :
               /\ srv'[j].proto = srv[j].proto /\ srv'[j].key = srv[j].key
               /\ \/ srv'[j].st = srv[j].st
                  \/ srv[j].st = "closed" /\ srv'[j].st = "over"
                  \/ \E a \in E : list[a[1]][a[2]] = j
        BY <2>3, <2>4
      <3>2. \A a \in E, j \in 1 .. Len(srv) : list[a[1]][a[2]] = j => srv'[j].st # "open"
        BY <2>3, <2>4
      <3> HIDE DEF E
      <3> QED
        BY <2>1, <2>4, <2>6, <2>7, <3>1, <3>2, Unlist, Zenon DEF E
    <2> QED
      BY <2>5, <2>8 DEF IInv
  <1>7. ASSUME NEW i \in DOMAIN srv, Aborted(i) PROVE IInv'
    <2> DEFINE k == srv[i].key
               over == [srv EXCEPT ![i].st = "over"]
    <2>1. ~crashed /\ srv[i].st = "closed" /\ UNCHANGED <<tasks, main, doubled>>
      BY <1>7 DEF Aborted
    <2>2. /\ over \in Seq(Listener) /\ Len(over) = Len(srv)
          /\ \A j \in 1 .. Len(srv) :
                /\ over[j].proto = srv[j].proto /\ over[j].key = srv[j].key
                /\ j # i => over[j] = srv[j]
                /\ j = i => over[j].st = "over"
      <3>1. srv[i] \in Listener
        BY <1>1
      <3>2. /\ [srv[i] EXCEPT !.st = "over"] \in Listener
            /\ [srv[i] EXCEPT !.st = "over"].proto = srv[i].proto
            /\ [srv[i] EXCEPT !.st = "over"].key = srv[i].key
            /\ [srv[i] EXCEPT !.st = "over"].st = "over"
        BY <3>1 DEF Listener
      <3> QED
        BY <1>1, <3>2
    <2>3. k \in Keys /\ "tcp" \in Protos
      <3>1. srv[i] \in Listener
        BY <1>1
      <3> QED
        BY <3>1 DEF Listener, Protos
    <2>4. \/ srv' = over /\ list' = list /\ crashed' \in BOOLEAN
          \/ /\ srv' = CloseThem(over, {list["tcp"][k]})
             /\ list' = [list EXCEPT !["tcp"][k] = 0]
             /\ crashed' \in BOOLEAN
      <3>1. \/ srv' = over /\ list' = list /\ (crashed' = crashed \/ crashed' = TRUE)
            \/ /\ srv' = CloseThem(over, {list["tcp"][k]})
               /\ list' = [list EXCEPT !["tcp"][k] = 0]
               /\ crashed' = crashed
        BY <1>7 DEF Aborted
      <3>2. crashed \in BOOLEAN
        BY DEF IInv, TypeOK
      <3> QED
        BY <3>1, <3>2, Zenon
    <2> HIDE DEF k, over
    <2>5. CASE srv' = over /\ list' = list /\ crashed' \in BOOLEAN
      <3> DEFINE E == {}
      <3>1. TypeOK'
        BY <1>1, <2>1, <2>2, <2>5 DEF IInv, TypeOK
      <3>2. \A j \in 1 .. Len(srv) :
               /\ srv'[j].proto = srv[j].proto /\ srv'[j].key = srv[j].key
               /\ \/ srv'[j].st = srv[j].st
                  \/ srv[j].st = "closed" /\ srv'[j].st = "over"
                  \/ \E a \in E : list[a[1]][a[2]] = j
        BY <2>1, <2>2, <2>5
      <3>a. E \in SUBSET Addresses /\ \A a \in Addresses : a \notin E
        OBVIOUS
      <3> HIDE DEF E
      <3>3. OpenIsListed' /\ ListedHasSocket'
        BY <2>1, <2>2, <2>5, <3>2, <3>a, Unlist DEF Addresses
      <3> QED
        BY <3>1, <3>3 DEF IInv
    <2>6. CASE /\ srv' = CloseThem(over, {list["tcp"][k]})
               /\ list' = [list EXCEPT !["tcp"][k] = 0]
               /\ crashed' \in BOOLEAN
      <3> DEFINE E == {<<"tcp", k>>}
      <3>1. /\ srv' \in Seq(Listener) /\ Len(srv') = Len(srv)
            /\ \A j \in 1 .. Len(srv) :
                  /\ srv'[j].proto = over[j].proto /\ srv'[j].key = over[j].key
                  /\ j # list["tcp"][k] => srv'[j] = over[j]
                  /\ j = list["tcp"][k] => srv'[j].st \in {"closed", "over"}
        BY <2>2, <2>6, CloseThemKeeps
      <3>2. TypeOK'
        <4>1. 0 \in 0 .. Len(srv)
          BY <1>1
        <4>2. list' \in [Protos -> [Keys -> 0 .. Len(srv)]]
          BY <1>1, <2>3, <2>6, <4>1
        <4> QED
          BY <2>1, <2>6, <3>1, <4>2, Zenon DEF IInv, TypeOK
      <3>3. E \in SUBSET Addresses
        BY <2>3 DEF Addresses
      <3>4. \A q \in Protos, l \in Keys :
               list'[q][l] = IF <<q, l>> \in E THEN 0 ELSE list[q][l]
        BY <1>1, <2>3, <2>6
      <3>5. \A j \in 1 .. Len(srv) :
               /\ srv'[j].proto = srv[j].proto /\ srv'[j].key = srv[j].key
               /\ \/ srv'[j].st = srv[j].st
                  \/ srv[j].st = "closed" /\ srv'[j].st = "over"
                  \/ \E a \in E : list[a[1]][a[2]] = j
        BY <2>1, <2>2, <3>1
      <3>6. \A a \in E, j \in 1 .. Len(srv) : list[a[1]][a[2]] = j => srv'[j].st # "open"
        BY <3>1
      <3> HIDE DEF E
      <3>7. OpenIsListed' /\ ListedHasSocket'
        BY <2>1, <3>1, <3>3, <3>4, <3>5, <3>6, Unlist, Zenon
      <3> QED
        BY <3>2, <3>7 DEF IInv
    <2> QED
      BY <2>4, <2>5, <2>6
  <1>8. CASE CloseAll
    <2> DEFINE S == {list[a[1]][a[2]] : a \in Addresses}
    <2>1. /\ ~crashed /\ main' = "closed" /\ srv' = CloseThem(srv, S)
          /\ list' = [p \in Protos |-> [k \in Keys |-> 0]]
          /\ UNCHANGED <<tasks, crashed, doubled>>
      BY <1>8 DEF CloseAll
    <2>2. /\ srv' \in Seq(Listener) /\ Len(srv') = Len(srv)
          /\ \A i \in 1 .. Len(srv) :
                /\ srv'[i].proto = srv[i].proto /\ srv'[i].key = srv[i].key
                /\ i \notin S => srv'[i] = srv[i]
                /\ i \in S => srv'[i].st \in {"closed", "over"}
      <3> HIDE DEF S
      <3> QED
        BY <1>1, <2>1, CloseThemKeeps, ZenonT(30)
    <2>3. TypeOK'
      <3>1. list' \in [Protos -> [Keys -> 0 .. Len(srv')]]
        <4>1. 0 \in 0 .. Len(srv')
          BY <2>2
        <4> QED
          BY <2>1, <4>1
      <3>2. srv' \in Seq(Listener) /\ Len(srv') <= MaxServers
        BY <2>2 DEF IInv, TypeOK
      <3> QED
        BY <2>1, <3>1, <3>2, Zenon DEF IInv, TypeOK
    <2>4. \A q \in Protos, l \in Keys :
             list'[q][l] = IF <<q, l>> \in Addresses THEN 0 ELSE list[q][l]
      BY <2>1 DEF Addresses
    <2>5. OpenIsListed' /\ ListedHasSocket'
      <3>1. \A i \in 1 .. Len(srv) :
               /\ srv'[i].proto = srv[i].proto /\ srv'[i].key = srv[i].key
               /\ \/ srv'[i].st = srv[i].st
                  \/ srv[i].st = "closed" /\ srv'[i].st = "over"
                  \/ \E a \in Addresses : list[a[1]][a[2]] = i
        BY <2>2
      <3>2. \A a \in Addresses, i \in 1 .. Len(srv) :
               list[a[1]][a[2]] = i => srv'[i].st # "open"
        BY <2>2
      <3>3. Addresses \in SUBSET Addresses
        OBVIOUS
      <3> QED
        BY <2>1, <2>2, <2>4, <3>1, <3>2, <3>3, Unlist, Zenon
    <2> QED
      BY <2>3, <2>5 DEF IInv
  <1>9. CASE CloseTms \/ UNCHANGED vars
    BY <1>9 DEF CloseTms, vars, IInv, TypeOK, OpenIsListed, ListedHasSocket
  <1> QED
    BY <1>2, <1>3, <1>4, <1>5, <1>6, <1>7, <1>8, <1>9 DEF Next, Worker

\* IInv is an invariant.
LEMMA Invariance == Spec => []IInv
  <1>1. Init => IInv
    BY InitIInv
  <1>2. IInv /\ [Next]_vars => IInv'
    BY NextIInv
  <1> QED
    BY <1>1, <1>2, PTL DEF Spec

\* The lists, the listeners and the tasks of work thread 0 are well typed.
THEOREM TypeCorrect == Spec => []TypeOK
  <1>1. IInv => TypeOK
    BY DEF IInv
  <1> QED
    BY <1>1, Invariance, PTL

\* An open listener is in the list under its address, where it can be closed,
\* but for a UDP address that was started twice.
THEOREM OpenIsListedHolds == Spec => []OpenIsListed
  <1>1. IInv => OpenIsListed
    BY DEF IInv
  <1> QED
    BY <1>1, Invariance, PTL

\* An entry of tcp_service_list_ or udp_service_list_ stands for a listener of
\* that protocol and address that has its socket.
THEOREM ListedHasSocketHolds == Spec => []ListedHasSocket
  <1>1. IInv => ListedHasSocket
    BY DEF IInv
  <1> QED
    BY <1>1, Invariance, PTL
----------------------------------------------------------------------------
\* A TCP listener that has its socket is in the list, deaf or not: a new one
\* on its address takes its place, and the acceptor goes with the entry.
TcpIsListed ==
    \A i \in DOMAIN srv :
        srv[i].proto = "tcp" /\ srv[i].st \in {"open", "deaf"}
            => list["tcp"][srv[i].key] = i

\* A step that adds no listener and gives none its socket back keeps the TCP
\* listeners in the list, if it closes what it erases.
LEMMA KeepsTcpListed ==
    ASSUME TypeOK, TcpIsListed, DOMAIN srv' = DOMAIN srv,
           \A j \in DOMAIN srv :
              /\ srv'[j].proto = srv[j].proto /\ srv'[j].key = srv[j].key
              /\ srv'[j].st \in {"open", "deaf"} => srv[j].st \in {"open", "deaf"},
           \A j \in DOMAIN srv, k \in Keys :
              srv'[j].st \in {"open", "deaf"} /\ list["tcp"][k] = j => list'["tcp"][k] = j
    PROVE  TcpIsListed'
  <1> SUFFICES ASSUME NEW i \in DOMAIN srv, srv'[i].proto = "tcp",
                      srv'[i].st \in {"open", "deaf"}
               PROVE  list'["tcp"][srv'[i].key] = i
    BY DEF TcpIsListed
  <1>1. srv[i] \in Listener
    BY DEF TypeOK
  <1>2. srv[i].key \in Keys
    BY <1>1 DEF Listener
  <1>3. list["tcp"][srv[i].key] = i
    BY DEF TcpIsListed
  <1> QED
    BY <1>2, <1>3

\* Work thread 0 starts a listener: the one it replaces loses its acceptor.
LEMMA RunStartTcpListed == IInv /\ TcpIsListed /\ RunStart => TcpIsListed'
  <1> SUFFICES ASSUME IInv, TcpIsListed, RunStart PROVE TcpIsListed'
    OBVIOUS
  <1> DEFINE p == Head(tasks).proto
             k == Head(tasks).key
             s == CloseThem(srv, Owned(p, k))
             n == Len(srv) + 1
  <1>1. /\ tasks # <<>>
        /\ list' = [list EXCEPT ![p][k] = n]
        /\ \E st \in {"open", "over"} :
              srv' = Append(s, [proto |-> p, key |-> k, st |-> st])
    BY DEF RunStart
  <1>2. Head(tasks) \in Tasks
    BY <1>1, HeadTasks DEF IInv
  <1>3. p \in Protos /\ k \in Keys
    BY <1>2 DEF Tasks
  <1>4. /\ srv \in Seq(Listener) /\ Len(srv) \in Nat /\ DOMAIN srv = 1 .. Len(srv)
        /\ list \in [Protos -> [Keys -> 0 .. Len(srv)]]
    BY DEF IInv, TypeOK
  <1>5. /\ s \in Seq(Listener) /\ Len(s) = Len(srv)
        /\ \A i \in 1 .. Len(srv) :
              /\ s[i].proto = srv[i].proto /\ s[i].key = srv[i].key
              /\ i \notin Owned(p, k) => s[i] = srv[i]
              /\ i \in Owned(p, k) => s[i].st \in {"closed", "over"}
    BY <1>4, CloseThemKeeps
  <1> HIDE DEF p, k, s
  <1>6. PICK st \in {"open", "over"} : srv' = Append(s, [proto |-> p, key |-> k, st |-> st])
    BY <1>1
  <1>7. /\ DOMAIN srv' = 1 .. n
        /\ srv'[n].proto = p /\ srv'[n].key = k
        /\ \A i \in 1 .. Len(srv) : srv'[i] = s[i]
    <2> DEFINE new == [proto |-> p, key |-> k, st |-> st]
    <2>1. new \in Listener /\ new.proto = p /\ new.key = k
      BY <1>3 DEF Listener
    <2>2. srv' = Append(s, new)
      BY <1>6
    <2> HIDE DEF new
    <2> QED
      BY <1>4, <1>5, <2>1, <2>2
  <1>8. /\ list'[p][k] = n
        /\ \A q \in Protos, l \in Keys : <<q, l>> # <<p, k>> => list'[q][l] = list[q][l]
    BY <1>1, <1>3, <1>4
  <1>9. ASSUME NEW i \in 1 .. Len(srv), srv'[i].proto = "tcp",
               srv'[i].st \in {"open", "deaf"}
        PROVE  list'["tcp"][srv'[i].key] = i
    <2>1. srv'[i] = srv[i] /\ i \notin Owned(p, k)
      BY <1>5, <1>7, <1>9
    <2>2. srv[i] \in Listener
      BY <1>4
    <2>3. srv[i].key \in Keys /\ "tcp" \in Protos
      BY <2>2 DEF Listener, Protos
    <2>4. list["tcp"][srv[i].key] = i
      BY <1>4, <1>9, <2>1 DEF TcpIsListed
    <2>5. <<"tcp", srv[i].key>> # <<p, k>>
      BY <2>1, <2>4 DEF Owned
    <2> QED
      BY <1>8, <2>1, <2>3, <2>4, <2>5
  <1>10. \A i \in 1 .. n : i \in 1 .. Len(srv) \/ i = n
    BY <1>4
  <1> QED
    BY <1>7, <1>8, <1>9, <1>10 DEF TcpIsListed

\* Every step keeps the TCP listeners in the list.
LEMMA NextTcpListed == IInv /\ TcpIsListed /\ [Next]_vars => TcpIsListed'
  <1> SUFFICES ASSUME IInv, TcpIsListed, [Next]_vars PROVE TcpIsListed'
    OBVIOUS
  <1>1. /\ TypeOK /\ srv \in Seq(Listener) /\ Len(srv) \in Nat
        /\ DOMAIN srv = 1 .. Len(srv)
        /\ list \in [Protos -> [Keys -> 0 .. Len(srv)]]
    BY DEF IInv, TypeOK
  <1>2. \A i \in DOMAIN srv : srv[i] \in Listener
    BY <1>1
  <1> DEFINE Put(i, st) == [srv EXCEPT ![i].st = st]
  <1>3. ASSUME NEW i \in DOMAIN srv, NEW st \in {"deaf", "over"}
        PROVE  /\ Put(i, st) \in Seq(Listener) /\ DOMAIN Put(i, st) = DOMAIN srv
               /\ Len(Put(i, st)) = Len(srv)
               /\ \A j \in DOMAIN srv :
                     /\ Put(i, st)[j].proto = srv[j].proto /\ Put(i, st)[j].key = srv[j].key
                     /\ j # i => Put(i, st)[j] = srv[j]
                     /\ j = i => Put(i, st)[j].st = st
    <2>1. /\ [srv[i] EXCEPT !.st = st] \in Listener
          /\ [srv[i] EXCEPT !.st = st].proto = srv[i].proto
          /\ [srv[i] EXCEPT !.st = st].key = srv[i].key
          /\ [srv[i] EXCEPT !.st = st].st = st
      BY <1>2 DEF Listener
    <2> QED
      BY <1>1, <2>1
  <1> HIDE DEF Put
  <1>4. CASE RunStart
    BY <1>4, RunStartTcpListed
  <1>5. CASE RunClose
    <2> DEFINE p == Head(tasks).proto
               k == Head(tasks).key
    <2>1. /\ tasks # <<>> /\ srv' = CloseThem(srv, {list[p][k]})
          /\ list' = [list EXCEPT ![p][k] = 0]
      BY <1>5 DEF RunClose
    <2>2. Head(tasks) \in Tasks
      BY <1>1, <2>1, HeadTasks
    <2>3. p \in Protos /\ k \in Keys
      BY <2>2 DEF Tasks
    <2> HIDE DEF p, k
    <2>4. /\ srv' \in Seq(Listener) /\ Len(srv') = Len(srv)
          /\ \A i \in 1 .. Len(srv) :
                /\ srv'[i].proto = srv[i].proto /\ srv'[i].key = srv[i].key
                /\ i # list[p][k] => srv'[i] = srv[i]
                /\ i = list[p][k] => srv'[i].st \in {"closed", "over"}
      BY <1>1, <2>1, CloseThemKeeps
    <2>5. \A q \in Protos, l \in Keys : <<q, l>> # <<p, k>> => list'[q][l] = list[q][l]
      BY <1>1, <2>1, <2>3
    <2>6. DOMAIN srv' = DOMAIN srv
      BY <1>1, <2>4
    <2>7. "tcp" \in Protos
      BY DEF Protos
    <2>8. ASSUME NEW j \in DOMAIN srv, NEW l \in Keys, srv'[j].st \in {"open", "deaf"},
                 list["tcp"][l] = j
          PROVE  list'["tcp"][l] = j
      <3>1. <<"tcp", l>> # <<p, k>>
        BY <1>1, <2>4, <2>8
      <3> QED
        BY <2>5, <2>7, <2>8, <3>1
    <2> QED
      BY <1>1, <2>4, <2>6, <2>8, KeepsTcpListed
  <1>6. ASSUME NEW i \in DOMAIN srv, GoesDeaf(i) PROVE TcpIsListed'
    <2>1. srv' = Put(i, "deaf") /\ srv[i].st = "open" /\ list' = list
      BY <1>6 DEF GoesDeaf, Put
    <2> QED
      BY <1>1, <1>3, <2>1, KeepsTcpListed
  <1>7. ASSUME NEW i \in DOMAIN srv, AcceptFails(i) PROVE TcpIsListed'
    <2>1. /\ srv' = Put(i, "over") /\ srv[i].proto = "tcp" /\ srv[i].st = "open"
          /\ list' = [list EXCEPT !["tcp"][srv[i].key] = 0]
      BY <1>7 DEF AcceptFails, Put
    <2>2. list["tcp"][srv[i].key] = i
      BY <2>1 DEF TcpIsListed
    <2>3. \A l \in Keys : l # srv[i].key => list'["tcp"][l] = list["tcp"][l]
      BY <1>1, <2>1 DEF Protos
    <2> QED
      BY <1>1, <1>3, <2>1, <2>2, <2>3, KeepsTcpListed
  <1>8. ASSUME NEW i \in DOMAIN srv, Aborted(i) PROVE TcpIsListed'
    <2> DEFINE k == srv[i].key
    <2>1. /\ srv[i].st = "closed"
          /\ \/ srv' = Put(i, "over") /\ list' = list
             \/ /\ srv' = CloseThem(Put(i, "over"), {list["tcp"][k]})
                /\ list' = [list EXCEPT !["tcp"][k] = 0]
      BY <1>8 DEF Aborted, Put
    <2> HIDE DEF k
    <2>2. CASE srv' = Put(i, "over") /\ list' = list
      BY <1>1, <1>3, <2>2, KeepsTcpListed
    <2>3. CASE /\ srv' = CloseThem(Put(i, "over"), {list["tcp"][k]})
               /\ list' = [list EXCEPT !["tcp"][k] = 0]
      <3>1. /\ Put(i, "over") \in Seq(Listener) /\ Len(Put(i, "over")) = Len(srv)
            /\ \A j \in 1 .. Len(srv) :
                  /\ Put(i, "over")[j].proto = srv[j].proto
                  /\ Put(i, "over")[j].key = srv[j].key
                  /\ Put(i, "over")[j] = srv[j] \/ Put(i, "over")[j].st = "over"
        BY <1>1, <1>3
      <3>2. /\ srv' \in Seq(Listener) /\ Len(srv') = Len(srv)
            /\ \A j \in 1 .. Len(srv) :
                  /\ srv'[j].proto = Put(i, "over")[j].proto
                  /\ srv'[j].key = Put(i, "over")[j].key
                  /\ j # list["tcp"][k] => srv'[j] = Put(i, "over")[j]
                  /\ j = list["tcp"][k] => srv'[j].st \in {"closed", "over"}
        BY <2>3, <3>1, CloseThemKeeps
      <3>3. \A l \in Keys : l # k => list'["tcp"][l] = list["tcp"][l]
        BY <1>1, <2>3 DEF Protos
      <3>4. DOMAIN srv' = DOMAIN srv
        BY <1>1, <3>2
      <3>5. \A j \in 1 .. Len(srv) :
               /\ srv'[j].proto = srv[j].proto /\ srv'[j].key = srv[j].key
               /\ srv'[j].st \in {"open", "deaf"} => srv[j].st \in {"open", "deaf"}
        BY <3>1, <3>2
      <3>6. \A j \in 1 .. Len(srv), l \in Keys :
               srv'[j].st \in {"open", "deaf"} /\ list["tcp"][l] = j => list'["tcp"][l] = j
        BY <3>2, <3>3
      <3> QED
        BY <1>1, <3>4, <3>5, <3>6, KeepsTcpListed
    <2> QED
      BY <2>1, <2>2, <2>3
  <1>9. CASE CloseAll
    <2> DEFINE S == {list[a[1]][a[2]] : a \in Addresses}
    <2>1. srv' = CloseThem(srv, S)
      BY <1>9 DEF CloseAll
    <2>2. \A l \in Keys : list["tcp"][l] \in S
      <3> TAKE l \in Keys
      <3> DEFINE a == <<"tcp", l>>
      <3>1. a \in Addresses /\ a[1] = "tcp" /\ a[2] = l
        BY DEF Addresses, Protos
      <3> HIDE DEF a
      <3>2. list[a[1]][a[2]] \in S
        BY <3>1
      <3> QED
        BY <3>1, <3>2
    <2> HIDE DEF S
    <2>3. /\ srv' \in Seq(Listener) /\ Len(srv') = Len(srv)
          /\ \A i \in 1 .. Len(srv) :
                /\ srv'[i].proto = srv[i].proto /\ srv'[i].key = srv[i].key
                /\ i \notin S => srv'[i] = srv[i]
                /\ i \in S => srv'[i].st \in {"closed", "over"}
      BY <1>1, <2>1, CloseThemKeeps
    <2>4. DOMAIN srv' = DOMAIN srv
      BY <1>1, <2>3
    <2> QED
      BY <1>1, <2>2, <2>3, <2>4, KeepsTcpListed
  <1>10. CASE UNCHANGED <<list, srv>>
    BY <1>10 DEF TcpIsListed
  <1>11. \/ RunStart \/ RunClose \/ CloseAll \/ UNCHANGED <<list, srv>>
         \/ \E i \in DOMAIN srv : GoesDeaf(i) \/ AcceptFails(i) \/ Aborted(i)
    BY Zenon DEF Next, Worker, StartSingle, CloseSingle, CloseTms, vars
  <1> QED
    BY <1>4, <1>5, <1>6, <1>7, <1>8, <1>9, <1>10, <1>11

\* A step that ends the process is the start of a TCP address that is listed,
\* or the handler of a CTcpServer that was closed.
LEMMA NextCrashCause ==
    IInv /\ TcpIsListed /\ [Next]_vars =>
        [crashed' # crashed =>
           \/ \E k \in Keys : <<"tcp", k>> \in doubled'
           \/ \E i \in DOMAIN srv : srv[i].proto = "tcp" /\ srv[i].st = "closed"]_vars
  <1> SUFFICES ASSUME IInv, TcpIsListed, Next, crashed' # crashed
               PROVE  \/ \E k \in Keys : <<"tcp", k>> \in doubled'
                      \/ \E i \in DOMAIN srv : srv[i].proto = "tcp" /\ srv[i].st = "closed"
    BY DEF vars
  <1>1. CASE RunStart
    <2> DEFINE p == Head(tasks).proto
               k == Head(tasks).key
    <2>1. tasks # <<>> /\ Head(tasks) \in Tasks
      BY <1>1, HeadTasks DEF IInv, RunStart
    <2>2. p \in Protos /\ k \in Keys
      BY <2>1 DEF Tasks
    <2>3. \E i \in DOMAIN srv : /\ srv[i].proto = p /\ srv[i].key = k
                                /\ srv[i].st \in {"open", "deaf"} /\ p # "udp"
      <3> DEFINE bound == \A i \in DOMAIN srv :
                             /\ srv[i].proto = p /\ srv[i].key = k
                             /\ srv[i].st \in {"open", "deaf"}
                             => p = "udp"
      <3>1. ~crashed /\ crashed' = ~bound
        BY <1>1 DEF RunStart
      <3>2. crashed \in BOOLEAN
        BY DEF IInv, TypeOK
      <3>3. ~bound
        <4> HIDE DEF bound
        <4>1. bound \in BOOLEAN
          BY DEF bound
        <4> QED
          BY <3>1, <3>2, <4>1, Zenon
      <3> QED
        BY <3>3
    <2>4. doubled' = IF list[p][k] = 0 THEN doubled ELSE doubled \cup {<<p, k>>}
      BY <1>1 DEF RunStart
    <2> HIDE DEF p, k
    <2>5. PICK i \in DOMAIN srv : /\ srv[i].proto = p /\ srv[i].key = k
                                  /\ srv[i].st \in {"open", "deaf"} /\ p # "udp"
      BY <2>3
    <2>6. p = "tcp" /\ list[p][k] = i
      BY <2>2, <2>5 DEF Protos, TcpIsListed
    <2>7. i # 0
      BY <2>5 DEF IInv, TypeOK
    <2> QED
      BY <2>2, <2>4, <2>6, <2>7
  <1>2. ASSUME NEW i \in DOMAIN srv, Aborted(i)
        PROVE  srv[i].proto = "tcp" /\ srv[i].st = "closed"
    BY <1>2 DEF Aborted
  <1>3. RunStart \/ \E i \in DOMAIN srv : Aborted(i)
    BY Zenon DEF Next, Worker, StartSingle, CloseSingle, RunClose, GoesDeaf, AcceptFails,
           CloseAll, CloseTms
  <1> QED
    BY <1>1, <1>2, <1>3

\* The process ends only after a TCP address was started while it was listed,
\* or in the handler of a CTcpServer that was closed.
THEOREM CrashCauseHolds == Spec => CrashCause
  <1>1. Init => TcpIsListed
    BY DEF Init, TcpIsListed
  <1>2. IInv /\ TcpIsListed /\ [Next]_vars => TcpIsListed'
    BY NextTcpListed
  <1>3. IInv /\ TcpIsListed /\ [Next]_vars =>
          [crashed' # crashed =>
             \/ \E k \in Keys : <<"tcp", k>> \in doubled'
             \/ \E i \in DOMAIN srv : srv[i].proto = "tcp" /\ srv[i].st = "closed"]_vars
    BY NextCrashCause
  <1> QED
    BY <1>1, <1>2, <1>3, Invariance, PTL DEF Spec, CrashCause
=============================================================================
