-------------------------- MODULE TcpSessionProofs --------------------------
(***************************************************************************)
(* The safety properties of TcpSession, proved for every set of            *)
(* surroundings and every value of the bounds.                             *)
(*                                                                         *)
(* One inductive invariant carries all of them.  The units of do_write add *)
(* up after every step, so a close() is known from what it found taken; a  *)
(* close of the socket waits in io_context_, or has happened, only when    *)
(* everything owed was sent or a write failed; and until the plugin hears  *)
(* CONNECT, that task is the first of the work thread, behind which every  *)
(* close waits.                                                            *)
(***************************************************************************)
EXTENDS TcpSession, FiniteSetTheorems, TLAPS

\* A leaf that names no prover is left to the SMT solver.
USE SMTT(20)

----------------------------------------------------------------------------
(* Counting in the queues. *)

\* The number of occurrences is a natural number, 0 in an empty queue.
LEMMA CountType ==
    ASSUME NEW S, NEW q \in Seq(S), NEW x
    PROVE  /\ IsFiniteSet({i \in DOMAIN q : q[i] = x})
           /\ Count(q, x) \in Nat
           /\ q = <<>> => Count(q, x) = 0
<1> DEFINE P == {i \in DOMAIN q : q[i] = x}
<1>1. DOMAIN q = 1 .. Len(q) /\ Len(q) \in Nat
    OBVIOUS
<1>2. IsFiniteSet(1 .. Len(q))
    BY <1>1, FS_Interval
<1>3. P \in SUBSET (1 .. Len(q))
    BY <1>1
<1>4. IsFiniteSet(P)
    BY <1>2, <1>3, FS_Subset
<1>5. Cardinality(P) \in Nat
    BY <1>4, FS_CardinalityType
<1>6. q = <<>> => P = {}
    BY <1>1
<1> QED  BY <1>4, <1>5, <1>6, FS_EmptySet DEF Count

\* Append adds one occurrence of what it appends.
LEMMA CountAppend ==
    ASSUME NEW S, NEW q \in Seq(S), NEW e \in S, NEW x
    PROVE  Count(Append(q, e), x) = Count(q, x) + (IF e = x THEN 1 ELSE 0)
<1> DEFINE r == Append(q, e)
           P == {i \in DOMAIN q : q[i] = x}
           R == {i \in DOMAIN r : r[i] = x}
<1>1. /\ r \in Seq(S) /\ Len(r) = Len(q) + 1
      /\ \A i \in 1 .. Len(q) : r[i] = q[i]
      /\ r[Len(q) + 1] = e
    OBVIOUS
<1>2. DOMAIN q = 1 .. Len(q) /\ Len(q) \in Nat
    OBVIOUS
<1>3. DOMAIN r = 1 .. Len(q) + 1
    BY <1>1
<1>4. IsFiniteSet(P) /\ Cardinality(P) \in Nat
    BY CountType, FS_CardinalityType, Zenon
<1>5. Count(q, x) = Cardinality(P) /\ Count(r, x) = Cardinality(R)
    BY DEF Count
<1> HIDE DEF r
<1>6. ASSUME e = x  PROVE Count(r, x) = Count(q, x) + 1
  <2>1. R = P \cup {Len(q) + 1} /\ Len(q) + 1 \notin P
      BY <1>1, <1>2, <1>3, <1>6
  <2>2. Cardinality(R) = Cardinality(P) + 1
      BY <2>1, <1>4, FS_AddElement, Zenon
  <2> HIDE DEF P, R
  <2> QED  BY <2>2, <1>5
<1>7. ASSUME e # x  PROVE Count(r, x) = Count(q, x) + 0
  <2>1. R = P
      BY <1>1, <1>2, <1>3, <1>7
  <2> HIDE DEF P, R
  <2> QED  BY <2>1, <1>4, <1>5
<1> QED  BY <1>6, <1>7 DEF r

\* Tail takes one occurrence of what it removes.
LEMMA CountTail ==
    ASSUME NEW S, NEW q \in Seq(S), q # <<>>, NEW x
    PROVE  Count(q, x) = Count(Tail(q), x) + (IF Head(q) = x THEN 1 ELSE 0)
<1> DEFINE r == Tail(q)
           P == {i \in DOMAIN q : q[i] = x}
           R == {i \in DOMAIN r : r[i] = x}
           T == {i \in P : i # 1}
           f == [i \in R |-> i + 1]
<1>1. /\ r \in Seq(S) /\ Len(r) = Len(q) - 1
      /\ \A i \in 1 .. Len(r) : r[i] = q[i + 1]
    OBVIOUS
<1>2. DOMAIN q = 1 .. Len(q) /\ Len(q) \in Nat /\ DOMAIN r = 1 .. Len(r) /\ Len(r) \in Nat
    BY <1>1
<1>3. Len(q) > 0 /\ Head(q) = q[1]
    BY <1>2
<1>4. IsFiniteSet(P) /\ IsFiniteSet(R)
    BY <1>1, CountType, Zenon
<1>5. Count(q, x) = Cardinality(P) /\ Count(r, x) = Cardinality(R)
    BY DEF Count
<1> HIDE DEF r
<1>6. f \in Bijection(R, T)
  <2>1. \A i \in R : i \in Nat /\ i + 1 \in T
      BY <1>1, <1>2
  <2>2. \A j \in T : j - 1 \in R /\ f[j - 1] = j
      BY <1>1, <1>2
  <2>3. f \in [R -> T] /\ \A a, b \in R : f[a] = f[b] => a = b
      BY <2>1
  <2> HIDE DEF f, R, T
  <2>4. \A j \in T : \E i \in R : f[i] = j
      BY <2>2
  <2> QED  BY <2>3, <2>4 DEF Bijection, Injection, Surjection, IsInjective
<1>7. IsFiniteSet(T) /\ Cardinality(T) = Cardinality(R)
  <2> HIDE DEF f, R, T
  <2> QED  BY <1>4, <1>6, FS_Bijection DEF ExistsBijection
<1>8. Cardinality(R) \in Nat
    BY <1>4, FS_CardinalityType
<1>9. ASSUME Head(q) = x  PROVE Count(q, x) = Count(r, x) + 1
  <2>1. P = T \cup {1} /\ 1 \notin T
      BY <1>2, <1>3, <1>9
  <2>2. Cardinality(P) = Cardinality(T) + 1
      BY <2>1, <1>7, FS_AddElement, Zenon
  <2> HIDE DEF P, R, T
  <2> QED  BY <2>2, <1>7, <1>5
<1>10. ASSUME Head(q) # x  PROVE Count(q, x) = Count(r, x) + 0
  <2>1. P = T
      BY <1>2, <1>3, <1>10
  <2> HIDE DEF P, R, T
  <2> QED  BY <2>1, <1>7, <1>8, <1>5
<1> QED  BY <1>9, <1>10 DEF r

\* What Append does to a queue.
LEMMA Appended ==
    ASSUME NEW S, NEW q \in Seq(S), NEW e \in S
    PROVE  /\ Append(q, e) \in Seq(S) /\ Append(q, e) # <<>>
           /\ q # <<>> => Head(Append(q, e)) = Head(q)
           /\ q = <<>> => Head(Append(q, e)) = e
           /\ \A x : /\ Count(q, x) \in Nat
                    /\ Count(Append(q, e), x) = Count(q, x) + (IF e = x THEN 1 ELSE 0)
<1>1. Append(q, e) \in Seq(S) /\ Append(q, e) # <<>>
  <2>1. Append(q, e) \in Seq(S) /\ Len(Append(q, e)) = Len(q) + 1 /\ Len(q) \in Nat
      OBVIOUS
  <2>2. Len(Append(q, e)) # 0
      BY <2>1
  <2> QED  BY <2>1, <2>2
<1>2. \A x : /\ Count(q, x) \in Nat
             /\ Count(Append(q, e), x) = Count(q, x) + (IF e = x THEN 1 ELSE 0)
  <2> TAKE x
  <2>1. Count(q, x) \in Nat
      BY CountType, Zenon
  <2>2. Count(Append(q, e), x) = Count(q, x) + (IF e = x THEN 1 ELSE 0)
      BY CountAppend
  <2> QED  BY <2>1, <2>2
<1>3. /\ q # <<>> => Head(Append(q, e)) = Head(q)
      /\ q = <<>> => Head(Append(q, e)) = e
    OBVIOUS
<1> QED  BY <1>1, <1>2, <1>3

\* What Tail does to a queue.
LEMMA Removed ==
    ASSUME NEW S, NEW q \in Seq(S), q # <<>>
    PROVE  /\ Head(q) \in S /\ Tail(q) \in Seq(S)
           /\ \A x : /\ Count(q, x) \in Nat /\ Count(Tail(q), x) \in Nat
                    /\ Count(q, x) = Count(Tail(q), x) + (IF Head(q) = x THEN 1 ELSE 0)
<1>1. Head(q) \in S /\ Tail(q) \in Seq(S)
    OBVIOUS
<1> QED  BY <1>1, CountType, CountTail, Zenon

\* Replacing the first handler by another one, as the first half of a close does.
LEMMA Replaced ==
    ASSUME NEW S, NEW q \in Seq(S), q # <<>>, NEW e \in S
    PROVE  /\ <<e>> \o Tail(q) \in Seq(S)
           /\ \A x : /\ Count(Tail(q), x) \in Nat
                    /\ Count(<<e>> \o Tail(q), x)
                         = Count(Tail(q), x) + (IF e = x THEN 1 ELSE 0)
<1> DEFINE r == <<e>> \o Tail(q)
<1>1. Tail(q) \in Seq(S) /\ <<e>> \in Seq(S) /\ Len(<<e>>) = 1 /\ <<e>>[1] = e
    OBVIOUS
<1>2. /\ r \in Seq(S) /\ Len(r) = 1 + Len(Tail(q))
      /\ \A i \in 1 .. 1 + Len(Tail(q)) :
            r[i] = IF i <= 1 THEN <<e>>[i] ELSE Tail(q)[i - 1]
    BY <1>1
<1>3. Len(Tail(q)) \in Nat
    BY <1>1
<1>4. r # <<>> /\ Head(r) = e
    BY <1>1, <1>2, <1>3
<1>5. Tail(r) = Tail(q)
  <2> HIDE DEF r
  <2>1. /\ Tail(r) \in Seq(S) /\ Len(Tail(r)) = Len(Tail(q))
        /\ \A i \in 1 .. Len(Tail(r)) : Tail(r)[i] = r[i + 1]
      BY <1>2, <1>3, <1>4
  <2>2. \A i \in 1 .. Len(Tail(q)) : Tail(r)[i] = Tail(q)[i]
      BY <1>2, <1>3, <2>1
  <2> QED  BY <1>1, <2>1, <2>2
<1> HIDE DEF r
<1>6. \A x : /\ Count(Tail(r), x) \in Nat
             /\ Count(r, x) = Count(Tail(r), x) + (IF Head(r) = x THEN 1 ELSE 0)
    BY <1>2, <1>4, Removed
<1>7. \A x : /\ Count(Tail(q), x) \in Nat
             /\ Count(r, x) = Count(Tail(q), x) + (IF e = x THEN 1 ELSE 0)
    BY <1>4, <1>5, <1>6, Zenon
<1>8. r \in Seq(S)
    BY <1>2
<1> QED  BY <1>7, <1>8 DEF r

\* do_read's request to close, when there is one, is the last task.
LEMMA FullClosed ==
    ASSUME NEW q \in Seq(Task), NEW f
    PROVE  q \o FullClose(f) = IF f = Cap THEN Append(q, "close") ELSE q
BY DEF FullClose, Task

----------------------------------------------------------------------------
(* The inductive invariant. *)

Handler == {"write", "close", "shut"}

\* The types, and that a read is only armed while the buffer has room.
Types ==
    /\ setup \in Setups
    /\ socket \in {"accepted", "open", "closed"}
    /\ listed \in BOOLEAN
    /\ reading \in {"none", "armed", "data", "empty", "error"}
    /\ fill \in 0 .. Cap
    /\ reading \in {"armed", "data"} => fill < Cap
    /\ bridge \in {"logic", "peer", "lost"}
    /\ send_buffer_size \in Nat /\ send_data_size \in Nat
    /\ is_active_close \in BOOLEAN /\ flagging \in BOOLEAN
    /\ owed \in Nat
    /\ posted \in Seq(Handler)
    /\ writing \in Nat
    /\ tasks \in Seq(Task)
    /\ heard \subseteq Task \ {"send", "close"} /\ failed \in Nat
    /\ peer \in {"up", "gone"}
    /\ inbound \in Nat /\ inbound <= got /\ got \in 0 .. MaxRecv
    /\ sent \in 0 .. MaxSend /\ asked \in 0 .. MaxClose

\* Nothing has happened to a session before open.
Untouched ==
    socket = "accepted" =>
        /\ tasks = <<>> /\ posted = <<>> /\ heard = {}
        /\ writing = 0 /\ reading = "none"
        /\ ~listed /\ ~flagging /\ ~is_active_close

\* A unit is taken only for an answer, and a close() once called stays known.
Accounts ==
    /\ WritesAccounted
    /\ send_buffer_size + Count(tasks, "send") <= sent
    /\ owed = NotClosed \/ owed <= send_buffer_size
    /\ flagging \/ is_active_close => owed # NotClosed

\* A close of the socket is asked for only when it may happen.
Settled == send_data_size >= owed \/ Failures > 0
Closes ==
    \/ Count(posted, "close") > 0 \/ Count(posted, "shut") > 0
    \/ socket # "accepted" /\ ~listed
    => Settled

\* Until the plugin hears CONNECT, CONNECT is the first task of the work
\* thread, and nothing that would close the session can run.
Ordered == "data" \in Sync => "connect" \in Sync
First ==
    Ordered /\ socket # "accepted" /\ "connect" \notin heard =>
        /\ heard = {} /\ "connect" \notin Sync
        /\ tasks # <<>> /\ Head(tasks) = "connect"
        /\ ~flagging /\ ~is_active_close
        /\ Count(posted, "close") = 0 /\ Count(posted, "shut") = 0

IInv ==
    /\ Types /\ Untouched /\ Accounts /\ Closes /\ First
    /\ DisconnectedIsUnlisted

\* The invariant holds of a session that was just accepted.
LEMMA InitHolds == Init => IInv
<1> SUFFICES ASSUME Init PROVE IInv
    OBVIOUS
<1>0. <<>> \in Seq({})
    OBVIOUS
<1>1. \A x : Count(<<>>, x) = 0
    BY <1>0, CountType, Zenon
<1>2. Types
  <2>1. posted \in Seq(Handler) /\ tasks \in Seq(Task)
      BY DEF Init
  <2>2. owed \in Nat /\ fill \in 0 .. Cap /\ got \in 0 .. MaxRecv
        /\ sent \in 0 .. MaxSend /\ asked \in 0 .. MaxClose /\ inbound <= got
      BY ConstantsFit DEF Init, NotClosed
  <2> QED  BY <2>1, <2>2, Zenon DEF Init, Types
<1>3. Untouched /\ First /\ DisconnectedIsUnlisted
    BY <1>1 DEF Init, Untouched, First, DisconnectedIsUnlisted
<1>4. Accounts /\ Closes
    BY <1>1, ConstantsFit DEF Init, Accounts, Closes, WritesAccounted, Failures
<1> QED  BY <1>2, <1>3, <1>4 DEF IInv

\* The occurrences in the queues are natural numbers.
LEMMA Counted ==
    ASSUME Types
    PROVE  \A x : Count(tasks, x) \in Nat /\ Count(posted, x) \in Nat
<1>1. tasks \in Seq(Task) /\ posted \in Seq(Handler)
    BY DEF Types
<1> QED  BY <1>1, CountType, Zenon

\* The invariant gives the type invariant and the four safety properties.
LEMMA Implied ==
    IInv => /\ TypeOK /\ WritesAccounted /\ GracefulClose
            /\ ConnectFirst /\ DisconnectedIsUnlisted
<1> SUFFICES ASSUME IInv
             PROVE  /\ TypeOK /\ WritesAccounted /\ GracefulClose
                    /\ ConnectFirst /\ DisconnectedIsUnlisted
    OBVIOUS
<1> USE DEF IInv
<1>1. WritesAccounted /\ DisconnectedIsUnlisted
    BY DEF Accounts
<1>2. GracefulClose
    BY DEF Closes, Settled, GracefulClose
<1>3. ConnectFirst
    BY DEF Untouched, First, Ordered, ConnectFirst
<1>4. \A x : Count(tasks, x) \in Nat /\ Count(posted, x) \in Nat
    BY Counted
<1>5. /\ send_buffer_size \in 0 .. MaxSend /\ send_data_size \in 0 .. MaxSend
      /\ owed \in 0 .. NotClosed /\ writing \in 0 .. MaxSend /\ failed \in 0 .. MaxSend
  <2>1. /\ Count(tasks, "fail") \in Nat /\ Count(tasks, "send") \in Nat
        /\ Count(posted, "write") \in Nat
      BY <1>4
  <2>2. /\ send_buffer_size \in Nat /\ send_data_size \in Nat /\ owed \in Nat
        /\ writing \in Nat /\ failed \in Nat
        /\ sent \in Nat /\ sent <= MaxSend /\ MaxSend \in Nat
      BY ConstantsFit DEF Types
  <2>3. /\ send_buffer_size = send_data_size + writing + Count(posted, "write")
                               + (failed + Count(tasks, "fail"))
        /\ send_buffer_size + Count(tasks, "send") <= sent
        /\ owed = MaxSend + 1 \/ owed <= send_buffer_size
      BY DEF Accounts, WritesAccounted, Failures, NotClosed
  <2>4. send_buffer_size <= MaxSend
      BY <2>1, <2>2, <2>3
  <2>5. /\ send_data_size <= send_buffer_size /\ writing <= send_buffer_size
        /\ failed <= send_buffer_size
      BY <2>1, <2>2, <2>3
  <2>6. owed <= MaxSend + 1
      BY <2>2, <2>3, <2>4
  <2> QED  BY <2>2, <2>4, <2>5, <2>6 DEF NotClosed
<1>6. inbound \in 0 .. MaxRecv
    BY ConstantsFit DEF Types
<1>7. TypeOK
    BY <1>5, <1>6 DEF Types, TypeOK, Handler
<1> QED  BY <1>1, <1>2, <1>3, <1>7

----------------------------------------------------------------------------
(* Steps that leave the sending side alone. *)

\* The queue r is q with tasks behind it that do not matter to the invariant.
Extends(r, q) ==
    /\ r \in Seq(Task)
    /\ q # <<>> => r # <<>> /\ Head(r) = Head(q)
    /\ \A x \in {"fail", "send", "disconnect"} : Count(r, x) = Count(q, x)

\* Extending a queue by one such task.
LEMMA ExtendsAppend ==
    ASSUME NEW q \in Seq(Task), NEW r, Extends(r, q),
           NEW e \in {"connect", "data", "close"}
    PROVE  Extends(Append(r, e), q)
<1>1. e \in Task /\ r \in Seq(Task)
    BY DEF Extends, Task
<1>2. /\ Append(r, e) \in Seq(Task) /\ Append(r, e) # <<>>
      /\ r # <<>> => Head(Append(r, e)) = Head(r)
      /\ \A x : Count(r, x) \in Nat
      /\ \A x : Count(Append(r, e), x) = Count(r, x) + (IF e = x THEN 1 ELSE 0)
    BY <1>1, Appended
<1>3. \A x \in {"fail", "send", "disconnect"} : Count(Append(r, e), x) = Count(r, x)
    BY <1>2
<1> QED  BY <1>2, <1>3 DEF Extends

\* Extending a queue by do_read's request to close.
LEMMA ExtendsFull ==
    ASSUME NEW q \in Seq(Task), NEW r, Extends(r, q), NEW f
    PROVE  Extends(r \o FullClose(f), q)
<1>1. r \in Seq(Task)
    BY DEF Extends
<1>2. r \o FullClose(f) = IF f = Cap THEN Append(r, "close") ELSE r
    BY <1>1, FullClosed
<1>3. Extends(Append(r, "close"), q)
    BY ExtendsAppend
<1> QED  BY <1>2, <1>3

\* A step that only extends the work thread's queue keeps the invariant.
LEMMA QuietKeeps ==
    ASSUME IInv, Types', Extends(tasks', tasks),
           UNCHANGED <<setup, sockVars, sendVars, send_data_size, closeVars,
                       toldVars>>,
           sent' >= sent,
           socket # "accepted" \/ UNCHANGED <<tasks, reading>>
    PROVE  IInv'
<1> USE DEF IInv, sockVars, sendVars, closeVars, toldVars
<1>1. \A x \in {"fail", "send", "disconnect"} : Count(tasks', x) = Count(tasks, x)
    BY DEF Extends
<1>2. Untouched'
    BY DEF Untouched
<1>3. Accounts' /\ Closes'
  <2>1. \A x : Count(tasks, x) \in Nat
      BY Counted
  <2>2. /\ Count(tasks', "fail") = Count(tasks, "fail")
        /\ Count(tasks', "send") = Count(tasks, "send")
      BY <1>1
  <2>3. /\ Count(tasks, "send") \in Nat /\ send_buffer_size \in Nat
        /\ sent \in Nat /\ sent' \in Nat /\ sent' >= sent
      BY <2>1, ConstantsFit DEF Types
  <2>4. (send_buffer_size + Count(tasks, "send") <= sent)'
    <3>1. send_buffer_size + Count(tasks, "send") <= sent
        BY DEF Accounts
    <3>2. send_buffer_size + Count(tasks, "send") <= sent'
        BY <2>3, <3>1
    <3> QED  BY <2>2, <3>2
  <2>5. WritesAccounted'
      BY <2>2 DEF Accounts, WritesAccounted, Failures
  <2>6. Accounts'
      BY <2>4, <2>5 DEF Accounts, NotClosed
  <2>7. Closes'
      BY <2>2 DEF Closes, Settled, Failures
  <2> QED  BY <2>6, <2>7
<1>4. First'
    BY DEF First, Ordered, Sync, Extends
<1>5. DisconnectedIsUnlisted'
    BY <1>1 DEF DisconnectedIsUnlisted
<1> QED  BY <1>2, <1>3, <1>4, <1>5

\* Every queue extends itself.
LEMMA ExtendsSelf ==
    ASSUME NEW q \in Seq(Task)
    PROVE  Extends(q, q)
BY DEF Extends

\* The steps of the peer and of set_io_bridge_connect_id.
LEMMA PeerKeeps ==
    ASSUME IInv, PeerSend \/ PeerLeave \/ SetBridge
    PROVE  IInv'
<1> USE DEF sockVars, recvVars, sendVars, closeVars, toldVars, peerVars
<1>1. Types
    BY DEF IInv
<1>2. Extends(tasks, tasks)
    BY <1>1, ExtendsSelf DEF Types
<1>3. CASE PeerSend
  <2>1. Types'
      BY <1>1, <1>3, ConstantsFit DEF Types, PeerSend
  <2> QED  BY <2>1, <1>1, <1>2, <1>3, QuietKeeps DEF PeerSend, Types
<1>4. CASE PeerLeave
  <2>1. Types'
      BY <1>1, <1>4, Zenon DEF Types, PeerLeave
  <2> QED  BY <2>1, <1>1, <1>2, <1>4, QuietKeeps DEF PeerLeave, Types
<1>5. CASE SetBridge
  <2>1. Types'
      BY <1>1, <1>5 DEF Types, SetBridge
  <2> QED  BY <2>1, <1>1, <1>2, <1>5, QuietKeeps DEF SetBridge, Types
<1> QED  BY <1>3, <1>4, <1>5

\* A close asked for by a plugin, by a timeout or by a read error.
LEMMA AskCloseKeeps ==
    ASSUME IInv, AskClose \/ ReadError
    PROVE  IInv'
<1> USE DEF sockVars, recvVars, sendVars, closeVars, toldVars, peerVars
<1>1. Types /\ Untouched
    BY DEF IInv
<1>2. tasks' = Append(tasks, "close")
    BY DEF AskClose, ReadError
<1>3. Extends(tasks', tasks)
    BY <1>1, <1>2, ExtendsSelf, ExtendsAppend DEF Types
<1>4. tasks' \in Seq(Task)
    BY <1>3 DEF Extends
<1>5. Types'
  <2>1. CASE AskClose
      BY <1>1, <1>4, <2>1, ConstantsFit DEF Types, AskClose
  <2>2. CASE ReadError
      BY <1>1, <1>4, <2>2 DEF Types, ReadError
  <2> QED  BY <2>1, <2>2, Zenon
<1>6. socket # "accepted"
    BY <1>1 DEF Untouched, AskClose, ReadError
<1>7. UNCHANGED <<setup, sockVars, sendVars, send_data_size, closeVars, toldVars, sent>>
    BY DEF AskClose, ReadError
<1>8. sent' >= sent
    BY <1>1, <1>7, ConstantsFit DEF Types
<1> QED  BY <1>3, <1>5, <1>6, <1>7, <1>8, QuietKeeps

\* The reactor's step.
LEMMA ReadReadyKeeps ==
    ASSUME IInv, ReadReady
    PROVE  IInv'
<1> USE DEF sockVars, recvVars, sendVars, closeVars, toldVars, peerVars, ReadReady
<1>1. Types /\ Untouched
    BY DEF IInv
<1>2. Extends(tasks', tasks)
    BY <1>1, ExtendsSelf DEF Types
<1>3. Types'
    BY <1>1 DEF Types
<1> QED  BY <1>1, <1>2, <1>3, QuietKeeps DEF Types, Untouched

\* The next read is armed only when the buffer has room.
LEMMA DoReadTypes ==
    ASSUME NEW f \in 0 .. Cap, DoRead(f)
    PROVE  /\ fill' \in 0 .. Cap
           /\ reading' \in {"none", "armed", "data", "empty", "error"}
           /\ reading' \in {"armed", "data"} => fill' < Cap
BY ConstantsFit DEF DoRead

\* A read in state SESSION_IO_BRIDGE.
LEMMA ReadBridgedKeeps ==
    ASSUME IInv, ReadBridged
    PROVE  IInv'
<1> USE DEF sockVars, recvVars, sendVars, closeVars, toldVars, peerVars
<1>1. Types /\ Untouched
    BY DEF IInv
<1>2. Extends(tasks', tasks)
  <2>1. Extends(tasks, tasks) /\ Extends(Append(tasks, "data"), tasks)
      BY <1>1, ExtendsSelf, ExtendsAppend DEF Types
  <2>2. tasks' = tasks \o FullClose(fill) \/ tasks' = Append(tasks, "data") \o FullClose(fill)
      BY Zenon DEF ReadBridged
  <2>3. tasks \in Seq(Task)
      BY <1>1 DEF Types
  <2>4. /\ Extends(tasks \o FullClose(fill), tasks)
        /\ Extends(Append(tasks, "data") \o FullClose(fill), tasks)
      BY <2>1, <2>3, ExtendsFull
  <2> QED  BY <2>2, <2>4, Zenon
<1>3. Types'
  <2>1. /\ fill' \in 0 .. Cap
        /\ reading' \in {"none", "armed", "data", "empty", "error"}
        /\ reading' \in {"armed", "data"} => fill' < Cap
      BY <1>1, DoReadTypes DEF Types, ReadBridged
  <2>2. tasks' \in Seq(Task)
      BY <1>2 DEF Extends
  <2> QED  BY <1>1, <2>1, <2>2 DEF Types, ReadBridged
<1>4. socket # "accepted"
    BY <1>1, Zenon DEF Untouched, ReadBridged
<1> QED  BY <1>1, <1>2, <1>3, <1>4, QuietKeeps DEF ReadBridged, Types

----------------------------------------------------------------------------
(* Steps that write. *)

\* do_write adds one unit to those on their way or failed, and nothing else that
\* matters to the invariant.
LEMMA DoWriteEffect ==
    ASSUME Types, NEW q \in Seq(Task), NEW inline \in BOOLEAN, DoWrite(inline, q)
    PROVE  /\ send_buffer_size' = send_buffer_size + 1
           /\ tasks' \in Seq(Task) /\ posted' \in Seq(Handler) /\ writing' \in Nat
           /\ q # <<>> => tasks' # <<>> /\ Head(tasks') = Head(q)
           /\ ~is_active_close => tasks' = q
           /\ \A x : Count(tasks', x) \in Nat /\ Count(q, x) \in Nat
           /\ writing' + Count(posted', "write") + Count(tasks', "fail")
                = writing + Count(posted, "write") + Count(q, "fail") + 1
           /\ Count(tasks', "fail") >= Count(q, "fail")
           /\ \A x \in {"send", "disconnect"} : Count(tasks', x) = Count(q, x)
           /\ \A x \in {"close", "shut"} : Count(posted', x) = Count(posted, x)
<1>1. "fail" \in Task /\ "write" \in Handler
    BY DEF Task, Handler
<1>2. /\ Append(q, "fail") \in Seq(Task) /\ Append(q, "fail") # <<>>
      /\ q # <<>> => Head(Append(q, "fail")) = Head(q)
      /\ \A x : /\ Count(q, x) \in Nat
               /\ Count(Append(q, "fail"), x) = Count(q, x) + (IF "fail" = x THEN 1 ELSE 0)
    BY <1>1, Appended
<1>3. posted \in Seq(Handler)
    BY DEF Types
<1>4. /\ Append(posted, "write") \in Seq(Handler)
      /\ \A x : /\ Count(posted, x) \in Nat
               /\ Count(Append(posted, "write"), x)
                    = Count(posted, x) + (IF "write" = x THEN 1 ELSE 0)
    BY <1>1, <1>3, Appended
<1>5. writing \in Nat /\ send_buffer_size' = send_buffer_size + 1
    BY DEF Types, DoWrite
<1>6. CASE is_active_close
  <2>1. tasks' = Append(q, "fail") /\ posted' = posted /\ writing' = writing
      BY <1>6 DEF DoWrite
  <2>2. /\ Count(tasks', "fail") = Count(q, "fail") + 1
        /\ \A x \in {"send", "disconnect"} : Count(tasks', x) = Count(q, x)
        /\ \A x : Count(tasks', x) \in Nat
      BY <1>2, <2>1
  <2>3. /\ Count(q, "fail") \in Nat /\ Count(posted, "write") \in Nat
      BY <1>2, <1>4
  <2>4. writing' + Count(posted', "write") + Count(tasks', "fail")
          = writing + Count(posted, "write") + Count(q, "fail") + 1
      BY <1>5, <2>1, <2>2, <2>3
  <2>5. /\ tasks' \in Seq(Task) /\ posted' \in Seq(Handler) /\ writing' \in Nat
        /\ q # <<>> => tasks' # <<>> /\ Head(tasks') = Head(q)
      BY <1>2, <1>3, <1>5, <2>1
  <2>6. Count(tasks', "fail") >= Count(q, "fail")
      BY <2>2, <2>3
  <2>7. \A x : Count(q, x) \in Nat
      BY <1>2
  <2>8. \A x \in {"close", "shut"} : Count(posted', x) = Count(posted, x)
      BY <2>1
  <2> QED  BY <1>5, <1>6, <2>2, <2>4, <2>5, <2>6, <2>7, <2>8, Zenon
<1>7. CASE ~is_active_close /\ inline
  <2>1. tasks' = q /\ posted' = posted /\ writing' = writing + 1
      BY <1>7 DEF DoWrite
  <2> QED  BY <1>2, <1>3, <1>4, <1>5, <2>1
<1>8. CASE ~is_active_close /\ ~inline
  <2>1. tasks' = q /\ posted' = Append(posted, "write") /\ writing' = writing
      BY <1>8 DEF DoWrite
  <2>2. /\ Count(posted', "write") = Count(posted, "write") + 1
        /\ \A x \in {"close", "shut"} : Count(posted', x) = Count(posted, x)
      BY <1>4, <2>1
  <2>3. /\ Count(q, "fail") \in Nat /\ Count(posted, "write") \in Nat
      BY <1>2, <1>4
  <2>4. writing' + Count(posted', "write") + Count(tasks', "fail")
          = writing + Count(posted, "write") + Count(q, "fail") + 1
      BY <1>5, <2>1, <2>2, <2>3
  <2> QED  BY <1>2, <1>4, <1>5, <2>1, <2>2, <2>3, <2>4
<1> QED  BY <1>6, <1>7, <1>8

\* A step of an open session that writes on behalf of a plugin, or of a bridge,
\* without touching the queue before it, keeps the invariant.
LEMMA WriteKeeps ==
    ASSUME IInv, Types', NEW inline \in BOOLEAN, DoWrite(inline, tasks),
           UNCHANGED <<setup, sockVars, send_data_size, closeVars, failed>>,
           socket # "accepted", sent' = sent + 1,
           heard' = heard \/ (heard' = heard \cup {"data"} /\ "data" \in Sync)
    PROVE  IInv'
<1> USE DEF IInv, sockVars, closeVars
<1>1. tasks \in Seq(Task)
    BY DEF Types
<1>2. /\ send_buffer_size' = send_buffer_size + 1
      /\ tasks # <<>> => tasks' # <<>> /\ Head(tasks') = Head(tasks)
      /\ \A x : Count(tasks', x) \in Nat /\ Count(tasks, x) \in Nat
      /\ writing' + Count(posted', "write") + Count(tasks', "fail")
           = writing + Count(posted, "write") + Count(tasks, "fail") + 1
      /\ Count(tasks', "fail") >= Count(tasks, "fail")
      /\ \A x \in {"send", "disconnect"} : Count(tasks', x) = Count(tasks, x)
      /\ \A x \in {"close", "shut"} : Count(posted', x) = Count(posted, x)
    BY <1>1, DoWriteEffect
<1>3. \A x : Count(posted, x) \in Nat /\ Count(posted', x) \in Nat
    BY CountType, Zenon DEF Types
<1>4. Untouched'
    BY Zenon DEF Untouched
<1>5. Accounts'
  <2>1. /\ send_buffer_size \in Nat /\ send_data_size \in Nat /\ failed \in Nat
        /\ sent \in Nat /\ writing \in Nat /\ writing' \in Nat
        /\ send_data_size' = send_data_size /\ failed' = failed
      BY ConstantsFit DEF Types
  <2>2. /\ Count(tasks, "fail") \in Nat /\ Count(tasks', "fail") \in Nat
        /\ Count(posted, "write") \in Nat /\ Count(posted', "write") \in Nat
        /\ Count(tasks, "send") \in Nat /\ Count(tasks', "send") = Count(tasks, "send")
      BY <1>2, <1>3
  <2>3. send_buffer_size = send_data_size + writing + Count(posted, "write")
                             + (failed + Count(tasks, "fail"))
      BY DEF Accounts, WritesAccounted, Failures
  <2>4. /\ send_buffer_size' = send_buffer_size + 1
        /\ writing' + Count(posted', "write") + Count(tasks', "fail")
             = writing + Count(posted, "write") + Count(tasks, "fail") + 1
      BY <1>2
  <2>5. send_buffer_size + Count(tasks, "send") <= sent
      BY DEF Accounts
  <2>6. WritesAccounted'
      BY <2>4, <2>1, <2>2, <2>3 DEF WritesAccounted, Failures
  <2>7. (send_buffer_size + Count(tasks, "send") <= sent)'
      BY <2>4, <2>5, <2>1, <2>2
  <2> QED  BY <1>2, <2>6, <2>7, ConstantsFit DEF Accounts, NotClosed, Types
<1>6. Closes'
    BY <1>2, ConstantsFit DEF Closes, Settled, Failures, Types
<1>7. First'
    BY <1>2, Zenon DEF First, Ordered, Sync
<1>8. DisconnectedIsUnlisted'
    BY <1>2 DEF DisconnectedIsUnlisted
<1> QED  BY <1>4, <1>5, <1>6, <1>7, <1>8, Zenon

\* send_io_bridge_message.
LEMMA BridgeWriteKeeps ==
    ASSUME IInv, BridgeWrite
    PROVE  IInv'
<1> USE DEF sockVars, recvVars, sendVars, closeVars, toldVars, peerVars
<1>1. Types /\ Untouched
    BY DEF IInv
<1>2. PICK inline \in BOOLEAN : DoWrite(inline, tasks)
    BY DEF BridgeWrite
<1>3. socket # "accepted" /\ sent' = sent + 1 /\ sent < MaxSend
    BY <1>1, Zenon DEF Untouched, BridgeWrite, Answer
<1>4. /\ send_buffer_size' = send_buffer_size + 1
      /\ tasks' \in Seq(Task) /\ posted' \in Seq(Handler) /\ writing' \in Nat
    BY <1>1, <1>2, DoWriteEffect, Zenon DEF Types
<1>5. Types'
    BY <1>1, <1>3, <1>4, ConstantsFit DEF Types, BridgeWrite
<1>6. UNCHANGED <<setup, sockVars, send_data_size, closeVars, failed, heard>>
    BY DEF BridgeWrite
<1> QED  BY <1>2, <1>3, <1>5, <1>6, WriteKeeps

\* A read in state SESSION_IO_LOGIC.
LEMMA ReadSomeKeeps ==
    ASSUME IInv, ReadSome
    PROVE  IInv'
<1> USE DEF sockVars, recvVars, sendVars, closeVars, toldVars, peerVars
<1>1. Types /\ Untouched
    BY DEF IInv
<1>2. socket # "accepted" /\ tasks \in Seq(Task)
    BY <1>1 DEF Untouched, ReadSome, Types
<1> DEFINE now == IF reading = "data" THEN fill + 1 ELSE fill
<1>3. now \in 0 .. Cap /\ (reading = "data" => now - 1 <= Cap)
    BY <1>1, ConstantsFit DEF Types
<1>4. /\ UNCHANGED <<setup, sockVars, bridge, send_data_size, closeVars, failed,
                      peerVars, asked>>
      /\ reading \in {"data", "empty"}
      /\ \/ /\ DoRead(now)
            /\ tasks' = Append(tasks, "close") \o FullClose(now)
            /\ UNCHANGED <<heard, sendVars, sent>>
         \/ /\ DoRead(now)
            /\ tasks' = tasks \o FullClose(now)
            /\ UNCHANGED <<heard, sendVars, sent>>
         \/ /\ reading = "data"
            /\ \E f \in 0 .. now - 1 : DoRead(f)
            /\ \/ Tell("data", tasks) /\ UNCHANGED <<sendVars, sent>>
               \/ /\ "data" \in Sync
                  /\ heard' = heard \cup {"data"}
                  /\ Answer /\ DoWrite(SameContext, tasks)
    BY Zenon DEF ReadSome
<1>5. \E f \in 0 .. Cap : DoRead(f)
    BY <1>3, <1>4, ConstantsFit
<1> HIDE DEF now
<1>6. /\ fill' \in 0 .. Cap
      /\ reading' \in {"none", "armed", "data", "empty", "error"}
      /\ reading' \in {"armed", "data"} => fill' < Cap
    BY <1>5, DoReadTypes
<1>7. ASSUME Extends(tasks', tasks), UNCHANGED <<heard, sendVars, sent>>
      PROVE  IInv'
  <2>1. Types'
      BY <1>1, <1>4, <1>6, <1>7, Zenon DEF Types, Extends
  <2>2. sent' >= sent
      BY <1>1, <1>7 DEF Types
  <2> QED  BY <1>2, <1>4, <1>7, <2>1, <2>2, QuietKeeps, Zenon
<1>8. Extends(tasks, tasks) /\ Extends(Append(tasks, "close"), tasks)
      /\ Extends(Append(tasks, "data"), tasks)
    BY <1>2, ExtendsSelf, ExtendsAppend, Zenon
<1>9. CASE /\ tasks' = Append(tasks, "close") \o FullClose(now)
           /\ UNCHANGED <<heard, sendVars, sent>>
    BY <1>2, <1>7, <1>8, <1>9, ExtendsFull, Zenon
<1>10. CASE tasks' = tasks \o FullClose(now) /\ UNCHANGED <<heard, sendVars, sent>>
    BY <1>2, <1>7, <1>8, <1>10, ExtendsFull
<1>11. CASE Tell("data", tasks) /\ "data" \notin Sync /\ UNCHANGED <<sendVars, sent>>
    BY <1>7, <1>8, <1>11, Zenon DEF Tell
<1>12. CASE Tell("data", tasks) /\ "data" \in Sync /\ UNCHANGED <<sendVars, sent>>
  <2>1. heard' = heard \cup {"data"} /\ tasks' = tasks
      BY <1>12, Zenon DEF Tell
  <2>2. Types'
      BY <1>1, <1>4, <1>6, <1>12, <2>1, Zenon DEF Types, Task
  <2>3. Untouched'
      BY <1>2, <1>4, Zenon DEF Untouched
  <2>4. Accounts' /\ Closes'
      BY <1>4, <1>12, <2>1, Zenon
      DEF IInv, Accounts, Closes, WritesAccounted, Failures, Settled, NotClosed
  <2>5. First'
      BY <1>4, <1>12, <2>1, Zenon DEF IInv, First, Ordered, Sync
  <2>6. DisconnectedIsUnlisted'
      BY <1>4, <2>1, Zenon DEF IInv, DisconnectedIsUnlisted
  <2> QED  BY <2>2, <2>3, <2>4, <2>5, <2>6, Zenon DEF IInv
<1>13. CASE /\ "data" \in Sync
            /\ heard' = heard \cup {"data"}
            /\ Answer /\ DoWrite(SameContext, tasks)
  <2>1. SameContext \in BOOLEAN
      BY <1>1, ConstantsFit DEF SameContext, Types
  <2>2. /\ send_buffer_size' = send_buffer_size + 1
        /\ tasks' \in Seq(Task) /\ posted' \in Seq(Handler) /\ writing' \in Nat
      BY <1>1, <1>2, <1>13, <2>1, DoWriteEffect
  <2>3. sent' = sent + 1 /\ sent < MaxSend
      BY <1>13, Zenon DEF Answer
  <2>4. Types'
      BY <1>1, <1>4, <1>6, <1>13, <2>2, <2>3, ConstantsFit DEF Types, Task
  <2> QED  BY <1>2, <1>4, <1>13, <2>1, <2>3, <2>4, WriteKeeps, Zenon
<1> QED  BY <1>4, <1>9, <1>10, <1>11, <1>12, <1>13, Zenon

----------------------------------------------------------------------------
(* Steps that take a task or a handler from its queue, or move units. *)

\* The counters, and the occurrences in the queues, are natural numbers.
LEMMA Numbers ==
    ASSUME Types
    PROVE  /\ sent \in Nat /\ send_buffer_size \in Nat /\ send_data_size \in Nat
           /\ writing \in Nat /\ failed \in Nat /\ owed \in Nat
           /\ \A x : Count(tasks, x) \in Nat /\ Count(posted, x) \in Nat
<1>1. \A x : Count(tasks, x) \in Nat /\ Count(posted, x) \in Nat
    BY Counted
<1>2. /\ sent \in Nat /\ send_buffer_size \in Nat /\ send_data_size \in Nat
      /\ writing \in Nat /\ failed \in Nat /\ owed \in Nat
    BY ConstantsFit DEF Types
<1> QED  BY <1>1, <1>2

\* When the units add up again, no close() was called, and no unit is taken
\* that was not asked for, the accounts are kept.
LEMMA AccountsKept ==
    ASSUME Types, Types', Accounts,
           send_buffer_size' - send_buffer_size
             = (send_data_size' + writing' + Count(posted', "write")
                  + failed' + Count(tasks', "fail"))
               - (send_data_size + writing + Count(posted, "write")
                    + failed + Count(tasks, "fail")),
           send_buffer_size' + Count(tasks', "send") - (send_buffer_size + Count(tasks, "send"))
             <= sent' - sent,
           send_buffer_size' >= send_buffer_size,
           owed' = owed,
           flagging' \/ is_active_close' => flagging \/ is_active_close
    PROVE  Accounts'
<1>1. /\ Count(tasks, "fail") \in Nat /\ Count(tasks', "fail") \in Nat
      /\ Count(posted, "write") \in Nat /\ Count(posted', "write") \in Nat
      /\ Count(tasks, "send") \in Nat /\ Count(tasks', "send") \in Nat
    BY CountType, Zenon DEF Types
<1>2. /\ send_buffer_size \in Nat /\ send_data_size \in Nat /\ failed \in Nat
      /\ writing \in Nat /\ sent \in Nat /\ owed \in Nat
      /\ send_buffer_size' \in Nat /\ send_data_size' \in Nat /\ failed' \in Nat
      /\ writing' \in Nat /\ sent' \in Nat
    BY ConstantsFit DEF Types
<1>3. /\ send_buffer_size = send_data_size + writing + Count(posted, "write")
                             + (failed + Count(tasks, "fail"))
      /\ send_buffer_size + Count(tasks, "send") <= sent
    BY DEF Accounts, WritesAccounted, Failures
<1>4. WritesAccounted'
    BY <1>1, <1>2, <1>3 DEF WritesAccounted, Failures
<1>5. (send_buffer_size + Count(tasks, "send") <= sent)'
    BY <1>1, <1>2, <1>3
<1>6. (owed = NotClosed \/ owed <= send_buffer_size)'
    BY <1>2, ConstantsFit DEF Accounts, NotClosed
<1>7. (flagging \/ is_active_close => owed # NotClosed)'
    BY DEF Accounts, NotClosed
<1> QED  BY <1>4, <1>5, <1>6, <1>7 DEF Accounts

\* What may happen to a session stays so: units sent and failures do not vanish.
LEMMA SettledKept ==
    ASSUME Types, Types', Settled, owed' = owed,
           send_data_size' >= send_data_size,
           failed' + Count(tasks', "fail") >= failed + Count(tasks, "fail")
    PROVE  Settled'
<1>1. Count(tasks, "fail") \in Nat /\ Count(tasks', "fail") \in Nat
    BY CountType, Zenon DEF Types
<1>2. /\ send_data_size \in Nat /\ failed \in Nat /\ owed \in Nat
      /\ send_data_size' \in Nat /\ failed' \in Nat
    BY DEF Types
<1> QED  BY <1>1, <1>2 DEF Settled, Failures

\* send_io_message of a plugin.
LEMMA AskSendKeeps ==
    ASSUME IInv, AskSend
    PROVE  IInv'
<1> USE DEF sockVars, recvVars, sendVars, closeVars, toldVars, peerVars
<1>1. Types /\ "send" \in Task /\ tasks \in Seq(Task)
    BY DEF IInv, Types, Task
<1>2. tasks' = Append(tasks, "send") /\ sent' = sent + 1 /\ sent < MaxSend
    BY DEF AskSend, Answer
<1>3. /\ tasks' \in Seq(Task) /\ tasks' # <<>>
      /\ tasks # <<>> => Head(tasks') = Head(tasks)
      /\ \A x : /\ Count(tasks, x) \in Nat
               /\ Count(tasks', x) = Count(tasks, x) + (IF "send" = x THEN 1 ELSE 0)
    BY <1>1, <1>2, Appended
<1>4. /\ Count(tasks', "fail") = Count(tasks, "fail")
      /\ Count(tasks', "disconnect") = Count(tasks, "disconnect")
      /\ Count(tasks', "send") = Count(tasks, "send") + 1
      /\ Count(tasks, "fail") \in Nat /\ Count(tasks, "send") \in Nat
    BY <1>3
<1>5. Types'
    BY <1>1, <1>2, <1>3, ConstantsFit DEF Types, AskSend
<1>6. Untouched' /\ First'
    BY <1>3 DEF IInv, Untouched, First, Ordered, Sync, AskSend
<1>7. Accounts' /\ Closes'
  <2>1. /\ sent \in Nat /\ send_buffer_size \in Nat /\ send_data_size \in Nat
        /\ writing \in Nat /\ failed \in Nat /\ Count(posted, "write") \in Nat
      BY <1>1, Numbers
  <2>2. Accounts'
      BY <1>1, <1>2, <1>4, <1>5, <2>1, AccountsKept DEF IInv, AskSend
  <2>3. Settled => Settled'
      BY <1>1, <1>4, <1>5, <2>1, SettledKept DEF AskSend
  <2> QED  BY <2>2, <2>3 DEF IInv, Closes, AskSend
<1>8. DisconnectedIsUnlisted'
    BY <1>4 DEF IInv, DisconnectedIsUnlisted, AskSend
<1> QED  BY <1>5, <1>6, <1>7, <1>8, Zenon DEF IInv

\* A dispatched write starts.
LEMMA RunWriteKeeps ==
    ASSUME IInv, RunWrite
    PROVE  IInv'
<1> USE DEF sockVars, recvVars, sendVars, closeVars, toldVars, peerVars
<1>1. Types /\ posted \in Seq(Handler)
    BY DEF IInv, Types
<1>2. /\ posted # <<>> /\ Head(posted) = "write"
      /\ posted' = Tail(posted) /\ writing' = writing + 1
    BY DEF RunWrite
<1>3. /\ posted' \in Seq(Handler)
      /\ \A x : /\ Count(posted, x) \in Nat /\ Count(posted', x) \in Nat
               /\ Count(posted, x) = Count(posted', x) + (IF "write" = x THEN 1 ELSE 0)
    BY <1>1, <1>2, Removed
<1>4. /\ Count(posted, "write") = Count(posted', "write") + 1
      /\ Count(posted', "write") \in Nat
      /\ Count(posted', "close") = Count(posted, "close")
      /\ Count(posted', "shut") = Count(posted, "shut")
    BY <1>3
<1>5. Types'
  <2>1. posted' \in Seq(Handler)
      BY <1>3
  <2>2. writing' \in Nat
      BY <1>1, <1>2 DEF Types
  <2> QED  BY <1>1, <2>1, <2>2 DEF Types, RunWrite
<1>6. Untouched' /\ First'
    BY <1>2, <1>4 DEF IInv, Untouched, First, Ordered, Sync, RunWrite
<1>7. Accounts' /\ Closes'
  <2>1. /\ sent \in Nat /\ send_buffer_size \in Nat /\ send_data_size \in Nat
        /\ writing \in Nat /\ failed \in Nat
        /\ Count(tasks, "fail") \in Nat /\ Count(tasks, "send") \in Nat
      BY <1>1, Numbers
  <2>2. Accounts'
    <3>1. UNCHANGED <<tasks, send_buffer_size, send_data_size, failed, sent, closeVars>>
        BY DEF RunWrite
    <3>2. send_buffer_size' - send_buffer_size
            = (send_data_size' + writing' + Count(posted', "write")
                 + failed' + Count(tasks', "fail"))
              - (send_data_size + writing + Count(posted, "write")
                   + failed + Count(tasks, "fail"))
      <4>1. send_buffer_size - send_buffer_size
              = (send_data_size + (writing + 1) + Count(posted', "write")
                   + failed + Count(tasks, "fail"))
                - (send_data_size + writing + (Count(posted', "write") + 1)
                     + failed + Count(tasks, "fail"))
          BY <1>4, <2>1
      <4> QED  BY <1>2, <1>4, <3>1, <4>1
    <3>3. send_buffer_size' + Count(tasks', "send")
            - (send_buffer_size + Count(tasks, "send")) <= sent' - sent
        BY <2>1, <3>1
    <3>4. send_buffer_size' >= send_buffer_size
        BY <2>1, <3>1
    <3> QED  BY <1>1, <1>5, <3>1, <3>2, <3>3, <3>4, AccountsKept, Zenon DEF IInv
  <2>3. Settled => Settled'
    <3>1. UNCHANGED <<tasks, send_data_size, failed, owed>>
        BY DEF RunWrite
    <3>2. send_data_size' >= send_data_size
          /\ failed' + Count(tasks', "fail") >= failed + Count(tasks, "fail")
        BY <2>1, <3>1
    <3> QED  BY <1>1, <1>5, <3>1, <3>2, SettledKept
  <2> QED  BY <1>4, <2>2, <2>3 DEF IInv, Closes, RunWrite
<1>8. DisconnectedIsUnlisted'
    BY DEF IInv, DisconnectedIsUnlisted, RunWrite
<1> QED  BY <1>5, <1>6, <1>7, <1>8 DEF IInv

\* The handler of close_immediaterly, whole or in its two halves.
LEMMA RunCloseKeeps ==
    ASSUME IInv, RunClose
    PROVE  IInv'
<1> USE DEF sockVars, recvVars, sendVars, closeVars, toldVars, peerVars
<1>1. Types /\ posted \in Seq(Handler) /\ tasks \in Seq(Task)
    BY DEF IInv, Types
<1>2. posted # <<>> /\ Head(posted) \in {"close", "shut"}
    BY DEF RunClose
<1>3. /\ Tail(posted) \in Seq(Handler)
      /\ \A x : /\ Count(posted, x) \in Nat /\ Count(Tail(posted), x) \in Nat
               /\ Count(posted, x)
                    = Count(Tail(posted), x) + (IF Head(posted) = x THEN 1 ELSE 0)
    BY <1>1, <1>2, Removed
<1>4. /\ Count(posted, "close") > 0 \/ Count(posted, "shut") > 0
      /\ Count(Tail(posted), "write") = Count(posted, "write")
    BY <1>2, <1>3
<1>5. Settled /\ socket # "accepted" /\ (Ordered => "connect" \in heard)
  <2>1. Settled
      BY <1>4 DEF IInv, Closes
  <2>2. socket # "accepted"
      BY <1>2 DEF IInv, Untouched
  <2>3. Ordered => "connect" \in heard
      BY <1>3, <1>4, <2>2 DEF IInv, First
  <2> QED  BY <2>1, <2>2, <2>3
<1>6. posted' \in Seq(Handler) /\ Count(posted', "write") = Count(posted, "write")
  <2>1. CASE posted' = Tail(posted)
      BY <1>3, <1>4, <2>1
  <2>2. CASE posted' = <<"shut">> \o Tail(posted)
    <3>1. "shut" \in Handler
        BY DEF Handler
    <3>2. /\ posted' \in Seq(Handler)
          /\ \A x : Count(posted', x) = Count(Tail(posted), x) + (IF "shut" = x THEN 1 ELSE 0)
        BY <1>1, <1>2, <2>2, <3>1, Replaced
    <3> QED  BY <1>3, <1>4, <3>2
  <2> QED  BY <2>1, <2>2 DEF RunClose
<1>7. /\ tasks' \in Seq(Task)
      /\ Count(tasks', "fail") = Count(tasks, "fail")
      /\ Count(tasks', "send") = Count(tasks, "send")
      /\ Count(tasks', "disconnect") # Count(tasks, "disconnect") => ~listed'
  <2>1. CASE tasks' = tasks
      BY <1>1, <2>1
  <2>2. CASE tasks' = Append(tasks, "disconnect") /\ listed' = FALSE
    <3>1. "disconnect" \in Task
        BY DEF Task
    <3>2. /\ tasks' \in Seq(Task)
          /\ \A x : /\ Count(tasks, x) \in Nat
                   /\ Count(tasks', x) = Count(tasks, x) + (IF "disconnect" = x THEN 1 ELSE 0)
        BY <1>1, <2>2, <3>1, Appended
    <3> QED  BY <2>2, <3>2
  <2> QED  BY <2>1, <2>2, Zenon DEF RunClose, Disconnect, DeleteThreadSession, Tell
<1>8. /\ socket' \in {socket, "closed"} /\ listed' \in {listed, FALSE}
      /\ heard' = heard \/ (heard' = heard \cup {"disconnect"} /\ listed' = FALSE)
    BY Zenon DEF RunClose, Disconnect, DeleteThreadSession, Tell
<1>9. UNCHANGED <<setup, recvVars, bridge, send_buffer_size, writing,
                  send_data_size, closeVars, failed, peerVars, sent, asked>>
    BY Zenon DEF RunClose
<1>10. Types'
  <2>1. heard' \subseteq Task \ {"send", "close"} /\ listed' \in BOOLEAN
        /\ socket' \in {"accepted", "open", "closed"}
      BY <1>1, <1>8, Zenon DEF Types, Task
  <2> QED  BY <1>1, <1>6, <1>7, <1>9, <2>1 DEF Types
<1>11. Untouched' /\ First'
    BY <1>5, <1>8, <1>9, Zenon DEF Untouched, First, Ordered, Sync
<1>12. Accounts' /\ Closes'
  <2>1. /\ sent \in Nat /\ send_buffer_size \in Nat /\ send_data_size \in Nat
        /\ writing \in Nat /\ failed \in Nat /\ Count(posted, "write") \in Nat
        /\ Count(tasks, "fail") \in Nat /\ Count(tasks, "send") \in Nat
      BY <1>1, Numbers, Zenon
  <2>2. Accounts'
      BY <1>1, <1>6, <1>7, <1>9, <1>10, <2>1, AccountsKept DEF IInv
  <2>3. Settled'
      BY <1>1, <1>5, <1>7, <1>9, <1>10, <2>1, SettledKept
  <2> QED  BY <2>2, <2>3 DEF Closes
<1>13. DisconnectedIsUnlisted'
    BY <1>1, <1>7, <1>8, Zenon DEF IInv, DisconnectedIsUnlisted, Types
<1> QED  BY <1>10, <1>11, <1>12, <1>13 DEF IInv

\* What the work thread finds when it takes a task.
LEMMA TaskTaken ==
    ASSUME IInv, tasks # <<>>
    PROVE  /\ Head(tasks) \in Task /\ Tail(tasks) \in Seq(Task)
           /\ socket # "accepted"
           /\ Ordered /\ Head(tasks) # "connect" => "connect" \in heard
           /\ \A x : /\ Count(tasks, x) \in Nat /\ Count(Tail(tasks), x) \in Nat
                    /\ Count(tasks, x)
                         = Count(Tail(tasks), x) + (IF Head(tasks) = x THEN 1 ELSE 0)
<1>1. tasks \in Seq(Task)
    BY DEF IInv, Types
<1>2. socket # "accepted"
    BY DEF IInv, Untouched
<1>3. Ordered /\ Head(tasks) # "connect" => "connect" \in heard
    BY <1>2 DEF IInv, First
<1> QED  BY <1>1, <1>2, <1>3, Removed

\* The plugin hears CONNECT or DISCONNECT on the work thread.
LEMMA WorkTellKeeps ==
    ASSUME IInv, WorkTell
    PROVE  IInv'
<1> USE DEF sockVars, recvVars, sendVars, closeVars, toldVars, peerVars
<1>1. Types
    BY DEF IInv
<1>2. /\ tasks # <<>> /\ Head(tasks) \in {"connect", "disconnect"}
      /\ tasks' = Tail(tasks) /\ heard' = heard \cup {Head(tasks)}
    BY DEF WorkTell, IsNextTask
<1>3. /\ tasks' \in Seq(Task) /\ socket # "accepted"
      /\ Ordered /\ Head(tasks) # "connect" => "connect" \in heard
      /\ \A x : /\ Count(tasks, x) \in Nat /\ Count(tasks', x) \in Nat
               /\ Count(tasks, x) = Count(tasks', x) + (IF Head(tasks) = x THEN 1 ELSE 0)
    BY <1>2, TaskTaken
<1>4. /\ Count(tasks', "fail") = Count(tasks, "fail")
      /\ Count(tasks', "send") = Count(tasks, "send")
      /\ Head(tasks) = "disconnect" => Count(tasks, "disconnect") > 0
      /\ Count(tasks', "disconnect") > 0 => Count(tasks, "disconnect") > 0
    BY <1>2, <1>3
<1>5. Types'
  <2>1. heard' \subseteq Task \ {"send", "close"}
      BY <1>1, <1>2, Zenon DEF Types, Task
  <2> QED  BY <1>1, <1>3, <2>1 DEF Types, WorkTell
<1>6. Untouched' /\ First'
    BY <1>2, <1>3 DEF Untouched, First, Ordered, Sync, WorkTell
<1>7. Accounts' /\ Closes'
  <2>1. /\ sent \in Nat /\ send_buffer_size \in Nat /\ send_data_size \in Nat
        /\ writing \in Nat /\ failed \in Nat /\ Count(posted, "write") \in Nat
        /\ Count(tasks, "fail") \in Nat /\ Count(tasks, "send") \in Nat
      BY <1>1, Numbers, Zenon
  <2>2. Accounts'
      BY <1>1, <1>4, <1>5, <2>1, AccountsKept DEF IInv, WorkTell
  <2>3. Settled => Settled'
      BY <1>1, <1>4, <1>5, <2>1, SettledKept DEF WorkTell
  <2> QED  BY <2>2, <2>3 DEF IInv, Closes, WorkTell
<1>8. DisconnectedIsUnlisted'
    BY <1>2, <1>4 DEF IInv, DisconnectedIsUnlisted, WorkTell
<1> QED  BY <1>5, <1>6, <1>7, <1>8 DEF IInv

\* close(): the flag is raised on the work thread.
LEMMA WorkFlagKeeps ==
    ASSUME IInv, WorkFlag
    PROVE  IInv'
<1> USE DEF sockVars, recvVars, sendVars, closeVars, toldVars, peerVars
<1>1. Types
    BY DEF IInv
<1>2. Types'
    BY <1>1, Zenon DEF Types, WorkFlag
<1>3. Untouched' /\ First'
    BY DEF IInv, Untouched, First, Ordered, Sync, WorkFlag
<1>4. Accounts'
    BY DEF IInv, Accounts, WritesAccounted, Failures, NotClosed, WorkFlag
<1>5. Closes' /\ DisconnectedIsUnlisted'
    BY DEF IInv, Closes, Settled, Failures, DisconnectedIsUnlisted, WorkFlag
<1> QED  BY <1>2, <1>3, <1>4, <1>5 DEF IInv

\* close(): the sizes are compared, and the close is dispatched or left to the
\* last write.
LEMMA WorkCloseKeeps ==
    ASSUME IInv, WorkClose
    PROVE  IInv'
<1> USE DEF sockVars, recvVars, sendVars, closeVars, toldVars, peerVars
<1>1. Types /\ posted \in Seq(Handler) /\ "close" \in Handler
    BY DEF IInv, Types, Handler
<1>2. tasks # <<>> /\ Head(tasks) = "close" /\ tasks' = Tail(tasks)
    BY DEF WorkClose, IsNextTask
<1>3. /\ tasks' \in Seq(Task) /\ socket # "accepted"
      /\ Ordered => "connect" \in heard
      /\ \A x : /\ Count(tasks, x) \in Nat /\ Count(tasks', x) \in Nat
               /\ Count(tasks, x) = Count(tasks', x) + (IF "close" = x THEN 1 ELSE 0)
    BY <1>2, TaskTaken
<1>4. /\ Count(tasks', "fail") = Count(tasks, "fail")
      /\ Count(tasks', "send") = Count(tasks, "send")
      /\ Count(tasks', "disconnect") = Count(tasks, "disconnect")
    BY <1>3
<1>5. /\ posted' \in Seq(Handler)
      /\ Count(posted', "write") = Count(posted, "write")
      /\ Count(posted', "shut") = Count(posted, "shut")
      /\ Count(posted', "close") # Count(posted, "close") => send_buffer_size = send_data_size
  <2>1. CASE posted' = posted
      BY <1>1, <2>1
  <2>2. CASE posted' = Append(posted, "close") /\ send_buffer_size = send_data_size
    <3>1. /\ posted' \in Seq(Handler)
          /\ \A x : /\ Count(posted, x) \in Nat
                   /\ Count(posted', x) = Count(posted, x) + (IF "close" = x THEN 1 ELSE 0)
        BY <1>1, <2>2, Appended
    <3> QED  BY <2>2, <3>1
  <2> QED  BY <2>1, <2>2 DEF WorkClose
<1>6. /\ sent \in Nat /\ send_buffer_size \in Nat /\ send_data_size \in Nat
      /\ writing \in Nat /\ failed \in Nat /\ owed \in Nat
      /\ Count(posted, "write") \in Nat
      /\ Count(tasks, "fail") \in Nat /\ Count(tasks, "send") \in Nat
    BY <1>1, Numbers
<1>7. /\ send_buffer_size = send_data_size + writing + Count(posted, "write")
                             + (failed + Count(tasks, "fail"))
      /\ send_buffer_size + Count(tasks, "send") <= sent
      /\ owed = NotClosed \/ owed <= send_buffer_size
    BY DEF IInv, Accounts, WritesAccounted, Failures
<1>8. send_buffer_size < NotClosed /\ send_data_size < NotClosed
    BY <1>1, <1>6, <1>7, ConstantsFit DEF Types, NotClosed
<1>9. owed' <= send_buffer_size /\ owed' \in Nat /\ (owed # NotClosed => owed' = owed)
    BY <1>6, <1>7 DEF WorkClose
<1>10. Types'
  <2>1. tasks' \in Seq(Task)
      BY <1>3
  <2>2. flagging' \in BOOLEAN
      BY <1>1, Zenon DEF Types, WorkClose
  <2> QED  BY <1>1, <1>5, <1>9, <2>1, <2>2 DEF Types, WorkClose
<1>11. Untouched' /\ First'
    BY <1>3, Zenon DEF Untouched, First, Ordered, Sync, WorkClose
<1>12. Accounts'
  <2>1. WritesAccounted'
      BY <1>4, <1>5, <1>7 DEF WritesAccounted, Failures, WorkClose
  <2>2. owed' # NotClosed
      BY <1>6, <1>8, <1>9, ConstantsFit DEF NotClosed
  <2> QED  BY <1>4, <1>7, <1>9, <2>1, <2>2, Zenon DEF Accounts, NotClosed, WorkClose
<1>13. Closes'
  <2>1. Settled => Settled'
    <3>1. CASE owed # NotClosed
        BY <1>4, <1>9, <3>1, Zenon DEF Settled, Failures, WorkClose
    <3>2. CASE owed = NotClosed
        BY <1>4, <1>6, <1>8, <3>2, ConstantsFit DEF Settled, Failures, NotClosed, WorkClose
    <3> QED  BY <3>1, <3>2
  <2>2. send_buffer_size = send_data_size => Settled'
      BY <1>6, <1>9, Zenon DEF Settled, WorkClose
  <2> QED  BY <1>5, <2>1, <2>2 DEF IInv, Closes, WorkClose
<1>14. DisconnectedIsUnlisted'
    BY <1>4 DEF IInv, DisconnectedIsUnlisted, WorkClose
<1> QED  BY <1>10, <1>11, <1>12, <1>13, <1>14, Zenon DEF IInv

\* The plugin hears of data or of a failed write and may answer, and a delayed
\* send is handed to the session, on the work thread.
LEMMA WorkWriteKeeps ==
    ASSUME IInv, WorkModule \/ WorkSend
    PROVE  IInv'
<1> USE DEF sockVars, recvVars, sendVars, closeVars, toldVars, peerVars
<1> DEFINE q == Tail(tasks)
           h == Head(tasks)
<1>1. Types
    BY DEF IInv
<1>2. /\ tasks # <<>> /\ h \in {"data", "fail", "send"}
      /\ UNCHANGED <<setup, sockVars, recvVars, bridge, send_data_size, closeVars,
                     peerVars, asked>>
      /\ heard' = heard \/ (heard' = heard \cup {h} /\ h # "send")
      /\ failed' = IF h = "fail" THEN failed + 1 ELSE failed
    BY Zenon DEF WorkModule, WorkSend, IsNextTask
<1>3. \/ NoWrite(q) /\ sent' = sent
      \/ DoWrite(FALSE, q) /\ h = "send" /\ sent' = sent
      \/ DoWrite(FALSE, q) /\ h # "send" /\ sent' = sent + 1 /\ sent < MaxSend
    BY Zenon DEF WorkModule, WorkSend, IsNextTask, Answer
<1>4. /\ q \in Seq(Task) /\ socket # "accepted"
      /\ Ordered => "connect" \in heard
      /\ \A x : /\ Count(tasks, x) \in Nat /\ Count(q, x) \in Nat
               /\ Count(tasks, x) = Count(q, x) + (IF h = x THEN 1 ELSE 0)
    BY <1>2, TaskTaken
<1> HIDE DEF q, h
<1>5. /\ failed' + Count(q, "fail") = failed + Count(tasks, "fail")
      /\ Count(q, "send") = Count(tasks, "send") - (IF h = "send" THEN 1 ELSE 0)
      /\ Count(q, "disconnect") = Count(tasks, "disconnect")
      /\ Count(q, "fail") \in Nat /\ Count(q, "send") \in Nat /\ failed' \in Nat
  <2>1. failed \in Nat
      BY <1>1 DEF Types
  <2>2. /\ Count(tasks, "fail") = Count(q, "fail") + (IF h = "fail" THEN 1 ELSE 0)
        /\ Count(tasks, "send") = Count(q, "send") + (IF h = "send" THEN 1 ELSE 0)
        /\ Count(tasks, "disconnect") = Count(q, "disconnect")
        /\ Count(q, "fail") \in Nat /\ Count(q, "send") \in Nat
    <3>1. h # "disconnect"
        BY <1>2, Zenon
    <3>2. /\ Count(tasks, "fail") = Count(q, "fail") + (IF h = "fail" THEN 1 ELSE 0)
          /\ Count(tasks, "send") = Count(q, "send") + (IF h = "send" THEN 1 ELSE 0)
          /\ Count(tasks, "disconnect")
               = Count(q, "disconnect") + (IF h = "disconnect" THEN 1 ELSE 0)
          /\ Count(q, "fail") \in Nat /\ Count(q, "send") \in Nat
          /\ Count(q, "disconnect") \in Nat
        BY <1>4, Zenon
    <3> QED  BY <3>1, <3>2
  <2>3. failed' = IF h = "fail" THEN failed + 1 ELSE failed
      BY <1>2
  <2>4. /\ Count(q, "send") = Count(tasks, "send") - (IF h = "send" THEN 1 ELSE 0)
        /\ Count(q, "disconnect") = Count(tasks, "disconnect")
      BY <2>2
  <2>5. CASE h = "fail"
    <3>1. failed' = failed + 1 /\ Count(tasks, "fail") = Count(q, "fail") + 1
        BY <2>2, <2>3, <2>5
    <3>2. failed' + Count(q, "fail") = failed + Count(tasks, "fail") /\ failed' \in Nat
        BY <2>1, <2>2, <3>1
    <3> QED  BY <2>2, <2>4, <3>2
  <2>6. CASE h # "fail"
    <3>1. failed' = failed /\ Count(tasks, "fail") = Count(q, "fail")
        BY <2>2, <2>3, <2>6
    <3> QED  BY <2>1, <2>2, <2>4, <3>1
  <2> QED  BY <2>5, <2>6
<1>6. /\ sent \in Nat /\ send_buffer_size \in Nat /\ send_data_size \in Nat
      /\ writing \in Nat /\ failed \in Nat /\ Count(posted, "write") \in Nat
      /\ Count(tasks, "fail") \in Nat /\ Count(tasks, "send") \in Nat
    BY <1>1, Numbers
<1>7. ASSUME NEW n \in {0, 1},
             send_buffer_size' = send_buffer_size + n,
             tasks' \in Seq(Task), posted' \in Seq(Handler), writing' \in Nat,
             Count(tasks', "fail") \in Nat, Count(posted', "write") \in Nat,
             writing' + Count(posted', "write") + Count(tasks', "fail")
               = writing + Count(posted, "write") + Count(q, "fail") + n,
             Count(tasks', "fail") >= Count(q, "fail"),
             Count(tasks', "send") = Count(q, "send"),
             Count(tasks', "disconnect") = Count(q, "disconnect"),
             Count(posted', "close") = Count(posted, "close"),
             Count(posted', "shut") = Count(posted, "shut"),
             sent' \in 0 .. MaxSend, sent' >= sent,
             n = 1 => h = "send" \/ sent' = sent + 1
      PROVE  IInv'
  <2>1. Types'
    <3>1. heard' \subseteq Task \ {"send", "close"}
        BY <1>1, <1>2, Zenon DEF Types, Task
    <3>2. send_buffer_size' \in Nat
      <4>1. send_buffer_size \in Nat /\ send_buffer_size' = send_buffer_size + n
          BY <1>6, <1>7, Zenon
      <4> QED  BY <4>1
    <3>3. /\ tasks' \in Seq(Task) /\ posted' \in Seq(Handler) /\ writing' \in Nat
          /\ sent' \in 0 .. MaxSend /\ failed' \in Nat
        BY <1>5, <1>7, Zenon
    <3> QED  BY <1>1, <1>2, <3>1, <3>2, <3>3 DEF Types
  <2>2. Untouched' /\ First'
      BY <1>2, <1>4, Zenon DEF Untouched, First, Ordered, Sync
  <2>3. Accounts'
    <3>1. send_buffer_size' - send_buffer_size
            = (send_data_size' + writing' + Count(posted', "write")
                 + failed' + Count(tasks', "fail"))
              - (send_data_size + writing + Count(posted, "write")
                   + failed + Count(tasks, "fail"))
      <4>1. send_data_size' = send_data_size /\ n \in Nat
          BY <1>2
      <4>2. /\ failed' + Count(q, "fail") = failed + Count(tasks, "fail")
            /\ Count(q, "fail") \in Nat /\ failed' \in Nat
          BY <1>5, Zenon
      <4>3. /\ send_buffer_size' = send_buffer_size + n
            /\ writing' + Count(posted', "write") + Count(tasks', "fail")
                 = writing + Count(posted, "write") + Count(q, "fail") + n
            /\ writing' \in Nat /\ Count(posted', "write") \in Nat
            /\ Count(tasks', "fail") \in Nat
          BY <1>7
      <4> QED  BY <1>6, <4>1, <4>2, <4>3
    <3>2. send_buffer_size' + Count(tasks', "send")
            - (send_buffer_size + Count(tasks, "send")) <= sent' - sent
      <4>1. Count(tasks', "send") = Count(tasks, "send") - (IF h = "send" THEN 1 ELSE 0)
          BY <1>5, <1>7, Zenon
      <4>2. /\ sent' \in Nat /\ sent' >= sent
            /\ send_buffer_size' = send_buffer_size + n
          BY <1>7, ConstantsFit
      <4>3. CASE n = 0
          BY <1>6, <4>1, <4>2, <4>3
      <4>4. CASE n = 1
        <5>1. h = "send" \/ sent' = sent + 1
            BY <1>7, <4>4, Zenon
        <5> QED  BY <1>6, <4>1, <4>2, <4>4, <5>1
      <4> QED  BY <4>3, <4>4, Zenon
    <3>3. send_buffer_size' >= send_buffer_size
        BY <1>6, <1>7
    <3> QED  BY <1>1, <1>2, <2>1, <3>1, <3>2, <3>3, AccountsKept, Zenon DEF IInv
  <2>4. Closes'
    <3>1. failed' + Count(tasks', "fail") >= failed + Count(tasks, "fail")
      <4>1. /\ failed' + Count(q, "fail") = failed + Count(tasks, "fail")
            /\ Count(q, "fail") \in Nat /\ failed' \in Nat
          BY <1>5
      <4>2. Count(tasks', "fail") >= Count(q, "fail") /\ Count(tasks', "fail") \in Nat
          BY <1>7
      <4>3. failed' + Count(tasks', "fail") >= failed' + Count(q, "fail")
          BY <4>1, <4>2
      <4> QED  BY <4>1, <4>3, Zenon
    <3>2. Settled => Settled'
        BY <1>1, <1>2, <1>6, <2>1, <3>1, SettledKept
    <3> QED  BY <1>2, <1>7, <3>2, Zenon DEF IInv, Closes
  <2>5. DisconnectedIsUnlisted'
    <3>1. Count(tasks', "disconnect") = Count(tasks, "disconnect")
        BY <1>5, <1>7, Zenon
    <3>2. "disconnect" \in heard' => "disconnect" \in heard
        BY <1>2
    <3> QED  BY <1>2, <3>1, <3>2, Zenon DEF IInv, DisconnectedIsUnlisted
  <2> QED  BY <2>1, <2>2, <2>3, <2>4, <2>5, Zenon DEF IInv
<1>8. CASE NoWrite(q) /\ sent' = sent
  <2>1. tasks' = q /\ UNCHANGED <<send_buffer_size, posted, writing, sent>>
      BY <1>8 DEF NoWrite
  <2>2. sent \in 0 .. MaxSend /\ posted \in Seq(Handler)
      BY <1>1 DEF Types
  <2>3. /\ send_buffer_size' = send_buffer_size + 0
        /\ writing' + Count(posted', "write") + Count(tasks', "fail")
             = writing + Count(posted, "write") + Count(q, "fail") + 0
        /\ Count(tasks', "fail") >= Count(q, "fail")
        /\ sent' >= sent /\ 0 \in {0, 1} /\ 0 # 1
    <3>1. Count(q, "fail") \in Nat
        BY <1>5
    <3>2. /\ send_buffer_size = send_buffer_size + 0
          /\ writing + Count(posted, "write") + Count(q, "fail")
               = writing + Count(posted, "write") + Count(q, "fail") + 0
          /\ Count(q, "fail") >= Count(q, "fail") /\ sent >= sent
        BY <1>6, <3>1
    <3> QED  BY <2>1, <3>2
  <2>4. /\ tasks' \in Seq(Task) /\ posted' \in Seq(Handler) /\ writing' \in Nat
        /\ Count(tasks', "fail") \in Nat /\ Count(posted', "write") \in Nat
        /\ sent' \in 0 .. MaxSend
      BY <1>4, <1>5, <1>6, <2>1, <2>2, Zenon
  <2>5. /\ Count(tasks', "send") = Count(q, "send")
        /\ Count(tasks', "disconnect") = Count(q, "disconnect")
        /\ Count(posted', "close") = Count(posted, "close")
        /\ Count(posted', "shut") = Count(posted, "shut")
      BY <2>1, Zenon
  <2> QED  BY <1>7, <2>3, <2>4, <2>5, Zenon
<1>9. CASE DoWrite(FALSE, q) /\ sent' >= sent /\ sent' \in 0 .. MaxSend
           /\ (h = "send" \/ sent' = sent + 1)
  <2>1. /\ send_buffer_size' = send_buffer_size + 1
        /\ tasks' \in Seq(Task) /\ posted' \in Seq(Handler) /\ writing' \in Nat
        /\ \A x : Count(tasks', x) \in Nat
        /\ writing' + Count(posted', "write") + Count(tasks', "fail")
             = writing + Count(posted, "write") + Count(q, "fail") + 1
        /\ Count(tasks', "fail") >= Count(q, "fail")
        /\ \A x \in {"send", "disconnect"} : Count(tasks', x) = Count(q, x)
        /\ \A x \in {"close", "shut"} : Count(posted', x) = Count(posted, x)
      BY <1>1, <1>4, <1>9, DoWriteEffect, Zenon
  <2>2. Count(posted', "write") \in Nat
      BY <2>1, CountType, Zenon
  <2> QED  BY <1>7, <1>9, <2>1, <2>2, Zenon
<1>10. /\ sent \in 0 .. MaxSend /\ sent >= sent
       /\ sent < MaxSend => sent + 1 \in 0 .. MaxSend /\ sent + 1 >= sent
    BY <1>1, ConstantsFit DEF Types
<1> QED  BY <1>3, <1>8, <1>9, <1>10, Zenon

\* open: the session is listed, the first read armed and CONNECT told.
LEMMA OpenKeeps ==
    ASSUME IInv, Open
    PROVE  IInv'
<1> USE DEF sockVars, recvVars, sendVars, closeVars, toldVars, peerVars
<1>1. Types /\ "connect" \in Task
    BY DEF IInv, Types, Task
<1>2. /\ tasks = <<>> /\ posted = <<>> /\ heard = {} /\ writing = 0
      /\ ~flagging /\ ~is_active_close
    BY DEF IInv, Untouched, Open
<1>3. /\ socket' = "open" /\ listed' = TRUE
      /\ UNCHANGED <<setup, bridge, send_data_size, closeVars, failed, peerVars, asked>>
    BY DEF Open
<1>4. \A x : Count(tasks, x) = 0 /\ Count(posted, x) = 0
    BY <1>1, <1>2, CountType, Zenon DEF Types
<1>5. /\ fill' \in 0 .. Cap
      /\ reading' \in {"none", "armed", "data", "empty", "error"}
      /\ reading' \in {"armed", "data"} => fill' < Cap
    BY DoReadTypes, ConstantsFit DEF Open
<1>6. /\ tasks' \in Seq(Task)
      /\ \A x \in {"fail", "send", "disconnect"} : Count(tasks', x) = 0
      /\ \/ heard' = {"connect"}
         \/ heard' = {} /\ "connect" \notin Sync /\ tasks' # <<>> /\ Head(tasks') = "connect"
  <2>1. CASE tasks' = tasks /\ heard' = heard \cup {"connect"}
      BY <1>1, <1>2, <1>4, <2>1, Zenon DEF Types
  <2>2. CASE tasks' = Append(tasks, "connect") /\ heard' = heard /\ "connect" \notin Sync
    <3>1. tasks \in Seq(Task)
        BY <1>1 DEF Types
    <3>2. /\ tasks' \in Seq(Task) /\ tasks' # <<>>
          /\ tasks = <<>> => Head(tasks') = "connect"
          /\ \A x : Count(tasks', x) = Count(tasks, x) + (IF "connect" = x THEN 1 ELSE 0)
        BY <1>1, <2>2, <3>1, Appended
    <3> QED  BY <1>2, <1>4, <2>2, <3>2
  <2>3. DoWrite(SameContext, tasks) => tasks' = tasks
      BY <1>2, Zenon DEF DoWrite
  <2> QED  BY <2>1, <2>2, <2>3, Zenon DEF Open, Tell
<1>7. /\ posted' \in Seq(Handler) /\ writing' \in Nat
      /\ Count(posted', "close") = 0 /\ Count(posted', "shut") = 0
      /\ Count(posted', "write") \in Nat
      /\ sent' \in 0 .. MaxSend
      /\ send_buffer_size' \in Nat /\ send_buffer_size' >= send_buffer_size
      /\ send_buffer_size' - send_buffer_size = writing' + Count(posted', "write")
      /\ send_buffer_size' - send_buffer_size <= sent' - sent
  <2>1. send_buffer_size \in Nat /\ sent \in 0 .. MaxSend /\ posted \in Seq(Handler)
        /\ tasks \in Seq(Task)
      BY <1>1, Zenon DEF Types
  <2>2. CASE UNCHANGED <<sendVars, sent>>
      BY <1>2, <1>4, <2>1, <2>2, ConstantsFit
  <2>3. CASE Answer /\ DoWrite(SameContext, tasks)
    <3>1. SameContext \in BOOLEAN
        BY <1>1, ConstantsFit, Zenon DEF SameContext, Types
    <3>2. /\ send_buffer_size' = send_buffer_size + 1
          /\ posted' \in Seq(Handler) /\ writing' \in Nat
          /\ writing' + Count(posted', "write") + Count(tasks', "fail")
                = writing + Count(posted, "write") + Count(tasks, "fail") + 1
          /\ \A x \in {"close", "shut"} : Count(posted', x) = Count(posted, x)
        BY <1>1, <2>1, <2>3, <3>1, DoWriteEffect
    <3>3. /\ Count(posted', "write") \in Nat /\ Count(tasks', "fail") = 0
          /\ Count(tasks, "fail") = 0 /\ Count(posted, "write") = 0
          /\ Count(posted', "close") = 0 /\ Count(posted', "shut") = 0
        BY <1>4, <1>6, <3>2, CountType, Zenon
    <3>4. sent' = sent + 1 /\ sent' \in 0 .. MaxSend
        BY <2>1, <2>3, ConstantsFit DEF Answer
    <3>5. writing' + Count(posted', "write") = 1
        BY <1>2, <3>2, <3>3
    <3> QED  BY <2>1, <3>2, <3>3, <3>4, <3>5, ConstantsFit
  <2> QED  BY <2>2, <2>3, Zenon DEF Open
<1>8. Types'
  <2>1. heard' \subseteq Task \ {"send", "close"}
      BY <1>6, Zenon DEF Task
  <2> QED  BY <1>1, <1>3, <1>5, <1>6, <1>7, <2>1, Zenon DEF Types
<1>9. Untouched' /\ First'
    BY <1>2, <1>3, <1>6, <1>7, Zenon DEF Untouched, First, Ordered, Sync
<1>10. Accounts'
  <2>1. /\ Count(tasks, "fail") = 0 /\ Count(tasks, "send") = 0
        /\ Count(tasks', "fail") = 0 /\ Count(tasks', "send") = 0
        /\ Count(posted, "write") = 0
      BY <1>4, <1>6, Zenon
  <2>2. /\ send_buffer_size \in Nat /\ send_data_size \in Nat /\ failed \in Nat
        /\ send_data_size' = send_data_size /\ failed' = failed /\ writing = 0
      BY <1>1, <1>2, <1>3, Zenon DEF Types
  <2>3. send_buffer_size' - send_buffer_size
          = (send_data_size' + writing' + Count(posted', "write")
               + failed' + Count(tasks', "fail"))
            - (send_data_size + writing + Count(posted, "write")
                 + failed + Count(tasks, "fail"))
    <3>1. /\ writing' \in Nat /\ Count(posted', "write") \in Nat
          /\ send_buffer_size' - send_buffer_size = writing' + Count(posted', "write")
        BY <1>7
    <3>2. writing' + Count(posted', "write")
            = (send_data_size + writing' + Count(posted', "write") + failed + 0)
              - (send_data_size + 0 + 0 + failed + 0)
        BY <2>2, <3>1
    <3> QED  BY <2>1, <2>2, <3>1, <3>2, Zenon
  <2>4. send_buffer_size' + Count(tasks', "send")
          - (send_buffer_size + Count(tasks, "send")) <= sent' - sent
    <3>1. /\ send_buffer_size' \in Nat
          /\ send_buffer_size' - send_buffer_size <= sent' - sent
        BY <1>7
    <3>2. send_buffer_size' + 0 - (send_buffer_size + 0)
            = send_buffer_size' - send_buffer_size
        BY <2>2, <3>1
    <3> QED  BY <2>1, <3>1, <3>2, Zenon
  <2> QED  BY <1>1, <1>3, <1>7, <1>8, <2>3, <2>4, AccountsKept, Zenon DEF IInv
<1>11. Closes'
    BY <1>3, <1>7 DEF Closes
<1>12. DisconnectedIsUnlisted'
    BY <1>6 DEF DisconnectedIsUnlisted
<1> QED  BY <1>8, <1>9, <1>10, <1>11, <1>12 DEF IInv

\* close_immediaterly called by a write completion: nothing is sent or fails by
\* it, and the session is no longer listed when DISCONNECT is told.
LEMMA CloseFromIoEffect ==
    ASSUME Types, NEW q \in Seq(Task), CloseFromIo(q)
    PROVE  /\ tasks' \in Seq(Task) /\ posted' \in Seq(Handler)
           /\ Count(tasks', "fail") = Count(q, "fail")
           /\ Count(tasks', "send") = Count(q, "send")
           /\ Count(tasks', "disconnect") # Count(q, "disconnect") => ~listed'
           /\ Count(posted', "write") = Count(posted, "write")
           /\ socket' \in {socket, "closed"} /\ listed' \in {listed, FALSE}
           /\ heard' = heard \/ (heard' = heard \cup {"disconnect"} /\ listed' = FALSE)
<1> USE DEF sockVars
<1>1. posted \in Seq(Handler) /\ "disconnect" \in Task /\ "close" \in Handler
    BY DEF Types, Task, Handler
<1>2. /\ Append(q, "disconnect") \in Seq(Task)
      /\ \A x : /\ Count(q, x) \in Nat
               /\ Count(Append(q, "disconnect"), x)
                    = Count(q, x) + (IF "disconnect" = x THEN 1 ELSE 0)
    BY <1>1, Appended
<1>3. /\ Append(posted, "close") \in Seq(Handler)
      /\ \A x : /\ Count(posted, x) \in Nat
               /\ Count(Append(posted, "close"), x)
                    = Count(posted, x) + (IF "close" = x THEN 1 ELSE 0)
    BY <1>1, Appended
<1>4. /\ Count(Append(q, "disconnect"), "fail") = Count(q, "fail")
      /\ Count(Append(q, "disconnect"), "send") = Count(q, "send")
      /\ Count(Append(posted, "close"), "write") = Count(posted, "write")
    BY <1>2, <1>3
<1>5. /\ tasks' = q \/ (tasks' = Append(q, "disconnect") /\ listed' = FALSE)
      /\ posted' = posted \/ posted' = Append(posted, "close")
      /\ socket' \in {socket, "closed"} /\ listed' \in {listed, FALSE}
      /\ heard' = heard \/ (heard' = heard \cup {"disconnect"} /\ listed' = FALSE)
    BY Zenon DEF CloseFromIo, Disconnect, DeleteThreadSession, Tell
<1> QED  BY <1>1, <1>2, <1>3, <1>4, <1>5, Zenon

\* do_write_finish.
LEMMA WriteFinishKeeps ==
    ASSUME IInv, WriteFinish
    PROVE  IInv'
<1> USE DEF sockVars, recvVars, sendVars, closeVars, toldVars, peerVars
<1>1. Types /\ tasks \in Seq(Task) /\ posted \in Seq(Handler) /\ "fail" \in Task
    BY Zenon DEF IInv, Types, Task
<1>2. /\ writing > 0 /\ writing' = writing - 1
      /\ UNCHANGED <<setup, recvVars, bridge, send_buffer_size, closeVars, failed,
                     peerVars, sent, asked>>
    BY DEF WriteFinish
<1>3. /\ sent \in Nat /\ send_buffer_size \in Nat /\ send_data_size \in Nat
      /\ writing \in Nat /\ failed \in Nat /\ owed \in Nat
      /\ Count(posted, "write") \in Nat
      /\ Count(tasks, "fail") \in Nat /\ Count(tasks, "send") \in Nat
    BY <1>1, Numbers, Zenon
<1>4. socket # "accepted"
    BY <1>2, <1>3 DEF IInv, Untouched
<1>5. /\ Append(tasks, "fail") \in Seq(Task) /\ Append(tasks, "fail") # <<>>
      /\ tasks # <<>> => Head(Append(tasks, "fail")) = Head(tasks)
      /\ Count(Append(tasks, "fail"), "fail") = Count(tasks, "fail") + 1
      /\ Count(Append(tasks, "fail"), "send") = Count(tasks, "send")
      /\ Count(Append(tasks, "fail"), "disconnect") = Count(tasks, "disconnect")
  <2>1. /\ Append(tasks, "fail") \in Seq(Task) /\ Append(tasks, "fail") # <<>>
        /\ tasks # <<>> => Head(Append(tasks, "fail")) = Head(tasks)
        /\ \A x : /\ Count(tasks, x) \in Nat
                 /\ Count(Append(tasks, "fail"), x)
                      = Count(tasks, x) + (IF "fail" = x THEN 1 ELSE 0)
      BY <1>1, Appended
  <2> QED  BY <2>1
<1>6. is_active_close => /\ Ordered => "connect" \in heard
                         /\ owed <= send_buffer_size
    BY <1>4 DEF IInv, First, Accounts
<1>7. ASSUME NEW q \in Seq(Task), NEW n \in {0, 1},
             send_data_size' = send_data_size + n,
             Count(q, "fail") = Count(tasks, "fail") + 1 - n,
             Count(q, "send") = Count(tasks, "send"),
             Count(q, "disconnect") = Count(tasks, "disconnect"),
             tasks # <<>> => q # <<>> /\ Head(q) = Head(tasks),
             \/ /\ is_active_close /\ CloseFromIo(q)
                /\ n = 1 => send_buffer_size = send_data_size'
             \/ tasks' = q /\ UNCHANGED <<sockVars, posted, heard>>
      PROVE  IInv'
  <2>1. /\ tasks' \in Seq(Task) /\ posted' \in Seq(Handler)
        /\ Count(tasks', "fail") = Count(q, "fail")
        /\ Count(tasks', "send") = Count(q, "send")
        /\ Count(tasks', "disconnect") # Count(q, "disconnect") => ~listed'
        /\ Count(posted', "write") = Count(posted, "write")
        /\ socket' \in {socket, "closed"} /\ listed' \in {listed, FALSE}
        /\ heard' = heard \/ (heard' = heard \cup {"disconnect"} /\ listed' = FALSE)
    <3>1. CASE CloseFromIo(q)
        BY <1>1, <3>1, CloseFromIoEffect, Zenon
    <3>2. CASE tasks' = q /\ UNCHANGED <<sockVars, posted, heard>>
        BY <1>1, <1>7, <3>2, Zenon
    <3> QED  BY <1>7, <3>1, <3>2, Zenon
  <2>2. Types'
    <3>1. heard' \subseteq Task \ {"send", "close"} /\ listed' \in BOOLEAN
          /\ socket' \in {"accepted", "open", "closed"}
        BY <1>1, <2>1, Zenon DEF Types, Task
    <3>2. writing' \in Nat /\ send_data_size' \in Nat
      <4>1. /\ writing > 0 /\ writing' = writing - 1 /\ writing \in Nat
            /\ send_data_size' = send_data_size + n /\ send_data_size \in Nat
          BY <1>2, <1>3, <1>7, Zenon
      <4> QED  BY <4>1
    <3>3. tasks' \in Seq(Task) /\ posted' \in Seq(Handler)
        BY <2>1
    <3> QED  BY <1>1, <1>2, <3>1, <3>2, <3>3 DEF Types
  <2>3. Untouched'
      BY <1>4, <2>1, Zenon DEF Untouched
  <2>4. Count(tasks', "fail") = Count(tasks, "fail") + 1 - n
      BY <1>7, <2>1, Zenon
  <2>5. Accounts'
    <3>1. /\ send_buffer_size' = send_buffer_size /\ failed' = failed
          /\ writing' = writing - 1 /\ sent' = sent /\ owed' = owed
          /\ n \in Nat /\ send_data_size' = send_data_size + n
          /\ Count(tasks', "send") = Count(tasks, "send")
          /\ flagging' = flagging /\ is_active_close' = is_active_close
      <4>1. /\ send_data_size' = send_data_size + n
            /\ Count(q, "send") = Count(tasks, "send")
          BY <1>7
      <4>2. Count(tasks', "send") = Count(tasks, "send")
          BY <2>1, <4>1, Zenon
      <4> QED  BY <1>2, <4>1, <4>2
    <3>2. send_buffer_size' - send_buffer_size
            = (send_data_size' + writing' + Count(posted', "write")
                 + failed' + Count(tasks', "fail"))
              - (send_data_size + writing + Count(posted, "write")
                   + failed + Count(tasks, "fail"))
      <4>1. Count(posted', "write") = Count(posted, "write")
          BY <2>1
      <4>2. send_buffer_size - send_buffer_size
              = ((send_data_size + n) + (writing - 1) + Count(posted, "write")
                   + failed + (Count(tasks, "fail") + 1 - n))
                - (send_data_size + writing + Count(posted, "write")
                     + failed + Count(tasks, "fail"))
          BY <1>3, <3>1
      <4> QED  BY <2>4, <3>1, <4>1, <4>2, Zenon
    <3>3. send_buffer_size' + Count(tasks', "send")
            - (send_buffer_size + Count(tasks, "send")) <= sent' - sent
        BY <1>3, <3>1
    <3>4. send_buffer_size' >= send_buffer_size
        BY <1>3, <3>1
    <3> QED  BY <1>1, <2>2, <3>1, <3>2, <3>3, <3>4, AccountsKept, Zenon DEF IInv
  <2>6. Settled => Settled'
    <3>1. /\ send_data_size' >= send_data_size /\ owed' = owed
          /\ failed' + Count(tasks', "fail") >= failed + Count(tasks, "fail")
      <4>1. n \in {0, 1} /\ send_data_size' = send_data_size + n
            /\ failed' = failed /\ owed' = owed
          BY <1>2, <1>7
      <4> QED  BY <1>3, <2>4, <4>1
    <3> QED  BY <1>1, <2>2, <3>1, SettledKept, Zenon
  <2>7. ASSUME is_active_close, n = 1 => send_buffer_size = send_data_size'
        PROVE  Closes' /\ First'
    <3>1. Settled'
      <4>1. CASE n = 1
          BY <1>2, <1>3, <1>6, <2>7, <4>1, Zenon DEF Settled
      <4>2. CASE n = 0
        <5>1. failed' = failed /\ Count(tasks', "fail") = Count(tasks, "fail") + 1
            BY <1>2, <1>3, <2>4, <4>2
        <5> QED  BY <1>3, <5>1 DEF Settled, Failures
      <4> QED  BY <4>1, <4>2
    <3>2. First'
        BY <1>2, <1>6, <2>1, <2>7, Zenon DEF First, Ordered, Sync
    <3> QED  BY <3>1, <3>2 DEF Closes
  <2>8. Closes' /\ First'
    <3>1. CASE is_active_close /\ CloseFromIo(q)
               /\ (n = 1 => send_buffer_size = send_data_size')
        BY <2>7, <3>1
    <3>2. CASE tasks' = q /\ UNCHANGED <<sockVars, posted, heard>>
      <4>1. Closes'
          BY <2>6, <3>2, Zenon DEF IInv, Closes
      <4>2. First'
          BY <1>2, <1>7, <3>2 DEF IInv, First, Ordered, Sync
      <4> QED  BY <4>1, <4>2
    <3> QED  BY <1>7, <3>1, <3>2
  <2>9. DisconnectedIsUnlisted'
      BY <1>1, <1>7, <2>1, Zenon DEF IInv, DisconnectedIsUnlisted, Types
  <2> QED  BY <2>2, <2>3, <2>5, <2>8, <2>9, Zenon DEF IInv
<1> QED
  <2>1. CASE /\ send_data_size' = send_data_size + 1
             /\ IF is_active_close /\ send_buffer_size = send_data_size'
                THEN CloseFromIo(tasks)
                ELSE UNCHANGED <<sockVars, posted, tasks, heard>>
    <3>1. /\ Count(tasks, "fail") = Count(tasks, "fail") + 1 - 1 /\ 1 \in {0, 1}
          /\ send_data_size' = send_data_size + 1
        BY <1>3, <2>1
    <3>2. \/ /\ is_active_close /\ CloseFromIo(tasks)
             /\ send_buffer_size = send_data_size'
          \/ tasks' = tasks /\ UNCHANGED <<sockVars, posted, heard>>
        BY <2>1, Zenon
    <3> QED  BY <1>1, <1>7, <3>1, <3>2, Zenon
  <2>2. CASE /\ UNCHANGED send_data_size
             /\ IF is_active_close
                THEN CloseFromIo(Append(tasks, "fail"))
                ELSE /\ tasks' = Append(tasks, "fail")
                     /\ UNCHANGED <<sockVars, posted, heard>>
    <3> DEFINE q == Append(tasks, "fail")
    <3>1. /\ send_data_size' = send_data_size + 0 /\ 0 # 1 /\ 0 \in {0, 1}
          /\ Count(q, "fail") = Count(tasks, "fail") + 1 - 0
        BY <1>3, <1>5, <2>2
    <3>2. /\ q \in Seq(Task)
          /\ Count(q, "send") = Count(tasks, "send")
          /\ Count(q, "disconnect") = Count(tasks, "disconnect")
          /\ tasks # <<>> => q # <<>> /\ Head(q) = Head(tasks)
        BY <1>5
    <3>3. \/ is_active_close /\ CloseFromIo(q)
          \/ tasks' = q /\ UNCHANGED <<sockVars, posted, heard>>
        BY <2>2, Zenon
    <3> HIDE DEF q
    <3> QED  BY <1>7, <3>1, <3>2, <3>3, Zenon
  <2> QED  BY <2>1, <2>2, Zenon DEF WriteFinish

----------------------------------------------------------------------------
(* The theorems. *)

\* Every step of the three threads, of a plugin and of the peer keeps the
\* invariant.
LEMMA NextKeeps == IInv /\ [Next]_vars => IInv'
<1> SUFFICES ASSUME IInv, [Next]_vars PROVE IInv'
    OBVIOUS
<1>1. CASE SocketThread
    BY <1>1, OpenKeeps, ReadReadyKeeps, AskCloseKeeps, ReadSomeKeeps,
       ReadBridgedKeeps, WriteFinishKeeps DEF SocketThread
<1>2. CASE ContextThread
    BY <1>2, RunWriteKeeps, RunCloseKeeps DEF ContextThread
<1>3. CASE WorkThread
    BY <1>3, WorkTellKeeps, WorkWriteKeeps, WorkCloseKeeps, WorkFlagKeeps
    DEF WorkThread
<1>4. CASE Others
    BY <1>4, AskCloseKeeps, AskSendKeeps, PeerKeeps, BridgeWriteKeeps, Zenon DEF Others
<1>5. CASE UNCHANGED vars
  <2> USE <1>5 DEF vars, sockVars, recvVars, sendVars, closeVars, toldVars, peerVars
  <2>a. Types /\ Untouched
      BY Zenon DEF IInv
  <2>b. Types'
      BY <2>a DEF Types
  <2>1. Types' /\ Untouched'
      BY <2>a, <2>b, Zenon DEF Untouched
  <2>2. Accounts' /\ Closes'
      BY Zenon DEF IInv, Accounts, WritesAccounted, Failures, NotClosed, Closes, Settled
  <2>3. First' /\ DisconnectedIsUnlisted'
      BY Zenon DEF IInv, First, Ordered, Sync, DisconnectedIsUnlisted
  <2> QED  BY <2>1, <2>2, <2>3, Zenon DEF IInv
<1> QED  BY <1>1, <1>2, <1>3, <1>4, <1>5 DEF Next

\* The inductive invariant holds of every session at every time.
LEMMA InvariantHolds == Spec => []IInv
<1>1. Init => IInv
    BY InitHolds
<1>2. IInv /\ [Next]_vars => IInv'
    BY NextKeeps
<1> QED  BY <1>1, <1>2, PTL DEF Spec

\* The session's variables keep their types: in particular the receive buffer
\* is never filled beyond its size, and no more units are taken, sent or
\* reported as failed than the plugin answered.
THEOREM TypeCorrect == Spec => []TypeOK
<1>1. IInv => TypeOK
    BY Implied
<1> QED  BY <1>1, InvariantHolds, PTL

\* Every unit do_write took is sent, on its way, or reported as failed exactly
\* once, however do_write, its completions and the closes interleave.
THEOREM WritesAccountedHolds == Spec => []WritesAccounted
<1>1. IInv => WritesAccounted
    BY Implied
<1> QED  BY <1>1, InvariantHolds, PTL

\* A session is taken from the list only when what do_write took before the
\* first close() was sent, or a write failed.
THEOREM GracefulCloseHolds == Spec => []GracefulClose
<1>1. IInv => GracefulClose
    BY Implied
<1> QED  BY <1>1, InvariantHolds, PTL

\* CONNECT is the first event the plugin hears.
THEOREM ConnectFirstHolds == Spec => []ConnectFirst
<1>1. IInv => ConnectFirst
    BY Implied
<1> QED  BY <1>1, InvariantHolds, PTL

\* A connection whose DISCONNECT is on its way to the plugin is not listed.
THEOREM DisconnectedIsUnlistedHolds == Spec => []DisconnectedIsUnlisted
<1>1. IInv => DisconnectedIsUnlisted
    BY Implied
<1> QED  BY <1>1, InvariantHolds, PTL

=============================================================================
