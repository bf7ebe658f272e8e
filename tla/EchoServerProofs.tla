-------------------------- MODULE EchoServerProofs --------------------------
(***************************************************************************)
(* Theorems about EchoServer, for any clients, slots, buffers and inputs:  *)
(* activeClients counts the slots in use, and no byte of an echo is lost,  *)
(* repeated or overtaken while its client is there.                        *)
(*                                                                         *)
(* The argument for the echo: poll() is asked for input only while nothing *)
(* is pending, and revents are about the connection and the direction that *)
(* the slot still has when the scan comes to it; so a read never finds     *)
(* pending bytes to overwrite, and each step moves bytes from the front of *)
(* one queue to the end of the next.                                       *)
(***************************************************************************)
EXTENDS EchoServer, SequenceTheorems, FiniteSetTheorems, TLAPS

Used == {i \in 1..Slots : table[i] # None}
Counted == activeClients = Cardinality(Used)

\* A client has at most one slot.
Alone == \A i, j \in 1..Slots : table[i] # None /\ table[i] = table[j] => i = j

\* A client queues once, and before it has a slot.
Queued ==
  /\ \A j, k \in DOMAIN backlog : backlog[j] = backlog[k] => j = k
  /\ \A j \in DOMAIN backlog :
       client[backlog[j]] # "start" /\ \A i \in 1..Slots : table[i] # backlog[j]
  /\ \A i \in 1..Slots : table[i] # None => client[table[i]] # "start"

\* What poll() reported of a slot is still so when the scan comes to it.
Asked ==
  /\ pc = "accept" /\ revents[0] # {} => backlog # <<>>
  /\ pc \in {"accept", "scan"} =>
       \A i \in 1..Slots :
         /\ revents[i] # {} => table[i] # None
         /\ "in" \in revents[i] => events[i] = "in"
         /\ "out" \in revents[i] => events[i] = "out"
         /\ "err" \in revents[i] => peer[table[i]] # "open"

\* What a client of the echo server sends before it is accepted stays on the way.
Waiting ==
  program = "echo" =>
    \A c \in Clients :
      /\ client[c] = "start" \/ \E j \in DOMAIN backlog : backlog[j] = c
      /\ peer[c] = "open"
      => got[c] = <<>> /\ down[c] = <<>> /\ up[c] = Bytes(0, sent[c])

\* No more is on the way to a client than fits.
Room == \A c \in Clients : Len(down[c]) <= DownRoom

IInv == TypeOK /\ Counted /\ Alone /\ Queued /\ Asked /\ Waiting /\ Room /\ EchoIntact

-----------------------------------------------------------------------------
(* Queues of bytes *)

\* The bytes m+1 to n.
LEMMA BytesType ==
  ASSUME NEW m \in Nat, NEW n \in Nat, m <= n
  PROVE  /\ Bytes(m, n) \in Seq(Nat) /\ Len(Bytes(m, n)) = n - m
         /\ \A i \in 1..(n - m) : Bytes(m, n)[i] = m + i
<1>1. n - m \in Nat
  OBVIOUS
<1>2. Bytes(m, n) \in [1..(n - m) -> Nat]
  BY DEF Bytes
<1> QED
  BY <1>1, <1>2 DEF Bytes

\* A queue made of two.
LEMMA Joined ==
  ASSUME NEW a \in Seq(Nat), NEW b \in Seq(Nat)
  PROVE  /\ a \o b \in Seq(Nat) /\ Len(a \o b) = Len(a) + Len(b)
         /\ Len(a) \in Nat /\ Len(b) \in Nat
         /\ \A i \in 1..Len(a) : (a \o b)[i] = a[i]
         /\ \A i \in 1..Len(b) : (a \o b)[Len(a) + i] = b[i]
  OBVIOUS

\* Queues are equal if their bytes are.
LEMMA SameBytes ==
  ASSUME NEW a \in Seq(Nat), NEW b \in Seq(Nat), Len(a) = Len(b),
         \A j \in 1..Len(a) : a[j] = b[j]
  PROVE  a = b
  BY SeqEqual, Zenon

\* A queue is made of two if its bytes are theirs.
LEMMA JoinIs ==
  ASSUME NEW a \in Seq(Nat), NEW b \in Seq(Nat), NEW c \in Seq(Nat),
         Len(c) = Len(a) + Len(b),
         \A i \in 1..Len(a) : c[i] = a[i],
         \A i \in 1..Len(b) : c[Len(a) + i] = b[i]
  PROVE  a \o b = c
<1>1. a \o b \in Seq(Nat) /\ Len(a \o b) = Len(c) /\ Len(a) \in Nat /\ Len(b) \in Nat
  BY Joined
<1>2. ASSUME NEW j \in 1..Len(a \o b) PROVE (a \o b)[j] = c[j]
  <2>0. /\ \A i \in 1..Len(a) : (a \o b)[i] = a[i]
        /\ \A i \in 1..Len(b) : (a \o b)[Len(a) + i] = b[i]
    BY Joined
  <2>1. CASE j <= Len(a)
    BY <1>1, <2>0, <2>1
  <2>2. CASE ~(j <= Len(a))
    <3>1. j - Len(a) \in 1..Len(b) /\ Len(a) + (j - Len(a)) = j
      BY <1>1, <2>2
    <3> QED
      BY <2>0, <3>1
  <2> QED
    BY <2>1, <2>2
<1> QED
  BY <1>1, <1>2, SameBytes

\* Joining queues is associative.
LEMMA JoinThree ==
  ASSUME NEW x \in Seq(Nat), NEW y \in Seq(Nat), NEW z \in Seq(Nat),
         NEW xy \in Seq(Nat), xy = x \o y, NEW yz \in Seq(Nat), yz = y \o z,
         NEW l \in Seq(Nat), l = xy \o z
  PROVE  l = x \o yz
<1>1. /\ Len(xy) = Len(x) + Len(y) /\ Len(x) \in Nat /\ Len(y) \in Nat
      /\ \A i \in 1..Len(x) : xy[i] = x[i]
      /\ \A i \in 1..Len(y) : xy[Len(x) + i] = y[i]
  BY ONLY x \in Seq(Nat), y \in Seq(Nat), xy = x \o y, Joined
<1>2. /\ Len(yz) = Len(y) + Len(z) /\ Len(z) \in Nat
      /\ \A i \in 1..Len(y) : yz[i] = y[i]
      /\ \A i \in 1..Len(z) : yz[Len(y) + i] = z[i]
  BY ONLY y \in Seq(Nat), z \in Seq(Nat), yz = y \o z, Joined
<1>3. /\ Len(l) = Len(xy) + Len(z)
      /\ \A i \in 1..Len(xy) : l[i] = xy[i]
      /\ \A i \in 1..Len(z) : l[Len(xy) + i] = z[i]
  BY ONLY xy \in Seq(Nat), z \in Seq(Nat), l = xy \o z, Joined
<1>4. ASSUME NEW i \in 1..Len(x) PROVE l[i] = x[i]
  <2>1. i \in 1..Len(xy)
    BY <1>1
  <2> QED
    BY <1>1, <1>3, <2>1
<1>5. ASSUME NEW i \in 1..Len(yz) PROVE l[Len(x) + i] = yz[i]
  <2>1. CASE i <= Len(y)
    <3>1. i \in 1..Len(y) /\ Len(x) + i \in 1..Len(xy)
      BY ONLY <1>1, <1>2, <2>1, i \in 1..Len(yz)
    <3> QED
      BY <1>1, <1>2, <1>3, <3>1
  <2>2. CASE ~(i <= Len(y))
    <3>1. i - Len(y) \in 1..Len(z) /\ Len(y) + (i - Len(y)) = i /\ Len(xy) + (i - Len(y)) = Len(x) + i
      BY ONLY <1>1, <1>2, <2>2, i \in 1..Len(yz)
    <3> QED
      BY <1>2, <1>3, <3>1
  <2> QED
    BY <2>1, <2>2
<1>6. Len(l) = Len(x) + Len(yz)
  BY <1>1, <1>2, <1>3
<1>7. (\A i \in 1..Len(x) : l[i] = x[i]) /\ (\A i \in 1..Len(yz) : l[Len(x) + i] = yz[i])
  BY <1>4, <1>5, Zenon
<1>8. x \o yz = l
  BY ONLY <1>6, <1>7, JoinIs, x \in Seq(Nat), yz \in Seq(Nat), l \in Seq(Nat), Zenon
<1> QED
  BY <1>8

\* The same without names.
LEMMA Assoc ==
  ASSUME NEW x \in Seq(Nat), NEW y \in Seq(Nat), NEW z \in Seq(Nat)
  PROVE  (x \o y) \o z = x \o (y \o z)
<1>1. x \o y \in Seq(Nat) /\ y \o z \in Seq(Nat)
  BY Joined
<1>2. (x \o y) \o z \in Seq(Nat)
  BY <1>1, Joined
<1> QED
  BY <1>1, <1>2, JoinThree

\* A client that goes on writing goes on counting.
LEMMA BytesJoin ==
  ASSUME NEW m \in Nat, NEW n \in Nat, m <= n
  PROVE  Bytes(0, m) \o Bytes(m, n) = Bytes(0, n)
<1>1. Bytes(0, m) \in Seq(Nat) /\ Len(Bytes(0, m)) = m /\ \A i \in 1..m : Bytes(0, m)[i] = i
  BY BytesType
<1>2. /\ Bytes(m, n) \in Seq(Nat) /\ Len(Bytes(m, n)) = n - m
      /\ \A i \in 1..(n - m) : Bytes(m, n)[i] = m + i
  BY BytesType
<1>3. Bytes(0, n) \in Seq(Nat) /\ Len(Bytes(0, n)) = n /\ \A i \in 1..n : Bytes(0, n)[i] = i
  BY BytesType
<1>4. Len(Bytes(0, n)) = Len(Bytes(0, m)) + Len(Bytes(m, n))
  BY ONLY <1>1, <1>2, <1>3, m \in Nat, n \in Nat, m <= n
<1>5. ASSUME NEW i \in 1..Len(Bytes(0, m)) PROVE Bytes(0, n)[i] = Bytes(0, m)[i]
  <2>1. i \in 1..m /\ i \in 1..n
    BY <1>1
  <2> QED
    BY ONLY <2>1, <1>1, <1>3
<1>6. ASSUME NEW i \in 1..Len(Bytes(m, n))
      PROVE  Bytes(0, n)[Len(Bytes(0, m)) + i] = Bytes(m, n)[i]
  <2>1. i \in 1..(n - m) /\ m + i \in 1..n
    BY <1>2
  <2> QED
    BY ONLY <2>1, <1>1, <1>2, <1>3
<1>7. /\ \A i \in 1..Len(Bytes(0, m)) : Bytes(0, n)[i] = Bytes(0, m)[i]
      /\ \A i \in 1..Len(Bytes(m, n)) : Bytes(0, n)[Len(Bytes(0, m)) + i] = Bytes(m, n)[i]
  BY <1>5, <1>6, Zenon
<1>8. Bytes(0, m) \in Seq(Nat) /\ Bytes(m, n) \in Seq(Nat) /\ Bytes(0, n) \in Seq(Nat)
  BY <1>1, <1>2, <1>3
<1> QED
  BY ONLY <1>8, <1>4, <1>7, JoinIs, Zenon

\* Taking the front off a queue.
LEMMA TakeDrop ==
  ASSUME NEW s \in Seq(Nat), NEW n \in 0..Len(s)
  PROVE  /\ Take(s, n) \in Seq(Nat) /\ Drop(s, n) \in Seq(Nat)
         /\ Len(Take(s, n)) = n /\ Len(Drop(s, n)) = Len(s) - n
         /\ Take(s, n) \o Drop(s, n) = s
         /\ n = Len(s) => Take(s, n) = s /\ Drop(s, n) = <<>>
         /\ n = 0 => Drop(s, n) = s
<1>0. Len(s) \in Nat /\ n \in Nat
  OBVIOUS
<1>1. Take(s, n) \in Seq(Nat)
  BY <1>0 DEF Take
<1>2. Len(Take(s, n)) = n
  BY <1>0 DEF Take
<1>3. \A i \in 1..n : Take(s, n)[i] = s[i]
  BY <1>0 DEF Take
<1>4. Drop(s, n) \in Seq(Nat)
  BY <1>0 DEF Drop
<1>5. Len(Drop(s, n)) = Len(s) - n
  BY <1>0 DEF Drop
<1>6. \A i \in 1..(Len(s) - n) : Drop(s, n)[i] = s[n + i]
  BY <1>0 DEF Drop
<1>7. Take(s, n) \o Drop(s, n) = s
  <2>1. Len(s) = Len(Take(s, n)) + Len(Drop(s, n))
    BY ONLY <1>0, <1>2, <1>5
  <2>2. \A i \in 1..Len(Take(s, n)) : s[i] = Take(s, n)[i]
    BY ONLY <1>2, <1>3
  <2>3. \A i \in 1..Len(Drop(s, n)) : s[Len(Take(s, n)) + i] = Drop(s, n)[i]
    BY ONLY <1>2, <1>5, <1>6
  <2> QED
    BY <1>1, <1>4, <2>1, <2>2, <2>3, JoinIs, Zenon
<1>8. n = Len(s) => Take(s, n) = s
  BY <1>1, <1>2, <1>3, SameBytes
<1>9. n = Len(s) => Drop(s, n) = <<>>
  BY <1>0, <1>4, <1>5
<1>10. n = 0 => Drop(s, n) = s
  BY <1>0, <1>4, <1>5, <1>6, SameBytes
<1> QED
  BY <1>1, <1>2, <1>4, <1>5, <1>7, <1>8, <1>9, <1>10

\* An empty queue adds nothing.
LEMMA EmptyJoins ==
  ASSUME NEW x \in Seq(Nat)
  PROVE  x \o <<>> = x /\ <<>> \o x = x
  OBVIOUS

\* The queues of a client that was not served yet.
LEMMA MoveNone ==
  ASSUME NEW u \in Seq(Nat)
  PROVE  <<>> \o <<>> \o <<>> \o u = u
<1>1. <<>> \in Seq(Nat)
  OBVIOUS
<1> QED
  BY <1>1, EmptyJoins, Zenon

-----------------------------------------------------------------------------
(* The invariant *)

\* The bounds are positive, and nobody is the empty slot.
LEMMA Bounds ==
  /\ Slots \in Nat /\ Slots > 0 /\ BufSize \in Nat /\ BufSize > 0
  /\ UpRoom \in Nat /\ DownRoom \in Nat /\ Line \in Nat /\ Line > 0
  /\ None \notin Clients
  BY ConstantsAssumption DEF ConstantsAssumption

\* A set of slots is finite and has at most Slots members.
LEMMA SlotsBound ==
  ASSUME NEW U \in SUBSET (1..Slots)
  PROVE  IsFiniteSet(U) /\ Cardinality(U) \in 0..Slots
<1>1. IsFiniteSet(1..Slots) /\ Cardinality(1..Slots) = Slots
  BY Bounds, FS_Interval
<1>2. IsFiniteSet(U) /\ Cardinality(U) <= Slots
  BY <1>1, FS_Subset
<1>3. Cardinality(U) \in Nat
  BY <1>2, FS_CardinalityType
<1> QED
  BY <1>2, <1>3, Bounds

\* TypeOK in two halves, the flags and the rest.
FlagsOK == finish \in BOOLEAN /\ listening \in BOOLEAN /\ hung \in [Clients -> BOOLEAN]
DataOK ==
  /\ program \in {"poll", "echo"} /\ backlog \in Seq(Clients)
  /\ table \in [1..Slots -> Clients \union {None}]
  /\ events \in [1..Slots -> {"in", "out"}]
  /\ pending \in [1..Slots -> Seq(Nat)]
  /\ activeClients \in 0..Slots
  /\ revents \in [0..Slots -> SUBSET {"in", "out", "err"}]
  /\ pc \in {"poll", "accept", "scan", "exit", "dead"}
  /\ client \in [Clients -> {"start", "send", "read", "again", "done", "failed"}]
  /\ sent \in [Clients -> Nat] /\ got \in [Clients -> Seq(Nat)]
  /\ up \in [Clients -> Seq(Nat)] /\ down \in [Clients -> Seq(Nat)]
  /\ peer \in [Clients -> {"open", "fin", "reset", "epipe"}]

\* The two halves are TypeOK.
LEMMA TypeHalves ==
  (TypeOK <=> FlagsOK /\ DataOK) /\ (TypeOK' <=> FlagsOK' /\ DataOK')
  BY Zenon DEF TypeOK, FlagsOK, DataOK

\* At the start nobody has sent anything.
LEMMA InitIInv == Init => IInv
<1> SUFFICES ASSUME Init PROVE IInv
  OBVIOUS
<1> USE Bounds DEF Init
<1>1. TypeOK
  <2>1. FlagsOK
    BY Zenon DEF FlagsOK
  <2>2. DataOK
    BY DEF DataOK
  <2> QED
    BY <2>1, <2>2, TypeHalves, Zenon
<1>2. Counted
  <2>1. Used = {}
    BY DEF Used
  <2> QED
    BY <2>1, FS_EmptySet DEF Counted
<1>3. Alone /\ Queued /\ Asked /\ Room
  BY DEF Alone, Queued, Asked, Room
<1>4. Waiting
  <2>1. Bytes(0, 0) = <<>>
    BY BytesType
  <2> QED
    BY <2>1 DEF Waiting
<1>5. EchoIntact
  BY DEF EchoIntact
<1> QED
  BY <1>1, <1>2, <1>3, <1>4, <1>5 DEF IInv

\* Steps that leave the slots and the connections alone: SIGINT, the ends of a
\* scan, the end of the listening socket.
LEMMA QuietStep ==
  ASSUME IInv, catch_int \/ ScanEnds \/ PollNothing \/ CloseListening \/ Exit
  PROVE  IInv'
<1> USE DEF IInv
<1>1. /\ program' = program /\ table' = table /\ events' = events /\ pending' = pending
      /\ activeClients' = activeClients /\ revents' = revents
      /\ client' = client /\ sent' = sent /\ got' = got
      /\ up' = up /\ down' = down /\ peer' = peer
  BY DEF catch_int, ScanEnds, PollNothing, CloseListening, Exit, listenVars, slotVars,
         loopVars, clientVars, tcpVars
<1>2. /\ pc' = pc \/ pc' \in {"poll", "exit"}
      /\ backlog' = backlog \/ (backlog' = <<>> /\ pc' \in {"poll", "exit"})
  BY DEF catch_int, ScanEnds, PollNothing, CloseListening, Exit, Again, listenVars, loopVars
<1>3. FlagsOK'
  <2>1. /\ finish' = finish \/ finish' = TRUE
        /\ listening' = listening \/ listening' = FALSE
        /\ hung' = hung \/ HangUp(ToSet(backlog))
    BY DEF catch_int, ScanEnds, PollNothing, CloseListening, Exit, listenVars, tcpVars
  <2>2. HangUp(ToSet(backlog)) => hung' \in [Clients -> BOOLEAN]
    BY Zenon DEF HangUp
  <2> QED
    BY <2>1, <2>2, TypeHalves, Zenon DEF FlagsOK
<1>4. DataOK'
  <2>1. DataOK
    BY TypeHalves, Zenon
  <2>2. backlog \in Seq(Clients) /\ pc \in {"poll", "accept", "scan", "exit", "dead"}
    BY <2>1, Zenon DEF DataOK
  <2>3. pc' \in {"poll", "accept", "scan", "exit", "dead"}
    BY ONLY <1>2, <2>2
  <2>4. backlog' \in Seq(Clients)
    <3>1. <<>> \in Seq(Clients)
      OBVIOUS
    <3>2. backlog' = backlog \/ backlog' = <<>>
      BY ONLY <1>2
    <3> QED
      BY <2>2, <3>1, <3>2, Zenon
  <2> QED
    BY <1>1, <2>1, <2>3, <2>4, Zenon DEF DataOK
<1>5. TypeOK'
  BY <1>3, <1>4, TypeHalves
<1>6. Counted' /\ Alone' /\ Queued' /\ Asked' /\ Room'
  BY <1>1, <1>2 DEF Counted, Used, Alone, Queued, Asked, Room
<1>7. Waiting'
  BY <1>1, <1>2 DEF Waiting
<1>8. EchoIntact'
  BY <1>1, Zenon DEF EchoIntact
<1> QED
  BY <1>5, <1>6, <1>7, <1>8

\* What poll() reports holds until the slot's turn.
LEMMA PollStep ==
  ASSUME IInv, poll
  PROVE  IInv'
<1> USE DEF IInv
<1>1. /\ program' = program /\ table' = table /\ events' = events /\ pending' = pending
      /\ activeClients' = activeClients /\ finish' = finish /\ listening' = listening
      /\ backlog' = backlog /\ client' = client /\ sent' = sent /\ got' = got
      /\ up' = up /\ down' = down /\ peer' = peer /\ hung' = hung /\ pc' = "accept"
  BY DEF poll, listenVars, slotVars, clientVars, tcpVars
<1>2. revents' = [i \in 0..Slots |-> IF i > 0 THEN Ready(i) ELSE {e \in {"in"} : backlog # <<>>}]
  BY DEF poll
<1>3. revents' \in [0..Slots -> SUBSET {"in", "out", "err"}]
  <2>1. \A i : Ready(i) \in SUBSET {"in", "out", "err"}
    BY DEF Ready
  <2> QED
    BY <1>2, <2>1
<1>4. TypeOK'
  <2>1. FlagsOK'
    BY <1>1, TypeHalves, Zenon DEF FlagsOK
  <2>2. pc' \in {"poll", "accept", "scan", "exit", "dead"}
    BY <1>1
  <2>3. DataOK'
    BY <1>1, <1>3, <2>2, TypeHalves, Zenon DEF DataOK
  <2> QED
    BY <2>1, <2>3, TypeHalves
<1>5. Counted' /\ Alone' /\ Queued' /\ Room'
  BY <1>1 DEF Counted, Used, Alone, Queued, Room
<1>6. Asked'
  <2>1. revents'[0] # {} => backlog # <<>>
    BY <1>2, Bounds
  <2>2. ASSUME NEW i \in 1..Slots
        PROVE  /\ revents'[i] # {} => table[i] # None
               /\ "in" \in revents'[i] => events[i] = "in"
               /\ "out" \in revents'[i] => events[i] = "out"
               /\ "err" \in revents'[i] => peer[table[i]] # "open"
    <3>1. revents'[i] = Ready(i)
      BY <1>2, <2>2
    <3> QED
      BY <3>1 DEF Ready
  <2> QED
    BY <1>1, <2>1, <2>2 DEF Asked
<1>7. Waiting'
  BY <1>1 DEF Waiting
<1>8. EchoIntact'
  BY <1>1, Zenon DEF EchoIntact
<1> QED
  BY <1>4, <1>5, <1>6, <1>7, <1>8

\* A client that connects queues once; one that fails or waits to read, or has
\* closed its end, changes no byte.
LEMMA ClientStep ==
  ASSUME IInv, NEW c \in Clients, connect(c) \/ WriteTimesOut(c) \/ Fail(c)
  PROVE  IInv'
<1> USE DEF IInv
<1>1. /\ program' = program /\ table' = table /\ events' = events /\ pending' = pending
      /\ activeClients' = activeClients /\ revents' = revents /\ pc' = pc
      /\ finish' = finish /\ listening' = listening /\ sent' = sent /\ got' = got
      /\ up' = up /\ down' = down /\ peer' = peer /\ hung' = hung
  BY DEF connect, WriteTimesOut, Fail, listenVars, slotVars, loopVars, tcpVars
<1>2. PICK s \in {"send", "read", "failed"} : client' = [client EXCEPT ![c] = s]
  BY DEF connect, WriteTimesOut, Fail
<1>3. /\ client \in [Clients -> {"start", "send", "read", "again", "done", "failed"}]
      /\ backlog \in Seq(Clients) /\ table \in [1..Slots -> Clients \union {None}]
  BY TypeHalves, Zenon DEF DataOK
<1>4. client' \in [Clients -> {"start", "send", "read", "again", "done", "failed"}]
  BY <1>2, <1>3
<1>5. client'[c] # "start" /\ \A d \in Clients \ {c} : client'[d] = client[d]
  BY <1>2, <1>3
<1>6. backlog' = backlog \/ (client[c] = "start" /\ backlog' = Append(backlog, c))
  BY DEF connect, WriteTimesOut, Fail, listenVars
<1>7. backlog' \in Seq(Clients)
  BY <1>3, <1>6
<1>8. \A j \in DOMAIN backlog' :
        \/ j \in DOMAIN backlog /\ backlog'[j] = backlog[j]
        \/ client[c] = "start" /\ j = Len(backlog) + 1 /\ backlog'[j] = c
  <2>1. CASE backlog' = backlog
    BY <2>1
  <2>2. CASE client[c] = "start" /\ backlog' = Append(backlog, c)
    BY <2>2, <1>3
  <2> QED
    BY <1>6, <2>1, <2>2
<1>9. \A j \in DOMAIN backlog : j # Len(backlog) + 1
  BY <1>3
<1>10. TypeOK'
  <2>1. FlagsOK'
    BY <1>1, TypeHalves, Zenon DEF FlagsOK
  <2>2. DataOK'
    BY <1>1, <1>4, <1>7, TypeHalves, Zenon DEF DataOK
  <2> QED
    BY <2>1, <2>2, TypeHalves
<1>11. Counted' /\ Alone' /\ Room'
  BY <1>1 DEF Counted, Used, Alone, Room
<1>12. Queued'
  <2>1. /\ \A j, k \in DOMAIN backlog : backlog[j] = backlog[k] => j = k
        /\ \A j \in DOMAIN backlog :
             client[backlog[j]] # "start" /\ \A i \in 1..Slots : table[i] # backlog[j]
        /\ \A i \in 1..Slots : table[i] # None => client[table[i]] # "start"
    BY DEF Queued
  <2>2. \A i \in 1..Slots : table'[i] # None => client'[table'[i]] # "start"
    BY <1>1, <1>3, <1>5, <2>1
  <2>3. \A j \in DOMAIN backlog : backlog[j] \in Clients
    BY <1>3
  <2>4. \A j \in DOMAIN backlog' :
          client'[backlog'[j]] # "start" /\ \A i \in 1..Slots : table'[i] # backlog'[j]
    <3>1. ASSUME NEW j \in DOMAIN backlog' 
          PROVE client'[backlog'[j]] # "start"
      BY ONLY <1>5, <1>8, <2>1, <2>3, <3>1
    <3>2. ASSUME NEW j \in DOMAIN backlog', NEW i \in 1..Slots
          PROVE  table'[i] # backlog'[j]
      <4>1. client[c] = "start" => table[i] # c
        BY <2>1, <3>2, Bounds
      <4> QED
        BY ONLY <1>1, <1>8, <2>1, <3>2, <4>1
    <3> QED
      BY <3>1, <3>2
  <2>5. ASSUME NEW j \in DOMAIN backlog', NEW k \in DOMAIN backlog', backlog'[j] = backlog'[k]
        PROVE  j = k
    BY ONLY <1>8, <2>1, <2>5
  <2> QED
    BY <2>2, <2>4, <2>5 DEF Queued
<1>13. Asked'
  <2>1. backlog # <<>> => backlog' # <<>>
    BY <1>3, <1>6
  <2> QED
    BY <1>1, <2>1 DEF Asked
<1>14. Waiting'
  <2>1. ASSUME NEW d \in Clients,
               client'[d] = "start" \/ \E j \in DOMAIN backlog' : backlog'[j] = d
        PROVE  client[d] = "start" \/ \E j \in DOMAIN backlog : backlog[j] = d
    BY ONLY <1>5, <1>8, <2>1
  <2> QED
    BY <1>1, <2>1 DEF Waiting
<1>15. EchoIntact'
  BY <1>1, Zenon DEF EchoIntact
<1> QED
  BY <1>10, <1>11, <1>12, <1>13, <1>14, <1>15

\* The bytes of one echo, slot by slot.
Echo(i) ==
  got[table[i]] \o down[table[i]] \o (IF events[i] = "out" THEN pending[i] ELSE <<>>)
    \o up[table[i]] = Bytes(0, sent[table[i]])

\* EchoIntact is about the slots whose client is there.
LEMMA EchoIs ==
  /\ EchoIntact <=> (program = "echo" =>
       \A i \in 1..Slots : table[i] # None /\ peer[table[i]] = "open" => Echo(i))
  /\ EchoIntact' <=> (program' = "echo" =>
       \A i \in 1..Slots : table'[i] # None /\ peer'[table'[i]] = "open" => Echo(i)')
  BY Zenon DEF EchoIntact, Echo

LEMMA EchoOf ==
  ASSUME IInv, program = "echo", NEW i \in 1..Slots, table[i] # None,
         peer[table[i]] = "open"
  PROVE  Echo(i) /\ table[i] \in Clients
<1>1. Echo(i)
  BY EchoIs, Zenon DEF IInv
<1>2. table[i] \in Clients \union {None}
  BY TypeHalves, Zenon DEF IInv, DataOK
<1> QED
  BY <1>1, <1>2, Zenon

\* The length of a client's input.
LEMMA InputType ==
  ASSUME TypeOK, NEW c \in Clients
  PROVE  input(c) \in Nat /\ (program = "poll" => input(c) > 0)
<1>1. program \in {"poll", "echo"}
  BY TypeHalves, Zenon DEF DataOK
<1> QED
  BY <1>1, ConstantsAssumption DEF ConstantsAssumption, input

\* What a client writes goes on where it stopped.
LEMMA WriteStep ==
  ASSUME IInv, NEW c \in Clients, write(c)
  PROVE  IInv'
<1> USE DEF IInv
<1> DEFINE n == Least(to_send(c), UpRoom - Len(up[c]))
           t == Bytes(sent[c], sent[c] + n)
<1>1. /\ program' = program /\ table' = table /\ events' = events /\ pending' = pending
      /\ activeClients' = activeClients /\ revents' = revents /\ pc' = pc
      /\ finish' = finish /\ listening' = listening /\ backlog' = backlog
      /\ client' = client /\ got' = got /\ down' = down /\ peer' = peer /\ hung' = hung
  BY DEF write, listenVars, slotVars, loopVars
<1>2. /\ n > 0 /\ up' = [up EXCEPT ![c] = @ \o t] /\ sent' = [sent EXCEPT ![c] = @ + n]
  BY DEF write
<1>3. /\ sent \in [Clients -> Nat] /\ got \in [Clients -> Seq(Nat)] /\ down \in [Clients -> Seq(Nat)]
      /\ up \in [Clients -> Seq(Nat)] /\ pending \in [1..Slots -> Seq(Nat)]
  BY TypeHalves, Zenon DEF DataOK
<1>4. n \in Nat
  <2>1. sent[c] \in Nat /\ Len(up[c]) \in Nat /\ input(c) \in Nat
    BY <1>3, InputType
  <2>2. sent[c] % Line \in Nat
    BY <2>1, Bounds
  <2>3. to_send(c) \in Int
    BY <2>1, <2>2, Bounds DEF to_send, Least
  <2> QED
    BY <1>2, <2>1, <2>3, Bounds DEF Least
<1> HIDE DEF n
<1>5. t \in Seq(Nat)
  <2>1. sent[c] \in Nat /\ sent[c] + n \in Nat /\ sent[c] <= sent[c] + n
    BY <1>3, <1>4
  <2> QED
    BY <2>1, BytesType, Zenon DEF t
<1>6. Bytes(0, sent[c]) \o t = Bytes(0, sent[c] + n)
  <2>1. sent[c] \in Nat /\ sent[c] + n \in Nat /\ sent[c] <= sent[c] + n
    BY <1>3, <1>4
  <2> QED
    BY <2>1, BytesJoin, Zenon
<1> HIDE DEF t
<1>7. /\ up' \in [Clients -> Seq(Nat)] /\ up'[c] = up[c] \o t
      /\ sent' \in [Clients -> Nat] /\ sent'[c] = sent[c] + n
      /\ \A d \in Clients \ {c} : up'[d] = up[d] /\ sent'[d] = sent[d]
  <2>1. up[c] \o t \in Seq(Nat) /\ sent[c] + n \in Nat
    BY <1>3, <1>4, <1>5
  <2> QED
    BY <1>2, <1>3, <2>1
<1>8. TypeOK'
  <2>1. FlagsOK'
    BY <1>1, TypeHalves, Zenon DEF FlagsOK
  <2>2. DataOK'
    BY <1>1, <1>7, TypeHalves, Zenon DEF DataOK
  <2> QED
    BY <2>1, <2>2, TypeHalves
<1>9. Counted' /\ Alone' /\ Queued' /\ Asked' /\ Room'
  BY <1>1 DEF Counted, Used, Alone, Queued, Asked, Room
<1>10. Waiting'
  <2>1. ASSUME up[c] = Bytes(0, sent[c]) PROVE up'[c] = Bytes(0, sent'[c])
    BY <1>6, <1>7, <2>1, Zenon
  <2> QED
    BY <1>1, <1>7, <2>1 DEF Waiting
<1>11. EchoIntact'
  <2> SUFFICES ASSUME program' = "echo", NEW i \in 1..Slots,
                      table'[i] # None, peer'[table'[i]] = "open"
               PROVE  Echo(i)'
    BY EchoIs, Zenon
  <2>1. Echo(i) /\ table[i] \in Clients
    <3>1. program = "echo" /\ table[i] # None /\ peer[table[i]] = "open"
      BY <1>1, Zenon
    <3> QED
      BY <3>1, EchoOf, Zenon
  <2>2. CASE table[i] # c
    <3>1. up'[table[i]] = up[table[i]] /\ sent'[table[i]] = sent[table[i]]
      BY <1>7, <2>1, <2>2
    <3> QED
      BY <1>1, <2>1, <3>1, Zenon DEF Echo
  <2>3. CASE table[i] = c
    <3> DEFINE p == IF events[i] = "out" THEN pending[i] ELSE <<>>
    <3>1. p \in Seq(Nat)
      <4>1. <<>> \in Seq(Nat)
        OBVIOUS
      <4>2. pending[i] \in Seq(Nat)
        BY <1>3, Zenon
      <4> QED
        BY <4>1, <4>2, Zenon
    <3>2. got[c] \o down[c] \o p \o up[c] = Bytes(0, sent[c])
      BY <2>1, <2>3, Zenon DEF Echo
    <3>3. Echo(i)' <=> got[c] \o down[c] \o p \o (up[c] \o t) = Bytes(0, sent[c] + n)
      BY <1>1, <1>7, <2>3, Zenon DEF Echo
    <3> HIDE DEF p
    <3>4. got[c] \o down[c] \o p \o (up[c] \o t) = (got[c] \o down[c] \o p \o up[c]) \o t
      <4> DEFINE front == got[c] \o down[c] \o p
      <4>1. got[c] \in Seq(Nat) /\ down[c] \in Seq(Nat) /\ up[c] \in Seq(Nat)
        BY <1>3
      <4>2. got[c] \o down[c] \in Seq(Nat)
        BY <4>1, Joined
      <4>3. front \in Seq(Nat)
        BY <4>2, <3>1, Joined
      <4> HIDE DEF front
      <4>4. front \o (up[c] \o t) = (front \o up[c]) \o t
        BY <4>1, <4>3, <1>5, Assoc
      <4> QED
        BY <4>4 DEF front
    <3> QED
      BY <1>6, <3>2, <3>3, <3>4, Zenon
  <2> QED
    BY <2>2, <2>3
<1> QED
  BY <1>8, <1>9, <1>10, <1>11

\* A client that reads takes the echo from the way back.
LEMMA ReadStep ==
  ASSUME IInv, NEW c \in Clients, read_something(c)
  PROVE  IInv'
<1> USE DEF IInv
<1>1. /\ program' = program /\ table' = table /\ events' = events /\ pending' = pending
      /\ activeClients' = activeClients /\ revents' = revents /\ pc' = pc
      /\ finish' = finish /\ listening' = listening /\ backlog' = backlog
      /\ up' = up /\ sent' = sent /\ peer' = peer /\ hung' = hung
      /\ got' = [got EXCEPT ![c] = @ \o down[c]] /\ down' = [down EXCEPT ![c] = <<>>]
      /\ client' = [client EXCEPT ![c] = "send"]
      /\ client[c] = "read" /\ down[c] # <<>>
  BY DEF read_something, listenVars, slotVars, loopVars
<1>2. /\ got \in [Clients -> Seq(Nat)] /\ down \in [Clients -> Seq(Nat)]
      /\ up \in [Clients -> Seq(Nat)] /\ pending \in [1..Slots -> Seq(Nat)]
      /\ client \in [Clients -> {"start", "send", "read", "again", "done", "failed"}]
  BY TypeHalves, Zenon DEF DataOK
<1>3. /\ got' \in [Clients -> Seq(Nat)] /\ got'[c] = got[c] \o down[c]
      /\ \A d \in Clients \ {c} : got'[d] = got[d]
  <2>1. got[c] \o down[c] \in Seq(Nat)
    BY <1>2
  <2> QED
    BY <1>1, <1>2, <2>1
<1>4. /\ down' \in [Clients -> Seq(Nat)] /\ down'[c] = <<>>
      /\ \A d \in Clients \ {c} : down'[d] = down[d]
  BY <1>1, <1>2
<1>5. /\ client' \in [Clients -> {"start", "send", "read", "again", "done", "failed"}]
      /\ client'[c] = "send" /\ \A d \in Clients \ {c} : client'[d] = client[d]
  BY <1>1, <1>2
<1>6. TypeOK'
  <2>1. FlagsOK'
    BY <1>1, TypeHalves, Zenon DEF FlagsOK
  <2>2. DataOK'
    BY <1>1, <1>3, <1>4, <1>5, TypeHalves, Zenon DEF DataOK
  <2> QED
    BY <2>1, <2>2, TypeHalves
<1>7. Counted' /\ Alone' /\ Asked'
  BY <1>1 DEF Counted, Used, Alone, Asked
<1>8. Room'
  BY <1>1, <1>4, Bounds DEF Room
<1>9. Queued'
  <2>1. \A d : client[d] # "start" => client'[d] # "start"
    BY <1>1, <1>2
  <2> QED
    BY <1>1, <2>1 DEF Queued
<1>10. Waiting'
  <2>1. \A d \in Clients : client'[d] = "start" => client[d] = "start"
    BY <1>5
  <2>2. CASE program = "echo"
    <3>1. (\E j \in DOMAIN backlog : backlog[j] = c) => peer[c] # "open"
      BY <1>1, <2>2 DEF Waiting
    <3> QED
      BY <1>1, <1>3, <1>4, <1>5, <2>1, <3>1 DEF Waiting
  <2>3. CASE program # "echo"
    BY <1>1, <2>3 DEF Waiting
  <2> QED
    BY <2>2, <2>3
<1>11. EchoIntact'
  <2> SUFFICES ASSUME program' = "echo", NEW i \in 1..Slots,
                      table'[i] # None, peer'[table'[i]] = "open"
               PROVE  Echo(i)'
    BY EchoIs, Zenon
  <2>1. Echo(i) /\ table[i] \in Clients
    <3>1. program = "echo" /\ table[i] # None /\ peer[table[i]] = "open"
      BY <1>1, Zenon
    <3> QED
      BY <3>1, EchoOf, Zenon
  <2>2. CASE table[i] # c
    <3>1. got'[table[i]] = got[table[i]] /\ down'[table[i]] = down[table[i]]
      BY <1>3, <1>4, <2>1, <2>2
    <3> QED
      BY <1>1, <2>1, <3>1, Zenon DEF Echo
  <2>3. CASE table[i] = c
    <3> DEFINE p == IF events[i] = "out" THEN pending[i] ELSE <<>>
    <3>1. p \in Seq(Nat)
      <4>1. <<>> \in Seq(Nat)
        OBVIOUS
      <4>2. pending[i] \in Seq(Nat)
        BY <1>2
      <4> QED
        BY <4>1, <4>2, Zenon
    <3>2. got[c] \o down[c] \o p \o up[c] = Bytes(0, sent[c])
      BY <2>1, <2>3, Zenon DEF Echo
    <3>3. Echo(i)' <=> (got[c] \o down[c]) \o <<>> \o p \o up[c] = Bytes(0, sent[c])
      BY <1>1, <1>3, <1>4, <2>3, Zenon DEF Echo
    <3> HIDE DEF p
    <3>4. (got[c] \o down[c]) \o <<>> \o p \o up[c] = got[c] \o down[c] \o p \o up[c]
      <4> DEFINE front == got[c] \o down[c]
      <4>1. got[c] \in Seq(Nat) /\ down[c] \in Seq(Nat)
        BY <1>2
      <4>2. front \in Seq(Nat)
        BY <4>1, Joined
      <4> HIDE DEF front
      <4>3. front \o <<>> = front
        BY <4>2, EmptyJoins
      <4>4. (front \o <<>>) \o p \o up[c] = front \o p \o up[c]
        BY <4>3, Zenon
      <4> QED
        BY <4>4 DEF front
    <3> QED
      BY <3>2, <3>3, <3>4, Zenon
  <2> QED
    BY <2>2, <2>3
<1> QED
  BY <1>6, <1>7, <1>8, <1>9, <1>10, <1>11

\* The last line once more, which only clients of the printing server send.
LEMMA AgainStep ==
  ASSUME IInv, NEW c \in Clients, EndOfInput(c)
  PROVE  IInv'
<1> USE DEF IInv
<1>1. /\ program' = program /\ table' = table /\ events' = events /\ pending' = pending
      /\ activeClients' = activeClients /\ revents' = revents /\ pc' = pc
      /\ finish' = finish /\ listening' = listening /\ backlog' = backlog
      /\ got' = got /\ up' = up /\ down' = down /\ peer' = peer /\ hung' = hung
      /\ client' = [client EXCEPT ![c] = "again"] /\ program = "poll"
      /\ sent' = [sent EXCEPT ![c] = ((input(c) - 1) \div Line) * Line]
  BY DEF EndOfInput, Repeats, listenVars, slotVars, loopVars, tcpVars
<1>2. /\ client \in [Clients -> {"start", "send", "read", "again", "done", "failed"}]
      /\ sent \in [Clients -> Nat]
  BY TypeHalves, Zenon DEF DataOK
<1>3. ((input(c) - 1) \div Line) * Line \in Nat
  <2>1. input(c) - 1 \in Nat /\ Line \in Nat \ {0}
    BY <1>1, InputType, Bounds
  <2>2. (input(c) - 1) \div Line \in Nat
    BY <2>1
  <2>3. \A m, n \in Nat : m * n \in Nat
    OBVIOUS
  <2> QED
    BY <2>1, <2>2, <2>3
<1>4. /\ client' \in [Clients -> {"start", "send", "read", "again", "done", "failed"}]
      /\ client'[c] = "again" /\ \A d \in Clients \ {c} : client'[d] = client[d]
      /\ sent' \in [Clients -> Nat]
  BY <1>1, <1>2, <1>3
<1>5. TypeOK'
  <2>1. FlagsOK'
    BY <1>1, TypeHalves, Zenon DEF FlagsOK
  <2>2. DataOK'
    BY <1>1, <1>4, TypeHalves, Zenon DEF DataOK
  <2> QED
    BY <2>1, <2>2, TypeHalves
<1>6. Counted' /\ Alone' /\ Asked' /\ Room'
  BY <1>1 DEF Counted, Used, Alone, Asked, Room
<1>7. Queued'
  <2>1. \A d : client[d] # "start" => client'[d] # "start"
    BY <1>1, <1>2
  <2> QED
    BY <1>1, <2>1 DEF Queued
<1>8. Waiting'
  BY <1>1 DEF Waiting
<1>9. EchoIntact'
  <2>1. program' # "echo"
    BY <1>1
  <2> QED
    BY <2>1, Zenon DEF EchoIntact
<1> QED
  BY <1>5, <1>6, <1>7, <1>8, <1>9

\* A client that leaves takes its connection out of what the echo promises.
LEMMA LeaveStep ==
  ASSUME IInv, NEW c \in Clients, Leave(c)
  PROVE  IInv'
<1> USE DEF IInv
<1>1. /\ program' = program /\ table' = table /\ events' = events /\ pending' = pending
      /\ activeClients' = activeClients /\ revents' = revents /\ pc' = pc
      /\ finish' = finish /\ listening' = listening /\ backlog' = backlog
      /\ sent' = sent /\ hung' = hung
      /\ got' = [got EXCEPT ![c] = <<>>] /\ down' = [down EXCEPT ![c] = <<>>]
      /\ client' = [client EXCEPT ![c] = "done"] /\ client[c] = "send"
  BY DEF Leave, listenVars, slotVars, loopVars
<1>2. /\ got \in [Clients -> Seq(Nat)] /\ down \in [Clients -> Seq(Nat)] /\ up \in [Clients -> Seq(Nat)]
      /\ peer \in [Clients -> {"open", "fin", "reset", "epipe"}]
      /\ client \in [Clients -> {"start", "send", "read", "again", "done", "failed"}]
      /\ table \in [1..Slots -> Clients \union {None}]
  BY TypeHalves, Zenon DEF DataOK
<1>3. /\ peer' \in [Clients -> {"open", "fin", "reset", "epipe"}]
      /\ peer'[c] # "open" /\ \A d \in Clients \ {c} : peer'[d] = peer[d]
  <2>1. peer' = [peer EXCEPT ![c] = "fin"] \/ peer' = [peer EXCEPT ![c] = "reset"]
    BY DEF Leave
  <2> QED
    BY <1>2, <2>1
<1>4. up' \in [Clients -> Seq(Nat)] /\ \A d \in Clients \ {c} : up'[d] = up[d]
  <2>1. up' = up \/ \E n \in 0..Len(up[c]) : up' = [up EXCEPT ![c] = Take(up[c], n)]
    BY DEF Leave
  <2>2. \A n \in 0..Len(up[c]) : Take(up[c], n) \in Seq(Nat)
    BY <1>2, TakeDrop
  <2> QED
    BY <1>2, <2>1, <2>2
<1>5. /\ got' \in [Clients -> Seq(Nat)] /\ down' \in [Clients -> Seq(Nat)]
      /\ down'[c] = <<>> /\ \A d \in Clients \ {c} : got'[d] = got[d] /\ down'[d] = down[d]
  BY <1>1, <1>2
<1>6. /\ client' \in [Clients -> {"start", "send", "read", "again", "done", "failed"}]
      /\ client'[c] = "done" /\ \A d \in Clients \ {c} : client'[d] = client[d]
  BY <1>1, <1>2
<1>7. TypeOK'
  <2>1. FlagsOK'
    BY <1>1, TypeHalves, Zenon DEF FlagsOK
  <2>2. DataOK'
    BY <1>1, <1>3, <1>4, <1>5, <1>6, TypeHalves, Zenon DEF DataOK
  <2> QED
    BY <2>1, <2>2, TypeHalves
<1>8. Counted' /\ Alone'
  BY <1>1 DEF Counted, Used, Alone
<1>9. Asked'
  <2>1. \A d \in Clients : peer[d] # "open" => peer'[d] # "open"
    BY <1>3
  <2> QED
    BY <1>1, <1>2, <2>1 DEF Asked
<1>10. Room'
  BY <1>1, <1>5, Bounds DEF Room
<1>11. Queued'
  <2>1. \A d : client[d] # "start" => client'[d] # "start"
    BY <1>1, <1>2
  <2> QED
    BY <1>1, <2>1 DEF Queued
<1>12. Waiting'
  <2>1. \A d \in Clients : client'[d] = "start" => client[d] = "start"
    BY <1>6
  <2>2. ASSUME NEW d \in Clients, d # c PROVE up'[d] = up[d] /\ got'[d] = got[d] /\ down'[d] = down[d] /\ peer'[d] = peer[d]
    BY <1>3, <1>4, <1>5, <2>2
  <2> QED
    BY <1>1, <1>3, <2>1, <2>2 DEF Waiting
<1>13. EchoIntact'
  <2> SUFFICES ASSUME program' = "echo", NEW i \in 1..Slots,
                      table'[i] # None, peer'[table'[i]] = "open"
               PROVE  Echo(i)'
    BY EchoIs, Zenon
  <2>1. table[i] \in Clients /\ table[i] # c
    BY <1>1, <1>2, <1>3
  <2>2. /\ got'[table[i]] = got[table[i]] /\ down'[table[i]] = down[table[i]]
        /\ up'[table[i]] = up[table[i]] /\ peer'[table[i]] = peer[table[i]]
    BY <1>3, <1>4, <1>5, <2>1
  <2>3. Echo(i)
    BY <1>1, <2>2, EchoIs
  <2> QED
    BY <1>1, <2>2, <2>3, Zenon DEF Echo
<1> QED
  BY <1>7, <1>8, <1>9, <1>10, <1>11, <1>12, <1>13

\* The first of the queue is served from where it stands, or refused.
LEMMA AcceptStep ==
  ASSUME IInv, accept
  PROVE  IInv'
<1> USE DEF IInv
<1>1. /\ program' = program /\ pending' = pending /\ finish' = finish /\ listening' = listening
      /\ client' = client /\ sent' = sent /\ got' = got
      /\ up' = up /\ down' = down /\ peer' = peer
      /\ pc = "accept" /\ pc' = "scan" /\ revents' = [revents EXCEPT ![0] = {}]
  BY DEF accept, clientVars, Refuse, slotVars
<1>2. /\ revents \in [0..Slots -> SUBSET {"in", "out", "err"}]
      /\ backlog \in Seq(Clients) /\ table \in [1..Slots -> Clients \union {None}]
      /\ events \in [1..Slots -> {"in", "out"}] /\ activeClients \in 0..Slots
  BY TypeHalves, Zenon DEF DataOK
<1>3. revents' \in [0..Slots -> SUBSET {"in", "out", "err"}] /\ \A i \in 1..Slots : revents'[i] = revents[i]
  <2>1. 0 \notin 1..Slots /\ 1..Slots \subseteq 0..Slots /\ 0 \in 0..Slots
    BY Bounds
  <2>2. revents \in [0..Slots -> SUBSET {"in", "out", "err"}] /\ revents' = [revents EXCEPT ![0] = {}]
    BY <1>1, <1>2
  <2> QED
    BY ONLY <2>1, <2>2
<1>4. CASE table' = table /\ events' = events /\ activeClients' = activeClients /\ backlog' = backlog
           /\ hung' = hung
  <2>1. TypeOK'
    <3>1. FlagsOK'
      BY <1>1, <1>4, TypeHalves, Zenon DEF FlagsOK
    <3>2. pc' \in {"poll", "accept", "scan", "exit", "dead"}
      BY <1>1
    <3>3. DataOK'
      BY <1>1, <1>3, <1>4, <3>2, TypeHalves, Zenon DEF DataOK
    <3> QED
      BY <3>1, <3>3, TypeHalves
  <2>2. Counted' /\ Alone' /\ Queued' /\ Room'
    BY <1>1, <1>4 DEF Counted, Used, Alone, Queued, Room
  <2>3. Asked'
    BY <1>1, <1>3, <1>4 DEF Asked
  <2>4. Waiting'
    BY <1>1, <1>4 DEF Waiting
  <2>5. EchoIntact'
    BY <1>1, <1>4, Zenon DEF EchoIntact
  <2> QED
    BY <2>1, <2>2, <2>3, <2>4, <2>5
<1>5. ASSUME backlog # <<>>, backlog' = Tail(backlog)
      PROVE  /\ Head(backlog) \in Clients /\ backlog' \in Seq(Clients)
             /\ \A j \in DOMAIN backlog' : j + 1 \in DOMAIN backlog /\ backlog'[j] = backlog[j + 1]
             /\ 1 \in DOMAIN backlog /\ backlog[1] = Head(backlog)
  BY <1>2, <1>5
<1>6. CASE backlog # <<>> /\ backlog' = Tail(backlog) /\ Refuse(Head(backlog))
  <2>1. table' = table /\ events' = events /\ activeClients' = activeClients
    BY <1>6 DEF Refuse, slotVars
  <2>2. HangUp({Head(backlog)})
    BY <1>6 DEF Refuse
  <2>3. TypeOK'
    <3>1. FlagsOK'
      BY <1>1, <2>2, TypeHalves, Zenon DEF FlagsOK, HangUp
    <3>2. pc' \in {"poll", "accept", "scan", "exit", "dead"}
      BY <1>1
    <3>3. backlog' \in Seq(Clients)
      BY <1>5, <1>6
    <3>4. DataOK'
      BY <1>1, <1>3, <2>1, <3>2, <3>3, TypeHalves, Zenon DEF DataOK
    <3> QED
      BY <3>1, <3>4, TypeHalves
  <2>4. Counted' /\ Alone' /\ Room'
    BY <1>1, <2>1 DEF Counted, Used, Alone, Room
  <2>5. Asked'
    BY <1>1, <1>3, <2>1 DEF Asked
  <2>6. Queued'
    BY <1>1, <1>5, <1>6, <2>1 DEF Queued
  <2>7. Waiting'
    BY <1>1, <1>5, <1>6 DEF Waiting
  <2>8. EchoIntact'
    BY <1>1, <2>1, Zenon DEF EchoIntact
  <2> QED
    BY <2>3, <2>4, <2>5, <2>6, <2>7, <2>8
<1>7. ASSUME NEW i \in 1..Slots, table[i] = None, backlog # <<>>, backlog' = Tail(backlog),
             table' = [table EXCEPT ![i] = Head(backlog)],
             events' = [events EXCEPT ![i] = "in"],
             activeClients' = activeClients + 1, hung' = hung
      PROVE  IInv'
  <2> DEFINE h == Head(backlog)
  <2>1. /\ h \in Clients /\ backlog' \in Seq(Clients)
        /\ \A j \in DOMAIN backlog' : j + 1 \in DOMAIN backlog /\ backlog'[j] = backlog[j + 1]
        /\ 1 \in DOMAIN backlog /\ backlog[1] = h
    BY <1>5, <1>7
  <2>2. /\ table' \in [1..Slots -> Clients \union {None}] /\ table'[i] = h
        /\ \A j \in 1..Slots : j # i => table'[j] = table[j]
        /\ events' \in [1..Slots -> {"in", "out"}] /\ events'[i] = "in"
        /\ \A j \in 1..Slots : j # i => events'[j] = events[j]
    BY <1>2, <1>7, <2>1
  <2> HIDE DEF h
  <2>3. client[h] # "start" /\ \A j \in 1..Slots : table[j] # h
    BY <2>1 DEF Queued
  <2>4. Counted' /\ activeClients' \in 0..Slots
    <3>1. Used' = Used \union {i} /\ i \notin Used
      BY <1>7, <2>1, <2>2, Bounds DEF Used
    <3>2. Used \in SUBSET (1..Slots) /\ Used' \in SUBSET (1..Slots)
      BY DEF Used
    <3>3. IsFiniteSet(Used) /\ Cardinality(Used') \in 0..Slots
      BY <3>2, SlotsBound
    <3>4. Cardinality(Used \union {i}) = Cardinality(Used) + 1
      BY <3>1, <3>3, FS_AddElement
    <3>5. activeClients' = Cardinality(Used')
      BY <1>7, <3>1, <3>4 DEF Counted
    <3> QED
      BY <3>3, <3>5 DEF Counted
  <2>5. TypeOK'
    <3>1. FlagsOK'
      BY <1>1, <1>7, TypeHalves, Zenon DEF FlagsOK
    <3>2. pc' \in {"poll", "accept", "scan", "exit", "dead"}
      BY <1>1
    <3>3. DataOK'
      BY <1>1, <1>3, <2>1, <2>2, <2>4, <3>2, TypeHalves, Zenon DEF DataOK
    <3> QED
      BY <3>1, <3>3, TypeHalves
  <2>6. Alone'
    BY <2>2, <2>3 DEF Alone
  <2>7. Room'
    BY <1>1 DEF Room
  <2>8. Asked'
    <3>1. revents[i] = {}
      BY <1>1, <1>7 DEF Asked
    <3> QED
      BY <1>1, <1>3, <2>2, <3>1 DEF Asked
  <2>9. Queued'
    BY <1>1, <2>1, <2>2, <2>3 DEF Queued
  <2>10. Waiting'
    BY <1>1, <2>1 DEF Waiting
  <2>11. EchoIntact'
    <3> SUFFICES ASSUME program' = "echo", NEW j \in 1..Slots,
                        table'[j] # None, peer'[table'[j]] = "open"
                 PROVE  Echo(j)'
      BY EchoIs, Zenon
    <3>1. CASE j # i
      <4>1. table'[j] = table[j] /\ events'[j] = events[j]
        BY <2>2, <3>1
      <4>2. Echo(j)
        BY <1>1, <4>1, EchoIs
      <4> QED
        BY <1>1, <4>1, <4>2, Zenon DEF Echo
    <3>2. CASE j = i
      <4>1. got[h] = <<>> /\ down[h] = <<>> /\ up[h] = Bytes(0, sent[h])
        BY <1>1, <2>1, <2>2, <3>2 DEF Waiting
      <4>2. up[h] \in Seq(Nat)
        BY <2>1, TypeHalves DEF DataOK
      <4>3. <<>> \o <<>> \o <<>> \o up[h] = up[h]
        BY <4>2, MoveNone, Zenon
      <4>4. events'[j] # "out" /\ table'[j] = h
        BY <2>2, <3>2
      <4> QED
        BY <1>1, <4>1, <4>3, <4>4, Zenon DEF Echo
    <3> QED
      BY <3>1, <3>2
  <2> QED
    BY <2>4, <2>5, <2>6, <2>7, <2>8, <2>9, <2>10, <2>11
<1>8. \/ table' = table /\ events' = events /\ activeClients' = activeClients /\ backlog' = backlog
          /\ hung' = hung
      \/ /\ backlog # <<>> /\ backlog' = Tail(backlog)
         /\ \/ Refuse(Head(backlog))
            \/ \E i \in 1..Slots :
                 /\ table[i] = None /\ table' = [table EXCEPT ![i] = Head(backlog)]
                 /\ events' = [events EXCEPT ![i] = "in"]
                 /\ activeClients' = activeClients + 1 /\ hung' = hung
  BY <1>1 DEF accept, Asked, Free, slotVars
<1> QED
  BY <1>4, <1>6, <1>7, <1>8

\* The scan deals with a slot and leaves what poll() reported of the others.
LEMMA ReventsStep ==
  ASSUME TypeOK, NEW i \in 1..Slots, NEW R \in SUBSET {"in", "out", "err"},
         revents' = [revents EXCEPT ![i] = R]
  PROVE  /\ revents' \in [0..Slots -> SUBSET {"in", "out", "err"}] /\ revents'[i] = R
         /\ \A j \in 1..Slots : j # i => revents'[j] = revents[j]
         /\ revents'[0] = revents[0]
<1>1. revents \in [0..Slots -> SUBSET {"in", "out", "err"}]
  BY TypeHalves, Zenon DEF DataOK
<1>2. 0 # i /\ 1..Slots \subseteq 0..Slots /\ i \in 0..Slots /\ 0 \in 0..Slots
  BY Bounds
<1> QED
  BY ONLY <1>1, <1>2, revents' = [revents EXCEPT ![i] = R], R \in SUBSET {"in", "out", "err"}

\* A connection that ends leaves its slot, its count and its buffer.
LEMMA CloseStep ==
  ASSUME IInv, NEW i \in 1..Slots, table[i] # None, close(i), pc = "scan",
         revents' = [revents EXCEPT ![i] = {}],
         program' = program, finish' = finish, listening' = listening, backlog' = backlog,
         pc' = pc, client' = client, sent' = sent, got' = got, up' = up, down' = down,
         peer' = peer
  PROVE  IInv'
<1> USE DEF IInv
<1>1. /\ table' = [table EXCEPT ![i] = None] /\ activeClients' = activeClients - 1
      /\ pending' = [pending EXCEPT ![i] = <<>>] /\ HangUp({table[i]}) /\ events' = events
  BY Zenon DEF close
<1>2. /\ table \in [1..Slots -> Clients \union {None}] /\ pending \in [1..Slots -> Seq(Nat)]
      /\ events \in [1..Slots -> {"in", "out"}]
  BY TypeHalves, Zenon DEF DataOK
<1>3. /\ table' \in [1..Slots -> Clients \union {None}] /\ table'[i] = None
      /\ \A j \in 1..Slots : j # i => table'[j] = table[j]
  BY <1>1, <1>2
<1>4. /\ pending' \in [1..Slots -> Seq(Nat)]
      /\ \A j \in 1..Slots : j # i => pending'[j] = pending[j]
  BY <1>1, <1>2
<1>5. /\ revents' \in [0..Slots -> SUBSET {"in", "out", "err"}] /\ revents'[i] = {}
      /\ \A j \in 1..Slots : j # i => revents'[j] = revents[j]
  BY ReventsStep
<1>6. Counted' /\ activeClients' \in 0..Slots
  <2>1. Used' = Used \ {i} /\ i \in Used
    BY <1>3 DEF Used
  <2>2. Used \in SUBSET (1..Slots) /\ Used' \in SUBSET (1..Slots)
    BY DEF Used
  <2>3. IsFiniteSet(Used) /\ Cardinality(Used') \in 0..Slots
    BY <2>2, SlotsBound
  <2>4. Cardinality(Used \ {i}) = Cardinality(Used) - 1
    BY <2>1, <2>3, FS_RemoveElement
  <2>5. activeClients' = Cardinality(Used')
    BY <1>1, <2>1, <2>4 DEF Counted
  <2> QED
    BY <2>3, <2>5 DEF Counted
<1>7. TypeOK'
  <2>1. FlagsOK'
    BY <1>1, TypeHalves, Zenon DEF FlagsOK, HangUp
  <2>2. DataOK'
    BY <1>1, <1>3, <1>4, <1>5, <1>6, TypeHalves, Zenon DEF DataOK
  <2> QED
    BY <2>1, <2>2, TypeHalves
<1>8. Alone' /\ Room'
  BY <1>3 DEF Alone, Room
<1>9. Queued'
  <2>1. \A c \in Clients : c # None
    BY Bounds
  <2>2. \A j \in DOMAIN backlog : backlog[j] \in Clients
    BY TypeHalves DEF DataOK
  <2> QED
    BY <1>3, <2>1, <2>2 DEF Queued
<1>10. Asked'
  BY <1>1, <1>3, <1>5 DEF Asked
<1>11. Waiting'
  BY DEF Waiting
<1>12. EchoIntact'
  <2> SUFFICES ASSUME program' = "echo", NEW j \in 1..Slots,
                      table'[j] # None, peer'[table'[j]] = "open"
               PROVE  Echo(j)'
    BY EchoIs, Zenon
  <2>1. j # i
    BY <1>3
  <2>2. table'[j] = table[j] /\ pending'[j] = pending[j]
    BY <1>3, <1>4, <2>1
  <2>3. Echo(j)
    BY <2>2, EchoIs
  <2> QED
    BY <1>1, <2>2, <2>3, Zenon DEF Echo
<1> QED
  BY <1>6, <1>7, <1>8, <1>9, <1>10, <1>11, <1>12

\* A read takes from the way there what fits the buffer, which is empty then.
LEMMA ReadSlotStep ==
  ASSUME IInv, NEW i \in 1..Slots, ReadSlot(i)
  PROVE  IInv'
<1> USE DEF IInv
<1> DEFINE c == table[i]
           n == Least(BufSize, Len(up[c]))
<1>1. /\ program' = program /\ finish' = finish /\ listening' = listening /\ backlog' = backlog
      /\ pc = "scan" /\ pc' = pc /\ client' = client /\ sent' = sent /\ got' = got
      /\ down' = down /\ peer' = peer
      /\ revents[i] # {} /\ revents[i] # {"out"}
      /\ up' = [up EXCEPT ![c] = Drop(@, n)]
      /\ revents' = [revents EXCEPT ![i] = IF n > 0 THEN @ \ {"in", "err"} ELSE {}]
  BY DEF ReadSlot, Turn, listenVars, clientVars
<1>2. /\ table \in [1..Slots -> Clients \union {None}] /\ pending \in [1..Slots -> Seq(Nat)]
      /\ events \in [1..Slots -> {"in", "out"}]
      /\ revents \in [0..Slots -> SUBSET {"in", "out", "err"}]
      /\ up \in [Clients -> Seq(Nat)] /\ got \in [Clients -> Seq(Nat)]
      /\ down \in [Clients -> Seq(Nat)] /\ program \in {"poll", "echo"}
  BY TypeHalves, Zenon DEF DataOK
<1>3. table[i] # None /\ c \in Clients
  BY <1>1, <1>2 DEF Asked
<1>4. up[c] \in Seq(Nat) /\ n \in 0..Len(up[c])
  BY <1>2, <1>3, Bounds DEF Least
<1>5. IF n > 0 THEN Received(i, Take(up[c], n)) ELSE close(i)
  BY DEF ReadSlot
<1> HIDE DEF n
<1>6. CASE n = 0
  <2>1. Drop(up[c], n) = up[c]
    BY <1>4, <1>6, TakeDrop
  <2>2. up' = up
    BY <1>1, <1>2, <2>1
  <2>3. close(i) /\ revents' = [revents EXCEPT ![i] = {}]
    BY <1>1, <1>5, <1>6
  <2> QED
    BY <1>1, <1>3, <2>2, <2>3, CloseStep
<1>7. CASE n > 0
  <2> DEFINE t == Take(up[c], n)
             r == Drop(up[c], n)
  <2>1. /\ table' = table /\ activeClients' = activeClients /\ hung' = hung
        /\ program = "echo" => pending' = [pending EXCEPT ![i] = t] /\ events' = [events EXCEPT ![i] = "out"]
        /\ program # "echo" => pending' = pending /\ events' = events
    BY <1>5, <1>7 DEF Received
  <2>2. t \in Seq(Nat) /\ r \in Seq(Nat) /\ t \o r = up[c]
    BY <1>4, TakeDrop
  <2>3. /\ up' \in [Clients -> Seq(Nat)] /\ up'[c] = r
        /\ \A d \in Clients : d # c => up'[d] = up[d]
    BY <1>1, <1>2, <1>3, <2>2
  <2> HIDE DEF t, r
  <2>4. /\ revents' \in [0..Slots -> SUBSET {"in", "out", "err"}]
        /\ revents'[i] = revents[i] \ {"in", "err"} /\ revents'[0] = revents[0]
        /\ \A j \in 1..Slots : j # i => revents'[j] = revents[j]
    <3>1. revents[i] \in SUBSET {"in", "out", "err"}
      BY <1>2, Bounds
    <3>2. revents' = [revents EXCEPT ![i] = revents[i] \ {"in", "err"}]
      BY <1>1, <1>7
    <3>3. revents[i] \ {"in", "err"} \in SUBSET {"in", "out", "err"}
      BY <3>1
    <3> QED
      BY <3>2, <3>3, ReventsStep
  <2>5. /\ pending' \in [1..Slots -> Seq(Nat)]
        /\ \A j \in 1..Slots : j # i => pending'[j] = pending[j]
        /\ program = "echo" => pending'[i] = t
    <3>1. CASE pending' = pending /\ program # "echo"
      BY <1>2, <3>1, Zenon
    <3>2. CASE pending' = [pending EXCEPT ![i] = t]
      BY ONLY <1>2, <2>2, <3>2, i \in 1..Slots
    <3> QED
      BY <2>1, <3>1, <3>2, Zenon
  <2>6. /\ events' \in [1..Slots -> {"in", "out"}]
        /\ \A j \in 1..Slots : j # i => events'[j] = events[j]
        /\ program = "echo" => events'[i] = "out"
        /\ program # "echo" => events'[i] = events[i]
    BY <1>2, <2>1
  <2>7. TypeOK'
    <3>1. FlagsOK'
      BY <1>1, <2>1, TypeHalves, Zenon DEF FlagsOK
    <3>2. DataOK'
      BY <1>1, <2>1, <2>3, <2>4, <2>5, <2>6, TypeHalves, Zenon DEF DataOK
    <3> QED
      BY <3>1, <3>2, TypeHalves
  <2>8. Counted' /\ Alone' /\ Queued' /\ Room'
    BY <1>1, <2>1 DEF Counted, Used, Alone, Queued, Room
  <2>9. Asked'
    <3>1. "out" \in revents[i] => events'[i] = "out"
      BY <1>1, <2>6 DEF Asked
    <3> QED
      BY <1>1, <1>3, <2>1, <2>4, <2>6, <3>1 DEF Asked
  <2>10. Waiting'
    <3>1. client[c] # "start" /\ \A j \in DOMAIN backlog : backlog[j] # c
      BY <1>3 DEF Queued
    <3> QED
      BY <1>1, <2>3, <3>1 DEF Waiting
  <2>11. EchoIntact'
    <3> SUFFICES ASSUME program' = "echo", NEW j \in 1..Slots,
                        table'[j] # None, peer'[table'[j]] = "open"
                 PROVE  Echo(j)'
      BY EchoIs, Zenon
    <3>1. Echo(j) /\ table[j] \in Clients
      BY <1>1, <1>2, <2>1, EchoIs
    <3>2. CASE j # i
      <4>1. table[j] # c
        BY <1>3, <3>2 DEF Alone
      <4>2. pending'[j] = pending[j] /\ events'[j] = events[j] /\ up'[table[j]] = up[table[j]]
        BY <2>3, <2>5, <2>6, <3>1, <3>2, <4>1
      <4> QED
        BY <1>1, <2>1, <3>1, <4>2, Zenon DEF Echo
    <3>3. CASE j = i
      <4>1. events[i] # "out"
        <5>1. "err" \notin revents[i]
          BY <1>1, <2>1, <3>3 DEF Asked
        <5>2. "in" \in revents[i]
          <6>1. revents[i] \in SUBSET {"in", "out", "err"}
            BY <1>2, Bounds
          <6> QED
            BY <1>1, <5>1, <6>1
        <5> QED
          BY <1>1, <5>2 DEF Asked
      <4>2. got[c] \o down[c] \o <<>> \o up[c] = Bytes(0, sent[c])
        BY <3>1, <3>3, <4>1, Zenon DEF Echo
      <4>3. got[c] \o down[c] \o <<>> \o (t \o r) = got[c] \o down[c] \o t \o r
        <5> DEFINE front == got[c] \o down[c]
        <5>1. got[c] \in Seq(Nat) /\ down[c] \in Seq(Nat)
          BY <1>2, <1>3
        <5>2. front \in Seq(Nat)
          BY <5>1, Joined
        <5> HIDE DEF front
        <5>3. front \o <<>> = front
          BY <5>2, EmptyJoins
        <5>4. front \o (t \o r) = (front \o t) \o r
          BY <5>2, <2>2, Assoc
        <5>5. (front \o <<>>) \o (t \o r) = (front \o t) \o r
          BY <5>3, <5>4, Zenon
        <5> QED
          BY <5>5 DEF front
      <4>4. got[c] \o down[c] \o t \o r = Bytes(0, sent[c])
        BY <2>2, <4>2, <4>3, Zenon
      <4>5. events'[i] = "out" /\ pending'[i] = t
        BY <1>1, <2>5, <2>6
      <4> QED
        BY <1>1, <2>1, <2>3, <3>3, <4>4, <4>5, Zenon DEF Echo
    <3> QED
      BY <3>2, <3>3
  <2> QED
    BY <2>7, <2>8, <2>9, <2>10, <2>11
<1> QED
  BY <1>4, <1>6, <1>7

\* A write moves what fits from the buffer to the way back.
LEMMA WriteSlotStep ==
  ASSUME IInv, NEW i \in 1..Slots, WriteSlot(i)
  PROVE  IInv'
<1> USE DEF IInv
<1> DEFINE c == table[i]
           n == Least(DownRoom - Len(down[c]), Len(pending[i]))
<1>1. /\ program' = program /\ finish' = finish /\ listening' = listening /\ backlog' = backlog
      /\ pc = "scan" /\ client' = client /\ sent' = sent /\ got' = got /\ up' = up
      /\ revents[i] = {"out"} /\ revents' = [revents EXCEPT ![i] = {}]
  BY DEF WriteSlot, Turn, listenVars, clientVars
<1>2. /\ table \in [1..Slots -> Clients \union {None}] /\ pending \in [1..Slots -> Seq(Nat)]
      /\ events \in [1..Slots -> {"in", "out"}]
      /\ up \in [Clients -> Seq(Nat)] /\ got \in [Clients -> Seq(Nat)]
      /\ down \in [Clients -> Seq(Nat)]
      /\ peer \in [Clients -> {"open", "fin", "reset", "epipe"}]
  BY TypeHalves, Zenon DEF DataOK
<1>3. table[i] # None /\ c \in Clients /\ events[i] = "out"
  BY <1>1, <1>2 DEF Asked
<1>4. /\ pending[i] \in Seq(Nat) /\ down[c] \in Seq(Nat)
      /\ n \in 0..Len(pending[i]) /\ Len(down[c]) + n <= DownRoom
  <2>1. pending[i] \in Seq(Nat) /\ down[c] \in Seq(Nat)
    BY <1>2, <1>3
  <2>2. Len(down[c]) <= DownRoom
    BY <1>3 DEF Room
  <2>3. Len(pending[i]) \in Nat /\ Len(down[c]) \in Nat
    BY <2>1
  <2>4. DownRoom \in Nat
    BY Bounds
  <2> DEFINE p == Len(pending[i])
             d == Len(down[c])
  <2>5. p \in Nat /\ d \in Nat /\ d <= DownRoom
    BY <2>2, <2>3
  <2> HIDE DEF p, d
  <2>6. Least(DownRoom - d, p) \in 0..p /\ d + Least(DownRoom - d, p) <= DownRoom
    BY <2>4, <2>5 DEF Least
  <2> QED
    BY <2>1, <2>6 DEF p, d
<1>5. /\ revents' \in [0..Slots -> SUBSET {"in", "out", "err"}] /\ revents'[i] = {}
      /\ revents'[0] = revents[0]
      /\ \A j \in 1..Slots : j # i => revents'[j] = revents[j]
  BY <1>1, ReventsStep
<1> DEFINE Kills == /\ pc' = "dead" /\ HangUp(Clients)
                    /\ UNCHANGED <<slotVars, down, peer>>
           Moves == /\ pending' = [pending EXCEPT ![i] = Drop(@, n)]
                    /\ events' = [events EXCEPT ![i] = IF n = Len(pending[i]) THEN "in" ELSE @]
                    /\ IF peer[c] = "open"
                       THEN /\ down' = [down EXCEPT ![c] = @ \o Take(pending[i], n)]
                            /\ UNCHANGED peer
                       ELSE /\ UNCHANGED down
                            /\ \E p \in {"fin", "epipe"} : peer' = [peer EXCEPT ![c] = p]
                    /\ UNCHANGED <<table, activeClients, pc, hung>>
<1>6. Kills \/ (close(i) /\ UNCHANGED <<pc, down, peer>>) \/ Moves
  BY Zenon DEF WriteSlot, Fits
<1> HIDE DEF n
<1>7. CASE Kills
  <2>1. /\ table' = table /\ events' = events /\ pending' = pending
        /\ activeClients' = activeClients /\ down' = down /\ peer' = peer
        /\ pc' = "dead" /\ HangUp(Clients)
    BY <1>7, Zenon DEF slotVars
  <2>2. TypeOK'
    <3>1. FlagsOK'
      BY <1>1, <2>1, TypeHalves, Zenon DEF FlagsOK, HangUp
    <3>2. pc' \in {"poll", "accept", "scan", "exit", "dead"}
      BY <2>1
    <3>3. DataOK'
      BY <1>1, <1>5, <2>1, <3>2, TypeHalves, Zenon DEF DataOK
    <3> QED
      BY <3>1, <3>3, TypeHalves
  <2>3. Counted' /\ Alone' /\ Queued' /\ Room' /\ Asked'
    BY <1>1, <2>1 DEF Counted, Used, Alone, Queued, Room, Asked
  <2>4. Waiting'
    BY <1>1, <2>1 DEF Waiting
  <2>5. EchoIntact'
    BY <1>1, <2>1, Zenon DEF EchoIntact
  <2> QED
    BY <2>2, <2>3, <2>4, <2>5
<1>8. CASE close(i) /\ UNCHANGED <<pc, down, peer>>
  BY <1>1, <1>3, <1>8, CloseStep
<1>9. CASE Moves
  <2> DEFINE t == Take(pending[i], n)
             r == Drop(pending[i], n)
  <2>1. table' = table /\ activeClients' = activeClients /\ hung' = hung /\ pc' = pc
    BY <1>9, Zenon
  <2>2. /\ t \in Seq(Nat) /\ r \in Seq(Nat) /\ t \o r = pending[i] /\ Len(t) = n
        /\ n = Len(pending[i]) => r = <<>>
    BY <1>4, TakeDrop
  <2>3. /\ pending' \in [1..Slots -> Seq(Nat)] /\ pending'[i] = r
        /\ \A j \in 1..Slots : j # i => pending'[j] = pending[j]
    BY <1>2, <1>9, <2>2
  <2>4. /\ events' \in [1..Slots -> {"in", "out"}]
        /\ \A j \in 1..Slots : j # i => events'[j] = events[j]
        /\ events'[i] = "out" \/ n = Len(pending[i])
    BY <1>2, <1>3, <1>9
  <2>5. /\ peer' \in [Clients -> {"open", "fin", "reset", "epipe"}]
        /\ \A d \in Clients : peer'[d] = "open" <=> peer[d] = "open"
    <3>1. CASE peer' = peer
      BY <1>2, <3>1
    <3>2. CASE peer[c] # "open" /\ \E p \in {"fin", "epipe"} : peer' = [peer EXCEPT ![c] = p]
      BY <1>2, <1>3, <3>2
    <3> QED
      BY <1>9, <3>1, <3>2, Zenon
  <2>6. \/ down' = down /\ peer[c] # "open"
        \/ peer[c] = "open" /\ down' = [down EXCEPT ![c] = @ \o t]
    BY <1>9, Zenon
  <2> HIDE DEF t, r
  <2>7. /\ down' \in [Clients -> Seq(Nat)]
        /\ \A d \in Clients : d # c => down'[d] = down[d]
        /\ peer[c] = "open" => down'[c] = down[c] \o t
        /\ peer[c] # "open" => down'[c] = down[c]
    <3>1. down[c] \o t \in Seq(Nat)
      BY <1>4, <2>2, Joined
    <3> QED
      BY <1>2, <1>3, <2>6, <3>1
  <2>8. TypeOK'
    <3>1. FlagsOK'
      BY <1>1, <2>1, TypeHalves, Zenon DEF FlagsOK
    <3>2. DataOK'
      BY <1>1, <1>5, <2>1, <2>3, <2>4, <2>5, <2>7, TypeHalves, Zenon DEF DataOK
    <3> QED
      BY <3>1, <3>2, TypeHalves
  <2>9. Counted' /\ Alone' /\ Queued'
    BY <1>1, <2>1 DEF Counted, Used, Alone, Queued
  <2>10. Room'
    <3>1. Len(down[c] \o t) = Len(down[c]) + n
      BY <1>4, <2>2, Joined
    <3>2. Len(down'[c]) <= DownRoom
      <4>1. CASE peer[c] = "open"
        BY <1>4, <2>7, <3>1, <4>1, Zenon
      <4>2. CASE peer[c] # "open"
        BY <1>3, <2>7, <4>2, Zenon DEF Room
      <4> QED
        BY <4>1, <4>2
    <3> QED
      BY <2>7, <3>2 DEF Room
  <2>11. Asked'
    <3>1. \A j \in 1..Slots : table[j] # None => table[j] \in Clients
      BY <1>2
    <3>2. ASSUME NEW j \in 1..Slots
          PROVE  /\ revents'[j] # {} => table[j] # None
                 /\ "in" \in revents'[j] => events'[j] = "in"
                 /\ "out" \in revents'[j] => events'[j] = "out"
                 /\ "err" \in revents'[j] => peer'[table[j]] # "open"
      <4>1. CASE j = i
        BY <1>5, <4>1
      <4>2. CASE j # i
        BY <1>1, <1>5, <2>4, <2>5, <3>1, <4>2 DEF Asked
      <4> QED
        BY <4>1, <4>2
    <3> QED
      BY <1>1, <2>1, <3>2 DEF Asked
  <2>12. Waiting'
    <3>1. client[c] # "start" /\ \A j \in DOMAIN backlog : backlog[j] # c
      BY <1>3 DEF Queued
    <3> QED
      <4>1. ASSUME NEW d \in Clients, peer'[d] = "open",
                   client[d] = "start" \/ \E j \in DOMAIN backlog : backlog[j] = d
            PROVE  d # c /\ down'[d] = down[d] /\ peer[d] = "open"
        <5>1. d # c
          BY <3>1, <4>1
        <5> QED
          BY <2>5, <2>7, <4>1, <5>1
      <4> QED
        BY <1>1, <4>1 DEF Waiting
  <2>13. EchoIntact'
    <3> SUFFICES ASSUME program' = "echo", NEW j \in 1..Slots,
                        table'[j] # None, peer'[table'[j]] = "open"
                 PROVE  Echo(j)'
      BY EchoIs, Zenon
    <3>1. Echo(j) /\ table[j] \in Clients /\ peer[table[j]] = "open"
      <4>1. program = "echo" /\ table[j] # None /\ peer[table[j]] = "open"
        <5>1. program = "echo" /\ table[j] # None /\ peer'[table[j]] = "open"
          BY <1>1, <2>1, Zenon
        <5>2. table[j] \in Clients
          BY <1>2, <5>1, Zenon
        <5> QED
          BY <2>5, <5>1, <5>2, Zenon
      <4> QED
        BY <4>1, EchoOf, Zenon
    <3>2. CASE j # i
      <4>1. table[j] # c
        BY <1>3, <3>2 DEF Alone
      <4>2. pending'[j] = pending[j] /\ events'[j] = events[j] /\ down'[table[j]] = down[table[j]]
        BY <2>3, <2>4, <2>7, <3>1, <3>2, <4>1
      <4> QED
        BY <1>1, <2>1, <3>1, <4>2, Zenon DEF Echo
    <3>3. CASE j = i
      <4> DEFINE q == IF events'[i] = "out" THEN pending'[i] ELSE <<>>
      <4>1. q = r
        BY <2>2, <2>3, <2>4
      <4>2. got[c] \o down[c] \o (t \o r) \o up[c] = Bytes(0, sent[c])
        BY <1>3, <2>2, <3>1, <3>3, Zenon DEF Echo
      <4>3. got[c] \o down[c] \o (t \o r) = got[c] \o (down[c] \o t) \o r
        <5> DEFINE front == got[c] \o down[c]
        <5>1. got[c] \in Seq(Nat) /\ down[c] \in Seq(Nat)
          BY <1>2, <1>3
        <5>2. front \in Seq(Nat)
          BY <5>1, Joined
        <5>3. front \o t = got[c] \o (down[c] \o t)
          BY <5>1, <2>2, Assoc
        <5> HIDE DEF front
        <5>4. front \o (t \o r) = (front \o t) \o r
          BY <5>2, <2>2, Assoc
        <5>5. front \o (t \o r) = (got[c] \o (down[c] \o t)) \o r
          BY <5>3, <5>4, Zenon
        <5> QED
          BY <5>5 DEF front
      <4>4. got[c] \o (down[c] \o t) \o r \o up[c] = Bytes(0, sent[c])
        BY <4>2, <4>3, Zenon
      <4>5. down'[c] = down[c] \o t
        BY <2>7, <3>1, <3>3
      <4>6. Echo(j)' <=> got[c] \o down'[c] \o q \o up[c] = Bytes(0, sent[c])
        BY <1>1, <2>1, <3>3, Zenon DEF Echo
      <4> HIDE DEF q
      <4> QED
        BY <4>1, <4>4, <4>5, <4>6, Zenon
    <3> QED
      BY <3>2, <3>3
  <2> QED
    BY <2>8, <2>9, <2>10, <2>11, <2>12, <2>13
<1> QED
  BY <1>6, <1>7, <1>8, <1>9

\* Every step keeps the invariant.
LEMMA StepIInv == IInv /\ [Next]_vars => IInv'
<1> SUFFICES ASSUME IInv, [Next]_vars PROVE IInv'
  OBVIOUS
<1>1. CASE UNCHANGED vars
  <2>1. /\ program' = program /\ finish' = finish /\ listening' = listening
        /\ backlog' = backlog /\ table' = table /\ events' = events /\ pending' = pending
        /\ activeClients' = activeClients /\ revents' = revents /\ pc' = pc
        /\ client' = client /\ sent' = sent /\ got' = got
        /\ up' = up /\ down' = down /\ peer' = peer /\ hung' = hung
    BY <1>1, Zenon DEF vars, listenVars, slotVars, loopVars, clientVars, tcpVars
  <2>2. TypeOK' /\ EchoIntact'
    BY <2>1, Zenon DEF IInv, TypeOK, EchoIntact
  <2>3. Counted' /\ Alone' /\ Queued' /\ Asked' /\ Room' /\ Waiting'
    BY <2>1, Zenon DEF IInv, Counted, Used, Alone, Queued, Asked, Room, Waiting
  <2> QED
    BY <2>2, <2>3 DEF IInv
<1>2. CASE catch_int \/ Server
  BY <1>2, QuietStep, PollStep, AcceptStep, ReadSlotStep, WriteSlotStep DEF Server
<1>3. CASE \E c \in Clients : Client(c)
  BY <1>3, ClientStep, WriteStep, ReadStep, AgainStep, LeaveStep DEF Client
<1> QED
  BY <1>1, <1>2, <1>3 DEF Next

\* The invariant holds throughout.
THEOREM EchoServerInv == Spec => []IInv
  BY InitIInv, StepIInv, PTL DEF Spec

\* Every variable keeps its type, for any clients, slots, buffers and inputs.
THEOREM EchoServerTypeOK == Spec => []TypeOK
<1>1. IInv => TypeOK
  BY DEF IInv
<1> QED
  BY <1>1, EchoServerInv, PTL

\* activeClients counts the slots in use, a client has one slot, and revents are
\* about the connection that is in the slot: for any number of clients and slots.
THEOREM EchoServerSlotsAccounted == Spec => []SlotsAccounted
<1>1. IInv => SlotsAccounted
  <2> SUFFICES ASSUME IInv PROVE SlotsAccounted
    OBVIOUS
  <2>1. activeClients = Cardinality({i \in 1..Slots : table[i] # None})
    BY Zenon DEF IInv, Counted, Used
  <2>2. \A i, j \in 1..Slots : table[i] = table[j] /\ i # j => table[i] = None
    BY DEF IInv, Alone
  <2>3. pc \in {"accept", "scan"} => \A i \in 1..Slots : revents[i] # {} => table[i] # None
    BY DEF IInv, Asked
  <2> QED
    BY <2>1, <2>2, <2>3 DEF SlotsAccounted
<1> QED
  BY <1>1, EchoServerInv, PTL

\* While its client is there no byte of an echo is lost, repeated or overtaken,
\* whatever the sizes of buffers, connections and inputs.
THEOREM EchoServerEchoIntact == Spec => []EchoIntact
<1>1. IInv => EchoIntact
  BY DEF IInv
<1> QED
  BY <1>1, EchoServerInv, PTL

=============================================================================
