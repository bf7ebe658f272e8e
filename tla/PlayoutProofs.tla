---------------------------- MODULE PlayoutProofs ---------------------------
(***************************************************************************)
(* Theorems about Playout, for every capacity, every set of session ids,   *)
(* and every number of runs of data_loop.                                  *)
(*                                                                         *)
(* The argument: the numbers in packages are consecutive, so the package   *)
(* add_to_buffor drops is the only one with the smallest number, and that  *)
(* number is always among the forgotten ones; data_loop joins the printing *)
(* thread it started before it returns, and empties the buffer before      *)
(* that, so nothing of one session meets the next one.                     *)
(***************************************************************************)
EXTENDS Playout, SequenceTheorems, TLAPS

Consecutive(p) == \A i \in DOMAIN p : p[i].num = p[1].num + i - 1
Holes(p)       == {p[i].num : i \in {j \in DOMAIN p : p[j].data = Hole}}
OfSession(p, s) == \A i \in DOMAIN p : p[i].data \in {s, Hole}

\* What the places of data_loop say about the buffer and the other threads.
Places ==
  /\ data_pc \in {"stop", "join_printing", "join_requesting", "none"}
       => packages = <<>>
  /\ data_pc \in {"lock", "add"} => session # 0
  /\ data_pc = "none" => session = 0
  /\ data_pc = "join_requesting" => print_pc = "none"
  /\ session = 0 => packages = <<>>

Sized   == packages # <<>> => size = Capacity
Playing == print_pc = "write" => session # 0

\* As long as no requester has unlocked for another thread, whoever is inside
\* the buffer holds the mutex.
Held ==
  ~stolen => /\ data_pc = "add" => mutex_buffor = "data"
             /\ print_pc = "pop" => mutex_buffor = "print"

BufferInv  == Contiguous /\ Bounded /\ SetPointsToHoles /\ Sized
SessionInv == PlaysThisSession /\ Places /\ Playing
LockInv    == Held /\ OverlapOnlyAfterIdleRequest

IInv == TypeOK /\ BufferInv /\ PrinterAccounted /\ SessionInv /\ LockInv

-----------------------------------------------------------------------------
(* Packages *)

LEMMA PackageHas ==
  /\ \A x \in Package : x.num \in Nat /\ x.data \in Sessions \union {Hole}
  /\ \A n \in Nat, d \in Sessions \union {Hole} : [num |-> n, data |-> d] \in Package
  BY DEF Package

LEMMA SessionsAreNumbers == \A s \in Sessions : s \in Nat /\ s # 0
  BY ConstantsAssumption

\* What is left when the oldest package goes.
LEMMA TailKeeps ==
  ASSUME NEW p \in Seq(Package), p # <<>>
  PROVE  /\ Tail(p) \in Seq(Package) /\ Len(Tail(p)) = Len(p) - 1
         /\ Consecutive(p) => Consecutive(Tail(p))
         /\ \A s : OfSession(p, s) => OfSession(Tail(p), s)
         /\ \A m : m \in Holes(p) /\ (p[1].data = Hole => m # p[1].num)
                     => m \in Holes(Tail(p))
<1> DEFINE q == Tail(p)
<1>1. Len(p) \in Nat /\ Len(p) >= 1 /\ DOMAIN p = 1..Len(p)
  OBVIOUS
<1>2. /\ q \in Seq(Package) /\ Len(q) = Len(p) - 1
      /\ \A i \in 1..Len(q) : q[i] = p[i + 1]
  OBVIOUS
<1>3. DOMAIN q = 1..Len(q)
  OBVIOUS
<1>4. p[1].num \in Nat
  BY <1>1, PackageHas
<1> HIDE DEF q
<1>5. \A i \in 1..Len(q) : i + 1 \in 1..Len(p) /\ 1 \in 1..Len(q)
  BY <1>1, <1>2
<1>6. ASSUME Consecutive(p) PROVE Consecutive(q)
  <2>1. \A i \in 1..Len(p) : p[i].num = p[1].num + i - 1
    BY <1>1, <1>6 DEF Consecutive
  <2> SUFFICES ASSUME NEW i \in 1..Len(q) PROVE q[i].num = q[1].num + i - 1
    BY <1>3 DEF Consecutive
  <2>2. q[i] = p[i + 1] /\ q[1] = p[2] /\ i + 1 \in 1..Len(p) /\ 2 \in 1..Len(p)
    <3>1. i + 1 \in 1..Len(p) /\ 1 \in 1..Len(q) /\ 1 + 1 \in 1..Len(p) /\ 1 + 1 = 2
      BY <1>5
    <3> QED
      BY <1>2, <3>1
  <2>3. q[i].num = p[1].num + (i + 1) - 1 /\ q[1].num = p[1].num + 2 - 1
    BY <2>1, <2>2
  <2>4. \A a, b \in Nat : a + (b + 1) - 1 = (a + 2 - 1) + b - 1
    OBVIOUS
  <2>5. i \in Nat
    BY <1>1, <1>2
  <2>6. q[i].num = p[1].num + (i + 1) - 1 /\ q[1].num + i - 1 = (p[1].num + 2 - 1) + i - 1
    BY <2>3, Zenon
  <2> QED
    BY <1>4, <2>4, <2>5, <2>6, Zenon
<1>7. ASSUME NEW s, OfSession(p, s) PROVE OfSession(q, s)
  BY <1>1, <1>2, <1>3, <1>5, <1>7 DEF OfSession
<1>8. ASSUME NEW m, m \in Holes(p), p[1].data = Hole => m # p[1].num
      PROVE  m \in Holes(q)
  <2>1. PICK i \in 1..Len(p) : p[i].data = Hole /\ m = p[i].num
    BY <1>1, <1>8 DEF Holes
  <2>2. i # 1
    BY <1>8, <2>1
  <2>3. i - 1 \in 1..Len(q) /\ q[i - 1] = p[i]
    BY <1>1, <1>2, <2>1, <2>2
  <2> QED
    BY <1>3, <2>1, <2>3 DEF Holes
<1> QED
  BY <1>2, <1>6, <1>7, <1>8 DEF q

\* A package at the back of the buffer, with the next number.
LEMMA AppendKeeps ==
  ASSUME NEW p \in Seq(Package), p # <<>>, Consecutive(p),
         NEW d \in Sessions \union {Hole}
  PROVE  LET n == p[Len(p)].num + 1
             q == Append(p, [num |-> n, data |-> d])
         IN  /\ n \in Nat
             /\ q \in Seq(Package) /\ q # <<>> /\ Len(q) = Len(p) + 1
             /\ Consecutive(q) /\ q[1] = p[1]
             /\ \A s : OfSession(p, s) /\ d \in {s, Hole} => OfSession(q, s)
             /\ Holes(p) \subseteq Holes(q)
             /\ d = Hole => n \in Holes(q)
<1> DEFINE n == p[Len(p)].num + 1
           x == [num |-> n, data |-> d]
           q == Append(p, x)
<1>1. Len(p) \in Nat /\ Len(p) >= 1 /\ DOMAIN p = 1..Len(p)
  OBVIOUS
<1>2. n \in Nat /\ p[1].num \in Nat
  BY <1>1, PackageHas
<1>3. x \in Package /\ x.num = n /\ x.data = d
  BY <1>2, PackageHas
<1> HIDE DEF x
<1>4. /\ q \in Seq(Package) /\ Len(q) = Len(p) + 1
      /\ \A i \in 1..Len(p) : q[i] = p[i]
      /\ q[Len(p) + 1] = x
  BY <1>3
<1>5. DOMAIN q = 1..Len(q) /\ q # <<>>
  BY <1>1, <1>4
<1> HIDE DEF q
<1>6. \A i \in 1..Len(q) : i \in 1..Len(p) \/ i = Len(p) + 1
  BY <1>1, <1>4
<1>7. 1 \in 1..Len(p) /\ q[1] = p[1] /\ Len(p) \in 1..Len(p)
  BY <1>1, <1>4
<1>8. Consecutive(q)
  <2>1. \A i \in 1..Len(p) : p[i].num = p[1].num + i - 1
    BY <1>1 DEF Consecutive
  <2>2. n = p[1].num + (Len(p) + 1) - 1
    <3>1. n = p[Len(p)].num + 1
      BY DEF n
    <3>2. p[Len(p)].num = p[1].num + Len(p) - 1
      BY <1>7, <2>1
    <3> HIDE DEF n
    <3> QED
      BY <1>1, <1>2, <3>1, <3>2
  <2>3. \A i \in 1..Len(q) : q[i].num = p[1].num + i - 1
    BY <1>3, <1>4, <1>6, <2>1, <2>2
  <2> QED
    BY <1>5, <1>7, <2>3 DEF Consecutive
<1> HIDE DEF n
<1>9. ASSUME NEW s, OfSession(p, s), d \in {s, Hole} PROVE OfSession(q, s)
  <2>1. \A i \in 1..Len(p) : q[i].data \in {s, Hole}
    BY <1>1, <1>4, <1>9 DEF OfSession
  <2>2. q[Len(p) + 1].data \in {s, Hole}
    BY <1>3, <1>4, <1>9
  <2> QED
    BY <1>5, <1>6, <2>1, <2>2 DEF OfSession
<1>10. ASSUME NEW m \in Holes(p) PROVE m \in Holes(q)
  <2>1. PICK i \in 1..Len(p) : p[i].data = Hole /\ m = p[i].num
    BY <1>1, <1>10 DEF Holes
  <2>2. i \in 1..Len(q) /\ q[i] = p[i]
    BY <1>1, <1>4
  <2> QED
    BY <1>5, <2>1, <2>2 DEF Holes
<1>11. ASSUME d = Hole PROVE n \in Holes(q)
  <2>1. Len(p) + 1 \in DOMAIN q /\ q[Len(p) + 1].data = Hole
        /\ q[Len(p) + 1].num = n
    BY <1>1, <1>3, <1>4, <1>5, <1>11
  <2> QED
    BY <2>1 DEF Holes
<1> QED
  BY <1>2, <1>4, <1>5, <1>7, <1>8, <1>9, <1>10, <1>11 DEF n, q, x

\* A payload for the packages with one number.
LEMMA FillKeeps ==
  ASSUME NEW p \in Seq(Package), NEW n \in Nat, NEW d \in Sessions
  PROVE  LET q == [i \in DOMAIN p |->
                     IF p[i].num = n THEN [num |-> n, data |-> d] ELSE p[i]]
         IN  /\ q \in Seq(Package) /\ Len(q) = Len(p)
             /\ Consecutive(p) => Consecutive(q)
             /\ OfSession(p, d) => OfSession(q, d)
             /\ Holes(p) \ {n} \subseteq Holes(q)
<1> DEFINE x == [num |-> n, data |-> d]
           q == [i \in DOMAIN p |-> IF p[i].num = n THEN x ELSE p[i]]
<1>1. Len(p) \in Nat /\ DOMAIN p = 1..Len(p) /\ \A i \in 1..Len(p) : p[i] \in Package
  OBVIOUS
<1>2. x \in Package /\ x.num = n /\ x.data = d
  BY PackageHas
<1> HIDE DEF x
<1>3. DOMAIN q = 1..Len(p) /\ \A i \in 1..Len(p) :
        q[i] = IF p[i].num = n THEN x ELSE p[i]
  BY <1>1
<1>4. q = [i \in 1..Len(p) |-> q[i]]
  BY <1>3
<1>5. \A i \in 1..Len(p) : q[i] \in Package /\ q[i].num = p[i].num
  BY <1>1, <1>2, <1>3
<1>6. q \in Seq(Package) /\ Len(q) = Len(p)
  <2>1. q \in [1..Len(p) -> Package]
    BY <1>3, <1>5, <1>4
  <2> QED
    BY <1>1, <2>1, <1>3
<1> HIDE DEF q
<1>7. ASSUME Consecutive(p) PROVE Consecutive(q)
  <2>1. \A i \in 1..Len(p) : 1 \in 1..Len(p)
    BY <1>1
  <2> QED
    BY <1>1, <1>3, <1>5, <1>7, <2>1 DEF Consecutive
<1>8. ASSUME OfSession(p, d) PROVE OfSession(q, d)
  BY <1>1, <1>2, <1>3, <1>8 DEF OfSession
<1>9. ASSUME NEW m \in Holes(p) \ {n} PROVE m \in Holes(q)
  <2>1. PICK i \in 1..Len(p) : p[i].data = Hole /\ m = p[i].num
    BY <1>1, <1>9 DEF Holes
  <2>2. q[i] = p[i]
    BY <1>3, <1>9, <2>1
  <2> QED
    BY <1>3, <2>1, <2>2 DEF Holes
<1> QED
  BY <1>6, <1>7, <1>8, <1>9 DEF q, x

\* A hole that fills the buffer pushes out the front, and the numbers
\* add_to_buffor forgets with it include the front's.
LEMMA FrontIsForgotten ==
  ASSUME TypeOK, NEW list \in Seq(Package), Consecutive(list), Len(list) >= 2,
         Len(list) = size, NEW numbers \in SUBSET Nat, list[1].num \in numbers
  PROVE  list[1].num \in Forgotten(list, numbers)
<1> DEFINE last     == list[Len(list)].num
           ahead    == IF incoming > last THEN incoming - last ELSE size - 1
           distance == IF ahead < size - 1 THEN ahead ELSE size - 1
           f        == list[1].num
           k        == Len(list) + 2 - distance
<1>1. Len(list) \in Nat /\ DOMAIN list = 1..Len(list)
  OBVIOUS
<1>2. f \in Nat /\ last \in Nat /\ incoming \in Nat
  BY <1>1, PackageHas DEF TypeOK
<1>3. \A i \in 1..Len(list) : list[i].num = f + i - 1
  BY <1>1 DEF Consecutive
<1>4. Forgotten(list, numbers) =
        IF distance = 1 THEN numbers ELSE {n \in numbers : n < list[k].num}
  BY DEF Forgotten
<1> HIDE DEF last, f
<1>5. distance \in Nat /\ distance >= 1 /\ distance <= Len(list) - 1
  BY <1>1, <1>2
<1> HIDE DEF distance, ahead
<1>6. CASE distance = 1
  BY <1>4, <1>6 DEF f
<1>7. CASE distance # 1
  <2>1. k \in 1..Len(list) /\ k >= 3
    BY <1>1, <1>5, <1>7
  <2> HIDE DEF k
  <2>2. f < list[k].num
    BY <1>1, <1>2, <1>3, <2>1
  <2> QED
    BY <1>4, <1>7, <2>2 DEF f
<1> QED
  BY <1>6, <1>7

-----------------------------------------------------------------------------
(* Types *)

Flags ==
  /\ finish \in BOOLEAN /\ stop \in BOOLEAN /\ finished_printing \in BOOLEAN
  /\ printing \in BOOLEAN /\ requesting \in BOOLEAN
  /\ stolen \in BOOLEAN /\ overlap \in BOOLEAN

Shapes ==
  /\ packages \in Seq(Package)
  /\ set \subseteq Nat /\ size \in {0, Capacity}
  /\ mutex_buffor \in {"free", "data", "print"}
  /\ data_pc \in {"none", "top", "lock", "add", "spawn", "close", "reset",
                  "stop", "join_printing", "join_requesting"}
  /\ run \in Nat /\ session \in Sessions \union {0} /\ incoming \in Nat
  /\ print_pc \in {"none", "lock", "pop", "write", "flag", "exited"}
  /\ package \in Package
  /\ req_pc \in [Runs -> {"none", "loop", "sleep", "send", "exited"}]
  /\ request \in [Runs -> SUBSET Nat]

\* The provers take flags and data apart.
LEMMA TypeHalves == (TypeOK <=> Flags /\ Shapes) /\ (TypeOK' <=> Flags' /\ Shapes')
  BY Zenon DEF TypeOK, Flags, Shapes

LEMMA InitTypeOK == Init => TypeOK
<1> SUFFICES ASSUME Init PROVE Flags /\ Shapes
  BY TypeHalves
<1>1. Flags
  BY Zenon DEF Init, Flags
<1>2. Shapes
  <2>1. NoPackage \in Package
    BY DEF NoPackage, Package, Hole
  <2> QED
    BY <2>1, ConstantsAssumption DEF Init, Shapes
<1> QED
  BY <1>1, <1>2

\* What a turn of add_to_buffor does to the types of the buffer.
LEMMA AddTypes ==
  ASSUME TypeOK, Contiguous, data_pc = "add" => session # 0, Add
  PROVE  packages' \in Seq(Package) /\ set' \subseteq Nat /\ size' \in {0, Capacity}
<1>1. /\ packages \in Seq(Package) /\ set \subseteq Nat /\ incoming \in Nat
      /\ session \in Sessions \union {0} /\ size \in {0, Capacity}
  BY DEF TypeOK
<1>2. session \in Sessions /\ NewPackage \in Package
  <2>1. session # 0
    BY DEF Add, AddFound, AddFirst, AddDropped, AddNext, AddHole, InLoop
  <2> QED
    BY <1>1, <2>1, PackageHas DEF NewPackage
<1>3. Consecutive(packages)
  BY DEF Contiguous, Consecutive
<1>4. CASE AddFound
  <2>1. packages' = [i \in DOMAIN packages |->
                       IF packages[i].num = incoming
                         THEN [num |-> incoming, data |-> session]
                         ELSE packages[i]]
    BY <1>4 DEF AddFound, NewPackage
  <2>2. packages' \in Seq(Package)
    BY <1>1, <1>2, <2>1, FillKeeps
  <2> QED
    BY <1>1, <1>4, <2>2 DEF AddFound
<1>5. CASE AddFirst
  BY <1>1, <1>2, <1>5 DEF AddFirst
<1>6. CASE AddDropped
  BY <1>1, <1>6 DEF AddDropped, bufferVars
<1>7. CASE AddNext
  BY <1>1, <1>2, <1>7 DEF AddNext
<1>8. CASE AddHole
  <2> DEFINE longer == Append(packages, [num |-> Back + 1, data |-> Hole])
             larger == set \union {Back + 1}
  <2>1. packages # <<>>
    BY <1>8 DEF AddHole, InLoop
  <2>2. longer \in Seq(Package) /\ longer # <<>> /\ Back + 1 \in Nat
    BY <1>1, <1>3, <2>1, AppendKeeps DEF Back
  <2> HIDE DEF longer
  <2>3. Tail(longer) \in Seq(Package)
    BY <2>2
  <2>4. packages' \in {longer, Tail(longer)} /\ set' \subseteq larger /\ size' = size
    BY <1>8 DEF AddHole, longer
  <2> QED
    BY <1>1, <2>2, <2>3, <2>4
<1> QED
  BY <1>4, <1>5, <1>6, <1>7, <1>8 DEF Add

LEMMA NextTypeOK ==
  ASSUME TypeOK, Contiguous, data_pc = "add" => session # 0, [Next]_vars
  PROVE  TypeOK'
<1> USE DEF bufferVars, dataVars, printVars, reqVars
<1>0. Flags /\ Shapes
  BY TypeHalves
<1>1. CASE DataStart
  <2>1. Flags'
    BY <1>0, <1>1, Zenon DEF DataStart, Flags
  <2>2. Shapes'
    BY <1>0, <1>1 DEF DataStart, Shapes
  <2> QED
    BY <2>1, <2>2, TypeHalves
<1>2. CASE DataStationChanged
  BY <1>2 DEF DataStationChanged, TypeOK
<1>3. CASE DataIdle
  BY <1>3 DEF DataIdle, TypeOK
<1>4. CASE DataRecv
  BY <1>4 DEF DataRecv, TypeOK
<1>5. CASE DataLock
  BY <1>5 DEF DataLock, lock, TypeOK
<1>6. CASE Add
  <2>1. packages' \in Seq(Package) /\ set' \subseteq Nat /\ size' \in {0, Capacity}
    BY <1>6, AddTypes
  <2>2. /\ UNCHANGED addOthers
        /\ UNCHANGED <<mutex_buffor, data_pc, incoming>> \/ AddReturns
    BY <1>6 DEF Add, AddFound, AddFirst, AddDropped, AddNext, AddHole
  <2> QED
    BY <2>1, <2>2 DEF addOthers, AddReturns, TypeOK
<1>7. CASE DataSpawn
  <2>1. Flags'
    BY <1>0, <1>7, Zenon DEF DataSpawn, lock, Flags
  <2>2. Shapes'
    BY <1>0, <1>7 DEF DataSpawn, lock, Shapes
  <2> QED
    BY <2>1, <2>2, TypeHalves
<1>8. CASE try_close_threads
  <2>1. Flags'
    BY <1>0, <1>8, Zenon DEF try_close_threads, Flags
  <2>2. Shapes'
    BY <1>0, <1>8 DEF try_close_threads, Shapes
  <2> QED
    BY <2>1, <2>2, TypeHalves
<1>9. CASE DataReset
  BY <1>9 DEF DataReset, lock, TypeOK
<1>10. CASE DataStop
  BY <1>10 DEF DataStop, TypeOK
<1>11. CASE DataJoinPrinting
  <2>1. Flags'
    BY <1>0, <1>11, Zenon DEF DataJoinPrinting, Flags
  <2>2. Shapes'
    BY <1>0, <1>11 DEF DataJoinPrinting, Shapes
  <2> QED
    BY <2>1, <2>2, TypeHalves
<1>12. CASE DataJoinRequesting
  <2>1. Flags'
    BY <1>0, <1>12, Zenon DEF DataJoinRequesting, Flags
  <2>2. Shapes'
    BY <1>0, <1>12 DEF DataJoinRequesting, Shapes
  <2> QED
    BY <2>1, <2>2, TypeHalves
<1>13. CASE PrintLock
  BY <1>13 DEF PrintLock, printOthers, lock, TypeOK
<1>14. CASE PrintPop
  <2>1. /\ packages \in Seq(Package) /\ packages # <<>>
        /\ Head(packages) \in Package /\ Tail(packages) \in Seq(Package)
    BY <1>14 DEF PrintPop, TypeOK
  <2>2. Flags'
    BY <1>0, <1>14, Zenon DEF PrintPop, printOthers, Flags
  <2>3. Shapes'
    <3>1. CASE packages' = <<>> /\ set' = {} /\ package' = package /\ print_pc' = "exited"
      BY <1>0, <1>14, <3>1 DEF PrintPop, printOthers, Shapes
    <3>2. CASE /\ packages' = Tail(packages) /\ set' = set /\ package' = Head(packages)
               /\ print_pc' = "write"
      BY <1>0, <1>14, <2>1, <3>2 DEF PrintPop, printOthers, Shapes
    <3> QED
      BY <1>14, <3>1, <3>2 DEF PrintPop
  <2> QED
    BY <2>2, <2>3, TypeHalves
<1>15. CASE PrintStop
  BY <1>15 DEF PrintStop, printOthers, TypeOK
<1>16. CASE PrintWrite
  BY <1>16 DEF PrintWrite, printOthers, NoPackage, Package, TypeOK
<1>17. CASE PrintFlag
  BY <1>17 DEF PrintFlag, printOthers, TypeOK
<1>18. ASSUME NEW r \in Runs, ReqLoop(r) PROVE TypeOK'
  BY <1>18 DEF ReqLoop, reqOthers, TypeOK
<1>19. ASSUME NEW r \in Runs, ReqCopy(r) PROVE TypeOK'
  BY <1>19 DEF ReqCopy, reqOthers, lock, TypeOK
<1>20. ASSUME NEW r \in Runs, ReqSend(r) PROVE TypeOK'
  <2>1. Garbage \in Nat
    BY ConstantsAssumption DEF Garbage
  <2> QED
    BY <1>20, <2>1 DEF ReqSend, reqOthers, TypeOK
<1>21. ASSUME NEW r \in Runs, ReqIdle(r) PROVE TypeOK'
  BY <1>21 DEF ReqIdle, reqOthers, TypeOK
<1>22. CASE catch_interput
  BY <1>22 DEF catch_interput, TypeOK
<1>23. CASE UNCHANGED vars
  BY <1>23 DEF vars, TypeOK
<1> QED
  BY <1>1, <1>2, <1>3, <1>4, <1>5, <1>6, <1>7, <1>8, <1>9, <1>10, <1>11, <1>12,
     <1>13, <1>14, <1>15, <1>16, <1>17, <1>18, <1>19, <1>20, <1>21, <1>22, <1>23
     DEF Next, Step, Terminated, Data, Printing, Request

-----------------------------------------------------------------------------
(* The buffer *)

\* BufferInv in terms of the operators above.
LEMMA BufferInvIs ==
  BufferInv <=> /\ Consecutive(packages) /\ set \subseteq Holes(packages)
                /\ Len(packages) <= (IF Capacity = 0 THEN 1 ELSE Capacity)
                /\ packages # <<>> => size = Capacity
  BY DEF BufferInv, Contiguous, Consecutive, Bounded, SetPointsToHoles, Missing, Holes,
         Sized

LEMMA BufferInvIsNext ==
  BufferInv' <=> /\ Consecutive(packages') /\ set' \subseteq Holes(packages')
                 /\ Len(packages') <= (IF Capacity = 0 THEN 1 ELSE Capacity)
                 /\ packages' # <<>> => size' = Capacity
  BY DEF BufferInv, Contiguous, Consecutive, Bounded, SetPointsToHoles, Missing, Holes,
         Sized

\* One turn of add_to_buffor.
LEMMA AddKeepsBuffer ==
  ASSUME TypeOK, BufferInv, data_pc = "add" => session # 0, Add
  PROVE  BufferInv'
<1>1. /\ packages \in Seq(Package) /\ set \in SUBSET Nat /\ incoming \in Nat
      /\ session \in Sessions \union {0} /\ size \in {0, Capacity} /\ Capacity \in Nat
  BY ConstantsAssumption DEF TypeOK
<1>2. session \in Sessions /\ NewPackage \in Package
  <2>1. session # 0
    BY DEF Add, AddFound, AddFirst, AddDropped, AddNext, AddHole, InLoop
  <2> QED
    BY <1>1, <2>1, PackageHas DEF NewPackage
<1>3. /\ Consecutive(packages) /\ set \subseteq Holes(packages)
      /\ Len(packages) <= (IF Capacity = 0 THEN 1 ELSE Capacity)
      /\ packages # <<>> => size = Capacity
  BY BufferInvIs
<1>4. CASE AddFound
  <2>1. /\ packages' = [i \in DOMAIN packages |->
                          IF packages[i].num = incoming
                            THEN [num |-> incoming, data |-> session]
                            ELSE packages[i]]
        /\ set' = set \ {incoming} /\ size' = size
    BY <1>4 DEF AddFound, NewPackage
  <2>2. /\ packages' \in Seq(Package) /\ Len(packages') = Len(packages)
        /\ Consecutive(packages') /\ Holes(packages) \ {incoming} \subseteq Holes(packages')
    BY <1>1, <1>2, <1>3, <2>1, FillKeeps, ZenonT(40)
  <2>3. packages' # <<>> => packages # <<>>
    BY <1>1, <2>2
  <2> QED
    BY <1>3, <2>1, <2>2, <2>3, BufferInvIsNext
<1>5. CASE AddFirst
  <2>1. /\ packages = <<>> /\ packages' = <<NewPackage>> /\ size' = Capacity
        /\ set' = set
    BY <1>5 DEF AddFirst
  <2>2. set = {}
    BY <1>3, <2>1 DEF Holes
  <2>3. Len(packages') = 1 /\ DOMAIN packages' = 1..1
    BY <2>1
  <2>4. Consecutive(packages')
    <3>1. packages'[1].num \in Nat
      BY <1>2, <2>1, PackageHas
    <3> QED
      BY <2>3, <3>1 DEF Consecutive
  <2> QED
    BY <1>1, <2>1, <2>2, <2>3, <2>4, BufferInvIsNext
<1>6. CASE AddDropped
  <2>1. packages' = packages /\ set' = set /\ size' = size
    BY <1>6 DEF AddDropped, bufferVars
  <2> QED
    BY <1>3, <2>1, BufferInvIsNext
<1>7. CASE AddNext
  <2>1. /\ packages # <<>> /\ Len(packages) < size /\ incoming = packages[Len(packages)].num + 1
        /\ packages' = Append(packages, [num |-> incoming, data |-> session])
        /\ set' = set /\ size' = size
    BY <1>7 DEF AddNext, InLoop, Back, NewPackage
  <2>2. /\ packages' \in Seq(Package) /\ Len(packages') = Len(packages) + 1
        /\ Consecutive(packages') /\ Holes(packages) \subseteq Holes(packages')
    BY <1>1, <1>2, <1>3, <2>1, AppendKeeps
  <2>3. Len(packages) \in Nat /\ size = Capacity
    BY <1>1, <1>3, <2>1
  <2>4. Len(packages') <= IF Capacity = 0 THEN 1 ELSE Capacity
    BY <1>1, <2>1, <2>2, <2>3
  <2> QED
    BY <1>3, <2>1, <2>2, <2>3, <2>4, BufferInvIsNext
<1>8. CASE AddHole
  <2> DEFINE n == packages[Len(packages)].num + 1
             longer == Append(packages, [num |-> n, data |-> Hole])
             larger == set \union {n}
  <2>1. /\ packages # <<>> /\ Len(packages) < size /\ size' = size
        /\ \/ /\ Len(longer) = size /\ packages' = Tail(longer)
              /\ set' = larger \ Forgotten(longer, larger)
           \/ packages' = longer /\ set' = larger
    BY <1>8 DEF AddHole, InLoop, Back
  <2>2. Hole \in Sessions \union {Hole}
    OBVIOUS
  <2>3. /\ longer \in Seq(Package) /\ longer # <<>> /\ Len(longer) = Len(packages) + 1
        /\ Consecutive(longer) /\ Holes(packages) \subseteq Holes(longer)
        /\ n \in Holes(longer) /\ n \in Nat
    BY <1>1, <1>3, <2>1, <2>2, AppendKeeps
  <2>4. Len(packages) \in Nat /\ Len(packages) >= 1 /\ size = Capacity
    BY <1>1, <1>3, <2>1
  <2>5. larger \subseteq Holes(longer) /\ larger \in SUBSET Nat
    BY <1>1, <1>3, <2>3
  <2> HIDE DEF longer, larger, n
  <2>6. CASE packages' = longer /\ set' = larger
    <3>1. Len(packages') <= IF Capacity = 0 THEN 1 ELSE Capacity
      BY <1>1, <2>1, <2>3, <2>4, <2>6
    <3> QED
      BY <2>1, <2>3, <2>4, <2>5, <2>6, <3>1, BufferInvIsNext
  <2>7. CASE /\ Len(longer) = size /\ packages' = Tail(longer)
             /\ set' = larger \ Forgotten(longer, larger)
    <3>1. longer[1].num \in larger => longer[1].num \in Forgotten(longer, larger)
      BY <2>3, <2>4, <2>5, <2>7, FrontIsForgotten
    <3>2. \A m \in set' : m \in Holes(longer) /\ m # longer[1].num
      BY <2>5, <2>7, <3>1
    <3>3. /\ Consecutive(packages') /\ Len(packages') = Len(longer) - 1
          /\ \A m : m \in Holes(longer) /\ (longer[1].data = Hole => m # longer[1].num)
                      => m \in Holes(packages')
      BY <2>3, <2>7, TailKeeps
    <3>4. set' \subseteq Holes(packages')
      BY <3>2, <3>3
    <3>5. Len(packages') <= IF Capacity = 0 THEN 1 ELSE Capacity
      BY <1>1, <2>3, <2>4, <2>7, <3>3
    <3> QED
      BY <2>1, <2>4, <3>3, <3>4, <3>5, BufferInvIsNext
  <2> QED
    BY <2>1, <2>6, <2>7
<1> QED
  BY <1>4, <1>5, <1>6, <1>7, <1>8 DEF Add

\* The printing thread takes the front out, or empties the buffer.
LEMMA PopKeepsBuffer ==
  ASSUME TypeOK, BufferInv, PrintPop
  PROVE  BufferInv'
<1>1. packages \in Seq(Package) /\ Capacity \in Nat /\ packages # <<>> /\ size' = size
  BY ConstantsAssumption DEF TypeOK, PrintPop, printOthers
<1>2. /\ Consecutive(packages) /\ set \subseteq Holes(packages)
      /\ Len(packages) <= (IF Capacity = 0 THEN 1 ELSE Capacity)
      /\ size = Capacity
  BY <1>1, BufferInvIs
<1>3. CASE packages' = <<>> /\ set' = {}
  BY <1>1, <1>3, BufferInvIsNext DEF Consecutive
<1>4. CASE packages[1].data # Hole /\ packages' = Tail(packages) /\ set' = set
  <2>1. /\ Consecutive(packages') /\ Len(packages') = Len(packages) - 1
        /\ \A m : m \in Holes(packages) => m \in Holes(packages')
    BY <1>1, <1>2, <1>4, TailKeeps
  <2>2. Len(packages) \in Nat
    BY <1>1
  <2>3. Len(packages') <= IF Capacity = 0 THEN 1 ELSE Capacity
    BY <1>1, <1>2, <2>1, <2>2
  <2>4. set' \subseteq Holes(packages')
    BY <1>2, <1>4, <2>1
  <2> QED
    BY <1>1, <1>2, <2>1, <2>3, <2>4, BufferInvIsNext
<1> QED
  BY <1>1, <1>3, <1>4 DEF PrintPop

LEMMA NextBufferInv ==
  ASSUME TypeOK, BufferInv, data_pc = "add" => session # 0, [Next]_vars
  PROVE  BufferInv'
<1>1. CASE Add
  BY <1>1, AddKeepsBuffer
<1>2. CASE PrintPop
  BY <1>2, PopKeepsBuffer
<1>3. CASE DataReset
  <2>1. packages' = <<>> /\ set' = {}
    BY <1>3 DEF DataReset
  <2> QED
    BY <2>1, ConstantsAssumption, BufferInvIsNext DEF Consecutive
<1>4. CASE UNCHANGED bufferVars
  BY <1>4 DEF BufferInv, Contiguous, Bounded, SetPointsToHoles, Missing, Sized, bufferVars
<1>5. Add \/ PrintPop \/ DataReset \/ UNCHANGED bufferVars
  <2> USE DEF bufferVars
  <2>1. CASE Data
    BY <2>1 DEF Data, DataStart, DataStationChanged, DataIdle, DataRecv, DataLock,
         DataSpawn, try_close_threads, DataStop, DataJoinPrinting, DataJoinRequesting
  <2>2. CASE Printing
    BY <2>2 DEF Printing, PrintLock, PrintStop, PrintWrite, PrintFlag, printOthers
  <2>3. CASE \E r \in Runs : Request(r)
    BY <2>3 DEF Request, ReqLoop, ReqCopy, ReqSend, ReqIdle, reqOthers
  <2>4. CASE catch_interput
    BY <2>4 DEF catch_interput
  <2>5. CASE UNCHANGED vars
    BY <2>5 DEF vars
  <2> QED
    BY <2>1, <2>2, <2>3, <2>4, <2>5 DEF Next, Step, Terminated
<1> QED
  BY <1>1, <1>2, <1>3, <1>4, <1>5

-----------------------------------------------------------------------------
(* The printing thread, the session and the mutex *)

LEMMA NextPrinterAccounted ==
  ASSUME TypeOK, PrinterAccounted, data_pc = "join_requesting" => print_pc = "none",
         [Next]_vars
  PROVE  PrinterAccounted'
<1> USE DEF PrinterAccounted, dataVars, printVars
<1>1. CASE DataStart
  BY <1>1 DEF DataStart
<1>2. CASE DataStationChanged
  BY <1>2 DEF DataStationChanged
<1>3. CASE DataIdle
  BY <1>3 DEF DataIdle
<1>4. CASE DataRecv
  BY <1>4 DEF DataRecv
<1>5. CASE DataLock
  BY <1>5 DEF DataLock
<1>6. CASE Add
  BY <1>6 DEF Add, AddFound, AddFirst, AddDropped, AddNext, AddHole, AddReturns, addOthers,
     InLoop
<1>7. CASE DataSpawn
  BY <1>7 DEF DataSpawn
<1>8. CASE try_close_threads
  BY <1>8 DEF try_close_threads
<1>9. CASE DataReset
  BY <1>9 DEF DataReset
<1>10. CASE DataStop
  BY <1>10 DEF DataStop
<1>11. CASE DataJoinPrinting
  BY <1>11 DEF DataJoinPrinting
<1>12. CASE DataJoinRequesting
  BY <1>12 DEF DataJoinRequesting
<1>13. CASE Printing
  BY <1>13 DEF Printing, PrintLock, PrintPop, PrintStop, PrintWrite, PrintFlag, printOthers
<1>14. CASE \E r \in Runs : Request(r)
  BY <1>14 DEF Request, ReqLoop, ReqCopy, ReqSend, ReqIdle, reqOthers
<1>15. CASE catch_interput
  BY <1>15 DEF catch_interput
<1>16. CASE UNCHANGED vars
  BY <1>16 DEF vars
<1> QED
  BY <1>1, <1>2, <1>3, <1>4, <1>5, <1>6, <1>7, <1>8, <1>9, <1>10, <1>11, <1>12,
     <1>13, <1>14, <1>15, <1>16
     DEF Next, Step, Terminated, Data

LEMMA PlaysThisSessionIs ==
  /\ PlaysThisSession <=> /\ print_pc = "write" => package.data = session
                          /\ OfSession(packages, session)
  /\ PlaysThisSession' <=> /\ print_pc' = "write" => package'.data = session'
                           /\ OfSession(packages', session')
  BY DEF PlaysThisSession, OfSession

\* An empty buffer is of every session.
LEMMA EmptyIsOfSession == \A s : OfSession(<<>>, s)
  BY DEF OfSession

\* A turn of add_to_buffor stores this session's packet or a hole.
LEMMA AddKeepsSession ==
  ASSUME TypeOK, Contiguous, OfSession(packages, session), session # 0, Add
  PROVE  OfSession(packages', session)
<1>1. /\ packages \in Seq(Package) /\ incoming \in Nat /\ session \in Sessions
  BY DEF TypeOK
<1>2. Consecutive(packages)
  BY DEF Contiguous, Consecutive
<1>3. CASE AddFound
  <2>1. packages' = [i \in DOMAIN packages |->
                       IF packages[i].num = incoming
                         THEN [num |-> incoming, data |-> session]
                         ELSE packages[i]]
    BY <1>3 DEF AddFound, NewPackage
  <2> QED
    BY <1>1, <2>1, FillKeeps
<1>4. CASE AddFirst
  <2>1. packages' = <<NewPackage>> /\ NewPackage.data = session
    BY <1>4 DEF AddFirst, NewPackage
  <2>2. DOMAIN packages' = 1..1
    BY <2>1
  <2> QED
    BY <2>1, <2>2 DEF OfSession
<1>5. CASE AddDropped
  BY <1>5 DEF AddDropped, bufferVars
<1>6. CASE AddNext
  <2>1. /\ packages # <<>> /\ incoming = packages[Len(packages)].num + 1
        /\ packages' = Append(packages, [num |-> incoming, data |-> session])
    BY <1>6 DEF AddNext, InLoop, Back, NewPackage
  <2> QED
    BY <1>1, <1>2, <2>1, AppendKeeps
<1>7. CASE AddHole
  <2> DEFINE longer == Append(packages, [num |-> packages[Len(packages)].num + 1,
                                         data |-> Hole])
  <2>1. packages # <<>> /\ packages' \in {longer, Tail(longer)}
    BY <1>7 DEF AddHole, InLoop, Back
  <2>2. longer \in Seq(Package) /\ longer # <<>> /\ OfSession(longer, session)
    BY <1>1, <1>2, <2>1, AppendKeeps
  <2> HIDE DEF longer
  <2>3. OfSession(Tail(longer), session)
    BY <2>2, TailKeeps
  <2> QED
    BY <2>1, <2>2, <2>3
<1> QED
  BY <1>3, <1>4, <1>5, <1>6, <1>7 DEF Add

LEMMA NextSessionInv ==
  ASSUME TypeOK, Contiguous, PrinterAccounted, SessionInv, [Next]_vars
  PROVE  SessionInv'
<1> USE DEF bufferVars, dataVars, printVars, reqVars
<1>0. /\ OfSession(packages, session)
      /\ print_pc = "write" => package.data = session
      /\ Places /\ Playing
  BY PlaysThisSessionIs DEF SessionInv
<1> SUFFICES /\ OfSession(packages', session')
             /\ print_pc' = "write" => package'.data = session'
             /\ Places' /\ Playing'
  BY PlaysThisSessionIs DEF SessionInv
<1>1. CASE DataStart
  BY <1>0, <1>1 DEF DataStart, Places, Playing
<1>2. CASE DataStationChanged
  BY <1>0, <1>2 DEF DataStationChanged, Places, Playing
<1>3. CASE DataIdle
  BY <1>0, <1>3 DEF DataIdle, Places, Playing
<1>4. CASE DataRecv
  <2>1. PICK s \in Sessions, n \in 0..MaxNum :
          \/ /\ session \in {0, s}
             /\ session' = s /\ incoming' = n
             /\ data_pc' = "lock"
          \/ /\ s < session
             /\ data_pc' = IF finish THEN "reset" ELSE "top"
             /\ UNCHANGED <<session, incoming>>
          \/ /\ session # 0 /\ s > session
             /\ data_pc' = "reset"
             /\ UNCHANGED <<session, incoming>>
    BY <1>4 DEF DataRecv
  <2>2. s # 0
    BY SessionsAreNumbers
  <2>3. packages' = packages /\ print_pc' = print_pc /\ package' = package
    BY <1>4 DEF DataRecv
  <2>4. data_pc' \in {"lock", "reset", "top"}
    BY <2>1
  <2>5. CASE session' = session
    BY <1>0, <2>1, <2>2, <2>3, <2>4, <2>5 DEF Places, Playing
  <2>6. CASE session = 0 /\ session' = s
    <3>1. packages' = <<>> /\ print_pc # "write"
      BY <1>0, <2>3, <2>6 DEF Places, Playing
    <3> QED
      BY <2>2, <2>3, <2>4, <2>6, <3>1, EmptyIsOfSession DEF Places, Playing
  <2> QED
    BY <2>1, <2>5, <2>6
<1>5. CASE DataLock
  BY <1>0, <1>5 DEF DataLock, Places, Playing
<1>6. CASE Add
  <2>1. data_pc = "add" /\ session # 0
    BY <1>0, <1>6 DEF Add, AddFound, AddFirst, AddDropped, AddNext, AddHole, InLoop, Places
  <2>2. OfSession(packages', session)
    BY <1>0, <1>6, <2>1, AddKeepsSession
  <2>3. /\ session' = session /\ print_pc' = print_pc /\ package' = package
        /\ data_pc' \in {"add", "spawn"}
    BY <1>6, <2>1 DEF Add, AddFound, AddFirst, AddDropped, AddNext, AddHole, AddReturns,
       addOthers
  <2> QED
    BY <1>0, <2>1, <2>2, <2>3 DEF Places, Playing
<1>7. CASE DataSpawn
  BY <1>0, <1>7 DEF DataSpawn, Places, Playing
<1>8. CASE try_close_threads
  BY <1>0, <1>8 DEF try_close_threads, Places, Playing
<1>9. CASE DataReset
  <2>1. /\ packages' = <<>> /\ data_pc' = "stop" /\ session' = session
        /\ print_pc' = print_pc /\ package' = package
    BY <1>9 DEF DataReset
  <2> QED
    BY <1>0, <2>1, EmptyIsOfSession DEF Places, Playing
<1>10. CASE DataStop
  BY <1>0, <1>10 DEF DataStop, Places, Playing
<1>11. CASE DataJoinPrinting
  BY <1>0, <1>11 DEF DataJoinPrinting, Places, Playing, PrinterAccounted
<1>12. CASE DataJoinRequesting
  BY <1>0, <1>12, EmptyIsOfSession DEF DataJoinRequesting, Places, Playing
<1>13. CASE PrintPop
  <2>1. /\ packages \in Seq(Package) /\ packages # <<>>
        /\ session' = session /\ data_pc' = data_pc
    BY <1>13 DEF PrintPop, printOthers, TypeOK
  <2>2. CASE packages' = <<>> /\ print_pc' = "exited"
    BY <1>0, <2>1, <2>2, EmptyIsOfSession DEF Places, Playing
  <2>3. CASE /\ packages[1].data # Hole /\ package' = packages[1]
             /\ packages' = Tail(packages) /\ print_pc' = "write"
    <3>1. OfSession(packages', session)
      BY <1>0, <2>1, <2>3, TailKeeps
    <3>2. package'.data = session
      <4>1. 1 \in DOMAIN packages
        BY <2>1
      <4> QED
        BY <1>0, <2>3, <4>1 DEF OfSession
    <3>3. /\ session # 0
          /\ data_pc \notin {"stop", "join_printing", "join_requesting", "none"}
      BY <1>0, <2>1 DEF Places
    <3> QED
      BY <1>0, <2>1, <2>3, <3>1, <3>2, <3>3 DEF Places, Playing
  <2> QED
    BY <1>13, <2>1, <2>2, <2>3 DEF PrintPop
<1>14. CASE PrintLock
  BY <1>0, <1>14 DEF PrintLock, printOthers, Places, Playing
<1>15. CASE PrintStop
  BY <1>0, <1>15 DEF PrintStop, printOthers, Places, Playing
<1>16. CASE PrintWrite
  BY <1>0, <1>16 DEF PrintWrite, printOthers, Places, Playing
<1>17. CASE PrintFlag
  BY <1>0, <1>17 DEF PrintFlag, printOthers, Places, Playing
<1>18. CASE \E r \in Runs : Request(r)
  BY <1>0, <1>18 DEF Request, ReqLoop, ReqCopy, ReqSend, ReqIdle, reqOthers, Places, Playing
<1>19. CASE catch_interput
  BY <1>0, <1>19 DEF catch_interput, Places, Playing
<1>20. CASE UNCHANGED vars
  BY <1>0, <1>20 DEF vars, Places, Playing
<1> QED
  BY <1>1, <1>2, <1>3, <1>4, <1>5, <1>6, <1>7, <1>8, <1>9, <1>10, <1>11, <1>12, <1>13,
     <1>14, <1>15, <1>16, <1>17, <1>18, <1>19, <1>20
     DEF Next, Step, Terminated, Data, Printing

\* Whoever is let in finds nobody inside, unless a requester has unlocked for
\* another thread before.
LEMMA NextLockInv ==
  ASSUME TypeOK, LockInv, [Next]_vars
  PROVE  LockInv'
<1> USE DEF LockInv, Held, OverlapOnlyAfterIdleRequest, lock, DataInside, PrintInside,
            bufferVars, dataVars, printVars, reqVars
<1>1. CASE DataLock
  BY <1>1 DEF DataLock
<1>2. CASE DataSpawn
  BY <1>2 DEF DataSpawn
<1>3. CASE DataReset
  BY <1>3 DEF DataReset
<1>4. CASE PrintLock
  BY <1>4 DEF PrintLock, printOthers
<1>5. ASSUME NEW r \in Runs, ReqCopy(r) PROVE LockInv'
  BY <1>5 DEF ReqCopy, reqOthers
<1>6. ASSUME NEW r \in Runs, ReqIdle(r) PROVE LockInv'
  BY <1>6 DEF ReqIdle, reqOthers
<1>7. CASE Add
  BY <1>7 DEF Add, AddFound, AddFirst, AddDropped, AddNext, AddHole, AddReturns, addOthers,
     InLoop
<1>8. CASE PrintPop \/ PrintStop \/ PrintWrite \/ PrintFlag
  BY <1>8 DEF PrintPop, PrintStop, PrintWrite, PrintFlag, printOthers
<1>9. ASSUME NEW r \in Runs, ReqLoop(r) \/ ReqSend(r) PROVE LockInv'
  BY <1>9 DEF ReqLoop, ReqSend, reqOthers
<1>10. CASE DataStart
  BY <1>10 DEF DataStart
<1>11. CASE DataStationChanged \/ DataIdle
  BY <1>11 DEF DataStationChanged, DataIdle
<1>12. CASE DataRecv
  BY <1>12 DEF DataRecv
<1>13. CASE try_close_threads
  BY <1>13 DEF try_close_threads
<1>14. CASE DataStop \/ DataJoinPrinting \/ DataJoinRequesting
  BY <1>14 DEF DataStop, DataJoinPrinting, DataJoinRequesting
<1>15. CASE catch_interput
  BY <1>15 DEF catch_interput
<1>16. CASE UNCHANGED vars
  BY <1>16 DEF vars
<1> QED
  BY <1>1, <1>2, <1>3, <1>4, <1>5, <1>6, <1>7, <1>8, <1>9, <1>10, <1>11, <1>12, <1>13,
     <1>14, <1>15, <1>16
     DEF Next, Step, Terminated, Data, Printing, Request

-----------------------------------------------------------------------------
(* Theorems *)

LEMMA InitIInv == Init => IInv
<1> SUFFICES ASSUME Init PROVE IInv
  OBVIOUS
<1>1. TypeOK
  BY InitTypeOK
<1>2. BufferInv
  BY ConstantsAssumption, BufferInvIs DEF Init, Consecutive
<1>3. PrinterAccounted
  BY DEF Init, PrinterAccounted
<1>4. SessionInv
  BY PlaysThisSessionIs, EmptyIsOfSession DEF Init, SessionInv, Places, Playing
<1>5. LockInv
  BY DEF Init, LockInv, Held, OverlapOnlyAfterIdleRequest
<1> QED
  BY <1>1, <1>2, <1>3, <1>4, <1>5 DEF IInv

LEMMA NextIInv == IInv /\ [Next]_vars => IInv'
<1> SUFFICES ASSUME IInv, [Next]_vars PROVE IInv'
  OBVIOUS
<1>1. /\ TypeOK /\ BufferInv /\ PrinterAccounted /\ SessionInv /\ LockInv /\ Contiguous
      /\ data_pc = "add" => session # 0
      /\ data_pc = "join_requesting" => print_pc = "none"
  BY DEF IInv, BufferInv, SessionInv, Places
<1>2. TypeOK'
  BY <1>1, NextTypeOK
<1>3. BufferInv'
  BY <1>1, NextBufferInv
<1>4. PrinterAccounted'
  BY <1>1, NextPrinterAccounted
<1>5. SessionInv'
  BY <1>1, NextSessionInv
<1>6. LockInv'
  BY <1>1, NextLockInv
<1> QED
  BY <1>2, <1>3, <1>4, <1>5, <1>6 DEF IInv

\* The inductive invariant.
THEOREM PlayoutInvariance == Spec => []IInv
<1>1. Init => IInv
  BY InitIInv
<1>2. IInv /\ [Next]_vars => IInv'
  BY NextIInv
<1> QED
  BY <1>1, <1>2, PTL DEF Spec

\* Every variable keeps its type.
THEOREM PlayoutTypeOK == Spec => []TypeOK
<1>1. IInv => TypeOK
  BY DEF IInv
<1> QED
  BY <1>1, PlayoutInvariance, PTL

\* The buffer of big3/buffor.cpp is one stretch of consecutive numbers, whatever
\* order packets arrive in.
THEOREM PlayoutContiguous == Spec => []Contiguous
<1>1. IInv => Contiguous
  BY DEF IInv, BufferInv
<1> QED
  BY <1>1, PlayoutInvariance, PTL

\* The buffer stays within BSIZE.
THEOREM PlayoutBounded == Spec => []Bounded
<1>1. IInv => Bounded
  BY DEF IInv, BufferInv
<1> QED
  BY <1>1, PlayoutInvariance, PTL

\* No entry of the map of missing packets dangles, although add_to_buffor forgets
\* entries through an iterator it moves the wrong way round the list.
THEOREM PlayoutSetPointsToHoles == Spec => []SetPointsToHoles
<1>1. IInv => SetPointsToHoles
  BY DEF IInv, BufferInv
<1> QED
  BY <1>1, PlayoutInvariance, PTL

\* Nothing of an older session or station is buffered or played under a newer one.
THEOREM PlayoutPlaysThisSession == Spec => []PlaysThisSession
<1>1. IInv => PlaysThisSession
  BY DEF IInv, SessionInv
<1> QED
  BY <1>1, PlayoutInvariance, PTL

\* data_loop never starts a second printing thread and joins the one it started.
THEOREM PlayoutPrinterAccounted == Spec => []PrinterAccounted
<1>1. IInv => PrinterAccounted
  BY DEF IInv
<1> QED
  BY <1>1, PlayoutInvariance, PTL

\* Without the requester's second unlock the mutex keeps the threads apart.
THEOREM PlayoutOverlapOnlyAfterIdleRequest == Spec => []OverlapOnlyAfterIdleRequest
<1>1. IInv => OverlapOnlyAfterIdleRequest
  BY DEF IInv, LockInv
<1> QED
  BY <1>1, PlayoutInvariance, PTL

-----------------------------------------------------------------------------
(* The buffer by its numbers *)

\* Consecutive numbers make the list a function on an interval.
LEMMA NumberedIs ==
  ASSUME NEW p \in Seq(Package), Consecutive(p)
  PROVE  LET f == Numbered(p)
         IN  /\ f = [m \in DOMAIN f |-> f[m]]
             /\ p = <<>> => DOMAIN f = {}
             /\ p # <<>> => DOMAIN f = p[1].num .. p[1].num + Len(p) - 1
             /\ \A i \in DOMAIN p : p[i].num \in DOMAIN f /\ f[p[i].num] = p[i].data
             /\ \A m \in DOMAIN f : \E i \in DOMAIN p : p[i].num = m
<1> DEFINE at(n) == CHOOSE i \in DOMAIN p : p[i].num = n
           S == {p[i].num : i \in DOMAIN p}
           f == [n \in S |-> p[at(n)].data]
<1>1. Len(p) \in Nat /\ DOMAIN p = 1..Len(p) /\ (p # <<>> => 1 \in 1..Len(p))
  OBVIOUS
<1>2. \A i \in DOMAIN p : p[i].num \in Nat /\ p[i].num = p[1].num + i - 1
  BY PackageHas DEF Consecutive
<1>3. \A i, j \in DOMAIN p : p[i].num = p[j].num => i = j
  <2> SUFFICES ASSUME NEW i \in DOMAIN p, NEW j \in DOMAIN p, p[i].num = p[j].num
               PROVE  i = j
    OBVIOUS
  <2>1. p[1].num \in Nat /\ i \in Nat /\ j \in Nat
    BY <1>1, <1>2
  <2>2. p[1].num + i - 1 = p[1].num + j - 1
    BY <1>2
  <2> HIDE DEF f, S
  <2> QED
    BY <2>1, <2>2
<1>4. ASSUME NEW i \in DOMAIN p PROVE f[p[i].num] = p[i].data
  <2>1. at(p[i].num) \in DOMAIN p /\ p[at(p[i].num)].num = p[i].num
    OBVIOUS
  <2>2. at(p[i].num) = i
    BY <1>3, <2>1
  <2>3. p[i].num \in S
    OBVIOUS
  <2> QED
    BY <2>2, <2>3
<1>5. p = <<>> => S = {}
  OBVIOUS
<1>6. ASSUME p # <<>> PROVE S = p[1].num .. p[1].num + Len(p) - 1
  <2>1. p[1].num \in Nat
    BY <1>1, <1>2, <1>6
  <2>2. ASSUME NEW m \in S PROVE m \in p[1].num .. p[1].num + Len(p) - 1
    <3>1. PICK i \in DOMAIN p : m = p[i].num
      OBVIOUS
    <3>2. i \in 1..Len(p) /\ m = p[1].num + i - 1
      BY <1>1, <1>2, <3>1
    <3> HIDE DEF S, f
    <3> QED
      BY <1>1, <2>1, <3>2
  <2>3. ASSUME NEW m \in p[1].num .. p[1].num + Len(p) - 1 PROVE m \in S
    <3> DEFINE i == m - p[1].num + 1
    <3>1. i \in 1..Len(p) /\ p[1].num + i - 1 = m
      BY <1>1, <2>1
    <3>2. p[i].num = m
      BY <1>1, <1>2, <3>1, Zenon
    <3> HIDE DEF i
    <3> QED
      BY <1>1, <3>1, <3>2
  <2> QED
    BY <2>2, <2>3
<1>7. Numbered(p) = f
  BY DEF Numbered
<1>8. DOMAIN f = S /\ f = [m \in DOMAIN f |-> f[m]]
  OBVIOUS
<1>9. /\ \A m \in S : \E i \in DOMAIN p : p[i].num = m
      /\ \A i \in DOMAIN p : p[i].num \in S
  OBVIOUS
<1> HIDE DEF f, S
<1> QED
  BY <1>4, <1>5, <1>6, <1>7, <1>8, <1>9

LEMMA NumberedEmpty == Numbered(<<>>) = PlayBuffer!Empty
  BY DEF Numbered, PlayBuffer!Empty

LEMMA NumberedOne ==
  ASSUME NEW n, NEW d
  PROVE  Numbered(<<[num |-> n, data |-> d]>>) = [m \in {n} |-> d]
<1> DEFINE p == <<[num |-> n, data |-> d]>>
<1>1. DOMAIN p = {1} /\ p[1].num = n /\ p[1].data = d
  OBVIOUS
<1> HIDE DEF p
<1>2. {p[i].num : i \in DOMAIN p} = {n}
  BY <1>1
<1>3. (CHOOSE i \in DOMAIN p : p[i].num = n) = 1
  BY <1>1
<1>4. Numbered(p) = [m \in {n} |-> d]
  BY <1>1, <1>2, <1>3 DEF Numbered
<1> QED
  BY <1>4 DEF p

LEMMA NonEmptyLength ==
  ASSUME NEW p \in Seq(Package), p # <<>>
  PROVE  Len(p) \in Nat /\ Len(p) >= 1
  OBVIOUS

\* A payload in a place of the list is one under its number.
LEMMA NumberedFills ==
  ASSUME NEW p \in Seq(Package), Consecutive(p),
         NEW n \in Holes(p), NEW d \in Sessions
  PROVE  LET q == [i \in DOMAIN p |->
                     IF p[i].num = n THEN [num |-> n, data |-> d] ELSE p[i]]
         IN  /\ n \in DOMAIN Numbered(p) /\ Numbered(p)[n] = Hole
             /\ Numbered(q) = [Numbered(p) EXCEPT ![n] = d]
<1> DEFINE q == [i \in DOMAIN p |->
                   IF p[i].num = n THEN [num |-> n, data |-> d] ELSE p[i]]
           f == Numbered(p)
           g == Numbered(q)
<1>1. PICK k \in DOMAIN p : p[k].num = n /\ p[k].data = Hole
  BY DEF Holes
<1>2. n \in Nat
  BY <1>1, PackageHas
<1>3. q \in Seq(Package) /\ Consecutive(q) /\ Len(q) = Len(p)
  BY <1>2, FillKeeps
<1>4. DOMAIN q = DOMAIN p
  OBVIOUS
<1>5. \A i \in DOMAIN p : /\ q[i].num = p[i].num
                          /\ q[i].data = IF p[i].num = n THEN d ELSE p[i].data
  OBVIOUS
<1> HIDE DEF q
<1>6. /\ f = [m \in DOMAIN f |-> f[m]]
      /\ \A i \in DOMAIN p : p[i].num \in DOMAIN f /\ f[p[i].num] = p[i].data
      /\ \A m \in DOMAIN f : \E i \in DOMAIN p : p[i].num = m
  BY NumberedIs
<1>7. /\ g = [m \in DOMAIN g |-> g[m]]
      /\ \A i \in DOMAIN q : q[i].num \in DOMAIN g /\ g[q[i].num] = q[i].data
      /\ \A m \in DOMAIN g : \E i \in DOMAIN q : q[i].num = m
  BY <1>3, NumberedIs
<1> HIDE DEF f, g
<1>12. /\ \A i \in DOMAIN p : /\ p[i].num \in DOMAIN g
                              /\ g[p[i].num] = IF p[i].num = n THEN d ELSE p[i].data
       /\ \A m \in DOMAIN g : \E i \in DOMAIN p : p[i].num = m
  <2>1. ASSUME NEW i \in DOMAIN p
        PROVE  /\ p[i].num \in DOMAIN g
               /\ g[p[i].num] = IF p[i].num = n THEN d ELSE p[i].data
    <3>1. q[i].num \in DOMAIN g /\ g[q[i].num] = q[i].data
      BY <1>4, <1>7
    <3> QED
      BY <1>5, <3>1
  <2>2. ASSUME NEW m \in DOMAIN g PROVE \E i \in DOMAIN p : p[i].num = m
    <3>1. PICK i \in DOMAIN q : q[i].num = m
      BY <1>7
    <3> QED
      BY <1>4, <1>5, <3>1
  <2> QED
    BY <2>1, <2>2
<1>8. DOMAIN g = DOMAIN f
  <2>1. \A m : m \in DOMAIN g => m \in DOMAIN f
    BY <1>6, <1>12
  <2>2. \A m : m \in DOMAIN f => m \in DOMAIN g
    BY <1>6, <1>12
  <2> QED
    BY <2>1, <2>2
<1>9. \A m \in DOMAIN f : g[m] = IF m = n THEN d ELSE f[m]
  BY <1>6, <1>12
<1>10. g = [f EXCEPT ![n] = d]
  BY <1>6, <1>7, <1>8, <1>9
<1>11. n \in DOMAIN f /\ f[n] = Hole
  BY <1>1, <1>6
<1> QED
  BY <1>10, <1>11 DEF f, g, q

\* A package at the back of the list continues the interval.
LEMMA NumberedAppends ==
  ASSUME NEW p \in Seq(Package), p # <<>>, Consecutive(p),
         NEW d \in Sessions \union {Hole}
  PROVE  LET first == p[1].num
             last  == p[Len(p)].num
             q     == Append(p, [num |-> last + 1, data |-> d])
         IN  /\ first \in Nat /\ last \in Nat /\ last = first + Len(p) - 1
             /\ DOMAIN Numbered(p) = first .. last
             /\ Numbered(q) = [m \in first .. last + 1 |->
                                 IF m = last + 1 THEN d ELSE Numbered(p)[m]]
<1> DEFINE first == p[1].num
           last  == p[Len(p)].num
           x     == [num |-> last + 1, data |-> d]
           q     == Append(p, x)
           f     == Numbered(p)
           g     == Numbered(q)
<1>1. Len(p) \in Nat /\ Len(p) >= 1 /\ DOMAIN p = 1..Len(p)
  OBVIOUS
<1>2. first \in Nat /\ last \in Nat
  BY <1>1, PackageHas
<1>3. last = first + Len(p) - 1
  BY <1>1 DEF Consecutive
<1>4. /\ q \in Seq(Package) /\ q # <<>> /\ Len(q) = Len(p) + 1
      /\ Consecutive(q) /\ q[1] = p[1]
  BY AppendKeeps
<1>5. x \in Package /\ x.num = last + 1 /\ x.data = d
  <2> HIDE DEF last
  <2>1. last + 1 \in Nat
    BY <1>2
  <2> QED
    BY <2>1, PackageHas
<1> HIDE DEF x
<1>6. /\ DOMAIN q = 1..Len(p) + 1
      /\ \A i \in 1..Len(p) : q[i] = p[i]
      /\ q[Len(p) + 1] = x
  BY <1>1, <1>5
<1> HIDE DEF q
<1>7. /\ DOMAIN f = first .. first + Len(p) - 1
      /\ \A i \in DOMAIN p : p[i].num \in DOMAIN f /\ f[p[i].num] = p[i].data
      /\ \A m \in DOMAIN f : \E i \in DOMAIN p : p[i].num = m
  BY NumberedIs
<1>8. /\ g = [m \in DOMAIN g |-> g[m]]
      /\ DOMAIN g = first .. first + Len(q) - 1
      /\ \A i \in DOMAIN q : g[q[i].num] = q[i].data
  BY <1>4, NumberedIs
<1> HIDE DEF f, g, first, last
<1>9. DOMAIN f = first .. last /\ DOMAIN g = first .. last + 1
  BY <1>1, <1>2, <1>3, <1>4, <1>7, <1>8
<1>10. g[last + 1] = d
  <2>1. Len(p) + 1 \in DOMAIN q
    BY <1>1, <1>6
  <2> QED
    BY <1>5, <1>6, <1>8, <2>1
<1>11. ASSUME NEW m \in first .. last + 1, m # last + 1 PROVE g[m] = f[m]
  <2>1. m \in DOMAIN f
    BY <1>2, <1>9, <1>11
  <2>2. PICK i \in DOMAIN p : p[i].num = m
    BY <1>7, <2>1
  <2>3. i \in DOMAIN q /\ q[i] = p[i]
    BY <1>1, <1>6
  <2> QED
    BY <1>7, <1>8, <2>2, <2>3
<1>12. g = [m \in first .. last + 1 |-> IF m = last + 1 THEN d ELSE f[m]]
  BY <1>8, <1>9, <1>10, <1>11
<1> QED
  BY <1>2, <1>3, <1>9, <1>12 DEF f, g, q, x, first, last

\* Without its front the list is the interval without its first number.
LEMMA NumberedTail ==
  ASSUME NEW p \in Seq(Package), p # <<>>, Consecutive(p)
  PROVE  LET first == p[1].num
             last  == p[Len(p)].num
         IN  /\ first \in Nat /\ last \in Nat /\ last = first + Len(p) - 1
             /\ first <= last /\ DOMAIN Numbered(p) = first .. last
             /\ Numbered(p)[first] = p[1].data
             /\ Numbered(Tail(p)) = [m \in first + 1 .. last |-> Numbered(p)[m]]
<1> DEFINE first == p[1].num
           last  == p[Len(p)].num
           q     == Tail(p)
           f     == Numbered(p)
           g     == Numbered(q)
<1>1. Len(p) \in Nat /\ Len(p) >= 1 /\ DOMAIN p = 1..Len(p) /\ 1 \in 1..Len(p)
  OBVIOUS
<1>2. first \in Nat /\ last \in Nat
  BY <1>1, PackageHas
<1>3. last = first + Len(p) - 1
  BY <1>1 DEF Consecutive
<1>4. q \in Seq(Package) /\ Consecutive(q) /\ Len(q) = Len(p) - 1
  BY TailKeeps
<1>5. DOMAIN q = 1..Len(q) /\ \A i \in 1..Len(q) : q[i] = p[i + 1]
  OBVIOUS
<1> HIDE DEF q
<1>6. q = <<>> <=> Len(p) = 1
  BY <1>1, <1>4
<1>7. /\ DOMAIN f = first .. first + Len(p) - 1
      /\ \A i \in DOMAIN p : p[i].num \in DOMAIN f /\ f[p[i].num] = p[i].data
  BY NumberedIs
<1>8. /\ g = [m \in DOMAIN g |-> g[m]]
      /\ q = <<>> => DOMAIN g = {}
      /\ q # <<>> => DOMAIN g = q[1].num .. q[1].num + Len(q) - 1
      /\ \A i \in DOMAIN q : q[i].num \in DOMAIN g /\ g[q[i].num] = q[i].data
      /\ \A m \in DOMAIN g : \E i \in DOMAIN q : q[i].num = m
  BY <1>4, NumberedIs
<1> HIDE DEF f, g
<1>9. DOMAIN g = first + 1 .. last
  <2>1. CASE Len(p) = 1
    <3>1. first + 1 .. last = {}
      <4> HIDE DEF first, last
      <4> QED
        BY <1>2, <1>3, <2>1
    <3> QED
      BY <1>6, <1>8, <2>1, <3>1
  <2>2. CASE Len(p) # 1
    <3>1. q[1].num = first + 1
      <4>0. 1 \in 1..Len(q) /\ 1 + 1 = 2
        BY <1>1, <1>4, <2>2
      <4>1. q[1] = p[2] /\ 2 \in DOMAIN p
        BY <1>1, <1>4, <1>5, <4>0
      <4>2. p[2].num = first + 2 - 1
        BY <4>1 DEF Consecutive
      <4> HIDE DEF first, last
      <4> QED
        BY <1>2, <4>1, <4>2
    <3>2. DOMAIN g = first + 1 .. first + 1 + Len(q) - 1
      BY <1>6, <1>8, <2>2, <3>1
    <3> HIDE DEF first, last
    <3> QED
      BY <1>1, <1>2, <1>3, <1>4, <3>2
  <2> QED
    BY <2>1, <2>2
<1>10. ASSUME NEW m \in first + 1 .. last PROVE g[m] = f[m]
  <2>1. PICK i \in DOMAIN q : q[i].num = m
    BY <1>8, <1>9
  <2>2. i + 1 \in DOMAIN p /\ q[i] = p[i + 1]
    BY <1>1, <1>4, <1>5
  <2> QED
    BY <1>7, <1>8, <2>1, <2>2
<1>11. g = [m \in first + 1 .. last |-> f[m]]
  BY <1>8, <1>9, <1>10
<1>12. f[first] = p[1].data
  BY <1>1, <1>7 DEF first
<1>13. first <= last /\ DOMAIN f = first .. last
  <2> HIDE DEF first, last
  <2> QED
    BY <1>1, <1>2, <1>3, <1>7
<1> QED
  BY <1>2, <1>3, <1>11, <1>12, <1>13 DEF f, g, q, first, last
-----------------------------------------------------------------------------
(* Playout implements PlayBuffer *)

\* A package outside the buffer is one being written, and what data_loop adds was
\* on the network.
OutsideInv ==
  /\ print_pc # "write" => package = NoPackage
  /\ incoming \in 0..MaxNum

LEMMA OutsideInvStep == PrinterAccounted /\ OutsideInv /\ [Next]_vars => OutsideInv'
<1> SUFFICES ASSUME PrinterAccounted, OutsideInv, [Next]_vars PROVE OutsideInv'
  OBVIOUS
<1> USE DEF OutsideInv, dataVars, printVars
<1>0. 0 \in 0..MaxNum
  BY ConstantsAssumption
<1>1. CASE DataRecv
  BY <1>1 DEF DataRecv
<1>2. CASE Add
  BY <1>0, <1>2 DEF Add, AddFound, AddFirst, AddDropped, AddNext, AddHole, AddReturns,
     addOthers
<1>3. CASE DataSpawn
  BY <1>3 DEF DataSpawn, PrinterAccounted
<1>4. CASE DataStart \/ DataStationChanged \/ DataIdle \/ DataLock
  BY <1>4 DEF DataStart, DataStationChanged, DataIdle, DataLock
<1>5. CASE try_close_threads \/ DataJoinPrinting
  BY <1>5 DEF try_close_threads, DataJoinPrinting
<1>6. CASE DataReset \/ DataStop \/ DataJoinRequesting
  BY <1>6 DEF DataReset, DataStop, DataJoinRequesting
<1>7. CASE Printing
  BY <1>7 DEF Printing, PrintLock, PrintPop, PrintStop, PrintWrite, PrintFlag, printOthers
<1>8. CASE \E r \in Runs : Request(r)
  BY <1>8 DEF Request, ReqLoop, ReqCopy, ReqSend, ReqIdle, reqOthers
<1>9. CASE catch_interput \/ UNCHANGED vars
  BY <1>9 DEF catch_interput, vars
<1> QED
  BY <1>1, <1>2, <1>3, <1>4, <1>5, <1>6, <1>7, <1>8, <1>9
     DEF Next, Step, Terminated, Data

\* The buffer that add_to_buffor finds holds one stream, the one of its packet.
LEMMA OneStreamIs ==
  ASSUME packages \in Seq(Package), Contiguous, PlaysThisSession, OutsideInv
  PROVE  PlayBuffer!OneStream(session)
<1> DEFINE f == Numbered(packages)
<1>1. Consecutive(packages) /\ OfSession(packages, session)
  BY PlaysThisSessionIs DEF Contiguous, Consecutive
<1>2. /\ \A i \in DOMAIN packages : f[packages[i].num] = packages[i].data
      /\ \A m \in DOMAIN f : \E i \in DOMAIN packages : packages[i].num = m
  BY <1>1, NumberedIs
<1> HIDE DEF f
<1>3. \A m \in DOMAIN f : f[m] \in {session, Hole}
  BY <1>1, <1>2 DEF OfSession
<1>4. package.data \in {session, Hole}
  BY DEF PlaysThisSession, OutsideInv, NoPackage
<1> QED
  BY <1>3, <1>4 DEF PlayBuffer!OneStream, f

\* One turn of add_to_buffor is a step of PlayBuffer: the packet takes its hole,
\* starts the buffer, is the next one, or a hole takes its place.
LEMMA AddImplements ==
  ASSUME IInv, OutsideInv, Add
  PROVE  PlayBuffer!Next \/ UNCHANGED <<packages, package>>
<1>1. /\ packages \in Seq(Package) /\ set \in SUBSET Nat /\ incoming \in 0..MaxNum
      /\ Capacity \in Nat /\ set \subseteq Holes(packages) /\ Consecutive(packages)
      /\ packages # <<>> => size = Capacity
  BY ConstantsAssumption, BufferInvIs DEF IInv, TypeOK, OutsideInv
<1>2. session \in Sessions /\ package' = package
  <2>1. session # 0 /\ package' = package
    BY DEF IInv, SessionInv, Places, Add, AddFound, AddFirst, AddDropped, AddNext, AddHole,
           InLoop, addOthers, printVars
  <2> QED
    BY <2>1 DEF IInv, TypeOK
<1>3. PlayBuffer!OneStream(session)
  BY <1>1, OneStreamIs DEF IInv, BufferInv, SessionInv
<1> DEFINE first == packages[1].num
           last  == packages[Len(packages)].num
<1>4. CASE AddFound
  <2>1. incoming \in Holes(packages)
    BY <1>1, <1>4 DEF AddFound
  <2>2. packages' = [i \in DOMAIN packages |->
                       IF packages[i].num = incoming
                         THEN [num |-> incoming, data |-> session] ELSE packages[i]]
    BY <1>4 DEF AddFound, NewPackage
  <2>3. /\ incoming \in DOMAIN Numbered(packages)
        /\ Numbered(packages)[incoming] = Hole
        /\ Numbered(packages') = [Numbered(packages) EXCEPT ![incoming] = session]
    BY <1>1, <1>2, <2>1, <2>2, NumberedFills
  <2>4. PlayBuffer!Fill
    BY <1>2, <1>3, <2>3 DEF PlayBuffer!Fill
  <2> QED
    BY <2>4 DEF PlayBuffer!Next
<1>5. CASE AddFirst
  <2>1. packages = <<>> /\ packages' = <<[num |-> incoming, data |-> session]>>
    BY <1>5 DEF AddFirst, NewPackage
  <2>2. Numbered(packages) = PlayBuffer!Empty
    BY <2>1, NumberedEmpty
  <2>3. Numbered(packages') = [m \in {incoming} |-> session]
    BY <2>1, NumberedOne
  <2>4. PlayBuffer!Start
    BY <1>1, <1>2, <1>3, <2>2, <2>3 DEF PlayBuffer!Start
  <2> QED
    BY <2>4 DEF PlayBuffer!Next
<1>6. CASE AddDropped
  BY <1>2, <1>6 DEF AddDropped, bufferVars
<1>7. CASE AddNext
  <2>1. /\ packages # <<>> /\ Len(packages) < Capacity /\ incoming = last + 1
        /\ packages' = Append(packages, [num |-> last + 1, data |-> session])
    BY <1>1, <1>7 DEF AddNext, InLoop, NewPackage, Back
  <2>2. /\ first \in Nat /\ last \in Nat /\ last = first + Len(packages) - 1
        /\ DOMAIN Numbered(packages) = first .. last
        /\ Numbered(packages') = [m \in first .. last + 1 |->
              IF m = last + 1 THEN session ELSE Numbered(packages)[m]]
    BY <1>1, <1>2, <2>1, NumberedAppends
  <2> HIDE DEF first, last
  <2>3. /\ first \in DOMAIN Numbered(packages) /\ last \in DOMAIN Numbered(packages)
        /\ first <= last /\ last + 1 < first + Capacity
    BY <1>1, <2>1, <2>2, NonEmptyLength
  <2>4. PlayBuffer!Spans(first, last)
    BY <2>2, <2>3 DEF PlayBuffer!Spans
  <2>5. PlayBuffer!Extend(first, last)
    BY <1>2, <1>3, <2>2, <2>3 DEF PlayBuffer!Extend
  <2> QED
    BY <2>3, <2>4, <2>5 DEF PlayBuffer!Next
<1>8. CASE AddHole
  <2> DEFINE longer == Append(packages, [num |-> last + 1, data |-> Hole])
             oldest == IF last + 2 = first + Capacity THEN first + 1 ELSE first
  <2>1. /\ packages # <<>> /\ Len(packages) < Capacity
        /\ packages' = IF Len(longer) = Capacity THEN Tail(longer) ELSE longer
    BY <1>1, <1>8 DEF AddHole, InLoop, Back
  <2>2. /\ longer \in Seq(Package) /\ longer # <<>> /\ Len(longer) = Len(packages) + 1
        /\ Consecutive(longer) /\ longer[1] = packages[1]
    BY <1>1, <2>1, AppendKeeps
  <2>3. /\ first \in Nat /\ last \in Nat /\ last = first + Len(packages) - 1
        /\ DOMAIN Numbered(packages) = first .. last
        /\ Numbered(longer) = [m \in first .. last + 1 |->
              IF m = last + 1 THEN Hole ELSE Numbered(packages)[m]]
    BY <1>1, <2>1, NumberedAppends
  <2>4. Numbered(Tail(longer)) = [m \in longer[1].num + 1 .. longer[Len(longer)].num
                                    |-> Numbered(longer)[m]]
        /\ longer[Len(longer)].num = longer[1].num + Len(longer) - 1
    BY <2>2, NumberedTail
  <2>5. longer[1].num = first
    BY <2>2
  <2> HIDE DEF first, last, longer
  <2>6. /\ first \in DOMAIN Numbered(packages) /\ last \in DOMAIN Numbered(packages)
        /\ first <= last /\ last + 1 < first + Capacity
        /\ longer[Len(longer)].num = last + 1
        /\ Len(longer) = Capacity <=> last + 2 = first + Capacity
    <3>1. Len(packages) \in Nat /\ Len(packages) >= 1
      BY <1>1, <2>1, NonEmptyLength
    <3>2. first <= last /\ last + 1 < first + Capacity
      BY <1>1, <2>1, <2>3, <3>1
    <3>3. longer[Len(longer)].num = last + 1
      BY <2>2, <2>3, <2>4, <2>5, <3>1
    <3>4. Len(longer) = Capacity <=> last + 2 = first + Capacity
      BY <1>1, <2>2, <2>3, <3>1
    <3> QED
      BY <2>3, <3>2, <3>3, <3>4
  <2>7. Numbered(packages') = [m \in oldest .. last + 1 |->
          IF m = last + 1 THEN Hole ELSE Numbered(packages)[m]]
    <3>1. CASE Len(longer) = Capacity
      <4>1. Numbered(packages') = [m \in first + 1 .. last + 1 |-> Numbered(longer)[m]]
        BY <2>1, <2>4, <2>5, <2>6, <3>1
      <4>2. \A m \in first + 1 .. last + 1 : m \in first .. last + 1
        BY <2>3
      <4>3. Numbered(packages') = [m \in first + 1 .. last + 1 |->
              IF m = last + 1 THEN Hole ELSE Numbered(packages)[m]]
        BY <2>3, <4>1, <4>2
      <4>4. oldest = first + 1
        BY <2>6, <3>1
      <4> QED
        BY <4>3, <4>4
    <3>2. CASE Len(longer) # Capacity
      <4>1. oldest = first /\ packages' = longer
        BY <2>1, <2>6, <3>2
      <4> QED
        BY <2>3, <4>1
    <3> QED
      BY <3>1, <3>2
  <2>8. PlayBuffer!Spans(first, last)
    BY <2>3, <2>6 DEF PlayBuffer!Spans
  <2>9. PlayBuffer!Slip(first, last)
    BY <1>2, <2>6, <2>7 DEF PlayBuffer!Slip, Hole
  <2> QED
    BY <2>6, <2>8, <2>9 DEF PlayBuffer!Next
<1> QED
  BY <1>4, <1>5, <1>6, <1>7, <1>8 DEF Add

\* The printing thread takes out and plays the front, or empties the buffer.
LEMMA PopImplements ==
  ASSUME IInv, OutsideInv, PrintPop
  PROVE  PlayBuffer!Next
<1> DEFINE first == packages[1].num
           last  == packages[Len(packages)].num
<1>1. packages \in Seq(Package) /\ Consecutive(packages) /\ packages # <<>>
  BY BufferInvIs DEF IInv, TypeOK, PrintPop
<1>2. CASE packages' = <<>> /\ package' = package
  <2>1. Numbered(packages') = PlayBuffer!Empty
    BY <1>2, NumberedEmpty
  <2>2. PlayBuffer!Clear
    BY <1>2, <2>1 DEF PlayBuffer!Clear
  <2> QED
    BY <2>2 DEF PlayBuffer!Next
<1>3. CASE /\ packages[1].data # Hole /\ package' = packages[1]
           /\ packages' = Tail(packages)
  <2>1. package = PlayBuffer!Nothing
    BY DEF PrintPop, OutsideInv, NoPackage, PlayBuffer!Nothing
  <2>2. packages[1] = [num |-> first, data |-> packages[1].data]
    <3>1. packages[1] \in Package
      BY <1>1
    <3> QED
      BY <3>1 DEF Package
  <2>3. /\ first \in Nat /\ last \in Nat
        /\ first <= last /\ DOMAIN Numbered(packages) = first .. last
        /\ Numbered(packages)[first] = packages[1].data
        /\ Numbered(packages') = [m \in first + 1 .. last |-> Numbered(packages)[m]]
    BY <1>1, <1>3, NumberedTail
  <2>4. package' = [num |-> first, data |-> Numbered(packages)[first]]
    BY <1>3, <2>2, <2>3
  <2>5. Numbered(packages)[first] # Hole
    BY <1>3, <2>3
  <2> HIDE DEF first, last
  <2>6. first \in DOMAIN Numbered(packages) /\ last \in DOMAIN Numbered(packages)
    BY <2>3
  <2>7. PlayBuffer!Spans(first, last)
    BY <2>3 DEF PlayBuffer!Spans
  <2>8. PlayBuffer!Play(first, last)
    BY <2>1, <2>3, <2>4, <2>5 DEF PlayBuffer!Play
  <2> QED
    BY <2>6, <2>7, <2>8 DEF PlayBuffer!Next
<1> QED
  BY <1>1, <1>2, <1>3 DEF PrintPop

LEMMA StepImplements ==
  IInv /\ OutsideInv /\ [Next]_vars
    => [PlayBuffer!Next]_<<Numbered(packages), package>>
<1> SUFFICES ASSUME IInv, OutsideInv, [Next]_vars
             PROVE  PlayBuffer!Next \/ UNCHANGED <<packages, package>>
  OBVIOUS
<1>1. CASE Add
  BY <1>1, AddImplements
<1>2. CASE PrintPop
  BY <1>2, PopImplements
<1>3. CASE DataReset
  <2>1. packages' = <<>> /\ package' = package
    BY <1>3 DEF DataReset, printVars
  <2>2. Numbered(packages') = PlayBuffer!Empty
    BY <2>1, NumberedEmpty
  <2>3. PlayBuffer!Clear
    BY <2>1, <2>2 DEF PlayBuffer!Clear
  <2> QED
    BY <2>3 DEF PlayBuffer!Next
<1>4. CASE PrintWrite
  <2>1. /\ package.data = session /\ session # 0
        /\ package' = NoPackage /\ packages' = packages
    BY <1>4 DEF PrintWrite, IInv, SessionInv, PlaysThisSession, Playing
  <2>2. PlayBuffer!Written
    BY <2>1 DEF PlayBuffer!Written, PlayBuffer!Nothing, NoPackage, Hole
  <2> QED
    BY <2>2 DEF PlayBuffer!Next
<1>5. CASE Data /\ ~Add /\ ~DataReset
  BY <1>5 DEF Data, DataStart, DataStationChanged, DataIdle, DataRecv, DataLock, DataSpawn,
     try_close_threads, DataStop, DataJoinPrinting, DataJoinRequesting, bufferVars, printVars
<1>6. CASE Printing /\ ~PrintPop /\ ~PrintWrite
  BY <1>6 DEF Printing, PrintLock, PrintStop, PrintFlag
<1>7. CASE \E r \in Runs : Request(r)
  BY <1>7 DEF Request, ReqLoop, ReqCopy, ReqSend, ReqIdle, reqOthers, bufferVars, printVars
<1>8. CASE catch_interput \/ UNCHANGED vars
  BY <1>8 DEF catch_interput, vars, bufferVars, printVars
<1> QED
  BY <1>1, <1>2, <1>3, <1>4, <1>5, <1>6, <1>7, <1>8 DEF Next, Step, Terminated

\* Buffer, map, mutex and the three threads implement PlayBuffer: the player gets
\* one stream, forward, from the front, and nothing else.
THEOREM PlayoutImplementsPlayBuffer == Spec => ImplementsPlayBuffer
<1>1. Init => OutsideInv /\ PlayBuffer!Init
  <2> SUFFICES ASSUME Init PROVE OutsideInv /\ PlayBuffer!Init
    OBVIOUS
  <2>1. packages = <<>> /\ package = NoPackage /\ incoming = 0
    BY DEF Init
  <2>2. Numbered(packages) = PlayBuffer!Empty
    BY <2>1, NumberedEmpty
  <2>3. PlayBuffer!Init
    BY <2>1, <2>2 DEF PlayBuffer!Init, NoPackage, PlayBuffer!Nothing
  <2> QED
    BY <2>1, <2>3, ConstantsAssumption DEF OutsideInv
<1>2. IInv /\ OutsideInv /\ [Next]_vars => OutsideInv'
  BY OutsideInvStep DEF IInv
<1>3. IInv /\ OutsideInv /\ [Next]_vars
        => [PlayBuffer!Next]_<<Numbered(packages), package>>
  BY StepImplements
<1> QED
  BY <1>1, <1>2, <1>3, PlayoutInvariance, PTL
     DEF Spec, ImplementsPlayBuffer, PlayBuffer!Spec
=============================================================================
