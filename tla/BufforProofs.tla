---------------------------- MODULE BufforProofs ----------------------------
(***************************************************************************)
(* Theorems about Buffor, for every capacity: the two linked lists of      *)
(* big/buffor.c agree, through packets that fill holes, jump ahead and     *)
(* are trimmed away, and through playing and resetting, over any number of *)
(* runs of data_loop and whatever requesting threads they leave behind.    *)
(*                                                                         *)
(* The argument: numbers in packages are consecutive, so the package that  *)
(* is dropped or played has the smallest number; if it is a hole it is the *)
(* first element of set, the one check_set can always find.  A run empties *)
(* the buffer before it ends and joins its printing thread, so that the    *)
(* next one finds neither.                                                 *)
(***************************************************************************)
EXTENDS Buffor, SequenceTheorems, TLAPS

In(s, m)      == \E i \in DOMAIN s : s[i] = m
Lacks(p, m)   == \E i \in DOMAIN p : p[i].num = m /\ p[i].data = Hole
Increasing(s) == \A i, j \in DOMAIN s : i < j => s[i] < s[j]
Consecutive(p) == \A i \in DOMAIN p : p[i].num = p[1].num + i - 1

\* set lists the holes of packages.
Agree(s, p) == Increasing(s) /\ \A m \in Nat : In(s, m) <=> Lacks(p, m)

Lists == TypeOK /\ Consecutive(packages) /\ Agree(set, packages) /\ Bounded

\* Nothing of an earlier run is buffered or being written.
OneRun ==
  /\ \A i \in DOMAIN packages : packages[i].data \in {run, Hole}
  /\ print_pc = "write" => package.data = run
  /\ data_pc \in {"stop", "join", "done"} => packages = <<>>
  /\ data_pc = "done" => print_pc = "none"

IInv == Lists /\ OneRun

-----------------------------------------------------------------------------
(* The two lists *)

\* What a package has.
LEMMA PackageHas == \A x \in Package : x.num \in Nat /\ x.data \in Nat
  BY DEF Package

\* SetIsHoles in terms of the operators above.
LEMMA SetIsHolesIsAgree ==
  ASSUME TypeOK
  PROVE  SetIsHoles <=> Agree(set, packages)
<1> DEFINE L == {set[i] : i \in DOMAIN set}
           R == {packages[i].num : i \in {j \in DOMAIN packages : packages[j].data = Hole}}
<1>1. \A i \in DOMAIN set : set[i] \in Nat
  BY DEF TypeOK
<1>2. \A i \in DOMAIN packages : packages[i] \in Package
  BY DEF TypeOK
<1>3. \A i \in DOMAIN packages : packages[i].num \in Nat
  BY <1>2, PackageHas
<1>4. \A m : m \in L <=> In(set, m)
  BY DEF In
<1>5. \A m : m \in R <=> Lacks(packages, m)
  BY DEF Lacks
<1>6. \A m : m \in L => m \in Nat
  BY <1>1
<1>7. \A m : m \in R => m \in Nat
  BY <1>3
<1>8. SetIsHoles <=> L = R /\ Increasing(set)
  BY DEF SetIsHoles, Increasing
<1> HIDE DEF L, R
<1>9. L = R <=> \A m \in Nat : In(set, m) <=> Lacks(packages, m)
  BY <1>4, <1>5, <1>6, <1>7
<1> QED
  BY <1>8, <1>9 DEF Agree

\* A list made of two.
LEMMA Joined ==
  ASSUME NEW a \in Seq(Nat), NEW b \in Seq(Nat)
  PROVE  /\ a \o b \in Seq(Nat) /\ Len(a \o b) = Len(a) + Len(b)
         /\ \A j \in 1..(Len(a) + Len(b)) :
              (a \o b)[j] = IF j <= Len(a) THEN a[j] ELSE b[j - Len(a)]
  OBVIOUS

\* What is left of a list without its element i.
LEMMA Removed ==
  ASSUME NEW s \in Seq(Nat), NEW i \in 1..Len(s)
  PROVE  LET t == SubSeq(s, 1, i - 1) \o SubSeq(s, i + 1, Len(s))
         IN  /\ t \in Seq(Nat) /\ Len(t) = Len(s) - 1
             /\ \A j \in 1..(Len(s) - 1) : t[j] = IF j < i THEN s[j] ELSE s[j + 1]
<1> DEFINE a == SubSeq(s, 1, i - 1)
           b == SubSeq(s, i + 1, Len(s))
           t == a \o b
<1>0. Len(s) \in Nat /\ i \in Nat /\ 1 <= i /\ i <= Len(s)
  OBVIOUS
<1>1. a \in Seq(Nat) /\ Len(a) = i - 1
  BY <1>0
<1>2. \A j \in 1..(i - 1) : a[j] = s[j]
  BY <1>0
<1>3. b \in Seq(Nat)
  BY <1>0
<1>4. Len(b) = Len(s) - i
  BY <1>0
<1>5. \A j \in 1..(Len(s) - i) : b[j] = s[i + j]
  BY <1>0
<1> HIDE DEF a, b
<1>7. t \in Seq(Nat) /\ Len(t) = Len(a) + Len(b)
  BY <1>1, <1>3, Joined
<1>8. \A j \in 1..(Len(a) + Len(b)) : t[j] = IF j <= Len(a) THEN a[j] ELSE b[j - Len(a)]
  BY <1>1, <1>3, Joined
<1> HIDE DEF t
<1>9. \A j \in 1..(Len(s) - 1) : t[j] = IF j < i THEN s[j] ELSE s[j + 1]
  <2> SUFFICES ASSUME NEW j \in 1..(Len(s) - 1)
               PROVE  t[j] = IF j < i THEN s[j] ELSE s[j + 1]
    OBVIOUS
  <2>0. t[j] = IF j <= Len(a) THEN a[j] ELSE b[j - Len(a)]
    BY <1>0, <1>1, <1>4, <1>8
  <2>1. CASE j < i
    <3>1. j \in 1..(i - 1) /\ j <= Len(a)
      BY <1>0, <1>1, <2>1
    <3> QED
      BY <1>2, <2>0, <2>1, <3>1
  <2>2. CASE ~(j < i)
    <3>1. j - (i - 1) \in 1..(Len(s) - i) /\ i + (j - (i - 1)) = j + 1 /\ ~(j <= Len(a))
      BY <1>0, <1>1, <2>2
    <3>2. t[j] = b[j - (i - 1)]
      BY <1>1, <2>0, <3>1
    <3>3. b[j - (i - 1)] = s[i + (j - (i - 1))]
      BY <1>5, <3>1
    <3> QED
      BY <2>2, <3>1, <3>2, <3>3
  <2> QED
    BY <2>1, <2>2
<1>10. Len(t) = Len(s) - 1
  BY <1>0, <1>1, <1>4, <1>7
<1> QED
  BY ONLY <1>7, <1>9, <1>10, Zenon DEF t, a, b

\* check_set takes out the number it is asked for and nothing else.
LEMMA CheckSet ==
  ASSUME NEW s \in Seq(Nat), Increasing(s), NEW n \in Nat,
         In(s, n) => Found(s, n) # {}
  PROVE  /\ check_set(s, n) \in Seq(Nat) /\ Increasing(check_set(s, n))
         /\ \A m \in Nat : In(check_set(s, n), m) <=> In(s, m) /\ m # n
<1>1. CASE Found(s, n) = {}
  <2>1. check_set(s, n) = s
    BY <1>1 DEF check_set
  <2>2. ~ In(s, n)
    BY <1>1
  <2> QED
    BY <2>1, <2>2 DEF In
<1>2. CASE Found(s, n) # {}
  <2> DEFINE i == CHOOSE i \in Found(s, n) : TRUE
             t == check_set(s, n)
  <2>0. i \in Found(s, n)
    BY <1>2
  <2>1. i \in DOMAIN s /\ s[i] = n
    BY <2>0 DEF Found
  <2>2. t = SubSeq(s, 1, i - 1) \o SubSeq(s, i + 1, Len(s))
    BY <1>2 DEF check_set
  <2> HIDE DEF t, i
  <2>3. /\ t \in Seq(Nat) /\ Len(t) = Len(s) - 1
        /\ \A j \in 1..(Len(s) - 1) : t[j] = IF j < i THEN s[j] ELSE s[j + 1]
    <3>1. i \in 1..Len(s)
      BY <2>1
    <3> QED
      BY ONLY <2>2, <3>1, s \in Seq(Nat), Removed
  <2>4. DOMAIN t = 1..Len(t) /\ DOMAIN s = 1..Len(s) /\ Len(t) \in Nat /\ Len(s) \in Nat
    BY <2>3
  <2>5. Increasing(t)
    <3> SUFFICES ASSUME NEW j \in 1..Len(t), NEW k \in 1..Len(t), j < k
                 PROVE  t[j] < t[k]
      BY <2>4 DEF Increasing
    <3>1. \A x, y \in 1..Len(s) : x < y => s[x] < s[y]
      BY <2>4 DEF Increasing
    <3>2. j \in 1..(Len(s) - 1) /\ k \in 1..(Len(s) - 1)
      BY <2>3
    <3>3. /\ t[j] = IF j < i THEN s[j] ELSE s[j + 1]
          /\ t[k] = IF k < i THEN s[k] ELSE s[k + 1]
      BY <2>3, <3>2
    <3>4. /\ j \in 1..Len(s) /\ k \in 1..Len(s) /\ i \in Nat
          /\ j + 1 \in 1..Len(s) /\ k + 1 \in 1..Len(s)
      BY <2>1, <2>4, <3>2
    <3>5. CASE k < i
      BY <3>1, <3>3, <3>4, <3>5
    <3>6. CASE j < i /\ ~(k < i)
      <4>1. j < k + 1
        BY <3>4
      <4> QED
        BY <3>1, <3>3, <3>4, <3>6, <4>1
    <3>7. CASE ~(j < i) /\ ~(k < i)
      <4>1. j + 1 < k + 1
        BY <3>4
      <4> QED
        BY <3>1, <3>3, <3>4, <3>7, <4>1
    <3> QED
      BY <3>4, <3>5, <3>6, <3>7
  <2>6. ASSUME NEW m \in Nat, In(t, m) PROVE In(s, m) /\ m # n
    <3>1. PICK j \in 1..Len(t) : t[j] = m
      BY <2>4, <2>6 DEF In
    <3>2. PICK k \in 1..Len(s) : k # i /\ s[k] = m
      <4>1. j \in 1..(Len(s) - 1) /\ i \in Nat
        BY <2>1, <2>3, <2>4
      <4>2. j \in 1..Len(s) /\ j + 1 \in 1..Len(s)
        BY <2>4, <4>1
      <4>3. m = IF j < i THEN s[j] ELSE s[j + 1]
        BY <2>3, <3>1, <4>1
      <4>4. CASE j < i
        BY <4>1, <4>2, <4>3, <4>4
      <4>5. CASE ~(j < i)
        BY <4>1, <4>2, <4>3, <4>5
      <4> QED
        BY <4>4, <4>5
    <3>3. k < i \/ i < k
      BY <2>1, <2>4, <3>2
    <3>4. s[k] # s[i]
      <4>1. s[k] < s[i] \/ s[i] < s[k]
        BY <2>1, <2>4, <3>2, <3>3 DEF Increasing
      <4>2. s[k] \in Nat /\ s[i] \in Nat
        BY <2>1, <3>2
      <4> QED
        BY <4>1, <4>2
    <3> QED
      BY <2>1, <2>4, <3>2, <3>4 DEF In
  <2>7. ASSUME NEW m \in Nat, In(s, m), m # n PROVE In(t, m)
    <3>1. PICK k \in 1..Len(s) : s[k] = m
      BY <2>4, <2>7 DEF In
    <3>2. k # i
      BY <2>1, <2>7, <3>1
    <3>3. CASE k < i
      <4>1. k \in 1..(Len(s) - 1)
        BY <2>1, <2>4, <3>1, <3>3
      <4>2. t[k] = m
        BY <2>3, <3>1, <3>3, <4>1
      <4> QED
        BY <2>3, <2>4, <4>1, <4>2 DEF In
    <3>4. CASE k > i
      <4>1. k - 1 \in 1..(Len(s) - 1) /\ ~(k - 1 < i) /\ (k - 1) + 1 = k
        BY <2>1, <2>4, <3>1, <3>4
      <4>2. t[k - 1] = m
        BY <2>3, <3>1, <4>1
      <4> QED
        BY <2>3, <2>4, <4>1, <4>2 DEF In
    <3> QED
      BY <2>1, <2>4, <3>2, <3>3, <3>4
  <2> QED
    BY <2>3, <2>5, <2>6, <2>7 DEF t
<1> QED
  BY <1>1, <1>2

\* The package with the smallest number, if it is a hole, heads set.
LEMMA FrontIsFound ==
  ASSUME NEW p \in Seq(Package), p # <<>>, Consecutive(p),
         NEW s \in Seq(Nat), Agree(s, p), In(s, p[1].num)
  PROVE  Found(s, p[1].num) # {}
<1>1. PICK i \in DOMAIN s : s[i] = p[1].num
  BY DEF In
<1>2. i \in 1..Len(s) /\ Len(s) \in Nat /\ DOMAIN s = 1..Len(s)
  BY LenProperties
<1>3. s[1] \in Nat /\ In(s, s[1])
  BY <1>2 DEF In
<1>4. PICK k \in DOMAIN p : p[k].num = s[1]
  BY <1>3 DEF Agree, Lacks
<1>5. k \in Nat /\ k >= 1 /\ p[k].num = p[1].num + k - 1 /\ p[1].num \in Nat
  <2>1. p[1] \in Package /\ k \in Nat /\ k >= 1
    OBVIOUS
  <2> QED
    BY <2>1, PackageHas DEF Consecutive
<1>6. s[1] >= p[1].num
  BY <1>4, <1>5
<1>7. i = 1
  <2>1. i > 1 => s[1] < s[i]
    BY <1>2 DEF Agree, Increasing
  <2> QED
    BY <1>1, <1>2, <1>3, <1>5, <1>6, <2>1
<1>8. 1 \in Found(s, p[1].num)
  BY <1>1, <1>2, <1>7 DEF Found
<1> QED
  BY <1>8

\* Dropping the oldest package keeps the lists in agreement.
LEMMA TailAgrees ==
  ASSUME NEW p \in Seq(Package), p # <<>>, Consecutive(p),
         NEW s \in Seq(Nat), Agree(s, p)
  PROVE  /\ Tail(p) \in Seq(Package) /\ Consecutive(Tail(p)) /\ Len(Tail(p)) = Len(p) - 1
         /\ check_set(s, p[1].num) \in Seq(Nat)
         /\ Agree(check_set(s, p[1].num), Tail(p))
<1> DEFINE q == Tail(p)
           f == p[1].num
<1>1. Len(p) \in Nat /\ Len(p) >= 1 /\ DOMAIN p = 1..Len(p)
  OBVIOUS
<1>2. /\ q \in Seq(Package) /\ Len(q) = Len(p) - 1
      /\ \A i \in 1..Len(q) : q[i] = p[i + 1]
  OBVIOUS
<1>3. DOMAIN q = 1..Len(q)
  OBVIOUS
<1>4. \A i \in 1..Len(p) : p[i].num = f + i - 1
  BY <1>1 DEF Consecutive
<1>5. f \in Nat
  BY <1>1, PackageHas
<1> HIDE DEF q, f
<1>6. Consecutive(q)
  <2>1. \A i \in 1..Len(q) : i + 1 \in 1..Len(p) /\ q[i].num = f + i
    BY <1>1, <1>2, <1>4, <1>5
  <2>2. \A i \in 1..Len(q) : 1 \in 1..Len(q)
    BY <1>1, <1>2
  <2> QED
    BY <1>3, <1>5, <2>1, <2>2 DEF Consecutive
<1>7. \A m \in Nat : Lacks(q, m) <=> Lacks(p, m) /\ m # f
  <2> SUFFICES ASSUME NEW m \in Nat PROVE Lacks(q, m) <=> Lacks(p, m) /\ m # f
    OBVIOUS
  <2>1. ASSUME Lacks(q, m) PROVE Lacks(p, m) /\ m # f
    <3>1. PICK i \in 1..Len(q) : q[i].num = m /\ q[i].data = Hole
      BY <1>3, <2>1 DEF Lacks
    <3>2. i + 1 \in 1..Len(p) /\ p[i + 1].num = m /\ p[i + 1].data = Hole
      BY <1>1, <1>2, <3>1
    <3>3. m = f + (i + 1) - 1
      BY <1>4, <3>2
    <3>4. m # f
      BY <1>5, <3>1, <3>3
    <3> QED
      BY <1>1, <3>2, <3>4 DEF Lacks
  <2>2. ASSUME Lacks(p, m), m # f PROVE Lacks(q, m)
    <3>1. PICK i \in 1..Len(p) : p[i].num = m /\ p[i].data = Hole
      BY <1>1, <2>2 DEF Lacks
    <3>2. i # 1
      BY <2>2, <3>1 DEF f
    <3>3. i - 1 \in 1..Len(q) /\ q[i - 1] = p[i]
      BY <1>1, <1>2, <3>1, <3>2
    <3> QED
      BY <1>3, <3>1, <3>3 DEF Lacks
  <2> QED
    BY <2>1, <2>2
<1>8. In(s, f) => Found(s, f) # {}
  BY FrontIsFound DEF f
<1>9. Increasing(s)
  BY DEF Agree
<1>10. /\ check_set(s, f) \in Seq(Nat) /\ Increasing(check_set(s, f))
       /\ \A m \in Nat : In(check_set(s, f), m) <=> In(s, m) /\ m # f
  BY <1>5, <1>8, <1>9, CheckSet
<1>11. Agree(check_set(s, f), q)
  BY <1>7, <1>10 DEF Agree
<1> QED
  BY <1>2, <1>6, <1>10, <1>11 DEF q, f

\* A package at the back: only a hole is missing.
LEMMA AppendAgrees ==
  ASSUME NEW p \in Seq(Package), p # <<>>, Consecutive(p),
         NEW s \in Seq(Nat), Agree(s, p),
         NEW x \in Package, x.num = p[Len(p)].num + 1
  PROVE  /\ Append(p, x) \in Seq(Package) /\ Consecutive(Append(p, x))
         /\ Len(Append(p, x)) = Len(p) + 1
         /\ x.data # Hole => Agree(s, Append(p, x))
         /\ x.data = Hole => /\ Append(s, x.num) \in Seq(Nat)
                       /\ Agree(Append(s, x.num), Append(p, x))
<1> DEFINE q == Append(p, x)
           t == Append(s, x.num)
<1>0. x.num \in Nat /\ x.data \in Nat
  BY PackageHas
<1>1. Len(p) \in Nat /\ Len(p) >= 1 /\ DOMAIN p = 1..Len(p)
  OBVIOUS
<1>2. /\ q \in Seq(Package) /\ Len(q) = Len(p) + 1 /\ DOMAIN q = 1..(Len(p) + 1)
      /\ \A i \in 1..Len(p) : q[i] = p[i]
      /\ q[Len(p) + 1] = x
  OBVIOUS
<1>3. /\ t \in Seq(Nat) /\ DOMAIN s = 1..Len(s) /\ DOMAIN t = 1..(Len(s) + 1) /\ Len(s) \in Nat
      /\ \A i \in 1..Len(s) : t[i] = s[i]
      /\ t[Len(s) + 1] = x.num
  BY <1>0
<1>4. \A i \in 1..Len(p) : p[i].num = p[1].num + i - 1
  BY <1>1 DEF Consecutive
<1>5. p[1].num \in Nat /\ p[Len(p)].num = p[1].num + Len(p) - 1
  BY <1>1, <1>4, PackageHas
<1> HIDE DEF q, t
<1>6. Consecutive(q)
  <2>1. q[1] = p[1]
    BY <1>1, <1>2
  <2>2. ASSUME NEW i \in 1..(Len(p) + 1) PROVE q[i].num = q[1].num + i - 1
    <3>1. CASE i = Len(p) + 1
      BY <1>1, <1>2, <1>5, <2>1, <3>1
    <3>2. CASE i # Len(p) + 1
      <4>1. i \in 1..Len(p)
        BY <1>1, <3>2
      <4> QED
        BY <1>2, <1>4, <2>1, <4>1
    <3> QED
      BY <3>1, <3>2
  <2> QED
    BY <1>2, <2>2 DEF Consecutive
<1>7. \A m \in Nat : Lacks(q, m) <=> Lacks(p, m) \/ (x.data = Hole /\ m = x.num)
  <2> SUFFICES ASSUME NEW m \in Nat
               PROVE  Lacks(q, m) <=> Lacks(p, m) \/ (x.data = Hole /\ m = x.num)
    OBVIOUS
  <2>1. ASSUME Lacks(q, m) PROVE Lacks(p, m) \/ (x.data = Hole /\ m = x.num)
    <3>1. PICK i \in 1..(Len(p) + 1) : q[i].num = m /\ q[i].data = Hole
      BY <1>2, <2>1 DEF Lacks
    <3>2. i = Len(p) + 1 \/ i \in 1..Len(p)
      BY <1>1
    <3> QED
      BY <1>1, <1>2, <3>1, <3>2 DEF Lacks
  <2>2. ASSUME Lacks(p, m) PROVE Lacks(q, m)
    <3>1. PICK i \in 1..Len(p) : p[i].num = m /\ p[i].data = Hole
      BY <1>1, <2>2 DEF Lacks
    <3>2. i \in 1..(Len(p) + 1)
      BY <1>1
    <3> QED
      BY <1>2, <3>1, <3>2 DEF Lacks
  <2>3. ASSUME x.data = Hole, m = x.num PROVE Lacks(q, m)
    BY <1>1, <1>2, <2>3 DEF Lacks
  <2> QED
    BY <2>1, <2>2, <2>3
<1>8. \A m \in Nat : In(t, m) <=> In(s, m) \/ m = x.num
  <2> SUFFICES ASSUME NEW m \in Nat PROVE In(t, m) <=> In(s, m) \/ m = x.num
    OBVIOUS
  <2>1. ASSUME In(t, m) PROVE In(s, m) \/ m = x.num
    <3>1. PICK i \in 1..(Len(s) + 1) : t[i] = m
      BY <1>3, <2>1 DEF In
    <3>2. i = Len(s) + 1 \/ i \in 1..Len(s)
      BY <1>3
    <3> QED
      BY <1>3, <3>1, <3>2 DEF In
  <2>2. ASSUME In(s, m) PROVE In(t, m)
    <3>1. PICK i \in 1..Len(s) : s[i] = m
      BY <1>3, <2>2 DEF In
    <3>2. i \in 1..(Len(s) + 1)
      BY <1>3
    <3> QED
      BY <1>3, <3>1, <3>2 DEF In
  <2>3. ASSUME m = x.num PROVE In(t, m)
    BY <1>3, <2>3, SMTT(30) DEF In
  <2> QED
    BY <2>1, <2>2, <2>3
<1>9. Increasing(t)
  <2>1. \A i \in 1..Len(s) : s[i] < x.num
    <3> SUFFICES ASSUME NEW i \in 1..Len(s) PROVE s[i] < x.num
      OBVIOUS
    <3>1. s[i] \in Nat /\ In(s, s[i])
      <4>1. i \in DOMAIN s /\ s[i] \in Nat
        OBVIOUS
      <4> QED
        BY <4>1, Zenon DEF In
    <3>2. PICK k \in 1..Len(p) : p[k].num = s[i]
      BY <1>1, <3>1 DEF Agree, Lacks
    <3> QED
      BY <1>1, <1>4, <1>5, <3>1, <3>2
  <2>2. ASSUME NEW i \in 1..(Len(s) + 1), NEW j \in 1..(Len(s) + 1), i < j PROVE t[i] < t[j]
    <3>1. i \in 1..Len(s)
      BY <1>3, <2>2
    <3>2. CASE j = Len(s) + 1
      BY <1>3, <2>1, <3>1, <3>2
    <3>3. CASE j # Len(s) + 1
      <4>1. j \in 1..Len(s)
        BY <1>3, <3>3
      <4>2. s[i] < s[j]
        BY <1>3, <2>2, <3>1, <4>1 DEF Agree, Increasing
      <4> QED
        BY <1>3, <3>1, <4>1, <4>2
    <3> QED
      BY <3>2, <3>3
  <2> QED
    BY <1>3, <2>2 DEF Increasing
<1>10. x.data # Hole => Agree(s, q)
  BY <1>7 DEF Agree
<1>11. x.data = Hole => Agree(t, q)
  BY <1>7, <1>8, <1>9 DEF Agree
<1> QED
  BY <1>2, <1>3, <1>6, <1>10, <1>11 DEF q, t

\* A function on 1..n is a sequence.
LEMMA IsASeqOfPackages ==
  ASSUME NEW n \in Nat, NEW q \in [1..n -> Package]
  PROVE  q \in Seq(Package) /\ Len(q) = n
  OBVIOUS

\* A number that is in set fills its hole.
LEMMA FillAgrees ==
  ASSUME NEW p \in Seq(Package), Consecutive(p),
         NEW s \in Seq(Nat), Agree(s, p), NEW n \in Nat, Found(s, n) # {},
         NEW d \in Nat, d # Hole,
         NEW q, q = [i \in DOMAIN p |-> IF p[i].num = n THEN [num |-> n, data |-> d] ELSE p[i]]
  PROVE  /\ q \in Seq(Package) /\ Consecutive(q) /\ Len(q) = Len(p)
         /\ check_set(s, n) \in Seq(Nat) /\ Agree(check_set(s, n), q)
<1>1. [num |-> n, data |-> d] \in Package
  BY DEF Package
<1>2. q \in [1..Len(p) -> Package] /\ Len(p) \in Nat
  BY <1>1
<1>3. q \in Seq(Package) /\ Len(q) = Len(p) /\ DOMAIN q = DOMAIN p
  BY <1>2, IsASeqOfPackages
<1>4. \A i \in DOMAIN p : q[i].num = p[i].num
  OBVIOUS
<1>5. Consecutive(q)
  <2>1. \A i \in DOMAIN p : 1 \in DOMAIN p
    BY <1>2
  <2> QED
    BY <1>3, <1>4, <2>1 DEF Consecutive
<1>6. \A m \in Nat : Lacks(q, m) <=> Lacks(p, m) /\ m # n
  BY <1>3, <1>4 DEF Lacks
<1>7. Increasing(s)
  BY DEF Agree
<1>8. /\ check_set(s, n) \in Seq(Nat) /\ Increasing(check_set(s, n))
      /\ \A m \in Nat : In(check_set(s, n), m) <=> In(s, m) /\ m # n
  BY <1>7, CheckSet
<1>9. Agree(check_set(s, n), q)
  BY <1>6, <1>8 DEF Agree
<1> QED
  BY <1>3, <1>5, <1>8, <1>9

-----------------------------------------------------------------------------
(* The threads *)

\* Nothing is missing in an empty buffer.
LEMMA EmptyAgrees == <<>> \in Seq(Package) /\ <<>> \in Seq(Nat)
                     /\ Consecutive(<<>>) /\ Agree(<<>>, <<>>)
  BY DEF Consecutive, Agree, Increasing, In, Lacks

\* The receiver starts with the invariant.
LEMMA InitIInv == Init => IInv
<1> SUFFICES ASSUME Init PROVE IInv
  OBVIOUS
<1>1. Consecutive(packages) /\ Agree(set, packages)
  BY EmptyAgrees, Zenon DEF Init
<1>2. TypeOK
  <2>1. packages \in Seq(Package) /\ set \in Seq(Nat) /\ size \in {0, Capacity}
    BY EmptyAgrees, Zenon DEF Init
  <2>2. num \in 0..MaxNum /\ package \in Package /\ run \in Runs
    BY ConstantsAssumption DEF Init, Package, Hole, Runs
  <2>3. /\ data_pc \in {"recv", "add", "stop", "join", "done"}
        /\ print_pc \in {"none", "lock", "write", "done"}
        /\ stop \in BOOLEAN /\ refilled \in BOOLEAN
        /\ request_pc \in [Runs -> {"none", "test", "sleep", "done"}]
    BY Zenon DEF Init
  <2> QED
    BY <2>1, <2>2, <2>3, Zenon DEF TypeOK
<1>3. Bounded
  BY DEF Init, Bounded
<1>4. OneRun
  BY DEF Init, OneRun
<1> QED
  BY <1>1, <1>2, <1>3, <1>4 DEF Lists, IInv

\* A run is a payload and no hole.
LEMMA RunHas == ASSUME TypeOK PROVE run \in Nat /\ run # Hole
  BY ConstantsAssumption DEF TypeOK, Runs, Hole

\* What start_threads does, whatever the packet.
LEMMA StartThreads ==
  ASSUME TypeOK, start_threads
  PROVE  /\ print_pc' \in {"none", "lock", "write", "done"}
         /\ request_pc' \in [Runs -> {"none", "test", "sleep", "done"}]
         /\ data_pc' = "recv" /\ UNCHANGED <<run, stop, package>>
         /\ print_pc' = "write" <=> print_pc = "write"
         /\ print_pc # "none" => print_pc' = print_pc
<1>1. request_pc' \in [Runs -> {"none", "test", "sleep", "done"}]
  BY DEF TypeOK, start_threads
<1> QED
  BY <1>1 DEF TypeOK, start_threads

\* A packet that is missing, first, or of no use any more.
LEMMA ReceiveStep ==
  ASSUME Lists, NEW n \in 0..MaxNum,
         AddFound(n) \/ AddFirst(n) \/ AddFull(n) \/ AddEnter(n)
  PROVE  Lists'
<1> USE ConstantsAssumption DEF Lists
<1>0. n \in Nat /\ run \in Nat /\ run # Hole
  BY RunHas
<1>1. CASE AddFound(n)
  <2> USE <1>1 DEF AddFound
  <2>1. packages \in Seq(Package) /\ set \in Seq(Nat)
    BY DEF TypeOK
  <2>2. /\ packages' \in Seq(Package) /\ Consecutive(packages') /\ Len(packages') = Len(packages)
        /\ set' \in Seq(Nat) /\ Agree(set', packages')
    <3> DEFINE d == run
               q == [i \in DOMAIN packages |->
                       IF packages[i].num = n THEN [num |-> n, data |-> d] ELSE packages[i]]
    <3>1. packages' = q /\ set' = check_set(set, n) /\ Found(set, n) # {}
      OBVIOUS
    <3>2. d \in Nat /\ d # Hole
      BY <1>0
    <3>3. Consecutive(packages) /\ Agree(set, packages)
      OBVIOUS
    <3> HIDE DEF d
    <3>4. /\ q \in Seq(Package) /\ Consecutive(q) /\ Len(q) = Len(packages)
          /\ check_set(set, n) \in Seq(Nat) /\ Agree(check_set(set, n), q)
      BY ONLY <1>0, <2>1, <3>1, <3>2, <3>3, FillAgrees
    <3> HIDE DEF q
    <3> QED
      BY <3>1, <3>4
  <2>3. TypeOK'
    BY <2>2, StartThreads DEF TypeOK
  <2>4. Bounded'
    <3>1. packages = <<>> => packages' = <<>>
      BY <2>1, <2>2
    <3> QED
      BY <2>2, <3>1, StartThreads DEF Bounded
  <2> QED
    BY <2>2, <2>3, <2>4
<1>2. CASE AddFirst(n)
  <2> USE <1>2 DEF AddFirst
  <2> DEFINE x == [num |-> n, data |-> run]
  <2>1. x \in Package /\ x.data # Hole
    BY <1>0 DEF Package
  <2>2. packages' \in Seq(Package) /\ packages' = <<x>> /\ Len(packages') = 1
    BY <2>1
  <2>3. Consecutive(packages')
    BY <1>0, <2>2 DEF Consecutive
  <2>4. Agree(set', packages')
    <3>1. \A m \in Nat : ~Lacks(packages, m) /\ ~Lacks(packages', m)
      BY <2>1, <2>2 DEF Lacks
    <3> QED
      BY <3>1 DEF Agree
  <2>5. TypeOK'
    BY <2>2, StartThreads DEF TypeOK
  <2> QED
    BY <2>2, <2>3, <2>4, <2>5, StartThreads DEF Bounded
<1>3. CASE AddFull(n)
  BY <1>3, StartThreads DEF AddFull, bufforVars, TypeOK, Bounded
<1>4. CASE AddEnter(n)
  BY <1>4 DEF AddEnter, bufforVars, printVars, TypeOK, Bounded
<1> QED
  BY <1>1, <1>2, <1>3, <1>4

\* A turn of add_to_buffor: below the bound there is room for one more.
LEMMA AddStep ==
  ASSUME Lists, AddNext \/ AddHole
  PROVE  Lists'
<1> USE ConstantsAssumption DEF Lists
<1>1. /\ packages \in Seq(Package) /\ set \in Seq(Nat) /\ packages # <<>>
      /\ Len(packages) < size /\ Len(packages) \in Nat /\ Len(packages) >= 1 /\ size \in Nat
  BY DEF TypeOK, Bounded, AddNext, AddHole
<1>2. packages[Len(packages)] \in Package
  BY <1>1
<1>3. Back \in Nat
  BY <1>2, PackageHas DEF Back
<1>6. run \in Nat /\ run # Hole
  BY RunHas
<1>4. CASE AddNext
  <2> USE <1>4 DEF AddNext
  <2> DEFINE x == [num |-> num, data |-> run]
  <2>1. x \in Package /\ x.data # Hole /\ x.num = packages[Len(packages)].num + 1
    BY <1>3, <1>6 DEF Package, Back
  <2>2. /\ packages' \in Seq(Package) /\ Consecutive(packages')
        /\ Len(packages') = Len(packages) + 1 /\ Agree(set', packages')
    BY <1>1, <2>1, AppendAgrees
  <2>3. TypeOK'
    BY <2>2, StartThreads DEF TypeOK
  <2>4. Bounded'
    BY <1>1, <2>2, StartThreads DEF Bounded
  <2> QED
    BY <2>2, <2>3, <2>4
<1>5. CASE AddHole
  <2> DEFINE x == [num |-> Back + 1, data |-> Hole]
             longer == Append(packages, x)
             holes == Append(set, Back + 1)
  <2>1. x \in Package /\ x.data = Hole /\ x.num = packages[Len(packages)].num + 1 /\ x.num = Back + 1
    BY <1>3 DEF Package, Back, Hole
  <2>2. /\ longer \in Seq(Package) /\ Consecutive(longer) /\ Len(longer) = Len(packages) + 1
        /\ Append(set, x.num) \in Seq(Nat) /\ Agree(Append(set, x.num), longer)
    <3> HIDE DEF x
    <3> QED
      BY <1>1, <2>1, AppendAgrees
  <2>3. holes \in Seq(Nat) /\ Agree(holes, longer)
    BY <2>1, <2>2
  <2>4. longer # <<>>
    BY <1>1, <2>2
  <2>5. longer[1].num = Front
    BY <1>1 DEF Front
  <2>6. UNCHANGED <<size, data_pc, num, stop, print_pc, package, refilled, run, request_pc>> /\ data_pc = "add"
    BY <1>5 DEF AddHole, printVars
  <2>7. CASE Len(longer) = size
    <3>1. packages' = Tail(longer) /\ set' = check_set(holes, Front)
      BY <1>5, <2>7 DEF AddHole
    <3> HIDE DEF longer, holes
    <3>2. /\ Tail(longer) \in Seq(Package) /\ Consecutive(Tail(longer))
          /\ Len(Tail(longer)) = Len(longer) - 1
          /\ check_set(holes, longer[1].num) \in Seq(Nat)
          /\ Agree(check_set(holes, longer[1].num), Tail(longer))
      BY <2>2, <2>3, <2>4, TailAgrees
    <3>3. /\ packages' \in Seq(Package) /\ Consecutive(packages') /\ Len(packages') = Len(packages)
          /\ set' \in Seq(Nat) /\ Agree(set', packages')
      BY <1>1, <2>2, <2>5, <3>1, <3>2
    <3>4. TypeOK'
      BY <2>6, <3>3 DEF TypeOK
    <3>5. packages' # <<>>
      BY <1>1, <3>3
    <3>6. Bounded'
      BY <1>1, <2>6, <3>3, <3>5 DEF Bounded
    <3> QED
      BY <3>3, <3>4, <3>6
  <2>8. CASE Len(longer) # size
    <3>1. packages' = longer /\ set' = holes
      BY <1>5, <2>8 DEF AddHole
    <3> HIDE DEF longer, holes
    <3>2. TypeOK'
      BY <2>2, <2>3, <2>6, <3>1 DEF TypeOK
    <3>3. Len(packages') < size
      BY <1>1, <2>2, <2>8, <3>1
    <3>4. Bounded'
      BY <1>1, <2>4, <2>6, <3>1, <3>3 DEF Bounded
    <3> QED
      BY <2>2, <2>3, <3>1, <3>2, <3>4
  <2> QED
    BY <2>7, <2>8
<1> QED
  BY <1>4, <1>5

\* printing_loop takes the front, unless data_loop is inside add_to_buffor.
LEMMA PopStep ==
  ASSUME Lists, PrintPop
  PROVE  Lists'
<1> USE ConstantsAssumption DEF Lists, PrintPop
<1>1. packages \in Seq(Package) /\ set \in Seq(Nat) /\ packages # <<>>
  BY DEF TypeOK
<1>2. /\ packages' = Tail(packages) /\ set' = check_set(set, packages[1].num)
      /\ package' = packages[1]
  BY DEF Front
<1>3. /\ Tail(packages) \in Seq(Package) /\ Consecutive(Tail(packages))
      /\ Len(Tail(packages)) = Len(packages) - 1
      /\ check_set(set, packages[1].num) \in Seq(Nat)
      /\ Agree(check_set(set, packages[1].num), Tail(packages))
  BY <1>1, TailAgrees
<1>4. /\ packages' \in Seq(Package) /\ Consecutive(packages') /\ Len(packages') = Len(packages) - 1
      /\ set' \in Seq(Nat) /\ Agree(set', packages')
  BY <1>2, <1>3
<1>5. package' \in Package
  BY <1>1, <1>2
<1>6. TypeOK'
  BY <1>4, <1>5 DEF TypeOK
<1>7. Bounded'
  <2>1. Len(packages) \in Nat /\ Len(packages) >= 1 /\ size \in Nat
    BY <1>1 DEF TypeOK
  <2>2. Len(packages') = 0 => packages' = <<>>
    BY <1>4
  <2>3. packages' = <<>> \/ Len(packages') = 1 \/ Len(packages') <= size
    BY <1>4, <2>1, <2>2 DEF Bounded
  <2>4. data_pc' # "add"
    OBVIOUS
  <2> QED
    BY <2>3, <2>4 DEF Bounded
<1> QED
  BY <1>4, <1>6, <1>7

\* The other steps leave the lists alone or empty both, and no step of another
\* thread empties them under add_to_buffor.
LEMMA OtherStep ==
  ASSUME Lists,
         \/ DataEnds \/ DataStop \/ DataJoin \/ PrintHole \/ PrintWrite \/ PrintDone
         \/ NextRun \/ (\E r \in Runs : Requesting(r)) \/ UNCHANGED vars
  PROVE  Lists'
<1> USE DEF Lists
<1>1. CASE DataEnds \/ PrintHole
  <2> USE <1>1 DEF DataEnds, PrintHole, reset, printVars
  <2>1. packages' = <<>> /\ set' = <<>> /\ data_pc' # "add"
    OBVIOUS
  <2>2. TypeOK'
    BY EmptyAgrees DEF TypeOK
  <2>3. Bounded'
    BY <2>1 DEF Bounded
  <2> QED
    BY <2>1, <2>2, <2>3, EmptyAgrees
<1>2. CASE DataStop \/ DataJoin \/ PrintWrite \/ PrintDone \/ UNCHANGED vars
  <2> USE <1>2 DEF DataStop, DataJoin, PrintWrite, PrintDone, bufforVars, printVars, vars
  <2>1. UNCHANGED <<packages, set, size>>
    OBVIOUS
  <2>2. TypeOK'
    BY DEF TypeOK
  <2>3. Bounded'
    BY <2>1 DEF Bounded
  <2> QED
    BY <2>1, <2>2, <2>3
<1>3. CASE NextRun
  <2>1. UNCHANGED <<packages, set, size>>
    BY <1>3 DEF NextRun, bufforVars
  <2>2. run' \in Runs
    BY <1>3, ConstantsAssumption DEF NextRun, TypeOK, Runs
  <2>3. TypeOK'
    BY <1>3, <2>2 DEF NextRun, bufforVars, printVars, TypeOK
  <2>4. Bounded'
    BY <1>3, <2>1 DEF NextRun, Bounded
  <2> QED
    BY <2>1, <2>3, <2>4
<1>4. CASE \E r \in Runs : Requesting(r)
  <2>1. PICK r \in Runs : Requesting(r)
    BY <1>4
  <2>2. request_pc' \in [Runs -> {"none", "test", "sleep", "done"}]
    BY <2>1 DEF Requesting, RequestTest, Request, TypeOK
  <2>3. UNCHANGED <<bufforVars, run, data_pc, num, stop, printVars>>
    BY <2>1 DEF Requesting, RequestTest, Request
  <2>4. TypeOK'
    BY <2>2, <2>3 DEF bufforVars, printVars, TypeOK
  <2>5. Bounded'
    BY <2>3 DEF bufforVars, Bounded
  <2> QED
    BY <2>3, <2>4, <2>5 DEF bufforVars
<1> QED
  BY <1>1, <1>2, <1>3, <1>4

\* Every package is of the run that goes on, or a hole; what ends leaves nothing.
LEMMA OneRunStep ==
  ASSUME Lists, OneRun, [Next]_vars
  PROVE  OneRun'
<1> USE DEF OneRun
<1>1. packages \in Seq(Package) /\ TypeOK
  BY DEF Lists, TypeOK
<1>2. ASSUME NEW n \in 0..MaxNum, AddFound(n) PROVE OneRun'
  <2>1. packages' = [i \in DOMAIN packages |->
                       IF packages[i].num = n THEN [num |-> n, data |-> run]
                                              ELSE packages[i]]
    BY <1>2 DEF AddFound
  <2>2. start_threads
    BY <1>2 DEF AddFound
  <2>3. \A i \in DOMAIN packages' : packages'[i].data \in {run, Hole}
    BY <2>1
  <2> QED
    BY <1>1, <2>2, <2>3, StartThreads
<1>3. ASSUME NEW n \in 0..MaxNum, AddFirst(n) PROVE OneRun'
  <2>1. packages' = <<[num |-> n, data |-> run]>> /\ start_threads
    BY <1>3 DEF AddFirst
  <2>2. \A i \in DOMAIN packages' : packages'[i].data \in {run, Hole}
    BY <2>1
  <2> QED
    BY <1>1, <2>1, <2>2, StartThreads
<1>4. ASSUME NEW n \in 0..MaxNum, AddFull(n) PROVE OneRun'
  <2>1. packages' = packages /\ start_threads
    BY <1>4 DEF AddFull, bufforVars
  <2> QED
    BY <1>1, <2>1, StartThreads
<1>5. ASSUME NEW n \in 0..MaxNum, AddEnter(n) PROVE OneRun'
  BY <1>5 DEF AddEnter, bufforVars, printVars
<1>6. CASE AddNext
  <2>1. packages' = Append(packages, [num |-> num, data |-> run]) /\ start_threads
    BY <1>6 DEF AddNext
  <2>2. \A i \in DOMAIN packages' : packages'[i].data \in {run, Hole}
    BY <1>1, <2>1
  <2> QED
    BY <1>1, <2>1, <2>2, StartThreads
<1>7. CASE AddHole
  <2> DEFINE x == [num |-> Back + 1, data |-> Hole]
             longer == Append(packages, x)
  <2>1. packages' \in {longer, Tail(longer)}
    BY <1>7 DEF AddHole
  <2>2. UNCHANGED <<run, data_pc, print_pc, package>> /\ data_pc = "add"
    BY <1>7 DEF AddHole, printVars
  <2>3. x.data = Hole
    OBVIOUS
  <2> HIDE DEF x
  <2>4. /\ \A i \in DOMAIN longer : longer[i] = x \/ longer[i].data \in {run, Hole}
        /\ Len(longer) \in Nat /\ DOMAIN longer = 1..Len(longer) /\ Len(longer) >= 1
    BY <1>1
  <2>5. \A i \in DOMAIN longer : longer[i].data \in {run, Hole}
    BY <2>3, <2>4
  <2>6. \A i \in DOMAIN Tail(longer) : i + 1 \in DOMAIN longer /\ Tail(longer)[i] = longer[i + 1]
    <3>1. longer # <<>>
      BY <1>1
    <3>2. DOMAIN Tail(longer) = 1..(Len(longer) - 1)
      BY <1>1, <2>4, <3>1
    <3>3. \A i \in 1..(Len(longer) - 1) : Tail(longer)[i] = longer[i + 1]
      BY <1>1, <2>4, <3>1
    <3> HIDE DEF longer
    <3> QED
      BY <2>4, <3>2, <3>3
  <2> HIDE DEF longer
  <2>7. \A i \in DOMAIN packages' : packages'[i].data \in {run, Hole}
    BY <2>1, <2>5, <2>6
  <2> QED
    BY <2>2, <2>7
<1>8. CASE PrintPop
  <2>1. /\ packages # <<>> /\ packages[1].data # Hole /\ packages' = Tail(packages)
        /\ package' = packages[1] /\ print_pc' = "write" /\ UNCHANGED <<run, data_pc>>
    BY <1>8 DEF PrintPop
  <2>2. 1 \in DOMAIN packages
    BY <1>1, <2>1
  <2>3. \A i \in DOMAIN packages' : i + 1 \in DOMAIN packages /\ packages'[i] = packages[i + 1]
    BY <1>1, <2>1
  <2> QED
    BY <2>1, <2>2, <2>3
<1>9. CASE DataEnds \/ PrintHole
  BY <1>9 DEF DataEnds, PrintHole, reset, printVars
<1>10. CASE DataStop \/ DataJoin \/ PrintWrite \/ PrintDone \/ UNCHANGED vars
  BY <1>10 DEF DataStop, DataJoin, PrintWrite, PrintDone, bufforVars, printVars, vars
<1>11. CASE NextRun
  BY <1>11 DEF NextRun, bufforVars, printVars
<1>12. CASE \E r \in Runs : Requesting(r)
  BY <1>12 DEF Requesting, RequestTest, Request, bufforVars, printVars
<1> QED
  BY <1>2, <1>3, <1>4, <1>5, <1>6, <1>7, <1>8, <1>9, <1>10, <1>11, <1>12
     DEF Next, Data, Printing

\* IInv is an inductive invariant.
THEOREM BufforInv == Spec => []IInv
<1>1. ASSUME IInv, [Next]_vars PROVE IInv'
  <2>1. Lists /\ OneRun
    BY <1>1 DEF IInv
  <2>2. CASE Data
    BY <2>1, <2>2, ReceiveStep, AddStep, OtherStep, OneRunStep DEF Data, Next, IInv
  <2>3. CASE Printing
    BY <2>1, <2>3, PopStep, OtherStep, OneRunStep DEF Printing, Next, IInv
  <2>4. CASE (\E r \in Runs : Requesting(r)) \/ UNCHANGED vars
    BY <2>1, <2>4, OtherStep, OneRunStep DEF Next, IInv
  <2> QED
    BY <1>1, <2>2, <2>3, <2>4 DEF Next
<1> QED
  BY InitIInv, <1>1, PTL DEF Spec

\* Every variable keeps its type, for every capacity of the buffer.
THEOREM BufforTypeOK == Spec => []TypeOK
  BY BufforInv, PTL DEF IInv, Lists

\* The list of packages never has a gap, whatever the network delivers.
THEOREM BufforContiguous == Spec => []Contiguous
<1>1. IInv => Contiguous
  BY DEF IInv, Lists, Consecutive, Contiguous, Front
<1> QED
  BY <1>1, BufforInv, PTL

\* set lists exactly the holes of packages, in order.
THEOREM BufforSetIsHoles == Spec => []SetIsHoles
<1>1. IInv => SetIsHoles
  BY SetIsHolesIsAgree DEF IInv, Lists
<1> QED
  BY <1>1, BufforInv, PTL

\* The buffer never grows past its size.
THEOREM BufforBounded == Spec => []Bounded
  BY BufforInv, PTL DEF IInv, Lists

-----------------------------------------------------------------------------
(* What is played *)

\* Unless the buffer ran empty since, the package written last lies before all
\* that wait; without a printing thread the buffer was never played from.
Ahead ==
  packages # <<>> /\ ~refilled =>
    print_pc # "none" /\ (print_pc = "done" \/ package.num < Front)

\* No step moves the front back below what was written.
LEMMA AheadStep ==
  ASSUME IInv, Ahead, [Next]_vars
  PROVE  Ahead'
<1> USE DEF Ahead
<1>1. packages \in Seq(Package) /\ size \in Nat /\ package.num \in Nat
        /\ TypeOK
  BY ConstantsAssumption, PackageHas DEF IInv, Lists, TypeOK
<1>2. packages # <<>> => Front \in Nat
  <2>1. packages # <<>> => packages[1] \in Package
    BY <1>1
  <2> QED
    BY <2>1, PackageHas DEF Front
<1>3. ASSUME NEW n \in 0..MaxNum, AddFound(n) PROVE Ahead'
  <2>1. /\ packages' = [i \in DOMAIN packages |->
                          IF packages[i].num = n THEN [num |-> n, data |-> run]
                                                 ELSE packages[i]]
        /\ refilled' = refilled /\ package' = package
        /\ print_pc # "none" => print_pc' = print_pc
    BY <1>1, <1>3, StartThreads DEF AddFound
  <2>2. packages = <<>> => packages' = <<>>
    BY <1>1, <2>1
  <2>3. packages # <<>> => Front' = Front
    BY <1>1, <2>1 DEF Front
  <2> QED
    BY <2>1, <2>2, <2>3
<1>4. ASSUME NEW n \in 0..MaxNum, AddFirst(n) PROVE Ahead'
  BY <1>4 DEF AddFirst
<1>5. ASSUME NEW n \in 0..MaxNum, AddFull(n) \/ AddEnter(n) PROVE Ahead'
  <2>1. UNCHANGED <<packages, refilled, package>> /\ (print_pc # "none" => print_pc' = print_pc)
    BY <1>1, <1>5, StartThreads DEF AddFull, AddEnter, bufforVars, printVars
  <2> QED
    BY <2>1 DEF Front
<1>6. CASE AddNext
  <2>1. packages # <<>> /\ packages' = Append(packages, [num |-> num, data |-> run])
    BY <1>6 DEF AddNext, IInv, Lists, Bounded
  <2>2. Front' = Front
    BY <1>1, <2>1 DEF Front
  <2> QED
    BY <1>1, <1>6, <2>1, <2>2, StartThreads DEF AddNext
<1>7. CASE AddHole
  <2> DEFINE x == [num |-> Back + 1, data |-> Hole]
             longer == Append(packages, x)
  <2>1. packages # <<>> /\ UNCHANGED printVars
        /\ packages' \in {longer, Tail(longer)}
    BY <1>7 DEF AddHole, IInv, Lists, Bounded
  <2>2. Back \in Nat
    <3>1. packages[Len(packages)] \in Package
      BY <1>1, <2>1
    <3> QED
      BY <3>1, PackageHas DEF Back
  <2>3. x \in Package /\ x.num = Back + 1
    BY <2>2 DEF Package, Hole
  <2> HIDE DEF x
  <2>4. longer[1] = packages[1] /\ Tail(longer)[1] = longer[2]
    BY <1>1, <2>1, <2>3
  <2>5. longer[2].num = Front + 1
    <3>1. longer \in Seq(Package) /\ Consecutive(longer) /\ Len(longer) = Len(packages) + 1
      <4>1. set \in Seq(Nat) /\ Agree(set, packages) /\ Consecutive(packages)
        BY DEF IInv, Lists, TypeOK
      <4> QED
        BY <1>1, <2>1, <2>3, <4>1, AppendAgrees DEF Back
    <3>2. 2 \in DOMAIN longer
      <4>1. packages # <<>> /\ packages \in Seq(Package)
        BY <1>1, <2>1
      <4>2. Len(packages) \in Nat /\ Len(packages) # 0
        BY ONLY <4>1
      <4> HIDE DEF longer
      <4> QED
        BY <3>1, <4>2
    <3> HIDE DEF longer
    <3>3. longer[2].num = longer[1].num + 2 - 1
      BY <3>1, <3>2 DEF Consecutive
    <3> QED
      BY <1>2, <2>1, <2>4, <3>3 DEF Front
  <2> HIDE DEF longer
  <2>6. Front' \in {Front, Front + 1}
    BY <2>1, <2>4, <2>5 DEF Front
  <2>7. refilled' = refilled
    BY <2>1 DEF printVars
  <2> QED
    BY <1>1, <1>2, <2>1, <2>6, <2>7 DEF printVars
<1>8. CASE PrintPop
  <2>1. packages # <<>> /\ packages' = Tail(packages) /\ package'.num = Front
        /\ print_pc' = "write"
    BY <1>8 DEF PrintPop, Front
  <2>2. ASSUME packages' # <<>> PROVE Front' = Front + 1
    <3>1. 2 \in DOMAIN packages /\ packages'[1] = packages[2]
      BY <1>1, <2>1, <2>2
    <3>2. packages[2].num = packages[1].num + 2 - 1
      BY <3>1 DEF IInv, Lists, Consecutive
    <3> QED
      BY <1>2, <2>1, <3>1, <3>2 DEF Front
  <2> QED
    BY <1>2, <2>1, <2>2
<1>9. CASE DataEnds \/ PrintHole
  BY <1>9 DEF DataEnds, PrintHole, reset
<1>10. CASE PrintWrite \/ PrintDone
  BY <1>10 DEF PrintWrite, PrintDone, bufforVars, Front
<1>11. CASE DataStop \/ UNCHANGED vars
  BY <1>11 DEF DataStop, bufforVars, printVars, vars, Front
<1>12. CASE DataJoin \/ NextRun
  BY <1>12 DEF DataJoin, NextRun, IInv, OneRun, bufforVars
<1>13. CASE \E r \in Runs : Requesting(r)
  BY <1>13 DEF Requesting, RequestTest, Request, bufforVars, printVars, Front
<1> QED
  BY <1>3, <1>4, <1>5, <1>6, <1>7, <1>8, <1>9, <1>10, <1>11, <1>12, <1>13
     DEF Next, Data, Printing

\* For every capacity: what is written goes forward through the stream unless the
\* buffer ran empty in between.
THEOREM BufforPlaysForward == Spec => PlaysForward
<1>1. Init => Ahead
  BY DEF Init, Ahead
<1>2. IInv /\ Ahead /\ [Next]_vars => Ahead'
  BY AheadStep
<1>3. IInv /\ Ahead /\ [Next]_vars =>
        [print_pc = "lock" /\ print_pc' = "write" /\ ~refilled
           => package'.num > package.num]_vars
  <2> SUFFICES ASSUME IInv, Ahead, Next, print_pc = "lock", print_pc' = "write",
                      ~refilled
               PROVE  package'.num > package.num
    OBVIOUS
  <2>1. PrintPop
    BY DEF Next, Data, Printing, AddFound, AddFirst, AddFull, AddEnter, AddNext,
           AddHole, DataEnds, DataStop, DataJoin, PrintHole, PrintWrite,
           PrintDone, Requesting, RequestTest, Request, NextRun, start_threads, printVars
  <2>2. package'.num = Front /\ packages # <<>> /\ package.num \in Nat
    BY <2>1, PackageHas DEF PrintPop, Front, IInv, Lists, TypeOK
  <2>3. Front \in Nat
    <3>1. packages[1] \in Package
      BY <2>2 DEF IInv, Lists, TypeOK
    <3> QED
      BY <3>1, PackageHas DEF Front
  <2> QED
    BY <2>2, <2>3 DEF Ahead
<1> QED
  BY <1>1, <1>2, <1>3, BufforInv, PTL DEF Spec, PlaysForward

-----------------------------------------------------------------------------
(* The buffer by its numbers *)

\* The place of number m in n consecutive numbers from a.
LEMMA PlaceOf ==
  ASSUME NEW a \in Nat, NEW n \in Nat, NEW m \in a .. a + n - 1
  PROVE  m - a + 1 \in 1..n /\ a + (m - a + 1) - 1 = m
  OBVIOUS

\* Consecutive numbers make the list a function on an interval.
LEMMA NumberedIs ==
  ASSUME NEW p \in Seq(Package), Consecutive(p)
  PROVE  LET f == Numbered(p)
         IN  /\ f = [m \in DOMAIN f |-> f[m]]
             /\ p = <<>> => DOMAIN f = {}
             /\ p # <<>> => DOMAIN f = p[1].num .. p[1].num + Len(p) - 1
             /\ \A i \in DOMAIN p : p[i].num \in DOMAIN f /\ f[p[i].num] = p[i].data
             /\ \A m \in DOMAIN f : \E i \in DOMAIN p : p[i].num = m
<1> DEFINE at(n) == CHOOSE i \in DOMAIN p : p[i].num = n
           S == {p[i].num : i \in DOMAIN p}
           f == [n \in S |-> p[at(n)].data]
<1>1. Len(p) \in Nat /\ DOMAIN p = 1..Len(p) /\ (p # <<>> => 1 \in 1..Len(p))
  OBVIOUS
<1>2. \A i \in DOMAIN p : p[i].num \in Nat /\ p[i].num = p[1].num + i - 1
  BY PackageHas DEF Consecutive
<1>3. \A i, j \in DOMAIN p : p[i].num = p[j].num => i = j
  <2> SUFFICES ASSUME NEW i \in DOMAIN p, NEW j \in DOMAIN p, p[i].num = p[j].num
               PROVE  i = j
    OBVIOUS
  <2>1. p[1].num \in Nat /\ i \in Nat /\ j \in Nat
    BY <1>1, <1>2
  <2>2. p[1].num + i - 1 = p[1].num + j - 1
    BY <1>2
  <2> HIDE DEF f, S
  <2> QED
    BY <2>1, <2>2
<1>4. ASSUME NEW i \in DOMAIN p PROVE f[p[i].num] = p[i].data
  <2>1. at(p[i].num) \in DOMAIN p /\ p[at(p[i].num)].num = p[i].num
    OBVIOUS
  <2>2. at(p[i].num) = i
    BY <1>3, <2>1
  <2>3. p[i].num \in S
    OBVIOUS
  <2> QED
    BY <2>2, <2>3
<1>5. p = <<>> => S = {}
  OBVIOUS
<1>6. ASSUME p # <<>> PROVE S = p[1].num .. p[1].num + Len(p) - 1
  <2>1. p[1].num \in Nat
    BY <1>1, <1>2, <1>6
  <2>2. ASSUME NEW m \in S PROVE m \in p[1].num .. p[1].num + Len(p) - 1
    <3>1. PICK i \in DOMAIN p : m = p[i].num
      OBVIOUS
    <3>2. i \in 1..Len(p) /\ m = p[1].num + i - 1
      BY <1>1, <1>2, <3>1
    <3> HIDE DEF S, f
    <3> QED
      BY <1>1, <2>1, <3>2
  <2>3. ASSUME NEW m \in p[1].num .. p[1].num + Len(p) - 1 PROVE m \in S
    <3> DEFINE i == m - p[1].num + 1
    <3>1. i \in 1..Len(p) /\ p[1].num + i - 1 = m
      <4>1. Len(p) \in Nat
        BY <1>1
      <4> QED
        BY <2>1, <4>1, PlaceOf
    <3>2. p[i].num = m
      BY <1>1, <1>2, <3>1, Zenon
    <3>3. i \in DOMAIN p
      BY <1>1, <3>1
    <3> HIDE DEF i, f
    <3> QED
      BY <3>2, <3>3
  <2> HIDE DEF S, f
  <2> QED
    BY <2>2, <2>3
<1>7. Numbered(p) = f
  BY DEF Numbered
<1>8. DOMAIN f = S /\ f = [m \in DOMAIN f |-> f[m]]
  OBVIOUS
<1>9. /\ \A m \in S : \E i \in DOMAIN p : p[i].num = m
      /\ \A i \in DOMAIN p : p[i].num \in S
  OBVIOUS
<1> HIDE DEF f, S
<1> QED
  BY <1>4, <1>5, <1>6, <1>7, <1>8, <1>9

LEMMA NumberedEmpty == Numbered(<<>>) = PlayBuffer!Empty
  BY DEF Numbered, PlayBuffer!Empty

LEMMA NumberedOne ==
  ASSUME NEW n, NEW d
  PROVE  Numbered(<<[num |-> n, data |-> d]>>) = [m \in {n} |-> d]
<1> DEFINE p == <<[num |-> n, data |-> d]>>
<1>1. DOMAIN p = {1} /\ p[1].num = n /\ p[1].data = d
  OBVIOUS
<1> HIDE DEF p
<1>2. {p[i].num : i \in DOMAIN p} = {n}
  BY <1>1
<1>3. (CHOOSE i \in DOMAIN p : p[i].num = n) = 1
  BY <1>1
<1>4. Numbered(p) = [m \in {n} |-> d]
  BY <1>1, <1>2, <1>3 DEF Numbered
<1> QED
  BY <1>4 DEF p

LEMMA NonEmptyLength ==
  ASSUME NEW p \in Seq(Package), p # <<>>
  PROVE  Len(p) \in Nat /\ Len(p) >= 1
  OBVIOUS

\* A payload in a place of the list is one under its number.
LEMMA NumberedFills ==
  ASSUME NEW p \in Seq(Package), Consecutive(p),
         NEW s \in Seq(Nat), Agree(s, p), NEW n \in Nat, Found(s, n) # {},
         NEW d \in Nat, d # Hole,
         NEW q, q = [i \in DOMAIN p |-> IF p[i].num = n THEN [num |-> n, data |-> d] ELSE p[i]]
  PROVE  /\ n \in DOMAIN Numbered(p) /\ Numbered(p)[n] = Hole
         /\ Numbered(q) = [Numbered(p) EXCEPT ![n] = d]
<1> DEFINE f == Numbered(p)
           g == Numbered(q)
<1>1. PICK k \in DOMAIN p : p[k].num = n /\ p[k].data = Hole
  <2>1. In(s, n)
    BY DEF Found, In
  <2> QED
    BY <2>1 DEF Agree, Lacks
<1>3. q \in Seq(Package) /\ Consecutive(q) /\ Len(q) = Len(p)
  <2> DEFINE r == [i \in DOMAIN p |->
                     IF p[i].num = n THEN [num |-> n, data |-> d] ELSE p[i]]
  <2>1. r \in Seq(Package) /\ Consecutive(r) /\ Len(r) = Len(p)
    BY ONLY p \in Seq(Package), Consecutive(p), s \in Seq(Nat), Agree(s, p), n \in Nat,
            Found(s, n) # {}, d \in Nat, d # Hole, FillAgrees
  <2>2. q = r
    OBVIOUS
  <2> HIDE DEF r
  <2> QED
    BY ONLY <2>1, <2>2
<1>4. DOMAIN q = DOMAIN p
  OBVIOUS
<1>5. \A i \in DOMAIN p : /\ q[i].num = p[i].num
                          /\ q[i].data = IF p[i].num = n THEN d ELSE p[i].data
  OBVIOUS
<1>6. /\ f = [m \in DOMAIN f |-> f[m]]
      /\ \A i \in DOMAIN p : p[i].num \in DOMAIN f /\ f[p[i].num] = p[i].data
      /\ \A m \in DOMAIN f : \E i \in DOMAIN p : p[i].num = m
  BY ONLY p \in Seq(Package), Consecutive(p), NumberedIs
<1>7. /\ g = [m \in DOMAIN g |-> g[m]]
      /\ \A i \in DOMAIN q : q[i].num \in DOMAIN g /\ g[q[i].num] = q[i].data
      /\ \A m \in DOMAIN g : \E i \in DOMAIN q : q[i].num = m
  BY ONLY <1>3, NumberedIs
<1> HIDE DEF f, g
<1>12. /\ \A i \in DOMAIN p : /\ p[i].num \in DOMAIN g
                              /\ g[p[i].num] = IF p[i].num = n THEN d ELSE p[i].data
       /\ \A m \in DOMAIN g : \E i \in DOMAIN p : p[i].num = m
  <2>1. ASSUME NEW i \in DOMAIN p
        PROVE  /\ p[i].num \in DOMAIN g
               /\ g[p[i].num] = IF p[i].num = n THEN d ELSE p[i].data
    <3>1. q[i].num \in DOMAIN g /\ g[q[i].num] = q[i].data
      BY <1>4, <1>7
    <3> QED
      BY <1>5, <3>1
  <2>2. ASSUME NEW m \in DOMAIN g PROVE \E i \in DOMAIN p : p[i].num = m
    <3>1. PICK i \in DOMAIN q : q[i].num = m
      BY <1>7
    <3> QED
      BY <1>4, <1>5, <3>1
  <2> QED
    BY <2>1, <2>2
<1>8. DOMAIN g = DOMAIN f
  <2>1. ASSUME NEW m \in DOMAIN g PROVE m \in DOMAIN f
    <3>1. PICK i \in DOMAIN p : p[i].num = m
      BY <1>12
    <3> QED
      BY <1>6, <3>1
  <2>2. ASSUME NEW m \in DOMAIN f PROVE m \in DOMAIN g
    <3>1. PICK i \in DOMAIN p : p[i].num = m
      BY <1>6
    <3>2. p[i].num \in DOMAIN g
      BY <1>12, Zenon
    <3> QED
      BY <3>1, <3>2
  <2> QED
    BY <2>1, <2>2
<1>9. ASSUME NEW m \in DOMAIN f PROVE g[m] = IF m = n THEN d ELSE f[m]
  <2>1. PICK i \in DOMAIN p : p[i].num = m
    BY <1>6
  <2>2. f[m] = p[i].data
    BY <1>6, <2>1, Zenon
  <2>3. g[m] = IF m = n THEN d ELSE p[i].data
    BY <1>12, <2>1, Zenon
  <2> QED
    BY <2>2, <2>3, Zenon
<1>10. g = [f EXCEPT ![n] = d]
  BY <1>6, <1>7, <1>8, <1>9
<1>11. n \in DOMAIN f /\ f[n] = Hole
  BY <1>1, <1>6
<1> QED
  BY <1>10, <1>11 DEF f, g

\* A package at the back of the list continues the interval.
LEMMA NumberedAppends ==
  ASSUME NEW p \in Seq(Package), p # <<>>, Consecutive(p),
         NEW s \in Seq(Nat), Agree(s, p), NEW d \in Nat
  PROVE  LET first == p[1].num
             last  == p[Len(p)].num
             q     == Append(p, [num |-> last + 1, data |-> d])
         IN  /\ first \in Nat /\ last \in Nat /\ last = first + Len(p) - 1
             /\ DOMAIN Numbered(p) = first .. last
             /\ Numbered(q) = [m \in first .. last + 1 |->
                                 IF m = last + 1 THEN d ELSE Numbered(p)[m]]
<1> DEFINE first == p[1].num
           last  == p[Len(p)].num
           x     == [num |-> last + 1, data |-> d]
           q     == Append(p, x)
           f     == Numbered(p)
           g     == Numbered(q)
<1>1. Len(p) \in Nat /\ Len(p) >= 1 /\ DOMAIN p = 1..Len(p)
  OBVIOUS
<1>2. first \in Nat /\ last \in Nat
  BY <1>1, PackageHas
<1>3. last = first + Len(p) - 1
  BY <1>1 DEF Consecutive
<1>5. x \in Package /\ x.num = last + 1 /\ x.data = d
  <2> HIDE DEF last
  <2>1. last + 1 \in Nat
    BY <1>2
  <2> QED
    BY <2>1 DEF Package
<1> HIDE DEF x
<1>4. q \in Seq(Package) /\ Len(q) = Len(p) + 1 /\ Consecutive(q)
  BY <1>5, AppendAgrees DEF last
<1>6. /\ DOMAIN q = 1..Len(p) + 1 /\ q # <<>> /\ q[1] = p[1]
      /\ \A i \in 1..Len(p) : q[i] = p[i]
      /\ q[Len(p) + 1] = x
  BY <1>1, <1>5
<1> HIDE DEF q
<1>7. /\ DOMAIN f = first .. first + Len(p) - 1
      /\ \A i \in DOMAIN p : p[i].num \in DOMAIN f /\ f[p[i].num] = p[i].data
      /\ \A m \in DOMAIN f : \E i \in DOMAIN p : p[i].num = m
  BY NumberedIs
<1>8. /\ g = [m \in DOMAIN g |-> g[m]]
      /\ DOMAIN g = first .. first + Len(q) - 1
      /\ \A i \in DOMAIN q : g[q[i].num] = q[i].data
  BY <1>4, <1>6, NumberedIs
<1> HIDE DEF f, g, first, last
<1>9. DOMAIN f = first .. last /\ DOMAIN g = first .. last + 1
  BY <1>1, <1>2, <1>3, <1>4, <1>7, <1>8
<1>10. g[last + 1] = d
  <2>1. Len(p) + 1 \in DOMAIN q
    BY <1>1, <1>6
  <2> QED
    BY <1>5, <1>6, <1>8, <2>1
<1>11. ASSUME NEW m \in first .. last + 1, m # last + 1 PROVE g[m] = f[m]
  <2>1. m \in DOMAIN f
    BY <1>2, <1>9, <1>11
  <2>2. PICK i \in DOMAIN p : p[i].num = m
    BY <1>7, <2>1
  <2>3. i \in DOMAIN q /\ q[i] = p[i]
    BY <1>1, <1>6
  <2>4. f[m] = p[i].data
    BY <1>7, <2>2, Zenon
  <2>5. g[m] = q[i].data
    BY <1>8, <2>2, <2>3, Zenon
  <2> QED
    BY <2>3, <2>4, <2>5
<1>12. g = [m \in first .. last + 1 |-> IF m = last + 1 THEN d ELSE f[m]]
  BY <1>8, <1>9, <1>10, <1>11
<1> QED
  BY <1>2, <1>3, <1>9, <1>12 DEF f, g, q, x, first, last

\* Without its front the list is the interval without its first number.
LEMMA NumberedTail ==
  ASSUME NEW p \in Seq(Package), p # <<>>, Consecutive(p),
         NEW s \in Seq(Nat), Agree(s, p)
  PROVE  LET first == p[1].num
             last  == p[Len(p)].num
         IN  /\ first \in Nat /\ last \in Nat /\ last = first + Len(p) - 1
             /\ first <= last /\ DOMAIN Numbered(p) = first .. last
             /\ Numbered(p)[first] = p[1].data
             /\ Numbered(Tail(p)) = [m \in first + 1 .. last |-> Numbered(p)[m]]
<1> DEFINE first == p[1].num
           last  == p[Len(p)].num
           q     == Tail(p)
           f     == Numbered(p)
           g     == Numbered(q)
<1>1. Len(p) \in Nat /\ Len(p) >= 1 /\ DOMAIN p = 1..Len(p) /\ 1 \in 1..Len(p)
  OBVIOUS
<1>2. first \in Nat /\ last \in Nat
  BY <1>1, PackageHas
<1>3. last = first + Len(p) - 1
  BY <1>1 DEF Consecutive
<1>4. q \in Seq(Package) /\ Consecutive(q) /\ Len(q) = Len(p) - 1
  BY TailAgrees
<1>5. DOMAIN q = 1..Len(q) /\ \A i \in 1..Len(q) : q[i] = p[i + 1]
  OBVIOUS
<1> HIDE DEF q
<1>6. q = <<>> <=> Len(p) = 1
  BY <1>1, <1>4
<1>7. /\ DOMAIN f = first .. first + Len(p) - 1
      /\ \A i \in DOMAIN p : p[i].num \in DOMAIN f /\ f[p[i].num] = p[i].data
  BY NumberedIs
<1>8. /\ g = [m \in DOMAIN g |-> g[m]]
      /\ q = <<>> => DOMAIN g = {}
      /\ q # <<>> => DOMAIN g = q[1].num .. q[1].num + Len(q) - 1
      /\ \A i \in DOMAIN q : q[i].num \in DOMAIN g /\ g[q[i].num] = q[i].data
      /\ \A m \in DOMAIN g : \E i \in DOMAIN q : q[i].num = m
  BY <1>4, NumberedIs
<1> HIDE DEF f, g
<1>9. DOMAIN g = first + 1 .. last
  <2>1. CASE Len(p) = 1
    <3>1. first + 1 .. last = {}
      <4> HIDE DEF first, last
      <4> QED
        BY <1>2, <1>3, <2>1
    <3> QED
      BY <1>6, <1>8, <2>1, <3>1
  <2>2. CASE Len(p) # 1
    <3>1. q[1].num = first + 1
      <4>0. 1 \in 1..Len(q) /\ 1 + 1 = 2
        BY <1>1, <1>4, <2>2
      <4>1. q[1] = p[2] /\ 2 \in DOMAIN p
        BY <1>1, <1>4, <1>5, <4>0
      <4>2. p[2].num = first + 2 - 1
        BY <4>1 DEF Consecutive
      <4> HIDE DEF first, last
      <4> QED
        BY <1>2, <4>1, <4>2
    <3>2. DOMAIN g = first + 1 .. first + 1 + Len(q) - 1
      BY <1>6, <1>8, <2>2, <3>1
    <3> HIDE DEF first, last
    <3> QED
      BY <1>1, <1>2, <1>3, <1>4, <3>2
  <2> QED
    BY <2>1, <2>2
<1>10. ASSUME NEW m \in first + 1 .. last PROVE g[m] = f[m]
  <2>1. PICK i \in DOMAIN q : q[i].num = m
    BY <1>8, <1>9
  <2>2. i + 1 \in DOMAIN p /\ q[i] = p[i + 1]
    BY <1>1, <1>4, <1>5
  <2>3. g[m] = q[i].data
    BY <1>8, <2>1, Zenon
  <2>4. f[p[i + 1].num] = p[i + 1].data
    BY <1>7, <2>2, Zenon
  <2> QED
    BY <2>1, <2>2, <2>3, <2>4, Zenon
<1>11. g = [m \in first + 1 .. last |-> f[m]]
  BY <1>8, <1>9, <1>10
<1>12. f[first] = p[1].data
  BY <1>1, <1>7 DEF first
<1>13. first <= last /\ DOMAIN f = first .. last
  <2> HIDE DEF first, last
  <2> QED
    BY <1>1, <1>2, <1>3, <1>7
<1> QED
  BY <1>2, <1>3, <1>11, <1>12, <1>13 DEF f, g, q, first, last

-----------------------------------------------------------------------------
(* Buffor implements PlayBuffer *)

\* What is buffered and played carries the one stream there is.
LEMMA OneStreamIs ==
  ASSUME IInv
  PROVE  PlayBuffer!OneStream(run) /\ run \in Runs
<1> DEFINE f == Numbered(packages)
<1>1. packages \in Seq(Package) /\ Consecutive(packages) /\ run \in Runs
  BY DEF IInv, Lists, TypeOK
<1>2. /\ \A i \in DOMAIN packages : f[packages[i].num] = packages[i].data
      /\ \A m \in DOMAIN f : \E i \in DOMAIN packages : packages[i].num = m
  BY <1>1, NumberedIs
<1>3. \A i \in DOMAIN packages : packages[i].data \in {run, Hole}
  BY DEF IInv, OneRun
<1> HIDE DEF f
<1>4. ASSUME NEW m \in DOMAIN f PROVE f[m] \in {run, Hole}
  <2>1. PICK i \in DOMAIN packages : packages[i].num = m
    BY <1>2
  <2>2. f[m] = packages[i].data
    BY <1>2, <2>1, Zenon
  <2> QED
    BY <1>3, <2>2, Zenon
<1>5. Playing.data \in {run, Hole}
  BY DEF Playing, IInv, OneRun
<1> QED
  BY <1>1, <1>4, <1>5 DEF PlayBuffer!OneStream, f

\* A packet that arrives takes its hole, starts the buffer, or changes nothing yet.
LEMMA ReceiveImplements ==
  ASSUME IInv, NEW n \in 0..MaxNum,
         AddFound(n) \/ AddFirst(n) \/ AddFull(n) \/ AddEnter(n)
  PROVE  PlayBuffer!Next \/ UNCHANGED <<packages, Playing>>
<1>1. packages \in Seq(Package) /\ Consecutive(packages) /\ set \in Seq(Nat)
      /\ Agree(set, packages) /\ n \in Nat /\ run \in Nat /\ run # Hole /\ TypeOK
  BY ConstantsAssumption, RunHas DEF IInv, Lists, TypeOK
<1>2. Playing' = Playing
  BY <1>1, StartThreads DEF AddFound, AddFirst, AddFull, AddEnter, printVars, Playing
<1>3. PlayBuffer!OneStream(run) /\ run \in Runs
  BY OneStreamIs
<1>4. CASE AddFound(n)
  <2>1. /\ Found(set, n) # {}
        /\ packages' = [i \in DOMAIN packages |->
                          IF packages[i].num = n THEN [num |-> n, data |-> run]
                                                 ELSE packages[i]]
    BY <1>4 DEF AddFound
  <2>2. /\ n \in DOMAIN Numbered(packages) /\ Numbered(packages)[n] = Hole
        /\ Numbered(packages') = [Numbered(packages) EXCEPT ![n] = run]
    <3>1. /\ packages \in Seq(Package) /\ Consecutive(packages) /\ set \in Seq(Nat)
          /\ Agree(set, packages) /\ n \in Nat /\ run \in Nat /\ run # Hole
      BY <1>1
    <3> QED
      BY <2>1, <3>1, NumberedFills, ZenonT(60)
  <2>3. PlayBuffer!Fill
    BY <1>2, <1>3, <2>2 DEF PlayBuffer!Fill
  <2> QED
    BY <2>3 DEF PlayBuffer!Next
<1>5. CASE AddFirst(n)
  <2>1. packages = <<>> /\ packages' = <<[num |-> n, data |-> run]>>
    BY <1>5 DEF AddFirst
  <2>2. Numbered(packages) = PlayBuffer!Empty
    BY <2>1, NumberedEmpty
  <2>3. Numbered(packages') = [m \in {n} |-> run]
    BY <2>1, NumberedOne
  <2>4. PlayBuffer!Start
    BY <1>2, <1>3, <2>2, <2>3 DEF PlayBuffer!Start
  <2> QED
    BY <2>4 DEF PlayBuffer!Next
<1>6. CASE AddFull(n) \/ AddEnter(n)
  BY <1>2, <1>6 DEF AddFull, AddEnter, bufforVars
<1> QED
  BY <1>4, <1>5, <1>6

\* One turn of the loop of add_to_buffor: the next packet, or a hole in its place.
LEMMA AddImplements ==
  ASSUME IInv, AddNext \/ AddHole
  PROVE  PlayBuffer!Next
<1> DEFINE first == packages[1].num
           last  == packages[Len(packages)].num
<1>1. /\ packages \in Seq(Package) /\ Consecutive(packages) /\ set \in Seq(Nat)
      /\ Agree(set, packages) /\ packages # <<>> /\ Len(packages) < size
      /\ size \in {0, Capacity} /\ Capacity \in Nat
  BY ConstantsAssumption DEF IInv, Lists, TypeOK, Bounded, AddNext, AddHole
<1>2. Len(packages) \in Nat /\ Len(packages) >= 1
  BY <1>1, NonEmptyLength
<1>3. size = Capacity
  BY <1>1, <1>2
<1>4. Playing' = Playing
  <2>1. TypeOK
    BY DEF IInv, Lists
  <2> QED
    BY <2>1, StartThreads DEF AddNext, AddHole, printVars, Playing
<1>5. PlayBuffer!OneStream(run) /\ run \in Runs
  BY OneStreamIs
<1>6. run \in Nat /\ Hole \in Nat
  BY ConstantsAssumption DEF IInv, Lists, TypeOK, Runs, Hole
<1>7. /\ first \in Nat /\ last \in Nat /\ last = first + Len(packages) - 1
      /\ DOMAIN Numbered(packages) = first .. last
  BY <1>1, <1>6, NumberedAppends
<1>8. CASE AddNext
  <2>1. packages' = Append(packages, [num |-> last + 1, data |-> run])
    BY <1>8 DEF AddNext, Back
  <2>2. Numbered(packages') = [m \in first .. last + 1 |->
          IF m = last + 1 THEN run ELSE Numbered(packages)[m]]
    BY <1>1, <1>6, <2>1, NumberedAppends
  <2> HIDE DEF first, last
  <2>3. /\ first \in DOMAIN Numbered(packages) /\ last \in DOMAIN Numbered(packages)
        /\ first <= last /\ last + 1 < first + Capacity
    BY <1>1, <1>2, <1>3, <1>7
  <2>4. PlayBuffer!Spans(first, last)
    BY <1>7, <2>3 DEF PlayBuffer!Spans
  <2>5. PlayBuffer!Extend(first, last)
    BY <1>4, <1>5, <2>2, <2>3 DEF PlayBuffer!Extend
  <2> QED
    BY <2>3, <2>4, <2>5 DEF PlayBuffer!Next
<1>9. CASE AddHole
  <2> DEFINE x == [num |-> last + 1, data |-> Hole]
             longer == Append(packages, x)
             oldest == IF last + 2 = first + Capacity THEN first + 1 ELSE first
  <2>1. packages' = IF Len(longer) = Capacity THEN Tail(longer) ELSE longer
    BY <1>3, <1>9 DEF AddHole, Back
  <2>2. Numbered(longer) = [m \in first .. last + 1 |->
          IF m = last + 1 THEN Hole ELSE Numbered(packages)[m]]
    BY <1>1, <1>6, NumberedAppends
  <2>3. x \in Package /\ x.data = Hole /\ x.num = packages[Len(packages)].num + 1
    BY <1>6, <1>7 DEF Package
  <2>4. /\ longer \in Seq(Package) /\ Consecutive(longer)
        /\ Len(longer) = Len(packages) + 1
        /\ Append(set, x.num) \in Seq(Nat) /\ Agree(Append(set, x.num), longer)
    <3> HIDE DEF x
    <3> QED
      BY <1>1, <2>3, AppendAgrees
  <2>5. longer # <<>> /\ longer[1] = packages[1]
    <3>1. longer # <<>>
      BY <1>2, <2>4
    <3> HIDE DEF x
    <3> QED
      BY <1>1, <1>2, <2>3, <3>1
  <2>6. /\ longer[Len(longer)].num = longer[1].num + Len(longer) - 1
        /\ Numbered(Tail(longer)) = [m \in longer[1].num + 1 .. longer[Len(longer)].num
                                       |-> Numbered(longer)[m]]
    <3> HIDE DEF longer
    <3> QED
      BY <2>4, <2>5, NumberedTail
  <2>7. longer[1].num = first
    BY <2>5
  <2> HIDE DEF first, last, longer, x
  <2>8. first <= last /\ last + 1 < first + Capacity
    BY <1>1, <1>2, <1>3, <1>7
  <2>9. longer[Len(longer)].num = last + 1
    BY <1>2, <1>7, <2>4, <2>6, <2>7
  <2>10. Len(longer) = Capacity <=> last + 2 = first + Capacity
    BY <1>1, <1>2, <1>7, <2>4
  <2>11. first \in DOMAIN Numbered(packages) /\ last \in DOMAIN Numbered(packages)
    BY <1>7, <2>8
  <2>12. Numbered(packages') = [m \in oldest .. last + 1 |->
           IF m = last + 1 THEN Hole ELSE Numbered(packages)[m]]
    <3>1. CASE Len(longer) = Capacity
      <4>1. Numbered(packages') = [m \in first + 1 .. last + 1 |-> Numbered(longer)[m]]
        BY <2>1, <2>6, <2>7, <2>9, <3>1
      <4>2. \A m \in first + 1 .. last + 1 : m \in first .. last + 1
        BY <1>7
      <4>3. Numbered(packages') = [m \in first + 1 .. last + 1 |->
              IF m = last + 1 THEN Hole ELSE Numbered(packages)[m]]
        BY <2>2, <4>1, <4>2
      <4>4. oldest = first + 1
        BY <2>10, <3>1
      <4> QED
        BY <4>3, <4>4
    <3>2. CASE Len(longer) # Capacity
      <4>1. oldest = first /\ packages' = longer
        BY <2>1, <2>10, <3>2
      <4> QED
        BY <2>2, <4>1
    <3> QED
      BY <3>1, <3>2
  <2>13. PlayBuffer!Spans(first, last)
    BY <1>7, <2>8 DEF PlayBuffer!Spans
  <2>14. PlayBuffer!Slip(first, last)
    BY <1>4, <2>8, <2>12 DEF PlayBuffer!Slip
  <2> QED
    BY <2>11, <2>13, <2>14 DEF PlayBuffer!Next
<1> QED
  BY <1>8, <1>9

\* printing_loop takes out and plays the front, and no hole.
LEMMA PopImplements ==
  ASSUME IInv, PrintPop
  PROVE  PlayBuffer!Next
<1> DEFINE first == packages[1].num
           last  == packages[Len(packages)].num
<1>1. /\ packages \in Seq(Package) /\ Consecutive(packages) /\ packages # <<>>
      /\ set \in Seq(Nat) /\ Agree(set, packages)
  BY DEF IInv, Lists, TypeOK, PrintPop
<1>2. Playing = PlayBuffer!Nothing
  BY DEF PrintPop, Playing, PlayBuffer!Nothing
<1>3. packages' = Tail(packages) /\ packages[1].data # Hole
  BY DEF PrintPop
<1>4. Playing' = [num |-> first, data |-> packages[1].data]
  <2>1. packages[1] \in Package
    BY <1>1
  <2> QED
    BY <2>1 DEF PrintPop, Playing, Package
<1>5. /\ first \in Nat /\ last \in Nat
      /\ first <= last /\ DOMAIN Numbered(packages) = first .. last
      /\ Numbered(packages)[first] = packages[1].data
      /\ Numbered(packages') = [m \in first + 1 .. last |-> Numbered(packages)[m]]
  BY <1>1, <1>3, NumberedTail
<1> HIDE DEF first, last
<1>6. first \in DOMAIN Numbered(packages) /\ last \in DOMAIN Numbered(packages)
  BY <1>5
<1>8. PlayBuffer!Spans(first, last)
  BY <1>5 DEF PlayBuffer!Spans
<1>9. PlayBuffer!Play(first, last)
  BY <1>2, <1>3, <1>4, <1>5 DEF PlayBuffer!Play
<1> QED
  BY <1>6, <1>8, <1>9 DEF PlayBuffer!Next

LEMMA StepImplements ==
  IInv /\ [Next]_vars => [PlayBuffer!Next]_<<Numbered(packages), Playing>>
<1> SUFFICES ASSUME IInv, [Next]_vars
             PROVE  PlayBuffer!Next \/ UNCHANGED <<packages, Playing>>
  OBVIOUS
<1>1. ASSUME NEW n \in 0..MaxNum,
             AddFound(n) \/ AddFirst(n) \/ AddFull(n) \/ AddEnter(n)
      PROVE  PlayBuffer!Next \/ UNCHANGED <<packages, Playing>>
  BY <1>1, ReceiveImplements
<1>2. CASE AddNext \/ AddHole
  BY <1>2, AddImplements
<1>3. CASE PrintPop
  BY <1>3, PopImplements
<1>4. CASE DataEnds \/ PrintHole
  <2>1. packages' = <<>> /\ Playing' = Playing
    BY <1>4 DEF DataEnds, PrintHole, reset, printVars, Playing
  <2>2. Numbered(packages') = PlayBuffer!Empty
    BY <2>1, NumberedEmpty
  <2>3. PlayBuffer!Clear
    BY <2>1, <2>2 DEF PlayBuffer!Clear
  <2> QED
    BY <2>3 DEF PlayBuffer!Next
<1>5. CASE PrintWrite
  <2>1. packages' = packages /\ Playing.data # Hole /\ Playing' = [num |-> 0, data |-> Hole]
    <3>1. run # Hole
      BY RunHas DEF IInv, Lists
    <3> QED
      BY <1>5, <3>1 DEF PrintWrite, bufforVars, Playing, IInv, OneRun
  <2>2. PlayBuffer!Written
    BY <2>1 DEF PlayBuffer!Written, PlayBuffer!Nothing
  <2> QED
    BY <2>2 DEF PlayBuffer!Next
<1>6. CASE PrintDone \/ DataStop \/ DataJoin \/ NextRun \/ UNCHANGED vars
  BY <1>6 DEF PrintDone, DataStop, DataJoin, NextRun, vars, bufforVars, printVars, Playing
<1>7. CASE \E r \in Runs : Requesting(r)
  BY <1>7 DEF Requesting, RequestTest, Request, bufforVars, printVars, Playing
<1> QED
  BY <1>1, <1>2, <1>3, <1>4, <1>5, <1>6, <1>7 DEF Next, Data, Printing

\* For every capacity: the two linked lists, the mutex and the threads implement
\* PlayBuffer, the promise big3's buffer keeps too.
THEOREM BufforImplementsPlayBuffer == Spec => ImplementsPlayBuffer
<1>1. Init => PlayBuffer!Init
  <2> SUFFICES ASSUME Init PROVE PlayBuffer!Init
    OBVIOUS
  <2>1. packages = <<>> /\ Playing = PlayBuffer!Nothing
    BY DEF Init, Playing, PlayBuffer!Nothing
  <2>2. Numbered(packages) = PlayBuffer!Empty
    BY <2>1, NumberedEmpty
  <2> QED
    BY <2>1, <2>2 DEF PlayBuffer!Init
<1>2. IInv /\ [Next]_vars => [PlayBuffer!Next]_<<Numbered(packages), Playing>>
  BY StepImplements
<1> QED
  BY <1>1, <1>2, BufforInv, PTL DEF Spec, ImplementsPlayBuffer, PlayBuffer!Spec
=============================================================================
