--------------------------- MODULE StationsProofs ---------------------------
(***************************************************************************)
(* Theorems about Stations, for any senders and names, any number of       *)
(* terminals and every bound.                                              *)
(*                                                                         *)
(* The argument: a place between names that are not greater and names that *)
(* are keeps the list ordered, and what check_time leaves is a part of it  *)
(* in the same order; the mark is only ever put on a listed station; and   *)
(* menu_changed is set from the moment a terminal shows less than the menu *)
(* until loop_terminal has sent it to the last one, since nothing enters   *)
(* the menu while it is set.  A terminal greeted with half a change comes  *)
(* while menu_changed is set already.                                      *)
(***************************************************************************)
EXTENDS Stations, FiniteSetTheorems, SequenceTheorems, TLAPS

Ordered(list) ==
  \A i, j \in DOMAIN list :
    i < j => Name[list[i]] <= Name[list[j]] /\ list[i] # list[j]

Follow == \A t \in On \ Calling : screen[t] = draw_menu

\* The redraw comes between the change and the reset of menu_changed, and nothing
\* enters the menu while it is sent.
Drawn ==
  /\ terminal_pc \in {"refresh", "reply", "draw", "announce", "clear"} => menu_changed
  /\ terminal_pc \in {"reply", "announce"} =>
       /\ out_buffer = draw_menu
       /\ \A t \in On : screen[t] = draw_menu \/ \E i \in DOMAIN unsent : unsent[i] = t
  /\ terminal_pc = "clear" => Follow
  /\ terminal_pc = "greet" => menu_changed \/ out_buffer = draw_menu
  /\ ~menu_changed /\ ~missed => Follow

\* Every connected terminal has its socket, and one at most is greeted.
Served ==
  /\ \A t \in On : \E i \in DOMAIN sockets : sockets[i] = t
  /\ terminal_pc = "greet" => \E t \in On : unsent = <<t>>

IInv == TypeOK /\ SortedOnce /\ ActiveNeverDangles /\ Drawn /\ Served

-----------------------------------------------------------------------------
(* Lists *)

\* What InsertAt does to a list of stations.
LEMMA InsertFacts ==
  ASSUME stations \in Seq(Senders), NEW s \in Senders,
         NEW i \in 1..Len(stations) + 1, NEW list, list = InsertAt(stations, i, s)
  PROVE  /\ list \in Seq(Senders) /\ Len(list) = Len(stations) + 1
         /\ list[i] = s
         /\ \A j \in DOMAIN list : j < i => j \in DOMAIN stations /\ list[j] = stations[j]
         /\ \A j \in DOMAIN list : j > i => j - 1 \in DOMAIN stations /\ list[j] = stations[j - 1]
<1> DEFINE before == SubSeq(stations, 1, i - 1)
           after  == SubSeq(stations, i, Len(stations))
           start  == before \o <<s>>
<1>1. Len(stations) \in Nat /\ i \in Nat /\ i >= 1 /\ i <= Len(stations) + 1
  BY LenProperties
<1>2. /\ before \in Seq(Senders) /\ Len(before) = i - 1
      /\ \A j \in 1..i - 1 : before[j] = stations[j]
  <2>1. before \in Seq(Senders)
    BY <1>1
  <2>2. Len(before) = i - 1 /\ \A j \in 1..i - 1 : before[j] = stations[j]
    BY <1>1
  <2> QED
    BY <2>1, <2>2
<1>3. /\ after \in Seq(Senders) /\ Len(after) = Len(stations) + 1 - i
      /\ \A j \in 1..Len(stations) + 1 - i : after[j] = stations[i + j - 1]
  <2>1. after \in Seq(Senders)
    BY <1>1
  <2>2. Len(after) = Len(stations) + 1 - i
    BY <1>1
  <2>3. \A j \in 1..Len(stations) + 1 - i : after[j] = stations[i + j - 1]
    BY <1>1
  <2> QED
    BY <2>1, <2>2, <2>3
<1> HIDE DEF before, after
<1>4. /\ start \in Seq(Senders) /\ Len(start) = i /\ start[i] = s
      /\ \A j \in 1..i - 1 : start[j] = stations[j]
  BY <1>1, <1>2
<1> HIDE DEF start
<1>5. list = start \o after
  BY DEF InsertAt, start, before, after
<1>6. list \in Seq(Senders) /\ Len(list) = Len(stations) + 1
  <2>1. list \in Seq(Senders)
    BY <1>3, <1>4, <1>5, ConcatProperties
  <2>2. Len(list) = Len(start) + Len(after)
    BY <1>3, <1>4, <1>5, ConcatProperties
  <2> QED
    BY <1>1, <1>3, <1>4, <2>1, <2>2
<1>7. \A j \in 1..Len(list) : list[j] = IF j <= i THEN start[j] ELSE after[j - i]
  BY <1>1, <1>3, <1>4, <1>5
<1>8. list[i] = s /\ \A j \in DOMAIN list : j < i => j \in DOMAIN stations /\ list[j] = stations[j]
  BY <1>1, <1>4, <1>6, <1>7
<1>9. \A j \in DOMAIN list : j > i => j - 1 \in DOMAIN stations /\ list[j] = stations[j - 1]
  <2> SUFFICES ASSUME NEW j \in DOMAIN list, j > i
               PROVE  j - 1 \in DOMAIN stations /\ list[j] = stations[j - 1]
    OBVIOUS
  <2>1. j \in Nat /\ j - i \in 1..Len(stations) + 1 - i
    BY <1>1, <1>6
  <2>2. list[j] = after[j - i]
    <3>1. j \in 1..Len(list) /\ ~(j <= i)
      BY <1>1, <1>6, <2>1
    <3> QED
      BY <1>7, <3>1
  <2>3. after[j - i] = stations[i + (j - i) - 1]
    BY <1>3, <2>1
  <2> QED
    BY <1>1, <2>1, <2>2, <2>3
<1> QED
  BY <1>6, <1>8, <1>9

\* A station put in its place leaves the list ordered, with it in it.
LEMMA InsertOrdered ==
  ASSUME ConstantsAssumption, stations \in Seq(Senders), SortedOnce,
         NEW s \in Senders \ Listed, insert(s)
  PROVE  stations' \in Seq(Senders) /\ SortedOnce' /\ Listed' = Listed \union {s}
<1>1. PICK i \in 1..Len(stations) + 1 : IsPlace(i, s) /\ stations' = InsertAt(stations, i, s)
  BY DEF insert
<1> DEFINE list == stations'
<1>2. /\ list \in Seq(Senders) /\ Len(list) = Len(stations) + 1
      /\ list[i] = s
      /\ \A j \in DOMAIN list : j < i => j \in DOMAIN stations /\ list[j] = stations[j]
      /\ \A j \in DOMAIN list : j > i => j - 1 \in DOMAIN stations /\ list[j] = stations[j - 1]
  BY <1>1, InsertFacts
<1> HIDE DEF list
<1>3. /\ Len(stations) \in Nat /\ DOMAIN stations = 1..Len(stations)
      /\ DOMAIN list = 1..Len(stations) + 1 /\ i \in DOMAIN list
      /\ \A j \in DOMAIN stations : stations[j] \in Senders /\ stations[j] # s
      /\ \A r \in Senders : Name[r] \in Nat
  BY <1>1, <1>2 DEF ConstantsAssumption, Listed
<1>4. /\ \A j \in DOMAIN stations : j < i => Name[stations[j]] <= Name[s]
      /\ \A j \in DOMAIN stations : j >= i => Name[s] <= Name[stations[j]]
  <2>1. \A j \in DOMAIN stations : j < i => Name[stations[j]] <= Name[s]
    BY <1>1 DEF IsPlace
  <2>2. ASSUME NEW j \in DOMAIN stations, j >= i PROVE Name[s] <= Name[stations[j]]
    <3>1. i \in DOMAIN stations /\ Name[stations[i]] > Name[s]
      BY <1>1, <1>3, <2>2 DEF IsPlace
    <3>2. i = j \/ i < j
      BY <1>3, <2>2
    <3>3. i = j \/ Name[stations[i]] <= Name[stations[j]]
      BY <3>1, <3>2 DEF SortedOnce
    <3> QED
      BY <1>3, <3>1, <3>3
  <2> QED
    BY <2>1, <2>2
<1> DEFINE Old(m) == IF m < i THEN m ELSE m - 1
<1>5. ASSUME NEW m \in DOMAIN list, m # i
      PROVE  Old(m) \in DOMAIN stations /\ list[m] = stations[Old(m)]
  <2>1. CASE m < i
    BY <1>2, <2>1
  <2>2. CASE m > i
    <3>1. Old(m) = m - 1
      BY <1>3, <2>2
    <3> QED
      BY <1>2, <2>2, <3>1
  <2> QED
    BY <1>3, <1>5, <2>1, <2>2
<1>6. ASSUME NEW j \in DOMAIN list, NEW k \in DOMAIN list, j < k
      PROVE  Name[list[j]] <= Name[list[k]] /\ list[j] # list[k]
  <2> j \in Nat /\ k \in Nat /\ i \in Nat
    BY <1>3
  <2>1. CASE k < i \/ j > i \/ (j < i /\ i < k)
    <3>1. j # i /\ k # i
      BY <1>6, <2>1
    <3>2. Old(j) < Old(k)
      BY <1>6, <2>1
    <3>3. /\ Old(j) \in DOMAIN stations /\ list[j] = stations[Old(j)]
          /\ Old(k) \in DOMAIN stations /\ list[k] = stations[Old(k)]
      BY <1>5, <3>1
    <3> HIDE DEF Old
    <3> QED
      BY <3>2, <3>3 DEF SortedOnce
  <2>2. CASE k = i
    BY <1>2, <1>3, <1>4, <1>6, <2>2
  <2>3. CASE j = i
    <3>1. k - 1 \in DOMAIN stations /\ list[k] = stations[k - 1] /\ k - 1 >= i
      BY <1>2, <1>6, <2>3
    <3> QED
      BY <1>2, <1>3, <1>4, <2>3, <3>1
  <2> QED
    BY <2>1, <2>2, <2>3
<1>7. s \in {list[j] : j \in DOMAIN list}
  BY <1>2, <1>3
<1>8. ASSUME NEW j \in DOMAIN stations PROVE stations[j] \in {list[k] : k \in DOMAIN list}
  <2>1. CASE j < i
    <3>1. j \in DOMAIN list /\ list[j] = stations[j]
      BY <1>2, <1>3, <2>1
    <3> QED
      BY <3>1
  <2>2. CASE j >= i
    <3>1. j + 1 \in DOMAIN list /\ j + 1 > i /\ (j + 1) - 1 = j
      BY <1>3, <2>2
    <3>2. list[j + 1] = stations[j]
      BY <1>2, <3>1
    <3> QED
      BY <3>1, <3>2
  <2> QED
    BY <1>3, <2>1, <2>2
<1>9. {list[j] : j \in DOMAIN list} = Listed \union {s}
  <2>1. \A j \in DOMAIN list : list[j] \in Listed \union {s}
    <3> HIDE DEF Old
    <3> QED
      BY <1>2, <1>5 DEF Listed
  <2>2. \A r \in Listed \union {s} : r \in {list[j] : j \in DOMAIN list}
    BY <1>7, <1>8 DEF Listed
  <2> QED
    BY <2>1, <2>2
<1> QED
  BY <1>2, <1>6, <1>9 DEF list, SortedOnce, Listed

\* What check_time leaves is ordered, and all that was heard of.
LEMMA KeepOrdered ==
  ASSUME stations \in Seq(Senders), SortedOnce, keep_heard
  PROVE  stations' \in Seq(Senders) /\ SortedOnce' /\ Listed' = Listed \ silent
<1> DEFINE heard == {i \in DOMAIN stations : stations[i] \notin silent}
           n     == Cardinality(heard)
<1>1. n \in Nat /\ heard \subseteq DOMAIN stations /\ IsFiniteSet(heard)
  <2>1. IsFiniteSet(1..Len(stations)) /\ DOMAIN stations = 1..Len(stations)
    BY FS_Interval, LenProperties
  <2>2. heard \subseteq 1..Len(stations)
    BY <2>1
  <2>3. IsFiniteSet(heard)
    BY <2>1, <2>2, FS_Subset
  <2> QED
    BY <2>1, <2>3, FS_CardinalityType
<1>2. PICK at \in [1..n -> heard] :
        /\ \A j, k \in DOMAIN at : j < k => at[j] < at[k]
        /\ stations' = [k \in DOMAIN at |-> stations[at[k]]]
  BY DEF keep_heard
<1>3. n = Cardinality(heard) /\ \A i \in heard : i \in DOMAIN stations /\ stations[i] \notin silent
  OBVIOUS
<1>4. \A i \in DOMAIN stations : stations[i] \notin silent => i \in heard
  OBVIOUS
<1> HIDE DEF n, heard
<1>5. DOMAIN at = 1..n /\ \A k \in 1..n : at[k] \in DOMAIN stations
  BY <1>1, <1>2
<1>6. stations' \in [1..n -> Senders]
  BY <1>2, <1>5
<1>7. stations' \in Seq(Senders)
  BY <1>1, <1>6
<1>8. \A j, k \in 1..n : j < k => /\ at[j] < at[k]
                                   /\ stations'[j] = stations[at[j]]
                                   /\ stations'[k] = stations[at[k]]
  BY <1>2, <1>5
<1>9. SortedOnce'
  <2>1. DOMAIN stations' = 1..n
    BY <1>6
  <2> QED
    BY <1>5, <1>8, <2>1 DEF SortedOnce
<1>10. at \in Surjection(1..n, heard)
  <2>1. heard \subseteq Nat
    BY <1>1, LenProperties
  <2>2. ASSUME NEW j \in 1..n, NEW k \in 1..n, at[j] = at[k] PROVE j = k
    <3>1. ~(j < k) /\ ~(k < j)
      <4>1. at[j] \in Nat /\ at[k] \in Nat
        BY <1>2, <2>1
      <4> QED
        BY <1>8, <2>2, <4>1
    <3> QED
      BY <3>1
  <2>3. at \in Injection(1..n, heard)
    BY <1>2, <2>2 DEF Injection, IsInjective
  <2>4. Cardinality(1..n) = n
    BY <1>1, FS_Interval
  <2> QED
    BY <1>3, <1>1, <2>3, <2>4, FS_Injection
<1>11. {stations'[k] : k \in 1..n} = Listed \ silent
  <2>1. ASSUME NEW k \in 1..n PROVE stations'[k] \in Listed \ silent
    <3>1. at[k] \in heard /\ stations'[k] = stations[at[k]]
      BY <1>2, <1>5
    <3> QED
      BY <1>3, <3>1 DEF Listed
  <2>2. ASSUME NEW s \in Listed \ silent PROVE s \in {stations'[k] : k \in 1..n}
    <3>1. PICK i \in DOMAIN stations : stations[i] = s
      BY DEF Listed
    <3>2. i \in heard
      BY <1>4, <3>1
    <3>3. PICK k \in 1..n : at[k] = i
      BY <1>10, <3>2 DEF Surjection
    <3> QED
      BY <1>2, <1>5, <3>1, <3>3
  <2> QED
    BY <2>1, <2>2
<1>12. Listed' = Listed \ silent
  BY <1>6, <1>11 DEF Listed
<1> QED
  BY <1>7, <1>9, <1>12

\* Who is left when a socket is erased.
LEMMA RemoveFacts ==
  ASSUME sockets \in Seq(Terminals), NEW t \in Terminals,
         NEW i \in DOMAIN sockets, sockets[i] = t, NEW left, left = RemoveAt(sockets, i)
  PROVE  /\ left \in Seq(Terminals)
         /\ \A k \in DOMAIN sockets :
              sockets[k] # t => \E m \in DOMAIN left : left[m] = sockets[k]
<1> DEFINE before == SubSeq(sockets, 1, i - 1)
           after  == SubSeq(sockets, i + 1, Len(sockets))
<1>1. Len(sockets) \in Nat /\ i \in 1..Len(sockets) /\ DOMAIN sockets = 1..Len(sockets)
  BY LenProperties
<1>2. /\ before \in Seq(Terminals) /\ Len(before) = i - 1
      /\ \A j \in 1..i - 1 : before[j] = sockets[j]
  <2>1. before \in Seq(Terminals)
    BY <1>1
  <2>2. Len(before) = i - 1 /\ \A j \in 1..i - 1 : before[j] = sockets[j]
    BY <1>1
  <2> QED
    BY <2>1, <2>2
<1>3. /\ after \in Seq(Terminals) /\ Len(after) = Len(sockets) - i
      /\ \A j \in 1..Len(sockets) - i : after[j] = sockets[i + j]
  <2>1. after \in Seq(Terminals)
    BY <1>1
  <2>2. Len(after) = Len(sockets) - i
    BY <1>1
  <2>3. \A j \in 1..Len(sockets) - i : after[j] = sockets[i + j]
    BY <1>1
  <2> QED
    BY <2>1, <2>2, <2>3
<1> HIDE DEF before, after
<1>4. left = before \o after
  BY DEF RemoveAt, before, after
<1>5. left \in Seq(Terminals) /\ Len(left) = Len(sockets) - 1
  <2>1. left \in Seq(Terminals) /\ Len(left) = Len(before) + Len(after)
    BY <1>2, <1>3, <1>4, ConcatProperties
  <2> QED
    BY <1>1, <1>2, <1>3, <2>1
<1>6. \A m \in 1..Len(left) : left[m] = IF m <= i - 1 THEN before[m] ELSE after[m - (i - 1)]
  BY <1>1, <1>2, <1>3, <1>4
<1>7. ASSUME NEW k \in DOMAIN sockets, sockets[k] # t
      PROVE  \E m \in DOMAIN left : left[m] = sockets[k]
  <2>1. CASE k < i
    <3>1. k \in 1..Len(left) /\ k <= i - 1 /\ k \in 1..i - 1
      BY <1>1, <1>5, <2>1
    <3>2. left[k] = before[k] /\ before[k] = sockets[k]
      BY <1>2, <1>6, <3>1
    <3>3. k \in DOMAIN left
      BY <1>5, <3>1
    <3> QED
      BY <3>2, <3>3
  <2>2. CASE k > i
    <3> DEFINE m == k - 1
    <3>1. /\ m \in 1..Len(left) /\ ~(m <= i - 1) /\ m - (i - 1) \in 1..Len(sockets) - i
          /\ i + (m - (i - 1)) = k
      BY <1>1, <1>5, <2>2
    <3>2. left[m] = after[m - (i - 1)]
      BY <1>6, <3>1
    <3>3. after[m - (i - 1)] = sockets[k]
      BY <1>3, <3>1
    <3> QED
      BY <1>5, <3>1, <3>2, <3>3
  <2> QED
    BY <1>1, <1>7, <2>1, <2>2
<1> QED
  BY <1>5, <1>7

\* The station above or below a listed one, or end(), is listed.
LEMMA Neighbours ==
  ASSUME stations \in Seq(Senders), Len(stations) >= 2,
         NEW s \in Listed \union {End}
  PROVE  Above(s) \in Listed /\ Below(s) \in Listed
<1> DEFINE at == CHOOSE j \in DOMAIN stations : stations[j] = s
<1>1. /\ Len(stations) \in Nat /\ DOMAIN stations = 1..Len(stations)
      /\ stations[1] \in Listed /\ Last(stations) \in Listed
      /\ Last(stations) = stations[Len(stations)]
  BY DEF Listed, Last
<1>2. CASE s = End
  BY <1>1, <1>2 DEF Above, Below
<1>3. CASE s # End
  <2>1. at \in DOMAIN stations /\ stations[at] = s
    BY <1>3 DEF Listed
  <2> HIDE DEF at
  <2>2. ASSUME s # stations[1] PROVE stations[at - 1] \in Listed
    <3>1. at # 1 /\ at - 1 \in DOMAIN stations
      BY <1>1, <2>1, <2>2
    <3> QED
      BY <3>1 DEF Listed
  <2>3. ASSUME s # Last(stations) PROVE stations[at + 1] \in Listed
    <3>1. at # Len(stations) /\ at + 1 \in DOMAIN stations
      BY <1>1, <2>1, <2>3
    <3> QED
      BY <3>1 DEF Listed
  <2> QED
    BY <1>1, <1>3, <2>2, <2>3 DEF Above, Below, at
<1> QED
  BY <1>2, <1>3

-----------------------------------------------------------------------------
(* Steps *)

\* What every step but loop_terminal's leaves alone.
Wires == <<sockets, screen, out_buffer, unsent>>

\* Sockets and greetings are loop_terminal's own.
LEMMA ServedStep ==
  ASSUME Served, UNCHANGED <<sockets, unsent, line>>,
         terminal_pc' = terminal_pc \/ terminal_pc' # "greet"
  PROVE  Served'
BY DEF Served, On

\* Nothing that ScreensFollow speaks of changes, but the place of loop_terminal.
Quiet ==
  /\ UNCHANGED <<stations, active, is_active, menu_changed, missed, line, Wires>>
  /\ \/ terminal_pc' = terminal_pc
     \/ /\ terminal_pc # "greet"
        /\ \/ terminal_pc' \in {"poll", "accept", "keys", "check", "done"}
           \/ terminal_pc' = "draw" /\ menu_changed

\* What a thread does while nothing that ScreensFollow speaks of changes.
LEMMA OtherStep ==
  ASSUME IInv, TypeOK',
         Quiet
  PROVE  IInv'
<1>1. SortedOnce' /\ ActiveNeverDangles'
  BY DEF Quiet, IInv, SortedOnce, ActiveNeverDangles, Listed, Wires
<1>2. On' = On /\ draw_menu' = draw_menu /\ UNCHANGED Wires
  BY DEF Quiet, On, draw_menu, Wires
<1>3. CASE terminal_pc' = terminal_pc
  <2>1. Calling' = Calling
    BY <1>2, <1>3 DEF Calling, Wires
  <2>2. Drawn' /\ Served'
    BY <1>2, <1>3, <2>1 DEF Quiet, IInv, Drawn, Served, Follow, Wires, Calling
  <2> QED
    BY <1>1, <2>2 DEF IInv
<1>4. CASE terminal_pc # "greet" /\ terminal_pc' # terminal_pc
  <2>1. /\ terminal_pc' \in {"poll", "accept", "keys", "check", "done", "draw"}
        /\ terminal_pc' = "draw" => menu_changed
    BY <1>4 DEF Quiet, Wires
  <2>2. Calling' = {} /\ Calling = {}
    BY <1>4, <2>1 DEF Calling
  <2>3. Drawn' /\ Served'
    BY <1>2, <2>1, <2>2 DEF Quiet, IInv, Drawn, Served, Follow, Wires, Calling
  <2> QED
    BY <1>1, <2>3 DEF IInv
<1> QED
  BY <1>3, <1>4 DEF Quiet, Wires

\* The steps of discovery.
LEMMA DiscoveryStep ==
  ASSUME ConstantsAssumption, IInv, Discovery
  PROVE  IInv'
<1>1. CASE request_lookup
  <2>1. TypeOK'
    BY <1>1 DEF request_lookup, menuVars, terminalVars, dataVars, IInv, TypeOK, lineVars,
                sendVars
  <2>2. Quiet
    BY <1>1 DEF Quiet, request_lookup, menuVars, terminalVars, dataVars, Wires, lineVars,
                sendVars
  <2> QED
    BY <2>1, <2>2, OtherStep
<1>2. CASE RecieveStore
  <2>1. TypeOK' /\ SortedOnce' /\ ActiveNeverDangles'
    BY <1>2 DEF RecieveStore, IInv, TypeOK, SortedOnce, ActiveNeverDangles, Listed,
                menuVars, terminalVars, dataVars, lineVars, sendVars
  <2>2. Drawn'
    BY <1>2 DEF RecieveStore, IInv, Drawn, Follow, On, draw_menu, menuVars, terminalVars,
                Served, Calling, lineVars, sendVars
  <2>3. Served'
    BY <1>2, ServedStep DEF RecieveStore, IInv, terminalVars, lineVars, sendVars
  <2> QED
    BY <2>1, <2>2, <2>3 DEF IInv
<1>3. CASE RecieveIdle
  <2>1. TypeOK'
    BY <1>3 DEF RecieveIdle, menuVars, terminalVars, dataVars, IInv, TypeOK, lineVars,
                sendVars
  <2>2. Quiet
    BY <1>3 DEF Quiet, RecieveIdle, menuVars, terminalVars, dataVars, Wires, lineVars,
                sendVars
  <2> QED
    BY <2>1, <2>2, OtherStep
<1>4. CASE RecieveFails
  <2>1. TypeOK'
    <3>1. alive' \in BOOLEAN /\ UNCHANGED <<finish, menuVars, menu_changed, lookupVars,
                                            terminalVars, dataVars, missed>>
      BY <1>4 DEF RecieveFails, dies
    <3> QED
      BY <3>1 DEF menuVars, lookupVars, terminalVars, dataVars, IInv, TypeOK, lineVars,
                  sendVars
  <2>2. Quiet
    BY <1>4 DEF Quiet, RecieveFails, dies, menuVars, lookupVars, terminalVars, dataVars,
                Wires, lineVars, sendVars
  <2> QED
    BY <2>1, <2>2, OtherStep
<1>5. ASSUME NEW s \in Senders, Recieve(s) PROVE IInv'
  <2>1. CASE menu_changed \/ add_found(s)
    <3>0. ~menu_changed => add_found(s)
      BY <2>1
    <3>1. Quiet
      BY <1>5, <3>0 DEF Quiet, Recieve, add_found, menuVars, terminalVars, add_menu, Wires,
                        lineVars, sendVars
    <3>2. silent' = silent \/ silent' = silent \ {s}
      <4>1. CASE menu_changed
        BY <1>5, <4>1 DEF Recieve, menuVars
      <4>2. CASE ~menu_changed
        BY <3>0, <4>2 DEF add_found
      <4> QED
        BY <4>1, <4>2
    <3>3. TypeOK'
      BY <1>5, <3>1, <3>2 DEF Quiet, Recieve, IInv, TypeOK, terminalVars, dataVars, Wires,
                              lineVars, sendVars
    <3> QED
      BY <3>1, <3>3, OtherStep
  <2>2. CASE ~menu_changed /\ (add_first(s) \/ add_next(s))
    <3>1. /\ menu_changed' = TRUE /\ s \notin Listed
          /\ terminal_pc' = terminal_pc
          /\ stations' \in Seq(Senders) /\ SortedOnce' /\ Listed' = Listed \union {s}
      <4>1. CASE add_first(s)
        <5>1. stations = <<>> /\ stations' = <<s>> /\ Listed = {}
          BY <4>1 DEF add_first, Listed
        <5>2. /\ stations' \in Seq(Senders) /\ DOMAIN stations' = {1} /\ stations'[1] = s
          BY <5>1
        <5> QED
          BY <1>5, <2>2, <5>1, <5>2 DEF Recieve, add_menu, add_found, terminalVars,
                                        SortedOnce, Listed, lineVars, sendVars
      <4>2. CASE add_next(s)
        <5>1. s \in Senders \ Listed /\ insert(s)
          BY <4>2 DEF add_next
        <5>2. stations' \in Seq(Senders) /\ SortedOnce' /\ Listed' = Listed \union {s}
          BY <5>1, InsertOrdered DEF IInv, TypeOK
        <5> QED
          BY <1>5, <2>2, <5>1, <5>2 DEF Recieve, add_menu, add_found, terminalVars,
                                        lineVars, sendVars
      <4> QED
        BY <2>2, <4>1, <4>2
    <3>2. UNCHANGED <<active, is_active>> \/ (active' = s /\ is_active' = TRUE)
      BY <2>2 DEF add_first, add_next
    <3>3. ActiveNeverDangles'
      BY <3>1, <3>2 DEF IInv, ActiveNeverDangles, ConstantsAssumption
    <3>4. TypeOK'
      <4>1. silent' = silent /\ missed' = missed
        BY <1>5, <2>2, <3>1 DEF Recieve, add_menu, add_found
      <4> QED
        <5>1. /\ active' \in Senders \union {End} /\ is_active' \in BOOLEAN
              /\ menu_changed' \in BOOLEAN /\ missed' \in BOOLEAN /\ silent' \subseteq Senders
          BY <3>1, <3>2, <4>1 DEF IInv, TypeOK
        <5>2. /\ UNCHANGED <<finish, alive, request_pc, lookups, terminalVars, dataVars>>
              /\ answering' = answering \ {s} /\ recieve_pc' \in {"loop", "done"}
          BY <1>5, <2>2 DEF Recieve
        <5> QED
          BY <3>1, <5>1, <5>2 DEF IInv, TypeOK, terminalVars, dataVars, lineVars, sendVars
    <3>5. Drawn'
      BY <2>2, <3>1 DEF IInv, Drawn
    <3>6. Served'
      BY <1>5, ServedStep DEF Recieve, IInv, terminalVars, lineVars, sendVars
    <3> QED
      BY <3>1, <3>3, <3>4, <3>5, <3>6 DEF IInv
  <2> QED
    BY <1>5, <2>1, <2>2 DEF Recieve, add_menu
<1> QED
  BY <1>1, <1>2, <1>3, <1>4, <1>5 DEF Discovery

\* The steps of main and data_loop, of the users and the senders.
LEMMA DataStep ==
  ASSUME IInv, Data \/ Environment
  PROVE  IInv'
<1>1. CASE Data
  <2>1. UNCHANGED dataOthers
    BY <1>1 DEF Data, MainStart, MainJoin, MainFinish, DataSees, DataCompare, DataEnds,
                DataNewSession
  <2>2. TypeOK'
    BY <1>1, <2>1 DEF Data, MainStart, MainJoin, MainFinish, DataSees, DataCompare, DataEnds,
                DataNewSession, dataOthers, menuVars, lookupVars, terminalVars, IInv,
                TypeOK, lineVars, sendVars
  <2>3. Quiet
    BY <2>1 DEF Quiet, dataOthers, menuVars, terminalVars, Wires, lineVars, sendVars
  <2> QED
    BY <2>2, <2>3, OtherStep
<1>2. CASE catch_interput
  <2>1. TypeOK'
    BY <1>2 DEF catch_interput, menuVars, lookupVars, terminalVars, dataVars, IInv, TypeOK,
                lineVars, sendVars
  <2>2. Quiet
    BY <1>2 DEF Quiet, catch_interput, menuVars, lookupVars, terminalVars, dataVars, Wires,
                lineVars, sendVars
  <2> QED
    BY <2>1, <2>2, OtherStep
<1>3. ASSUME NEW s \in Senders, Silent(s) PROVE IInv'
  <2>1. TypeOK'
    BY <1>3 DEF Silent, lookupVars, terminalVars, dataVars, IInv, TypeOK, lineVars, sendVars
  <2>2. Quiet
    BY <1>3 DEF Quiet, Silent, lookupVars, terminalVars, dataVars, Wires, lineVars, sendVars
  <2> QED
    BY <2>1, <2>2, OtherStep
<1>4. ASSUME NEW t \in Terminals, Close(t) \/ Clog(t) \/ Unclog(t) PROVE IInv'
  <2>1. UNCHANGED lineOthers
    BY <1>4 DEF Close, Clog, Unclog
  <2>2. PICK l \in {"on", "full", "fin", "reset"} :
          line[t] \in {"on", "full"} /\ line' = [line EXCEPT ![t] = l]
    BY <1>4 DEF Close, Clog, Unclog, Connected
  <2>3. line' \in [Terminals -> {"off", "on", "full", "fin", "reset", "epipe"}] /\ On' = On
    BY <2>2 DEF On, IInv, TypeOK
  <2>4. TypeOK'
    BY <2>1, <2>3 DEF IInv, TypeOK, lineOthers, menuVars, lookupVars, sendVars, dataVars
  <2>5. UNCHANGED <<stations, active, is_active, menu_changed, missed, terminal_pc, Wires>>
    BY <2>1 DEF lineOthers, menuVars, sendVars, Wires
  <2>6. SortedOnce' /\ ActiveNeverDangles'
    BY <2>5 DEF IInv, SortedOnce, ActiveNeverDangles, Listed
  <2>7. draw_menu' = draw_menu /\ Calling' = Calling
    BY <2>5 DEF draw_menu, Calling, Wires
  <2>8. Drawn' /\ Served'
    BY <2>3, <2>5, <2>7 DEF IInv, Drawn, Served, Follow, Wires
  <2> QED
    BY <2>4, <2>6, <2>8 DEF IInv
<1> QED
  BY <1>1, <1>2, <1>3, <1>4 DEF Environment

\* Ways of loop_terminal on which no mark moves and nothing is drawn or dropped.
LEMMA TerminalQuietStep ==
  ASSUME IInv,
         \/ Poll \/ KeysDone \/ CheckNothing \/ CheckCrashes \/ SendFails
         \/ \E t \in Terminals : KeyIgnored(t) \/ ReadFails(t)
  PROVE  IInv'
<1>1. CASE Poll
  <2>1. TypeOK'
    BY <1>1 DEF Poll, On, IInv, TypeOK, terminalOthers, lookupVars, dataVars, lineVars,
                sendVars
  <2>2. Quiet
    BY <1>1 DEF Poll, Quiet, Wires, lineVars, sendVars
  <2> QED
    BY <2>1, <2>2, OtherStep
<1>2. CASE KeysDone
  <2>1. TypeOK'
    BY <1>2 DEF KeysDone, IInv, TypeOK, terminalOthers, lookupVars, dataVars, lineVars,
                sendVars
  <2>2. Quiet
    BY <1>2 DEF KeysDone, Quiet, Wires, lineVars, sendVars
  <2> QED
    BY <2>1, <2>2, OtherStep
<1>3. CASE CheckNothing
  <2>1. TypeOK'
    BY <1>3 DEF CheckNothing, EndOfLoop, IInv, TypeOK, terminalOthers, lookupVars,
                dataVars, lineVars, sendVars
  <2>2. Quiet
    BY <1>3 DEF CheckNothing, EndOfLoop, Quiet, Wires, lineVars, sendVars
  <2> QED
    BY <2>1, <2>2, OtherStep
<1>4. ASSUME dies PROVE IInv'
  <2>1. TypeOK'
    <3>1. alive' \in BOOLEAN /\ UNCHANGED <<finish, menuVars, menu_changed, lookupVars,
                                            terminalVars, dataVars, missed>>
      BY <1>4 DEF dies
    <3> QED
      BY <3>1 DEF menuVars, lookupVars, terminalVars, dataVars, IInv, TypeOK, lineVars,
                  sendVars
  <2>2. Quiet
    BY <1>4 DEF Quiet, dies, menuVars, terminalVars, Wires, lineVars, sendVars
  <2> QED
    BY <2>1, <2>2, OtherStep
<1>5. ASSUME NEW t \in Terminals, KeyIgnored(t) PROVE IInv'
  <2>1. TypeOK'
    BY <1>5 DEF KeyIgnored, IInv, TypeOK, terminalOthers, lookupVars, dataVars, lineVars,
                sendVars
  <2>2. Quiet
    BY <1>5 DEF KeyIgnored, Quiet, Wires, lineVars, sendVars
  <2> QED
    BY <2>1, <2>2, OtherStep
<1> QED
  BY <1>1, <1>2, <1>3, <1>4, <1>5 DEF CheckCrashes, SendFails, ReadFails

\* What one send() leaves: the connections it had, and one terminal less to serve.
LEMMA SentFacts ==
  ASSUME TypeOK, unsent # <<>>, Sent(Head(unsent))
  PROVE  /\ line' \in [Terminals -> {"off", "on", "full", "fin", "reset", "epipe"}]
         /\ On' = On /\ sockets' = sockets
         /\ Head(unsent) \in Terminals /\ unsent' \in Seq(Terminals)
         /\ \A i \in DOMAIN unsent : \/ unsent[i] = Head(unsent)
                                     \/ \E k \in DOMAIN unsent' : unsent'[k] = unsent[i]
<1> DEFINE t == Head(unsent)
<1>1. /\ unsent \in Seq(Terminals)
      /\ line \in [Terminals -> {"off", "on", "full", "fin", "reset", "epipe"}]
  BY DEF TypeOK
<1>2. t \in Terminals /\ t = unsent[1]
  BY <1>1
<1>3. unsent' = Tail(unsent) /\ sockets' = sockets
  BY DEF Sent
<1>4. PICK l : /\ l \in {"off", "on", "fin", "epipe"} /\ (l = "off" <=> line[t] = "off")
               /\ line' = [line EXCEPT ![t] = l]
  <2>1. PICK l \in CASE line[t] = "fin"   -> {"fin", "epipe"}
                     [] line[t] = "reset" -> {"epipe"}
                     [] OTHER             -> {line[t]} :
          line' = [line EXCEPT ![t] = l]
    BY DEF Sent
  <2>2. line[t] \in {"off", "on", "fin", "reset"}
    BY <1>1, <1>2 DEF Sent
  <2>3. CASE line[t] = "fin"
    BY <2>1, <2>3
  <2>4. CASE line[t] = "reset"
    BY <2>1, <2>4
  <2>5. CASE line[t] \in {"off", "on"}
    BY <2>1, <2>5
  <2> QED
    BY <2>2, <2>3, <2>4, <2>5
<1>5. On' = On
  BY <1>1, <1>2, <1>4 DEF On
<1>6. unsent' \in Seq(Terminals) /\ Len(unsent') = Len(unsent) - 1
      /\ \A k \in 1..Len(unsent) - 1 : unsent'[k] = unsent[k + 1]
  BY <1>1, <1>3
<1>7. ASSUME NEW i \in DOMAIN unsent, unsent[i] # t
      PROVE  \E k \in DOMAIN unsent' : unsent'[k] = unsent[i]
  <2>1. i \in 1..Len(unsent) /\ i # 1 /\ Len(unsent) \in Nat
    BY <1>1, <1>2, <1>7
  <2>2. i - 1 \in 1..Len(unsent) - 1 /\ (i - 1) + 1 = i
    BY <2>1
  <2>3. unsent'[i - 1] = unsent[i] /\ i - 1 \in DOMAIN unsent'
    BY <1>6, <2>1, <2>2
  <2> QED
    BY <2>3
<1> QED
  BY <1>1, <1>2, <1>3, <1>4, <1>5, <1>6, <1>7

\* A walk over a list that does not change finds it and its mark; any walk finds
\* some list of stations.
LEMMA WalkFacts ==
  ASSUME TypeOK, ActiveNeverDangles, ConstantsAssumption, NEW w \in Walked
  PROVE  /\ w \in Screen
         /\ w.list \in {out_buffer.list, stations}
         /\ w.marks \subseteq {w.list[i] : i \in DOMAIN w.list}
         /\ w.marks \subseteq out_buffer.marks \union ({active} \ {End})
         /\ out_buffer.marks = {active} \ {End}
              => w.marks = {w.list[i] : i \in DOMAIN w.list} \intersect {active}
<1>1. /\ out_buffer.list \in Seq(Senders) /\ out_buffer.marks \in SUBSET Senders
      /\ stations \in Seq(Senders) /\ End \notin Senders
  BY DEF TypeOK, Screen, ConstantsAssumption
<1>2. w \in [list : {out_buffer.list, stations}, marks : SUBSET Senders]
  BY DEF Walked
<1>3. w.list \in {out_buffer.list, stations} /\ w.list \in Seq(Senders)
      /\ w.marks \in SUBSET Senders
  BY <1>1, <1>2
<1>4. w \in Screen
  BY <1>2, <1>3 DEF Screen
<1>5. PICK k \in 0..Len(w.list) :
        w.marks = {w.list[i] : i \in {j \in DOMAIN w.list :
                    w.list[j] \in IF j <= k THEN out_buffer.marks ELSE {active}}}
  BY DEF Walked
<1>6. \A i \in DOMAIN w.list : w.list[i] \in Senders
  BY <1>3
<1>7. w.marks \subseteq {w.list[i] : i \in DOMAIN w.list}
  BY <1>5
<1>8. w.marks \subseteq out_buffer.marks \union ({active} \ {End})
  BY <1>1, <1>5, <1>6
<1>9. ASSUME out_buffer.marks = {active} \ {End}
      PROVE  w.marks = {w.list[i] : i \in DOMAIN w.list} \intersect {active}
  <2>1. \A j \in DOMAIN w.list :
          (w.list[j] \in IF j <= k THEN out_buffer.marks ELSE {active}) <=> w.list[j] = active
    BY <1>1, <1>6, <1>9
  <2>2. w.marks = {w.list[i] : i \in {j \in DOMAIN w.list : w.list[j] = active}}
    BY <1>5, <2>1
  <2> QED
    BY <2>2
<1> QED
  BY <1>3, <1>4, <1>7, <1>8, <1>9

\* The drawn menu is a screen, and a walk over it undisturbed draws it.
LEMMA DrawFacts ==
  ASSUME TypeOK, ActiveNeverDangles, ConstantsAssumption
  PROVE  /\ draw_menu \in Screen /\ Blank \in Screen
         /\ out_buffer = draw_menu => \A w \in Walked : w = draw_menu
<1>1. stations \in Seq(Senders) /\ active \in Senders \union {End} /\ End \notin Senders
  BY DEF TypeOK, ConstantsAssumption
<1>2. draw_menu \in Screen /\ Blank \in Screen
  <2>1. {active} \ {End} \in SUBSET Senders
    BY <1>1
  <2>2. <<>> \in Seq(Senders) /\ {} \in SUBSET Senders
    OBVIOUS
  <2> QED
    BY <1>1, <2>1, <2>2 DEF draw_menu, Blank, Screen
<1>3. ASSUME out_buffer = draw_menu, NEW w \in Walked PROVE w = draw_menu
  <2>1. out_buffer.list = stations /\ out_buffer.marks = {active} \ {End}
    BY <1>3 DEF draw_menu
  <2>2. w \in Screen /\ w.list = stations
        /\ w.marks = {stations[i] : i \in DOMAIN stations} \intersect {active}
    BY <2>1, WalkFacts
  <2>3. {stations[i] : i \in DOMAIN stations} = Listed
    BY DEF Listed
  <2>4. w.marks = {active} \ {End}
    <3>1. End \notin Listed
      BY <1>1 DEF Listed
    <3>2. active \in Listed \/ active = End
      BY DEF ActiveNeverDangles
    <3> QED
      BY <2>2, <2>3, <3>1, <3>2
  <2>5. w = [list |-> w.list, marks |-> w.marks]
    BY <2>2 DEF Screen
  <2> QED
    BY <2>2, <2>4, <2>5 DEF draw_menu
<1> QED
  BY <1>2, <1>3

\* A terminal comes or goes.
LEMMA ConnectionStep ==
  ASSUME ConstantsAssumption, IInv, Accept \/ Greet \/ \E t \in Terminals : Hangup(t)
  PROVE  IInv'
<1>1. UNCHANGED <<terminalOthers, stations, active, is_active, menu_changed, missed>>
  BY DEF Accept, Greet, Hangup
<1>2. SortedOnce' /\ ActiveNeverDangles'
  BY <1>1 DEF IInv, SortedOnce, ActiveNeverDangles, Listed
<1>3. draw_menu \in Screen /\ Blank \in Screen /\ draw_menu' = draw_menu
  BY <1>1, DrawFacts DEF draw_menu, IInv
<1>4. CASE Accept /\ UNCHANGED <<sockets, line, sendVars>> /\ terminal_pc' = "keys"
  <2>1. /\ calls' \in Nat /\ terminal_pc = "accept"
        /\ UNCHANGED <<revents, keys, sockets, line, out_buffer, unsent, screen>>
    BY <1>4 DEF Accept, IInv, TypeOK, sendVars
  <2>2. TypeOK'
    BY <1>1, <1>4, <2>1 DEF IInv, TypeOK, terminalOthers, lookupVars, dataVars
  <2>3. Drawn' /\ Served'
    BY <1>1, <1>3, <1>4, <2>1 DEF IInv, Drawn, Served, Follow, Calling, On
  <2> QED
    BY <1>2, <2>2, <2>3 DEF IInv
<1>5. ASSUME NEW t \in Terminals \ On, Accept,
             sockets' = Append(sockets, t), line' = [line EXCEPT ![t] = "on"],
             out_buffer' = draw_menu, unsent' = <<t>>, terminal_pc' = "greet"
      PROVE  IInv'
  <2>1. calls' \in Nat /\ UNCHANGED <<revents, keys, screen>> /\ terminal_pc = "accept"
    BY <1>5 DEF Accept, IInv, TypeOK
  <2>2. /\ sockets \in Seq(Terminals) /\ unsent' \in Seq(Terminals)
        /\ sockets' \in Seq(Terminals) /\ Head(unsent') = t
        /\ \A i \in DOMAIN sockets : i \in DOMAIN sockets' /\ sockets'[i] = sockets[i]
        /\ Len(sockets) + 1 \in DOMAIN sockets' /\ sockets'[Len(sockets) + 1] = t
    BY <1>5 DEF IInv, TypeOK
  <2>3. /\ line' \in [Terminals -> {"off", "on", "full", "fin", "reset", "epipe"}]
        /\ On' = On \union {t}
    BY <1>5 DEF IInv, TypeOK, On
  <2>4. TypeOK'
    BY <1>1, <1>3, <1>5, <2>1, <2>2, <2>3
       DEF IInv, TypeOK, terminalOthers, lookupVars, dataVars
  <2>5. Served'
    BY <1>5, <2>2, <2>3 DEF IInv, Served
  <2>6. Calling = {} /\ Calling' = {t}
    BY <1>5, <2>1, <2>2 DEF Calling
  <2>7. Drawn'
    BY <1>1, <1>3, <1>5, <2>1, <2>3, <2>6 DEF IInv, Drawn, Follow
  <2> QED
    BY <1>2, <2>4, <2>5, <2>7 DEF IInv
<1>6. CASE Greet
  <2>1. /\ terminal_pc = "greet" /\ terminal_pc' = "keys" /\ out_buffer' = Blank
        /\ Sent(Head(unsent)) /\ UNCHANGED <<revents, keys, calls>>
    BY <1>6 DEF Greet
  <2>2. PICK t \in On : unsent = <<t>>
    BY <2>1 DEF IInv, Served
  <2>3. Head(unsent) = t /\ unsent # <<>> /\ t \in Terminals
    BY <2>2 DEF On
  <2>4. PICK w \in Walked : screen' = [screen EXCEPT ![t] = w]
    BY <1>6, <2>3 DEF Greet
  <2>5. /\ line' \in [Terminals -> {"off", "on", "full", "fin", "reset", "epipe"}]
        /\ On' = On /\ sockets' = sockets /\ unsent' \in Seq(Terminals)
    BY <2>1, <2>3, SentFacts DEF IInv
  <2>6. w \in Screen /\ (out_buffer = draw_menu => w = draw_menu)
    BY WalkFacts, DrawFacts DEF IInv
  <2>7. /\ screen' \in [Terminals -> Screen] /\ screen'[t] = w
        /\ \A u \in On \ {t} : screen'[u] = screen[u]
    BY <2>3, <2>4, <2>6 DEF IInv, TypeOK, On
  <2>8. TypeOK'
    BY <1>1, <1>3, <2>1, <2>5, <2>7 DEF IInv, TypeOK, terminalOthers, lookupVars, dataVars
  <2>9. Served'
    BY <2>1, <2>5 DEF IInv, Served
  <2>10. Calling = {t} /\ Calling' = {}
    BY <2>1, <2>3 DEF Calling
  <2>11. ~menu_changed /\ ~missed => Follow'
    <3>1. ASSUME ~menu_changed, ~missed PROVE Follow'
      <4>1. Follow /\ w = draw_menu
        BY <2>1, <2>6, <3>1 DEF IInv, Drawn
      <4> QED
        BY <1>3, <2>5, <2>7, <2>10, <4>1 DEF Follow
    <3> QED
      BY <3>1
  <2>12. Drawn'
    BY <1>1, <2>1, <2>11 DEF Drawn
  <2> QED
    BY <1>2, <2>8, <2>9, <2>12 DEF IInv
<1>7. ASSUME NEW t \in Terminals, Hangup(t) PROVE IInv'
  <2>1. /\ line' = [line EXCEPT ![t] = "off"] /\ screen' = [screen EXCEPT ![t] = Blank]
        /\ revents' = {} /\ UNCHANGED <<keys, calls, out_buffer, unsent>>
        /\ terminal_pc = "keys" /\ terminal_pc' = "check"
    BY <1>7 DEF Hangup, sendVars
  <2>2. PICK i \in DOMAIN sockets : sockets[i] = t /\ sockets' = RemoveAt(sockets, i)
    BY <1>7 DEF Hangup
  <2>3. /\ sockets' \in Seq(Terminals)
        /\ \A k \in DOMAIN sockets :
             sockets[k] # t => \E m \in DOMAIN sockets' : sockets'[m] = sockets[k]
    BY <2>2, RemoveFacts DEF IInv, TypeOK
  <2>4. On' = On \ {t}
    BY <2>1 DEF IInv, TypeOK, On
  <2>5. TypeOK'
    BY <1>1, <1>3, <2>1, <2>3 DEF IInv, TypeOK, terminalOthers, lookupVars, dataVars
  <2>6. Served'
    BY <2>1, <2>3, <2>4 DEF IInv, Served
  <2>7. Calling = {} /\ Calling' = {}
    BY <2>1 DEF Calling
  <2>8. Follow => Follow'
    BY <1>3, <2>1, <2>4, <2>7 DEF IInv, TypeOK, Follow, On
  <2>9. Drawn'
    BY <1>1, <2>1, <2>8 DEF IInv, Drawn
  <2> QED
    BY <1>2, <2>5, <2>6, <2>9 DEF IInv
<1> QED
  BY <1>4, <1>5, <1>6, <1>7 DEF Accept

\* Every connected terminal is redrawn, and menu_changed reset afterwards.
LEMMA DrawStep ==
  ASSUME ConstantsAssumption, IInv, Refresh \/ Draw \/ SendNext \/ SendDone \/ Clear
  PROVE  IInv'
<1>1. UNCHANGED <<terminalOthers, stations, active, is_active, keys, calls>>
  BY DEF Refresh, Draw, DrawForAll, SendNext, SendDone, Clear
<1>2. SortedOnce' /\ ActiveNeverDangles'
  BY <1>1 DEF IInv, SortedOnce, ActiveNeverDangles, Listed
<1>3. draw_menu \in Screen /\ Blank \in Screen /\ draw_menu' = draw_menu
  BY <1>1, DrawFacts DEF draw_menu, IInv
<1>4. CASE Refresh \/ Draw
  <2>1. /\ out_buffer' = draw_menu /\ unsent' = sockets /\ missed' = FALSE
        /\ menu_changed' = menu_changed /\ revents' = {}
        /\ terminal_pc \in {"refresh", "draw"} /\ terminal_pc' \in {"reply", "announce"}
        /\ UNCHANGED <<sockets, line, screen>>
    BY <1>4 DEF Refresh, Draw, DrawForAll, lineVars
  <2>2. TypeOK'
    <3>1. /\ out_buffer' \in Screen /\ unsent' \in Seq(Terminals) /\ missed' \in BOOLEAN
          /\ revents' \subseteq Terminals
          /\ terminal_pc' \in {"poll", "accept", "greet", "keys", "refresh", "reply",
                               "draw", "announce", "clear", "check", "done"}
      BY <1>3, <2>1 DEF IInv, TypeOK
    <3> QED
      BY <1>1, <2>1, <3>1 DEF IInv, TypeOK, terminalOthers, lookupVars, dataVars
  <2>3. On' = On
    BY <2>1 DEF On
  <2>4. Drawn' /\ Served'
    BY <1>3, <2>1, <2>3 DEF IInv, Drawn, Served
  <2> QED
    BY <1>2, <2>2, <2>4 DEF IInv
<1>5. CASE SendNext
  <2> DEFINE t == Head(unsent)
  <2>1. /\ terminal_pc \in {"reply", "announce"} /\ unsent # <<>> /\ Sent(t)
        /\ screen' = [screen EXCEPT ![t] = out_buffer]
        /\ UNCHANGED <<terminal_pc, revents, out_buffer, missed, menu_changed>>
    BY <1>5 DEF SendNext
  <2>2. /\ line' \in [Terminals -> {"off", "on", "full", "fin", "reset", "epipe"}]
        /\ On' = On /\ sockets' = sockets /\ t \in Terminals /\ unsent' \in Seq(Terminals)
        /\ \A i \in DOMAIN unsent : \/ unsent[i] = t
                                    \/ \E k \in DOMAIN unsent' : unsent'[k] = unsent[i]
    BY <2>1, SentFacts DEF IInv
  <2> HIDE DEF t
  <2>3. /\ screen' \in [Terminals -> Screen] /\ screen'[t] = out_buffer
        /\ \A u \in Terminals \ {t} : screen'[u] = screen[u]
    BY <2>1, <2>2 DEF IInv, TypeOK
  <2>4. TypeOK'
    BY <1>1, <1>3, <2>1, <2>2, <2>3 DEF IInv, TypeOK, terminalOthers, lookupVars, dataVars
  <2>5. menu_changed /\ out_buffer = draw_menu
    BY <2>1 DEF IInv, Drawn
  <2>6. \A u \in On : screen'[u] = draw_menu \/ \E k \in DOMAIN unsent' : unsent'[k] = u
    <3> SUFFICES ASSUME NEW u \in On, u # t
                 PROVE  screen'[u] = draw_menu \/ \E k \in DOMAIN unsent' : unsent'[k] = u
      BY <2>3, <2>5
    <3>1. u \in Terminals /\ screen'[u] = screen[u]
      BY <2>3 DEF On
    <3>2. screen[u] = draw_menu \/ \E i \in DOMAIN unsent : unsent[i] = u
      BY <2>1 DEF IInv, Drawn
    <3> QED
      BY <2>2, <3>1, <3>2
  <2>7. Drawn'
    BY <1>3, <2>1, <2>2, <2>5, <2>6 DEF Drawn
  <2>8. Served'
    BY <2>1, <2>2 DEF IInv, Served
  <2> QED
    BY <1>2, <2>4, <2>7, <2>8 DEF IInv
<1>6. CASE SendDone
  <2>1. /\ terminal_pc \in {"reply", "announce"} /\ unsent = <<>> /\ out_buffer' = Blank
        /\ terminal_pc' \in {"check", "clear"}
        /\ UNCHANGED <<revents, sockets, line, screen, unsent, missed, menu_changed>>
    BY <1>6 DEF SendDone, lineVars
  <2>2. TypeOK'
    BY <1>1, <1>3, <2>1 DEF IInv, TypeOK, terminalOthers, lookupVars, dataVars
  <2>3. On' = On /\ menu_changed /\ \A t \in On : screen[t] = draw_menu
    <3>1. DOMAIN unsent = {}
      BY <2>1
    <3> QED
      BY <2>1, <3>1 DEF IInv, Drawn, On
  <2>4. Drawn' /\ Served'
    BY <1>3, <2>1, <2>3 DEF IInv, Drawn, Served, Follow, Calling
  <2> QED
    BY <1>2, <2>2, <2>4 DEF IInv
<1>7. CASE Clear
  <2>1. /\ Follow /\ UNCHANGED <<revents, sockets, line, screen, out_buffer, unsent, missed>>
        /\ menu_changed' = FALSE /\ terminal_pc = "clear" /\ terminal_pc' = "check"
    BY <1>7 DEF Clear, IInv, Drawn, lineVars, sendVars
  <2>2. TypeOK'
    <3>1. /\ menu_changed' \in BOOLEAN
          /\ UNCHANGED <<revents, sockets, line, screen, out_buffer, unsent, missed>>
      BY <2>1
    <3> QED
      BY <1>1, <2>1, <3>1 DEF IInv, TypeOK, terminalOthers, lookupVars, dataVars
  <2>3. On' = On /\ Calling' = Calling
    BY <2>1 DEF On, Calling
  <2>4. Drawn' /\ Served'
    BY <1>3, <2>1, <2>3 DEF IInv, Drawn, Served, Follow
  <2> QED
    BY <1>2, <2>2, <2>4 DEF IInv
<1> QED
  BY <1>4, <1>5, <1>6, <1>7

\* The mark moves, to a neighbour or to the beginning of what check_time leaves.
LEMMA MarkStep ==
  ASSUME ConstantsAssumption, IInv, CheckErases \/ \E t \in Terminals : transform(t)
  PROVE  IInv'
<1>1. CASE CheckErases
  <2>1. /\ keep_heard /\ silent' = {} /\ active' = begin(stations')
        /\ is_active' = (is_active /\ stations' # <<>>)
        /\ menu_changed' = ChangedCurrent /\ missed' = (missed \/ ~ChangedCurrent)
        /\ terminal_pc' \in {"poll", "done"}
        /\ terminal_pc = "check"
        /\ UNCHANGED <<finish, alive, lookupVars, revents, keys, calls, sockets, line,
                       screen, out_buffer, unsent, dataVars>>
    BY <1>1 DEF CheckErases, erase_silent, EndOfLoop, lineVars, sendVars
  <2>2. stations' \in Seq(Senders) /\ SortedOnce'
    BY <2>1, KeepOrdered DEF IInv, TypeOK
  <2>3. stations' # <<>> => active' \in Listed' /\ active' \in Senders
    <3>1. stations' # <<>> => 1 \in DOMAIN stations' /\ active' = stations'[1]
      BY <2>1, <2>2 DEF begin
    <3> QED
      BY <2>2, <3>1 DEF Listed
  <2>4. stations' = <<>> => active' = End
    BY <2>1 DEF begin
  <2>5. ActiveNeverDangles'
    <3>1. is_active' => stations' # <<>>
      BY <2>1
    <3> QED
      BY <2>3, <2>4, <3>1 DEF ActiveNeverDangles, ConstantsAssumption
  <2>6. Drawn'
    <3>1. menu_changed' \/ missed'
      BY <2>1
    <3> QED
      BY <2>1, <3>1 DEF Drawn
  <2>7. TypeOK'
    <3>1. is_active' \in BOOLEAN /\ missed' \in BOOLEAN
      BY <2>1, Zenon
    <3>2. menu_changed' \in BOOLEAN
      BY <2>1, Zenon DEF ChangedCurrent
    <3>3. active' \in Senders \union {End}
      BY <2>3, <2>4
    <3> QED
      BY <2>1, <2>2, <3>1, <3>2, <3>3 DEF IInv, TypeOK, lookupVars, dataVars
  <2>8. Served'
    BY <2>1, ServedStep DEF IInv
  <2> QED
    BY <2>2, <2>5, <2>6, <2>7, <2>8 DEF IInv
<1>2. ASSUME NEW t \in Terminals, transform(t) PROVE IInv'
  <2>1. /\ Len(stations) >= 2 /\ active' \in {Above(active), Below(active)}
        /\ menu_changed' = TRUE /\ terminal_pc' = "refresh" /\ keys' = keys + 1
        /\ UNCHANGED <<terminalOthers, stations, is_active, revents, calls, sockets, line,
                       screen, out_buffer, unsent, missed>>
    BY <1>2 DEF transform, lineVars, sendVars
  <2>2. active' \in Listed /\ Listed' = Listed
    BY <2>1, Neighbours DEF IInv, TypeOK, ActiveNeverDangles, Listed
  <2>3. active' \in Senders
    BY <2>2 DEF IInv, TypeOK, Listed
  <2>4. SortedOnce' /\ ActiveNeverDangles'
    BY <2>1, <2>2, <2>3 DEF IInv, SortedOnce, ActiveNeverDangles, ConstantsAssumption
  <2>5. TypeOK'
    BY <2>1, <2>3 DEF IInv, TypeOK, terminalOthers, lookupVars, dataVars, lineVars, sendVars
  <2>6. Drawn'
    BY <2>1 DEF Drawn
  <2>7. Served'
    BY <2>1, ServedStep DEF IInv
  <2> QED
    BY <2>4, <2>5, <2>6, <2>7 DEF IInv
<1> QED
  BY <1>1, <1>2

-----------------------------------------------------------------------------
(* Theorems *)

\* What all the threads and users keep, for any senders, names and terminals.
THEOREM StationsInvariance == Spec => []IInv
<1>1. Init => IInv
  <2> SUFFICES ASSUME Init PROVE IInv
    OBVIOUS
  <2>1. Blank \in Screen
    <3>1. <<>> \in Seq(Senders) /\ {} \in SUBSET Senders
      OBVIOUS
    <3> QED
      BY <3>1 DEF Blank, Screen
  <2>2. TypeOK
    <3>1. finish \in BOOLEAN /\ alive \in BOOLEAN /\ is_active \in BOOLEAN
          /\ menu_changed \in BOOLEAN /\ missed \in BOOLEAN
      BY DEF Init
    <3>2. /\ stations \in Seq(Senders) /\ active \in Senders \union {End}
          /\ silent \subseteq Senders /\ lookups \in Nat /\ answering \subseteq Senders
          /\ revents \subseteq Terminals /\ keys \in Nat /\ calls \in Nat
          /\ listening \in Senders \union {End}
      BY DEF Init
    <3>3. /\ screen \in [Terminals -> Screen] /\ out_buffer \in Screen
          /\ line \in [Terminals -> {"off", "on", "full", "fin", "reset", "epipe"}]
          /\ sockets \in Seq(Terminals) /\ unsent \in Seq(Terminals)
      BY <2>1 DEF Init
    <3> QED
      BY <3>1, <3>2, <3>3 DEF Init, TypeOK
  <2>3. SortedOnce /\ ActiveNeverDangles /\ Drawn
    BY DEF Init, SortedOnce, ActiveNeverDangles, Drawn, Follow, On, Calling
  <2>4. Served
    BY DEF Init, Served, On
  <2> QED
    BY <2>2, <2>3, <2>4 DEF IInv
<1>2. IInv /\ [Next]_vars => IInv'
  <2> SUFFICES ASSUME IInv, [Next]_vars PROVE IInv'
    OBVIOUS
  <2>1. CASE Discovery
    BY <2>1, DiscoveryStep, ConstantsAssumption
  <2>2. CASE Terminal
    BY <2>2, TerminalQuietStep, ConnectionStep, DrawStep, MarkStep, ConstantsAssumption
       DEF Terminal
  <2>3. CASE Data \/ Environment
    BY <2>3, DataStep
  <2>4. CASE UNCHANGED vars
    <3>1. TypeOK'
      BY <2>4 DEF vars, menuVars, lookupVars, terminalVars, dataVars, IInv, TypeOK,
                  lineVars, sendVars
    <3>2. Quiet
      BY <2>4 DEF Quiet, vars, menuVars, terminalVars, Wires, lineVars, sendVars
    <3> QED
      BY <3>1, <3>2, OtherStep
  <2> QED
    BY <2>1, <2>2, <2>3, <2>4 DEF Next, Terminated
<1> QED
  BY <1>1, <1>2, PTL DEF Spec

\* Every variable of the menu and its threads keeps its type.
THEOREM StationsTypeOK == Spec => []TypeOK
  BY StationsInvariance, PTL DEF IInv

\* The list of stations stays ordered by name, each station in it once.
THEOREM StationsSortedOnce == Spec => []SortedOnce
  BY StationsInvariance, PTL DEF IInv

\* The iterator active is on a listed station or at the end, and not at the end
\* when is_active is set, through all that check_time erases.
THEOREM StationsActiveNeverDangles == Spec => []ActiveNeverDangles
  BY StationsInvariance, PTL DEF IInv

\* Terminals show the menu as it is whenever loop_terminal waits with nothing
\* pending and nothing dropped unannounced.
THEOREM StationsScreensFollow == Spec => []ScreensFollow
<1>1. IInv => ScreensFollow
  BY DEF IInv, Drawn, Follow, ScreensFollow, Served, Calling
<1> QED
  BY <1>1, StationsInvariance, PTL

-----------------------------------------------------------------------------
(* The promise to the listener *)

\* check_time has nothing to erase but listed stations, and main plays nothing
\* while it looks for a station.
OutsideInv ==
  /\ silent \subseteq Listed
  /\ main_pc = "loop" => listening = End

\* Nothing that the listener hears or sees.
Unnoticed ==
  /\ UNCHANGED <<stations, active, listening, screen>> /\ On' = On
  /\ Answered' = Answered /\ Calling' = Calling
  /\ Calling = {} \/ out_buffer' = out_buffer

LEMMA UnnoticedStutters ==
  ASSUME Unnoticed
  PROVE  UNCHANGED StationMenu!vars
<1>1. Listed' = Listed
  BY DEF Unnoticed, Listed
<1>2. Watching' = Watching
  BY DEF Unnoticed, Watching, AsSeen
<1>3. Greeting' = Greeting
  <2>1. CASE Calling = {}
    BY <2>1 DEF Unnoticed, Greeting
  <2>2. CASE out_buffer' = out_buffer
    BY <2>2 DEF Unnoticed, Greeting, AsSeen
  <2> QED
    BY <2>1, <2>2 DEF Unnoticed
<1> QED
  BY <1>1, <1>2, <1>3 DEF Unnoticed, StationMenu!vars

\* What the listener sees does not depend on anything but screens and terminals.
LEMMA SameView ==
  ASSUME UNCHANGED <<screen, line, out_buffer>>, Calling' = Calling
  PROVE  Watching' = Watching /\ Greeting' = Greeting
BY DEF Watching, Greeting, AsSeen, On

\* The drawn menu is what StationMenu calls the menu.
LEMMA DrawnIsMenu == AsSeen(draw_menu) = StationMenu!Menu
BY DEF AsSeen, draw_menu, StationMenu!Menu, Listed

\* The list is empty when no station is known.
LEMMA EmptyList ==
  ASSUME stations \in Seq(Senders)
  PROVE  Listed = {} <=> stations = <<>>
<1>1. DOMAIN stations = 1..Len(stations) /\ Len(stations) \in Nat
  BY LenProperties
<1>2. CASE stations = <<>>
  BY <1>2 DEF Listed
<1>3. CASE stations # <<>>
  <2>1. 1 \in DOMAIN stations
    BY <1>1, <1>3, EmptySeq
  <2> QED
    BY <1>3, <2>1 DEF Listed
<1> QED
  BY <1>2, <1>3

\* The ends of an ordered list, and what is next to each other in it.
LEMMA Ends ==
  ASSUME ConstantsAssumption, stations \in Seq(Senders), SortedOnce, stations # <<>>
  PROVE  /\ StationMenu!IsFirst(stations[1], Listed)
         /\ StationMenu!IsLast(Last(stations), Listed)
<1>1. /\ Len(stations) \in Nat /\ DOMAIN stations = 1..Len(stations)
      /\ 1 \in DOMAIN stations /\ Len(stations) \in DOMAIN stations
      /\ \A i \in DOMAIN stations : stations[i] \in Senders /\ Name[stations[i]] \in Nat
  BY EmptySeq, LenProperties DEF ConstantsAssumption
<1>2. ASSUME NEW k \in Listed
      PROVE  Name[stations[1]] <= Name[k] /\ Name[k] <= Name[stations[Len(stations)]]
  <2>1. PICK i \in DOMAIN stations : stations[i] = k
    BY <1>2 DEF Listed
  <2>2. (i = 1 \/ 1 < i) /\ (i = Len(stations) \/ i < Len(stations))
    BY <1>1
  <2>3. i = 1 \/ Name[stations[1]] <= Name[k]
    BY <1>1, <2>1, <2>2 DEF SortedOnce
  <2>4. i = Len(stations) \/ Name[k] <= Name[stations[Len(stations)]]
    BY <1>1, <2>1, <2>2 DEF SortedOnce
  <2> QED
    BY <1>1, <2>1, <2>3, <2>4
<1>3. stations[1] \in Listed /\ stations[Len(stations)] \in Listed
  BY <1>1 DEF Listed
<1> QED
  BY <1>2, <1>3 DEF StationMenu!IsFirst, StationMenu!IsLast, Last

LEMMA NextTo ==
  ASSUME ConstantsAssumption, stations \in Seq(Senders), SortedOnce,
         NEW i \in DOMAIN stations, i + 1 \in DOMAIN stations
  PROVE  /\ StationMenu!Beside(stations[i], stations[i + 1])
         /\ StationMenu!Beside(stations[i + 1], stations[i])
<1>1. /\ DOMAIN stations \subseteq Nat
      /\ \A j \in DOMAIN stations : stations[j] \in Senders /\ Name[stations[j]] \in Nat
  BY LenProperties DEF ConstantsAssumption
<1>2. ASSUME NEW k \in Listed
      PROVE  /\ ~(Name[stations[i]] < Name[k] /\ Name[k] < Name[stations[i + 1]])
             /\ ~(Name[stations[i + 1]] < Name[k] /\ Name[k] < Name[stations[i]])
  <2>1. PICK j \in DOMAIN stations : stations[j] = k
    BY <1>2 DEF Listed
  <2>2. j < i \/ j = i \/ j = i + 1 \/ i + 1 < j
    BY <1>1
  <2>3. j < i => Name[k] <= Name[stations[i]]
    BY <2>1 DEF SortedOnce
  <2>4. i + 1 < j => Name[stations[i + 1]] <= Name[k]
    BY <2>1 DEF SortedOnce
  <2>5. Name[stations[i]] <= Name[stations[i + 1]]
    BY <1>1 DEF SortedOnce
  <2> QED
    BY <1>1, <2>1, <2>2, <2>3, <2>4, <2>5
<1> QED
  BY <1>2 DEF StationMenu!Beside

\* add_menu with a station that is not listed.
LEMMA ArriveImplements ==
  ASSUME ConstantsAssumption, IInv, NEW s \in Senders, s \notin Listed,
         add_first(s) \/ add_next(s),
         UNCHANGED <<listening, terminal_pc, line, screen, out_buffer, unsent>>
  PROVE  StationMenu!Arrive(s)
<1>1. stations \in Seq(Senders) /\ SortedOnce
  BY DEF IInv, TypeOK
<1>2. Listed' = Listed \union {s} /\ (Listed = {} <=> stations = <<>>)
  <2>1. CASE add_first(s)
    <3>1. stations' = <<s>> /\ stations = <<>>
      BY <2>1 DEF add_first
    <3>2. DOMAIN stations' = {1} /\ stations'[1] = s
      BY <3>1
    <3> QED
      BY <1>1, <3>1, <3>2, EmptyList DEF Listed
  <2>2. CASE add_next(s)
    BY <1>1, <2>2, EmptyList, InsertOrdered DEF add_next
  <2> QED
    BY <2>1, <2>2
<1>3. Watching' = Watching /\ Greeting' = Greeting /\ Answered' = Answered
  <2>1. Calling' = Calling
    BY DEF Calling
  <2> QED
    BY <2>1, SameView DEF Answered
<1>4. active' \in IF Preferred = 0 THEN {IF Listed = {} THEN s ELSE active}
                  ELSE IF Name[s] = Preferred THEN {s, active} ELSE {active}
  BY <1>2 DEF add_first, add_next
<1> QED
  BY <1>2, <1>3, <1>4 DEF StationMenu!Arrive

\* An arrow key.
LEMMA MoveImplements ==
  ASSUME ConstantsAssumption, IInv, NEW t \in Terminals, transform(t)
  PROVE  StationMenu!Move
<1> DEFINE n == Len(stations)
<1>1. /\ terminal_pc = "keys" /\ terminal_pc' = "refresh"
      /\ n >= 2 /\ active' \in {Above(active), Below(active)}
      /\ UNCHANGED <<stations, listening, line, screen, out_buffer>>
  BY DEF transform, terminalOthers, dataVars, lineVars, sendVars
<1>2. /\ stations \in Seq(Senders) /\ SortedOnce /\ active \in Listed \union {End}
      /\ End \notin Senders
  BY DEF IInv, TypeOK, ActiveNeverDangles, ConstantsAssumption
<1>3. /\ n \in Nat /\ DOMAIN stations = 1..n /\ Last(stations) = stations[n]
      /\ stations # <<>> /\ \A i \in 1..n : stations[i] \in Listed
      /\ Listed \subseteq Senders
  BY <1>1, <1>2, LenProperties, EmptySeq DEF Last, Listed
<1>4. /\ StationMenu!IsFirst(stations[1], Listed)
      /\ StationMenu!IsLast(stations[n], Listed)
  BY <1>2, <1>3, Ends
<1>5. stations[1] # stations[n]
  <2>1. 1 \in DOMAIN stations /\ n \in DOMAIN stations /\ 1 < n
    BY <1>1, <1>3
  <2> QED
    BY <2>1, <1>2 DEF SortedOnce
<1> DEFINE Goes(a, b) ==
             \/ a = End /\ (StationMenu!IsFirst(b, Listed) \/ StationMenu!IsLast(b, Listed))
             \/ a \in Listed /\ StationMenu!Beside(a, b)
             \/ StationMenu!IsFirst(a, Listed) /\ StationMenu!IsLast(b, Listed)
             \/ StationMenu!IsLast(a, Listed) /\ StationMenu!IsFirst(b, Listed)
<1>6. active' \in Listed \ {active} /\ Goes(active, active')
  <2>1. CASE active = End
    <3>1. active' \in {stations[1], stations[n]}
      BY <1>1, <1>3, <2>1 DEF Above, Below
    <3>2. active' \in Listed
      BY <1>1, <1>3, <3>1
    <3> QED
      BY <1>2, <1>3, <1>4, <2>1, <3>1, <3>2
  <2>2. CASE active \in Listed
    <3> DEFINE at == CHOOSE j \in DOMAIN stations : stations[j] = active
    <3>1. at \in 1..n /\ stations[at] = active
      BY <1>3, <2>2 DEF Listed
    <3>2. active # End
      BY <1>2, <1>3, <2>2
    <3>3. ASSUME active' = Above(active), active = stations[1] PROVE active' = stations[n]
      BY <1>3, <3>3 DEF Above
    <3>4. ASSUME active' = Above(active), active # stations[1] PROVE active' = stations[at - 1]
      BY <3>2, <3>4 DEF Above
    <3>5. ASSUME active' = Below(active), active = stations[n] PROVE active' = stations[1]
      BY <1>3, <3>5 DEF Below
    <3>6. ASSUME active' = Below(active), active # stations[n] PROVE active' = stations[at + 1]
      BY <1>3, <3>2, <3>6 DEF Below
    <3> HIDE DEF at
    <3>7. CASE active = stations[1] /\ active' = stations[n]
      BY <1>1, <1>3, <1>4, <1>5, <3>7
    <3>8. CASE active = stations[n] /\ active' = stations[1]
      BY <1>1, <1>3, <1>4, <1>5, <3>8
    <3>9. CASE active # stations[1] /\ active' = stations[at - 1]
      <4>1. at - 1 \in 1..n /\ at \in 1..n /\ (at - 1) + 1 = at /\ at - 1 < at
        BY <1>3, <3>1, <3>9
      <4>2. StationMenu!Beside(active, active')
        BY <1>2, <1>3, <3>1, <3>9, <4>1, NextTo
      <4>3. active' # active /\ active' \in Listed
        BY <1>2, <1>3, <3>1, <3>9, <4>1 DEF SortedOnce
      <4> QED
        BY <2>2, <4>2, <4>3
    <3>10. CASE active # stations[n] /\ active' = stations[at + 1]
      <4>1. at + 1 \in 1..n /\ at \in 1..n /\ at < at + 1
        BY <1>3, <3>1, <3>10
      <4>2. StationMenu!Beside(active, active')
        BY <1>2, <1>3, <3>1, <3>10, <4>1, NextTo
      <4>3. active' # active /\ active' \in Listed
        BY <1>2, <1>3, <3>1, <3>10, <4>1 DEF SortedOnce
      <4> QED
        BY <2>2, <4>2, <4>3
    <3> QED
      BY <1>1, <3>3, <3>4, <3>5, <3>6, <3>7, <3>8, <3>9, <3>10
  <2> QED
    BY <1>2, <2>1, <2>2
<1>7. Listed' = Listed /\ Watching' = Watching /\ Greeting' = Greeting
  <2>1. Calling' = Calling
    BY <1>1 DEF Calling
  <2> QED
    BY <1>1, <2>1, SameView DEF Listed
<1>8. Answered /\ Answered' = FALSE
  BY <1>1 DEF Answered
<1> QED
  BY <1>1, <1>6, <1>7, <1>8 DEF StationMenu!Move

\* check_time erases.
LEMMA DropImplements ==
  ASSUME ConstantsAssumption, IInv, OutsideInv, CheckErases
  PROVE  StationMenu!Drop
<1>1. /\ terminal_pc = "check" /\ terminal_pc' \in {"poll", "done"} /\ silent # {}
      /\ keep_heard /\ active' = begin(stations')
      /\ UNCHANGED <<listening, line, screen, out_buffer>>
  BY DEF CheckErases, erase_silent, EndOfLoop, dataVars, lineVars, sendVars
<1>2. stations' \in Seq(Senders) /\ SortedOnce' /\ Listed' = Listed \ silent
  BY <1>1, KeepOrdered DEF IInv, TypeOK
<1>3. \E gone \in SUBSET Listed : gone # {} /\ Listed' = Listed \ gone
  BY <1>1, <1>2 DEF OutsideInv
<1>4. IF Listed' = {} THEN active' = End ELSE StationMenu!IsFirst(active', Listed')
  <2>1. CASE stations' = <<>>
    <3>1. Listed' = {} /\ active' = End
      BY <1>1, <2>1 DEF Listed, begin
    <3> QED
      BY <3>1
  <2>2. CASE stations' # <<>>
    <3>1. /\ DOMAIN stations' = 1..Len(stations') /\ Len(stations') \in Nat
          /\ 1 \in DOMAIN stations' /\ active' = stations'[1]
          /\ \A j \in DOMAIN stations' : stations'[j] \in Senders /\ Name[stations'[j]] \in Nat
      BY <1>1, <1>2, <2>2, EmptySeq, LenProperties DEF begin, ConstantsAssumption
    <3>2. active' \in Listed'
      BY <3>1 DEF Listed
    <3>3. ASSUME NEW k \in Listed' PROVE Name[active'] <= Name[k]
      <4>1. PICK j \in DOMAIN stations' : stations'[j] = k
        BY <3>3 DEF Listed
      <4>2. j = 1 \/ 1 < j
        BY <3>1
      <4>3. 1 < j => Name[stations'[1]] <= Name[k]
        BY <1>2, <3>1, <4>1 DEF SortedOnce
      <4> QED
        BY <3>1, <4>1, <4>2, <4>3
    <3> QED
      BY <3>2, <3>3 DEF StationMenu!IsFirst
  <2> QED
    BY <2>1, <2>2
<1>5. Watching' = Watching /\ Greeting' = Greeting
  <2>1. Calling' = Calling
    BY <1>1 DEF Calling
  <2> QED
    BY <1>1, <2>1, SameView
<1>6. Answered /\ Answered' = Answered
  BY <1>1 DEF Answered
<1> QED
  BY <1>1, <1>3, <1>4, <1>5, <1>6 DEF StationMenu!Drop

\* The menu is sent to one terminal, and in the end to all.
LEMMA ShowImplements ==
  ASSUME IInv, Refresh \/ Draw \/ SendNext \/ SendDone
  PROVE  StationMenu!Next \/ UNCHANGED StationMenu!vars
<1>1. /\ UNCHANGED <<stations, active, listening>> /\ Calling = {} /\ Calling' = {}
      /\ Listed' = Listed
  BY DEF Refresh, Draw, DrawForAll, SendNext, SendDone, terminalOthers, dataVars, Calling, Listed
<1>2. CASE Refresh \/ Draw
  <2>1. Answered' = Answered /\ UNCHANGED <<line, screen>>
    BY <1>2 DEF Refresh, Draw, DrawForAll, Answered, lineVars
  <2>2. Unnoticed
    BY <1>1, <2>1 DEF Unnoticed, On
  <2> QED
    BY <2>2, UnnoticedStutters
<1>3. CASE SendNext
  <2> DEFINE t == Head(unsent)
  <2>1. /\ terminal_pc \in {"reply", "announce"} /\ unsent # <<>> /\ Sent(t)
        /\ screen' = [screen EXCEPT ![t] = out_buffer]
        /\ UNCHANGED <<terminal_pc, out_buffer>>
    BY <1>3 DEF SendNext
  <2>2. On' = On /\ t \in Terminals
    BY <2>1, SentFacts DEF IInv
  <2>3. out_buffer = draw_menu
    BY <2>1 DEF IInv, Drawn
  <2> HIDE DEF t
  <2>4. screen'[t] = draw_menu /\ \A u \in On \ {t} : screen'[u] = screen[u]
    BY <2>1, <2>2, <2>3 DEF IInv, TypeOK, On
  <2>5. Watching' = [u \in On |-> AsSeen(screen'[u])] /\ Watching = [u \in On |-> AsSeen(screen[u])]
    BY <1>1, <2>2 DEF Watching, AsSeen
  <2>6. AsSeen(screen'[t]) = StationMenu!Menu
    BY <2>4, DrawnIsMenu, Zenon
  <2>7. Answered' = Answered /\ Greeting' = Greeting
    BY <1>1, <2>1 DEF Answered, Greeting
  <2>8. CASE t \in On
    <3>1. \A u \in On : AsSeen(screen'[u]) = IF u = t THEN StationMenu!Menu ELSE AsSeen(screen[u])
      BY <2>4, <2>6, Zenon
    <3>2. Watching' = [Watching EXCEPT ![t] = StationMenu!Menu]
      <4> DEFINE new(u) == AsSeen(screen'[u])
                 old(u) == AsSeen(screen[u])
                 menu == StationMenu!Menu
      <4>1. Watching' = [u \in On |-> new(u)] /\ Watching = [u \in On |-> old(u)]
        BY <2>5
      <4>2. \A u \in On : new(u) = IF u = t THEN menu ELSE old(u)
        BY <3>1
      <4> HIDE DEF new, old, menu
      <4>3. Watching' = [Watching EXCEPT ![t] = menu]
        BY <4>1, <4>2, <2>8
      <4> QED
        BY <4>3 DEF menu
    <3>3. t \in DOMAIN Watching
      BY <2>5, <2>8
    <3>4. StationMenu!Show(t)
      BY <1>1, <2>7, <3>2, <3>3 DEF StationMenu!Show
    <3> QED
      BY <2>2, <3>4 DEF StationMenu!Next
  <2>9. CASE t \notin On
    <3>1. \A u \in On : screen'[u] = screen[u]
      BY <2>4, <2>9
    <3>2. Watching' = Watching
      <4> DEFINE new(u) == AsSeen(screen'[u])
                 old(u) == AsSeen(screen[u])
      <4>1. Watching' = [u \in On |-> new(u)] /\ Watching = [u \in On |-> old(u)]
        BY <2>5
      <4>2. \A u \in On : new(u) = old(u)
        BY <3>1
      <4> HIDE DEF new, old
      <4> QED
        BY <4>1, <4>2
    <3> QED
      BY <1>1, <2>7, <3>2 DEF StationMenu!vars
  <2> QED
    BY <2>8, <2>9
<1>4. CASE SendDone
  <2>1. /\ terminal_pc \in {"reply", "announce"} /\ unsent = <<>>
        /\ terminal_pc' = (IF terminal_pc = "reply" THEN "check" ELSE "clear")
        /\ UNCHANGED <<line, screen>>
    BY <1>4 DEF SendDone, lineVars
  <2>2. CASE terminal_pc = "announce"
    <3>1. Unnoticed
      BY <1>1, <2>1, <2>2 DEF Unnoticed, On, Answered
    <3> QED
      BY <3>1, UnnoticedStutters
  <2>3. CASE terminal_pc = "reply"
    <3>1. \A t \in On : screen[t] = draw_menu
      <4>1. DOMAIN unsent = {}
        BY <2>1
      <4> QED
        BY <2>1, <4>1 DEF IInv, Drawn
    <3>2. \A t \in On : AsSeen(screen[t]) = StationMenu!Menu
      BY <3>1, DrawnIsMenu, Zenon
    <3>3. \A v \in DOMAIN Watching : Watching[v] = StationMenu!Menu
      BY <3>2 DEF Watching
    <3>4. Watching' = Watching /\ Greeting' = Greeting
      BY <1>1, <2>1 DEF Watching, Greeting, On, AsSeen
    <3>5. Answered = FALSE /\ Answered' = TRUE
      BY <2>1, <2>3 DEF Answered
    <3>6. StationMenu!Answer
      BY <1>1, <3>3, <3>4, <3>5 DEF StationMenu!Answer
    <3> QED
      BY <3>6 DEF StationMenu!Next
  <2> QED
    BY <2>1, <2>2, <2>3
<1> QED
  BY <1>2, <1>3, <1>4

\* What a walk finds is a glimpse of the menu.
LEMMA GlimpseFacts ==
  ASSUME ConstantsAssumption, TypeOK, ActiveNeverDangles, NEW w \in Walked
  PROVE  AsSeen(w) \in StationMenu!Glimpses(AsSeen(out_buffer))
<1> DEFINE before == {out_buffer.list[i] : i \in DOMAIN out_buffer.list}
           found  == {w.list[i] : i \in DOMAIN w.list}
           mark   == {active} \ {End}
<1>1. /\ AsSeen(w) = [known |-> found, marks |-> w.marks]
      /\ AsSeen(out_buffer) = [known |-> before, marks |-> out_buffer.marks]
      /\ StationMenu!Menu = [known |-> Listed, marks |-> mark]
  BY DEF AsSeen, StationMenu!Menu
<1>2. /\ w.list \in {out_buffer.list, stations}
      /\ w.marks \subseteq found /\ w.marks \subseteq out_buffer.marks \union mark
      /\ out_buffer.marks = mark => w.marks = found \intersect {active}
  BY WalkFacts
<1>3. found \in {before, Listed}
  BY <1>2 DEF Listed
<1>4. mark \subseteq Listed /\ Listed \intersect {active} = mark
  BY DEF ActiveNeverDangles, TypeOK, ConstantsAssumption, Listed
<1> HIDE DEF before, found, mark
<1>5. ASSUME before = Listed, out_buffer.marks = mark PROVE found = Listed /\ w.marks = mark
  BY <1>2, <1>3, <1>4, <1>5
<1> DEFINE new == AsSeen(w)
           old == AsSeen(out_buffer)
           menu == StationMenu!Menu
<1>6. /\ new = [known |-> found, marks |-> w.marks]
      /\ old = [known |-> before, marks |-> out_buffer.marks]
      /\ menu = [known |-> Listed, marks |-> mark]
  BY <1>1
<1> HIDE DEF new, old, menu
<1>7. new \in [known : {old.known, Listed}, marks : SUBSET (old.marks \union menu.marks)]
  BY <1>2, <1>3, <1>6
<1>8. new.marks \subseteq new.known /\ (old = menu => new = menu)
  <2>1. ASSUME old = menu PROVE new = menu
    <3>1. /\ old.known = before /\ menu.known = Listed
          /\ old.marks = out_buffer.marks /\ menu.marks = mark
      BY <1>6
    <3>2. found = Listed /\ w.marks = mark
      BY <1>5, <2>1, <3>1
    <3> QED
      BY <1>6, <3>2
  <2> QED
    BY <1>2, <1>6, <2>1
<1> QED
  BY <1>7, <1>8 DEF new, old, menu, StationMenu!Glimpses

\* A user calls, is greeted, or hangs up.
LEMMA CallImplements ==
  ASSUME ConstantsAssumption, IInv, Accept \/ Greet \/ \E t \in Terminals : Hangup(t)
  PROVE  StationMenu!Next \/ UNCHANGED StationMenu!vars
<1>1. /\ UNCHANGED <<stations, active, listening>>
      /\ terminal_pc \in {"accept", "greet", "keys"} /\ terminal_pc' \in {"greet", "keys", "check"}
  BY DEF Accept, Greet, Hangup, terminalOthers, dataVars
<1>2. Listed' = Listed /\ Answered' = Answered
  BY <1>1 DEF Listed, Answered
<1>3. CASE Accept /\ UNCHANGED <<sockets, line, sendVars>> /\ terminal_pc' = "keys"
  <2>1. UNCHANGED <<line, screen>> /\ Calling = {} /\ Calling' = {}
    BY <1>3 DEF Accept, Calling
  <2>2. Unnoticed
    BY <1>1, <1>2, <2>1 DEF Unnoticed, On
  <2> QED
    BY <2>2, UnnoticedStutters
<1>4. ASSUME NEW t \in Terminals \ On, Accept, line' = [line EXCEPT ![t] = "on"],
             out_buffer' = draw_menu, unsent' = <<t>>, terminal_pc' = "greet"
      PROVE  StationMenu!Call(t)
  <2>1. On' = On \union {t} /\ screen' = screen /\ Calling = {} /\ Calling' = {t}
    BY <1>4 DEF IInv, TypeOK, On, Accept, Calling
  <2>2. AsSeen(out_buffer') = StationMenu!Menu
    BY <1>4, DrawnIsMenu, Zenon
  <2>3. Greeting' = [u \in {t} |-> StationMenu!Menu] /\ DOMAIN Greeting = {}
    <3>1. Greeting' = [u \in Calling' |-> AsSeen(out_buffer')]
      BY DEF Greeting, AsSeen
    <3>2. DOMAIN Greeting = {}
      BY <2>1 DEF Greeting
    <3> QED
      BY <2>1, <2>2, <3>1, <3>2, Zenon
  <2>4. Watching' = Watching /\ DOMAIN Watching = On
    <3>1. On' \ Calling' = On \ Calling /\ On \ Calling = On
      BY <2>1
    <3> QED
      BY <2>1, <3>1 DEF Watching, AsSeen
  <2> QED
    BY <1>1, <1>2, <2>3, <2>4 DEF StationMenu!Call
<1>5. CASE Greet
  <2>1. /\ terminal_pc = "greet" /\ terminal_pc' = "keys" /\ Sent(Head(unsent))
    BY <1>5 DEF Greet
  <2>2. PICK t \in On : unsent = <<t>>
    BY <2>1 DEF IInv, Served
  <2>3. Head(unsent) = t /\ unsent # <<>> /\ t \in Terminals
    BY <2>2 DEF On
  <2>4. PICK w \in Walked : screen' = [screen EXCEPT ![t] = w]
    BY <1>5, <2>3 DEF Greet
  <2>5. On' = On /\ Calling = {t} /\ Calling' = {}
    BY <2>1, <2>3, SentFacts DEF IInv, Calling
  <2>6. screen'[t] = w /\ \A u \in On \ {t} : screen'[u] = screen[u]
    BY <2>3, <2>4 DEF IInv, TypeOK, On
  <2>7. /\ Greeting = [u \in {t} |-> AsSeen(out_buffer)]
        /\ Watching = [u \in On \ {t} |-> AsSeen(screen[u])]
        /\ DOMAIN Greeting' = {} /\ Watching' = [u \in On |-> AsSeen(screen'[u])]
    <3>1. On' \ Calling' = On
      BY <2>5
    <3>2. Watching' = [u \in On' \ Calling' |-> AsSeen(screen'[u])]
      BY DEF Watching, AsSeen
    <3>3. Greeting' = [u \in Calling' |-> AsSeen(out_buffer')]
      BY DEF Greeting, AsSeen
    <3> QED
      BY <2>5, <3>1, <3>2, <3>3 DEF Greeting, Watching
  <2>8. AsSeen(w) \in StationMenu!Glimpses(Greeting[t])
    <3>1. Greeting[t] = AsSeen(out_buffer)
      BY <2>7
    <3>2. AsSeen(w) \in StationMenu!Glimpses(AsSeen(out_buffer))
      BY GlimpseFacts DEF IInv
    <3> QED
      BY <3>1, <3>2
  <2>9. Watching' = [u \in DOMAIN Watching \union {t} |-> IF u = t THEN AsSeen(w) ELSE Watching[u]]
    <3> DEFINE new(u) == AsSeen(screen'[u])
               old(u) == AsSeen(screen[u])
               seen == AsSeen(w)
    <3>1. /\ Watching' = [u \in On |-> new(u)] /\ Watching = [u \in On \ {t} |-> old(u)]
          /\ new(t) = seen
      BY <2>6, <2>7
    <3>2. \A u \in On \ {t} : new(u) = old(u)
      BY <2>6
    <3> HIDE DEF new, old, seen
    <3>3. Watching' = [u \in DOMAIN Watching \union {t} |-> IF u = t THEN seen ELSE Watching[u]]
      BY <2>2, <3>1, <3>2
    <3> QED
      BY <3>3 DEF seen
  <2>10. /\ t \in DOMAIN Greeting
         /\ Greeting' = [u \in DOMAIN Greeting \ {t} |-> Greeting[u]]
    <3>1. DOMAIN Greeting = {t}
      BY <2>7
    <3>2. Greeting' = [u \in Calling' |-> AsSeen(out_buffer')]
      BY DEF Greeting, AsSeen
    <3>3. DOMAIN Greeting \ {t} = {}
      BY <3>1
    <3> QED
      BY <2>5, <3>1, <3>2, <3>3
  <2>11. StationMenu!Greet(t)
    BY <1>1, <1>2, <2>8, <2>9, <2>10 DEF StationMenu!Greet
  <2> QED
    BY <2>3, <2>11 DEF StationMenu!Next
<1>6. ASSUME NEW t \in Terminals, Hangup(t) PROVE StationMenu!HangUp(t)
  <2>1. /\ line[t] \in {"fin", "epipe"} /\ out_buffer' = out_buffer
        /\ line' = [line EXCEPT ![t] = "off"] /\ screen' = [screen EXCEPT ![t] = Blank]
        /\ Calling = {} /\ Calling' = {}
    BY <1>6 DEF Hangup, sendVars, Calling
  <2>2. t \in On /\ On' = On \ {t} /\ \A u \in On \ {t} : screen'[u] = screen[u]
    BY <2>1 DEF IInv, TypeOK, On
  <2>3. /\ Watching' = [u \in On \ {t} |-> AsSeen(screen'[u])]
        /\ Watching = [u \in On |-> AsSeen(screen[u])]
    <3>1. On' \ Calling' = On \ {t} /\ On \ Calling = On
      BY <2>1, <2>2
    <3>2. Watching' = [u \in On' \ Calling' |-> AsSeen(screen'[u])]
      BY DEF Watching, AsSeen
    <3> QED
      BY <3>1, <3>2 DEF Watching
  <2>4. Watching' = [u \in On \ {t} |-> Watching[u]] /\ DOMAIN Watching = On
    <3> DEFINE new(u) == AsSeen(screen'[u])
               old(u) == AsSeen(screen[u])
    <3>1. Watching' = [u \in On \ {t} |-> new(u)] /\ Watching = [u \in On |-> old(u)]
      BY <2>3
    <3>2. \A u \in On \ {t} : new(u) = old(u)
      BY <2>2
    <3> HIDE DEF new, old
    <3> QED
      BY <3>1, <3>2
  <2>5. Greeting' = Greeting
    BY <2>1 DEF Greeting, AsSeen
  <2> QED
    BY <1>1, <1>2, <2>2, <2>4, <2>5 DEF StationMenu!HangUp
<1>7. \A t \in Terminals : t \notin On => t \in Terminals \ On
  OBVIOUS
<1> QED
  BY <1>3, <1>4, <1>5, <1>6 DEF Accept, StationMenu!Next

\* main starts data_loop and joins it.
LEMMA TuneImplements ==
  ASSUME ConstantsAssumption, IInv, OutsideInv, MainStart \/ MainJoin
  PROVE  StationMenu!Next \/ UNCHANGED StationMenu!vars
<1>1. UNCHANGED <<stations, active, line, screen, out_buffer, unsent, terminal_pc>>
  BY DEF MainStart, MainJoin, dataOthers, menuVars, terminalVars, lineVars, sendVars
<1>2. /\ Listed' = Listed /\ Watching' = Watching /\ Greeting' = Greeting
      /\ Answered' = Answered
  <2>1. Calling' = Calling
    BY <1>1 DEF Calling
  <2> QED
    BY <1>1, <2>1, SameView DEF Listed, Answered
<1>3. CASE MainStart
  <2>1. listening = End /\ listening' = active /\ active \in Listed
    BY <1>3 DEF MainStart, OutsideInv, IInv, ActiveNeverDangles
  <2>2. StationMenu!Tune
    BY <1>1, <1>2, <2>1 DEF StationMenu!Tune
  <2> QED
    BY <2>2 DEF StationMenu!Next
<1>4. CASE MainJoin
  <2>1. listening' = End
    BY <1>4 DEF MainJoin
  <2>2. CASE listening = End
    BY <1>1, <1>2, <2>1, <2>2 DEF StationMenu!vars
  <2>3. CASE listening # End
    <3>1. StationMenu!Leave
      BY <1>1, <1>2, <2>1, <2>3 DEF StationMenu!Leave
    <3> QED
      BY <3>1 DEF StationMenu!Next
  <2> QED
    BY <2>2, <2>3
<1> QED
  BY <1>3, <1>4

\* The other steps.
LEMMA RecieveImplements ==
  ASSUME ConstantsAssumption, IInv, NEW s \in Senders, Recieve(s)
  PROVE  StationMenu!Next \/ UNCHANGED StationMenu!vars
<1>1. UNCHANGED <<listening, terminal_pc, line, screen, out_buffer, unsent>>
  BY DEF Recieve, terminalVars, dataVars, lineVars, sendVars
<1>2. CASE UNCHANGED <<stations, active>>
  <2>1. Unnoticed
    BY <1>1, <1>2 DEF Unnoticed, On, Answered, Calling
  <2> QED
    BY <2>1, UnnoticedStutters
<1>3. CASE add_first(s) \/ add_next(s)
  <2>1. s \notin Listed
    BY <1>3 DEF add_first, add_next, Listed
  <2>2. StationMenu!Arrive(s)
    BY <1>1, <1>3, <2>1, ArriveImplements
  <2> QED
    BY <2>2 DEF StationMenu!Next
<1> QED
  BY <1>2, <1>3 DEF Recieve, add_menu, add_found, menuVars

LEMMA OthersImplement ==
  ASSUME IInv,
         \/ request_lookup \/ RecieveStore \/ RecieveIdle \/ RecieveFails
         \/ Poll \/ KeysDone \/ CheckNothing \/ CheckCrashes \/ SendFails \/ Clear
         \/ \E t \in Terminals : KeyIgnored(t) \/ ReadFails(t)
         \/ \E t \in Terminals : Close(t) \/ Clog(t) \/ Unclog(t)
         \/ Data /\ ~MainStart /\ ~MainJoin
         \/ catch_interput \/ \E s \in Senders : Silent(s)
  PROVE  UNCHANGED StationMenu!vars
<1>1. CASE request_lookup \/ RecieveStore \/ RecieveIdle
  BY <1>1, UnnoticedStutters
     DEF request_lookup, RecieveStore, RecieveIdle, Unnoticed, On, Answered, Calling, menuVars,
         terminalVars,
         dataVars, lineVars, sendVars
<1>2. CASE dies
  BY <1>2, UnnoticedStutters DEF dies, Unnoticed, On, Answered, Calling, menuVars,
                                 terminalVars, dataVars,
                                 lineVars, sendVars
<1>3. CASE Poll \/ KeysDone \/ CheckNothing \/ Clear \/ \E t \in Terminals : KeyIgnored(t)
  BY <1>3, UnnoticedStutters
     DEF Poll, KeysDone, CheckNothing, EndOfLoop, Clear, KeyIgnored, Unnoticed, On, Answered,
         Calling,
         terminalOthers, dataVars, lineVars, sendVars
<1>4. ASSUME NEW t \in Terminals, Close(t) \/ Clog(t) \/ Unclog(t)
      PROVE  UNCHANGED StationMenu!vars
  <2>1. UNCHANGED lineOthers
    BY <1>4 DEF Close, Clog, Unclog
  <2>2. PICK l \in {"on", "full", "fin", "reset"} :
          line[t] \in {"on", "full"} /\ line' = [line EXCEPT ![t] = l]
    BY <1>4 DEF Close, Clog, Unclog, Connected
  <2>3. On' = On
    BY <2>2 DEF On, IInv, TypeOK
  <2>4. Unnoticed
    BY <2>1, <2>3 DEF Unnoticed, Answered, Calling, lineOthers, menuVars, sendVars, dataVars
  <2> QED
    BY <2>4, UnnoticedStutters
<1>5. CASE Data /\ ~MainStart /\ ~MainJoin
  BY <1>5, UnnoticedStutters
     DEF Data, MainFinish, DataSees, DataCompare, DataEnds, DataNewSession, dataOthers,
         Unnoticed, On, Answered, Calling, menuVars, terminalVars, lineVars, sendVars
<1>6. CASE catch_interput \/ \E s \in Senders : Silent(s)
  BY <1>6, UnnoticedStutters
     DEF catch_interput, Silent, Unnoticed, On, Answered, Calling, menuVars, terminalVars,
         dataVars, lineVars,
         sendVars
<1> QED
  BY <1>1, <1>2, <1>3, <1>4, <1>5, <1>6 DEF RecieveFails, CheckCrashes, SendFails, ReadFails

LEMMA OutsideStep ==
  ASSUME ConstantsAssumption, IInv, OutsideInv, [Next]_vars
  PROVE  OutsideInv'
<1>1. main_pc' = "loop" => listening' = End
  <2>1. CASE Data
    BY <2>1 DEF Data, MainStart, MainJoin, MainFinish, DataSees, DataCompare, DataEnds,
                DataNewSession, OutsideInv
  <2>2. CASE UNCHANGED dataVars
    BY <2>2 DEF dataVars, OutsideInv
  <2>3. Discovery \/ Terminal \/ Environment => UNCHANGED dataVars
    BY DEF Discovery, request_lookup, RecieveStore, RecieveIdle, RecieveFails, Recieve, dies,
           Terminal, terminalOthers, Poll, Accept, Greet, KeysDone, Refresh, Draw, DrawForAll,
           SendNext, SendDone, SendFails, Clear,
           CheckNothing, CheckErases, CheckCrashes, KeyIgnored, transform, Hangup, ReadFails,
           Environment, catch_interput, Silent, Close, Clog, Unclog, lineVars, sendVars,
           lineOthers
  <2> QED
    BY <2>1, <2>2, <2>3 DEF Next, Terminated, vars
<1>2. silent' \subseteq Listed'
  <2>1. CASE UNCHANGED <<stations, silent>>
    BY <2>1 DEF OutsideInv, Listed
  <2>2. ASSUME NEW s \in Senders, Recieve(s) PROVE silent' \subseteq Listed'
    <3>1. CASE add_found(s)
      BY <3>1 DEF add_found, OutsideInv, Listed
    <3>2. CASE add_first(s) \/ add_next(s)
      <4>1. s \notin Listed
        BY <3>2 DEF add_first, add_next, Listed
      <4>2. StationMenu!Arrive(s)
        BY <2>2, <3>2, <4>1, ArriveImplements DEF Recieve, terminalVars, dataVars,
                                                  lineVars, sendVars
      <4>3. Listed' = Listed \union {s}
        BY <4>2 DEF StationMenu!Arrive
      <4>4. silent' = silent
        BY <2>2, <4>1 DEF Recieve, add_menu, add_found, menuVars
      <4> QED
        BY <4>3, <4>4 DEF OutsideInv
    <3> QED
      BY <2>1, <2>2, <3>1, <3>2 DEF Recieve, add_menu, menuVars
  <2>3. ASSUME NEW s \in Senders, Silent(s) PROVE silent' \subseteq Listed'
    BY <2>3 DEF Silent, OutsideInv, Listed
  <2>4. CASE CheckErases
    BY <2>4 DEF CheckErases, erase_silent
  <2>5. Data \/ (Terminal /\ ~CheckErases) => UNCHANGED <<stations, silent>>
    BY DEF Data, MainStart, MainJoin, MainFinish, DataSees, DataCompare, DataEnds,
           DataNewSession, dataOthers, dies, menuVars, Terminal, terminalOthers, Poll, Accept,
           Greet,
           KeysDone, Refresh, Draw, DrawForAll, SendNext, SendDone, SendFails, Clear,
           CheckNothing, CheckCrashes, KeyIgnored,
           transform, Hangup, ReadFails, lineVars, sendVars
  <2>6. ASSUME \/ request_lookup \/ RecieveStore \/ RecieveIdle \/ RecieveFails
               \/ catch_interput
               \/ \E t \in Terminals : Close(t) \/ Clog(t) \/ Unclog(t)
        PROVE  UNCHANGED <<stations, silent>>
    BY <2>6 DEF request_lookup, RecieveStore, RecieveIdle, RecieveFails, dies, catch_interput,
           Close, Clog, Unclog, menuVars, lineOthers
  <2>7. CASE UNCHANGED vars
    BY <2>1, <2>7 DEF vars, menuVars
  <2> QED
    BY <2>1, <2>2, <2>3, <2>4, <2>5, <2>6, <2>7 DEF Next, Discovery, Environment, Terminated
<1> QED
  BY <1>1, <1>2 DEF OutsideInv

\* List, iterator, flags and threads implement StationMenu: what the listener sees and
\* hears is a set of stations with one mark, in the order of names.
THEOREM StationsImplementStationMenu == Spec => ImplementsStationMenu
<1>1. Init => OutsideInv /\ StationMenu!Init
  <2> SUFFICES ASSUME Init PROVE OutsideInv /\ StationMenu!Init
    OBVIOUS
  <2>1. Listed = {} /\ On = {}
    BY DEF Init, Listed, On
  <2>2. Watching \in [{} -> {StationMenu!Menu}] /\ Greeting \in [{} -> {StationMenu!Menu}]
    <3>1. Calling = {}
      BY DEF Init, Calling
    <3> QED
      BY <2>1, <3>1 DEF Watching, Greeting
  <2>3. Answered = TRUE
    BY DEF Init, Answered
  <2> QED
    BY <2>1, <2>2, <2>3 DEF Init, OutsideInv, StationMenu!Init
<1>2. IInv /\ OutsideInv /\ [Next]_vars => [StationMenu!Next]_(StationMenu!vars)
  <2> SUFFICES ASSUME IInv, OutsideInv, [Next]_vars
               PROVE  StationMenu!Next \/ UNCHANGED StationMenu!vars
    OBVIOUS
  <2>1. CASE Discovery
    BY <2>1, RecieveImplements, OthersImplement, ConstantsAssumption DEF Discovery
  <2>2. CASE CheckErases
    BY <2>2, DropImplements, ConstantsAssumption DEF StationMenu!Next
  <2>3. CASE \E t \in Terminals : transform(t)
    BY <2>3, MoveImplements, ConstantsAssumption DEF StationMenu!Next
  <2>4. CASE Refresh \/ Draw \/ SendNext \/ SendDone
    BY <2>4, ShowImplements
  <2>5. CASE Accept \/ Greet \/ \E t \in Terminals : Hangup(t)
    BY <2>5, CallImplements, ConstantsAssumption
  <2>6. CASE \/ Poll \/ KeysDone \/ CheckNothing \/ CheckCrashes \/ SendFails \/ Clear
             \/ \E t \in Terminals : KeyIgnored(t) \/ ReadFails(t)
    BY <2>6, OthersImplement
  <2>7. CASE MainStart \/ MainJoin
    BY <2>7, TuneImplements, ConstantsAssumption
  <2>8. CASE Data /\ ~MainStart /\ ~MainJoin
    BY <2>8, OthersImplement
  <2>9. CASE Environment
    BY <2>9, OthersImplement DEF Environment
  <2>10. CASE UNCHANGED vars
    <3>1. Unnoticed
      BY <2>10 DEF vars, menuVars, terminalVars, dataVars, Unnoticed, On, Answered, Calling,
                   lineVars, sendVars
    <3> QED
      BY <3>1, UnnoticedStutters
  <2> QED
    BY <2>1, <2>2, <2>3, <2>4, <2>5, <2>6, <2>7, <2>8, <2>9, <2>10
       DEF Next, Terminal, Terminated
<1>3. IInv /\ OutsideInv /\ [Next]_vars => OutsideInv'
  BY OutsideStep, ConstantsAssumption
<1> QED
  BY <1>1, <1>2, <1>3, StationsInvariance, PTL
     DEF Spec, ImplementsStationMenu, StationMenu!Spec

=============================================================================
