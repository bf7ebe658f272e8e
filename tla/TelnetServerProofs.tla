------------------------- MODULE TelnetServerProofs -------------------------
(***************************************************************************)
(* Theorems about TelnetServer: for any number of users and keys, both     *)
(* programs implement the menu of the exercise.  The bytes on their way    *)
(* are the rest of what was typed, in order; so a piece read as a command  *)
(* begins with a whole key of that name, the next one to be answered.      *)
(***************************************************************************)
EXTENDS TelnetServer, TLAPS

Commands == {"ENTER", "UP", "DOWN", "NONE"}

\* Users are in the queue, still to come, or were served.
Users == waiting + later <= MaxUsers

\* The bytes not received are whole ends of keys, one after the other.
Wired ==
  /\ \A i \in 1..Len(wire) : wire[i].at <= Len(typed[wire[i].of])
  /\ \A i, j \in 1..Len(wire) :
       i < j => \/ wire[i].of < wire[j].of
                \/ (wire[i].of = wire[j].of /\ wire[j].at = wire[i].at + (j - i))
  /\ \A i \in 1..Len(wire) : i > 1 => wire[i].at = 1 \/ wire[i].of = wire[i - 1].of

IInv == TypeOK /\ Users /\ Wired

-----------------------------------------------------------------------------
(* Operators *)

\* Any piece is taken for one command.
LEMMA CommandType == ASSUME NEW piece PROVE recv_command(piece) \in Commands
  BY DEF recv_command, Commands

\* What is on the way names keys that were typed.
LEMMA WireType ==
  ASSUME TypeOK
  PROVE  /\ Len(wire) \in Nat /\ Len(typed) \in Nat
         /\ \A i \in 1..Len(wire) : wire[i].of \in 1..Len(typed) /\ wire[i].at \in 1..3
         /\ \A i \in 1..Len(typed) : typed[i] \in Keys
<1>1. /\ Len(wire) \in Nat /\ Len(typed) \in Nat
      /\ \A i \in 1..Len(wire) : wire[i] \in OnWire
      /\ \A i \in 1..Len(typed) : typed[i] \in Keys
  BY DEF TypeOK
<1> QED
  BY <1>1 DEF OnWire

Byte == {"cr", "nul", "esc", "[", "A", "B", "x"}

\* A command is told by the first bytes of the piece.
LEMMA CommandBytes ==
  ASSUME NEW piece \in Seq(Byte), Len(piece) > 0
  PROVE  /\ recv_command(piece) = "ENTER" => piece[1] = "cr"
         /\ recv_command(piece) = "UP" =>
              Len(piece) >= 3 /\ piece[1] = "esc" /\ piece[2] = "[" /\ piece[3] = "A"
         /\ recv_command(piece) = "DOWN" =>
              Len(piece) >= 3 /\ piece[1] = "esc" /\ piece[2] = "[" /\ piece[3] = "B"
<1>1. ASSUME NEW a, NEW b, NEW c, IsPrefix(<<a, b, c>>, piece) \/ piece = <<a, b, c>>
      PROVE  Len(piece) >= 3 /\ piece[1] = a /\ piece[2] = b /\ piece[3] = c
  <2>1. CASE piece = <<a, b, c>>
    BY <2>1
  <2>2. CASE IsPrefix(<<a, b, c>>, piece)
    <3>1. Len(piece) >= 3 /\ SubSeq(<<a, b, c>>, 1, 3) = SubSeq(piece, 1, 3)
      BY <2>2 DEF IsPrefix
    <3>2. \A i \in 1..3 : SubSeq(piece, 1, 3)[i] = piece[i]
      BY <3>1
    <3>3. \A i \in 1..3 : SubSeq(<<a, b, c>>, 1, 3)[i] = <<a, b, c>>[i]
      OBVIOUS
    <3> QED
      BY <3>1, <3>2, <3>3
  <2> QED
    BY <1>1, <2>1, <2>2
<1>2. recv_command(piece) = "UP" => IsPrefix(Up, piece) \/ piece = Up
  BY DEF recv_command
<1>3. recv_command(piece) = "DOWN" => IsPrefix(Down, piece) \/ piece = Down
  BY DEF recv_command
<1>4. recv_command(piece) = "ENTER" => piece[1] = "cr"
  BY DEF recv_command, Enter
<1> QED
  BY <1>1, <1>2, <1>3, <1>4 DEF Up, Down

\* What tells keys apart: each of these bytes stands in one place.
LEMMA KeyBytes ==
  ASSUME NEW k \in Keys
  PROVE  /\ Len(k) \in 1..3
         /\ \A a \in 1..Len(k) :
              /\ k[a] = "cr" => a = 1 /\ k = Enter
              /\ k[a] = "esc" => a = 1
              /\ k[a] = "[" => a = 2
              /\ k[a] = "A" => k = Up
              /\ k[a] = "B" => k = Down
              /\ k[a] \in Byte /\ a \in 1..3
<1> USE DEF Enter, Up, Down, Byte
<1>1. CASE k = Enter
  BY <1>1
<1>2. CASE k = Up
  BY <1>2
<1>3. CASE k = Down
  BY <1>3
<1>4. CASE k = <<"esc">> \/ k = <<"x">>
  BY <1>4
<1> QED
  BY <1>1, <1>2, <1>3, <1>4 DEF Keys

\* A piece of bytes that is read as a command begins with that key.
LEMMA CommandIsKey ==
  ASSUME TypeOK, Wired, NEW n \in 1..Len(wire), NEW piece,
         piece = [i \in 1..n |-> typed[wire[i].of][wire[i].at]]
  PROVE  /\ recv_command(piece) = "ENTER" =>
              wire[1].at = 1 /\ typed[wire[1].of] = Enter
         /\ recv_command(piece) = "UP" =>
              wire[1].at = 1 /\ typed[wire[1].of] = Up
         /\ recv_command(piece) = "DOWN" =>
              wire[1].at = 1 /\ typed[wire[1].of] = Down
<1>1. \A i \in 1..n : /\ wire[i].of \in 1..Len(typed) /\ typed[wire[i].of] \in Keys
                     /\ wire[i].at \in 1..Len(typed[wire[i].of])
  <2>1. ASSUME NEW i \in 1..n
        PROVE  /\ i \in 1..Len(wire) /\ wire[i].of \in 1..Len(typed)
               /\ typed[wire[i].of] \in Keys /\ wire[i].at \in 1..3
    <3>1. i \in 1..Len(wire)
      BY WireType
    <3> QED
      BY <3>1, WireType
  <2>2. ASSUME NEW i \in 1..n PROVE wire[i].at \in 1..Len(typed[wire[i].of])
    <3>1. i \in 1..Len(wire) /\ wire[i].at \in 1..3
      BY <2>1
    <3>2. wire[i].at <= Len(typed[wire[i].of])
      BY <3>1 DEF Wired
    <3>3. typed[wire[i].of] \in Keys
      BY <2>1
    <3>4. Len(typed[wire[i].of]) \in 1..3
      BY <3>3, KeyBytes
    <3> QED
      BY <3>1, <3>2, <3>4
  <2> QED
    BY <2>1, <2>2
<1>2. Len(piece) = n /\ n \in 1..Len(wire)
  OBVIOUS
<1>3. \A i \in 1..n : piece[i] = typed[wire[i].of][wire[i].at]
  OBVIOUS
<1>4. ASSUME piece[1] = "cr" PROVE wire[1].at = 1 /\ typed[wire[1].of] = Enter
  BY <1>1, <1>3, <1>4, KeyBytes
<1>5. ASSUME n >= 3, piece[1] = "esc", piece[2] = "["
      PROVE  /\ wire[1].at = 1
             /\ piece[3] = "A" => typed[wire[1].of] = Up
             /\ piece[3] = "B" => typed[wire[1].of] = Down
  <2>1. wire[1].at = 1 /\ wire[2].at = 2
    BY <1>1, <1>3, <1>5, KeyBytes
  <2>2. wire[2].of = wire[1].of
    BY <1>5, <2>1 DEF Wired
  <2>3. wire[3].at = 1 \/ wire[3].of = wire[2].of
    BY <1>5 DEF Wired
  <2>4. piece[3] \in {"A", "B"} => wire[3].at # 1
    <3>1. \A k \in Keys : k[1] # "A" /\ k[1] # "B"
      BY DEF Keys, Enter, Up, Down
    <3> QED
      BY <1>1, <1>3, <1>5, <3>1
  <2> QED
    BY <1>1, <1>3, <1>5, <2>1, <2>2, <2>3, <2>4, KeyBytes
<1>6. /\ recv_command(piece) = "ENTER" => piece[1] = "cr"
      /\ recv_command(piece) = "UP" =>
           n >= 3 /\ piece[1] = "esc" /\ piece[2] = "[" /\ piece[3] = "A"
      /\ recv_command(piece) = "DOWN" =>
           n >= 3 /\ piece[1] = "esc" /\ piece[2] = "[" /\ piece[3] = "B"
  <2>1. \A i \in 1..n : typed[wire[i].of][wire[i].at] \in Byte
    BY <1>1, KeyBytes
  <2>2. n \in Nat /\ n > 0
    BY WireType
  <2>3. piece \in Seq(Byte)
    BY <2>1, <2>2
  <2> QED
    BY <1>2, <2>2, <2>3, CommandBytes
<1> QED
  BY <1>4, <1>5, <1>6

\* The rest of a sequence.
LEMMA RestOf ==
  ASSUME NEW S, NEW s \in Seq(S), NEW n \in 1..Len(s)
  PROVE  /\ SubSeq(s, n + 1, Len(s)) \in Seq(S) /\ Len(SubSeq(s, n + 1, Len(s))) = Len(s) - n
         /\ \A i \in 1..Len(s) - n : SubSeq(s, n + 1, Len(s))[i] = s[n + i]
  OBVIOUS

\* Two sequences, one after the other.
LEMMA Joined ==
  ASSUME NEW S, NEW s \in Seq(S), NEW r \in Seq(S)
  PROVE  /\ s \o r \in Seq(S) /\ Len(s \o r) = Len(s) + Len(r)
         /\ \A i \in 1..Len(s) : (s \o r)[i] = s[i]
         /\ \A i \in 1..Len(r) : (s \o r)[Len(s) + i] = r[i]
  OBVIOUS

\* The number of keys heard, by the first byte that was not: before n bytes were
\* received (h) and after (g).
LEMMA HeardNumbers ==
  ASSUME NEW max \in Nat, NEW n \in Nat, n >= 1,
         NEW o \in 1..max, NEW a \in 1..3, NEW p \in 1..max, NEW b \in 1..3,
         o < p \/ (o = p /\ b = a + n),
         NEW h, h = IF a = 1 THEN o - 1 ELSE o,
         NEW g, g = IF b = 1 THEN p - 1 ELSE p
  PROVE  /\ h \in 0..max /\ g \in h..max
         /\ a = 1 => o = h + 1 /\ g \in h + 1 .. max
<1>1. CASE a = 1 /\ b = 1
  BY <1>1
<1>2. CASE a = 1 /\ b # 1
  BY <1>2
<1>3. CASE a # 1 /\ b = 1
  BY <1>3
<1>4. CASE a # 1 /\ b # 1
  BY <1>4
<1> QED
  BY <1>1, <1>2, <1>3, <1>4

\* Receiving n bytes goes on to a later key if the first of them began one.
LEMMA HeardGoesOn ==
  ASSUME TypeOK, Wired, NEW n \in 1..Len(wire),
         wire' = SubSeq(wire, n + 1, Len(wire)), typed' = typed
  PROVE  /\ Heard \in 0..Len(typed) /\ Heard' \in Heard..Len(typed)
         /\ wire[1].at = 1 => wire[1].of = Heard + 1 /\ Heard' \in Heard + 1 .. Len(typed)
<1>1. \A i \in 1..Len(wire) : wire[i].of \in 1..Len(typed) /\ wire[i].at \in 1..3
  BY WireType
<1>2. wire \in Seq(OnWire) /\ Len(typed) \in Nat
  BY DEF TypeOK
<1>3. /\ wire # <<>> /\ wire' = SubSeq(wire, n + 1, Len(wire))
      /\ Len(wire) \in Nat /\ n \in Nat /\ n >= 1 /\ n <= Len(wire)
  BY <1>2
<1>6. /\ wire[1].of \in 1..Len(typed) /\ wire[1].at \in 1..3
      /\ Heard = IF wire[1].at = 1 THEN wire[1].of - 1 ELSE wire[1].of
  BY <1>1, <1>3 DEF Heard
<1>4. CASE n = Len(wire)
  <2>1. wire' = <<>>
    BY <1>2, <1>3, <1>4
  <2>2. Heard' = Len(typed)
    BY <2>1 DEF Heard
  <2> QED
    BY <1>2, <1>6, <2>2, SMTT(30)
<1>5. CASE n < Len(wire)
  <2>1. wire' # <<>> /\ wire'[1] = wire[n + 1]
    <3>1. 1 \in 1..Len(wire) - n
      BY <1>3, <1>5
    <3>2. /\ wire' \in Seq(OnWire) /\ Len(wire') = Len(wire) - n
          /\ \A i \in 1..Len(wire) - n : wire'[i] = wire[n + i]
      <4>1. n \in 1..Len(wire)
        BY <1>3
      <4> QED
        BY <1>2, <1>3, <4>1, RestOf
    <3>3. Len(wire') # 0
      <4>1. Len(wire') = Len(wire) - n
        BY <3>2
      <4> QED
        BY <1>3, <1>5, <4>1
    <3>4. wire' # <<>>
      BY <3>3
    <3> QED
      BY <3>1, <3>2, <3>4
  <2>2. Heard' = IF wire[n + 1].at = 1 THEN wire[n + 1].of - 1 ELSE wire[n + 1].of
    BY <2>1 DEF Heard
  <2>3. \/ wire[1].of < wire[n + 1].of
        \/ (wire[1].of = wire[n + 1].of /\ wire[n + 1].at = wire[1].at + n)
    <3>1. 1 \in 1..Len(wire) /\ n + 1 \in 1..Len(wire) /\ 1 < n + 1 /\ (n + 1) - 1 = n
      BY <1>3, <1>5
    <3> QED
      BY <3>1 DEF Wired
  <2>4. wire[n + 1].of \in 1..Len(typed) /\ wire[n + 1].at \in 1..3
    BY <1>1, <1>3, <1>5
  <2> DEFINE o == wire[1].of
             a == wire[1].at
             p == wire[n + 1].of
             b == wire[n + 1].at
             g == Heard'
             h == Heard
  <2>5. /\ Len(typed) \in Nat /\ n \in Nat /\ n >= 1
        /\ o \in 1..Len(typed) /\ a \in 1..3 /\ p \in 1..Len(typed) /\ b \in 1..3
        /\ o < p \/ (o = p /\ b = a + n)
        /\ h = IF a = 1 THEN o - 1 ELSE o
        /\ g = IF b = 1 THEN p - 1 ELSE p
    BY <1>2, <1>3, <1>6, <2>2, <2>3, <2>4
  <2> HIDE DEF o, a, p, b, g, h
  <2>6. /\ h \in 0..Len(typed) /\ g \in h..Len(typed)
        /\ a = 1 => o = h + 1 /\ g \in h + 1 .. Len(typed)
    BY <2>5, HeardNumbers
  <2> QED
    BY <2>6 DEF o, a, g, h
<1> QED
  BY <1>3, <1>4, <1>5

\* The bytes that are left stay in order.
LEMMA WiredTail ==
  ASSUME TypeOK, Wired, NEW n \in 1..Len(wire),
         wire' = SubSeq(wire, n + 1, Len(wire)), typed' = typed
  PROVE  wire' \in Seq(OnWire') /\ Wired'
<1>1. wire' \in Seq(OnWire) /\ Len(wire') = Len(wire) - n /\ OnWire' = OnWire
  <2>1. wire \in Seq(OnWire) /\ n \in Nat
    BY WireType DEF TypeOK
  <2>2. OnWire' = OnWire
    BY DEF OnWire
  <2> QED
    BY <2>1, <2>2
<1>2. \A i \in 1..Len(wire') : wire'[i] = wire[n + i] /\ n + i \in 1..Len(wire)
  <2>1. wire \in Seq(OnWire)
    BY DEF TypeOK
  <2>2. \A i \in 1..Len(wire) - n : wire'[i] = wire[n + i]
    BY <2>1, RestOf
  <2> QED
    BY <1>1, <2>2, WireType
<1>3. Wired'
  <2>1. \A i \in 1..Len(wire') : wire'[i].at <= Len(typed'[wire'[i].of])
    BY <1>2 DEF Wired
  <2>2. \A i, j \in 1..Len(wire') :
         i < j => \/ wire'[i].of < wire'[j].of
                  \/ (wire'[i].of = wire'[j].of /\ wire'[j].at = wire'[i].at + (j - i))
    <3>1. SUFFICES ASSUME NEW i \in 1..Len(wire'), NEW j \in 1..Len(wire'), i < j
                   PROVE  \/ wire'[i].of < wire'[j].of
                          \/ (wire'[i].of = wire'[j].of /\ wire'[j].at = wire'[i].at + (j - i))
      OBVIOUS
    <3>2. n + i < n + j /\ (n + j) - (n + i) = j - i
      BY <1>1, <3>1, WireType
    <3>3. /\ n + i \in 1..Len(wire) /\ wire'[i] = wire[n + i]
          /\ n + j \in 1..Len(wire) /\ wire'[j] = wire[n + j]
      BY <1>2, <3>1
    <3>4. \/ wire[n + i].of < wire[n + j].of
          \/ (wire[n + i].of = wire[n + j].of
                /\ wire[n + j].at = wire[n + i].at + ((n + j) - (n + i)))
      BY <3>2, <3>3 DEF Wired
    <3> QED
      BY <3>2, <3>3, <3>4
  <2>3. \A i \in 1..Len(wire') : i > 1 => wire'[i].at = 1 \/ wire'[i].of = wire'[i - 1].of
    <3>1. SUFFICES ASSUME NEW i \in 1..Len(wire'), i > 1
                   PROVE  wire[n + i].at = 1 \/ wire[n + i].of = wire[n + (i - 1)].of
      <4>1. \A i \in 1..Len(wire') : i > 1 => i - 1 \in 1..Len(wire')
        BY <1>1
      <4> QED
        BY <1>2, <4>1
    <3>2. n + i > 1 /\ (n + i) - 1 = n + (i - 1)
      BY <1>1, <3>1, WireType
    <3>3. n + i \in 1..Len(wire)
      BY <1>2, <3>1
    <3> QED
      BY <3>2, <3>3 DEF Wired
  <2> QED
    BY <2>1, <2>2, <2>3 DEF Wired
<1> QED
  BY <1>1, <1>3

\* A key is typed behind the others.
LEMMA WiredType ==
  ASSUME TypeOK, Wired, NEW k \in Keys, Type(k)
  PROVE  /\ typed' \in Seq(Keys) /\ Len(typed') = Len(typed) + 1
         /\ wire' \in Seq(OnWire') /\ Wired' /\ Heard' = Heard
<1> DEFINE new == [i \in 1..Len(k) |-> [of |-> Len(typed) + 1, at |-> i]]
<1>1. typed' = Append(typed, k) /\ wire' = wire \o new
  BY DEF Type
<1>2. /\ typed' \in Seq(Keys) /\ Len(typed') = Len(typed) + 1 /\ Len(typed) \in Nat
      /\ \A i \in 1..Len(typed) : typed'[i] = typed[i]
      /\ typed'[Len(typed) + 1] = k
  BY <1>1 DEF TypeOK
<1>3. Len(k) \in 1..3
  BY KeyBytes
<1>0. Len(typed) \in Nat /\ Len(typed') = Len(typed) + 1 /\ Len(wire) \in Nat
  BY <1>2, WireType
<1>4. /\ new \in Seq(OnWire') /\ Len(new) = Len(k)
      /\ \A i \in 1..Len(k) : new[i] = [of |-> Len(typed) + 1, at |-> i]
  <2>1. \A i \in 1..Len(k) : [of |-> Len(typed) + 1, at |-> i] \in OnWire'
    <3>1. SUFFICES ASSUME NEW i \in 1..Len(k)
                   PROVE  [of |-> Len(typed) + 1, at |-> i] \in OnWire'
      OBVIOUS
    <3>2. Len(typed) + 1 \in 1..Len(typed')
      BY <1>0
    <3>3. i \in 1..3
      BY KeyBytes
    <3> QED
      BY <3>2, <3>3 DEF OnWire
  <2> QED
    BY <1>3, <2>1
<1>5. wire \in Seq(OnWire')
  <2>1. \A i \in 1..Len(wire) : wire[i] \in OnWire'
    <3>1. \A i \in 1..Len(wire) : wire[i] \in OnWire
      BY DEF TypeOK
    <3> QED
      BY <1>2, <3>1 DEF OnWire
  <2> QED
    BY <2>1 DEF TypeOK
<1> HIDE DEF new
<1>6. /\ wire' \in Seq(OnWire') /\ Len(wire') = Len(wire) + Len(k)
      /\ \A i \in 1..Len(wire) : wire'[i] = wire[i] /\ wire[i].of \in 1..Len(typed)
      /\ \A i \in Len(wire) + 1 .. Len(wire') :
            wire'[i].of = Len(typed) + 1 /\ wire'[i].at = i - Len(wire)
  <2>0. new \in Seq(OnWire') /\ Len(new) = Len(k)
    BY <1>4
  <2>1. /\ wire' \in Seq(OnWire') /\ Len(wire') = Len(wire) + Len(k)
        /\ \A i \in 1..Len(wire) : wire'[i] = wire[i]
    <3> DEFINE S == OnWire'
    <3>1. wire \in Seq(S) /\ new \in Seq(S)
      BY <1>5, <2>0
    <3> HIDE DEF S
    <3>2. /\ wire \o new \in Seq(S) /\ Len(wire \o new) = Len(wire) + Len(new)
          /\ \A i \in 1..Len(wire) : (wire \o new)[i] = wire[i]
      BY <3>1, Joined
    <3> QED
      BY <1>1, <2>0, <3>2 DEF S
  <2>2. ASSUME NEW i \in Len(wire) + 1 .. Len(wire')
        PROVE  wire'[i].of = Len(typed) + 1 /\ wire'[i].at = i - Len(wire)
    <3>1. i - Len(wire) \in 1..Len(k) /\ i \in Len(wire) + 1 .. Len(wire) + Len(k)
      <4>1. Len(wire') = Len(wire) + Len(k)
        BY <2>1
      <4> QED
        BY <1>0, <1>3, <4>1
    <3>2. wire'[i] = new[i - Len(wire)]
      BY <1>1, <1>5, <2>0, <3>1
    <3>3. new[i - Len(wire)] = [of |-> Len(typed) + 1, at |-> i - Len(wire)]
      BY <1>4, <3>1
    <3> QED
      BY <3>2, <3>3
  <2>3. \A i \in 1..Len(wire) : wire[i].of \in 1..Len(typed)
    BY WireType
  <2> QED
    BY <2>1, <2>2, <2>3
<1>7. Len(wire) \in Nat /\ \A i \in 1..Len(wire) : wire[i].at \in 1..3
  BY WireType
<1>8. Wired'
  <2>0. \A i \in 1..Len(wire') : \/ i \in 1..Len(wire)
                               \/ i \in Len(wire) + 1 .. Len(wire')
    BY <1>7
  <2>1. ASSUME NEW i \in 1..Len(wire')
        PROVE  wire'[i].at <= Len(typed'[wire'[i].of])
    <3>1. CASE i \in 1..Len(wire)
      <4>1. wire'[i] = wire[i] /\ wire[i].of \in 1..Len(typed)
        BY <1>6, <3>1
      <4>2. typed'[wire[i].of] = typed[wire[i].of]
        BY <1>2, <4>1
      <4> QED
        BY <3>1, <4>1, <4>2 DEF Wired
    <3>2. CASE i \in Len(wire) + 1 .. Len(wire')
      <4>1. wire'[i].of = Len(typed) + 1 /\ wire'[i].at = i - Len(wire)
        BY <1>6, <3>2
      <4>2. typed'[wire'[i].of] = k
        BY <1>2, <4>1
      <4>3. Len(wire') = Len(wire) + Len(k) /\ Len(k) \in 1..3
        BY <1>3, <1>6
      <4> QED
        BY <1>0, <3>2, <4>1, <4>2, <4>3
    <3> QED
      BY <2>0, <3>1, <3>2
  <2>2. ASSUME NEW i \in 1..Len(wire'), NEW j \in 1..Len(wire'), i < j
        PROVE  \/ wire'[i].of < wire'[j].of
               \/ (wire'[i].of = wire'[j].of /\ wire'[j].at = wire'[i].at + (j - i))
    <3>1. CASE j \in 1..Len(wire)
      <4>1. i \in 1..Len(wire)
        BY <1>7, <2>2, <3>1
      <4>2. wire'[i] = wire[i] /\ wire'[j] = wire[j]
        BY <1>6, <3>1, <4>1
      <4> QED
        BY <2>2, <3>1, <4>1, <4>2 DEF Wired
    <3>2. CASE i \in 1..Len(wire) /\ j \in Len(wire) + 1 .. Len(wire')
      <4>1. wire'[i].of \in 1..Len(typed) /\ wire'[j].of = Len(typed) + 1
        BY <1>6, <3>2
      <4> QED
        BY <1>0, <4>1
    <3>3. CASE i \in Len(wire) + 1 .. Len(wire') /\ j \in Len(wire) + 1 .. Len(wire')
      <4>1. /\ wire'[i].of = Len(typed) + 1 /\ wire'[i].at = i - Len(wire)
            /\ wire'[j].of = Len(typed) + 1 /\ wire'[j].at = j - Len(wire)
        BY <1>6, <3>3
      <4> QED
        BY <1>0, <3>3, <4>1
    <3>4. i \in Len(wire) + 1 .. Len(wire') => j \in Len(wire) + 1 .. Len(wire')
      BY <1>0, <2>2
    <3> QED
      BY <2>0, <3>1, <3>2, <3>3, <3>4
  <2>3. ASSUME NEW i \in 1..Len(wire'), i > 1
        PROVE  wire'[i].at = 1 \/ wire'[i].of = wire'[i - 1].of
    <3>1. CASE i \in 1..Len(wire)
      <4>1. i - 1 \in 1..Len(wire)
        BY <1>7, <2>3, <3>1
      <4>2. wire'[i] = wire[i] /\ wire'[i - 1] = wire[i - 1]
        BY <1>6, <3>1, <4>1
      <4> QED
        BY <2>3, <3>1, <4>2 DEF Wired
    <3>2. CASE i = Len(wire) + 1
      BY <1>0, <1>6, <3>2
    <3>3. CASE i \in Len(wire) + 1 .. Len(wire') /\ i - 1 \in Len(wire) + 1 .. Len(wire')
      BY <1>6, <3>3
    <3>4. i \in Len(wire) + 1 .. Len(wire') => i = Len(wire) + 1 \/ i - 1 \in Len(wire) + 1 .. Len(wire')
      BY <1>0
    <3> QED
      BY <2>0, <3>1, <3>2, <3>3, <3>4
  <2> QED
    BY <2>1, <2>2, <2>3 DEF Wired
<1>9. Heard' = Heard
  <2>1. CASE wire = <<>>
    <3>1. Len(wire) = 0
      BY <2>1
    <3>2. Len(wire') = Len(k)
      BY <1>3, <1>6, <3>1
    <3>3. 1 \in Len(wire) + 1 .. Len(wire')
      BY <1>3, <3>1, <3>2
    <3>4. wire'[1].of = Len(typed) + 1 /\ wire'[1].at = 1
      BY <1>6, <3>1, <3>3
    <3>5. wire' # <<>>
      BY <1>3, <3>2
    <3> QED
      BY <1>0, <2>1, <3>4, <3>5 DEF Heard
  <2>2. CASE wire # <<>>
    <3>1. wire' # <<>> /\ wire'[1] = wire[1]
      BY <1>3, <1>6, <1>7, <2>2 DEF TypeOK
    <3> QED
      BY <2>2, <3>1 DEF Heard
  <2> QED
    BY <2>1, <2>2
<1> QED
  BY <1>2, <1>6, <1>8, <1>9

\* Both arrows stay among the three options.
LEMMA MovedType ==
  ASSUME NEW command, select \in 0..2
  PROVE  moved(command) \in 0..2
<1>1. CASE select = 0
  BY <1>1 DEF moved
<1>2. CASE select = 1
  BY <1>2 DEF moved
<1>3. CASE select = 2
  BY <1>3 DEF moved
<1> QED
  BY <1>1, <1>2, <1>3

\* What the server does with a message leaves it in the menu it goes to, or, if
\* the user is gone, down.
LEMMA SendsEither ==
  ASSUME NEW n, NEW m, NEW s, Sends(n, m, s)
  PROVE  \/ pc' = m /\ select' = s /\ reset' = (reset \/ user = "gone")
         \/ pc' = "down" /\ select' = select /\ reset' = reset /\ user = "gone"
  BY DEF Sends

\* It leaves reset a Boolean.
LEMMA SendsReset ==
  ASSUME NEW n, NEW m, NEW s, Sends(n, m, s), reset \in BOOLEAN
  PROVE  reset' \in BOOLEAN
  BY Zenon DEF Sends

\* Choosing an option, seen from the user.
LEMMA ChosenEither ==
  ASSUME TypeOK, pc \in {"main", "sub"}, Chosen
  PROVE  /\ \/ pc = "main" /\ select = 1 /\ pc' = "sub" /\ select' \in 0..1
            \/ pc = "main" /\ select = 2 /\ pc' = "bye" /\ select' = select
            \/ pc = "sub" /\ select = 2 /\ pc' = "main" /\ select' = 1
            \/ pc' = pc /\ select' = select
            \/ pc' = "down" /\ select' = select /\ user = "gone"
         /\ reset' \in BOOLEAN
<1> USE DEF TypeOK
<1>1. CASE pc = "main" /\ select = 1
  <2>1. Sends(7, "sub", IF program = "tien" THEN 0 ELSE 1)
    BY <1>1 DEF Chosen
  <2>2. reset' \in BOOLEAN
    BY <2>1, SendsReset
  <2> QED
    BY <1>1, <2>1, <2>2, SendsEither
<1>2. CASE pc = "main" /\ select = 2
  <2>1. CASE program = "tien"
    <3>1. Sends(4, "bye", select)
      BY <1>2, <2>1 DEF Chosen
    <3> QED
      BY <1>2, <3>1, SendsEither
  <2>2. CASE program # "tien"
    BY <1>2, <2>2 DEF Chosen
  <2> QED
    BY <2>1, <2>2
<1>3. CASE pc = "sub" /\ select = 2
  <2>1. Sends(7, "main", 1)
    BY <1>3 DEF Chosen
  <2>2. reset' \in BOOLEAN
    BY <2>1, SendsReset
  <2> QED
    BY <1>3, <2>1, <2>2, SendsEither
<1>4. CASE ~(pc = "main" /\ select = 1) /\ ~(pc = "main" /\ select = 2) /\ ~(pc = "sub" /\ select = 2)
  <2>1. Sends(IF program = "tien" THEN 1 ELSE 2, pc, select)
    BY <1>4 DEF Chosen
  <2> QED
    BY <1>4, <2>1, SendsEither
<1> QED
  BY <1>1, <1>2, <1>3, <1>4

\* One received piece, seen from the user: what it does is what the next key he
\* typed asks for, or nothing.
LEMMA ExecuteEither ==
  ASSUME TypeOK, Wired, execute
  PROVE  /\ Heard \in 0..Len(typed) /\ Heard' \in Heard..Len(typed)
         /\ reset' \in BOOLEAN
         /\ wire' \in Seq(OnWire') /\ Wired'
         /\ \/ pc' = pc /\ select' = select
            \/ pc' = "down" /\ select' = select /\ user = "gone"
            \/ /\ Heard' \in Heard + 1 .. Len(typed)
               /\ \/ /\ typed[Heard + 1] = Enter
                     /\ \/ pc = "main" /\ select = 1 /\ pc' = "sub" /\ select' \in 0..1
                        \/ pc = "main" /\ select = 2 /\ pc' = "bye" /\ select' = select
                        \/ pc = "sub" /\ select = 2 /\ pc' = "main" /\ select' = 1
                  \/ /\ pc' = pc /\ select' \in 0..2
                     /\ \/ typed[Heard + 1] = Up /\ select' = (select + 2) % 3
                        \/ typed[Heard + 1] = Down /\ select' = (select + 1) % 3
<1>1. PICK n \in 1..Len(wire) :
        /\ wire' = SubSeq(wire, n + 1, Len(wire))
        /\ LET command == recv_command([i \in 1..n |-> typed[wire[i].of][wire[i].at]]) IN
           CASE command = "ENTER"        -> Chosen
             [] command \in {"UP", "DOWN"} -> Sends(7, pc, moved(command))
             [] command = "NONE"         -> UNCHANGED <<pc, select, reset>>
  BY DEF execute
<1>0. typed' = typed /\ pc \in {"main", "sub"} /\ select \in 0..2 /\ reset \in BOOLEAN
  BY DEF execute, TypeOK
<1>2. /\ Heard \in 0..Len(typed) /\ Heard' \in Heard..Len(typed)
      /\ wire[1].at = 1 => wire[1].of = Heard + 1 /\ Heard' \in Heard + 1 .. Len(typed)
  BY <1>0, <1>1, HeardGoesOn
<1>3. wire' \in Seq(OnWire') /\ Wired'
  BY <1>0, <1>1, WiredTail
<1> DEFINE piece == [i \in 1..n |-> typed[wire[i].of][wire[i].at]]
           command == recv_command(piece)
<1>4. command \in Commands
  BY CommandType
<1>5. /\ command = "ENTER" => wire[1].at = 1 /\ typed[wire[1].of] = Enter
      /\ command = "UP" => wire[1].at = 1 /\ typed[wire[1].of] = Up
      /\ command = "DOWN" => wire[1].at = 1 /\ typed[wire[1].of] = Down
  BY CommandIsKey
<1>6. /\ command = "ENTER" => Chosen
      /\ command \in {"UP", "DOWN"} => Sends(7, pc, moved(command))
      /\ command = "NONE" => UNCHANGED <<pc, select, reset>>
  BY <1>1
<1> HIDE DEF command
<1>7. CASE command = "ENTER"
  <2>1. Chosen
    BY <1>6, <1>7
  <2>2. typed[Heard + 1] = Enter /\ Heard' \in Heard + 1 .. Len(typed)
    BY <1>2, <1>5, <1>7
  <2> QED
    BY <1>0, <1>2, <1>3, <2>1, <2>2, ChosenEither
<1>8. CASE command \in {"UP", "DOWN"}
  <2>1. Sends(7, pc, moved(command))
    BY <1>6, <1>8
  <2>2. moved(command) \in 0..2
    BY <1>0, MovedType
  <2>3. moved(command) = IF command = "UP" THEN (select + 2) % 3 ELSE (select + 1) % 3
    BY DEF moved
  <2>4. /\ typed[Heard + 1] = IF command = "UP" THEN Up ELSE Down
        /\ Heard' \in Heard + 1 .. Len(typed)
    BY <1>2, <1>5, <1>8
  <2>5. \/ pc' = pc /\ select' = moved(command) /\ reset' = (reset \/ user = "gone")
        \/ pc' = "down" /\ select' = select /\ reset' = reset /\ user = "gone"
    BY <2>1, SendsEither
  <2>6. reset' \in BOOLEAN
    BY <1>0, <2>5
  <2> QED
    BY <1>2, <1>3, <1>8, <2>2, <2>3, <2>4, <2>5, <2>6
<1>9. CASE command = "NONE"
  BY <1>0, <1>2, <1>3, <1>6, <1>9
<1> QED
  BY <1>4, <1>7, <1>8, <1>9 DEF Commands

-----------------------------------------------------------------------------
(* The invariant *)

\* An empty connection has nothing on its way.
LEMMA NothingWired ==
  ASSUME typed' = <<>>, wire' = <<>>
  PROVE  Wired' /\ wire' \in Seq(OnWire') /\ typed' \in Seq(Keys)
         /\ Len(typed') = 0
  BY DEF Wired

\* The servers start with the invariant.
LEMMA InitIInv == Init => IInv
<1> SUFFICES ASSUME Init PROVE IInv
  OBVIOUS
<1>1. reset \in BOOLEAN
  BY DEF Init
<1>2. typed \in Seq(Keys) /\ Len(typed) = 0 /\ wire \in Seq(OnWire)
  BY DEF Init
<1>3. Wired
  BY DEF Init, Wired
<1> QED
  BY <1>1, <1>2, <1>3, ConstantsAssumption DEF Init, IInv, Users, TypeOK

\* Nothing is typed or received.
LEMMA SameKeys ==
  ASSUME Wired, UNCHANGED <<typed, wire>>
  PROVE  Wired' /\ OnWire' = OnWire
  BY DEF Wired, OnWire

\* Every step keeps it.
LEMMA NextIInv == ASSUME IInv, [Next]_vars PROVE IInv'
<1> USE ConstantsAssumption DEF IInv
<1>1. CASE Connect
  <2>1. Wired' /\ OnWire' = OnWire
    BY <1>1, SameKeys DEF Connect
  <2> QED
    BY <1>1, <2>1 DEF Connect, TypeOK, Users
<1>2. ASSUME NEW k \in Keys, Type(k) PROVE IInv'
  <2>1. /\ typed' \in Seq(Keys) /\ Len(typed') = Len(typed) + 1
        /\ wire' \in Seq(OnWire') /\ Wired'
    BY <1>2, WiredType
  <2>2. Len(typed') <= MaxKeys
    BY <1>2, <2>1 DEF Type, TypeOK
  <2> QED
    BY <1>2, <2>1, <2>2 DEF Type, TypeOK, Users
<1>3. CASE Leave
  <2>1. Wired' /\ OnWire' = OnWire
    BY <1>3, SameKeys DEF Leave
  <2> QED
    BY <1>3, <2>1 DEF Leave, TypeOK, Users
<1>4. CASE Accept
  <2>1. /\ wire' \in Seq(OnWire') /\ typed' \in Seq(Keys)
        /\ Len(typed') = 0 /\ Wired'
    BY <1>4, NothingWired DEF Accept
  <2>2. reset' \in BOOLEAN
    BY <1>4 DEF Accept
  <2> QED
    BY <1>4, <2>1, <2>2 DEF Accept, TypeOK, Users
<1>5. CASE Greet
  <2>1. pc' \in {"main", "down"} /\ select' \in 0..2
    BY <1>5, SendsEither DEF Greet, TypeOK
  <2>2. reset' \in BOOLEAN
    BY <1>5, SendsEither DEF Greet, TypeOK
  <2>3. Wired' /\ OnWire' = OnWire
    BY <1>5, SameKeys DEF Greet, userVars
  <2> QED
    BY <1>5, <2>1, <2>2, <2>3 DEF Greet, userVars, TypeOK, Users
<1>6. CASE execute
  <2>1. UNCHANGED <<program, waiting, later, user, typed>> /\ pc \in {"main", "sub"}
    BY <1>6 DEF execute
  <2>2. pc' \in {"main", "sub", "bye", "down"} /\ select' \in 0..2
    BY <1>6, <2>1, ExecuteEither DEF TypeOK
  <2>3. reset' \in BOOLEAN /\ wire' \in Seq(OnWire') /\ Wired'
    BY <1>6, ExecuteEither
  <2> QED
    BY <2>1, <2>2, <2>3 DEF TypeOK, Users
<1>7. CASE EndOfStream
  <2>3. Wired' /\ OnWire' = OnWire
    BY <1>7, SameKeys DEF EndOfStream, userVars
  <2>1. CASE program = "tien" /\ pc = "sub" /\ Sends(3, "main", 1)
    <3>1. pc' \in {"main", "down"} /\ select' \in 0..2
      BY <2>1, SendsEither DEF TypeOK
    <3>2. reset' \in BOOLEAN
      BY <2>1, SendsEither DEF TypeOK
    <3> QED
      BY <1>7, <2>3, <3>1, <3>2 DEF EndOfStream, TypeOK, Users, userVars
  <2>2. CASE pc' \in {"bye", "down"} /\ UNCHANGED <<select, reset>>
    BY <1>7, <2>2, <2>3 DEF EndOfStream, TypeOK, Users, userVars
  <2> QED
    BY <1>7, <2>1, <2>2 DEF EndOfStream
<1>8. CASE Bye
  <2>1. pc' \in {"accept", "down"} /\ select' \in 0..2
    BY <1>8, SendsEither DEF Bye, TypeOK
  <2>2. reset' \in BOOLEAN
    BY <1>8, SendsEither DEF Bye, TypeOK
  <2>3. /\ wire' \in Seq(OnWire') /\ typed' \in Seq(Keys)
        /\ Len(typed') = 0 /\ Wired'
    BY <1>8, NothingWired DEF Bye
  <2> QED
    BY <1>8, <2>1, <2>2, <2>3 DEF Bye, TypeOK, Users
<1>9. CASE UNCHANGED vars
  <2>1. Wired' /\ OnWire' = OnWire
    BY <1>9, SameKeys DEF vars, userVars
  <2> QED
    BY <1>9, <2>1 DEF vars, userVars, TypeOK, Users
<1> QED
  BY <1>1, <1>2, <1>3, <1>4, <1>5, <1>6, <1>7, <1>8, <1>9 DEF Next, Server

\* IInv is an inductive invariant.
THEOREM TelnetServerInv == Spec => []IInv
  BY InitIInv, NextIInv, PTL DEF Spec

\* Every variable keeps its type.
THEOREM TelnetServerTypeOK == Spec => []TypeOK
  BY TelnetServerInv, PTL DEF IInv

-----------------------------------------------------------------------------
(* The refinement *)

\* A piece that is received implements an answer to the next key, or nothing.
LEMMA ExecuteImplements ==
  ASSUME IInv, execute PROVE [Menu!Next]_(Menu!menuVars)
<1> USE DEF IInv
<1>0. /\ user' = user /\ typed' = typed /\ pc \in {"main", "sub"}
      /\ Len(typed) \in Nat /\ select \in 0..2
  BY DEF execute, TypeOK
<1>1. CASE user # "here"
  <2>1. user = "none" \/ user = "gone"
    BY <1>1 DEF TypeOK
  <2>2. pc' \in {"main", "sub", "bye", "down"}
    BY <1>0, ExecuteEither
  <2>3. CASE pc' # "down"
    BY <1>0, <1>1, <2>1, <2>2, <2>3 DEF Served, Menu!menuVars
  <2>4. CASE pc' = "down"
    BY <1>0, <1>1, <2>4, ExecuteEither DEF Served, Menu!Next, Menu!Fail, Menu!Blank
  <2> QED
    BY <2>3, <2>4
<1>2. CASE user = "here"
  <2>1. Served /\ Heard \in 0..Len(typed) /\ Heard' \in Heard..Len(typed)
    BY <1>0, <1>2, ExecuteEither DEF Served
  <2>2. CASE pc' = pc /\ select' = select
    <3>1. CASE Heard' = Heard
      BY <1>0, <1>2, <2>1, <2>2, <3>1 DEF Served, Menu!menuVars
    <3>2. CASE Heard' # Heard
      <4>1. Heard < Len(typed) /\ Heard' \in Heard + 1 .. Len(typed)
        BY <1>0, <2>1, <3>2
      <4>2. Menu!Stay
        BY <1>0, <1>2, <2>1, <2>2, <4>1 DEF Served, Menu!Stay, Menu!Passes
      <4> QED
        BY <1>0, <1>2, <2>1, <4>1, <4>2 DEF Menu!Next, Menu!Answer, Served
    <3> QED
      BY <3>1, <3>2
  <2>3. ASSUME Heard' \in Heard + 1 .. Len(typed)
        PROVE  Heard < Len(typed)
    BY <1>0, <2>1, <2>3
  <2>4. ASSUME Heard' \in Heard + 1 .. Len(typed), typed[Heard + 1] = Enter,
               pc = "main" /\ select = 1 /\ pc' = "sub" /\ select' \in 0..1
        PROVE  Menu!Next
    <3>1. Menu!Submenu
      BY <1>0, <1>2, <2>1, <2>4 DEF Served, Menu!Submenu, Menu!Passes, Menu!NextKey
    <3> QED
      BY <1>0, <1>2, <2>1, <2>3, <2>4, <3>1 DEF Menu!Next, Menu!Answer, Served
  <2>5. ASSUME Heard' \in Heard + 1 .. Len(typed), typed[Heard + 1] = Enter,
               pc = "main" /\ select = 2 /\ pc' = "bye"
        PROVE  Menu!Next
    <3>1. Menu!Quit
      BY <1>0, <1>2, <2>1, <2>5 DEF Served, Menu!Quit, Menu!Blank, Menu!NextKey
    <3> QED
      BY <1>0, <1>2, <2>1, <2>3, <2>5, <3>1 DEF Menu!Next, Menu!Answer, Served
  <2>6. ASSUME Heard' \in Heard + 1 .. Len(typed), typed[Heard + 1] = Enter,
               pc = "sub" /\ select = 2 /\ pc' = "main" /\ select' = 1
        PROVE  Menu!Next
    <3>1. Menu!Back
      BY <1>0, <1>2, <2>1, <2>6 DEF Served, Menu!Back, Menu!Passes, Menu!NextKey
    <3> QED
      BY <1>0, <1>2, <2>1, <2>3, <2>6, <3>1 DEF Menu!Next, Menu!Answer, Served
  <2>7. ASSUME Heard' \in Heard + 1 .. Len(typed), pc' = pc,
               \/ typed[Heard + 1] = Up /\ select' = (select + 2) % 3
               \/ typed[Heard + 1] = Down /\ select' = (select + 1) % 3
        PROVE  Menu!Next
    <3>1. Menu!Move
      BY <1>0, <1>2, <2>1, <2>7 DEF Served, Menu!Move, Menu!Passes, Menu!NextKey
    <3> QED
      BY <1>0, <1>2, <2>1, <2>3, <2>7, <3>1 DEF Menu!Next, Menu!Answer, Served
  <2> QED
    BY <1>2, <2>2, <2>4, <2>5, <2>6, <2>7, ExecuteEither
<1> QED
  BY <1>1, <1>2

\* A step of a server implements a step of the menu, or shows nothing.
LEMMA StepImplements == ASSUME IInv, [Next]_vars PROVE [Menu!Next]_(Menu!menuVars)
<1> USE DEF IInv, Menu!Next, Menu!menuVars, Served
<1>1. CASE Connect
  BY <1>1 DEF Connect, Heard
<1>2. ASSUME NEW k \in Keys, Type(k) PROVE [Menu!Next]_(Menu!menuVars)
  <2>1. Heard' = Heard
    BY <1>2, WiredType
  <2>2. UNCHANGED <<user, pc, select>> /\ typed' = Append(typed, k)
    BY <1>2 DEF Type
  <2>3. CASE Served
    <3>1. Menu!Type(k)
      BY <2>1, <2>2, <2>3 DEF Menu!Type
    <3> QED
      BY <3>1
  <2>4. CASE ~Served
    BY <2>1, <2>2, <2>4
  <2> QED
    BY <2>3, <2>4
<1>3. CASE Leave
  <2>1. user = "here" /\ user' = "gone" /\ UNCHANGED <<pc, select>>
    BY <1>3 DEF Leave
  <2>2. CASE pc \in {"greet", "main", "sub", "bye"}
    BY <2>1, <2>2 DEF Menu!HangUp, Menu!Blank
  <2>3. CASE pc \notin {"greet", "main", "sub", "bye"}
    BY <2>1, <2>3 DEF TypeOK
  <2> QED
    BY <2>2, <2>3
<1>4. CASE Accept
  <2>1. Heard' = 0
    <3>1. wire' = <<>> /\ typed' = <<>>
      BY <1>4 DEF Accept
    <3> QED
      BY <3>1 DEF Heard
  <2> QED
    BY <1>4, <2>1 DEF Accept, Menu!Serve, Menu!Blank
<1>5. CASE Greet
  <2>1. Heard' = Heard /\ UNCHANGED <<user, typed>> /\ pc = "greet"
    BY <1>5 DEF Greet, userVars, Heard
  <2>2. \/ pc' = "main" /\ select' = select
        \/ pc' = "down" /\ user = "gone"
    BY <1>5, SendsEither DEF Greet
  <2> QED
    BY <2>1, <2>2 DEF Menu!Fail, Menu!Blank
<1>6. CASE execute
  BY <1>6, ExecuteImplements
<1>7. CASE EndOfStream
  <2>1. user = "gone" /\ user' = "gone" /\ pc \in {"main", "sub"}
    BY <1>7 DEF EndOfStream, userVars
  <2>2. pc' \in {"main", "bye", "down"}
    BY <1>7, SendsEither DEF EndOfStream
  <2> QED
    BY <2>1, <2>2 DEF Menu!Fail, Menu!Blank
<1>8. CASE Bye
  <2>1. pc = "bye" /\ user' = "none" /\ user \in {"none", "here", "gone"}
    BY <1>8 DEF Bye, TypeOK
  <2>2. \/ pc' = "accept"
        \/ pc' = "down" /\ user = "gone"
    BY <1>8, SendsEither DEF Bye
  <2> QED
    BY <2>1, <2>2 DEF Menu!Close, Menu!Fail, Menu!Blank
<1>9. CASE UNCHANGED vars
  BY <1>9 DEF vars, userVars, Heard
<1> QED
  BY <1>1, <1>2, <1>3, <1>4, <1>5, <1>6, <1>7, <1>8, <1>9 DEF Next, Server

\* Both programs do what the exercise asks: for every number of users and keys,
\* and however the bytes are cut and joined, the menu obeys the keys that were
\* typed, each at most once and in order, and only a user who hung up before his
\* connection was closed takes the server down.
THEOREM TelnetServerImplementsMenu == Spec => ImplementsMenu
<1>1. Init => Menu!Init
  BY DEF Init, Menu!Init, Served
<1> QED
  BY <1>1, StepImplements, TelnetServerInv, PTL DEF Spec, ImplementsMenu, Menu!Spec

=============================================================================
