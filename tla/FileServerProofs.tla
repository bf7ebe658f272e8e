-------------------------- MODULE FileServerProofs --------------------------
(***************************************************************************)
(* Theorems about FileServer, for any clients, names, files and numbers of *)
(* slots.                                                                  *)
(*                                                                         *)
(* Types: a read that leaves something for the name leaves the beginning   *)
(* of a name, and the offset stays within the file that is open, so that   *)
(* what is written leaves no gap.  Slots: what is read and written does    *)
(* not matter to them.  Streams: what a slot has read of a client is the   *)
(* beginning of what it sends, and what is on its way follows.             *)
(***************************************************************************)
EXTENDS FileServer, SequenceTheorems, TLAPS

-----------------------------------------------------------------------------
(* Slots *)

Used(i) == clients[i].ev # "none"

\* SlotsAccounted does not need the server to live to be inductive, except that
\* nothing it does counts afterwards.
IInv ==
  /\ DOMAIN conn = Clients /\ DOMAIN clients = Slots
  /\ \A i \in Slots : Used(i) => clients[i].client \in Clients /\ conn[clients[i].client] = "open"
  /\ \A c \in Clients : conn[c] = "open" => \E i \in Slots : Used(i) /\ clients[i].client = c
  /\ \A i, j \in Slots : Used(i) /\ Used(j) /\ clients[i].client = clients[j].client => i = j

\* No client has a slot at the start.
LEMMA InitIInv == Init => IInv
  BY DEF Init, IInv, Used, Free

\* Clients come and go without touching slots.
LEMMA ClientStep ==
  ASSUME IInv, NEW c \in Clients,
         Connect(c) \/ stdin_cb(c) \/ GivesUp(c) \/ read_file(c) \/ Exit(c),
         client_pc[c] = "new" => conn[c] = "none"
  PROVE  IInv'
<1>1. CASE Connect(c)
  <2>1. conn' = [conn EXCEPT ![c] = "queued"] /\ clients' = clients /\ conn[c] = "none"
    BY <1>1 DEF Connect, serverVars
  <2> QED
    BY <2>1 DEF IInv, Used
<1>2. CASE stdin_cb(c) \/ GivesUp(c) \/ read_file(c) \/ Exit(c)
  <2>1. conn' = conn /\ clients' = clients
    BY <1>2 DEF stdin_cb, GivesUp, read_file, Exit, serverVars, netVars
  <2> QED
    BY <2>1 DEF IInv, Used
<1> QED
  BY <1>1, <1>2

\* A new connection is refused, or takes a slot that was free.
LEMMA ListenerStep ==
  ASSUME IInv, NEW c \in Clients, listener_socket_cb(c)
  PROVE  IInv'
<1>1. CASE conn' = [conn EXCEPT ![c] = "closed"] /\ clients' = clients
  BY <1>1 DEF IInv, Used, listener_socket_cb
<1>2. ASSUME NEW i \in FreeSlots,
             conn' = [conn EXCEPT ![c] = "open"],
             clients' = [clients EXCEPT ![i] =
               [ev |-> "read_filename", client |-> c, filename |-> NoFile]]
      PROVE  IInv'
  <2>1. i \in Slots /\ ~Used(i) /\ conn[c] = "queued"
    BY <1>2 DEF FreeSlots, Used, listener_socket_cb
  <2>2. /\ DOMAIN clients' = Slots /\ DOMAIN conn' = Clients
        /\ clients'[i].ev = "read_filename" /\ clients'[i].client = c
        /\ \A j \in Slots \ {i} : clients'[j] = clients[j]
        /\ conn'[c] = "open" /\ \A d \in Clients \ {c} : conn'[d] = conn[d]
    BY <1>2, <2>1 DEF IInv
  <2>3. \A j \in Slots : Used(j) => clients[j].client # c
    BY <2>1 DEF IInv
  <2> QED
    BY <2>1, <2>2, <2>3 DEF IInv, Used
<1> QED
  BY <1>1, <1>2 DEF listener_socket_cb

\* A connection that ends gives its slot back; the others keep theirs.
LEMMA SlotStep ==
  ASSUME IInv, NEW i \in Slots,
         read_filename(i) \/ FilenameEnds(i) \/ client_socket_cb(i)
           \/ SocketEnds(i) \/ FileFails(i)
  PROVE  IInv'
<1> DEFINE c == clients[i].client
<1>1. CASE read_filename(i)
  <2>1. PICK name : clients' = [clients EXCEPT ![i] =
                      [ev |-> "client_socket_cb", client |-> c, filename |-> name]]
    BY <1>1 DEF read_filename
  <2>2. conn' = conn /\ Used(i)
    BY <1>1 DEF read_filename, Used
  <2>3. /\ DOMAIN clients' = Slots
        /\ clients'[i].ev = "client_socket_cb" /\ clients'[i].client = clients[i].client
        /\ \A j \in Slots \ {i} : clients'[j] = clients[j]
    BY <2>1 DEF IInv
  <2> QED
    BY <2>2, <2>3 DEF IInv, Used
<1>2. CASE FilenameEnds(i)
  <2>1. /\ clients' = [clients EXCEPT ![i] = Free]
        /\ conn' = [conn EXCEPT ![c] = "closed"] /\ Used(i)
    BY <1>2 DEF FilenameEnds, Used
  <2>2. /\ DOMAIN clients' = Slots /\ DOMAIN conn' = Clients
        /\ clients'[i].ev = "none" /\ c \in Clients
        /\ \A j \in Slots \ {i} : clients'[j] = clients[j]
        /\ conn'[c] = "closed" /\ \A d \in Clients \ {c} : conn'[d] = conn[d]
    BY <2>1 DEF IInv, Free
  <2>3. \A j \in Slots \ {i} : Used(j) => clients[j].client # c
    BY <2>1 DEF IInv
  <2> QED
    BY <2>1, <2>2, <2>3 DEF IInv, Used
<1>3. CASE client_socket_cb(i) \/ SocketEnds(i) \/ FileFails(i)
  <2>1. conn' = conn /\ clients' = clients
    BY <1>3 DEF client_socket_cb, SocketEnds, FileFails, netVars
  <2> QED
    BY <2>1 DEF IInv, Used
<1> QED
  BY <1>1, <1>2, <1>3

\* Who has not connected yet has no connection.
NewIsNone == /\ DOMAIN conn = Clients /\ DOMAIN client_pc = Clients
             /\ \A c \in Clients : client_pc[c] = "new" => conn[c] = "none"

LEMMA SlotsInv == Spec => [](NewIsNone /\ IInv)
<1>1. Init => NewIsNone
  BY DEF Init, NewIsNone
<1>2. ASSUME NewIsNone, IInv, [Next]_vars PROVE NewIsNone'
  <2> USE <1>2 DEF NewIsNone
  <2>1. ASSUME NEW c \in Clients,
               Connect(c) \/ stdin_cb(c) \/ GivesUp(c) \/ read_file(c) \/ Exit(c)
        PROVE  NewIsNone'
    BY <2>1 DEF Connect, stdin_cb, GivesUp, read_file, Exit, netVars
  <2>2. ASSUME NEW c \in Clients, listener_socket_cb(c) PROVE NewIsNone'
    <3>1. conn[c] = "queued" /\ client_pc' = client_pc
      BY <2>2 DEF listener_socket_cb, clientVars
    <3>2. conn' = [conn EXCEPT ![c] = "open"] \/ conn' = [conn EXCEPT ![c] = "closed"]
      BY <2>2 DEF listener_socket_cb
    <3> QED
      BY <3>1, <3>2
  <2>3. ASSUME NEW i \in Slots, FilenameEnds(i) PROVE NewIsNone'
    <3>1. /\ conn' = [conn EXCEPT ![clients[i].client] = "closed"] /\ client_pc' = client_pc
          /\ clients[i].client \in Clients /\ conn[clients[i].client] = "open"
      BY <2>3 DEF FilenameEnds, clientVars, IInv, Used
    <3> QED
      BY <3>1
  <2>4. ASSUME NEW i \in Slots,
               read_filename(i) \/ client_socket_cb(i) \/ SocketEnds(i) \/ FileFails(i)
        PROVE  NewIsNone'
    BY <2>4 DEF read_filename, client_socket_cb, SocketEnds, FileFails, clientVars, netVars
  <2>5. CASE UNCHANGED vars
    BY <2>5 DEF vars, netVars, clientVars
  <2> QED
    BY <2>1, <2>2, <2>3, <2>4, <2>5 DEF Next
<1>3. ASSUME NewIsNone, IInv, [Next]_vars PROVE IInv'
  <2>1. ASSUME NEW c \in Clients,
               Connect(c) \/ stdin_cb(c) \/ GivesUp(c) \/ read_file(c) \/ Exit(c)
        PROVE  IInv'
    BY <1>3, <2>1, ClientStep DEF NewIsNone
  <2>2. CASE UNCHANGED vars
    BY <1>3, <2>2 DEF vars, netVars, IInv, Used
  <2> QED
    BY <1>3, <2>1, <2>2, ListenerStep, SlotStep DEF Next
<1> QED
  BY InitIInv, <1>1, <1>2, <1>3, PTL DEF Spec

\* Slots neither leak nor are shared, for any number of clients and slots.
THEOREM FileServerSlotsAccounted == Spec => []SlotsAccounted
<1>1. IInv => SlotsAccounted
  BY DEF IInv, SlotsAccounted, FreeSlots, Used
<1> QED
  BY SlotsInv, <1>1, PTL

-----------------------------------------------------------------------------
(* Types *)

\* The file that is open, and a place within it.
Opened ==
  /\ \A i \in Slots : clients[i].ev = "client_socket_cb" => filedesc \in FileNames
  /\ filedesc \in FileNames => offset <= Len(files[filedesc])

\* A part of a sequence of tokens that lies within it, or nothing.
LEMMA PartOf ==
  ASSUME NEW s \in Seq(Token), NEW m \in Nat \ {0}, NEW n \in Nat, n <= Len(s)
  PROVE  /\ SubSeq(s, m, n) \in Seq(Token)
         /\ Len(SubSeq(s, m, n)) = IF m <= n THEN n - m + 1 ELSE 0
<1>1. \A i \in m..n : s[i] \in Token
  <2>1. s \in [1..Len(s) -> Token] /\ Len(s) \in Nat
    BY LenProperties
  <2> QED
    BY <2>1
<1> QED
  BY <1>1, SubSeqProperties

\* write() within a file leaves a file that reaches beyond what was written.
LEMMA WrittenType ==
  ASSUME NEW content \in Seq(Token), NEW data \in Seq(Token),
         NEW at \in Nat, at <= Len(content)
  PROVE  /\ Written(content, at, data) \in Seq(Token)
         /\ at + Len(data) <= Len(Written(content, at, data))
<1> DEFINE before == SubSeq(content, 1, at)
           after  == SubSeq(content, at + Len(data) + 1, Len(content))
<1>1. Len(content) \in Nat /\ Len(data) \in Nat
  BY LenProperties
<1>2. before \in Seq(Token) /\ Len(before) = at
  <2>1. Len(before) = IF 1 <= at THEN at - 1 + 1 ELSE 0
    BY PartOf
  <2>2. before \in Seq(Token)
    BY PartOf
  <2> QED
    BY <2>1, <2>2
<1>3. after \in Seq(Token) /\ Len(after) \in Nat
  <2>1. at + Len(data) + 1 \in Nat \ {0}
    BY <1>1
  <2>2. after \in Seq(Token)
    BY <1>1, <2>1, PartOf
  <2> QED
    BY <2>2, LenProperties
<1> HIDE DEF before, after
<1>4. before \o data \in Seq(Token) /\ Len(before \o data) = at + Len(data)
  BY <1>2, ConcatProperties
<1>5. /\ (before \o data) \o after \in Seq(Token)
      /\ Len((before \o data) \o after) = at + Len(data) + Len(after)
  <2> DEFINE head == before \o data
  <2>1. head \in Seq(Token) /\ Len(head) = at + Len(data)
    BY <1>4
  <2> HIDE DEF head
  <2>2. head \o after \in Seq(Token) /\ Len(head \o after) = Len(head) + Len(after)
    BY <1>3, <2>1, ConcatProperties
  <2>3. Len(head \o after) = at + Len(data) + Len(after)
    BY <2>1, <2>2
  <2> QED
    BY <2>2, <2>3 DEF head
<1>6. Written(content, at, data) = (before \o data) \o after
  BY DEF Written, before, after
<1> QED
  BY <1>1, <1>3, <1>5, <1>6

\* A write within a file keeps the offset within it, however much it takes.
LEMMA WritesTypes ==
  ASSUME TypeOK, NEW STATE f, NEW STATE at, NEW STATE data,
         f \in FileNames, at \in Nat, data \in Seq(Token),
         at <= Len(files[f]), Writes(f, at, data)
  PROVE  /\ files' \in [FileNames -> Seq(Token)] /\ lost' \subseteq Token
         /\ offset' \in Nat /\ offset' <= Len(files'[f])
<1>1. PICK n \in 0..Len(data) :
        /\ files' = [files EXCEPT ![f] = Written(files[f], at, SubSeq(data, 1, n))]
        /\ offset' = at + n
        /\ lost' = lost \union {data[x] : x \in n + 1 .. Len(data)}
  BY DEF Writes
<1>2. Len(data) \in Nat /\ n \in Nat /\ n <= Len(data)
  BY LenProperties
<1> DEFINE taken == SubSeq(data, 1, n)
<1>3. taken \in Seq(Token) /\ Len(taken) = n
  <2>1. taken \in Seq(Token) /\ Len(taken) = IF 1 <= n THEN n - 1 + 1 ELSE 0
    BY <1>2, PartOf
  <2> QED
    BY <1>2, <2>1
<1> HIDE DEF taken
<1>4. files[f] \in Seq(Token)
  BY DEF TypeOK
<1>5. /\ Written(files[f], at, taken) \in Seq(Token)
      /\ at + n <= Len(Written(files[f], at, taken))
  BY <1>3, <1>4, WrittenType
<1>6. files' \in [FileNames -> Seq(Token)] /\ files'[f] = Written(files[f], at, taken)
  BY <1>1, <1>5 DEF TypeOK, taken
<1>7. lost' \subseteq Token
  <2>1. data \in [1..Len(data) -> Token]
    BY LenProperties
  <2>2. \A x \in n + 1 .. Len(data) : data[x] \in Token
    BY <1>2, <2>1
  <2> QED
    BY <1>1, <2>2 DEF TypeOK
<1> QED
  BY <1>1, <1>2, <1>5, <1>6, <1>7

\* The name a client sends, and its beginnings.
LEMMA NameFacts ==
  ASSUME ConstantsAssumption, NEW c \in Clients, NEW t \in Pieces(c)
  PROVE  /\ NameAfter(c, t) \in Seq(STRING) /\ Len(NameAfter(c, t)) \in Nat \ {0}
         /\ \A k \in 1..Len(NameAfter(c, t)) : SubSeq(NameAfter(c, t), 1, k) \in FileNames
<1>1. Name[c] \in Seq(STRING) /\ Name[c] # <<>> /\ Typed[c] \in Seq(STRING)
  BY DEF ConstantsAssumption
<1>2. t \in Nat /\ t <= Len(Typed[c]) /\ Len(Typed[c]) \in Nat
  BY <1>1, LenProperties DEF Pieces
<1>3. SubSeq(Typed[c], 1, t) \in Seq(STRING)
  <2>1. Typed[c] \in [1..Len(Typed[c]) -> STRING]
    BY <1>1, LenProperties
  <2>2. \A i \in 1..t : Typed[c][i] \in STRING
    BY <1>2, <2>1
  <2> QED
    BY <1>2, <2>2, SubSeqProperties
<1>4. /\ NameAfter(c, t) \in Seq(STRING)
      /\ Len(NameAfter(c, t)) = Len(SubSeq(Typed[c], 1, t)) + Len(Name[c])
  BY <1>1, <1>3, ConcatProperties DEF NameAfter
<1>5. Len(Name[c]) \in Nat /\ Len(Name[c]) # 0
  BY <1>1, EmptySeq, LenProperties
<1>6. Len(SubSeq(Typed[c], 1, t)) \in Nat
  BY <1>3, LenProperties
<1>7. \A k \in 1..Len(NameAfter(c, t)) : SubSeq(NameAfter(c, t), 1, k) \in FileNames
  BY DEF FileNames
<1>8. Len(NameAfter(c, t)) \in Nat \ {0}
  <2>1. \A m, n \in Nat : n # 0 => m + n \in Nat \ {0}
    OBVIOUS
  <2> QED
    BY <1>4, <1>5, <1>6, <2>1
<1> QED
  BY <1>4, <1>7, <1>8

\* A file's name is a sequence of pieces.
LEMMA FileNamesType ==
  ASSUME ConstantsAssumption, NEW f \in FileNames
  PROVE  f \in Seq(STRING) /\ Len(f) \in Nat
<1>1. PICK c \in Clients : \E t \in Pieces(c) : \E k \in 1..Len(NameAfter(c, t)) :
        f = SubSeq(NameAfter(c, t), 1, k)
  BY DEF FileNames
<1>2. PICK t \in Pieces(c) : \E k \in 1..Len(NameAfter(c, t)) :
        f = SubSeq(NameAfter(c, t), 1, k)
  BY <1>1
<1> DEFINE whole == NameAfter(c, t)
<1>3. whole \in Seq(STRING) /\ Len(whole) \in Nat \ {0}
  BY NameFacts
<1>4. PICK k \in 1..Len(whole) : f = SubSeq(whole, 1, k)
  BY <1>2
<1> HIDE DEF whole
<1>5. \A x \in 1..k : whole[x] \in STRING
  <2>1. whole \in [1..Len(whole) -> STRING]
    BY <1>3, LenProperties
  <2> QED
    BY <1>3, <2>1
<1>6. SubSeq(whole, 1, k) \in Seq(STRING)
  BY <1>3, <1>5, SubSeqProperties
<1> QED
  BY <1>4, <1>6, LenProperties

\* What a client sends is a sequence of tokens, whatever its user has typed.
LEMMA SentAfter ==
  ASSUME ConstantsAssumption, NEW c \in Clients, NEW t \in Pieces(c)
  PROVE  [i \in 1..Len(NameAfter(c, t)) |-> [from |-> c, name |-> i, block |-> 0]]
           \o [i \in 1..Blocks + 1 |-> [from |-> c, name |-> 0, block |-> i - 1]] \in Seq(Token)
<1> DEFINE ofName == [i \in 1..Len(NameAfter(c, t)) |-> [from |-> c, name |-> i, block |-> 0]]
           ofFile == [i \in 1..Blocks + 1 |-> [from |-> c, name |-> 0, block |-> i - 1]]
<1>2. Len(NameAfter(c, t)) \in Nat
  BY NameFacts
<1>3. ofName \in Seq(Token)
  BY <1>2 DEF Token
<1>4. ofFile \in Seq(Token)
  BY DEF Token, ConstantsAssumption
<1> HIDE DEF ofName, ofFile
<1>5. ofName \o ofFile \in Seq(Token)
  BY <1>3, <1>4, ConcatProperties
<1> QED
  BY <1>5 DEF ofName, ofFile

LEMMA SentType ==
  ASSUME ConstantsAssumption, TypeOK, NEW c \in Clients
  PROVE  Sent(c) \in Seq(Token)
<1>1. typed[c] \in Pieces(c)
  BY DEF TypeOK
<1> QED
  BY <1>1, SentAfter DEF Sent, sent_name

\* The steps of a client.
LEMMA ClientTypes ==
  ASSUME ConstantsAssumption, TypeOK, Opened, NEW c \in Clients,
         Connect(c) \/ stdin_cb(c) \/ GivesUp(c) \/ read_file(c) \/ Exit(c)
  PROVE  TypeOK' /\ Opened'
<1>1. UNCHANGED serverVars
  BY DEF Connect, stdin_cb, GivesUp, read_file, Exit
<1>2. Opened'
  BY <1>1 DEF serverVars, fileVars, Opened
<1>3. /\ client_pc' \in [Clients -> {"new", "connected", "sent", "exited"}]
      /\ conn' \in [Clients -> {"none", "queued", "open", "closed"}]
  BY DEF Connect, stdin_cb, GivesUp, read_file, Exit, netVars, TypeOK
<1>4. typed' \in [Clients -> Nat] /\ \A d \in Clients : typed'[d] \in Pieces(d)
  <2>1. CASE stdin_cb(c)
    <3>1. typed' = [typed EXCEPT ![c] = typed[c] + 1] /\ typed[c] < Len(Typed[c])
      BY <2>1 DEF stdin_cb
    <3>2. typed[c] + 1 \in Pieces(c) /\ typed[c] + 1 \in Nat
      BY <3>1, LenProperties DEF Pieces, TypeOK, ConstantsAssumption
    <3> QED
      BY <3>1, <3>2 DEF TypeOK
  <2>2. CASE typed' = typed
    BY <2>2 DEF TypeOK
  <2> QED
    BY <2>1, <2>2 DEF Connect, GivesUp, read_file, Exit
<1>5. chan' \in [Clients -> Seq(Token)]
  <2>1. CASE read_file(c)
    <3>1. PICK k \in 0..Len(Sent(c)) : chan' = [chan EXCEPT ![c] = SubSeq(Sent(c), 1, k)]
      BY <2>1 DEF read_file
    <3>2. Sent(c) \in Seq(Token) /\ Len(Sent(c)) \in Nat
      BY SentType, LenProperties
    <3>3. k \in Nat /\ k <= Len(Sent(c))
      BY <3>2
    <3>4. SubSeq(Sent(c), 1, k) \in Seq(Token)
      BY <3>2, <3>3, PartOf
    <3> QED
      BY <3>1, <3>4 DEF TypeOK
  <2>2. CASE chan' = chan
    BY <2>2 DEF TypeOK
  <2> QED
    BY <2>1, <2>2 DEF Connect, stdin_cb, GivesUp, Exit, netVars
<1> QED
  BY <1>1, <1>2, <1>3, <1>4, <1>5 DEF TypeOK, serverVars, fileVars

\* A connection is accepted or refused, or ends.
LEMMA ConnectionTypes ==
  ASSUME TypeOK, Opened,
         \/ \E c \in Clients : listener_socket_cb(c)
         \/ \E i \in Slots : FilenameEnds(i) \/ SocketEnds(i) \/ FileFails(i)
  PROVE  TypeOK' /\ Opened'
<1>1. ASSUME NEW c \in Clients, listener_socket_cb(c) PROVE TypeOK' /\ Opened'
  <2>1. UNCHANGED <<alive, fileVars, clientVars, chan, confirmed, printed>>
    BY <1>1 DEF listener_socket_cb
  <2>2. conn' \in [Clients -> {"none", "queued", "open", "closed"}]
    BY <1>1 DEF listener_socket_cb, TypeOK
  <2>3. CASE clients' = clients
    BY <2>1, <2>2, <2>3 DEF TypeOK, Opened, fileVars, clientVars
  <2>4. ASSUME NEW i \in FreeSlots, clients' = [clients EXCEPT ![i] =
                 [ev |-> "read_filename", client |-> c, filename |-> NoFile]]
        PROVE  TypeOK' /\ Opened'
    <3>1. [ev |-> "read_filename", client |-> c, filename |-> NoFile] \in Connection
      BY DEF Connection
    <3>2. clients' \in [Slots -> Connection \union {Free}]
      BY <2>4, <3>1 DEF TypeOK
    <3>3. \A j \in Slots : clients'[j].ev = "client_socket_cb"
                               => clients[j].ev = "client_socket_cb"
      BY <2>4 DEF TypeOK
    <3> QED
      BY <2>1, <2>2, <3>2, <3>3 DEF TypeOK, Opened, fileVars, clientVars
  <2> QED
    BY <1>1, <2>3, <2>4 DEF listener_socket_cb
<1>2. ASSUME NEW i \in Slots, FilenameEnds(i) PROVE TypeOK' /\ Opened'
  <2>1. /\ UNCHANGED <<alive, fileVars, clientVars, chan, confirmed, printed>>
        /\ conn' = [conn EXCEPT ![clients[i].client] = "closed"]
        /\ clients' = [clients EXCEPT ![i] = Free]
    BY <1>2 DEF FilenameEnds
  <2>2. /\ conn' \in [Clients -> {"none", "queued", "open", "closed"}]
        /\ clients' \in [Slots -> Connection \union {Free}]
    BY <2>1 DEF TypeOK
  <2>3. \A j \in Slots : clients'[j].ev = "client_socket_cb"
                             => clients[j].ev = "client_socket_cb"
    BY <2>1 DEF TypeOK, Free
  <2> QED
    BY <2>1, <2>2, <2>3 DEF TypeOK, Opened, fileVars, clientVars
<1>3. ASSUME NEW i \in Slots, SocketEnds(i) \/ FileFails(i) PROVE TypeOK' /\ Opened'
  <2>1. /\ alive' = FALSE
        /\ UNCHANGED <<fileVars, clients, clientVars, netVars, printed>>
    BY <1>3 DEF SocketEnds, FileFails
  <2>2. \/ confirmed' = confirmed
        \/ /\ confirmed' = confirmed \union {clients[i].client}
           /\ clients[i].ev = "client_socket_cb"
    BY <1>3 DEF SocketEnds, FileFails
  <2>3. clients[i].ev = "client_socket_cb" => clients[i].client \in Clients
    BY DEF TypeOK, Connection, Free
  <2>4. confirmed' \subseteq Clients
    BY <2>2, <2>3 DEF TypeOK
  <2>5. alive' \in BOOLEAN
    BY <2>1
  <2> QED
    BY <2>1, <2>4, <2>5 DEF TypeOK, Opened, fileVars, clientVars, netVars
<1> QED
  BY <1>1, <1>2, <1>3

\* The reads of a connection.
LEMMA ReadTypes ==
  ASSUME ConstantsAssumption, TypeOK, Opened, NEW i \in Slots,
         read_filename(i) \/ client_socket_cb(i)
  PROVE  TypeOK' /\ Opened'
<1> DEFINE c == clients[i].client
<1>1. /\ UNCHANGED <<alive, clientVars, conn, confirmed, printed>>
      /\ clients[i].ev \in {"read_filename", "client_socket_cb"}
  BY DEF read_filename, client_socket_cb
<1>2. c \in Clients /\ chan[c] \in Seq(Token) /\ Len(chan[c]) \in Nat
  <2>1. c \in Clients
    BY <1>1 DEF TypeOK, Connection, Free
  <2> QED
    BY <2>1, LenProperties DEF TypeOK
<1>3. ASSUME NEW k \in ReadLengths(c) PROVE k \in Nat \ {0} /\ k <= Len(chan[c])
  BY <1>2, <1>3 DEF ReadLengths, ConstantsAssumption
<1>4. ASSUME NEW k \in ReadLengths(c), Reads(c, k) PROVE chan' \in [Clients -> Seq(Token)]
  <2>1. k + 1 \in Nat \ {0} /\ Len(chan[c]) <= Len(chan[c])
    BY <1>2, <1>3
  <2>2. SubSeq(chan[c], k + 1, Len(chan[c])) \in Seq(Token)
    BY <1>2, <2>1, PartOf
  <2> QED
    BY <1>4, <2>2 DEF Reads, TypeOK
<1>5. CASE read_filename(i)
  <2> DEFINE name(k) == SubSeq(sent_name(c), 1, OfName(c, k))
             rest(k) == SubSeq(chan[c], OfName(c, k) + 1, k)
  <2>1. PICK k \in ReadLengths(c) :
          /\ Reads(c, k)
          /\ clients' = [clients EXCEPT ![i] =
               [ev |-> "client_socket_cb", client |-> c, filename |-> name(k)]]
          /\ filedesc' = name(k) /\ Writes(name(k), 0, rest(k))
    BY <1>5 DEF read_filename
  <2>2. name(k) \in FileNames
    <3>1. typed[c] \in Pieces(c)
      BY <1>2 DEF TypeOK
    <3>2. Len(sent_name(c)) \in Nat \ {0}
      BY <1>2, <3>1, NameFacts DEF sent_name
    <3>3. OfName(c, k) \in 1..Len(sent_name(c))
      BY <1>3, <3>2 DEF OfName
    <3> QED
      BY <1>2, <3>1, <3>3, NameFacts DEF sent_name
  <2>3. rest(k) \in Seq(Token) /\ Len(rest(k)) \in Nat
    <3>1. Len(sent_name(c)) \in Nat \ {0}
      BY <1>2, NameFacts DEF sent_name, TypeOK
    <3>2. OfName(c, k) + 1 \in Nat \ {0}
      BY <1>3, <3>1 DEF OfName
    <3>3. rest(k) \in Seq(Token)
      BY <1>2, <1>3, <3>2, PartOf
    <3> QED
      BY <3>3, LenProperties
  <2> HIDE DEF name, rest
  <2>4. files[name(k)] \in Seq(Token) /\ 0 <= Len(files[name(k)])
    BY <2>2, LenProperties DEF TypeOK
  <2>6. /\ files' \in [FileNames -> Seq(Token)] /\ lost' \subseteq Token
        /\ offset' \in Nat /\ offset' <= Len(files'[name(k)])
    BY <2>1, <2>2, <2>3, <2>4, WritesTypes
  <2>7. clients' \in [Slots -> Connection \union {Free}]
    <3>1. [ev |-> "client_socket_cb", client |-> c, filename |-> name(k)] \in Connection
      BY <1>2, <2>2 DEF Connection
    <3> QED
      BY <2>1, <3>1 DEF TypeOK
  <2>8. Opened'
    BY <2>1, <2>2, <2>6 DEF Opened
  <2> QED
    BY <1>1, <1>4, <2>1, <2>2, <2>6, <2>7, <2>8 DEF TypeOK, clientVars
<1>6. CASE client_socket_cb(i)
  <2>1. PICK k \in ReadLengths(c) :
          Reads(c, k) /\ Writes(filedesc, offset, SubSeq(chan[c], 1, k))
    BY <1>6 DEF client_socket_cb
  <2> DEFINE data == SubSeq(chan[c], 1, k)
  <2>2. filedesc \in FileNames /\ offset <= Len(files[filedesc]) /\ offset \in Nat
    BY <1>6 DEF client_socket_cb, Opened, TypeOK
  <2>3. data \in Seq(Token)
    <3>1. k \in Nat /\ k <= Len(chan[c])
      BY <1>3
    <3> QED
      BY <1>2, <3>1, PartOf
  <2>4. /\ files' \in [FileNames -> Seq(Token)] /\ lost' \subseteq Token
        /\ offset' \in Nat /\ offset' <= Len(files'[filedesc])
    BY <2>1, <2>2, <2>3, WritesTypes
  <2>6. UNCHANGED <<filedesc, clients>>
    BY <1>6 DEF client_socket_cb
  <2>7. Opened'
    BY <2>2, <2>4, <2>6 DEF Opened
  <2> QED
    BY <1>1, <1>4, <2>1, <2>4, <2>6, <2>7 DEF TypeOK, clientVars
<1> QED
  BY <1>5, <1>6

\* Every variable keeps its type, and no write leaves a gap in a file.
LEMMA TypesInv == Spec => [](TypeOK /\ Opened)
<1>1. Init => TypeOK /\ Opened
  <2> SUFFICES ASSUME Init PROVE TypeOK /\ Opened
    OBVIOUS
  <2>1. files \in [FileNames -> Seq(Token)] /\ chan \in [Clients -> Seq(Token)]
    BY DEF Init
  <2>2. typed \in [Clients -> Nat] /\ \A c \in Clients : typed[c] \in Pieces(c)
    BY LenProperties, ConstantsAssumption DEF Init, Pieces, ConstantsAssumption
  <2>3. /\ clients \in [Slots -> Connection \union {Free}]
        /\ client_pc \in [Clients -> {"new", "connected", "sent", "exited"}]
        /\ conn \in [Clients -> {"none", "queued", "open", "closed"}]
    BY DEF Init
  <2>4. TypeOK
    BY <2>1, <2>2, <2>3 DEF Init, TypeOK
  <2>5. \A f \in FileNames : Len(files[f]) = 0
    BY EmptySeq DEF Init
  <2>6. Opened
    BY <2>5 DEF Init, Opened, Free
  <2> QED
    BY <2>4, <2>6
<1>2. TypeOK /\ Opened /\ [Next]_vars => TypeOK' /\ Opened'
  <2>1. ASSUME TypeOK, Opened, UNCHANGED vars PROVE TypeOK' /\ Opened'
    BY <2>1 DEF TypeOK, Opened, vars, fileVars, clientVars, netVars
  <2> QED
    BY <2>1, ClientTypes, ConnectionTypes, ReadTypes, ConstantsAssumption DEF Next
<1> QED
  BY <1>1, <1>2, PTL DEF Spec

\* Every variable keeps its type.
THEOREM FileServerTypeOK == Spec => []TypeOK
  BY TypesInv, PTL

-----------------------------------------------------------------------------
(* What the client named last has sent *)

\* The server has read the name of c.
Named(c) == \E i \in Slots : clients[i].ev = "client_socket_cb" /\ clients[i].client = c

\* What slot i has read of its connection is the beginning of what the client
\* sends, and nothing but what is on its way comes next.  If the file is its own,
\* all but the name is in it.
Part(i) ==
  LET c == clients[i].client
      l == Len(clients[i].filename)
  IN  \E m \in l..Len(Sent(c)) : \E n \in m..Len(Sent(c)) :
        /\ chan[c] = SubSeq(Sent(c), m + 1, n)
        /\ clients[i].filename = filedesc /\ Alone(i)
             => Keeps(files[filedesc], offset, c, SubSeq(Sent(c), l + 1, m), lost)

\* Until it sends, nothing of a client is on its way or read.
Unsent == \A c \in Clients :
            client_pc[c] \in {"new", "connected"} => chan[c] = <<>> /\ ~Named(c)

\* Until its name is read, all that a client has sent is on its way.
Whole  == \A c \in Clients :
            ~Named(c) => \E n \in 0..Len(Sent(c)) : chan[c] = SubSeq(Sent(c), 1, n)

Parts  == \A i \in Slots : clients[i].ev = "client_socket_cb" => Part(i)

\* A slot has a name only once one was read.
Unread == \A i \in Slots : clients[i].ev # "client_socket_cb"
                             => clients[i].filename = NoFile

StreamInv == Unsent /\ Whole /\ Parts /\ Unread

\* What is known of slots and types.
Ordinary == TypeOK /\ Opened /\ IInv

\* A stretch of a sequence of tokens.
LEMMA Stretch ==
  ASSUME NEW s \in Seq(Token), NEW a \in Nat, NEW b \in Nat, a <= b, b <= Len(s)
  PROVE  /\ SubSeq(s, a + 1, b) \in Seq(Token) /\ Len(SubSeq(s, a + 1, b)) = b - a
         /\ DOMAIN SubSeq(s, a + 1, b) = 1..(b - a)
         /\ \A j \in 1..(b - a) : SubSeq(s, a + 1, b)[j] = s[a + j] /\ a + j \in 1..Len(s)
<1> DEFINE t == SubSeq(s, a + 1, b)
<1>1. Len(s) \in Nat /\ s \in [1..Len(s) -> Token]
  BY LenProperties
<1>2. \A i \in a + 1 .. b : s[i] \in Token
  BY <1>1
<1>3. a + 1 \in Int /\ b \in Int
  OBVIOUS
<1>4. /\ t \in Seq(Token)
      /\ Len(t) = IF a + 1 <= b THEN b - (a + 1) + 1 ELSE 0
      /\ \A i \in 1 .. b - (a + 1) + 1 : t[i] = s[a + 1 + i - 1]
  BY <1>2, <1>3, SubSeqProperties
<1> HIDE DEF t
<1>5. Len(t) = b - a
  BY <1>4
<1>6. ASSUME NEW j \in 1..(b - a) PROVE t[j] = s[a + j] /\ a + j \in 1..Len(s)
  <2>1. j \in 1 .. b - (a + 1) + 1 /\ a + 1 + j - 1 = a + j /\ a + j \in 1..Len(s)
    BY <1>1
  <2> QED
    BY <1>4, <2>1
<1>7. DOMAIN t = 1..(b - a)
  BY <1>4, <1>5, LenProperties
<1> QED
  BY <1>4, <1>5, <1>6, <1>7 DEF t

\* A stretch of a stretch.
LEMMA StretchOfStretch ==
  ASSUME NEW s \in Seq(Token), NEW a \in Nat, NEW b \in Nat, a <= b, b <= Len(s),
         NEW p \in Nat, NEW q \in Nat, p <= q, q <= b - a
  PROVE  SubSeq(SubSeq(s, a + 1, b), p + 1, q) = SubSeq(s, a + p + 1, a + q)
<1> DEFINE t == SubSeq(s, a + 1, b)
           u == SubSeq(t, p + 1, q)
           v == SubSeq(s, (a + p) + 1, a + q)
<1>0. Len(s) \in Nat
  BY LenProperties
<1>1. /\ t \in Seq(Token) /\ Len(t) = b - a
      /\ \A j \in 1..(b - a) : t[j] = s[a + j]
  BY Stretch
<1> HIDE DEF t
<1>2. /\ u \in Seq(Token) /\ Len(u) = q - p
      /\ \A j \in 1..(q - p) : u[j] = t[p + j] /\ p + j \in 1..Len(t)
  BY <1>1, Stretch
<1>3. a + p \in Nat /\ a + q \in Nat /\ a + p <= a + q /\ a + q <= Len(s)
  BY <1>0
<1>4. /\ v \in Seq(Token) /\ Len(v) = (a + q) - (a + p)
      /\ \A j \in 1..((a + q) - (a + p)) : v[j] = s[(a + p) + j]
  BY <1>3, Stretch
<1> HIDE DEF u, v
<1>5. (a + q) - (a + p) = q - p
  OBVIOUS
<1>6. ASSUME NEW j \in 1..(q - p) PROVE u[j] = v[j]
  <2>1. u[j] = t[p + j] /\ p + j \in 1..(b - a)
    BY <1>1, <1>2
  <2>2. t[p + j] = s[a + (p + j)]
    BY <1>1, <2>1
  <2>3. v[j] = s[(a + p) + j]
    BY <1>4, <1>5
  <2>4. (a + p) + j = a + (p + j)
    OBVIOUS
  <2> QED
    BY <2>1, <2>2, <2>3, <2>4
<1>7. u = v
  BY <1>2, <1>4, <1>5, <1>6, SeqEqual
<1> QED
  BY <1>7 DEF u, v, t

\* What write() leaves up to the end of what it wrote.
LEMMA WrittenAt ==
  ASSUME NEW content \in Seq(Token), NEW data \in Seq(Token),
         NEW at \in Nat, at <= Len(content)
  PROVE  /\ \A k \in 1..at : Written(content, at, data)[k] = content[k]
         /\ \A k \in 1..Len(data) : Written(content, at, data)[at + k] = data[k]
<1> DEFINE before == SubSeq(content, 0 + 1, at)
           after  == SubSeq(content, at + Len(data) + 1, Len(content))
           w      == (before \o data) \o after
<1>1. Len(content) \in Nat /\ Len(data) \in Nat
  BY LenProperties
<1>2. /\ before \in Seq(Token) /\ Len(before) = at - 0
      /\ \A k \in 1..(at - 0) : before[k] = content[0 + k]
  BY <1>1, Stretch
<1>3. after \in Seq(Token) /\ Len(after) \in Nat
  <2>1. at + Len(data) + 1 \in Nat \ {0}
    BY <1>1
  <2>2. after \in Seq(Token)
    BY <1>1, <2>1, PartOf
  <2> QED
    BY <2>2, LenProperties
<1>4. w = Written(content, at, data)
  BY DEF Written
<1> HIDE DEF before, after
<1>5. /\ before \o data \in Seq(Token) /\ Len(before \o data) = at + Len(data)
      /\ \A k \in 1..(at + Len(data)) :
           (before \o data)[k] = IF k <= at THEN before[k] ELSE data[k - at]
  <2>1. Len(before) = at
    BY <1>2
  <2> QED
    <3>1. /\ before \o data \in Seq(Token)
          /\ Len(before \o data) = Len(before) + Len(data)
          /\ \A k \in 1..(Len(before) + Len(data)) :
               (before \o data)[k] = IF k <= Len(before) THEN before[k]
                                                        ELSE data[k - Len(before)]
      BY <1>2, ConcatProperties
    <3> QED
      BY <2>1, <3>1
<1>6. \A k \in 1..(at + Len(data)) : w[k] = (before \o data)[k]
  <2>1. \A k \in 1..(at + Len(data) + Len(after)) :
          w[k] = IF k <= at + Len(data) THEN (before \o data)[k]
                                        ELSE after[k - (at + Len(data))]
    BY <1>3, <1>5, ConcatProperties
  <2> HIDE DEF w
  <2> DEFINE n == at + Len(data)
  <2>2. \A k \in 1..n : k \in 1..(n + Len(after)) /\ k <= n
    BY <1>1, <1>3
  <2>3. \A k \in 1..(n + Len(after)) : k <= n => w[k] = (before \o data)[k]
    BY <2>1
  <2> HIDE DEF n
  <2>4. \A k \in 1..n : w[k] = (before \o data)[k]
    BY <2>2, <2>3
  <2> QED
    BY <2>4 DEF n
<1> HIDE DEF w
<1>7. ASSUME NEW k \in 1..at PROVE w[k] = content[k]
  <2>1. k \in 1..(at + Len(data)) /\ k <= at /\ k \in 1..(at - 0) /\ 0 + k = k
    BY <1>1
  <2> QED
    BY <1>2, <1>5, <1>6, <2>1
<1>8. ASSUME NEW k \in 1..Len(data) PROVE w[at + k] = data[k]
  <2>1. at + k \in 1..(at + Len(data)) /\ ~(at + k <= at) /\ (at + k) - at = k
    BY <1>1
  <2> QED
    BY <1>5, <1>6, <2>1
<1> QED
  BY <1>4, <1>7, <1>8

\* Writing what others sent keeps what a file has of c.
LEMMA KeepsWhatItHas ==
  ASSUME NEW content \in Seq(Token), NEW data \in Seq(Token),
         NEW at \in Nat, at <= Len(content), NEW c, NEW part,
         NEW left, NEW more, left \subseteq more,
         Keeps(content, at, c, part, left),
         \A k \in 1..Len(data) : data[k].from # c
  PROVE  Keeps(Written(content, at, data), at + Len(data), c, part, more)
<1> DEFINE w == Written(content, at, data)
           old == {k \in 1..at : content[k].from = c}
           new == {k \in 1..(at + Len(data)) : w[k].from = c}
<1>1. Len(data) \in Nat
  BY LenProperties
<1>2. /\ \A k \in 1..at : w[k] = content[k]
      /\ \A k \in 1..Len(data) : w[at + k] = data[k]
  BY WrittenAt
<1> HIDE DEF w
<1>3. ASSUME NEW k \in 1..(at + Len(data)), k \notin 1..at PROVE w[k].from # c
  <2>1. k - at \in 1..Len(data) /\ at + (k - at) = k
    BY <1>1, <1>3
  <2>2. w[at + (k - at)] = data[k - at]
    BY <1>2, <2>1
  <2> QED
    BY <2>1, <2>2
<1>4. \A k \in 1..at : k \in 1..(at + Len(data))
  BY <1>1
<1>5. new = old
  BY <1>2, <1>3, <1>4
<1>6. \A k \in old : w[k] = content[k]
  BY <1>2
<1>7. {w[k] : k \in old} = {content[k] : k \in old}
  BY <1>6
<1> HIDE DEF old, new
<1>8. /\ {content[k] : k \in old} \subseteq {part[i] : i \in DOMAIN part}
      /\ {part[i] : i \in DOMAIN part} \subseteq {content[k] : k \in old} \union left
      /\ \A k, l \in old : k < l =>
           \E i, j \in DOMAIN part : i < j /\ content[k] = part[i] /\ content[l] = part[j]
  BY DEF Keeps, old
<1>9. /\ {w[k] : k \in new} \subseteq {part[i] : i \in DOMAIN part}
      /\ {part[i] : i \in DOMAIN part} \subseteq {w[k] : k \in new} \union more
  BY <1>5, <1>7, <1>8
<1>10. \A k, l \in new : k < l =>
         \E i, j \in DOMAIN part : i < j /\ w[k] = part[i] /\ w[l] = part[j]
  <2> SUFFICES ASSUME NEW k \in new, NEW l \in new, k < l
               PROVE  \E i, j \in DOMAIN part : i < j /\ w[k] = part[i] /\ w[l] = part[j]
    OBVIOUS
  <2>1. k \in old /\ l \in old /\ w[k] = content[k] /\ w[l] = content[l]
    BY <1>5, <1>6
  <2>2. PICK i \in DOMAIN part, j \in DOMAIN part :
          i < j /\ content[k] = part[i] /\ content[l] = part[j]
    BY <1>8, <2>1
  <2> QED
    BY <2>1, <2>2
<1> QED
  BY <1>9, <1>10 DEF Keeps, new, w

\* Writing what c sent next adds it to what the file has of c, but for what is left
\* over.
LEMMA KeepsWhatComes ==
  ASSUME NEW content \in Seq(Token), NEW data \in Seq(Token),
         NEW at \in Nat, at <= Len(content), NEW c,
         NEW part \in Seq(Token), NEW longer \in Seq(Token),
         NEW left, NEW more, left \subseteq more,
         Keeps(content, at, c, part, left),
         \A k \in 1..Len(data) : data[k].from = c,
         Len(longer) >= Len(part) + Len(data),
         \A i \in 1..Len(part) : longer[i] = part[i],
         \A i \in 1..Len(data) : longer[Len(part) + i] = data[i],
         \A i \in Len(part) + Len(data) + 1 .. Len(longer) : longer[i] \in more
  PROVE  Keeps(Written(content, at, data), at + Len(data), c, longer, more)
<1> DEFINE w == Written(content, at, data)
           old == {k \in 1..at : content[k].from = c}
           new == {k \in 1..(at + Len(data)) : w[k].from = c}
<1>1. /\ Len(data) \in Nat /\ Len(part) \in Nat /\ DOMAIN part = 1..Len(part)
      /\ DOMAIN longer = 1..Len(longer) /\ Len(longer) \in Nat
  BY LenProperties
<1>2. /\ \A k \in 1..at : w[k] = content[k]
      /\ \A k \in 1..Len(data) : w[at + k] = data[k]
  BY WrittenAt
<1> HIDE DEF w
<1>3. \A k \in 1..(at + Len(data)) :
        k \in 1..at \/ (k - at \in 1..Len(data) /\ at + (k - at) = k)
  BY <1>1
<1>4. \A k \in 1..at : k \in 1..(at + Len(data))
  BY <1>1
<1>5. \A k \in new : k \in old \/ (k - at \in 1..Len(data) /\ w[k] = data[k - at])
  BY <1>2, <1>3
<1>6. \A k \in old : k \in new /\ w[k] = content[k]
  BY <1>2, <1>4
<1>7. \A j \in 1..Len(data) : at + j \in new /\ w[at + j] = data[j]
  <2>1. \A j \in 1..Len(data) : at + j \in 1..(at + Len(data))
    BY <1>1
  <2> QED
    BY <1>2, <2>1
<1>8. \A k \in new, l \in old : l <= at /\ (k \notin old => at < k)
  <2>1. \A k \in new : k \notin old => at < k
    BY <1>1, <1>5
  <2>2. \A l \in old : l <= at
    OBVIOUS
  <2> QED
    BY <2>1, <2>2
<1>9. /\ {content[k] : k \in old} \subseteq {part[i] : i \in DOMAIN part}
      /\ {part[i] : i \in DOMAIN part} \subseteq {content[k] : k \in old} \union left
      /\ \A k, l \in old : k < l =>
           \E i, j \in DOMAIN part : i < j /\ content[k] = part[i] /\ content[l] = part[j]
  BY DEF Keeps, old
<1>10. old \subseteq Nat /\ new \subseteq Nat
  OBVIOUS
<1> HIDE DEF old, new
\* Where the tokens of c are in the longer part.
<1>11. ASSUME NEW k \in old
       PROVE  \E i \in 1..Len(part) : w[k] = part[i] /\ w[k] = longer[i]
  <2>1. content[k] \in {part[i] : i \in DOMAIN part}
    BY <1>9
  <2>2. PICK i \in DOMAIN part : content[k] = part[i]
    BY <2>1
  <2> QED
    BY <1>1, <1>6, <2>2
<1>12. ASSUME NEW k \in new, k \notin old
       PROVE  /\ k - at \in 1..Len(data)
              /\ w[k] = longer[Len(part) + (k - at)]
  BY <1>5, <1>12
<1>13. \A i \in 1..Len(part) : i \in DOMAIN longer
  BY <1>1
<1>14. \A j \in 1..Len(data) : Len(part) + j \in DOMAIN longer
  BY <1>1
<1>15. /\ {w[k] : k \in new} \subseteq {longer[i] : i \in DOMAIN longer}
       /\ {longer[i] : i \in DOMAIN longer} \subseteq {w[k] : k \in new} \union more
  <2> DEFINE kept == {w[k] : k \in new}
             sent == {longer[i] : i \in DOMAIN longer}
  <2>1. ASSUME NEW k \in new PROVE \E i \in DOMAIN longer : w[k] = longer[i]
    BY <1>11, <1>12, <1>13, <1>14
  <2>2. ASSUME NEW i \in DOMAIN longer PROVE longer[i] \in kept \union more
    <3>1. CASE i \in 1..Len(part)
      <4>1. part[i] \in {content[k] : k \in old} \/ part[i] \in left
        BY <1>1, <1>9, <3>1
      <4>2. CASE part[i] \in left
        BY <3>1, <4>2
      <4>3. CASE part[i] \in {content[k] : k \in old}
        <5>1. PICK k \in old : content[k] = part[i]
          BY <4>3
        <5> QED
          BY <1>6, <3>1, <5>1
      <4> QED
        BY <4>1, <4>2, <4>3
    <3>2. CASE i \in Len(part) + 1 .. Len(part) + Len(data)
      <4>1. i - Len(part) \in 1..Len(data) /\ Len(part) + (i - Len(part)) = i
        BY <1>1, <3>2
      <4>2. longer[i] = data[i - Len(part)]
        BY <4>1
      <4> QED
        BY <1>7, <4>1, <4>2
    <3>3. CASE i \in Len(part) + Len(data) + 1 .. Len(longer)
      BY <3>3
    <3>4. i \in 1..Len(longer)
      BY <1>1
    <3>5. \/ i \in 1..Len(part) \/ i \in Len(part) + 1 .. Len(part) + Len(data)
          \/ i \in Len(part) + Len(data) + 1 .. Len(longer)
      BY <1>1, <3>4
    <3> QED
      BY <3>1, <3>2, <3>3, <3>5
  <2>3. kept \subseteq sent
    BY <2>1
  <2>4. sent \subseteq kept \union more
    <3> HIDE DEF kept
    <3> QED
      BY <2>2
  <2> QED
    BY <2>3, <2>4
<1>16. ASSUME NEW k \in new, NEW l \in new, k < l
       PROVE  \E i, j \in DOMAIN longer : i < j /\ w[k] = longer[i] /\ w[l] = longer[j]
  <2>1. CASE k \in old /\ l \in old
    <3>1. PICK i \in DOMAIN part, j \in DOMAIN part :
            i < j /\ content[k] = part[i] /\ content[l] = part[j]
      BY <1>9, <1>16, <2>1
    <3>2. w[k] = longer[i] /\ w[l] = longer[j] /\ i \in DOMAIN longer /\ j \in DOMAIN longer
      BY <1>1, <1>6, <1>13, <2>1, <3>1
    <3> QED
      BY <3>1, <3>2
  <2>2. CASE k \in old /\ l \notin old
    <3>1. PICK i \in 1..Len(part) : w[k] = longer[i]
      BY <1>11, <2>2
    <3>2. l - at \in 1..Len(data) /\ w[l] = longer[Len(part) + (l - at)]
      BY <1>12, <2>2
    <3>3. i < Len(part) + (l - at)
      BY <1>1, <3>2
    <3> QED
      BY <1>13, <1>14, <3>1, <3>2, <3>3
  <2>3. CASE k \notin old /\ l \in old
    <3>1. l <= at /\ at < k /\ k \in Nat /\ l \in Nat
      BY <1>8, <1>10, <2>3
    <3> QED
      BY <1>16, <3>1
  <2>4. CASE k \notin old /\ l \notin old
    <3>1. /\ k - at \in 1..Len(data) /\ w[k] = longer[Len(part) + (k - at)]
          /\ l - at \in 1..Len(data) /\ w[l] = longer[Len(part) + (l - at)]
      BY <1>12, <2>4
    <3>2. Len(part) + (k - at) < Len(part) + (l - at)
      <4>1. k \in Nat /\ l \in Nat
        BY <1>10
      <4> QED
        BY <1>1, <1>16, <4>1
    <3> QED
      BY <1>14, <3>1, <3>2
  <2> QED
    BY <2>1, <2>2, <2>3, <2>4
<1> QED
  BY <1>15, <1>16 DEF Keeps, new, w

\* A write of what c sent next, which may leave some of it over.
LEMMA WritesWhatComes ==
  ASSUME TypeOK, NEW STATE f, NEW STATE at, NEW STATE data, NEW c,
         NEW STATE part, NEW STATE longer,
         f \in FileNames, at \in Nat, data \in Seq(Token),
         at <= Len(files[f]), Writes(f, at, data),
         part \in Seq(Token), longer \in Seq(Token),
         Keeps(files[f], at, c, part, lost),
         \A k \in 1..Len(data) : data[k].from = c,
         Len(longer) = Len(part) + Len(data),
         \A i \in 1..Len(part) : longer[i] = part[i],
         \A i \in 1..Len(data) : longer[Len(part) + i] = data[i]
  PROVE  Keeps(files'[f], offset', c, longer, lost')
<1>1. PICK n \in 0..Len(data) :
        /\ files' = [files EXCEPT ![f] = Written(files[f], at, SubSeq(data, 1, n))]
        /\ offset' = at + n
        /\ lost' = lost \union {data[x] : x \in n + 1 .. Len(data)}
  BY DEF Writes
<1>2. /\ Len(data) \in Nat /\ n \in Nat /\ n <= Len(data)
      /\ Len(part) \in Nat /\ Len(longer) \in Nat
  BY LenProperties
<1> DEFINE taken == SubSeq(data, 1, n)
<1>3. /\ taken \in Seq(Token) /\ Len(taken) = n
      /\ \A x \in 1..n : taken[x] = data[x]
  <2>1. 0 \in Nat /\ 0 <= n /\ 0 + 1 = 1 /\ n - 0 = n /\ \A x \in 1..n : 0 + x = x
    BY <1>2
  <2>2. /\ SubSeq(data, 0 + 1, n) \in Seq(Token) /\ Len(SubSeq(data, 0 + 1, n)) = n - 0
        /\ \A x \in 1..(n - 0) : SubSeq(data, 0 + 1, n)[x] = data[0 + x]
    BY <1>2, <2>1, Stretch
  <2> QED
    BY <2>1, <2>2
<1> HIDE DEF taken
<1>4. files[f] \in Seq(Token) /\ files'[f] = Written(files[f], at, taken)
  BY <1>1 DEF TypeOK, taken
<1>5. \A x \in 1..Len(taken) : taken[x].from = c /\ longer[Len(part) + x] = taken[x]
  <2>1. \A x \in 1..Len(taken) : x \in 1..Len(data) /\ taken[x] = data[x]
    BY <1>2, <1>3
  <2> QED
    BY <2>1
<1>6. lost \subseteq lost' /\ Len(longer) >= Len(part) + Len(taken)
  BY <1>1, <1>2, <1>3
<1>7. ASSUME NEW i \in Len(part) + Len(taken) + 1 .. Len(longer) PROVE longer[i] \in lost'
  <2>1. /\ i - Len(part) \in n + 1 .. Len(data) /\ i - Len(part) \in 1..Len(data)
        /\ Len(part) + (i - Len(part)) = i
    BY <1>2, <1>3
  <2>2. longer[i] = data[i - Len(part)]
    BY <2>1
  <2> QED
    BY <1>1, <2>1, <2>2
<1>8. Keeps(Written(files[f], at, taken), at + Len(taken), c, longer, lost')
  <2> DEFINE content == files[f]
             more    == lost'
  <2>1. /\ content \in Seq(Token) /\ taken \in Seq(Token) /\ at \in Nat /\ at <= Len(content)
        /\ part \in Seq(Token) /\ longer \in Seq(Token) /\ lost \subseteq more
        /\ Keeps(content, at, c, part, lost)
        /\ Len(longer) >= Len(part) + Len(taken)
    BY <1>3, <1>4, <1>6
  <2>2. \A i \in Len(part) + Len(taken) + 1 .. Len(longer) : longer[i] \in more
    BY <1>7
  <2> HIDE DEF content, more
  <2>3. Keeps(Written(content, at, taken), at + Len(taken), c, longer, more)
    BY <1>5, <2>1, <2>2, KeepsWhatComes
  <2> QED
    BY <2>3 DEF content, more
<1> QED
  BY <1>1, <1>3, <1>4, <1>8

\* A write of what another client sent.
LEMMA WritesAnother ==
  ASSUME TypeOK, NEW STATE f, NEW STATE at, NEW STATE data, NEW c, NEW STATE part,
         f \in FileNames, at \in Nat, data \in Seq(Token),
         at <= Len(files[f]), Writes(f, at, data),
         Keeps(files[f], at, c, part, lost),
         \A k \in 1..Len(data) : data[k].from # c
  PROVE  Keeps(files'[f], offset', c, part, lost')
<1>1. PICK n \in 0..Len(data) :
        /\ files' = [files EXCEPT ![f] = Written(files[f], at, SubSeq(data, 1, n))]
        /\ offset' = at + n
        /\ lost' = lost \union {data[x] : x \in n + 1 .. Len(data)}
  BY DEF Writes
<1>2. Len(data) \in Nat /\ n \in Nat /\ n <= Len(data)
  BY LenProperties
<1> DEFINE taken == SubSeq(data, 1, n)
<1>3. /\ taken \in Seq(Token) /\ Len(taken) = n
      /\ \A x \in 1..n : taken[x] = data[x]
  <2>1. 0 \in Nat /\ 0 <= n /\ 0 + 1 = 1 /\ n - 0 = n /\ \A x \in 1..n : 0 + x = x
    BY <1>2
  <2>2. /\ SubSeq(data, 0 + 1, n) \in Seq(Token) /\ Len(SubSeq(data, 0 + 1, n)) = n - 0
        /\ \A x \in 1..(n - 0) : SubSeq(data, 0 + 1, n)[x] = data[0 + x]
    BY <1>2, <2>1, Stretch
  <2> QED
    BY <2>1, <2>2
<1> HIDE DEF taken
<1>4. files[f] \in Seq(Token) /\ files'[f] = Written(files[f], at, taken)
  BY <1>1 DEF TypeOK, taken
<1>5. \A x \in 1..Len(taken) : taken[x].from # c
  BY <1>2, <1>3
<1>6. lost \subseteq lost'
  BY <1>1
<1>7. Keeps(Written(files[f], at, taken), at + Len(taken), c, part, lost')
  BY <1>3, <1>4, <1>5, <1>6, KeepsWhatItHas
<1> QED
  BY <1>1, <1>3, <1>4, <1>7

\* Every token of what a client sends is from it.
LEMMA SentFrom ==
  ASSUME ConstantsAssumption, TypeOK, NEW c \in Clients
  PROVE  \A i \in 1..Len(Sent(c)) : Sent(c)[i].from = c
<1> DEFINE ofName == [i \in 1..Len(sent_name(c)) |-> [from |-> c, name |-> i, block |-> 0]]
           ofFile == [i \in 1..Blocks + 1 |-> [from |-> c, name |-> 0, block |-> i - 1]]
           Own    == {t \in Token : t.from = c}
<1>1. Len(sent_name(c)) \in Nat
  BY NameFacts DEF sent_name, TypeOK
<1>2. ofName \in Seq(Own)
  BY <1>1 DEF Token
<1>3. ofFile \in Seq(Own)
  BY DEF Token, ConstantsAssumption
<1> HIDE DEF ofName, ofFile, Own
<1>4. ofName \o ofFile \in Seq(Own)
  BY <1>2, <1>3, ConcatProperties
<1>5. Sent(c) \in [1..Len(Sent(c)) -> Own]
  BY <1>4, LenProperties DEF Sent, ofName, ofFile
<1> QED
  BY <1>5 DEF Own

\* What slot i has read stays as it is.
LEMMA SamePart ==
  ASSUME NEW i \in Slots, Part(i), UNCHANGED fileVars,
         clients'[i].client = clients[i].client,
         \A j \in Slots : clients'[j].filename = clients[j].filename,
         chan'[clients[i].client] = chan[clients[i].client],
         typed'[clients[i].client] = typed[clients[i].client]
  PROVE  Part(i)'
<1> DEFINE c == clients[i].client
<1>1. Sent(c)' = Sent(c)
  BY DEF Sent, sent_name
<1>2. Alone(i)' <=> Alone(i)
  BY DEF Alone, fileVars
<1> QED
  BY <1>1, <1>2 DEF Part, fileVars

\* Accepting a connection, and its end, leave what has been read as it is.
LEMMA SameStream ==
  ASSUME StreamInv, UNCHANGED <<fileVars, clientVars, chan>>,
         \A j \in Slots :
           /\ clients'[j].filename = clients[j].filename
           /\ clients'[j].ev = "client_socket_cb" <=> clients[j].ev = "client_socket_cb"
           /\ clients[j].ev = "client_socket_cb" => clients'[j].client = clients[j].client
  PROVE  StreamInv'
<1>1. \A c : Named(c)' <=> Named(c)
  BY DEF Named
<1>2. \A c : Sent(c)' = Sent(c)
  BY DEF Sent, sent_name, clientVars
<1>3. Unsent' /\ Whole'
  BY <1>1, <1>2 DEF StreamInv, Unsent, Whole, clientVars
<1>4. Parts'
  <2> SUFFICES ASSUME NEW i \in Slots, clients'[i].ev = "client_socket_cb"
               PROVE  Part(i)'
    BY DEF Parts
  <2>1. Part(i) /\ clients'[i].client = clients[i].client
    BY DEF StreamInv, Parts
  <2> QED
    BY <2>1, SamePart DEF clientVars
<1>5. Unread'
  BY DEF StreamInv, Unread
<1> QED
  BY <1>3, <1>4, <1>5 DEF StreamInv

\* The steps of a client: once its name has been read it sends nothing more and
\* only exits.
LEMMA ClientStream ==
  ASSUME ConstantsAssumption, Ordinary, StreamInv, NEW c \in Clients,
         Connect(c) \/ stdin_cb(c) \/ GivesUp(c) \/ read_file(c) \/ Exit(c)
  PROVE  StreamInv'
<1>1. UNCHANGED <<fileVars, clients>>
  BY DEF Connect, stdin_cb, GivesUp, read_file, Exit, serverVars
<1>2. \A d \in Clients \ {c} : /\ client_pc'[d] = client_pc[d] /\ typed'[d] = typed[d]
                                /\ chan'[d] = chan[d]
  BY DEF Connect, stdin_cb, GivesUp, read_file, Exit, netVars, Ordinary, TypeOK
<1>3. /\ \A d : Named(d)' <=> Named(d)
      /\ \A d \in Clients \ {c} : Sent(d)' = Sent(d)
  BY <1>1, <1>2 DEF Named, Sent, sent_name
<1>4. CASE Exit(c)
  <2>1. /\ typed' = typed /\ chan' = chan
        /\ \A d \in Clients : client_pc'[d] \in {"new", "connected"}
                                => client_pc'[d] = client_pc[d]
    BY <1>4 DEF Exit, netVars, Ordinary, TypeOK
  <2>2. \A d : Sent(d)' = Sent(d)
    BY <2>1 DEF Sent, sent_name
  <2>3. Unsent' /\ Whole' /\ Unread'
    BY <1>1, <1>3, <2>1, <2>2 DEF StreamInv, Unsent, Whole, Unread
  <2>4. Parts'
    <3> SUFFICES ASSUME NEW i \in Slots, clients'[i].ev = "client_socket_cb"
                 PROVE  Part(i)'
      BY DEF Parts
    <3>1. Part(i)
      BY <1>1 DEF StreamInv, Parts
    <3> QED
      BY <1>1, <2>1, <3>1, SamePart
  <2> QED
    BY <2>3, <2>4 DEF StreamInv
<1>5. CASE ~Exit(c)
  <2>1. client_pc[c] \in {"new", "connected"}
    BY <1>5 DEF Connect, stdin_cb, GivesUp, read_file
  <2>2. chan[c] = <<>> /\ ~Named(c)
    BY <2>1 DEF StreamInv, Unsent
  <2>3. \E n \in 0..Len(Sent(c)') : chan'[c] = SubSeq(Sent(c)', 1, n)
    <3>1. CASE read_file(c)
      <4>1. PICK k \in 0..Len(Sent(c)) : chan' = [chan EXCEPT ![c] = SubSeq(Sent(c), 1, k)]
        BY <3>1 DEF read_file
      <4>2. Sent(c)' = Sent(c)
        BY <3>1 DEF read_file, Sent, sent_name
      <4> QED
        BY <4>1, <4>2 DEF Ordinary, TypeOK
    <3>2. CASE ~read_file(c)
      <4>1. chan' = chan
        BY <1>5, <3>2 DEF Connect, stdin_cb, GivesUp, netVars
      <4>2. TypeOK'
        BY ClientTypes DEF Ordinary
      <4>3. Sent(c)' \in Seq(Token)
        BY <4>2, SentAfter DEF TypeOK, Sent, sent_name
      <4>4. 0 \in 0..Len(Sent(c)') /\ SubSeq(Sent(c)', 1, 0) = <<>>
        BY <4>3, LenProperties, SubSeqProperties, EmptySeq
      <4> QED
        BY <2>2, <4>1, <4>4
    <3> QED
      BY <3>1, <3>2
  <2>4. client_pc'[c] \in {"new", "connected"} => chan'[c] = <<>>
    BY <1>5, <2>2 DEF Connect, stdin_cb, GivesUp, read_file, netVars, Ordinary, TypeOK
  <2>5. Unsent'
    <3> SUFFICES ASSUME NEW d \in Clients, client_pc'[d] \in {"new", "connected"}
                 PROVE  chan'[d] = <<>> /\ ~Named(d)'
      BY DEF Unsent
    <3>1. chan'[d] = <<>> /\ ~Named(d)
      BY <1>2, <2>2, <2>4 DEF StreamInv, Unsent
    <3> QED
      BY <1>3, <3>1
  <2>6. Whole'
    <3> SUFFICES ASSUME NEW d \in Clients, ~Named(d)'
                 PROVE  \E n \in 0..Len(Sent(d)') : chan'[d] = SubSeq(Sent(d)', 1, n)
      BY DEF Whole
    <3>1. CASE d = c
      BY <2>3, <3>1
    <3>2. CASE d # c
      <4>1. chan'[d] = chan[d] /\ Sent(d)' = Sent(d) /\ ~Named(d)
        BY <1>2, <1>3, <3>2
      <4> QED
        BY <4>1 DEF StreamInv, Whole
    <3> QED
      BY <3>1, <3>2
  <2>7. Parts'
    <3> SUFFICES ASSUME NEW i \in Slots, clients'[i].ev = "client_socket_cb"
                 PROVE  Part(i)'
      BY DEF Parts
    <3>1. Part(i) /\ clients[i].ev = "client_socket_cb"
      BY <1>1 DEF StreamInv, Parts
    <3>2. clients[i].client \in Clients \ {c}
      BY <2>2, <3>1 DEF Named, Ordinary, IInv, Used
    <3> QED
      BY <1>1, <1>2, <3>1, <3>2, SamePart
  <2>8. Unread'
    BY <1>1 DEF StreamInv, Unread
  <2> QED
    BY <2>5, <2>6, <2>7, <2>8 DEF StreamInv
<1> QED
  BY <1>4, <1>5

\* A connection is accepted, refused or ends, or the server dies.
LEMMA ConnectionStream ==
  ASSUME Ordinary, StreamInv,
         \/ \E c \in Clients : listener_socket_cb(c)
         \/ \E i \in Slots : FilenameEnds(i) \/ SocketEnds(i) \/ FileFails(i)
  PROVE  StreamInv'
<1>1. ASSUME NEW c \in Clients, listener_socket_cb(c) PROVE StreamInv'
  <2>1. UNCHANGED <<fileVars, clientVars, chan>>
    BY <1>1 DEF listener_socket_cb
  <2>2. CASE clients' = clients
    BY <2>1, <2>2, SameStream
  <2>3. ASSUME NEW i \in FreeSlots, clients' = [clients EXCEPT ![i] =
                 [ev |-> "read_filename", client |-> c, filename |-> NoFile]]
        PROVE  StreamInv'
    <3>1. i \in Slots /\ clients[i].ev = "none" /\ clients[i].filename = NoFile
      BY DEF FreeSlots, StreamInv, Unread
    <3>2. /\ clients'[i].ev = "read_filename" /\ clients'[i].filename = NoFile
          /\ \A j \in Slots \ {i} : clients'[j] = clients[j]
      BY <2>3, <3>1 DEF Ordinary, TypeOK
    <3> QED
      BY <2>1, <3>1, <3>2, SameStream
  <2> QED
    BY <1>1, <2>2, <2>3 DEF listener_socket_cb
<1>2. ASSUME NEW i \in Slots, FilenameEnds(i) PROVE StreamInv'
  <2>1. /\ UNCHANGED <<fileVars, clientVars, chan>>
        /\ clients' = [clients EXCEPT ![i] = Free] /\ clients[i].ev = "read_filename"
    BY <1>2 DEF FilenameEnds
  <2>2. /\ clients[i].filename = NoFile
        /\ clients'[i].ev = "none" /\ clients'[i].filename = NoFile
        /\ \A j \in Slots \ {i} : clients'[j] = clients[j]
    BY <2>1 DEF StreamInv, Unread, Ordinary, TypeOK, Free
  <2> QED
    BY <2>1, <2>2, SameStream
<1>3. ASSUME NEW i \in Slots, SocketEnds(i) \/ FileFails(i) PROVE StreamInv'
  <2>1. UNCHANGED <<fileVars, clientVars, chan, clients>>
    BY <1>3 DEF SocketEnds, FileFails, netVars
  <2> QED
    BY <2>1, SameStream
<1> QED
  BY <1>1, <1>2, <1>3

\* The first read of a connection: from here on the file is the client's, and what
\* follows the name is at its beginning.
LEMMA FirstRead ==
  ASSUME ConstantsAssumption, Ordinary, StreamInv, NEW i \in Slots, read_filename(i)
  PROVE  StreamInv'
<1>0. PICK c \in Clients : c = clients[i].client
  <2>1. Used(i)
    BY DEF read_filename, Used
  <2> QED
    BY <2>1 DEF Ordinary, IInv
<1> DEFINE s == Sent(c)
           name(k) == SubSeq(sent_name(c), 1, OfName(c, k))
           rest(k) == SubSeq(chan[c], OfName(c, k) + 1, k)
<1>1. PICK k \in ReadLengths(c) :
        /\ Reads(c, k)
        /\ clients' = [clients EXCEPT ![i] =
             [ev |-> "client_socket_cb", client |-> c, filename |-> name(k)]]
        /\ filedesc' = name(k) /\ Writes(name(k), 0, rest(k))
  BY <1>0 DEF read_filename
<1> DEFINE l == OfName(c, k)
<1>2. /\ UNCHANGED clientVars /\ clients[i].ev = "read_filename"
      /\ s \in Seq(Token) /\ Len(s) \in Nat
      /\ chan[c] \in Seq(Token) /\ Len(chan[c]) \in Nat
  <2>1. UNCHANGED clientVars /\ clients[i].ev = "read_filename"
    BY DEF read_filename
  <2> QED
    BY <2>1, SentType, LenProperties DEF Ordinary, TypeOK
<1>3. k \in Nat \ {0} /\ k <= Len(chan[c])
  BY <1>2 DEF ReadLengths, ConstantsAssumption
<1>4. \A j \in Slots : clients[j].ev = "client_socket_cb" => clients[j].client # c
  BY <1>0, <1>2 DEF Ordinary, IInv, Used
<1>5. PICK n \in 0..Len(s) : chan[c] = SubSeq(s, 1, n)
  BY <1>2, <1>4 DEF StreamInv, Whole, Named
<1>6. chan[c] # <<>> /\ client_pc[c] \notin {"new", "connected"}
  <2>1. Len(chan[c]) # 0
    BY <1>2, <1>3
  <2>2. chan[c] # <<>>
    BY <1>2, <2>1, EmptySeq
  <2> QED
    BY <1>2, <2>2 DEF StreamInv, Unsent
<1>7. /\ \A j \in Slots \ {i} : clients'[j] = clients[j]
      /\ clients'[i] = [ev |-> "client_socket_cb", client |-> c, filename |-> name(k)]
      /\ \A d \in Clients \ {c} : chan'[d] = chan[d]
      /\ chan'[c] = SubSeq(chan[c], k + 1, Len(chan[c]))
  BY <1>1 DEF Ordinary, TypeOK, Reads
<1>8. /\ \A d : Sent(d)' = Sent(d)
      /\ \A d \in Clients : Named(d)' <=> d = c \/ Named(d)
  <2>1. typed' = typed
    BY <1>2 DEF clientVars
  <2>2. \A d : Sent(d)' = Sent(d)
    BY <2>1 DEF Sent, sent_name
  <2>3. \A d \in Clients : Named(d)' <=> d = c \/ Named(d)
    <3>1. \A j \in Slots \ {i} : /\ clients'[j].ev = clients[j].ev
                                  /\ clients'[j].client = clients[j].client
      BY <1>7
    <3>2. /\ clients'[i].ev = "client_socket_cb" /\ clients'[i].client = c
          /\ clients[i].ev # "client_socket_cb"
      BY <1>2, <1>7
    <3> QED
      BY <3>1, <3>2 DEF Named
  <2> QED
    BY <2>2, <2>3
<1>9. l \in Nat /\ l <= k /\ Len(name(k)) = l
  <2>1. Len(sent_name(c)) \in Nat /\ typed[c] \in Pieces(c)
    BY <1>2, NameFacts DEF Ordinary, TypeOK, sent_name
  <2>2. l \in Nat /\ l <= k /\ l <= Len(sent_name(c))
    BY <1>3, <2>1 DEF OfName
  <2>3. Len(name(k)) = l
    <3>1. \A x \in 1..l : sent_name(c)[x] \in STRING
      <4>1. sent_name(c) \in Seq(STRING)
        BY <2>1, NameFacts DEF sent_name
      <4>2. sent_name(c) \in [1..Len(sent_name(c)) -> STRING]
        BY <4>1, LenProperties
      <4> QED
        BY <2>1, <2>2, <4>2
    <3> HIDE DEF l
    <3>2. Len(SubSeq(sent_name(c), 1, l)) = IF 1 <= l THEN l - 1 + 1 ELSE 0
      BY <2>2, <3>1, SubSeqProperties
    <3> QED
      BY <2>2, <3>2 DEF l
  <2> QED
    BY <2>2, <2>3
<1> HIDE DEF s, l
<1>10. /\ Len(chan[c]) = n /\ k <= n /\ n \in Nat /\ n <= Len(s)
  <2>1. n \in Nat /\ 0 <= n /\ n <= Len(s) /\ 0 \in Nat
    BY <1>2
  <2>2. Len(SubSeq(s, 0 + 1, n)) = n - 0
    BY <1>2, <2>1, Stretch
  <2> QED
    BY <1>3, <1>5, <2>1, <2>2
<1>11. /\ rest(k) = SubSeq(s, l + 1, k)
       /\ chan'[c] = SubSeq(s, k + 1, n)
  <2>1. chan[c] = SubSeq(s, 0 + 1, n)
    BY <1>5
  <2> DEFINE z == 0
  <2>2. /\ s \in Seq(Token) /\ z \in Nat /\ n \in Nat /\ z <= n /\ n <= Len(s)
        /\ l \in Nat /\ k \in Nat /\ l <= k /\ k <= n - z /\ n <= n - z
    BY <1>2, <1>3, <1>9, <1>10
  <2> HIDE DEF z
  <2>3. SubSeq(SubSeq(s, z + 1, n), l + 1, k) = SubSeq(s, z + l + 1, z + k)
    BY <2>2, StretchOfStretch
  <2>4. SubSeq(SubSeq(s, z + 1, n), k + 1, n) = SubSeq(s, z + k + 1, z + n)
    <3>1. k <= n
      BY <1>10
    <3> QED
      BY <2>2, <3>1, StretchOfStretch
  <2>5. SubSeq(SubSeq(s, 0 + 1, n), l + 1, k) = SubSeq(s, 0 + l + 1, 0 + k)
    BY <2>3 DEF z
  <2>6. SubSeq(SubSeq(s, 0 + 1, n), k + 1, n) = SubSeq(s, 0 + k + 1, 0 + n)
    BY <2>4 DEF z
  <2>7. 0 + l + 1 = l + 1 /\ 0 + k = k /\ 0 + k + 1 = k + 1 /\ 0 + n = n
    BY <1>3, <1>9, <1>10
  <2> QED
    BY <1>7, <1>10, <2>1, <2>5, <2>6, <2>7 DEF l
<1> HIDE DEF rest, name
<1>12. /\ rest(k) \in Seq(Token) /\ Len(rest(k)) \in Nat
       /\ \A x \in 1..Len(rest(k)) : rest(k)[x].from = c
  <2>1. k \in Nat /\ k <= Len(s)
    BY <1>2, <1>3, <1>10
  <2>2. /\ SubSeq(s, l + 1, k) \in Seq(Token) /\ Len(SubSeq(s, l + 1, k)) = k - l
        /\ \A x \in 1..(k - l) : SubSeq(s, l + 1, k)[x] = s[l + x] /\ l + x \in 1..Len(s)
    <3>1. s \in Seq(Token) /\ l \in Nat /\ l <= k
      BY <1>2, <1>9
    <3> QED
      BY <2>1, <3>1, Stretch, SMTT(30)
  <2>3. \A x \in 1..Len(s) : s[x].from = c
    BY <1>2, SentFrom DEF Ordinary, s
  <2>4. \A x \in 1..(k - l) : SubSeq(s, l + 1, k)[x].from = c
    BY <2>2, <2>3
  <2>5. rest(k) = SubSeq(s, l + 1, k)
    BY <1>11
  <2>6. Len(rest(k)) = k - l /\ k - l \in Nat
    BY <1>9, <2>1, <2>2, <2>5
  <2> QED
    BY <2>2, <2>4, <2>5, <2>6
<1>13. name(k) \in FileNames /\ files[name(k)] \in Seq(Token)
  <2>1. filedesc' \in FileNames
    <3>1. TypeOK' /\ Opened'
      BY ReadTypes DEF Ordinary
    <3> QED
      BY <1>7, <3>1 DEF Opened
  <2>2. name(k) \in FileNames
    BY <1>1, <2>1
  <2> QED
    BY <1>1, <2>2 DEF Ordinary, TypeOK
<1>14. Keeps(files'[filedesc'], offset', c, SubSeq(s, l + 1, k), lost')
  <2>1. /\ 0 <= Len(files[name(k)]) /\ <<>> \in Seq(Token) /\ Len(<<>>) = 0
        /\ DOMAIN <<>> = {} /\ 0 \in Nat
    BY <1>13, LenProperties, EmptySeq
  <2>2. Keeps(files[name(k)], 0, c, <<>>, lost)
    <3>1. {x \in 1..0 : files[name(k)][x].from = c} = {}
      OBVIOUS
    <3>2. /\ {files[name(k)][x] : x \in {}} = {}
          /\ {<<>>[x] : x \in DOMAIN <<>>} = {}
      BY <2>1
    <3> QED
      BY <3>1, <3>2 DEF Keeps
  <2>3. /\ Len(rest(k)) = Len(<<>>) + Len(rest(k))
        /\ \A x \in 1..Len(<<>>) : rest(k)[x] = <<>>[x]
        /\ \A x \in 1..Len(rest(k)) : Len(<<>>) + x = x
    BY <1>12, <2>1
  <2>4. Keeps(files'[name(k)], offset', c, rest(k), lost')
    BY <1>1, <1>12, <1>13, <2>1, <2>2, <2>3, WritesWhatComes DEF Ordinary
  <2> QED
    BY <1>1, <1>11, <2>4
<1>15. Part(i)'
  <2>1. l = Len(clients'[i].filename) /\ clients'[i].client = c
    BY <1>7, <1>9
  <2>2. k \in l..Len(s) /\ n \in k..Len(s)
    BY <1>2, <1>3, <1>9, <1>10
  <2>3. Sent(c)' = s
    BY <1>8 DEF s
  <2> QED
    BY <1>11, <1>14, <2>1, <2>2, <2>3 DEF Part
<1>16. ASSUME NEW j \in Slots \ {i}, clients'[j].ev = "client_socket_cb" PROVE Part(j)'
  <2>1. clients'[j] = clients[j] /\ Part(j) /\ clients[j].client \in Clients \ {c}
    BY <1>4, <1>7, <1>16 DEF StreamInv, Parts, Ordinary, IInv, Used
  <2>2. clients'[j].filename = filedesc' => ~Alone(j)'
    BY <1>1, <1>7 DEF Alone
  <2>3. /\ Sent(clients[j].client)' = Sent(clients[j].client)
        /\ chan'[clients[j].client] = chan[clients[j].client]
    BY <1>7, <1>8, <2>1
  <2> QED
    BY <2>1, <2>2, <2>3 DEF Part
<1>17. Parts'
  BY <1>15, <1>16 DEF Parts
<1>18. Unsent'
  <2> SUFFICES ASSUME NEW d \in Clients, client_pc'[d] \in {"new", "connected"}
               PROVE  chan'[d] = <<>> /\ ~Named(d)'
    BY DEF Unsent
  <2>1. client_pc[d] \in {"new", "connected"} /\ d # c
    BY <1>2, <1>6 DEF clientVars
  <2>2. chan[d] = <<>> /\ ~Named(d)
    BY <2>1 DEF StreamInv, Unsent
  <2> QED
    BY <1>7, <1>8, <2>1, <2>2
<1>19. Whole'
  <2> SUFFICES ASSUME NEW d \in Clients, ~Named(d)'
               PROVE  \E x \in 0..Len(Sent(d)') : chan'[d] = SubSeq(Sent(d)', 1, x)
    BY DEF Whole
  <2>1. d # c
    BY <1>8
  <2>2. chan'[d] = chan[d] /\ Sent(d)' = Sent(d) /\ ~Named(d)
    BY <1>7, <1>8, <2>1
  <2> QED
    BY <2>2 DEF StreamInv, Whole
<1>20. Unread'
  BY <1>7 DEF StreamInv, Unread
<1> QED
  BY <1>17, <1>18, <1>19, <1>20 DEF StreamInv

\* A later read: the file that is open gets more of the client it is named after, or
\* something of another one.
LEMMA LaterRead ==
  ASSUME ConstantsAssumption, Ordinary, StreamInv, NEW i \in Slots, client_socket_cb(i)
  PROVE  StreamInv'
<1>1. PICK c \in Clients : c = clients[i].client
  <2>1. Used(i)
    BY DEF client_socket_cb, Used
  <2> QED
    BY <2>1 DEF Ordinary, IInv
<1> DEFINE s == Sent(c)
           data(k) == SubSeq(chan[c], 1, k)
<1>2. PICK k \in ReadLengths(c) :
        Reads(c, k) /\ Writes(filedesc, offset, data(k))
  BY <1>1 DEF client_socket_cb
<1>3. /\ UNCHANGED <<filedesc, clients, clientVars>> /\ clients[i].ev = "client_socket_cb"
      /\ s \in Seq(Token) /\ Len(s) \in Nat
      /\ chan[c] \in Seq(Token) /\ Len(chan[c]) \in Nat
  <2>1. UNCHANGED <<filedesc, clients, clientVars>> /\ clients[i].ev = "client_socket_cb"
    BY DEF client_socket_cb
  <2> QED
    BY <2>1, SentType, LenProperties DEF Ordinary, TypeOK
<1>4. k \in Nat \ {0} /\ k <= Len(chan[c])
  BY <1>3 DEF ReadLengths, ConstantsAssumption
<1>5. /\ \A d : Sent(d)' = Sent(d)
      /\ \A d : Named(d)' <=> Named(d)
      /\ \A j \in Slots : Alone(j)' <=> Alone(j)
  <2>1. typed' = typed
    BY <1>3 DEF clientVars
  <2>2. \A d : Sent(d)' = Sent(d)
    BY <2>1 DEF Sent, sent_name
  <2> QED
    BY <1>3, <2>2 DEF Named, Alone
<1>6. /\ \A d \in Clients \ {c} : chan'[d] = chan[d]
      /\ chan'[c] = SubSeq(chan[c], k + 1, Len(chan[c]))
  BY <1>2 DEF Ordinary, TypeOK, Reads
<1>7. /\ filedesc \in FileNames /\ offset \in Nat
      /\ files[filedesc] \in Seq(Token) /\ offset <= Len(files[filedesc])
  BY <1>3 DEF Ordinary, Opened, TypeOK
<1> DEFINE l == Len(clients[i].filename)
<1>8. l \in Nat
  <2>1. clients[i].filename \in FileNames \union {NoFile}
    <3>1. clients[i] \in Connection \union {Free}
      BY DEF Ordinary, TypeOK
    <3>2. clients[i] # Free
      BY <1>3 DEF Free
    <3> QED
      BY <3>1, <3>2 DEF Connection
  <2> QED
    <3>2. CASE clients[i].filename \in FileNames
      BY <3>2, FileNamesType, ConstantsAssumption
    <3>3. Len(<<>>) \in Nat
      OBVIOUS
    <3> QED
      BY <2>1, <3>2, <3>3, Zenon DEF NoFile
<1> HIDE DEF s, l
<1>9. PICK m, n :
        /\ m \in l..Len(s) /\ n \in m..Len(s)
        /\ chan[c] = SubSeq(s, m + 1, n)
        /\ clients[i].filename = filedesc /\ Alone(i)
             => Keeps(files[filedesc], offset, c, SubSeq(s, l + 1, m), lost)
  BY <1>1, <1>3 DEF StreamInv, Parts, Part, s, l
<1>10. /\ m \in Nat /\ n \in Nat /\ l <= m /\ m <= n /\ n <= Len(s)
       /\ Len(chan[c]) = n - m /\ k <= n - m
  <2>1. m \in Nat /\ n \in Nat /\ l <= m /\ m <= n /\ n <= Len(s)
    BY <1>3, <1>8, <1>9
  <2>2. Len(SubSeq(s, m + 1, n)) = n - m
    BY <1>3, <2>1, Stretch
  <2> QED
    BY <1>4, <1>9, <2>1, <2>2
<1>11. data(k) = SubSeq(s, m + 1, m + k) /\ chan'[c] = SubSeq(s, m + k + 1, n)
  <2>1. SubSeq(SubSeq(s, m + 1, n), 0 + 1, k) = SubSeq(s, m + 0 + 1, m + k)
    BY <1>3, <1>4, <1>10, StretchOfStretch
  <2>2. SubSeq(SubSeq(s, m + 1, n), k + 1, n - m) = SubSeq(s, m + k + 1, m + (n - m))
    <3>1. n - m \in Nat /\ n - m <= n - m /\ k \in Nat
      BY <1>4, <1>10
    <3> QED
      BY <1>3, <1>10, <3>1, StretchOfStretch
  <2>3. m + 0 + 1 = m + 1 /\ m + (n - m) = n /\ 0 + 1 = 1
    BY <1>10
  <2> QED
    BY <1>6, <1>9, <1>10, <2>1, <2>2, <2>3
<1> HIDE DEF data
<1>12. /\ data(k) \in Seq(Token) /\ Len(data(k)) = k
       /\ \A x \in 1..k : data(k)[x] = s[m + x] /\ data(k)[x].from = c
  <2>1. m + k \in Nat /\ m <= m + k /\ m + k <= Len(s) /\ (m + k) - m = k
    BY <1>3, <1>4, <1>10
  <2>2. /\ SubSeq(s, m + 1, m + k) \in Seq(Token)
        /\ Len(SubSeq(s, m + 1, m + k)) = (m + k) - m
        /\ \A x \in 1..((m + k) - m) :
             SubSeq(s, m + 1, m + k)[x] = s[m + x] /\ m + x \in 1..Len(s)
    BY <1>3, <1>10, <2>1, Stretch, SMTT(30)
  <2>3. \A x \in 1..Len(s) : s[x].from = c
    BY SentFrom DEF Ordinary, s
  <2>4. \A x \in 1..k : SubSeq(s, m + 1, m + k)[x] = s[m + x] /\ m + x \in 1..Len(s)
    BY <2>1, <2>2
  <2>5. \A x \in 1..k : s[m + x].from = c
    BY <2>3, <2>4
  <2> QED
    BY <1>11, <2>1, <2>2, <2>4, <2>5
<1>13. ASSUME clients[i].filename = filedesc, Alone(i)
       PROVE  Keeps(files'[filedesc], offset', c, SubSeq(s, l + 1, m + k), lost')
  <2> DEFINE part   == SubSeq(s, l + 1, m)
             longer == SubSeq(s, l + 1, m + k)
  <2>1. /\ s \in Seq(Token) /\ l \in Nat /\ m \in Nat /\ m + k \in Nat
        /\ l <= m /\ m <= Len(s) /\ l <= m + k /\ m + k <= Len(s)
    BY <1>3, <1>4, <1>8, <1>10
  <2>2. /\ part \in Seq(Token) /\ Len(part) = m - l
        /\ \A x \in 1..(m - l) : part[x] = s[l + x]
    BY <2>1, Stretch
  <2>3. /\ longer \in Seq(Token) /\ Len(longer) = (m + k) - l
        /\ \A x \in 1..((m + k) - l) : longer[x] = s[l + x]
    BY <2>1, Stretch
  <2> HIDE DEF part, longer
  <2>4. Len(longer) = Len(part) + Len(data(k))
    BY <1>4, <1>8, <1>10, <1>12, <2>2, <2>3
  <2>5. \A x \in 1..Len(part) : longer[x] = part[x]
    <3>1. \A x \in 1..(m - l) : x \in 1..((m + k) - l)
      BY <1>4, <1>8, <1>10
    <3> QED
      BY <2>2, <2>3, <3>1
  <2>6. ASSUME NEW x \in 1..Len(data(k)) PROVE longer[Len(part) + x] = data(k)[x]
    <3>1. x \in 1..k
      BY <1>12, <2>6
    <3>2. (m - l) + x \in 1..((m + k) - l) /\ l + ((m - l) + x) = m + x
      BY <1>4, <1>8, <1>10, <3>1
    <3>3. longer[(m - l) + x] = s[l + ((m - l) + x)]
      BY <2>3, <3>2
    <3> QED
      BY <1>12, <2>2, <3>1, <3>2, <3>3
  <2>7. Keeps(files[filedesc], offset, c, part, lost)
    BY <1>9, <1>13 DEF part
  <2>8. \A x \in 1..Len(data(k)) : data(k)[x].from = c
    BY <1>12
  <2>9. Keeps(files'[filedesc], offset', c, longer, lost')
    BY <1>2, <1>7, <1>12, <2>2, <2>3, <2>4, <2>5, <2>6, <2>7, <2>8, WritesWhatComes
    DEF Ordinary
  <2> QED
    BY <2>9 DEF longer
<1>14. Part(i)'
  <2>1. m + k \in l..Len(s) /\ n \in (m + k)..Len(s)
    BY <1>3, <1>4, <1>8, <1>10
  <2>2. Sent(c)' = s /\ clients'[i].client = c /\ Len(clients'[i].filename) = l
    BY <1>1, <1>3, <1>5 DEF s, l
  <2>3. clients'[i].filename = filedesc' /\ Alone(i)'
          => clients[i].filename = filedesc /\ Alone(i)
    BY <1>3, <1>5
  <2>4. filedesc' = filedesc
    BY <1>3
  <2> QED
    BY <1>11, <1>13, <2>1, <2>2, <2>3, <2>4 DEF Part
<1>15. ASSUME NEW j \in Slots \ {i}, clients[j].ev = "client_socket_cb" PROVE Part(j)'
  <2>1. PICK d \in Clients \ {c} : d = clients[j].client
    BY <1>1, <1>3, <1>15 DEF Ordinary, IInv, Used
  <2> DEFINE p == Len(clients[j].filename)
  <2>2. PICK a, b :
          /\ a \in p..Len(Sent(d)) /\ b \in a..Len(Sent(d))
          /\ chan[d] = SubSeq(Sent(d), a + 1, b)
          /\ clients[j].filename = filedesc /\ Alone(j)
               => Keeps(files[filedesc], offset, d, SubSeq(Sent(d), p + 1, a), lost)
    BY <1>15, <2>1 DEF StreamInv, Parts, Part
  <2>3. ASSUME clients[j].filename = filedesc, Alone(j)
        PROVE  Keeps(files'[filedesc], offset', d, SubSeq(Sent(d), p + 1, a), lost')
    <3>1. \A x \in 1..Len(data(k)) : data(k)[x].from # d
      BY <1>12
    <3>2. Keeps(files[filedesc], offset, d, SubSeq(Sent(d), p + 1, a), lost)
      BY <2>2, <2>3
    <3> QED
      BY <1>2, <1>7, <1>12, <3>1, <3>2, WritesAnother DEF Ordinary
  <2>4. /\ Sent(d)' = Sent(d) /\ clients'[j] = clients[j] /\ chan'[d] = chan[d]
        /\ filedesc' = filedesc /\ (Alone(j)' <=> Alone(j))
    BY <1>3, <1>5, <1>6
  <2> QED
    BY <2>1, <2>2, <2>3, <2>4 DEF Part
<1>16. Parts'
  BY <1>3, <1>14, <1>15 DEF Parts
<1>17. Unsent'
  <2> SUFFICES ASSUME NEW d \in Clients, client_pc'[d] \in {"new", "connected"}
               PROVE  chan'[d] = <<>> /\ ~Named(d)'
    BY DEF Unsent
  <2>1. chan[d] = <<>> /\ ~Named(d)
    BY <1>3 DEF StreamInv, Unsent, clientVars
  <2>2. d # c
    BY <1>1, <1>3, <2>1 DEF Named
  <2> QED
    BY <1>5, <1>6, <2>1, <2>2
<1>18. Whole'
  <2> SUFFICES ASSUME NEW d \in Clients, ~Named(d)'
               PROVE  \E x \in 0..Len(Sent(d)') : chan'[d] = SubSeq(Sent(d)', 1, x)
    BY DEF Whole
  <2>1. ~Named(d)
    BY <1>5
  <2>2. d # c
    BY <1>1, <1>3, <2>1 DEF Named
  <2> QED
    BY <1>5, <1>6, <2>1, <2>2 DEF StreamInv, Whole
<1>19. Unread'
  BY <1>3 DEF StreamInv, Unread
<1> QED
  BY <1>16, <1>17, <1>18, <1>19 DEF StreamInv

\* The streams of the clients are read from their beginning, in order and without a
\* gap, whichever file the server writes them to.
THEOREM FileServerStreams == Spec => []StreamInv
<1>1. Init => StreamInv
  <2> SUFFICES ASSUME Init PROVE StreamInv
    OBVIOUS
  <2>1. \A i \in Slots : clients[i].ev # "client_socket_cb" /\ clients[i].filename = NoFile
    BY DEF Init, Free
  <2>2. \A c : ~Named(c)
    BY <2>1 DEF Named
  <2>3. ASSUME NEW c \in Clients PROVE \E n \in 0..Len(Sent(c)) : chan[c] = SubSeq(Sent(c), 1, n)
    <3>1. typed[c] \in Pieces(c)
      BY LenProperties, ConstantsAssumption DEF Init, Pieces, ConstantsAssumption
    <3>2. Sent(c) \in Seq(Token)
      BY <3>1, SentAfter, ConstantsAssumption DEF Sent, sent_name
    <3>3. 0 \in 0..Len(Sent(c)) /\ SubSeq(Sent(c), 1, 0) = <<>>
      BY <3>2, LenProperties, SubSeqProperties, EmptySeq
    <3> QED
      BY <3>3 DEF Init
  <2>4. Unsent /\ Whole /\ Parts /\ Unread
    BY <2>1, <2>2, <2>3 DEF Init, Unsent, Whole, Parts, Unread
  <2> QED
    BY <2>4 DEF StreamInv
<1>2. Ordinary /\ StreamInv /\ [Next]_vars => StreamInv'
  <2>1. ASSUME StreamInv, UNCHANGED vars PROVE StreamInv'
    BY <2>1, SameStream DEF vars, netVars
  <2> QED
    BY <2>1, ClientStream, ConnectionStream, FirstRead, LaterRead, ConstantsAssumption
    DEF Next
<1>3. NewIsNone /\ IInv /\ TypeOK /\ Opened => Ordinary
  BY DEF Ordinary
<1> QED
  BY <1>1, <1>2, <1>3, SlotsInv, TypesInv, PTL DEF Spec

\* What has been read of the client that owns the open file is in it, in order and
\* once, except what write() left over.
THEOREM FileServerOwnerLosesNothing == Spec => []OwnerLosesNothing
<1>1. StreamInv => OwnerLosesNothing
  <2> SUFFICES ASSUME StreamInv, NEW i \in Slots, Owns(i), Alone(i)
               PROVE  \E m \in Len(filedesc)..Len(Sent(clients[i].client)) :
                        \E n \in m..Len(Sent(clients[i].client)) :
                          /\ Keeps(files[filedesc], offset, clients[i].client,
                                   SubSeq(Sent(clients[i].client), Len(filedesc) + 1, m),
                                   lost)
                          /\ chan[clients[i].client] = SubSeq(Sent(clients[i].client), m + 1, n)
    BY DEF OwnerLosesNothing
  <2>1. Part(i) /\ clients[i].filename = filedesc
    BY DEF StreamInv, Parts, Owns
  <2> QED
    BY <2>1 DEF Part
<1> QED
  BY <1>1, FileServerStreams, PTL

=============================================================================
