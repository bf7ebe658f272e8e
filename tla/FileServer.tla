----------------------------- MODULE FileServer -----------------------------
(***************************************************************************)
(* The file copy exercise of lab 08: server.c, one libevent loop serving   *)
(* up to MAX_CLIENTS connections from an array of slots, and client.c,     *)
(* which sends the name of a file, a NUL byte and the file; what its user   *)
(* types before the connection is made goes ahead of the name.             *)
(*                                                                         *)
(* A name is a sequence of pieces and a file a sequence of blocks, so that *)
(* a read may end inside either.  Every byte sent is a token that says     *)
(* whose it is and which: block 0 is the NUL byte.  A file on the server   *)
(* is a sequence of tokens, known by the name without "copy-".             *)
(***************************************************************************)
EXTENDS Naturals, Sequences

CONSTANTS
  Clients,
  Name,           \* the name each client is given, a sequence of pieces
  Typed,          \* what the user of each client types, in the same pieces
  Blocks,         \* blocks of every client's file
  MAX_CLIENTS,    \* slots of the server
  BUF_SIZE        \* tokens one read() returns at most

ASSUME ConstantsAssumption ==
  /\ \A c \in Clients : /\ Name[c] \in Seq(STRING) /\ Name[c] # <<>>
                         /\ Typed[c] \in Seq(STRING)
  /\ Blocks \in Nat
  /\ MAX_CLIENTS \in Nat /\ BUF_SIZE \in Nat \ {0}

VARIABLES
  alive,          \* FALSE once syserr() has ended the server
  filedesc, offset,             \* the file last opened (<<>> for none), how far
  files,          \* what each file of the server holds
  lost,           \* history: the tokens write() left over, which nobody looks at
  clients,        \* the slots: callback, client and filename
  client_pc,      \* "new", "connected", "sent", "exited"
  typed,          \* how much of what its user types a client has queued
  conn,           \* each connection: "none", "queued", "open", "closed"
  chan,           \* what a client has sent and the server has not read
  confirmed,      \* clients that were sent "Koniec"
  printed         \* clients whose file name and size were printed

fileVars   == <<filedesc, offset, files, lost>>
clientVars == <<client_pc, typed>>
netVars    == <<conn, chan>>
vars == <<alive, fileVars, clients, clientVars, netVars, confirmed, printed>>

NoFile == <<>>
Free == [ev |-> "none", client |-> "nobody", filename |-> NoFile]
Slots == 1..MAX_CLIENTS

\* The name a client sends after t pieces from its user, and what a read of it may
\* leave.
NameAfter(c, t) == SubSeq(Typed[c], 1, t) \o Name[c]
Pieces(c) == 0..Len(Typed[c])
FileNames ==
  UNION {UNION {{SubSeq(NameAfter(c, t), 1, k) : k \in 1..Len(NameAfter(c, t))} :
                  t \in Pieces(c)} : c \in Clients}
sent_name(c) == NameAfter(c, typed[c])

\* What client c sends: its name, NUL, its file.
Sent(c) ==
  [i \in 1..Len(sent_name(c)) |-> [from |-> c, name |-> i, block |-> 0]]
    \o [i \in 1..Blocks + 1 |-> [from |-> c, name |-> 0, block |-> i - 1]]

\* write() at the offset: O_TRUNC is not given, older content stays behind it.
Written(content, at, data) ==
  SubSeq(content, 1, at) \o data
    \o SubSeq(content, at + Len(data) + 1, Len(content))

Init ==
  /\ alive = TRUE
  /\ filedesc = NoFile /\ offset = 0
  /\ files = [f \in FileNames |-> <<>>] /\ lost = {}
  /\ clients = [i \in Slots |-> Free]
  /\ client_pc = [c \in Clients |-> "new"] /\ typed = [c \in Clients |-> 0]
  /\ conn = [c \in Clients |-> "none"]
  /\ chan = [c \in Clients |-> <<>>]
  /\ confirmed = {} /\ printed = {}

-----------------------------------------------------------------------------
(* client.c *)

serverVars == <<alive, fileVars, clients, confirmed, printed>>

Connect(c) ==
  /\ client_pc[c] = "new" /\ alive
  /\ client_pc' = [client_pc EXCEPT ![c] = "connected"]
  /\ conn' = [conn EXCEPT ![c] = "queued"]
  /\ UNCHANGED <<serverVars, typed, chan>>

\* stdin_cb: a piece goes to the output buffer.  Once the name is in it the loop
\* has been left.
stdin_cb(c) ==
  /\ client_pc[c] \in {"new", "connected"} /\ typed[c] < Len(Typed[c])
  /\ typed' = [typed EXCEPT ![c] = @ + 1]
  /\ UNCHANGED <<serverVars, client_pc, netVars>>

\* The end of stdin, or an_event_cb with an error, breaks the loop; nothing of the
\* output buffer was sent.
GivesUp(c) ==
  /\ client_pc[c] \in {"new", "connected"}
  /\ client_pc' = [client_pc EXCEPT ![c] = "exited"]
  /\ UNCHANGED <<serverVars, typed, netVars>>

\* an_event_cb and read_file: everything goes to the output buffer, and the end
\* of the file breaks the event loop.  libevent writes once more on the way out,
\* as much as the socket takes.
read_file(c) ==
  /\ client_pc[c] = "connected"
  /\ client_pc' = [client_pc EXCEPT ![c] = "sent"]
  /\ \E k \in 0..Len(Sent(c)) :
       chan' = [chan EXCEPT ![c] = SubSeq(Sent(c), 1, k)]
  /\ UNCHANGED <<serverVars, typed, conn>>

\* main returns from the loop and the connection is closed.
Exit(c) ==
  /\ client_pc[c] = "sent"
  /\ client_pc' = [client_pc EXCEPT ![c] = "exited"]
  /\ UNCHANGED <<serverVars, typed, netVars>>

-----------------------------------------------------------------------------
(* server.c *)

FreeSlots == {i \in Slots : clients[i].ev = "none"}

\* The first free slot takes the connection; without one it is closed.
listener_socket_cb(c) ==
  /\ alive /\ conn[c] = "queued"
  /\ \/ /\ FreeSlots = {}
        /\ conn' = [conn EXCEPT ![c] = "closed"]
        /\ UNCHANGED clients
     \/ \E i \in FreeSlots :
          /\ \A j \in FreeSlots : i <= j
          /\ conn' = [conn EXCEPT ![c] = "open"]
          /\ clients' = [clients EXCEPT ![i] =
               [ev |-> "read_filename", client |-> c, filename |-> NoFile]]
  /\ UNCHANGED <<alive, fileVars, clientVars, chan, confirmed, printed>>

\* read(sock, buf, BUF_SIZE) takes k tokens.
Reads(c, k) == chan' = [chan EXCEPT ![c] = SubSeq(@, k + 1, Len(@))]

ReadLengths(c) == 1..IF Len(chan[c]) < BUF_SIZE THEN Len(chan[c]) ELSE BUF_SIZE

\* How many of the first k tokens of a connection are of the name.
OfName(c, k) == IF k < Len(sent_name(c)) THEN k ELSE Len(sent_name(c))

\* write() of data to file f: it may take less than it is given.  Its result is not
\* looked at, or only for an error.
Writes(f, at, data) ==
  \E n \in 0..Len(data) :
    /\ files' = [files EXCEPT ![f] = Written(@, at, SubSeq(data, 1, n))]
    /\ offset' = at + n
    /\ lost' = lost \union {data[x] : x \in n + 1 .. Len(data)}

Ended(c) == client_pc[c] = "exited" /\ chan[c] = <<>>

\* Mutant: the bytes read after the name are not written.
read_filename_Drops(i) ==
  LET c == clients[i].client
  IN  /\ alive /\ clients[i].ev = "read_filename"
      /\ \E k \in ReadLengths(c) :
           LET name == SubSeq(sent_name(c), 1, OfName(c, k))
           IN  /\ Reads(c, k)
               /\ clients' = [clients EXCEPT ![i] =
                    [ev |-> "client_socket_cb", client |-> c, filename |-> name]]
               /\ filedesc' = name /\ offset' = 0
               /\ UNCHANGED <<files, lost>>
      /\ UNCHANGED <<alive, clientVars, conn, confirmed, printed>>

\* The first read of a connection: what precedes NUL names the file, NUL and the
\* rest are written to it, also when that write() fails.  filedesc is one variable
\* for all connections.
read_filename(i) ==
  LET c == clients[i].client
  IN  /\ alive /\ clients[i].ev = "read_filename"
      /\ \E k \in ReadLengths(c) :
           LET name == SubSeq(sent_name(c), 1, OfName(c, k))
               rest == SubSeq(chan[c], OfName(c, k) + 1, k)
           IN  /\ Reads(c, k)
               /\ clients' = [clients EXCEPT ![i] =
                    [ev |-> "client_socket_cb", client |-> c, filename |-> name]]
               /\ filedesc' = name /\ Writes(name, 0, rest)
      /\ UNCHANGED <<alive, clientVars, conn, confirmed, printed>>

\* Mutant: the slot of a connection that ends before its name is not freed.
FilenameEnds_KeepsSlot(i) ==
  LET c == clients[i].client
  IN  /\ alive /\ clients[i].ev = "read_filename" /\ Ended(c)
      /\ conn' = [conn EXCEPT ![c] = "closed"]
      /\ clients' = [clients EXCEPT ![i].ev = "closed"]
      /\ UNCHANGED <<alive, fileVars, clientVars, chan, confirmed, printed>>

\* The connection ends before it has named a file.
FilenameEnds(i) ==
  LET c == clients[i].client
  IN  /\ alive /\ clients[i].ev = "read_filename" /\ Ended(c)
      /\ conn' = [conn EXCEPT ![c] = "closed"]
      /\ clients' = [clients EXCEPT ![i] = Free]
      /\ UNCHANGED <<alive, fileVars, clientVars, chan, confirmed, printed>>

\* A later read: the data goes to the file last opened.
client_socket_cb(i) ==
  LET c == clients[i].client
  IN  /\ alive /\ clients[i].ev = "client_socket_cb"
      /\ \E k \in ReadLengths(c) :
           Reads(c, k) /\ Writes(filedesc, offset, SubSeq(chan[c], 1, k))
      /\ UNCHANGED <<alive, filedesc, clients, clientVars, conn, confirmed,
                     printed>>

\* The connection ends: filedesc is closed, "Koniec" is written to the socket,
\* and whatever write() returns, it is taken for an error before the socket is
\* closed, the slot is freed and the name and size are printed.
SocketEnds(i) ==
  LET c == clients[i].client
  IN  /\ alive /\ clients[i].ev = "client_socket_cb" /\ Ended(c)
      /\ confirmed' \in {confirmed, confirmed \union {c}}
      /\ alive' = FALSE
      /\ UNCHANGED <<fileVars, clients, clientVars, netVars, printed>>

\* open() fails for a new connection, or write() for a later read.
FileFails(i) ==
  /\ alive /\ clients[i].ev # "none" /\ chan[clients[i].client] # <<>>
  /\ alive' = FALSE
  /\ UNCHANGED <<fileVars, clients, clientVars, netVars, confirmed, printed>>

Next ==
  \/ \E c \in Clients : Connect(c) \/ stdin_cb(c) \/ GivesUp(c) \/ read_file(c)
                          \/ Exit(c) \/ listener_socket_cb(c)
  \/ \E i \in Slots : read_filename(i) \/ FilenameEnds(i) \/ client_socket_cb(i)
                        \/ SocketEnds(i) \/ FileFails(i)

Spec == Init /\ [][Next]_vars

-----------------------------------------------------------------------------
(* Properties *)

Token == [from : Clients, name : Nat, block : Nat]
Connection ==
  [ev : {"read_filename", "client_socket_cb"}, client : Clients,
   filename : FileNames \union {NoFile}]

\* Every variable keeps its type.
TypeOK ==
  /\ alive \in BOOLEAN
  /\ filedesc \in FileNames \union {NoFile} /\ offset \in Nat
  /\ files \in [FileNames -> Seq(Token)] /\ lost \subseteq Token
  /\ clients \in [Slots -> Connection \union {Free}]
  /\ client_pc \in [Clients -> {"new", "connected", "sent", "exited"}]
  /\ typed \in [Clients -> Nat] /\ \A c \in Clients : typed[c] \in Pieces(c)
  /\ conn \in [Clients -> {"none", "queued", "open", "closed"}]
  /\ chan \in [Clients -> Seq(Token)]
  /\ confirmed \subseteq Clients /\ printed \subseteq Clients

\* An open connection is in exactly one slot and every used slot has an open
\* connection, through accepts, refusals and early ends: slots neither leak nor
\* are given away twice (get_client_slot, cl->ev).
SlotsAccounted ==
  alive =>
    /\ \A c \in Clients : conn[c] = "open" =>
         \E i \in Slots : clients[i].ev # "none" /\ clients[i].client = c
    /\ \A i \in Slots \ FreeSlots : conn[clients[i].client] = "open"
    /\ \A i, j \in Slots \ FreeSlots : clients[i].client = clients[j].client => i = j

\* The client whose name was read last.
Owns(i) == clients[i].ev = "client_socket_cb" /\ clients[i].filename = filedesc

Alone(i) == \A j \in Slots : clients[j].filename = filedesc => j = i

\* Among the first n tokens of a file those of c are tokens of part, once and in
\* order, and every one that is not in left.
Keeps(file, n, c, part, left) ==
  LET kept == {k \in 1..n : file[k].from = c}
      all  == {part[i] : i \in DOMAIN part}
  IN  /\ {file[k] : k \in kept} \subseteq all
      /\ all \subseteq {file[k] : k \in kept} \union left
      /\ \A k, l \in kept : k < l =>
           \E i, j \in DOMAIN part : i < j /\ file[k] = part[i] /\ file[l] = part[j]

\* Whatever other connections write into it, the file of a client that alone has
\* its name and was named last gets every token the server has read from it after
\* the name, in order and once, except those a short or failed write() left over:
\* of what the client sends, the name and m - l more tokens have been read, and
\* those up to n are on their way.
OwnerLosesNothing ==
  \A i \in Slots :
    Owns(i) /\ Alone(i) =>
      LET c == clients[i].client
          l == Len(filedesc)
      IN  \E m \in l..Len(Sent(c)) : \E n \in m..Len(Sent(c)) :
            /\ Keeps(files[filedesc], offset, c, SubSeq(Sent(c), l + 1, m), lost)
            /\ chan[c] = SubSeq(Sent(c), m + 1, n)

\* The exercise: data is written to files "o nazwach skladajacych sie z nazwy
\* podanej przez klienta" (named after what the client gave).
DataInOwnFile ==
  \A f \in FileNames : \A k \in DOMAIN files[f] : f = Name[files[f][k].from]

\* The exercise: "Po otrzymaniu calego pliku serwer wypisuje ... jego nazwe oraz
\* rozmiar, po czym odsyla klientowi potwierdzenie" (prints name and size, and then
\* confirms to the client).
PrintsThenConfirms == confirmed \subseteq printed
=============================================================================
