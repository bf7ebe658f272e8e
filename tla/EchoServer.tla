----------------------------- MODULE EchoServer -----------------------------
(***************************************************************************)
(* The poll() servers of scenario 07: poll_server.c, which prints what its *)
(* clients send, and nonblocking-socket/echo-server-nonblocking.c, which   *)
(* sends it back through non-blocking sockets; with the clients client.c,  *)
(* which only writes, up to a line BYE, and echo-client-timeout.c, which   *)
(* reads when a write makes no progress for half a second.  program says   *)
(* which pair runs.                                                        *)
(*                                                                         *)
(* The server is one thread: poll(), then accept(), then the array slot by *)
(* slot, one step each, with revents as poll() left them and taken away    *)
(* when they are dealt with.  Clients and SIGINT go on between any two     *)
(* steps.  TCP is external: two bounded queues and what the server's end   *)
(* knows of the client's end (peer).                                       *)
(***************************************************************************)
EXTENDS Naturals, Sequences, FiniteSets, SequencesExt

CONSTANTS
  Clients, None,
  Stopped,      \* clients whose user may suspend them for ever
  Bye,          \* clients whose last line begins with BYE
  Slots,        \* _POSIX_OPEN_MAX - 1
  BufSize,      \* BUF_SIZE of the server
  UpRoom, DownRoom, \* bytes a connection holds, to the server and back
  Input,        \* bound: bytes each client of a program has in its input
  Line          \* bytes of a line

ASSUME ConstantsAssumption ==
  /\ None \notin Clients /\ Stopped \subseteq Clients /\ Bye \subseteq Clients
  /\ {Slots, BufSize, UpRoom, DownRoom, Line} \subseteq Nat \ {0}
  /\ Input \in [{"poll", "echo"} -> [Clients -> Nat]]
  /\ \A c \in Clients : Input["poll"][c] > 0

VARIABLES
  program,
  finish, listening, backlog,   \* the listening socket and its queue
  table, events, pending,       \* client[i].fd, .events, buf[i][buf_pos..buf_len)
  activeClients,
  revents, pc,                  \* the turn of the server's loop
  client, sent, got,            \* the clients
  up, down, peer, hung          \* the connections

listenVars == <<finish, listening, backlog>>
slotVars   == <<table, events, pending, activeClients>>
loopVars   == <<revents, pc>>
clientVars == <<client, sent, got>>
tcpVars    == <<up, down, peer, hung>>
vars == <<program, listenVars, slotVars, loopVars, clientVars, tcpVars>>

Least(a, b) == IF a < b THEN a ELSE b
Drop(s, n) == SubSeq(s, n + 1, Len(s))
Take(s, n) == SubSeq(s, 1, n)
Bytes(m, n) == [i \in 1..(n - m) |-> m + i]   \* m+1 .. n

Init ==
  /\ program \in {"poll", "echo"}
  /\ finish = FALSE /\ listening = TRUE /\ backlog = <<>>
  /\ table = [i \in 1..Slots |-> None]
  /\ events = [i \in 1..Slots |-> "in"]
  /\ pending = [i \in 1..Slots |-> <<>>]
  /\ activeClients = 0
  /\ revents = [i \in 0..Slots |-> {}] /\ pc = "poll"
  /\ client = [c \in Clients |-> "start"]
  /\ sent = [c \in Clients |-> 0] /\ got = [c \in Clients |-> <<>>]
  /\ up = [c \in Clients |-> <<>>] /\ down = [c \in Clients |-> <<>>]
  /\ peer = [c \in Clients |-> "open"] /\ hung = [c \in Clients |-> FALSE]

-----------------------------------------------------------------------------
(* The server *)

catch_int ==
  /\ ~finish
  /\ finish' = TRUE
  /\ UNCHANGED <<program, listening, backlog, slotVars, loopVars, clientVars,
                 tcpVars>>

\* The end of the process, or of the listening socket, hangs up on the queue.
HangUp(cs) == hung' = [c \in Clients |-> hung[c] \/ c \in cs]

CloseListening ==
  /\ pc = "poll" /\ finish /\ listening
  /\ listening' = FALSE /\ backlog' = <<>>
  /\ HangUp(ToSet(backlog))
  /\ UNCHANGED <<program, finish, slotVars, loopVars, clientVars, up, down, peer>>

\* What poll() reports for slot i; errors are reported unasked.
Ready(i) ==
  LET c    == table[i]
      gone == peer[c] # "open"
  IN  IF c = None THEN {}
      ELSE {e \in {"in", "out", "err"} :
              \/ e = "in" /\ events[i] = e /\ (up[c] # <<>> \/ gone)
              \/ e = "out" /\ events[i] = e /\ (Len(down[c]) < DownRoom \/ gone)
              \/ e = "err" /\ peer[c] \in {"reset", "epipe"}}

poll ==
  /\ pc = "poll" /\ ~(finish /\ listening)
  /\ revents' = [i \in 0..Slots |-> IF i > 0 THEN Ready(i)
                                    ELSE {e \in {"in"} : backlog # <<>>}]
  /\ \E i \in 0..Slots : revents'[i] # {}
  /\ pc' = "accept"
  /\ UNCHANGED <<program, listenVars, slotVars, clientVars, tcpVars>>

\* The loop ends once nobody is left after SIGINT.
Again == IF finish /\ activeClients = 0 THEN "exit" ELSE "poll"

\* poll() timed out or was interrupted.
PollNothing ==
  /\ pc = "poll" /\ ~(finish /\ listening) /\ Again = "exit"
  /\ pc' = "exit"
  /\ UNCHANGED <<program, listenVars, slotVars, revents, clientVars, tcpVars>>

Free == {i \in 1..Slots : table[i] = None}

\* Too many clients.
Refuse(c) == HangUp({c}) /\ UNCHANGED slotVars

accept ==
  /\ pc = "accept"
  /\ \/ /\ ~finish /\ revents[0] # {}
        /\ backlog' = Tail(backlog)
        /\ \/ Free = {} /\ Refuse(Head(backlog))
           \/ \E i \in Free :
                /\ \A j \in Free : i <= j
                /\ table' = [table EXCEPT ![i] = Head(backlog)]
                /\ events' = [events EXCEPT ![i] = "in"]
                /\ activeClients' = activeClients + 1
                /\ UNCHANGED <<pending, hung>>
     \/ /\ finish \/ revents[0] = {}
        /\ UNCHANGED <<backlog, slotVars, hung>>
  /\ pc' = "scan" /\ revents' = [revents EXCEPT ![0] = {}]
  /\ UNCHANGED <<program, finish, listening, clientVars, up, down, peer>>

\* Mutant: a connection that ends is not counted out.
close_Uncounted(i) ==
  /\ table' = [table EXCEPT ![i] = None]
  /\ pending' = [pending EXCEPT ![i] = <<>>]
  /\ HangUp({table[i]})
  /\ UNCHANGED <<events, activeClients>>

close(i) ==
  /\ table' = [table EXCEPT ![i] = None]
  /\ activeClients' = activeClients - 1
  /\ pending' = [pending EXCEPT ![i] = <<>>]
  /\ HangUp({table[i]})
  /\ UNCHANGED events

\* Mutant: the server goes on polling for input while an echo is pending.
Received_KeepsReading(i, bytes) ==
  /\ pending' = [pending EXCEPT ![i] = bytes]
  /\ events' = [events EXCEPT ![i] = "in"]
  /\ UNCHANGED <<table, activeClients, hung>>

\* The echo server takes the buffer and turns to writing.
Received(i, bytes) ==
  /\ IF program = "echo"
     THEN /\ pending' = [pending EXCEPT ![i] = bytes]
          /\ events' = [events EXCEPT ![i] = "out"]
     ELSE UNCHANGED <<pending, events>>
  /\ UNCHANGED <<table, activeClients, hung>>

\* The slot the scan has come to.
Turn(i) ==
  /\ pc = "scan" /\ revents[i] # {}
  /\ \A j \in 1..(i - 1) : revents[j] = {}

ReadSlot(i) ==
  /\ Turn(i) /\ revents[i] # {"out"}
  /\ LET c == table[i]
         n == Least(BufSize, Len(up[c]))
     IN  /\ IF n > 0 THEN Received(i, Take(up[c], n)) ELSE close(i)
         /\ up' = [up EXCEPT ![c] = Drop(@, n)]
         /\ revents' = [revents EXCEPT
              ![i] = IF n > 0 THEN @ \ {"in", "err"} ELSE {}]
  /\ UNCHANGED <<program, listenVars, pc, clientVars, down, peer>>

\* Mutant: without O_NONBLOCK a write waits until all of it is taken.
Fits_Blocking(c, bytes) == Len(bytes) <= DownRoom - Len(down[c])

\* A non-blocking write takes what fits.
Fits(c, bytes) == TRUE

\* To a client that closed the bytes are lost, and its host may answer with a
\* reset; to one whose reset is known already the write raises SIGPIPE, which
\* the servers do not handle, unless the reset came first (ECONNRESET).
WriteSlot(i) ==
  /\ Turn(i) /\ revents[i] = {"out"}
  /\ LET c == table[i]
         n == Least(DownRoom - Len(down[c]), Len(pending[i]))
     IN  CASE peer[c] = "epipe" ->
                /\ pc' = "dead"
                /\ HangUp(Clients)
                /\ UNCHANGED <<slotVars, down, peer>>
           [] peer[c] = "reset" \/ n = 0 ->
                close(i) /\ UNCHANGED <<pc, down, peer>>
           [] OTHER ->
                /\ Fits(c, pending[i])
                /\ pending' = [pending EXCEPT ![i] = Drop(@, n)]
                /\ events' = [events EXCEPT
                     ![i] = IF n = Len(pending[i]) THEN "in" ELSE @]
                /\ IF peer[c] = "open"
                   THEN /\ down' = [down EXCEPT ![c] = @ \o Take(pending[i], n)]
                        /\ UNCHANGED peer
                   ELSE /\ UNCHANGED down
                        /\ \E p \in {"fin", "epipe"} :
                             peer' = [peer EXCEPT ![c] = p]
                /\ UNCHANGED <<table, activeClients, pc, hung>>
  /\ revents' = [revents EXCEPT ![i] = {}]
  /\ UNCHANGED <<program, listenVars, clientVars, up>>

ScanEnds ==
  /\ pc = "scan" /\ \A i \in 1..Slots : revents[i] = {}
  /\ pc' = Again
  /\ UNCHANGED <<program, listenVars, slotVars, revents, clientVars, tcpVars>>

\* exit() closes the listening socket if SIGINT came after poll().
Exit ==
  /\ pc = "exit" /\ listening
  /\ listening' = FALSE /\ backlog' = <<>>
  /\ HangUp(ToSet(backlog))
  /\ UNCHANGED <<program, finish, slotVars, loopVars, clientVars, up, down, peer>>

Server == \/ CloseListening \/ poll \/ PollNothing \/ accept
          \/ ScanEnds \/ Exit
          \/ \E i \in 1..Slots : ReadSlot(i) \/ WriteSlot(i)

-----------------------------------------------------------------------------
(* The clients *)

connect(c) ==
  /\ client[c] = "start"
  /\ IF listening /\ pc # "dead"
     THEN client' = [client EXCEPT ![c] = "send"] /\ backlog' = Append(backlog, c)
     ELSE client' = [client EXCEPT ![c] = "failed"] /\ UNCHANGED backlog
  /\ UNCHANGED <<program, finish, listening, slotVars, loopVars, sent, got, tcpVars>>

input(c) == Input[program][c]

\* What is left of the line that is being written.
to_send(c) == Least(Line - (sent[c] % Line), input(c) - sent[c])

write(c) ==
  /\ client[c] \in {"send", "again"}
  /\ LET n == Least(to_send(c), UpRoom - Len(up[c])) IN
     /\ n > 0
     /\ up' = [up EXCEPT ![c] = @ \o Bytes(sent[c], sent[c] + n)]
     /\ sent' = [sent EXCEPT ![c] = @ + n]
  /\ UNCHANGED <<program, listenVars, slotVars, loopVars, client, got, down, peer,
                 hung>>

\* SO_SNDTIMEO: nothing more fitted for half a second.
WriteTimesOut(c) ==
  /\ client[c] = "send" /\ program = "echo"
  /\ to_send(c) > 0 /\ Len(up[c]) = UpRoom
  /\ client' = [client EXCEPT ![c] = "read"]
  /\ UNCHANGED <<program, listenVars, slotVars, loopVars, sent, got, tcpVars>>

read_something(c) ==
  /\ client[c] = "read" /\ down[c] # <<>>
  /\ got' = [got EXCEPT ![c] = @ \o down[c]]
  /\ down' = [down EXCEPT ![c] = <<>>]
  /\ client' = [client EXCEPT ![c] = "send"]
  /\ UNCHANGED <<program, listenVars, slotVars, loopVars, sent, up, peer, hung>>

\* client.c leaves after a line BYE only.
Repeats(c) == program = "poll" /\ c \notin Bye

\* At the end of its input fgets() leaves the last line where it is, which is sent
\* once more, and so on.
EndOfInput(c) ==
  /\ client[c] \in {"send", "again"} /\ sent[c] = input(c) /\ Repeats(c)
  /\ client' = [client EXCEPT ![c] = "again"]
  /\ sent' = [sent EXCEPT ![c] = ((input(c) - 1) \div Line) * Line]
  /\ UNCHANGED <<program, listenVars, slotVars, loopVars, got, tcpVars>>

\* The client leaves without waiting for the rest of its echo.  Closing with unread
\* bytes resets the connection, and what the server has not received yet is lost.
Leave(c) ==
  /\ client[c] = "send" /\ sent[c] = input(c) /\ ~Repeats(c)
  /\ client' = [client EXCEPT ![c] = "done"]
  /\ down' = [down EXCEPT ![c] = <<>>] /\ got' = [got EXCEPT ![c] = <<>>]
  /\ IF down[c] = <<>>
     THEN peer' = [peer EXCEPT ![c] = "fin"] /\ UNCHANGED up
     ELSE /\ peer' = [peer EXCEPT ![c] = "reset"]
          /\ \E n \in 0..Len(up[c]) : up' = [up EXCEPT ![c] = Take(@, n)]
  /\ UNCHANGED <<program, listenVars, slotVars, loopVars, sent, hung>>

\* A read or a write finds that the server hung up.
Fail(c) ==
  /\ client[c] \in {"send", "read", "again"} /\ hung[c]
  /\ client' = [client EXCEPT ![c] = "failed"]
  /\ UNCHANGED <<program, listenVars, slotVars, loopVars, sent, got, tcpVars>>

Client(c) == \/ connect(c) \/ write(c) \/ WriteTimesOut(c)
             \/ read_something(c) \/ EndOfInput(c) \/ Leave(c) \/ Fail(c)

Next == catch_int \/ Server \/ \E c \in Clients : Client(c)

Fairness == WF_vars(Server) /\ \A c \in Clients \ Stopped : WF_vars(Client(c))

Spec == Init /\ [][Next]_vars /\ Fairness

-----------------------------------------------------------------------------
(* Properties *)

\* Every variable keeps its type.
TypeOK ==
  /\ program \in {"poll", "echo"}
  /\ finish \in BOOLEAN /\ listening \in BOOLEAN /\ backlog \in Seq(Clients)
  /\ table \in [1..Slots -> Clients \union {None}]
  /\ events \in [1..Slots -> {"in", "out"}]
  /\ pending \in [1..Slots -> Seq(Nat)]
  /\ activeClients \in 0..Slots
  /\ revents \in [0..Slots -> SUBSET {"in", "out", "err"}]
  /\ pc \in {"poll", "accept", "scan", "exit", "dead"}
  /\ client \in [Clients -> {"start", "send", "read", "again", "done", "failed"}]
  /\ sent \in [Clients -> Nat] /\ got \in [Clients -> Seq(Nat)]
  /\ up \in [Clients -> Seq(Nat)] /\ down \in [Clients -> Seq(Nat)]
  /\ peer \in [Clients -> {"open", "fin", "reset", "epipe"}]
  /\ hung \in [Clients -> BOOLEAN]

\* activeClients, which decides when the server may end after SIGINT, counts the
\* slots in use, and what the scan still believes of a slot is about the
\* connection in it: no revents outlive their connection into the next one.
SlotsAccounted ==
  /\ activeClients = Cardinality({i \in 1..Slots : table[i] # None})
  /\ \A i, j \in 1..Slots : table[i] = table[j] /\ i # j => table[i] = None
  /\ pc \in {"accept", "scan"}
       => \A i \in 1..Slots : revents[i] # {} => table[i] # None

\* While a client of the echo server is there, every byte it sent is in exactly
\* one place and in order: with the client again, on the way back, in the
\* server's buffer or on the way there.  Nothing is overwritten in buf[i].
EchoIntact ==
  program = "echo" =>
    \A i \in 1..Slots :
      LET c == table[i] IN
      c # None /\ peer[c] = "open" =>
        got[c] \o down[c] \o (IF events[i] = "out" THEN pending[i] ELSE <<>>) \o up[c]
          = Bytes(0, sent[c])

Served(c) == \E i \in 1..Slots : table[i] = c

\* Sockets do not block, "so that the lack of ability to write to one does not
\* block the service of the others" (header of echo-server-nonblocking.c, and
\* the same of the printing server): a client with a slot that keeps running
\* sends everything, whatever suspended clients and those that never end do,
\* unless the server is killed.  In particular client and server never wait for
\* each other.
Independent ==
  \A c \in Clients \ Stopped :
    Served(c) ~> client[c] \in {"done", "again"} \/ pc = "dead"

\* After SIGINT the server ends once its clients left; only a client that is
\* suspended, or goes on with its last line, can keep it.
DrainEnds ==
  finish ~> \/ pc \in {"exit", "dead"}
            \/ \E c \in Clients : Served(c) /\ (c \in Stopped \/ Repeats(c))
=============================================================================
