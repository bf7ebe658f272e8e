------------------------------- MODULE Sender -------------------------------
(***************************************************************************)
(* The radio sender, big3/nadajnik.cpp with fifo.cpp and set.cpp.          *)
(*                                                                         *)
(* Three threads share the process: main reads blocks of PSIZE bytes from  *)
(* stdin, multicasts each one and keeps the last max_count of them in a    *)
(* FIFO; ctrl_loop collects the packet numbers receivers ask for;          *)
(* replay_loop takes the collected numbers every RTIME and multicasts the  *)
(* ones the FIFO still holds.  mutex_requests protects the collected       *)
(* numbers, mutex_mcast_socket the FIFO and the multicast socket.          *)
(*                                                                         *)
(* A packet number counts packets (byte_num / PSIZE), and the payload of a *)
(* packet is the ordinal of the read of stdin that produced it.            *)
(***************************************************************************)
EXTENDS Naturals, Sequences

CONSTANTS
  max_count,    \* FSIZE / PSIZE, packets the FIFO keeps; 0 when FSIZE < PSIZE
  Requests,     \* packet numbers a control datagram may name
  MaxReads,     \* bound: reads of stdin that return data
  MaxCtrl       \* bound: control datagrams received

ASSUME ConstantsAssumption ==
  /\ max_count \in Nat
  /\ Requests \subseteq Nat
  /\ MaxReads \in Nat
  /\ MaxCtrl \in Nat

VARIABLES
  finish,       \* set at end of input or by SIGINT, polled by every loop
  alive,        \* FALSE once syserr() has called exit()
  closed,       \* closeAll() has run
  stdin,        \* "open", or how it ended: "eof" (file) or "hup" (pipe)
  reads,        \* reads of stdin that returned data so far
  main_pc, audio_data, byte_num,
  fifo,         \* Fifo::list, oldest packet first
  mutex_mcast_socket, mutex_requests,     \* holder, or "free"
  retransmision_requests,
  ctrl_pc, ctrl_batch, ctrl_count,        \* numbers still to insert
  replies,      \* answers to lookups handed to the control socket
  replay_pc, copy_requests,
  wire,         \* every datagram the multicast socket has accepted
  out           \* the latest of them

mainVars   == <<main_pc, audio_data, byte_num, fifo, reads, closed>>
ctrlVars   == <<ctrl_pc, ctrl_batch, ctrl_count, replies>>
replayVars == <<replay_pc, copy_requests>>
netVars    == <<wire, out>>
vars == <<finish, alive, stdin, mainVars, mutex_mcast_socket, mutex_requests,
          retransmision_requests, ctrlVars, replayVars, netVars>>

Packet == [num : Nat, data : Nat]

\* What out shows before the first datagram.
NoPacket == [num |-> 0, data |-> 0]

\* The packet numbers the FIFO can still serve.
Held == {fifo[i].num : i \in DOMAIN fifo}

\* Mutant: the FIFO is trimmed one packet too early.
add_to_queue_Early(list, pack) ==
  LET longer == Append(list, pack)
  IN  IF Len(longer) >= max_count THEN Tail(longer) ELSE longer

\* Fifo::add_to_queue
add_to_queue(list, pack) ==
  LET longer == Append(list, pack)
  IN  IF Len(longer) > max_count THEN Tail(longer) ELSE longer

send_Mcast(pack) ==
  /\ wire' = wire \union {pack}
  /\ out' = pack

\* syserr() ends the process, whichever thread calls it.
syserr ==
  /\ alive' = FALSE
  /\ UNCHANGED <<finish, stdin, mainVars, mutex_mcast_socket, mutex_requests,
                 retransmision_requests, ctrlVars, replayVars, netVars>>

Init ==
  /\ finish = FALSE /\ alive = TRUE /\ closed = FALSE
  /\ stdin = "open" /\ reads = 0
  /\ main_pc = "poll" /\ audio_data = 0 /\ byte_num = 0
  /\ fifo = <<>>
  /\ mutex_mcast_socket = "free" /\ mutex_requests = "free"
  /\ retransmision_requests = {}
  /\ ctrl_pc = "poll" /\ ctrl_batch = {} /\ ctrl_count = 0 /\ replies = 0
  /\ replay_pc = "sleep" /\ copy_requests = {}
  /\ wire = {} /\ out = NoPacket

-----------------------------------------------------------------------------
(* main *)

mainOthers == <<alive, stdin, mutex_requests, retransmision_requests,
                ctrlVars, replayVars>>

\* poll() reports POLLIN for data and for the end of a file; for a pipe whose
\* writer is gone it reports POLLHUP alone, and the loop polls again.
MainPoll ==
  /\ main_pc = "poll" /\ ~finish
  /\ (stdin = "open" /\ reads < MaxReads) \/ stdin = "eof"
  /\ main_pc' = "read"
  /\ UNCHANGED <<finish, audio_data, byte_num, fifo, reads, closed,
                 mutex_mcast_socket, netVars, mainOthers>>

\* Mutant: end of file is taken for a short read.
MainRead_IgnoresEof ==
  /\ main_pc = "read"
  /\ main_pc' = "poll"
  /\ UNCHANGED <<finish, audio_data, reads, byte_num, fifo, closed,
                 mutex_mcast_socket, netVars, mainOthers>>

\* Only a read of exactly PSIZE bytes becomes a packet; a shorter one is
\* dropped with its bytes, and byte_num does not count it.
MainRead ==
  /\ main_pc = "read"
  /\ \/ /\ stdin = "open"
        /\ reads' = reads + 1
        /\ \/ audio_data' = reads + 1 /\ main_pc' = "lock"
           \/ audio_data' = 0 /\ main_pc' = "poll"
        /\ UNCHANGED finish
     \/ /\ stdin = "eof"
        /\ finish' = TRUE
        /\ main_pc' = "poll"
        /\ UNCHANGED <<audio_data, reads>>
  /\ UNCHANGED <<byte_num, fifo, closed, mutex_mcast_socket, netVars,
                 mainOthers>>

MainReadFails == main_pc = "read" /\ syserr

MainLock ==
  /\ main_pc = "lock"
  /\ mutex_mcast_socket = "free"
  /\ mutex_mcast_socket' = "main"
  /\ main_pc' = "send"
  /\ UNCHANGED <<finish, audio_data, byte_num, fifo, reads, closed, netVars,
                 mainOthers>>

MainSend ==
  /\ main_pc = "send"
  /\ send_Mcast([num |-> byte_num, data |-> audio_data])
  /\ main_pc' = "add"
  /\ UNCHANGED <<finish, audio_data, byte_num, fifo, reads, closed,
                 mutex_mcast_socket, mainOthers>>

MainSendFails == main_pc = "send" /\ syserr

\* Mutant: byte_num moves before the packet is stored.
MainAdd_NumberFirst ==
  /\ main_pc = "add"
  /\ fifo' = add_to_queue(fifo, [num |-> byte_num + 1, data |-> audio_data])
  /\ byte_num' = byte_num + 1
  /\ audio_data' = 0
  /\ mutex_mcast_socket' = "free"
  /\ main_pc' = "poll"
  /\ UNCHANGED <<finish, reads, closed, netVars, mainOthers>>

MainAdd ==
  /\ main_pc = "add"
  /\ fifo' = add_to_queue(fifo, [num |-> byte_num, data |-> audio_data])
  /\ byte_num' = byte_num + 1
  /\ audio_data' = 0
  /\ mutex_mcast_socket' = "free"
  /\ main_pc' = "poll"
  /\ UNCHANGED <<finish, reads, closed, netVars, mainOthers>>

MainFinish ==
  /\ main_pc = "poll" /\ finish
  /\ main_pc' = "join_ctrl"
  /\ UNCHANGED <<finish, audio_data, byte_num, fifo, reads, closed,
                 mutex_mcast_socket, netVars, mainOthers>>

MainJoinCtrl ==
  /\ main_pc = "join_ctrl" /\ ctrl_pc = "done"
  /\ main_pc' = "join_replay"
  /\ UNCHANGED <<finish, audio_data, byte_num, fifo, reads, closed,
                 mutex_mcast_socket, netVars, mainOthers>>

\* Mutant: main does not wait for replay_loop.
MainJoinReplay_NoWait ==
  /\ main_pc = "join_replay"
  /\ closed' = TRUE
  /\ main_pc' = "done"
  /\ UNCHANGED <<finish, audio_data, byte_num, fifo, reads,
                 mutex_mcast_socket, netVars, mainOthers>>

MainJoinReplay ==
  /\ main_pc = "join_replay" /\ replay_pc = "done"
  /\ closed' = TRUE
  /\ main_pc' = "done"
  /\ UNCHANGED <<finish, audio_data, byte_num, fifo, reads,
                 mutex_mcast_socket, netVars, mainOthers>>

-----------------------------------------------------------------------------
(* ctrl_loop *)

ctrlOthers == <<finish, alive, stdin, mainVars, mutex_mcast_socket,
                replayVars, netVars>>

\* A lookup that matches is answered, or the answer is dropped when the socket
\* would block.  Any other text is ignored, a lookup followed by a newline
\* included: strcmp() compares the whole buffer.
CtrlLookup ==
  /\ ctrl_pc = "poll" /\ ~finish /\ ctrl_count < MaxCtrl
  /\ ctrl_count' = ctrl_count + 1
  /\ replies' \in {replies, replies + 1}
  /\ UNCHANGED <<ctrl_pc, ctrl_batch, mutex_requests, retransmision_requests,
                 ctrlOthers>>

CtrlLookupFails == ctrl_pc = "poll" /\ ~finish /\ ctrl_count < MaxCtrl /\ syserr

\* A retransmission request.  One without a number, which big3's receiver sends
\* too, makes the scan for a space run past the datagram: the numbers then come
\* from whatever memory follows, so they are any numbers as well.
CtrlRexmit ==
  /\ ctrl_pc = "poll" /\ ~finish /\ ctrl_count < MaxCtrl
  /\ ctrl_count' = ctrl_count + 1
  /\ ctrl_batch' \in SUBSET Requests
  /\ ctrl_pc' = "lock"
  /\ UNCHANGED <<replies, mutex_requests, retransmision_requests, ctrlOthers>>

CtrlLock ==
  /\ ctrl_pc = "lock"
  /\ mutex_requests = "free"
  /\ mutex_requests' = "ctrl"
  /\ ctrl_pc' = "insert"
  /\ UNCHANGED <<ctrl_batch, ctrl_count, replies, retransmision_requests,
                 ctrlOthers>>

\* One turn of the strtok() loop of add_to_set.
add_to_set ==
  /\ ctrl_pc = "insert"
  /\ \E n \in ctrl_batch :
       /\ retransmision_requests' = retransmision_requests \union {n}
       /\ ctrl_batch' = ctrl_batch \ {n}
  /\ UNCHANGED <<ctrl_pc, ctrl_count, replies, mutex_requests, ctrlOthers>>

\* Mutant: the mutex stays locked.
CtrlUnlock_Forgets ==
  /\ ctrl_pc = "insert" /\ ctrl_batch = {}
  /\ ctrl_pc' = "poll"
  /\ UNCHANGED <<ctrl_batch, ctrl_count, replies, mutex_requests,
                 retransmision_requests, ctrlOthers>>

CtrlUnlock ==
  /\ ctrl_pc = "insert" /\ ctrl_batch = {}
  /\ mutex_requests' = "free"
  /\ ctrl_pc' = "poll"
  /\ UNCHANGED <<ctrl_batch, ctrl_count, replies, retransmision_requests,
                 ctrlOthers>>

CtrlFinish ==
  /\ ctrl_pc = "poll" /\ finish
  /\ ctrl_pc' = "done"
  /\ UNCHANGED <<ctrl_batch, ctrl_count, replies, mutex_requests,
                 retransmision_requests, ctrlOthers>>

-----------------------------------------------------------------------------
(* replay_loop *)

replayOthers == <<finish, alive, stdin, mainVars, ctrlVars>>

\* Mutant: the copy and the clear are two critical sections.
ReplayCopy_Unlocks ==
  /\ replay_pc = "sleep"
  /\ mutex_requests = "free"
  /\ copy_requests' = retransmision_requests
  /\ replay_pc' = "clear"
  /\ UNCHANGED <<mutex_requests, mutex_mcast_socket, retransmision_requests,
                 netVars, replayOthers>>

\* After RTIME: lock the collected numbers and copy them.
ReplayCopy ==
  /\ replay_pc = "sleep"
  /\ mutex_requests = "free"
  /\ mutex_requests' = "replay"
  /\ copy_requests' = retransmision_requests
  /\ replay_pc' = "clear"
  /\ UNCHANGED <<mutex_mcast_socket, retransmision_requests, netVars,
                 replayOthers>>

ReplayClear ==
  /\ replay_pc = "clear"
  /\ retransmision_requests' = {}
  /\ mutex_requests' = "free"
  /\ replay_pc' = "lock"
  /\ UNCHANGED <<copy_requests, mutex_mcast_socket, netVars, replayOthers>>

\* Mutant: the FIFO is read without mutex_mcast_socket.
ReplayLock_NoMutex ==
  /\ replay_pc = "lock"
  /\ replay_pc' = "send"
  /\ UNCHANGED <<copy_requests, mutex_mcast_socket, mutex_requests,
                 retransmision_requests, netVars, replayOthers>>

ReplayLock ==
  /\ replay_pc = "lock"
  /\ mutex_mcast_socket = "free"
  /\ mutex_mcast_socket' = "replay"
  /\ replay_pc' = "send"
  /\ UNCHANGED <<copy_requests, mutex_requests, retransmision_requests,
                 netVars, replayOthers>>

\* Fifo::retrieve: the packet goes out if the FIFO still holds it.
Retransmit(n) ==
  \/ \E i \in DOMAIN fifo : fifo[i].num = n /\ send_Mcast(fifo[i])
  \/ n \notin Held /\ UNCHANGED netVars

\* Mutant: the loop stops at the first number the FIFO does not hold.
ReplaySend_Breaks ==
  /\ replay_pc = "send"
  /\ \E n \in copy_requests :
       /\ \A m \in copy_requests : n <= m
       /\ Retransmit(n)
       /\ copy_requests' = IF n \in Held THEN copy_requests \ {n} ELSE {}
  /\ UNCHANGED <<replay_pc, mutex_mcast_socket, mutex_requests,
                 retransmision_requests, replayOthers>>

\* One turn of the loop over the copy, a std::set, in ascending order.
ReplaySend ==
  /\ replay_pc = "send"
  /\ \E n \in copy_requests :
       /\ \A m \in copy_requests : n <= m
       /\ Retransmit(n)
       /\ copy_requests' = copy_requests \ {n}
  /\ UNCHANGED <<replay_pc, mutex_mcast_socket, mutex_requests,
                 retransmision_requests, replayOthers>>

ReplaySendFails ==
  /\ replay_pc = "send"
  /\ copy_requests \intersect Held # {}
  /\ syserr

ReplayUnlock ==
  /\ replay_pc = "send" /\ copy_requests = {}
  /\ mutex_mcast_socket' = "free"
  /\ replay_pc' = IF finish THEN "done" ELSE "sleep"
  /\ UNCHANGED <<copy_requests, mutex_requests, retransmision_requests,
                 netVars, replayOthers>>

-----------------------------------------------------------------------------
(* The environment *)

envOthers == <<alive, mainVars, mutex_mcast_socket, mutex_requests,
               retransmision_requests, ctrlVars, replayVars, netVars>>

\* Once all of it has been read, stdin ends as a file does or as a pipe does.
StdinEnds ==
  /\ stdin = "open" /\ main_pc # "read"
  /\ stdin' \in {"eof", "hup"}
  /\ UNCHANGED <<finish, envOthers>>

catch_interput ==
  /\ ~finish
  /\ finish' = TRUE
  /\ UNCHANGED <<stdin, envOthers>>

Main == MainPoll \/ MainRead \/ MainLock \/ MainSend \/ MainAdd
          \/ MainFinish \/ MainJoinCtrl \/ MainJoinReplay
Ctrl == CtrlLookup \/ CtrlRexmit \/ CtrlLock \/ add_to_set \/ CtrlUnlock
          \/ CtrlFinish
Replay == ReplayCopy \/ ReplayClear \/ ReplayLock \/ ReplaySend \/ ReplayUnlock
Fails == MainReadFails \/ MainSendFails \/ CtrlLookupFails \/ ReplaySendFails
Environment == StdinEnds \/ catch_interput

Step == alive /\ (Main \/ Ctrl \/ Replay \/ Fails \/ Environment)

\* The process is gone: exit() from main, or from syserr().
Terminated == (~alive \/ main_pc = "done") /\ UNCHANGED vars

Next == Step \/ Terminated

Spec == Init /\ [][Next]_vars

\* Every thread is scheduled, but nothing says that stdin, the control socket or
\* the user ever delivers anything.  A thread that waits for a mutex gets it when the
\* mutex is free again and again: each holder leaves it free while it polls.
Fairness ==
  /\ WF_vars(alive /\ stdin = "eof" /\ MainPoll)
  /\ WF_vars(alive /\ (MainRead \/ MainSend \/ MainAdd \/ MainFinish
                        \/ MainJoinCtrl \/ MainJoinReplay))
  /\ SF_vars(alive /\ MainLock)
  /\ WF_vars(alive /\ (add_to_set \/ CtrlUnlock \/ CtrlFinish))
  /\ SF_vars(alive /\ CtrlLock)
  /\ WF_vars(alive /\ (ReplayClear \/ ReplaySend \/ ReplayUnlock))
  /\ SF_vars(alive /\ ReplayCopy)
  /\ SF_vars(alive /\ ReplayLock)

FairSpec == Spec /\ Fairness

-----------------------------------------------------------------------------
(* Properties *)

\* Every variable keeps its type.
TypeOK ==
  /\ finish \in BOOLEAN /\ alive \in BOOLEAN /\ closed \in BOOLEAN
  /\ stdin \in {"open", "eof", "hup"}
  /\ reads \in Nat /\ audio_data \in Nat /\ byte_num \in Nat
  /\ main_pc \in {"poll", "read", "lock", "send", "add", "join_ctrl",
                  "join_replay", "done"}
  /\ fifo \in Seq(Packet)
  /\ mutex_mcast_socket \in {"free", "main", "replay"}
  /\ mutex_requests \in {"free", "ctrl", "replay"}
  /\ retransmision_requests \subseteq Requests
  /\ ctrl_pc \in {"poll", "lock", "insert", "done"}
  /\ ctrl_batch \subseteq Requests
  /\ ctrl_count \in Nat /\ replies \in Nat
  /\ replay_pc \in {"sleep", "clear", "lock", "send", "done"}
  /\ copy_requests \subseteq Requests
  /\ wire \subseteq Packet
  /\ out \in Packet

\* A packet number always comes with the same payload, first transmission or
\* retransmission, and numbers follow the order of stdin (main's send and add
\* under mutex_mcast_socket, Fifo::retrieve by number).
StreamFaithful ==
  \A p, q \in wire :
    /\ p.num = q.num => p.data = q.data
    /\ p.num < q.num => p.data < q.data

\* While nobody updates it, the FIFO is exactly the last max_count packets
\* sent, without a gap (Fifo::add_to_queue with byte_num).
FifoIsLatest ==
  /\ Len(fifo) = IF byte_num < max_count THEN byte_num ELSE max_count
  /\ \A i \in DOMAIN fifo :
       fifo[i].num = byte_num - Len(fifo) + i - 1 /\ fifo[i] \in wire

\* A receiver that looks at the group sees no number skipped, whatever short
\* reads dropped (byte_num moves only with a packet that was sent).
NoNumberSkipped ==
  {p.num : p \in wire} = {n \in 0..byte_num : n < byte_num \/ main_pc = "add"}

\* main closes the sockets only when no other thread can use them.
CloseAfterJoin ==
  closed => ctrl_pc = "done" /\ replay_pc = "done"

\* A number ctrl_loop collected leaves the collection only into replay_loop's
\* copy: none inserted between the copy and the clear is lost.
NoRequestLost ==
  [][\A n \in retransmision_requests :
       n \in retransmision_requests' \/ n \in copy_requests']_vars

\* A number leaves replay_loop's copy only by being multicast, unless the FIFO
\* no longer held it.
EveryHeldRequestSent ==
  [][\A n \in copy_requests :
       n \in copy_requests' \/ n \notin Held \/ out' \in
         {p \in wire' : p.num = n}]_vars

\* Every collected number is dealt with, as long as the sender runs
\* (replay_loop wakes up every RTIME).
RequestsServed ==
  \A n \in Requests :
    n \in retransmision_requests ~>
      n \notin retransmision_requests \union copy_requests \/ finish \/ ~alive

\* End of a file, or SIGINT, stops every thread and closes the sockets.
Stops == (stdin = "eof" \/ finish) ~> closed \/ ~alive

\* The sender implements StreamWindow: packet n of the stream is the datagram
\* numbered n, which counts as broadcast from send_Mcast on, and a number is asked
\* for from its datagram on until replay_loop has dealt with it.
Window == INSTANCE StreamWindow WITH
            Window  <- max_count,
            Payload <- 1..MaxReads,
            Number  <- Requests,
            sent    <- [i \in 1 .. byte_num + (IF main_pc = "add" THEN 1 ELSE 0)
                          |-> (CHOOSE p \in wire : p.num = i - 1).data],
            asked   <- ctrl_batch \union retransmision_requests
                         \union copy_requests

\* Threads, locks and the FIFO together show the group nothing else than a
\* stream and repeats from its last max_count packets, only of what was asked for;
\* and no number asked for is forgotten while its packet can still be repeated.
ImplementsStreamWindow == Window!Spec
=============================================================================
