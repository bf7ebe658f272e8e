------------------------------- MODULE Playout ------------------------------
(***************************************************************************)
(* The audio path of the radio receiver: big3/odbiornik.cpp (data_loop,    *)
(* printing_loop, requesting_loop, try_close_threads and main's start of   *)
(* data_loop) with the buffer of big3/buffor.cpp.                          *)
(*                                                                         *)
(* One run of data_loop listens to one station until the station changes,  *)
(* a newer session appears or the program ends.  It stores packets in the  *)
(* buffer, starts a printing thread when the buffer is three quarters full *)
(* and a requesting thread when a packet is missing.  The network is any   *)
(* sequence of packets: lost, late, repeated, of any session.              *)
(*                                                                         *)
(* Packet numbers count packets of equal length.  The payload of a package *)
(* is the session it came from; a package without payload is a hole.       *)
(***************************************************************************)
EXTENDS Naturals, Sequences

CONSTANTS
  Capacity,     \* max_data / len
  Sessions,     \* session ids on the network, none of them 0
  MaxNum,       \* bound: largest packet number on the network
  MaxRuns       \* bound: runs of data_loop

ASSUME ConstantsAssumption ==
  /\ Capacity \in Nat
  /\ Sessions \subseteq Nat \ {0}
  /\ MaxNum \in Nat
  /\ MaxRuns \in Nat

VARIABLES
  finish, stop, finished_printing,        \* the atomics
  packages,     \* Buffer::packages, oldest first
  set,          \* the keys of Buffer::set; each points at the package so numbered
  size,         \* Buffer::size, 0 until the first packet
  mutex_buffor, \* holder, or "free"
  data_pc, run, session, incoming, printing, requesting,  \* data_loop
  print_pc, package,                      \* printing_loop
  req_pc, request,      \* requesting_loop, one per run; what it copied, then sent
  stolen,       \* a requester has unlocked the buffer under another thread
  overlap       \* two threads have been let into the buffer at once

bufferVars == <<packages, set, size>>
dataVars   == <<data_pc, run, session, incoming, printing, requesting>>
printVars  == <<print_pc, package, finished_printing>>
reqVars    == <<req_pc, request, stolen>>
vars == <<finish, stop, bufferVars, mutex_buffor, dataVars, printVars, reqVars,
          overlap>>

Runs == 1..MaxRuns
Hole == 0
Package == [num : Nat, data : Sessions \union {Hole}]
NoPackage == [num |-> 0, data |-> Hole]
Nums == 0 .. MaxNum + Capacity
Garbage == MaxNum + Capacity + 1

\* The numbers in the buffer, and those of them without payload.
Buffered == {packages[i].num : i \in DOMAIN packages}
Missing  == {packages[i].num : i \in {j \in DOMAIN packages :
                                        packages[j].data = Hole}}
Front == packages[1].num
Back  == packages[Len(packages)].num

\* A thread gets mutex_buffor; it overlaps whoever is still inside.
lock(others) ==
  /\ mutex_buffor = "free"
  /\ overlap' = (overlap \/ others)

DataInside  == data_pc = "add"
PrintInside == print_pc = "pop"

Init ==
  /\ finish = FALSE /\ stop = FALSE /\ finished_printing = FALSE
  /\ packages = <<>> /\ set = {} /\ size = 0
  /\ mutex_buffor = "free"
  /\ data_pc = "none" /\ run = 0 /\ session = 0 /\ incoming = 0
  /\ printing = FALSE /\ requesting = FALSE
  /\ print_pc = "none" /\ package = NoPackage
  /\ req_pc = [r \in Runs |-> "none"] /\ request = [r \in Runs |-> {}]
  /\ stolen = FALSE /\ overlap = FALSE

-----------------------------------------------------------------------------
(* data_loop *)

\* main starts data_loop for the active station of the menu.
DataStart ==
  /\ data_pc = "none" /\ ~finish /\ run < MaxRuns
  /\ data_pc' = "top"
  /\ run' = run + 1
  /\ stop' = FALSE
  /\ UNCHANGED <<finish, bufferVars, mutex_buffor, session, incoming, printing,
                 requesting, printVars, reqVars, overlap>>

\* The menu has another active station, or none.
DataStationChanged ==
  /\ data_pc = "top"
  /\ data_pc' = "reset"
  /\ UNCHANGED <<finish, stop, bufferVars, mutex_buffor, run, session,
                 incoming, printing, requesting, printVars, reqVars, overlap>>

\* recv() has nothing.
DataIdle ==
  /\ data_pc = "top"
  /\ data_pc' = "spawn"
  /\ UNCHANGED <<finish, stop, bufferVars, mutex_buffor, run, session,
                 incoming, printing, requesting, printVars, reqVars, overlap>>

\* recv() has a packet: the first one fixes the session, an older session is
\* skipped, a newer one ends the run.
DataRecv ==
  /\ data_pc = "top"
  /\ \E s \in Sessions, n \in 0..MaxNum :
       \/ /\ session \in {0, s}
          /\ session' = s /\ incoming' = n
          /\ data_pc' = "lock"
       \/ /\ s < session
          /\ data_pc' = IF finish THEN "reset" ELSE "top"
          /\ UNCHANGED <<session, incoming>>
       \/ /\ session # 0 /\ s > session
          /\ data_pc' = "reset"
          /\ UNCHANGED <<session, incoming>>
  /\ UNCHANGED <<finish, stop, bufferVars, mutex_buffor, run, printing,
                 requesting, printVars, reqVars, overlap>>

\* Mutant: the buffer is changed without the mutex.
DataLock_NoMutex ==
  /\ data_pc = "lock"
  /\ lock(PrintInside)
  /\ data_pc' = "add"
  /\ UNCHANGED <<finish, stop, bufferVars, mutex_buffor, run, session,
                 incoming, printing, requesting, printVars, reqVars>>

DataLock ==
  /\ data_pc = "lock"
  /\ lock(PrintInside)
  /\ mutex_buffor' = "data"
  /\ data_pc' = "add"
  /\ UNCHANGED <<finish, stop, bufferVars, run, session, incoming, printing,
                 requesting, printVars, reqVars>>

\* What add_to_buffor does to the buffer.  It either returns, and data_loop
\* unlocks, or takes another turn of its loop.
addOthers == <<finish, stop, run, session, printing, requesting, printVars,
               reqVars, overlap>>

AddReturns ==
  /\ mutex_buffor' = "free"
  /\ data_pc' = "spawn"
  /\ incoming' = 0

NewPackage == [num |-> incoming, data |-> session]

\* The packet is one the buffer misses.
AddFound ==
  /\ data_pc = "add" /\ incoming \in set
  /\ packages' = [i \in DOMAIN packages |->
                    IF packages[i].num = incoming THEN NewPackage
                                                  ELSE packages[i]]
  /\ set' = set \ {incoming}
  /\ AddReturns
  /\ UNCHANGED <<size, addOthers>>

AddFirst ==
  /\ data_pc = "add" /\ incoming \notin set /\ packages = <<>>
  /\ size' = Capacity
  /\ packages' = <<NewPackage>>
  /\ AddReturns
  /\ UNCHANGED <<set, addOthers>>

\* The buffer is full, or the packet is older than all of it.
AddDropped ==
  /\ data_pc = "add" /\ incoming \notin set /\ packages # <<>>
  /\ Len(packages) >= size \/ incoming < Front
  /\ AddReturns
  /\ UNCHANGED <<bufferVars, addOthers>>

\* Mutant: the loop takes one turn too many.
InLoop_Once ==
  /\ data_pc = "add" /\ incoming \notin set /\ packages # <<>>
  /\ Len(packages) <= size
  /\ incoming >= Front

InLoop ==
  /\ data_pc = "add" /\ incoming \notin set /\ packages # <<>>
  /\ Len(packages) < size
  /\ incoming >= Front

\* Mutant: any newer packet is appended.
AddNext_Gap ==
  /\ InLoop
  /\ incoming > Back
  /\ packages' = Append(packages, NewPackage)
  /\ AddReturns
  /\ UNCHANGED <<set, size, addOthers>>

AddNext ==
  /\ InLoop
  /\ incoming = Back + 1
  /\ packages' = Append(packages, NewPackage)
  /\ AddReturns
  /\ UNCHANGED <<set, size, addOthers>>

\* Mutant: the iterator stays at the front.
Forgotten_AtFront(list, numbers) == {n \in numbers : n < list[1].num}

\* The numbers the loop forgets when a hole has filled the buffer list: those
\* before the package reached by std::advance(begin, -distance).  Going back from
\* the front, the first step is the list's own node, whose num field overlays the
\* root pointer of the map: greater than every number.  A packet that is not
\* ahead of the buffer makes the unsigned difference, and so distance, maximal.
Forgotten(list, numbers) ==
  LET last     == list[Len(list)].num
      ahead    == IF incoming > last THEN incoming - last ELSE size - 1
      distance == IF ahead < size - 1 THEN ahead ELSE size - 1
  IN  IF distance = 1
        THEN numbers
        ELSE {n \in numbers : n < list[Len(list) + 2 - distance].num}

\* One turn of the loop: a hole, and if that fills the buffer the front goes.
AddHole ==
  /\ InLoop
  /\ incoming # Back + 1
  /\ LET longer == Append(packages, [num |-> Back + 1, data |-> Hole])
         larger == set \union {Back + 1}
     IN  IF Len(longer) = size
           THEN /\ packages' = Tail(longer)
                /\ set' = larger \ Forgotten(longer, larger)
           ELSE /\ packages' = longer
                /\ set' = larger
  /\ UNCHANGED <<size, mutex_buffor, data_pc, incoming, addOthers>>

\* Mutant: printing waits for more than the whole buffer.
DataSpawn_Late ==
  /\ data_pc = "spawn"
  /\ lock(PrintInside)
  /\ \/ /\ Len(packages) * 3 >= size * 4 /\ ~printing
        /\ print_pc' = "lock" /\ printing' = TRUE
     \/ /\ ~(Len(packages) * 3 >= size * 4 /\ ~printing)
        /\ UNCHANGED <<print_pc, printing>>
  /\ data_pc' = "close"
  /\ UNCHANGED <<finish, stop, bufferVars, mutex_buffor, run, session,
                 incoming, requesting, package, finished_printing, reqVars>>

\* Under the mutex: start the threads the buffer calls for.
DataSpawn ==
  /\ data_pc = "spawn"
  /\ lock(PrintInside)
  /\ \/ /\ Len(packages) * 4 >= size * 3 /\ ~printing
        /\ print_pc' = "lock" /\ printing' = TRUE
     \/ /\ ~(Len(packages) * 4 >= size * 3 /\ ~printing)
        /\ UNCHANGED <<print_pc, printing>>
  /\ \/ /\ set # {} /\ ~requesting
        /\ req_pc' = [req_pc EXCEPT ![run] = "loop"] /\ requesting' = TRUE
     \/ /\ ~(set # {} /\ ~requesting)
        /\ UNCHANGED <<req_pc, requesting>>
  /\ data_pc' = "close"
  /\ UNCHANGED <<finish, stop, bufferVars, mutex_buffor, run, session,
                 incoming, package, finished_printing, request, stolen>>

\* finished_requesting is never set, so only the printing thread is joined here.
try_close_threads ==
  /\ data_pc = "close"
  /\ \/ /\ finished_printing /\ print_pc = "exited"
        /\ print_pc' = "none"
        /\ finished_printing' = FALSE /\ printing' = FALSE
     \/ /\ ~finished_printing
        /\ UNCHANGED <<print_pc, finished_printing, printing>>
  /\ data_pc' = IF finish THEN "reset" ELSE "top"
  /\ UNCHANGED <<finish, stop, bufferVars, mutex_buffor, run, session,
                 incoming, requesting, package, reqVars, overlap>>

\* Mutant: only the set is emptied.
DataReset_Keeps ==
  /\ data_pc = "reset"
  /\ lock(PrintInside)
  /\ set' = {}
  /\ data_pc' = "stop"
  /\ UNCHANGED <<finish, stop, packages, size, mutex_buffor, run, session, incoming,
                 printing, requesting, printVars, reqVars>>

DataReset ==
  /\ data_pc = "reset"
  /\ lock(PrintInside)
  /\ packages' = <<>> /\ set' = {}
  /\ data_pc' = "stop"
  /\ UNCHANGED <<finish, stop, size, mutex_buffor, run, session, incoming,
                 printing, requesting, printVars, reqVars>>

DataStop ==
  /\ data_pc = "stop"
  /\ stop' = TRUE
  /\ data_pc' = "join_printing"
  /\ UNCHANGED <<finish, bufferVars, mutex_buffor, run, session, incoming,
                 printing, requesting, printVars, reqVars, overlap>>

\* Mutant: the flag of the thread just joined stays up.
DataJoinPrinting_Flag ==
  /\ data_pc = "join_printing"
  /\ \/ printing /\ print_pc = "exited" /\ print_pc' = "none"
     \/ ~printing /\ UNCHANGED print_pc
  /\ data_pc' = "join_requesting"
  /\ UNCHANGED <<finish, stop, bufferVars, mutex_buffor, run, session,
                 incoming, printing, requesting, package, finished_printing,
                 reqVars, overlap>>

DataJoinPrinting ==
  /\ data_pc = "join_printing"
  /\ \/ /\ printing /\ print_pc = "exited"
        /\ print_pc' = "none" /\ finished_printing' = FALSE
     \/ ~printing /\ UNCHANGED <<print_pc, finished_printing>>
  /\ data_pc' = "join_requesting"
  /\ UNCHANGED <<finish, stop, bufferVars, mutex_buffor, run, session,
                 incoming, printing, requesting, package, reqVars, overlap>>

\* The second join names printing_thread again: it returns at once, or waits for
\* the requester when that thread was given the same handle.  The locals of
\* data_loop end here.
DataJoinRequesting ==
  /\ data_pc = "join_requesting"
  /\ data_pc' = "none"
  /\ session' = 0 /\ printing' = FALSE /\ requesting' = FALSE
  /\ UNCHANGED <<finish, stop, bufferVars, mutex_buffor, run, incoming,
                 printVars, reqVars, overlap>>

-----------------------------------------------------------------------------
(* printing_loop *)

printOthers == <<finish, stop, size, dataVars, reqVars>>

PrintLock ==
  /\ print_pc = "lock"
  /\ lock(DataInside)
  /\ mutex_buffor' = "print"
  /\ print_pc' = "pop"
  /\ UNCHANGED <<packages, set, package, finished_printing, printOthers>>

\* The first package, if it has a payload, is taken out and written after the
\* mutex is released; a hole empties the buffer and ends the thread.
PrintPop ==
  /\ print_pc = "pop"
  /\ packages # <<>> /\ ~finish /\ ~stop
  /\ \/ /\ Head(packages).data # Hole
        /\ package' = Head(packages)
        /\ packages' = Tail(packages)
        /\ print_pc' = "write"
        /\ UNCHANGED <<set, finished_printing>>
     \/ /\ Head(packages).data = Hole
        /\ packages' = <<>> /\ set' = {}
        /\ UNCHANGED package
        /\ finished_printing' = TRUE
        /\ print_pc' = "exited"
  /\ mutex_buffor' = "free"
  /\ UNCHANGED <<overlap, printOthers>>

\* Mutant: the thread ends with the mutex locked.
PrintStop_KeepsMutex ==
  /\ print_pc = "pop"
  /\ packages = <<>> \/ finish \/ stop
  /\ print_pc' = "flag"
  /\ UNCHANGED <<packages, set, mutex_buffor, package, finished_printing,
                 overlap, printOthers>>

PrintStop ==
  /\ print_pc = "pop"
  /\ packages = <<>> \/ finish \/ stop
  /\ mutex_buffor' = "free"
  /\ print_pc' = "flag"
  /\ UNCHANGED <<packages, set, package, finished_printing, overlap,
                 printOthers>>

PrintWrite ==
  /\ print_pc = "write"
  /\ print_pc' = "lock"
  /\ package' = NoPackage
  /\ UNCHANGED <<packages, set, mutex_buffor, finished_printing,
                 overlap, printOthers>>

PrintFlag ==
  /\ print_pc = "flag"
  /\ finished_printing' = TRUE
  /\ print_pc' = "exited"
  /\ UNCHANGED <<packages, set, mutex_buffor, package, overlap, printOthers>>

-----------------------------------------------------------------------------
(* requesting_loop *)

reqOthers == <<finish, stop, bufferVars, dataVars, printVars>>

ReqLoop(r) ==
  /\ req_pc[r] = "loop"
  /\ req_pc' = [req_pc EXCEPT ![r] = IF finish \/ stop THEN "exited"
                                                       ELSE "sleep"]
  /\ request' = [request EXCEPT ![r] = {}]
  /\ UNCHANGED <<mutex_buffor, stolen, overlap, reqOthers>>

\* After RTIME: copy the map of missing packages under the mutex.
ReqCopy(r) ==
  /\ req_pc[r] = "sleep"
  /\ lock(DataInside \/ PrintInside)
  /\ request' = [request EXCEPT ![r] = set]
  /\ req_pc' = [req_pc EXCEPT ![r] = "send"]
  /\ UNCHANGED <<mutex_buffor, stolen, reqOthers>>

\* The numbers are read through the copied iterators, without the mutex.  A
\* package that is gone by now has left freed memory: whatever number is there
\* stands for nothing anybody misses.
ReqSend(r) ==
  /\ req_pc[r] = "send" /\ request[r] # {}
  /\ LET live == request[r] \intersect Buffered
     IN  \/ live = request[r] /\ UNCHANGED request
         \/ /\ live # request[r]
            /\ request' = [request EXCEPT ![r] = live \union {Garbage}]
  /\ req_pc' = [req_pc EXCEPT ![r] = "loop"]
  /\ UNCHANGED <<mutex_buffor, stolen, overlap, reqOthers>>

\* Mutant: the thread ends when nothing is missing.
ReqIdle_Exits(r) ==
  /\ req_pc[r] = "send" /\ request[r] = {}
  /\ req_pc' = [req_pc EXCEPT ![r] = "exited"]
  /\ UNCHANGED <<mutex_buffor, stolen, request, overlap, reqOthers>>

\* With nothing to request the thread unlocks the mutex a second time, and so
\* takes it from whoever holds it now.
ReqIdle(r) ==
  /\ req_pc[r] = "send" /\ request[r] = {}
  /\ mutex_buffor' = "free"
  /\ stolen' = (stolen \/ mutex_buffor # "free")
  /\ req_pc' = [req_pc EXCEPT ![r] = "loop"]
  /\ UNCHANGED <<request, overlap, reqOthers>>

-----------------------------------------------------------------------------

catch_interput ==
  /\ ~finish
  /\ finish' = TRUE
  /\ UNCHANGED <<stop, bufferVars, mutex_buffor, dataVars, printVars, reqVars,
                 overlap>>

Add   == AddFound \/ AddFirst \/ AddDropped \/ AddNext \/ AddHole
Data  == DataStart \/ DataStationChanged \/ DataIdle \/ DataRecv \/ DataLock
           \/ Add \/ DataSpawn \/ try_close_threads \/ DataReset \/ DataStop
           \/ DataJoinPrinting \/ DataJoinRequesting
Printing == PrintLock \/ PrintPop \/ PrintStop \/ PrintWrite \/ PrintFlag
Request(r) == ReqLoop(r) \/ ReqCopy(r) \/ ReqSend(r) \/ ReqIdle(r)

\* Two threads inside the buffer corrupt its list and map: no step describes what
\* the program does from there on.
Step == ~overlap /\ (Data \/ Printing \/ (\E r \in Runs : Request(r))
                          \/ catch_interput)

AllDone ==
  /\ finish /\ data_pc = "none" /\ print_pc = "none"
  /\ \A r \in Runs : req_pc[r] \in {"none", "exited"}

Terminated == (AllDone \/ overlap) /\ UNCHANGED vars

Next == Step \/ Terminated

Spec == Init /\ [][Next]_vars

\* Every thread is scheduled, the player takes what is written to stdout, and a
\* thread waiting for the mutex gets it when it is free again and again.  The
\* network, the user and the menu owe nothing.
DataRuns == DataIdle \/ Add \/ try_close_threads \/ DataStop
              \/ DataJoinPrinting \/ DataJoinRequesting
PrintRuns == PrintPop \/ PrintStop \/ PrintWrite \/ PrintFlag
RequestRuns(r) == ReqLoop(r) \/ ReqSend(r) \/ ReqIdle(r)

Fairness ==
  /\ WF_vars(~overlap /\ DataRuns)
  /\ SF_vars(~overlap /\ (DataLock \/ DataSpawn \/ DataReset))
  /\ WF_vars(~overlap /\ PrintRuns)
  /\ SF_vars(~overlap /\ PrintLock)
  /\ \A r \in Runs : WF_vars(~overlap /\ RequestRuns(r))
                      /\ SF_vars(~overlap /\ ReqCopy(r))

FairSpec == Spec /\ Fairness

-----------------------------------------------------------------------------
(* Properties *)

\* Every variable keeps its type; no number grows past what one full buffer can
\* add to the newest packet.
TypeOK ==
  /\ finish \in BOOLEAN /\ stop \in BOOLEAN /\ finished_printing \in BOOLEAN
  /\ packages \in Seq(Package)
  /\ set \subseteq Nat /\ size \in {0, Capacity}
  /\ mutex_buffor \in {"free", "data", "print"}
  /\ data_pc \in {"none", "top", "lock", "add", "spawn", "close", "reset",
                  "stop", "join_printing", "join_requesting"}
  /\ run \in Nat /\ session \in Sessions \union {0} /\ incoming \in Nat
  /\ printing \in BOOLEAN /\ requesting \in BOOLEAN
  /\ print_pc \in {"none", "lock", "pop", "write", "flag", "exited"}
  /\ package \in Package
  /\ req_pc \in [Runs -> {"none", "loop", "sleep", "send", "exited"}]
  /\ request \in [Runs -> SUBSET Nat]
  /\ stolen \in BOOLEAN /\ overlap \in BOOLEAN

\* The buffer is one stretch of consecutive packet numbers, holes included, in
\* whatever order packets arrive (every branch of add_to_buffor, pop, reset).
Contiguous ==
  \A i \in DOMAIN packages : packages[i].num = packages[1].num + i - 1

\* The buffer never holds more than BSIZE allows, but for one packet longer than
\* BSIZE.
Bounded == Len(packages) <= IF Capacity = 0 THEN 1 ELSE Capacity

\* The packages in the list by their numbers.
Numbered(list) ==
  LET at(n) == CHOOSE i \in DOMAIN list : list[i].num = n
  IN  [n \in {list[i].num : i \in DOMAIN list} |-> list[at(n)].data]

\* The buffer with its list, map and threads implements PlayBuffer: at every step
\* of every thread it is one stretch of one stream, a packet only ever takes its
\* own place, the player gets the front and no hole, and the front is all that a
\* full buffer gives up (add_to_buffor, pop_from_buffor, reset_buffor).
PlayBuffer == INSTANCE PlayBuffer WITH
                Number  <- 0..MaxNum,
                Payload <- Sessions,
                buffer  <- Numbered(packages),
                playing <- package

ImplementsPlayBuffer == PlayBuffer!Spec

\* Every entry of the map points at a live hole: filling a missing packet never
\* writes through a dangling iterator (buffor.cpp frees the front and forgets
\* entries by an address computation that walks the list the wrong way).
SetPointsToHoles == set \subseteq Missing

\* What a printing thread is about to write comes from the session this run of
\* data_loop listens to: a station change or a sender restart lets nothing of the
\* old stream through once the new one plays (reset, stop and the join).
PlaysThisSession ==
  /\ print_pc = "write" => package.data = session
  /\ \A i \in DOMAIN packages : packages[i].data \in {session, Hole}

\* data_loop's flag and the flag between the threads agree with the thread: no
\* second printing thread is ever started, and a join of a thread reported as
\* finished never waits for one that still plays.
PrinterAccounted ==
  /\ print_pc # "none" => printing
  /\ finished_printing => print_pc = "exited"
  /\ data_pc = "none" => print_pc = "none"

\* The buffer is shared without a lock only through the extra unlock of a
\* requester that found nothing missing.
OverlapOnlyAfterIdleRequest == overlap => stolen

\* A full buffer, which drops every new packet, gets room again: playing starts
\* and drains it (three quarters rule, printing and joining the old thread).
FullDrains ==
  (size > 0 /\ Len(packages) = size) ~> Len(packages) < size \/ finish \/ overlap

\* A missing packet the map remembers is asked for unless it arrives or goes out
\* of the buffer first, or the run ends.
MissingRequested ==
  \A n \in Nums :
    n \in set ~> \/ n \notin set \/ data_pc = "none" \/ overlap
                  \/ \E r \in Runs : req_pc[r] = "loop" /\ n \in request[r]

\* SIGINT ends every thread, the requester that data_loop fails to join included.
Stops == finish ~> AllDone \/ overlap
=============================================================================
