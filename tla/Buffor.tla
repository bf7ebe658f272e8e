-------------------------------- MODULE Buffor ------------------------------
(***************************************************************************)
(* The audio buffer of the first radio receiver, big/buffor.c, with the    *)
(* three threads of big/odbiornik.c that use it: data_loop puts packets    *)
(* in, printing_loop takes them out, requesting_loop asks for missing ones.*)
(*                                                                         *)
(* packages and set are circular doubly linked lists in C and sequences    *)
(* here, oldest element first; fill is the length of packages.  A package  *)
(* without data is a hole, and set lists the holes.  mutex_buffor makes    *)
(* every access one step, except that the loop of add_to_buffor takes one  *)
(* step per turn, with the mutex held (data_pc = "add").                   *)
(*                                                                         *)
(* main starts data_loop again for the next station as soon as it ends, on *)
(* the same buffer and the same stop, which the new run clears first.  The *)
(* printing thread is joined before; the requesting thread, which sleeps   *)
(* between two looks at stop, is not.                                      *)
(*                                                                         *)
(* Numbers count packets of equal length; the network delivers any number  *)
(* at any time.  A run hears one session, and SIGINT, which ends the loops *)
(* where stop does, is left out.                                           *)
(***************************************************************************)
EXTENDS Naturals, Sequences

CONSTANTS
  Capacity,     \* max_data / len
  MaxNum,       \* bound: largest number on the network
  MaxBack,      \* bound: largest number the loop of add_to_buffor reaches
  MaxRuns       \* bound: runs of data_loop

ASSUME ConstantsAssumption ==
  /\ Capacity \in Nat /\ MaxNum \in Nat /\ MaxBack \in Nat /\ MaxNum <= MaxBack
  /\ MaxRuns \in Nat \ {0}

VARIABLES
  packages, set, size,    \* the Buffor
  run,                    \* the run of data_loop
  data_pc, num,           \* data_loop, the packet it is adding
  stop,
  print_pc, package,      \* this run's printing_loop, the package it writes
  refilled,     \* an empty buffer got a first packet during that write
  request_pc    \* the requesting_loop each run has started

bufforVars == <<packages, set, size>>
printVars  == <<print_pc, package, refilled>>
vars == <<bufforVars, run, data_pc, num, stop, printVars, request_pc>>

\* The data of a package is the run that received it.
Hole    == 0
Package == [num : Nat, data : Nat]
Runs    == 1..MaxRuns

Front == packages[1].num
Back  == packages[Len(packages)].num

\* The elements of set the loop of check_set returns for n: it goes on to the
\* next one only while that is smaller than n, so that it finds n in the first
\* place or not at all.
Found(elems, n) ==
  {i \in DOMAIN elems : elems[i] = n /\ \A j \in 2..i : elems[j] < n}

\* check_set takes the element it finds out of set.
check_set(elems, n) ==
  IF Found(elems, n) = {} THEN elems
  ELSE LET i == CHOOSE i \in Found(elems, n) : TRUE
       IN  SubSeq(elems, 1, i - 1) \o SubSeq(elems, i + 1, Len(elems))

Init ==
  /\ packages = <<>> /\ set = <<>> /\ size = 0
  /\ run = 1 /\ data_pc = "recv" /\ num = 0 /\ stop = FALSE
  /\ print_pc = "none" /\ package = [num |-> 0, data |-> Hole] /\ refilled = FALSE
  /\ request_pc = [r \in Runs |-> "none"]

-----------------------------------------------------------------------------
(* data_loop *)

\* After add_to_buffor: printing starts once per run above three quarters,
\* requesting once at a hole.
start_threads ==
  /\ print_pc' = IF print_pc = "none" /\ Len(packages') * 4 > size' * 3
                   THEN "lock" ELSE print_pc
  /\ request_pc' = IF request_pc[run] = "none" /\ set' # <<>>
                     THEN [request_pc EXCEPT ![run] = "test"] ELSE request_pc
  /\ data_pc' = "recv"
  /\ UNCHANGED <<run, stop, package>>

\* A missing packet fills its hole.
AddFound(n) ==
  /\ data_pc = "recv"
  /\ Found(set, n) # {}
  /\ packages' = [i \in DOMAIN packages |->
                    IF packages[i].num = n THEN [num |-> n, data |-> run]
                                           ELSE packages[i]]
  /\ set' = check_set(set, n)
  /\ num' = n
  /\ UNCHANGED <<size, refilled>>
  /\ start_threads

AddFirst(n) ==
  /\ data_pc = "recv"
  /\ Found(set, n) = {} /\ packages = <<>>
  /\ packages' = <<[num |-> n, data |-> run]>>
  /\ size' = Capacity
  /\ refilled' = TRUE
  /\ num' = n
  /\ UNCHANGED set
  /\ start_threads

\* A full buffer drops the packet.
AddFull(n) ==
  /\ data_pc = "recv"
  /\ Found(set, n) = {} /\ packages # <<>> /\ Len(packages) >= size
  /\ num' = n
  /\ UNCHANGED <<bufforVars, refilled>>
  /\ start_threads

AddEnter(n) ==
  /\ data_pc = "recv"
  /\ Found(set, n) = {} /\ packages # <<>> /\ Len(packages) < size
  /\ num' = n
  /\ data_pc' = "add"
  /\ UNCHANGED <<bufforVars, run, stop, printVars, request_pc>>

AddNext ==
  /\ data_pc = "add"
  /\ Back + 1 = num
  /\ packages' = Append(packages, [num |-> num, data |-> run])
  /\ UNCHANGED <<set, size, num, refilled>>
  /\ start_threads

\* Mutant: a package that is dropped stays in set.
AddHole_Dangles ==
  /\ data_pc = "add"
  /\ Back + 1 # num /\ Back < MaxBack
  /\ LET longer == Append(packages, [num |-> Back + 1, data |-> Hole])
     IN  packages' = IF Len(longer) = size THEN Tail(longer) ELSE longer
  /\ set' = Append(set, Back + 1)
  /\ UNCHANGED <<size, run, data_pc, num, stop, printVars, request_pc>>

\* Mutant: the buffer is trimmed one package too late.
AddHole_Overfull ==
  /\ data_pc = "add"
  /\ Back + 1 # num /\ Back < MaxBack
  /\ LET longer == Append(packages, [num |-> Back + 1, data |-> Hole])
         holes  == Append(set, Back + 1)
     IN  IF Len(longer) > size
         THEN packages' = Tail(longer) /\ set' = check_set(holes, Front)
         ELSE packages' = longer /\ set' = holes
  /\ UNCHANGED <<size, run, data_pc, num, stop, printVars, request_pc>>

\* A turn that does not reach num appends a hole; a buffer that it fills loses
\* its oldest package.
AddHole ==
  /\ data_pc = "add"
  /\ Back + 1 # num /\ Back < MaxBack
  /\ LET longer == Append(packages, [num |-> Back + 1, data |-> Hole])
         holes  == Append(set, Back + 1)
     IN  IF Len(longer) = size
         THEN packages' = Tail(longer) /\ set' = check_set(holes, Front)
         ELSE packages' = longer /\ set' = holes
  /\ UNCHANGED <<size, run, data_pc, num, stop, printVars, request_pc>>

\* reset_buffor
reset == packages' = <<>> /\ set' = <<>> /\ UNCHANGED size

\* The station changed or a newer session was heard.
DataEnds ==
  /\ data_pc = "recv"
  /\ reset
  /\ data_pc' = "stop"
  /\ UNCHANGED <<run, num, stop, printVars, request_pc>>

\* Mutant: the other threads are not told.
DataStop_Forgets ==
  /\ data_pc = "stop"
  /\ data_pc' = "join"
  /\ UNCHANGED <<bufforVars, run, num, stop, printVars, request_pc>>

DataStop ==
  /\ data_pc = "stop"
  /\ stop' = TRUE
  /\ data_pc' = "join"
  /\ UNCHANGED <<bufforVars, run, num, printVars, request_pc>>

\* Mutant: no thread is joined.
DataJoin_NoWait ==
  /\ data_pc = "join"
  /\ data_pc' = "done"
  /\ UNCHANGED <<bufforVars, run, num, stop, printVars, request_pc>>

\* Only the printing thread is joined.
DataJoin ==
  /\ data_pc = "join" /\ print_pc \in {"none", "done"}
  /\ data_pc' = "done" /\ print_pc' = "none"
  /\ UNCHANGED <<bufforVars, run, num, stop, package, refilled, request_pc>>

\* main joins data_loop and starts it for the station marked now; its flags printing
\* and requesting are new, stop is everybody's.
NextRun ==
  /\ data_pc = "done" /\ run < MaxRuns
  /\ run' = run + 1
  /\ data_pc' = "recv" /\ stop' = FALSE
  /\ UNCHANGED <<bufforVars, num, printVars, request_pc>>

-----------------------------------------------------------------------------
(* printing_loop and requesting_loop *)

\* Mutant: the front is read but stays in the buffer.
PrintPop_Peeks ==
  /\ print_pc = "lock" /\ data_pc # "add"
  /\ packages # <<>> /\ ~stop /\ packages[1].data # Hole
  /\ package' = packages[1] /\ refilled' = FALSE
  /\ print_pc' = "write"
  /\ UNCHANGED <<bufforVars, run, data_pc, num, stop, request_pc>>

PrintPop ==
  /\ print_pc = "lock" /\ data_pc # "add"
  /\ packages # <<>> /\ ~stop /\ packages[1].data # Hole
  /\ package' = packages[1] /\ refilled' = FALSE
  /\ packages' = Tail(packages) /\ set' = check_set(set, Front)
  /\ print_pc' = "write"
  /\ UNCHANGED <<size, run, data_pc, num, stop, request_pc>>

\* A hole resets the buffer; the thread ends, and data_loop, which goes on
\* believing that it prints, never starts another.
PrintHole ==
  /\ print_pc = "lock" /\ data_pc # "add"
  /\ packages # <<>> /\ ~stop /\ packages[1].data = Hole
  /\ reset
  /\ print_pc' = "done"
  /\ UNCHANGED <<run, data_pc, num, stop, package, refilled, request_pc>>

PrintWrite ==
  /\ print_pc = "write"
  /\ print_pc' = "lock"
  /\ UNCHANGED <<bufforVars, run, data_pc, num, stop, package, refilled,
                 request_pc>>

PrintDone ==
  /\ print_pc = "lock" /\ data_pc # "add"
  /\ packages = <<>> \/ stop
  /\ print_pc' = "done"
  /\ UNCHANGED <<bufforVars, run, data_pc, num, stop, package, refilled,
                 request_pc>>

\* It goes to sleep, for RTIME, unless it sees stop.
RequestTest(r) ==
  /\ request_pc[r] = "test"
  /\ request_pc' = [request_pc EXCEPT ![r] = IF stop THEN "done" ELSE "sleep"]
  /\ UNCHANGED <<bufforVars, run, data_pc, num, stop, printVars>>

\* It wakes and asks for what set holds.
Request(r) ==
  /\ request_pc[r] = "sleep" /\ data_pc # "add"
  /\ request_pc' = [request_pc EXCEPT ![r] = "test"]
  /\ UNCHANGED <<bufforVars, run, data_pc, num, stop, printVars>>

Data == \/ \E n \in 0..MaxNum : AddFound(n) \/ AddFirst(n) \/ AddFull(n)
                                  \/ AddEnter(n)
        \/ AddNext \/ AddHole \/ DataEnds \/ DataStop \/ DataJoin \/ NextRun
Printing == PrintPop \/ PrintHole \/ PrintWrite \/ PrintDone

Requesting(r) == RequestTest(r) \/ Request(r)

Next == Data \/ Printing \/ \E r \in Runs : Requesting(r)

\* Threads are scheduled; nothing says that packets arrive, that stations change or
\* that main finds a next one.
Fairness ==
  /\ WF_vars(AddNext) /\ WF_vars(AddHole)
  /\ WF_vars(DataStop) /\ WF_vars(DataJoin)
  /\ WF_vars(Printing) /\ \A r \in Runs : WF_vars(Requesting(r))

Spec == Init /\ [][Next]_vars /\ Fairness

-----------------------------------------------------------------------------
(* Properties *)

\* Every variable keeps its type.
TypeOK ==
  /\ packages \in Seq(Package) /\ set \in Seq(Nat) /\ size \in {0, Capacity}
  /\ data_pc \in {"recv", "add", "stop", "join", "done"}
  /\ run \in Runs /\ num \in 0..MaxNum
  /\ stop \in BOOLEAN /\ refilled \in BOOLEAN
  /\ print_pc \in {"none", "lock", "write", "done"}
  /\ package \in Package
  /\ request_pc \in [Runs -> {"none", "test", "sleep", "done"}]

\* The list holds consecutive numbers, whatever the network delivered
\* (add_to_buffer_end only ever appends the next number).
Contiguous == \A i \in DOMAIN packages : packages[i].num = Front + i - 1

\* The packages in the list by their numbers.
Numbered(list) ==
  LET at(n) == CHOOSE i \in DOMAIN list : list[i].num = n
  IN  [n \in {list[i].num : i \in DOMAIN list} |-> list[at(n)].data]

\* The package that is being written, if any.
Playing == IF print_pc = "write" THEN package ELSE [num |-> 0, data |-> Hole]

\* The buffer and its threads implement PlayBuffer, as those of big3 do: one
\* stretch of one station's stream, each packet in its own place, played from the
\* front, no hole played, and only the front given up by a full buffer.
PlayBuffer == INSTANCE PlayBuffer WITH
                Number  <- 0..MaxNum,
                Payload <- Runs,
                buffer  <- Numbered(packages),
                playing <- Playing

ImplementsPlayBuffer == PlayBuffer!Spec

\* The list of missing packets and the list of packages, which point into each
\* other, agree: set names exactly the holes, in order.  So no element of set
\* points to a package that was freed (pop_from_buffor, reset_buffor).
SetIsHoles ==
  /\ {set[i] : i \in DOMAIN set} =
       {packages[i].num : i \in {j \in DOMAIN packages : packages[j].data = Hole}}
  /\ \A i, j \in DOMAIN set : i < j => set[i] < set[j]

\* The buffer never holds more than size packages, and the loop of
\* add_to_buffor only turns below that (its trimming against its condition).
Bounded ==
  /\ packages = <<>> \/ Len(packages) = 1 \/ Len(packages) <= size
  /\ data_pc = "add" => packages # <<>> /\ Len(packages) < size

\* What is written goes forward through the stream, over holes that were filled
\* late and packages trimmed away, unless the buffer ran empty in between.
PlaysForward ==
  [][print_pc = "lock" /\ print_pc' = "write" /\ ~refilled
       => package'.num > package.num]_vars

\* The comment on check_set: it "Checks if set(list) of missing packages contains
\* num, if so removes it".  So a missing packet that arrives fills its hole, and
\* never goes on to the loop of add_to_buffor, which appends what is new.
MissingIsTaken ==
  [][data_pc = "recv" /\ data_pc' = "add"
       => \A i \in DOMAIN set : set[i] # num']_vars

\* The end of data_loop takes the printing thread with it, and all the requesting
\* threads unless another run comes, whose stop = false may keep those that are
\* asleep beside the new one.
EndsAll ==
  \A r \in Runs :
    run = r /\ data_pc = "stop" ~>
      \/ data_pc = "done" /\ \A q \in Runs : request_pc[q] \in {"none", "done"}
      \/ run > r
=============================================================================
