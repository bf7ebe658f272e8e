------------------------- MODULE ForkServersProofs --------------------------
(***************************************************************************)
(* Theorems about ForkServers, for any numbers of clients, handlers and    *)
(* signals: a connection has one handler, and no child survives catch_int. *)
(***************************************************************************)
EXTENDS ForkServers, TLAPS

\* The connection a handler was given and did not finish.
Given(w) == IF worker[w] = "new" THEN arg[w] ELSE serving[w]

\* Which parts of the model belong to which program.
Programs ==
  /\ program = "prefork" => boss \in {"test", "rest", "pause", "exit"}
  /\ boss \in {"test", "rest", "pause"} => program = "prefork"
  /\ \A w \in Workers : worker[w] = "new" => program # "prefork"
  /\ \A w \in Workers : worker[w] = "accept" => program = "prefork"
  /\ program = "prefork" => \A c \in Conns : holders[c] \subseteq Workers
  /\ boss = "close" => program = "proc"
  /\ finish => program = "prefork"

\* A handler has a connection from its start to its end, and nobody else has it.
Owned ==
  \A w \in Workers :
    /\ worker[w] = "serve" <=> serving[w] # None
    /\ worker[w] = "new" => arg[w] # None
    /\ Given(w) # None =>
         /\ Process(w) \in holders[Given(w)]
         /\ client[Given(w)] \in {"open", "closed", "reset"}
         /\ \A v \in Workers : Given(v) = Given(w) => v = w

\* The connection main() just accepted has no handler yet.
Fresh ==
  /\ boss \in {"start", "close"} => msgsock \in Conns
  /\ boss = "start" => /\ client[msgsock] \in {"open", "closed", "reset"}
                       /\ Boss \in holders[msgsock]
                       /\ \A w \in Workers : Given(w) # msgsock

IInv == TypeOK /\ Programs /\ Owned /\ Fresh /\ NoOrphans

-----------------------------------------------------------------------------

\* The servers start with the invariant.
LEMMA InitIInv == Init => IInv
<1> SUFFICES ASSUME Init PROVE IInv
  OBVIOUS
<1> USE ConstantsAssumption DEF Init
<1>1. TypeOK
  <2>1. worker \in [Workers -> {"none", "new", "accept", "serve", "dead"}]
    <3>1. CASE program = "prefork"
      BY <3>1
    <3>2. CASE program # "prefork"
      BY <3>2
    <3> QED
      BY <3>1, <3>2
  <2>2. boss \in {"accept", "start", "close", "test", "rest", "pause", "exit"}
    OBVIOUS
  <2>3. holders \in [Conns -> SUBSET (Workers \union {Boss})] /\ leaked \in SUBSET Conns
    OBVIOUS
  <2>4. client \in [Conns -> {"away", "queued", "open", "closed", "reset"}]
    OBVIOUS
  <2>5. arg \in [Workers -> Conns \union {None}] /\ serving \in [Workers -> Conns \union {None}]
    OBVIOUS
  <2>6. signals \in 0..MaxSignals /\ msgsock \in Conns \union {None}
    OBVIOUS
  <2>7. program \in {"proc", "thread", "prefork"} /\ finish \in BOOLEAN
    OBVIOUS
  <2> QED
    BY ONLY <2>1, <2>2, <2>3, <2>4, <2>5, <2>6, <2>7 DEF TypeOK
<1>2. Programs
  BY DEF Programs
<1>3. Owned
  BY DEF Owned, Given
<1>4. Fresh /\ NoOrphans
  BY DEF Fresh, NoOrphans
<1> QED
  BY <1>1, <1>2, <1>3, <1>4 DEF IInv

\* Clients: only the state of one client changes.
LEMMA ClientStep ==
  ASSUME IInv, NEW c \in Conns, Connect(c) \/ Close(c)
  PROVE  IInv'
<1> USE ConstantsAssumption DEF IInv, Connect, Close, workVars, bossVars
<1>1. TypeOK'
  BY DEF TypeOK
<1>2. Programs'
  BY DEF Programs
<1>3. Owned'
  <2> SUFFICES ASSUME NEW w \in Workers
               PROVE  /\ worker'[w] = "serve" <=> serving'[w] # None
                      /\ worker'[w] = "new" => arg'[w] # None
                      /\ Given(w)' # None =>
                           /\ Process(w)' \in holders'[Given(w)']
                           /\ client'[Given(w)'] \in {"open", "closed", "reset"}
                           /\ \A v \in Workers : Given(v)' = Given(w)' => v = w
    BY DEF Owned
  <2>1. \A v \in Workers : Given(v)' = Given(v) /\ Given(v) \in Conns \union {None}
    BY DEF Given, TypeOK
  <2>2. Process(w)' = Process(w)
    BY DEF Process
  <2> QED
    BY <2>1, <2>2 DEF Owned, TypeOK
<1>4. Fresh'
  BY DEF Fresh, TypeOK, Given
<1>5. NoOrphans'
  BY DEF NoOrphans
<1> QED
  BY <1>1, <1>2, <1>3, <1>4, <1>5

\* exit() in thread_server.c leaves no handler and no descriptor.
LEMMA ExitStep ==
  ASSUME IInv, Exit
  PROVE  IInv'
<1> USE ConstantsAssumption DEF IInv, Exit, AllEnd
<1>1. TypeOK'
  BY DEF TypeOK
<1>2. Programs' /\ NoOrphans'
  BY DEF Programs, NoOrphans, TypeOK
<1>3. Owned'
  BY DEF Owned, Given
<1>4. Fresh'
  BY DEF Fresh
<1> QED
  BY <1>1, <1>2, <1>3, <1>4

\* main() of proc_server.c and thread_server.c: nobody has what it accepts, and
\* what it closes belongs to no handler that lives in the parent.
LEMMA BossStep ==
  ASSUME IInv,
         \/ \E c \in Conns : BossAccept(c)
         \/ BossFails \/ BossStartFails \/ BossClose \/ BossTest \/ BossPause
  PROVE  IInv'
<1> USE ConstantsAssumption DEF IInv, connVars, workVars, bossVars
<1>1. ASSUME NEW c \in Conns, BossAccept(c) PROVE IInv'
  <2> USE <1>1 DEF BossAccept, Accepted
  <2>1. TypeOK'
    BY DEF TypeOK
  <2>2. Programs' /\ NoOrphans'
    BY DEF Programs, NoOrphans, TypeOK
  <2>3. \A w \in Workers : Given(w)' = Given(w) /\ Given(w) # c /\ Process(w)' = Process(w)
    BY DEF Given, Process, Owned, TypeOK
  <2>4. Owned'
    BY <2>3 DEF Owned, TypeOK, Given
  <2>5. Fresh'
    BY <2>3 DEF Fresh, TypeOK
  <2> QED
    BY <2>1, <2>2, <2>4, <2>5
<1>2. ASSUME BossStartFails PROVE IInv'
  <2> USE <1>2 DEF BossStartFails
  <2>1. TypeOK'
    BY DEF TypeOK, Fresh
  <2>2. Programs' /\ NoOrphans'
    BY DEF Programs, NoOrphans, TypeOK
  <2>3. \A w \in Workers : Given(w)' = Given(w) /\ Given(w) # msgsock /\ Process(w)' = Process(w)
    BY DEF Given, Process, Fresh
  <2>4. Owned'
    BY <2>3 DEF Owned, TypeOK, Given
  <2>5. Fresh'
    BY DEF Fresh
  <2> QED
    BY <2>1, <2>2, <2>4, <2>5
<1>3. ASSUME BossClose PROVE IInv'
  <2> USE <1>3 DEF BossClose
  <2>1. TypeOK'
    BY DEF TypeOK, Fresh
  <2>2. Programs' /\ NoOrphans'
    BY DEF Programs, NoOrphans, TypeOK
  <2>3. \A w \in Workers : Given(w)' = Given(w) /\ Process(w)' = w /\ Process(w) = w
    BY DEF Given, Process, Programs
  <2>4. Owned'
    BY <2>3 DEF Owned, TypeOK, Given
  <2>5. Fresh'
    BY DEF Fresh
  <2> QED
    BY <2>1, <2>2, <2>4, <2>5
<1>4. ASSUME BossTest \/ BossPause PROVE IInv'
  <2> USE <1>4 DEF BossTest, BossPause
  <2>1. TypeOK'
    BY DEF TypeOK
  <2>2. Programs' /\ NoOrphans'
    BY DEF Programs, NoOrphans, TypeOK
  <2>3. Owned'
    BY DEF Owned, Given, Process
  <2>4. Fresh'
    BY DEF Fresh
  <2> QED
    BY <2>1, <2>2, <2>3, <2>4
<1>5. ASSUME BossFails PROVE IInv'
  BY <1>5, ExitStep DEF BossFails
<1> QED
  BY <1>1, <1>2, <1>3, <1>4, <1>5

\* A handler starts: it gets the connection that was fresh.
LEMMA StartStep ==
  ASSUME IInv, NEW w \in Workers, BossStart(w)
  PROVE  IInv'
<1> USE ConstantsAssumption DEF IInv, BossStart
<1>1. TypeOK'
  BY DEF TypeOK, Fresh, Process
<1>2. Programs' /\ NoOrphans'
  BY DEF Programs, NoOrphans, TypeOK
<1>3. /\ Given(w)' = msgsock /\ msgsock \in Conns
      /\ \A v \in Workers : v # w => Given(v)' = Given(v)
      /\ \A v \in Workers : Given(v) # msgsock /\ Process(v)' = Process(v)
  BY DEF Given, Fresh, Process, TypeOK
<1>4. Owned'
  <2>1. \A v \in Workers : /\ worker'[v] = "serve" <=> serving'[v] # None
                         /\ worker'[v] = "new" => arg'[v] # None
    BY <1>3 DEF Owned, TypeOK
  <2>2. \A v \in Workers : Given(v)' # None => /\ Process(v)' \in holders'[Given(v)']
                                              /\ client'[Given(v)'] \in {"open", "closed", "reset"}
    BY <1>3 DEF Owned, TypeOK, Fresh
  <2>3. \A v, u \in Workers : Given(v)' # None /\ Given(u)' = Given(v)' => u = v
    BY <1>3 DEF Owned
  <2> QED
    BY <2>1, <2>2, <2>3 DEF Owned
<1>5. Fresh'
  BY <1>3 DEF Fresh
<1> QED
  BY <1>1, <1>2, <1>4, <1>5

\* A handler begins, accepts, ends or gives up: its connection is its own, so
\* whatever it closes no other handler and not the boss is about to use.
LEMMA WorkerStep ==
  ASSUME IInv, NEW w \in Workers, Worker(w) \/ WorkerFails(w)
  PROVE  IInv'
<1> USE ConstantsAssumption DEF IInv, connVars, bossVars
<1>0. ASSUME Exit PROVE IInv'
  BY <1>0, ExitStep
<1>1. ASSUME worker[w] = "new", serving' = [serving EXCEPT ![w] = arg[w]],
             worker' = [worker EXCEPT ![w] = "serve"],
             UNCHANGED <<program, connVars, arg, bossVars>>
      PROVE  IInv'
  <2> USE <1>1
  <2>1. TypeOK'
    BY DEF TypeOK
  <2>2. Programs' /\ NoOrphans'
    BY DEF Programs, NoOrphans, TypeOK
  <2>3. \A v \in Workers : Given(v)' = Given(v) /\ Process(v)' = Process(v)
    BY DEF Given, Process, TypeOK
  <2>4. Owned'
    BY <2>3 DEF Owned, TypeOK, Given
  <2>5. Fresh'
    BY <2>3 DEF Fresh
  <2> QED
    BY <2>1, <2>2, <2>4, <2>5
<1>2. ASSUME NEW c \in Conns, WorkerAccept(w, c) PROVE IInv'
  <2> USE <1>2 DEF WorkerAccept, Accepted
  <2>1. TypeOK'
    BY DEF TypeOK
  <2>2. Programs' /\ NoOrphans'
    BY DEF Programs, NoOrphans, TypeOK
  <2>3. /\ Given(w)' = c
        /\ \A v \in Workers : v # w => Given(v)' = Given(v)
        /\ \A v \in Workers : Given(v) # c /\ Process(v)' = v /\ Process(v) = v
    BY DEF Given, Process, Owned, TypeOK, Programs
  <2>4. Owned'
    <3>0. SUFFICES ASSUME NEW v \in Workers
                   PROVE  /\ worker'[v] = "serve" <=> serving'[v] # None
                          /\ worker'[v] = "new" => arg'[v] # None
                          /\ Given(v)' # None =>
                               /\ Process(v)' \in holders'[Given(v)']
                               /\ client'[Given(v)'] \in {"open", "closed", "reset"}
                               /\ \A u \in Workers : Given(u)' = Given(v)' => u = v
      BY Zenon DEF Owned
    <3>1. /\ worker'[v] = "serve" <=> serving'[v] # None
          /\ worker'[v] = "new" => arg'[v] # None
      BY DEF Owned, TypeOK
    <3>2. ASSUME Given(v)' # None
          PROVE  /\ Process(v)' \in holders'[Given(v)']
                 /\ client'[Given(v)'] \in {"open", "closed", "reset"}
      BY <3>2, <2>3 DEF Owned, TypeOK, Given
    <3>3. ASSUME Given(v)' # None
          PROVE  \A u \in Workers : Given(u)' = Given(v)' => u = v
      BY <3>3, <2>3 DEF Owned
    <3> QED
      BY <3>1, <3>2, <3>3, Zenon
  <2>5. Fresh'
    BY DEF Fresh, Programs
  <2> QED
    BY <2>1, <2>2, <2>4, <2>5
<1>3. ASSUME WorkerEnds(w) \/ WorkerFails(w) PROVE IInv'
  <2> USE <1>3 DEF WorkerEnds, WorkerFails, Done, CloseServed
  <2>0. serving[w] \in Conns /\ Given(w) = serving[w]
    BY DEF Owned, TypeOK, Given
  <2>1. TypeOK'
    BY <2>0 DEF TypeOK
  <2>2. Programs' /\ NoOrphans'
    BY <2>0 DEF Programs, NoOrphans, TypeOK
  <2>3. /\ Given(w)' = None
        /\ \A v \in Workers : v # w => Given(v)' = Given(v) /\ Given(v) # serving[w]
        /\ \A v \in Workers : Process(v)' = Process(v)
    BY <2>0 DEF Given, Process, Owned, TypeOK
  <2>4. Owned'
    <3>0. SUFFICES ASSUME NEW v \in Workers
                   PROVE  /\ worker'[v] = "serve" <=> serving'[v] # None
                          /\ worker'[v] = "new" => arg'[v] # None
                          /\ Given(v)' # None =>
                               /\ Process(v)' \in holders'[Given(v)']
                               /\ client'[Given(v)'] \in {"open", "closed", "reset"}
                               /\ \A u \in Workers : Given(u)' = Given(v)' => u = v
      BY Zenon DEF Owned
    <3>1. /\ worker'[v] = "serve" <=> serving'[v] # None
          /\ worker'[v] = "new" => arg'[v] # None
      BY <2>0 DEF Owned, TypeOK
    <3>2. ASSUME Given(v)' # None
          PROVE  /\ Process(v)' \in holders'[Given(v)']
                 /\ client'[Given(v)'] \in {"open", "closed", "reset"}
      BY <3>2, <2>3 DEF Owned, TypeOK, Given
    <3>3. ASSUME Given(v)' # None
          PROVE  \A u \in Workers : Given(u)' = Given(v)' => u = v
      BY <3>3, <2>3 DEF Owned
    <3> QED
      BY <3>1, <3>2, <3>3, Zenon
  <2>5. Fresh'
    BY <2>0, <2>3 DEF Fresh, TypeOK
  <2> QED
    BY <2>1, <2>2, <2>4, <2>5
<1> QED
  BY <1>0, <1>1, <1>2, <1>3 DEF Worker, WorkerBegin

\* SIGINT leaves no handler, and in preforked_server.c nobody else held anything.
LEMMA SignalStep ==
  ASSUME IInv, catch_int
  PROVE  IInv'
<1> USE ConstantsAssumption DEF IInv, catch_int, Killed, AllEnd
<1>1. TypeOK'
  BY DEF TypeOK
<1>2. Programs' /\ NoOrphans'
  BY DEF Programs, NoOrphans, TypeOK
<1>3. Owned'
  BY DEF Owned, Given
<1>4. Fresh'
  BY DEF Fresh
<1> QED
  BY <1>1, <1>2, <1>3, <1>4

\* IInv is an inductive invariant.
THEOREM ForkServersInv == Spec => []IInv
<1>1. ASSUME IInv, [Next]_vars PROVE IInv'
  <2>1. CASE \E c \in Conns : Connect(c) \/ Close(c)
    BY <1>1, <2>1, ClientStep
  <2>2. CASE \E w \in Workers : Worker(w) \/ WorkerFails(w)
    BY <1>1, <2>2, WorkerStep
  <2>3. CASE BossFails \/ BossSteps
    BY <1>1, <2>3, BossStep, StartStep DEF BossSteps
  <2>4. CASE catch_int
    BY <1>1, <2>4, SignalStep
  <2>5. CASE UNCHANGED vars
    BY <1>1, <2>5 DEF IInv, TypeOK, Programs, Owned, Fresh, NoOrphans, Given, Process,
                      vars, connVars, workVars, bossVars
  <2> QED
    BY <1>1, <2>1, <2>2, <2>3, <2>4, <2>5 DEF Next
<1> QED
  BY InitIInv, <1>1, PTL DEF Spec

\* Every variable keeps its type, whatever the numbers of clients and handlers.
THEOREM ForkServersTypeOK == Spec => []TypeOK
  BY ForkServersInv, PTL DEF IInv

\* A connection is read by one handler, through a descriptor that is open.
THEOREM ForkServersOneHandler == Spec => []OneHandler
<1>1. IInv => OneHandler
  <2> SUFFICES ASSUME IInv, NEW w \in Workers, serving[w] # None
               PROVE  /\ Process(w) \in holders[serving[w]]
                      /\ \A v \in Workers : serving[v] = serving[w] => v = w
    BY DEF OneHandler
  <2>1. \A v \in Workers : serving[v] = serving[w] => Given(v) = serving[w]
    BY DEF IInv, Owned, Given
  <2> QED
    BY <2>1 DEF IInv, Owned
<1> QED
  BY <1>1, ForkServersInv, PTL

\* catch_int leaves no child and no connection of one.
THEOREM ForkServersNoOrphans == Spec => []NoOrphans
  BY ForkServersInv, PTL DEF IInv

=============================================================================
