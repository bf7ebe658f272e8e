---------------------------- MODULE ForkServers -----------------------------
(***************************************************************************)
(* The servers of scenario 07 with a handler per client: proc_server.c     *)
(* forks a process for each connection, thread_server.c starts a thread,   *)
(* preforked_server.c keeps processes that accept on their own and a boss  *)
(* who waits for SIGINT.  program says which one runs.                     *)
(*                                                                         *)
(* What clients send is only printed: a connection is open until its       *)
(* client closes or resets it, and held by the processes with a descriptor *)
(* of it.  thread_server.c calls exit() when accept() or malloc() fails,   *)
(* and from a handler's thread when getpeername() does: the whole server   *)
(* ends.  The kernel is external: accept() queue, descriptors, signals.    *)
(* In preforked_server.c the model starts once signal() was called.        *)
(***************************************************************************)
EXTENDS Naturals

CONSTANTS
  Conns, Workers,   \* connections; handlers (processes or threads)
  Boss, None,
  MaxSignals        \* bound: how often SIGINT comes

ASSUME ConstantsAssumption ==
  /\ Boss \notin Workers /\ None \notin Conns /\ MaxSignals \in Nat

VARIABLES
  program,
  client,     \* each client: "away", "queued", "open", "closed", "reset"
  holders,    \* processes with a descriptor of the connection
  leaked,     \* connections whose handler could not start, or gave up
  worker,     \* each handler: "none", "new", "accept", "serve", "dead"
  arg,        \* what the handler was given: its copy of msgsock, or *con
  serving,    \* the connection it reads
  boss, msgsock, signals, finish

connVars == <<client, holders, leaked>>
workVars == <<worker, arg, serving>>
bossVars == <<boss, msgsock, signals, finish>>
vars == <<program, connVars, workVars, bossVars>>

\* The process a handler lives in.
Process(w) == IF program = "thread" THEN Boss ELSE w

Init ==
  /\ program \in {"proc", "thread", "prefork"}
  /\ client = [c \in Conns |-> "away"]
  /\ holders = [c \in Conns |-> {}] /\ leaked = {}
  /\ IF program = "prefork"
     THEN worker \in [Workers -> {"accept", "none"}] /\ boss = "test"
     ELSE worker = [w \in Workers |-> "none"] /\ boss = "accept"
  /\ arg = [w \in Workers |-> None] /\ serving = [w \in Workers |-> None]
  /\ msgsock = None /\ signals = 0 /\ finish = FALSE

Connect(c) ==
  /\ client[c] = "away" /\ boss # "exit"
  /\ client' = [client EXCEPT ![c] = "queued"]
  /\ UNCHANGED <<program, holders, leaked, workVars, bossVars>>

\* The client closes its end, or resets the connection.
Close(c) ==
  /\ client[c] = "open"
  /\ \E end \in {"closed", "reset"} : client' = [client EXCEPT ![c] = end]
  /\ UNCHANGED <<program, holders, leaked, workVars, bossVars>>

Accepted(c, p) ==
  /\ client[c] = "queued"
  /\ client' = [client EXCEPT ![c] = "open"]
  /\ holders' = [holders EXCEPT ![c] = {p}]

\* No handler that was started lives on.
AllEnd ==
  /\ worker' = [w \in Workers |-> IF worker[w] = "none" THEN "none" ELSE "dead"]
  /\ serving' = [w \in Workers |-> None]

\* exit() from any thread of thread_server.c.
Exit ==
  /\ program = "thread"
  /\ AllEnd
  /\ holders' = [c \in Conns |-> {}]
  /\ boss' = "exit"
  /\ UNCHANGED <<program, client, leaked, arg, msgsock, signals, finish>>

-----------------------------------------------------------------------------
(* proc_server.c and thread_server.c: the main loop *)

BossAccept(c) ==
  /\ boss = "accept" /\ program # "prefork"
  /\ Accepted(c, Boss)
  /\ msgsock' = c /\ boss' = "start"
  /\ UNCHANGED <<program, leaked, workVars, signals, finish>>

\* fork() copies msgsock and the descriptor, malloc() the number for a thread.
BossStart(w) ==
  /\ boss = "start" /\ worker[w] = "none"
  /\ worker' = [worker EXCEPT ![w] = "new"]
  /\ arg' = [arg EXCEPT ![w] = msgsock]
  /\ holders' = [holders EXCEPT ![msgsock] = @ \union {Process(w)}]
  /\ boss' = IF program = "proc" THEN "close" ELSE "accept"
  /\ UNCHANGED <<program, client, leaked, serving, msgsock, signals, finish>>

\* fork() fails: the connection is closed.  pthread_create() fails: it returns a
\* positive number, which the test for -1 misses, and nobody serves the client.
BossStartFails ==
  /\ boss = "start"
  /\ IF program = "proc"
     THEN holders' = [holders EXCEPT ![msgsock] = {}] /\ UNCHANGED leaked
     ELSE leaked' = leaked \union {msgsock} /\ UNCHANGED holders
  /\ boss' = "accept"
  /\ UNCHANGED <<program, client, workVars, msgsock, signals, finish>>

\* accept() fails, or malloc() does (proc_server.c only prints the first).
BossFails == boss \in {"accept", "start"} /\ Exit

\* Mutant: the parent keeps its descriptor.
BossClose_Keeps ==
  /\ boss = "close"
  /\ boss' = "accept"
  /\ UNCHANGED <<program, connVars, workVars, msgsock, signals, finish>>

\* Mutant: the parent waits for the child.
BossClose_Waits ==
  /\ boss = "close"
  /\ \A w \in Workers : arg[w] = msgsock => worker[w] = "dead"
  /\ holders' = [holders EXCEPT ![msgsock] = @ \ {Boss}]
  /\ boss' = "accept"
  /\ UNCHANGED <<program, client, leaked, workVars, msgsock, signals, finish>>

\* The parent has no use for the connection.
BossClose ==
  /\ boss = "close"
  /\ holders' = [holders EXCEPT ![msgsock] = @ \ {Boss}]
  /\ boss' = "accept"
  /\ UNCHANGED <<program, client, leaked, workVars, msgsock, signals, finish>>

-----------------------------------------------------------------------------
(* The handlers *)

\* Mutant: the thread is given the address of msgsock.
WorkerBegin_Shared(w) ==
  /\ worker[w] = "new"
  /\ serving' = [serving EXCEPT ![w] = msgsock]
  /\ worker' = [worker EXCEPT ![w] = "serve"]
  /\ UNCHANGED <<program, connVars, arg, bossVars>>

\* A thread asks first who calls, and nobody does if the client has reset.
WorkerBegin(w) ==
  /\ worker[w] = "new"
  /\ \/ /\ program = "thread" => client[arg[w]] # "reset"
        /\ serving' = [serving EXCEPT ![w] = arg[w]]
        /\ worker' = [worker EXCEPT ![w] = "serve"]
        /\ UNCHANGED <<program, connVars, arg, bossVars>>
     \/ client[arg[w]] = "reset" /\ Exit

\* make_child: a child accepts for itself.
WorkerAccept(w, c) ==
  /\ worker[w] = "accept"
  /\ Accepted(c, w)
  /\ serving' = [serving EXCEPT ![w] = c]
  /\ worker' = [worker EXCEPT ![w] = "serve"]
  /\ UNCHANGED <<program, leaked, arg, bossVars>>

Done(w) ==
  /\ serving' = [serving EXCEPT ![w] = None]
  /\ worker' = [worker EXCEPT ![w] = IF program = "prefork" THEN "accept" ELSE "dead"]
  /\ UNCHANGED <<program, client, arg, bossVars>>

CloseServed(w) ==
  holders' = [holders EXCEPT ![serving[w]] = @ \ {Process(w)}]

\* The end of the stream.
WorkerEnds(w) ==
  /\ worker[w] = "serve" /\ client[serving[w]] = "closed"
  /\ CloseServed(w) /\ UNCHANGED leaked
  /\ Done(w)

\* read() fails, as it does after a reset: a thread returns without closing.
WorkerFails(w) ==
  /\ worker[w] = "serve"
  /\ IF program = "thread"
     THEN leaked' = leaked \union {serving[w]} /\ UNCHANGED holders
     ELSE CloseServed(w) /\ UNCHANGED leaked
  /\ Done(w)

\* What a handler cannot but do.
Worker(w) == \/ WorkerBegin(w) \/ WorkerEnds(w)
             \/ \E c \in Conns : WorkerAccept(w, c)
             \/ worker[w] = "serve" /\ client[serving[w]] = "reset" /\ WorkerFails(w)

-----------------------------------------------------------------------------
(* preforked_server.c: the boss *)

\* while (!finish)
BossTest ==
  /\ boss = "test"
  /\ boss' = IF finish THEN "exit" ELSE "rest"
  /\ UNCHANGED <<program, connVars, workVars, msgsock, signals, finish>>

\* pause() sleeps even if SIGINT came since the test.
BossPause ==
  /\ boss = "rest"
  /\ boss' = "pause"
  /\ UNCHANGED <<program, connVars, workVars, msgsock, signals, finish>>

\* Mutant: only children that are free are ended.
Killed_Idle ==
  /\ worker' = [w \in Workers |-> IF worker[w] = "accept" THEN "dead" ELSE worker[w]]
  /\ UNCHANGED <<serving, holders>>

\* catch_int: every child is killed and waited for, then the boss goes on where
\* it was; pause() returns.
Killed ==
  /\ AllEnd
  /\ holders' = [c \in Conns |-> holders[c] \ Workers]

catch_int ==
  /\ program = "prefork" /\ boss \in {"test", "rest", "pause"} /\ signals < MaxSignals
  /\ signals' = signals + 1
  /\ Killed
  /\ finish' = TRUE
  /\ boss' = IF boss = "pause" THEN "test" ELSE boss
  /\ UNCHANGED <<program, client, leaked, arg, msgsock>>

BossSteps == \/ \E c \in Conns : BossAccept(c)
             \/ \E w \in Workers : BossStart(w)
             \/ BossStartFails \/ BossClose \/ BossTest \/ BossPause

Next == \/ \E c \in Conns : Connect(c) \/ Close(c)
        \/ \E w \in Workers : Worker(w) \/ WorkerFails(w)
        \/ BossFails \/ BossSteps \/ catch_int

Fairness == /\ WF_vars(BossSteps)
            /\ \A w \in Workers : WF_vars(Worker(w))

Spec == Init /\ [][Next]_vars /\ Fairness

-----------------------------------------------------------------------------
(* Properties *)

\* Every variable keeps its type.
TypeOK ==
  /\ program \in {"proc", "thread", "prefork"}
  /\ client \in [Conns -> {"away", "queued", "open", "closed", "reset"}]
  /\ holders \in [Conns -> SUBSET (Workers \union {Boss})]
  /\ leaked \in SUBSET Conns
  /\ worker \in [Workers -> {"none", "new", "accept", "serve", "dead"}]
  /\ arg \in [Workers -> Conns \union {None}]
  /\ serving \in [Workers -> Conns \union {None}]
  /\ boss \in {"accept", "start", "close", "test", "rest", "pause", "exit"}
  /\ msgsock \in Conns \union {None}
  /\ signals \in 0..MaxSignals /\ finish \in BOOLEAN

\* Each connection has a handler of its own, which reads it through a descriptor
\* that is open: no handler reads what another was given, though main() goes on
\* to the next msgsock before a thread looks at its argument ("every thread
\* should have data of its own", przeczytaj-mnie), and no process closes the
\* connection of another.
OneHandler ==
  \A w \in Workers :
    serving[w] # None =>
      /\ Process(w) \in holders[serving[w]]
      /\ \A v \in Workers : serving[v] = serving[w] => v = w

\* A client that went gets its answer: in the end no process holds a
\* descriptor, neither the handler nor the parent it was copied from, except
\* where a thread could not start or gave up on an error of read().
Released ==
  \A c \in Conns :
    client[c] \in {"closed", "reset"} ~> holders[c] = {} \/ c \in leaked

\* "While the subordinates work, the boss picks up the next calls" (header of
\* proc_server.c, and the same with threads), however long clients stay: a call
\* in the queue is accepted, unless the threaded server ended, on an accept() or
\* malloc() that failed or a client that reset before its thread ran.
BossAnswers ==
  \A c \in Conns :
    program # "prefork" /\ client[c] = "queued" ~> client[c] = "open" \/ boss = "exit"

\* Once catch_int returned no child is alive or holds a connection, wherever the
\* signal found them and the boss; so the boss leaves no orphans.  (It may not
\* leave at all: a signal between the test of finish and pause() ends nothing
\* but the children.)
NoOrphans ==
  finish => /\ \A w \in Workers : worker[w] \in {"none", "dead"}
            /\ \A c \in Conns : holders[c] = {}
=============================================================================
