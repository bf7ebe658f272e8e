# Verification of sik-mimuw

TLA+ specifications of the programs in this repository: the internet radio of
`src/big3` (a sender, a receiver), the audio buffer of its first version in
`src/big`, the telnet menu servers of `src/zad1` and `src/ver2`, the file copy
exercise of lab 08, and the servers with many clients of scenario 07. Each
module is translated from the C or C++ source; `PROJECT.json` maps every
definition to its lines and lists the hazards at theirs. TLC checks the
configurations of section 3 on small instances; TLAPS checks the proofs of
section 4 for all instances.

## 1. Inventory

| Part | Source | State | Operations | What is hard |
|---|---|---|---|---|
| Radio sender | `big3/nadajnik.cpp`, `fifo.*`, `set.*` | FIFO of sent packets, `byte_num`, collected packet numbers, `finish`, two mutexes | read stdin and multicast; answer lookups and collect numbers; retransmit every RTIME | three threads, two locks, requests inserted while they are taken, ends of stdin, order of joins and `closeAll` |
| Radio receiver: audio | `big3/odbiornik.cpp` (`data_loop`, `printing_loop`, `requesting_loop`), `buffor.*` | list of packages, map from missing numbers to iterators, size, three flags between threads | store a packet, drop, fill holes, reset; play; ask for missing ones | lost, late and repeated packets; iterators kept in a map; threads of one run of `data_loop` meeting the next; an unlock too many; a join of the wrong thread |
| Radio receiver: menu | `big3/odbiornik.cpp` (`loop_terminal`, `request_lookup`, `recieve_lookup`, `main`), `menu.*` | ordered list of stations, iterator `active`, `is_active`, `menu_changed`, terminals | enter or refresh a station, move the mark, drop silent stations, redraw, start and leave a station | `menu_changed` cleared outside the mutex, an erased iterator used, three threads to switch stations, a terminal that does not read, a greeting drawn without the mutex |
| First audio buffer | `big/buffor.c`, the threads of `big/odbiornik.c` | two linked lists pointing into each other, `fill`, `size`, `stop` | store, trim, play, fill a hole, reset | a packet from behind never ends the loop; a list of missing packages that must name exactly the holes; `stop` cleared by the next run while the requester of the last one sleeps |
| Telnet menus | `zad1/tien.cpp`; `ver2/main.cc`, `tcpConnection.cc` | menu, marked option, connection | accept, receive a key, move, enter, leave, draw | keys cut and joined by TCP; users who hang up at any point |
| Poll servers | scenario 07 `poll_server.c`, `echo-server-nonblocking.c`, `client.c`, `echo-client-timeout.c` | table of clients, `revents`, a buffer per slot, `activeClients`, `finish` | accept, receive, send back, close, drain after SIGINT | stale `revents`, partial writes, both sides writing, SIGPIPE, a client that never ends |
| Handler servers | scenario 07 `proc_server.c`, `thread_server.c`, `preforked_server.c` | descriptors, handlers, the boss | accept, fork or start, serve, close, kill the children | arguments shared with threads, descriptors copied by fork, `exit()` in a thread, a signal between test and `pause()` |
| File copy | lab 08 `server.c`, `client.c` | 16 slots, one global descriptor, libevent callbacks | accept, read a name, read data, end | callbacks of several connections on one descriptor, short reads and writes, refusals |
| Not modelled | see section 5 | | | |

How they interact. The radio sender multicasts packets of (session id, number,
data); `data_loop` receives them, `requesting_loop` sends the missing numbers to
the sender's control port, where `ctrl_loop` collects them for `replay_loop`.
`request_lookup` broadcasts a lookup, `ctrl_loop` answers, `recieve_lookup`
enters the station. Inside the receiver the menu tells the player of a change
through `menu_changed` only. The other programs are pairs of a server and its
clients over TCP; the clients of the telnet servers are people.

What makes them correct, in one line each: the group hears one faithful stream
and held packets asked for are sent again (sender); the buffer is one stretch of
the stream, never splices two, and no iterator in the map dangles (audio); the
mark is always on a listed station and terminals and player follow it (menu);
the two lists of the first buffer agree (big); the menu obeys the keys
that were typed and no others (telnet); every byte comes back once and in order, and nobody waits for
somebody else's client (poll); one handler per connection and no descriptor kept
(handlers); slots are accounted for and each file goes where it belongs (lab 08).

## 2. Modules

| Module | Models | Depends on |
|---|---|---|
| `Sender` | nadajnik.cpp with fifo and set, all three threads and the failures that call `syserr` | `StreamWindow` |
| `StreamWindow` | what the sender promises: a growing stream; of its last `Window` packets, those asked for are repeated, and only a request that cannot be met is given up | |
| `Playout` | data, printing and requesting threads over the buffer of big3 | `PlayBuffer` |
| `PlayBuffer` | what a receiver's buffer promises to the player: one stretch of one stream, played from the front | |
| `Stations` | the menu and the threads that use it | `StationMenu` |
| `StationMenu` | what the menu promises to the listener: known stations, the mark, what plays, what each terminal is shown and when | |
| `Buffor` | big/buffor.c and the three threads of big/odbiornik.c | `PlayBuffer` |
| `TelnetServer` | tien.cpp and ver2's main.cc with their users | `TelnetMenu` |
| `TelnetMenu` | the menu of exercise 1, `SIK/zadania/zadanie_1.txt`, and the keys its client typed | |
| `EchoServer` | the two poll() servers and their clients | |
| `ForkServers` | the forking, threaded and preforked servers | |
| `FileServer` | server.c and client.c of lab 08 | |
| `MC...` | constants of the runs | the module each names |
| `...Proofs` | theorems: `Sender`, `Playout`, `Stations`, `Buffor`, `TelnetServer`, `EchoServer`, `ForkServers`, `FileServer` | the module each names, TLAPS |

The modules keep the names of the source. A thread is a `*_pc` variable; a step
is what one thread does between two points where another can be noticed (a lock,
an unlock, an atomic flag, a system call). A mutex is a variable naming its
holder, or, where it is held across steps in one place only, the state of that
holder (`menu_free`, `data_pc = "add"`). Operators named `X_Something` under the
comment `Mutant:` are plausible bugs of `X`; no specification uses them, and each
shows that some property notices the bug.

**Sender.** A packet is (num, data): num is `byte_num / PSIZE`, data the ordinal
of the read of stdin. `MainPoll .. MainAdd` are one turn of main's loop,
`CtrlLookup .. CtrlUnlock` a datagram at `ctrl_loop` (a request is any batch of
numbers: the parser's text handling is abstracted), `ReplayCopy .. ReplayUnlock`
a wake-up of `replay_loop`. A read shorter than PSIZE is dropped and the stream
goes on with the next number. A pipe whose writer is gone (`stdin = "hup"`)
reports POLLHUP without POLLIN: main polls for ever, and only SIGINT stops the
sender.

**Playout.** A package is (num, session or hole). `add_to_buffor` is several
actions because its loop pushes one package per turn; `AddFound`, `AddFirst`,
`AddDropped`, `AddNext`, `AddHole` are its branches, and `InLoop` the loop's
condition. `Forgotten` models `std::advance(it, -distance)`: for a list it walks
backwards through the end node, so which entries are forgotten depends on the
distance. Two consequences are in the model and worth knowing: a repeated packet
that is already buffered is taken for a jump, and holes are pushed until the
whole buffer is gone; and holes still in the buffer may leave the map, so that
nobody asks for them. The requester reads numbers through iterators it copied
before the unlock; the memory may have been freed, and what is found there then
is the number `Garbage`, which nobody misses. The idle requester unlocks
`mutex_buffor` a second time. Once two threads are inside together (`overlap`)
memory is corrupt and the model stops there: the properties are about what
happens before, and `OverlapOnlyAfterIdleRequest` says that nothing else leads
there.

**Stations.** A station is its address with a name; a screen is the list and the
marks that were drawn. `Recieve` models `menu_changed || add_menu()`: while a change
is pending the answer is dropped, and TRUE stored a moment later. That short
circuit is what makes it safe to clear `menu_changed` outside the mutex after a
redraw; the mutant `Recieve_Always` drops it and a station is never shown.

A redraw is `Refresh` or `Draw`, which makes the text under the mutex, and then one
`SendNext` per terminal without it. `send()` blocks: a terminal may stop reading
(`Clog`), and when it is full and its turn comes, `loop_terminal` waits until it
reads again or breaks (`Blocked`), for ever if it does neither. The liveness
properties name that outcome and say what it does not hold: the other threads go
on, because nothing is sent under the mutex (mutant `menu_free_Sending`). Until the
redraw is over `menu_changed` stays set, so no new station is entered either.

A new terminal is greeted in two steps, because `draw_menu` at line 137 walks the
list without the mutex: between `Accept` and `Greet` a station may be entered and
the mark may move, and `Walked` is what the walk can have found: the list before or
after, with the old mark on stations passed before and the new one behind. So the
greeting may show two marks or none, never a list that was not there; the redraw
that follows, since `menu_changed` is set, corrects it. Links are read whole:
what an `erase` could do to the walk cannot happen, `check_time` being called by the
thread that walks.

`CheckErases` and `CheckCrashes` are the two outcomes of `station++` on a node
just erased: the node still holds its link, or the process dies. `missed`
records that `check_time` has dropped stations without announcing it, although
it put the mark back on the first station. `Silent` stands for twenty seconds
without an answer. `dies` is `syserr`, and SIGPIPE when a terminal's connection
was reset. Which of several ready terminals comes first is left open. `main`
passes `data_loop` the address of a variable whose scope ends at once; its slot
is not reused before the join, so the model keeps the station. When a name is
preferred, the station that comes first is not marked, whatever its own name is
(`menu.cpp:67-74`, `add_first`): the program never marks it by itself.

**Buffor.** The circular lists `packages` and `set` are sequences, oldest first;
`fill` is a length. The mutex makes each access one step, except that the loop of
`add_to_buffor` takes one step per turn. A package's data is the run of `data_loop`
that received it, or `Hole`. `check_set` stops at the first element
that is not smaller, so it finds the first missing package or none: the answer to
any other request, and every repeated packet, ends in a loop that appends holes,
trims packages and never meets the number it waits for, with the mutex held. The
comment on `check_set` promises otherwise; `MissingIsTaken` states the promise and is
violated. big3 replaced both the list and the loop.

`main` starts `data_loop` again as soon as it has ended (`NextRun`), and the new run
clears `stop`. The printing thread was joined; the requesting thread, which may
sleep at line 227, was not, and if it wakes after that it goes on beside the new
one (`request_pc` has an entry per run). A run hears one session. SIGINT, which ends
the loops where `stop` does, is left out. What a requester asks for is left out
too: its `sprintf` writes every number to the same place (lines 233-237), so that
only the last hole of a turn is asked for, and the network here delivers any
number at any time.

**TelnetServer.** Each byte on its way names the key it belongs to. One action per
receive: a read takes any number of bytes, up to 256 in `tien` and three in `ver2`,
and what it got is one command, whatever the user typed: keys may be cut or joined.
`program` says which text runs: `tien` recurses into the submenu, `ver2` replaces a
global menu. Drawing is left out, sending is not (`Sends`): the first message to a
user who is gone may be answered with a reset, and the next one ends the server by
SIGPIPE, `syserr()` or an exception nobody catches; so may the greeting (`Greet`),
which is sent before the first receive. `Menu` maps a connection that is served to
`TelnetMenu`, which is given the keys typed. It may pass over a key that TCP joined
with another, but obeys none twice, out of turn or untyped; after "Koniec" the
connection is closed, and the server goes down only with a user who hung up before
that.

**EchoServer.** One thread: `poll()`, then the listening socket, then the slots one
step each, with `revents` as poll left them. Clients and SIGINT act between any
two steps. A connection is two bounded queues and what the server's end knows of
the client's (`peer`: a FIN, a reset, a write that will raise SIGPIPE). A
non-blocking write takes what fits (`Fits`); the rest waits in the slot, which
then polls for writing only. `Stopped` clients may be suspended for ever. `client.c`
ends only after a line that begins with BYE (`Bye`): at the end of its input it
ignores the NULL of `fgets` and sends its last line again, for ever (`EndOfInput`,
`Repeats`); such a client keeps the server from ending after SIGINT, which
`DrainEnds` names.

**ForkServers.** A connection is held by the processes with a descriptor of it.
In `proc_server.c` the parent holds a copy until it closes it; in
`thread_server.c` the handler's argument is written before the thread runs; in
`preforked_server.c` the children accept, and the boss tests `finish` and pauses.
A SIGINT between these two kills the children and leaves the boss asleep; the
model has that behaviour, and `NoOrphans` says what holds in spite of it, which is
nothing about the boss. `thread_server.c` calls `exit()` when `accept()` or
`malloc()` fails (`BossFails`) and, from a handler, when `getpeername()` does, as it
does for a client that has reset its connection before its thread ran
(`WorkerBegin`): the server and all its clients' connections end (`Exit`), which
`BossAnswers` names as its exception.

**FileServer.** A name is a sequence of pieces and a file of blocks, so a read may
end inside either; `read_filename` takes what one read returns as the name. A write
takes any part of what it is given (`Writes`): the result of the one in
`read_filename` is ignored (line 120), and of those in `client_socket_cb` only -1 is
looked at (lines 81-86), where the server exits (`FileFails`). What a write left over
is in the history variable `lost`.
`stdin_cb` puts what the user types into the client's output buffer: before the
connection is made that is ahead of the name, which the server then takes for its
beginning; afterwards the event loop is left at once. The client breaks its loop
as soon as it has queued the file; libevent, which is external, still writes
once, so any beginning of what it queued may arrive. That it does not wait for
the confirmation, as the exercise asks (`minizadanie-lab8.txt:5`), is visible in
its actions: `Exit` follows `read_file`. The NUL that separates name and data is
written to the file; `copy-client.c` in the same directory is such a file,
`client.c` with a NUL in front.

## 3. Runs

| Run | Bounds | Distinct states | Shows |
|---|---|---|---|
| `sender` | FIFO 2, numbers 0..1, 3 reads, 2 datagrams | 194 k | one number, one payload, in the order of stdin; the FIFO is the last `max_count` packets; no request is lost between copy and clear; sockets closed after the joins; the sender implements `StreamWindow`: only what was asked for is repeated, and no request for a packet that is held is skipped; requests are dealt with; the sender stops |
| `playout` | capacity 3, packets 0..3, two sessions, two runs of `data_loop` | 6.5 M | the buffer is bounded, the map points at live holes, nothing of an old session is played in a new one, the printing thread is accounted for, the mutex fails through the idle requester only |
| `playout_liveness` | capacity 3, packets 0..2, one run | 66 k | the buffer implements `PlayBuffer`; a full buffer drains, remembered holes are asked for, SIGINT ends the threads |
| `stations` | 2 senders, one of the preferred name, 1 terminal, 1 lookup, 1 key, 1 call | 162 k | the list is ordered and without repeats, `active` never dangles, the menu implements `StationMenu`, the player follows it whether terminals read or not, terminals follow it unless one holds `loop_terminal`, SIGINT ends all threads but that one |
| `fileserver_safety` | 3 clients, 2 slots, reads of 3 tokens, one user types | 2.4 M | slots neither leak nor are shared; the client named last loses nothing but what a write left over |
| `fileserver_own_file` | 2 clients | violation | one client's data in the other's file |
| `fileserver_prints` | 2 clients | violation | confirmation without printing; the server exits |
| `buffor` | capacity 4, packets 0..4, the loop up to 8, two runs of `data_loop` | 86 k | list and set agree, the lists and threads implement `PlayBuffer`, playing goes forward, the last run ends with the threads of all |
| `buffor_missing` | the same, one run | violation | a missing packet that is not the first in `set` is not found (comment on `check_set`, `buffor.c:140`) |
| `echo_server` | 3 clients, 2 slots, buffer 2, queues 2 and 1, lines of 6, one client that never ends | 338 k | slots accounted for, bytes echoed once and in order, no client waits for another, SIGINT drains the server of all who leave |
| `fork_servers` | 3 connections, 2 handlers, 2 signals | 49 k | one handler per connection, no orphans, descriptors released, the boss goes on accepting unless the threaded server exits |
| `telnet` | 2 users, 3 keys each | 301 k | both programs implement the menu of the exercise for the keys that were typed; a user who hung up is noticed |

Why the bounds are enough. The sender's FIFO of two overflows in three reads,
with requests for numbers that are gone, held and not yet sent. The audio buffer
of three fills, trims, meets packets from behind the front, in holes, at the back
and past the capacity. Two runs of `data_loop` and two sessions are what a thread
left over from one needs to meet the next. Two senders give `add_menu` both ends
of the list, and the one of the preferred name moves the mark as it comes; the
terminal calls before, between or after the two answers, types while a change is
pending, and may stop reading, break or be greeted during an arrival. A second
terminal or lookup takes the liveness checks past the time a run may last; longer
lists, equal names, more terminals, calls and lookups are left to the theorems of
`StationsProofs`. In `FileServer` three clients for two slots give a
refusal; what the user of the third types makes its name begin with the first's, so
that a cut one hits that file, and equal to the second's when nothing is typed.
`Buffor`'s loop passes its packet within four turns; `MaxBack` stops it four packages later, which `AddHole` names
as a bound; two runs are what an old requester needs to meet a new one, and two
missing packets, of which the second arrives, violate `MissingIsTaken` in one. In
`EchoServer` client 2 sends six bytes through a server that holds two and queues that hold three, so that both directions and the buffer are full
while the third client waits for a slot. Three keys of up to three bytes reach
every option of both menus, with a cut in every key and any of them joined; the
second user may find what the first left behind.

Deadlock is checked in `Sender`, `Playout` and `Stations`, where a process that
has ended stutters (`Terminated`). The others do not check it: a server whose
clients are gone waits, and the loop of `Buffor` ends only at the bound.

Fairness. The threads of the radio are POSIX threads: each gets weak fairness on
its steps, and strong fairness on taking a mutex, because no holder keeps it
while it waits for anything but another such step (`FairSpec`). In `Playout`
fairness is asked only until `overlap`. In `Stations` the bounds on keys and
calls mean that users pause: `loop_terminal` redraws for new stations only when
100 ms pass without input. A `send()` that blocks is not enabled, so nothing is
assumed of a terminal that does not read. The servers get weak fairness: a process
of an operating system runs when it can. In `EchoServer` so do the clients that are not
suspended, which send, read and leave as their programs do; players read stdout in
`Playout` and `Buffor`, and users of `TelnetServer` take what they are sent (a few
hundred bytes). Nothing else is assumed of users, and nothing of the network, of
stdin, of failures or of SIGINT. `Stops` of `Playout` is checked with one run of
`data_loop`: an old requester beside a new one is in the safety run and in `Buffor`.

## 4. Proofs

Every theorem is for all values of the constants, under the module's
`ConstantsAssumption` (bounds are naturals, sets of names are disjoint from the
values that stand for "none", buffers hold at least one byte where the code has a
positive constant). `TypeOK` is a theorem about every module that states it,
and therefore in no run.

`SenderProofs`: `StreamFaithful`, `FifoIsLatest`, `NoNumberSkipped`,
`NoRequestLost`, `EveryHeldRequestSent`, `CloseAfterJoin`, and that the sender
implements `StreamWindow`. None of the three stream properties is
inductive alone: that a retransmission carries the right payload needs the FIFO
to hold only packets of the wire; that main's next packet is not a second payload
for an old number needs its block to be newer than all on the wire
(`BlockIsNew`); and both need that `replay_loop` is not sending while main is
between send and add (`MutexHeld`). `NoRequestLost` needs that between copy and
clear the collection is what was copied (`CopyTaken`), because `add_to_set` runs
under `mutex_requests`; `EveryHeldRequestSent` that the copy is empty when
`replay_loop` takes the next one (`CopyDone`). `CloseAfterJoin` needs what main
knows after its first join (`Joined`). For the refinement, the invariant makes
the stream a function of the wire (`SentIsWire`: packet n on the wire is element
n + 1), and what is asked for is `ctrl_loop`'s batch, the collection and
`replay_loop`'s copy together. Then main's `send_Mcast` is a `Broadcast`, since its block is the newest;
a datagram at `ctrl_loop` is an `Ask`; `replay_loop`'s send is a `Repeat`, since the
FIFO holds the last `max_count` packets; a number it does not find there is a
`GiveUp`, since then the stream has moved on past it or has not come to it; and
insertion, copy, clear and every lock are stutters, because no number leaves all
three places (`RoundInv`).

`PlayoutProofs`: all six invariants of the run. The numbers in the list are
consecutive, so the package `add_to_buffor` drops is the only one with the
smallest number, and that number is among those `Forgotten` removes, however far
the iterator walked the wrong way: so the map never points at a dropped package.
`SessionInv` follows `data_loop` through its exit: it empties the buffer, joins
the printing thread, then lets go of the session. `LockInv` says that without the
second unlock whoever is inside holds the mutex. That the buffer implements
`PlayBuffer` rests on one lemma: a list of consecutive numbers is a function on an
interval (`NumberedIs`), so that pushing, filling and dropping its front are
`Extend` or `Slip`, `Fill`, and the new front of the interval. The rest is
`OutsideInv` (a package outside the buffer is one being written, and a packet that
is being added belongs to the session of this run) and `PlaysThisSession`, which
gives `OneStream` at the moment a packet enters. TLC checks this refinement with
the bounds of `playout_liveness`, the larger run being as long as it may be; the
theorem is about all bounds.

`StationsProofs`: `SortedOnce`, `ActiveNeverDangles`, `ScreensFollow`. A place with
no greater name before it and a greater one at it keeps an ordered list ordered,
and `check_time` leaves a part in the same order. `ScreensFollow` is about three
threads and an unlocked store; `Drawn` is the reason it holds: from a change until
the last terminal has been sent the menu `menu_changed` is set, while it is set
nothing enters the menu, and a terminal greeted with half a change comes while it
is set. `Served` adds that no connected terminal is left out. The menu implements
`StationMenu`: `insert` is an `Arrive`, whatever place it finds;
`CheckErases` is a `Drop`, whose new mark is the first element of an ordered list
and so the least name (`Ends`); a key is a `Move`, the next place being the next
name (`NextTo`); `main`'s choice of a station is a `Tune`. `Accept` is a `Call`, and
`Greet` ends it with one of the `Glimpses` its walk may have had (`WalkFacts`,
`GlimpseFacts`); each `SendNext` is a `Show` of the menu as it is, because nothing has
entered it since the draw; and the end of the loop after a key is an `Answer`: all
have it before the next move. `OutsideInv` adds what these steps need to know of
other threads: `check_time` can only erase what is listed, and nothing plays while
`main` looks for a station.

`BufforProofs`: `Contiguous`, `SetIsHoles`, `Bounded`, `PlaysForward`. The set is
ordered and names the holes of a list of consecutive numbers, so the package that
is trimmed or played can only be the first element of the set, the one place where
`check_set` does find it. `PlaysForward` needs that, until
the buffer runs empty, what was written last lies before its front (`Ahead`). The
same facts show that this buffer, with other lists and another loop than big3's,
implements the same `PlayBuffer`, over any number of runs: `OneRun` says that nothing
an earlier run received is buffered or being written, because the buffer is reset
and the printing thread joined before a run ends; the requesters it leaves behind
only read.

`EchoServerProofs`: `SlotsAccounted` and `EchoIntact`. The invariant says who may
be where: connections of the queue are in no slot, `revents` are within what poll
was asked for, bytes pend only in a slot that waits to write, and what is in both
directions fits.

`ForkServersProofs`: `OneHandler`, `NoOrphans`. Descriptors belong to a handler
that serves the connection or is about to, and to the parent only between accept
and close; `Exit` ends handlers and descriptors together.

`TelnetServerProofs`: type correctness, and that both programs implement
`TelnetMenu`: initial states map to initial states and each step to a step of
the menu or a stutter (`TelnetServerImplementsMenu`). The menu is given the keys
typed, so the proof is about bytes: what is still on its way is the end of one key
and whole keys after it (`Wired`); hence a piece that is taken for a command begins where
a key begins, and is that key (`CommandIsKey`), since no command looks like what
follows inside one; and a receive that begins there goes on to a later key, so that
none is obeyed twice (`HeardGoesOn`).

`FileServerProofs`: `SlotsAccounted`, `OwnerLosesNothing`, and types: a read that
leaves something for the name leaves the beginning of a name that was sent, and the
offset stays within the open file. `OwnerLosesNothing` is stated by positions: what
a client sends is one sequence; the name and some tokens after it have been read,
the following ones are on their way, and the tokens of the client in its file are
those that were read, once and in order, but for those in `lost`: a short write
leaves a gap that the next one does not fill, and never displaces or repeats
anything. Its invariant `StreamInv` says the same of
every connection at every stage: nothing is on its way before the client sends
(`Unsent`), all is until the name is read (`Whole`), and then a part is (`Parts`),
whoever owns the open file. Only a slot whose name no other slot shares is said
to keep its part in the file, because the next one to open the file writes over it from the start.

Only model-checked: the leads-to properties (`RequestsServed`, `FullDrains`,
`MissingRequested`, `AddedIsShown`, `MoveIsFollowed`, `EndsAll`, `Independent`,
`DrainEnds`, `Released`, `BossAnswers`, `GoneIsNoticed`, and `Stops` of `Sender`,
`Playout` and `Stations`): fairness and ENABLED are out of the prover's reach.
Every invariant, action property and refinement of a passing run is a theorem.
The three properties of the violation runs are what the repository says and the
code does not do.

## 5. Not modelled, and known limits

Components without a module: the argument parsers (they run once, before any
thread); big's sender and menu (an earlier text of what `Sender` and `Stations`
model) and big2 (it does not build); `zad1/main.cpp` and its classes (arrow keys
do nothing in it, and copies of a connection are destroyed more than once); lab
09's time client and server (three tries in a row, no state beyond the try);
scenarios 05, 06 and 10 (straight-line I/O); libancillary (third party);
scenarios 08, 09 and `SIK/` (copies). Most of the repository's lines of C and C++
are files generated by CMake, nearly the same in every `cmake-build-debug`, and
copies of course programs and of earlier versions; the programs above are the
part with behaviour of its own.

Known limits, and behaviour of the code that no property states:

- `nadajnik.cpp:144` compares the whole buffer with a lookup without newline,
  while `odbiornik.cpp:39` sends one with it: these two programs do not find
  each other. `Stations` assumes a sender that answers.
- `session_id` is the byte-swapped time (`nadajnik.cpp:208`), so a restarted
  sender may have a smaller id and be skipped; PSIZE 0 passes the parser and is a
  division by zero at `nadajnik.cpp:200`.
- With a preferred name that is not found, arrow keys mark a station that never
  plays, since `transform` does not set `is_active`. A dropped unmarked station
  moves the mark without `menu_changed`, and `data_loop` plays on.
- A terminal that resets its connection ends the receiver (`odbiornik.cpp:146`,
  and SIGPIPE at 105): in `Stations` as `dies`.
- Answers that come while `menu_changed` is set are dropped (`odbiornik.cpp:469`),
  and with them the time of a station that did answer. `Stations` has that
  behaviour; no text of the repository says what a listener may expect of it.
- `main` leaves `sa_flags` of its `sigaction` uninitialized (`odbiornik.cpp:482`,
  `nadajnik.cpp:187`). Linux hands SIGINT to the main thread, so that a `send()`
  of `loop_terminal` is not interrupted, and the model says so.
- The receiver's request text, ten numbers per datagram, and the sender's parser
  are reduced to sets of numbers.
- `big/odbiornik.c:335` divides by `size`, which may be zero; it is not in `Buffor`,
  and neither is the session id, since a newer session ends a run.
- `preforked_server.c:88` keeps the -1 of a fork() that failed as a process id and
  kills it later; a SIGINT before `signal()` ends the boss at once. `ForkServers`
  starts after `signal()`.
- `ver2/main.cc:214` replaces the menu whose action is running.

## 6. Plan

Done, in this order: `Sender`, `StreamWindow`, `Playout`, `Stations`, `FileServer`;
`SenderProofs`; `Buffor`, `EchoServer`, `ForkServers`, `TelnetServer` and
`TelnetMenu` with their proofs; `FileServerProofs`, `PlayoutProofs`,
`StationsProofs`; the client's stdin in `FileServer`; the sender's refinement and
the action properties of `Sender` and `Buffor` as theorems. Then the promises:
what is asked for in `StreamWindow`, `PlayBuffer` for both receivers and
`StationMenu`, each with the proof that the program implements it, and
`OwnerLosesNothing` restated by positions and proved. Then what blocks, fails or
outlives its run: the `send()` to a terminal that does not read and the greeting
drawn without the mutex, short writes of the file server, the runs of `Buffor` with
the requesters they leave, the `exit()` calls of the threaded server, a client that
repeats its last line, and the keys in `TelnetMenu`.

Left:

1. `Radio`: `StreamWindow`, a lossy network and `PlayBuffer` composed: session ids,
   requests answered from the FIFO, what a listener hears.
2. Abstract specifications of the poll() servers (a byte stream echoed per
   client) and of the handler-per-client servers, with their refinements.
3. `TimeClient` (lab 09): a late answer taken for that of a later try.
