------------------------------ MODULE Stations ------------------------------
(***************************************************************************)
(* The station menu of the radio receiver: big3/menu.cpp and the threads   *)
(* of big3/odbiornik.cpp that use it.                                      *)
(*                                                                         *)
(* request_lookup asks for senders; recieve_lookup enters the answering    *)
(* ones into the menu; loop_terminal serves telnet terminals, moves the    *)
(* mark, redraws, and drops stations silent for twenty seconds; main runs  *)
(* data_loop for the marked station, and data_loop gives up when the mark  *)
(* has moved.  mutex_menu protects the menu, but menu_changed, through     *)
(* which the threads tell each other that something moved, is also cleared *)
(* outside it.                                                             *)
(*                                                                         *)
(* loop_terminal sends to its terminals with a blocking send(), outside    *)
(* the mutex: one that does not read holds it.  A terminal that connects   *)
(* is sent the menu drawn without the mutex, while recieve_lookup may      *)
(* enter a station.                                                        *)
(*                                                                         *)
(* A station is the address it sends to, and a screen is the list of       *)
(* stations and the marks that were drawn.                                 *)
(***************************************************************************)
EXTENDS Naturals, Sequences, FiniteSets, SequencesExt

CONSTANTS
  Senders,      \* addresses of the radio senders
  Name,         \* the name each of them answers with
  Preferred,    \* NAZWA, or 0 when none was given
  End,          \* stations.end()
  Terminals,
  MaxLookups,   \* bound: lookups sent
  MaxKeys,      \* bound: three-byte reads from the terminals
  MaxCalls      \* bound: connections accepted

ASSUME ConstantsAssumption ==
  /\ Name \in [Senders -> Nat \ {0}]
  /\ Preferred \in Nat
  /\ End \notin Senders
  /\ MaxLookups \in Nat /\ MaxKeys \in Nat /\ MaxCalls \in Nat

VARIABLES
  finish, alive,              \* alive is FALSE once the process has died
  stations, active, is_active,                            \* Menu
  silent,       \* stations not heard of for twenty seconds
  menu_changed,
  request_pc, lookups,        \* request_lookup
  answering,    \* senders whose answer to the last lookup is on its way
  recieve_pc,   \* recieve_lookup; "store" holds mutex_menu
  terminal_pc, revents, keys, calls,                      \* loop_terminal
  sockets,      \* the terminals connected, in the order they came
  line,         \* each terminal: "off", "on", "full" (connected and not
                \* reading), "fin" (closed), "reset", or "epipe": the next
                \* send() raises SIGPIPE
  screen,       \* what each terminal shows
  out_buffer,   \* the menu drawn, or as it was when the drawing began
  unsent,       \* the terminals it is still to be sent to
  main_pc, data_pc, listening,                            \* main and data_loop
  missed        \* stations were dropped unannounced since the last redraw

menuVars     == <<stations, active, is_active, silent>>
lookupVars   == <<request_pc, lookups, answering, recieve_pc>>
lineVars     == <<sockets, line, screen>>
sendVars     == <<out_buffer, unsent>>
terminalVars == <<terminal_pc, revents, keys, calls, lineVars, sendVars>>
dataVars     == <<main_pc, data_pc, listening>>
vars == <<finish, alive, menuVars, menu_changed, lookupVars, terminalVars,
          dataVars, missed>>

Listed == {stations[i] : i \in DOMAIN stations}
begin(list) == IF list = <<>> THEN End ELSE Head(list)

\* What draw_menu() prints.
draw_menu == [list |-> stations, marks |-> {active} \ {End}]
Blank == [list |-> <<>>, marks |-> {}]

On == {t \in Terminals : line[t] # "off"}
Connected == {t \in Terminals : line[t] \in {"on", "full"}}

\* Mutant: the mutex is kept until the menu is sent.
menu_free_Sending == recieve_pc # "store" /\ terminal_pc \notin {"reply", "announce"}

\* Nobody else keeps the mutex over a step.
menu_free == recieve_pc # "store"

\* syserr() or a fatal signal: the process is gone.
dies ==
  /\ alive' = FALSE
  /\ UNCHANGED <<finish, menuVars, menu_changed, lookupVars, terminalVars,
                 dataVars, missed>>

Init ==
  /\ finish = FALSE /\ alive = TRUE
  /\ stations = <<>> /\ active = End /\ is_active = FALSE /\ silent = {}
  /\ menu_changed = FALSE
  /\ request_pc = "loop" /\ lookups = 0 /\ answering = {}
  /\ recieve_pc = "loop"
  /\ terminal_pc = "poll" /\ revents = {} /\ keys = 0 /\ calls = 0
  /\ sockets = <<>> /\ line = [t \in Terminals |-> "off"]
  /\ screen = [t \in Terminals |-> Blank]
  /\ out_buffer = Blank /\ unsent = <<>>
  /\ main_pc = "loop" /\ data_pc = "none" /\ listening = End
  /\ missed = FALSE

-----------------------------------------------------------------------------
(* request_lookup and recieve_lookup *)

\* Every five seconds.
request_lookup ==
  /\ request_pc = "loop"
  /\ \/ /\ lookups < MaxLookups
        /\ lookups' = lookups + 1 /\ answering' = Senders
        /\ request_pc' = IF finish THEN "done" ELSE "loop"
     \/ /\ finish /\ request_pc' = "done"
        /\ UNCHANGED <<lookups, answering>>
  /\ UNCHANGED <<finish, alive, menuVars, menu_changed, recieve_pc,
                 terminalVars, dataVars, missed>>

\* Where a new station goes: before the first greater name.
IsPlace(i, s) ==
  /\ \A j \in DOMAIN stations : j < i => Name[stations[j]] <= Name[s]
  /\ i \in DOMAIN stations => Name[stations[i]] > Name[s]

\* Mutant: new stations go to the end of the list.
insert_Last(s) == stations' = Append(stations, s)

insert(s) ==
  \E i \in 1..Len(stations) + 1 :
    IsPlace(i, s) /\ stations' = InsertAt(stations, i, s)

\* Menu::add_menu when the station is in the list: its time is set.
add_found(s) ==
  /\ s \in Listed
  /\ silent' = silent \ {s}
  /\ UNCHANGED <<stations, active, is_active, menu_changed, missed>>

\* The first station is marked unless a name is preferred, whatever its own
\* name is.
add_first(s) ==
  /\ stations = <<>>
  /\ stations' = <<s>>
  /\ IF Preferred = 0 THEN active' = s /\ is_active' = TRUE
                      ELSE UNCHANGED <<active, is_active>>

add_next(s) ==
  /\ stations # <<>> /\ s \notin Listed
  /\ insert(s)
  /\ IF Preferred # 0 /\ Name[s] = Preferred
     THEN active' = s /\ is_active' = TRUE
     ELSE UNCHANGED <<active, is_active>>

\* Mutant: a new station does not set menu_changed.
add_menu_Quiet(s) ==
  \/ add_found(s)
  \/ /\ add_first(s) \/ add_next(s)
     /\ UNCHANGED <<silent, missed, menu_changed>>

\* Menu::add_menu and the assignment around it.
add_menu(s) ==
  \/ add_found(s)
  \/ /\ add_first(s) \/ add_next(s)
     /\ menu_changed' = TRUE
     /\ UNCHANGED <<silent, missed>>

\* Mutant: add_menu() || menu_changed, which enters the station in any case.
Recieve_Always(s) ==
  /\ recieve_pc = "loop" /\ s \in answering
  /\ answering' = answering \ {s}
  /\ add_menu(s)
  /\ recieve_pc' = IF finish THEN "done" ELSE "loop"
  /\ UNCHANGED <<finish, alive, request_pc, lookups, terminalVars, dataVars>>

\* An answer arrives.  menu_changed || add_menu(): while a change is pending the
\* answer is dropped, and TRUE is stored a moment later.
Recieve(s) ==
  /\ recieve_pc = "loop" /\ s \in answering
  /\ answering' = answering \ {s}
  /\ IF menu_changed
     THEN /\ recieve_pc' = "store"
          /\ UNCHANGED <<menuVars, menu_changed, missed>>
     ELSE /\ add_menu(s)
          /\ recieve_pc' = IF finish THEN "done" ELSE "loop"
  /\ UNCHANGED <<finish, alive, request_pc, lookups, terminalVars, dataVars>>

\* Mutant: the mutex is kept when the program is finishing.
RecieveStore_KeepsMutex ==
  /\ recieve_pc = "store" /\ ~finish
  /\ menu_changed' = TRUE
  /\ recieve_pc' = "loop"
  /\ UNCHANGED <<finish, alive, menuVars, request_pc, lookups, answering,
                 terminalVars, dataVars, missed>>

RecieveStore ==
  /\ recieve_pc = "store"
  /\ menu_changed' = TRUE
  /\ recieve_pc' = IF finish THEN "done" ELSE "loop"
  /\ UNCHANGED <<finish, alive, menuVars, request_pc, lookups, answering,
                 terminalVars, dataVars, missed>>

\* Nothing to receive.
RecieveIdle ==
  /\ recieve_pc = "loop" /\ finish
  /\ recieve_pc' = "done"
  /\ UNCHANGED <<finish, alive, menuVars, menu_changed, request_pc, lookups,
                 answering, terminalVars, dataVars, missed>>

RecieveFails ==
  /\ recieve_pc = "loop"
  /\ dies

-----------------------------------------------------------------------------
(* loop_terminal *)

terminalOthers == <<finish, alive, silent, lookupVars, dataVars>>

\* poll() returns: a call to accept, sockets to read, or nothing for 100 ms.
\* Closed and broken connections are always ready.
Poll ==
  /\ terminal_pc = "poll"
  /\ \E ready \in SUBSET On, calling \in BOOLEAN :
       /\ On \ Connected \subseteq ready
       /\ calling => calls < MaxCalls
       /\ keys + Cardinality(ready \intersect Connected) <= MaxKeys
       /\ revents' = ready
       /\ terminal_pc' = IF calling THEN "accept"
                         ELSE IF ready # {} THEN "keys"
                         ELSE IF menu_changed THEN "draw" ELSE "check"
  /\ UNCHANGED <<terminalOthers, stations, active, is_active, menu_changed,
                 keys, calls, lineVars, sendVars, missed>>

\* accept() may fail.  The menu is drawn for the new terminal, without the mutex.
Accept ==
  /\ terminal_pc = "accept"
  /\ calls' = calls + 1
  /\ \/ \E t \in Terminals \ On :
          /\ ~finish
          /\ sockets' = Append(sockets, t) /\ line' = [line EXCEPT ![t] = "on"]
          /\ out_buffer' = draw_menu /\ unsent' = <<t>>
          /\ terminal_pc' = "greet"
     \/ terminal_pc' = "keys" /\ UNCHANGED <<sockets, line, sendVars>>
  /\ UNCHANGED <<terminalOthers, stations, active, is_active, menu_changed,
                 revents, keys, screen, missed>>

\* What the walk over the list finds when a station may be entered during it: it
\* meets the new station or has passed its place; the first k stations are compared
\* with the mark as it was, the others with the mark as it is.
Walked ==
  {w \in [list : {out_buffer.list, stations}, marks : SUBSET Senders] :
     \E k \in 0..Len(w.list) :
       /\ w.list # stations =>
            \A j \in DOMAIN w.list : w.list[j] = stations[j] => j <= k
       /\ w.marks = {w.list[i] : i \in {j \in DOMAIN w.list :
                       w.list[j] \in IF j <= k THEN out_buffer.marks ELSE {active}}}}

\* One send() to t.  A full connection blocks it.  After the end of t's input the
\* bytes may be answered with a reset, and a reset is reported once.
Sent(t) ==
  /\ line[t] \notin {"full", "epipe"}
  /\ \E l \in CASE line[t] = "fin"   -> {"fin", "epipe"}
               [] line[t] = "reset" -> {"epipe"}
               [] OTHER             -> {line[t]} :
       line' = [line EXCEPT ![t] = l]
  /\ unsent' = Tail(unsent)
  /\ UNCHANGED sockets

\* The new terminal, whose connection is empty, gets init_seq() and the menu.
Greet ==
  /\ terminal_pc = "greet"
  /\ Sent(Head(unsent))
  /\ \E w \in Walked : screen' = [screen EXCEPT ![Head(unsent)] = w]
  /\ out_buffer' = Blank
  /\ terminal_pc' = "keys"
  /\ UNCHANGED <<terminalOthers, stations, active, is_active, menu_changed,
                 revents, keys, calls, missed>>

\* read() of the next ready terminal returned three bytes that move nothing, or
\* fewer.
KeyIgnored(t) ==
  /\ terminal_pc = "keys" /\ t \in revents \intersect Connected
  /\ ~finish
  /\ keys' = keys + 1
  /\ revents' = revents \ {t}
  /\ UNCHANGED <<terminalOthers, stations, active, is_active, menu_changed,
                 terminal_pc, calls, lineVars, sendVars, missed>>

\* The stations above and below the mark, around the ends of the list.
Above(s) ==
  IF s \in {End, stations[1]} THEN Last(stations)
  ELSE stations[(CHOOSE j \in DOMAIN stations : stations[j] = s) - 1]
Below(s) ==
  IF s \in {End, Last(stations)} THEN stations[1]
  ELSE stations[(CHOOSE j \in DOMAIN stations : stations[j] = s) + 1]

\* Menu::transform: an arrow moves the mark when there is a choice.  is_active
\* stays as it is.
transform(t) ==
  /\ terminal_pc = "keys" /\ t \in revents \intersect Connected
  /\ ~finish /\ menu_free
  /\ Len(stations) >= 2
  /\ keys' = keys + 1
  /\ active' \in {Above(active), Below(active)}
  /\ menu_changed' = TRUE
  /\ terminal_pc' = "refresh"
  /\ UNCHANGED <<terminalOthers, stations, is_active, revents, calls, lineVars,
                 sendVars, missed>>

\* read() returns 0: the terminal is forgotten and the loop over them left.
Hangup(t) ==
  /\ terminal_pc = "keys" /\ t \in revents /\ line[t] \in {"fin", "epipe"}
  /\ ~finish
  /\ \E i \in DOMAIN sockets : sockets[i] = t /\ sockets' = RemoveAt(sockets, i)
  /\ line' = [line EXCEPT ![t] = "off"]
  /\ screen' = [screen EXCEPT ![t] = Blank]
  /\ revents' = {} /\ terminal_pc' = "check"
  /\ UNCHANGED <<terminalOthers, stations, active, is_active, menu_changed,
                 keys, calls, sendVars, missed>>

ReadFails(t) ==
  /\ terminal_pc = "keys" /\ t \in revents /\ line[t] = "reset" /\ ~finish
  /\ dies

\* No ready terminal is left.
KeysDone ==
  /\ terminal_pc = "keys" /\ (revents = {} \/ finish)
  /\ revents' = {} /\ terminal_pc' = "check"
  /\ UNCHANGED <<terminalOthers, stations, active, is_active, menu_changed,
                 keys, calls, lineVars, sendVars, missed>>

\* The menu is drawn under the mutex and the mutex given back.
DrawForAll ==
  /\ menu_free
  /\ out_buffer' = draw_menu /\ unsent' = sockets
  /\ missed' = FALSE
  /\ UNCHANGED <<terminalOthers, stations, active, is_active, menu_changed,
                 keys, calls, lineVars>>

\* After a move.
Refresh ==
  /\ terminal_pc = "refresh"
  /\ DrawForAll
  /\ revents' = {} /\ terminal_pc' = "reply"

\* After 100 ms without input, when something has changed.
Draw ==
  /\ terminal_pc = "draw"
  /\ DrawForAll
  /\ revents' = {} /\ terminal_pc' = "announce"

\* write_to_tcp() to the next terminal, which may hold it for ever.
SendNext ==
  /\ terminal_pc \in {"reply", "announce"} /\ unsent # <<>>
  /\ Sent(Head(unsent))
  /\ screen' = [screen EXCEPT ![Head(unsent)] = out_buffer]
  /\ UNCHANGED <<terminalOthers, stations, active, is_active, menu_changed,
                 terminal_pc, revents, keys, calls, out_buffer, missed>>

\* All have it; after a move the loop over the terminals is left.
SendDone ==
  /\ terminal_pc \in {"reply", "announce"} /\ unsent = <<>>
  /\ out_buffer' = Blank
  /\ terminal_pc' = IF terminal_pc = "reply" THEN "check" ELSE "clear"
  /\ UNCHANGED <<terminalOthers, stations, active, is_active, menu_changed,
                 revents, keys, calls, lineVars, unsent, missed>>

\* SIGPIPE; the second of the two sends to a new terminal raises it when the first
\* one was answered with a reset.
SendFails ==
  /\ \/ terminal_pc = "greet" /\ line[Head(unsent)] \in {"fin", "reset"}
     \/ /\ terminal_pc \in {"reply", "announce"} /\ unsent # <<>>
        /\ line[Head(unsent)] = "epipe"
  /\ dies

\* menu_changed = 0, after the redraw and without the mutex.
Clear ==
  /\ terminal_pc = "clear"
  /\ menu_changed' = FALSE
  /\ terminal_pc' = "check"
  /\ UNCHANGED <<terminalOthers, stations, active, is_active, revents, keys,
                 calls, lineVars, sendVars, missed>>

\* Does check_time meet the marked station among the silent ones?  Each erasure
\* puts the mark back on the first station.
ChangedCurrent ==
  \E i \in DOMAIN stations :
    /\ stations[i] \in silent
    /\ \A j \in DOMAIN stations : j < i => stations[j] \notin silent
    /\ \/ stations[i] = active
       \/ i = 1 /\ Len(stations) >= 2 /\ stations[2] \in silent

\* The stations that are not silent stay, in their order.
keep_heard ==
  LET heard == {i \in DOMAIN stations : stations[i] \notin silent}
  IN  \E at \in [1..Cardinality(heard) -> heard] :
        /\ \A j, k \in DOMAIN at : j < k => at[j] < at[k]
        /\ stations' = [k \in DOMAIN at |-> stations[at[k]]]

\* Mutant: the mark is left where it was.
erase_silent_KeepsMark ==
  /\ keep_heard
  /\ silent' = {}
  /\ is_active' = (is_active /\ stations' # <<>>)
  /\ UNCHANGED active

\* The loop of Menu::check_time over a list with silent stations, when the erased
\* nodes still hold their links.
erase_silent ==
  /\ keep_heard
  /\ silent' = {}
  /\ active' = begin(stations')
  /\ is_active' = (is_active /\ stations' # <<>>)

EndOfLoop == terminal_pc' = IF finish THEN "done" ELSE "poll"

\* menu_changed || check_time(), where check_time finds nothing or is not called.
CheckNothing ==
  /\ terminal_pc = "check" /\ menu_free
  /\ menu_changed \/ silent = {}
  /\ EndOfLoop
  /\ UNCHANGED <<terminalOthers, stations, active, is_active, menu_changed,
                 revents, keys, calls, lineVars, sendVars, missed>>

\* check_time erases silent stations; only the marked one counts as a change.
CheckErases ==
  /\ terminal_pc = "check" /\ menu_free
  /\ ~menu_changed /\ silent # {}
  /\ erase_silent
  /\ menu_changed' = ChangedCurrent
  /\ missed' = (missed \/ ~ChangedCurrent)
  /\ EndOfLoop
  /\ UNCHANGED <<finish, alive, lookupVars, revents, keys, calls, lineVars,
                 sendVars, dataVars>>

\* The erased node does not hold its link any more when station++ reads it.
CheckCrashes ==
  /\ terminal_pc = "check" /\ menu_free
  /\ ~menu_changed /\ silent # {}
  /\ dies

-----------------------------------------------------------------------------
(* main and data_loop *)

dataOthers == <<finish, alive, menuVars, menu_changed, lookupVars,
                terminalVars, missed>>

\* main copies the marked station and runs data_loop with it.
MainStart ==
  /\ main_pc = "loop" /\ ~finish /\ menu_free
  /\ is_active
  /\ listening' = active
  /\ main_pc' = "join" /\ data_pc' = "top"
  /\ UNCHANGED dataOthers

MainJoin ==
  /\ main_pc = "join" /\ data_pc = "done"
  /\ main_pc' = "loop" /\ data_pc' = "none" /\ listening' = End
  /\ UNCHANGED dataOthers

MainFinish ==
  /\ main_pc = "loop" /\ finish
  /\ recieve_pc = "done" /\ request_pc = "done" /\ terminal_pc = "done"
  /\ main_pc' = "done"
  /\ UNCHANGED <<dataOthers, data_pc, listening>>

\* data_loop sees that something in the menu has changed.
DataSees ==
  /\ data_pc = "top" /\ menu_changed
  /\ data_pc' = "compare"
  /\ UNCHANGED <<dataOthers, main_pc, listening>>

\* Mutant: data_loop leaves only when nothing is active.
DataCompare_Stays ==
  /\ data_pc = "compare" /\ menu_free
  /\ data_pc' = IF ~is_active \/ finish THEN "done" ELSE "top"
  /\ UNCHANGED <<dataOthers, main_pc, listening>>

\* It leaves when the mark is on another station; otherwise it goes on as far as
\* the next test of finish.
DataCompare ==
  /\ data_pc = "compare" /\ menu_free
  /\ data_pc' = IF ~is_active \/ active # listening \/ finish
                THEN "done" ELSE "top"
  /\ UNCHANGED <<dataOthers, main_pc, listening>>

\* The end of the loop; menu_changed was still clear when it was read.
DataEnds ==
  /\ data_pc = "top" /\ finish
  /\ data_pc' = "done"
  /\ UNCHANGED <<dataOthers, main_pc, listening>>

\* A packet of a newer session ends this run of data_loop.
DataNewSession ==
  /\ data_pc = "top"
  /\ data_pc' = "done"
  /\ UNCHANGED <<dataOthers, main_pc, listening>>

-----------------------------------------------------------------------------
(* The senders, the terminals' users and SIGINT *)

\* Twenty seconds pass without an answer from s.
Silent(s) ==
  /\ s \in Listed
  /\ silent' = silent \union {s}
  /\ UNCHANGED <<finish, alive, stations, active, is_active, menu_changed,
                 lookupVars, terminalVars, dataVars, missed>>

lineOthers == <<finish, alive, menuVars, menu_changed, lookupVars, terminal_pc,
                revents, keys, calls, sockets, screen, sendVars, dataVars, missed>>

\* The user closes the connection, or it breaks.  Closing with unread bytes breaks
\* it.
Close(t) ==
  /\ t \in Connected
  /\ \E how \in IF line[t] = "full" THEN {"reset"} ELSE {"fin", "reset"} :
       line' = [line EXCEPT ![t] = how]
  /\ UNCHANGED lineOthers

\* The terminal stops reading and what is sent to it piles up, or it reads on.
Clog(t) ==
  /\ line[t] = "on" /\ (terminal_pc = "greet" => t # Head(unsent))
  /\ line' = [line EXCEPT ![t] = "full"]
  /\ UNCHANGED lineOthers
Unclog(t) ==
  /\ line[t] = "full"
  /\ line' = [line EXCEPT ![t] = "on"]
  /\ UNCHANGED lineOthers

catch_interput ==
  /\ ~finish
  /\ finish' = TRUE
  /\ UNCHANGED <<alive, menuVars, menu_changed, lookupVars, terminalVars,
                 dataVars, missed>>

-----------------------------------------------------------------------------

Discovery ==
  \/ request_lookup \/ RecieveStore \/ RecieveIdle \/ RecieveFails
  \/ \E s \in Senders : Recieve(s)

Terminal ==
  \/ Poll \/ Accept \/ Greet \/ KeysDone \/ Refresh \/ Draw
  \/ SendNext \/ SendDone \/ SendFails \/ Clear
  \/ CheckNothing \/ CheckErases \/ CheckCrashes
  \/ \E t \in Terminals : KeyIgnored(t) \/ transform(t) \/ Hangup(t)
                            \/ ReadFails(t)

Data ==
  \/ MainStart \/ MainJoin \/ MainFinish
  \/ DataSees \/ DataCompare \/ DataEnds \/ DataNewSession

Environment ==
  \/ catch_interput
  \/ \E s \in Senders : Silent(s)
  \/ \E t \in Terminals : Close(t) \/ Clog(t) \/ Unclog(t)

\* The process is gone, or main has returned.
Terminated == (~alive \/ main_pc = "done") /\ UNCHANGED vars

Next ==
  \/ alive /\ main_pc # "done" /\ (Discovery \/ Terminal \/ Data \/ Environment)
  \/ Terminated

Spec == Init /\ [][Next]_vars

\* Every thread is scheduled, and gets mutex_menu when it is free again and
\* again; data_loop, which only spins, reads menu_changed while it is set.  A send
\* goes on when its terminal reads.  Senders, users, failures and new sessions owe
\* nothing: a terminal may never read.
TerminalRuns ==
  \/ Poll \/ Accept \/ Greet \/ KeysDone \/ SendNext \/ SendDone \/ SendFails
  \/ Clear
  \/ \E t \in Terminals : KeyIgnored(t) \/ Hangup(t) \/ ReadFails(t)
TerminalLocks ==
  \/ Refresh \/ Draw \/ CheckNothing \/ CheckErases \/ CheckCrashes
  \/ \E t \in Terminals : transform(t)

Fairness ==
  /\ WF_vars(alive /\ request_lookup)
  /\ WF_vars(alive /\ (RecieveStore \/ RecieveIdle))
  /\ WF_vars(alive /\ TerminalRuns) /\ SF_vars(alive /\ TerminalLocks)
  /\ WF_vars(alive /\ (MainJoin \/ MainFinish)) /\ SF_vars(alive /\ MainStart)
  /\ WF_vars(alive /\ (DataSees \/ DataEnds)) /\ SF_vars(alive /\ DataCompare)

FairSpec == Spec /\ Fairness

-----------------------------------------------------------------------------
(* Properties *)

Screen == [list : Seq(Senders), marks : SUBSET Senders]

\* Every variable keeps its type.
TypeOK ==
  /\ finish \in BOOLEAN /\ alive \in BOOLEAN
  /\ stations \in Seq(Senders) /\ active \in Senders \union {End}
  /\ is_active \in BOOLEAN /\ silent \subseteq Senders
  /\ menu_changed \in BOOLEAN /\ missed \in BOOLEAN
  /\ request_pc \in {"loop", "done"} /\ lookups \in Nat
  /\ answering \subseteq Senders
  /\ recieve_pc \in {"loop", "store", "done"}
  /\ terminal_pc \in {"poll", "accept", "greet", "keys", "refresh", "reply",
                      "draw", "announce", "clear", "check", "done"}
  /\ revents \subseteq Terminals /\ keys \in Nat /\ calls \in Nat
  /\ sockets \in Seq(Terminals)
  /\ line \in [Terminals -> {"off", "on", "full", "fin", "reset", "epipe"}]
  /\ screen \in [Terminals -> Screen]
  /\ out_buffer \in Screen /\ unsent \in Seq(Terminals)
  /\ main_pc \in {"loop", "join", "done"}
  /\ data_pc \in {"none", "top", "compare", "done"}
  /\ listening \in Senders \union {End}

\* Through arrivals, answers of stations already listed and erasures, the list
\* stays ordered by name and no station is in it twice (add_menu, check_time).
SortedOnce ==
  \A i, j \in DOMAIN stations :
    i < j => /\ Name[stations[i]] <= Name[stations[j]]
             /\ stations[i] # stations[j]

\* The iterator active never points at an erased station, and main and data_loop,
\* which dereference it when is_active is set, never dereference end().
ActiveNeverDangles ==
  /\ active \in Listed \union {End}
  /\ is_active => active # End

\* When loop_terminal waits and nothing is pending, every connected terminal shows
\* the menu as it is, although it may have been greeted with half a change, unless
\* check_time has dropped an unmarked station: that it does not announce, although
\* it moves the mark.
ScreensFollow ==
  terminal_pc = "poll" /\ ~menu_changed /\ ~missed =>
    \A t \in On : screen[t] = draw_menu

\* The menu implements StationMenu: list, iterator and flags are a set of stations
\* and a mark that goes only where the listener sends it, to a station preferred, or
\* to the top when stations are dropped; the mark is what plays next; a terminal is
\* sent the whole menu, and all have it before the next move; only to one that
\* connects while a station arrives may it show a mark too few or too many.
AsSeen(drawn) == [known |-> {drawn.list[i] : i \in DOMAIN drawn.list},
                  marks |-> drawn.marks]
Calling  == IF terminal_pc = "greet" THEN {Head(unsent)} ELSE {}
Greeting == [t \in Calling |-> AsSeen(out_buffer)]
Watching == [t \in On \ Calling |-> AsSeen(screen[t])]
Answered == terminal_pc \notin {"refresh", "reply"}
StationMenu == INSTANCE StationMenu
                 WITH Station <- Senders, Nobody <- End, Viewer <- Terminals,
                      known <- Listed, marked <- active, tuned <- listening,
                      calling <- Greeting, shown <- Watching, answered <- Answered
ImplementsStationMenu == StationMenu!Spec

\* loop_terminal is held by a terminal that does not read.
Blocked ==
  /\ terminal_pc \in {"reply", "announce"} /\ unsent # <<>>
  /\ line[Head(unsent)] = "full"

\* A station entered in the menu is shown on every connected terminal (add_menu's
\* "redraw menu"), although menu_changed is cleared outside the mutex: while it is
\* set no station is entered.  Another terminal, when it does not read, is what may
\* prevent it.
AddedIsShown ==
  \A s \in Senders, t \in Terminals :
    s \in Listed /\ line[t] = "on" ~>
      \/ \E i \in DOMAIN screen[t].list : screen[t].list[i] = s
      \/ s \notin Listed \/ line[t] # "on" \/ Blocked \/ finish \/ ~alive

\* Once data_loop has noticed a change, the station played becomes the marked one:
\* data_loop leaves, main joins it and starts it again.  A terminal that does not
\* read does not hold them, because nothing is sent under the mutex.
MoveIsFollowed ==
  data_pc = "compare" ~>
    \/ is_active /\ listening = active
    \/ ~is_active \/ finish \/ ~alive

\* SIGINT ends every thread and main returns, but for loop_terminal while a terminal
\* that does not read holds it; the others have ended then all the same.
Stops ==
  finish ~>
    \/ main_pc = "done" \/ ~alive
    \/ /\ Blocked
       /\ request_pc = "done" /\ recieve_pc = "done" /\ main_pc = "loop"
=============================================================================
