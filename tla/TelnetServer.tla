---------------------------- MODULE TelnetServer ----------------------------
(***************************************************************************)
(* The telnet menu servers of exercise 1: zad1/tien.cpp, which recurses    *)
(* into its submenu, and ver2/main.cc, which replaces a global Menu.       *)
(* program says which one runs.                                            *)
(*                                                                         *)
(* Users type keys, each one to three bytes; TCP cuts the bytes into any   *)
(* pieces, and both programs take a piece for one key.  Each byte on its   *)
(* way names the key it belongs to and its place in it.  What is drawn is  *)
(* left out, but not that it is sent: sending to a user who is gone can    *)
(* end the server (SIGPIPE, syserr() or TcpException).                     *)
(***************************************************************************)
EXTENDS Naturals, Sequences, SequencesExt

CONSTANTS
  MaxUsers, MaxKeys   \* bounds: users in all, keys each of them types

ASSUME ConstantsAssumption == MaxUsers \in Nat /\ MaxKeys \in Nat

VARIABLES
  program,
  waiting, later,     \* users in the listen queue, users still to come
  user,               \* the user served: "none", "here", "gone"
  typed, wire,        \* the keys this user typed, the bytes not received yet
  reset,              \* a reset of the connection is under way
  pc, select          \* where the server is, menu->active or select

userVars == <<waiting, later, user, typed, wire>>
vars == <<program, userVars, reset, pc, select>>

Enter == <<"cr", "nul">>
Up    == <<"esc", "[", "A">>
Down  == <<"esc", "[", "B">>
Keys  == {Enter, Up, Down, <<"esc">>, <<"x">>}

Init ==
  /\ program \in {"tien", "ver2"}
  /\ waiting = 0 /\ later = MaxUsers
  /\ user = "none" /\ typed = <<>> /\ wire = <<>> /\ reset = FALSE
  /\ pc = "accept" /\ select = 0

-----------------------------------------------------------------------------
(* Users *)

Connect ==
  /\ later > 0 /\ later' = later - 1 /\ waiting' = waiting + 1
  /\ UNCHANGED <<program, user, typed, wire, reset, pc, select>>

Type(k) ==
  /\ user = "here" /\ Len(typed) < MaxKeys
  /\ typed' = Append(typed, k)
  /\ wire' = wire \o [i \in 1..Len(k) |-> [of |-> Len(typed) + 1, at |-> i]]
  /\ UNCHANGED <<program, waiting, later, user, reset, pc, select>>

\* At any point, also before the server has greeted.  Leaving with output unread
\* resets the connection.
Leave ==
  /\ user = "here"
  /\ user' = "gone" /\ reset' \in BOOLEAN
  /\ UNCHANGED <<program, waiting, later, typed, wire, pc, select>>

-----------------------------------------------------------------------------
(* The server *)

\* It goes on to menu m with option s marked, having sent n messages.  The first
\* one a user who is gone gets makes the next one fail.
Sends(n, m, s) ==
  \/ /\ pc' = m /\ select' = s
     /\ reset' = (reset \/ user = "gone")
  \/ /\ user = "gone" /\ (reset \/ n > 1)
     /\ pc' = "down" /\ UNCHANGED <<select, reset>>

\* Mutant: the menu of the last user goes on.
Accept_KeepsMenu ==
  /\ pc = "accept" /\ waiting > 0
  /\ waiting' = waiting - 1
  /\ user' = "here" /\ typed' = <<>> /\ wire' = <<>>
  /\ pc' = "greet" /\ reset' = FALSE
  /\ UNCHANGED <<program, later, select>>

Accept ==
  /\ pc = "accept" /\ waiting > 0
  /\ waiting' = waiting - 1
  /\ user' = "here" /\ typed' = <<>> /\ wire' = <<>>
  /\ pc' = "greet" /\ select' = 0 /\ reset' = FALSE
  /\ UNCHANGED <<program, later>>

\* The options of telnet, and the main menu.
Greet ==
  /\ pc = "greet"
  /\ Sends(4, "main", select)
  /\ UNCHANGED <<program, userVars>>

\* Mutant: two bytes are compared, which both arrows begin with.
recv_command_Short(piece) ==
  CASE piece[1] = "cr"                     -> "ENTER"
    [] IsPrefix(SubSeq(Up, 1, 2), piece)   -> "UP"
    [] OTHER                               -> "NONE"

\* recv_command: tien looks at how the piece starts, ver2 at the whole of it.
recv_command(piece) ==
  IF program = "tien"
  THEN CASE piece[1] = "cr"      -> "ENTER"
         [] IsPrefix(Up, piece)   -> "UP"
         [] IsPrefix(Down, piece) -> "DOWN"
         [] OTHER                -> "NONE"
  ELSE CASE piece = Enter -> "ENTER"
         [] piece = Up    -> "UP"
         [] piece = Down  -> "DOWN"
         [] OTHER         -> "NONE"

\* The text of an option is sent below the menu: "A", "B1", "B2".
Chosen ==
  CASE pc = "main" /\ select = 1 ->
         Sends(7, "sub", IF program = "tien" THEN 0 ELSE 1)
    [] pc = "main" /\ select = 2 ->
         IF program = "tien" THEN Sends(4, "bye", select)
                             ELSE pc' = "bye" /\ UNCHANGED <<select, reset>>
    [] pc = "sub" /\ select = 2 -> Sends(7, "main", 1)
    [] OTHER -> Sends(IF program = "tien" THEN 1 ELSE 2, pc, select)

moved(command) == IF command = "UP" THEN (select + 2) % 3 ELSE (select + 1) % 3

\* A read of at most 256 bytes, or of three.
ReadLimit == IF program = "tien" THEN 256 ELSE 3

execute ==
  /\ pc \in {"main", "sub"} /\ wire # <<>>
  /\ \E n \in 1..Len(wire) :
       /\ n <= ReadLimit
       /\ wire' = SubSeq(wire, n + 1, Len(wire))
       /\ LET command == recv_command([i \in 1..n |-> typed[wire[i].of][wire[i].at]]) IN
          CASE command = "ENTER"        -> Chosen
            [] command \in {"UP", "DOWN"} -> Sends(7, pc, moved(command))
            [] command = "NONE"         -> UNCHANGED <<pc, select, reset>>
  /\ UNCHANGED <<program, waiting, later, user, typed>>

\* Mutant: leaving the submenu at the end of the stream is forgotten.
EndOfStream_StaysInSubmenu ==
  /\ pc \in {"main", "sub"} /\ wire = <<>> /\ user = "gone"
  /\ \/ program = "tien" /\ pc = "main" /\ pc' = "bye"
     \/ (program = "ver2" \/ reset) /\ pc' = "down"
  /\ UNCHANGED <<program, userVars, select, reset>>

\* The user is gone.  tien leaves the submenu, drawing the main menu, and then
\* the main menu.  In ver2 recieve() throws Eof, which nobody catches: the test
\* for an empty piece in recv_command is never reached.  A reset that arrived
\* is an error of recv() and ends both.
EndOfStream ==
  /\ pc \in {"main", "sub"} /\ wire = <<>> /\ user = "gone"
  /\ \/ program = "tien" /\ pc = "sub" /\ Sends(3, "main", 1)
     \/ program = "tien" /\ pc = "main" /\ pc' = "bye" /\ UNCHANGED <<select, reset>>
     \/ /\ program = "ver2" \/ reset
        /\ pc' = "down" /\ UNCHANGED <<select, reset>>
  /\ UNCHANGED <<program, userVars>>

\* The cursor is shown again and the connection closed.
Bye ==
  /\ pc = "bye"
  /\ Sends(1, "accept", select)
  /\ user' = "none" /\ typed' = <<>> /\ wire' = <<>>
  /\ UNCHANGED <<program, waiting, later>>

Server == Accept \/ Greet \/ execute \/ EndOfStream \/ Bye

Next == Connect \/ (\E k \in Keys : Type(k)) \/ Leave \/ Server

Spec == Init /\ [][Next]_vars /\ WF_vars(Server)

-----------------------------------------------------------------------------
(* Properties *)

OnWire == [of : 1..Len(typed), at : 1..3]

\* Every variable keeps its type; the marked option is one of three.
TypeOK ==
  /\ program \in {"tien", "ver2"}
  /\ waiting \in 0..MaxUsers /\ later \in 0..MaxUsers
  /\ user \in {"none", "here", "gone"}
  /\ typed \in Seq(Keys) /\ Len(typed) <= MaxKeys
  /\ wire \in Seq(OnWire) /\ reset \in BOOLEAN
  /\ pc \in {"accept", "greet", "main", "sub", "bye", "down"} /\ select \in 0..2

Served == user = "here" /\ pc \in {"greet", "main", "sub"}

\* How many keys the server received a part of.
Heard ==
  IF wire = <<>> THEN Len(typed)
  ELSE IF wire[1].at = 1 THEN wire[1].of - 1 ELSE wire[1].of

Menu == INSTANCE TelnetMenu WITH
  served   <- CASE pc = "down"     -> "down"
                [] pc = "accept"   -> "no"
                [] Served          -> "yes"
                [] user = "gone" /\ pc \in {"greet", "main", "sub", "bye"} -> "gone"
                [] OTHER           -> "leaving",
  menu     <- IF Served /\ pc = "sub" THEN "sub" ELSE "main",
  select   <- IF Served THEN select ELSE 0,
  typed    <- IF Served THEN typed ELSE <<>>,
  answered <- IF Served THEN Heard ELSE 0

\* Both programs do what the exercise asks, whatever keys are typed and however
\* their bytes are cut and joined: the mark moves only for the arrow that was
\* typed and only once for it, options are chosen only by enter, the next user
\* finds the main menu as it was, and "arbitrary data received from the client"
\* or "Koniec" (zadanie_1.txt) do not end the server: only a user who hung up
\* before his connection was closed does.
ImplementsMenu == Menu!Spec

\* A user who hangs up, in either menu and with any bytes still to be received,
\* does not keep the server: it serves the next one, or ended.
GoneIsNoticed == user = "gone" ~> user = "none" \/ pc = "down"
=============================================================================
