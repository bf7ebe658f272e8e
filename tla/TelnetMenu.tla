----------------------------- MODULE TelnetMenu -----------------------------
(***************************************************************************)
(* What exercise 1 (SIK/zadania/zadanie_1.txt) asks of the telnet menu     *)
(* server: one client at a time, who finds the main menu; an arrow he      *)
(* typed moves by one in its direction, enter does what the marked option  *)
(* says, anything else does nothing; and nothing but a client who hangs up *)
(* ends the server.                                                        *)
(*                                                                         *)
(* TCP may join keys or cut them, and the exercise does not say what then: *)
(* a key may be passed over, but none is obeyed twice, out of turn, or     *)
(* without having been typed.                                              *)
(***************************************************************************)
EXTENDS Naturals, Sequences

CONSTANTS Keys, Enter, Up, Down

VARIABLES
  served,          \* "no", "yes", "leaving" (chose "Koniec"), "gone", "down"
  menu, select,    \* what the client sees marked in which menu
  typed, answered  \* keys of this client; how many were dealt with

menuVars == <<served, menu, select, typed, answered>>

Blank == menu' = "main" /\ select' = 0 /\ typed' = <<>> /\ answered' = 0

Init == served = "no" /\ menu = "main" /\ select = 0 /\ typed = <<>> /\ answered = 0

Serve == served = "no" /\ served' = "yes" /\ Blank

Type(k) ==
  /\ served = "yes" /\ typed' = Append(typed, k)
  /\ UNCHANGED <<served, menu, select, answered>>

\* The next key, and those lost with it.
Passes == answered' \in answered + 1 .. Len(typed) /\ UNCHANGED typed

NextKey == typed[answered + 1]

Move ==
  /\ \/ NextKey = Up /\ select' = (select + 2) % 3
     \/ NextKey = Down /\ select' = (select + 1) % 3
  /\ Passes /\ UNCHANGED <<served, menu>>

\* "Opcja B"; which option is marked first is left open.
Submenu ==
  /\ NextKey = Enter /\ menu = "main" /\ select = 1
  /\ menu' = "sub" /\ select' \in 0..2
  /\ Passes /\ UNCHANGED served

\* "Wstecz"
Back ==
  /\ NextKey = Enter /\ menu = "sub" /\ select = 2
  /\ menu' = "main" /\ select' = 1
  /\ Passes /\ UNCHANGED served

\* "Koniec"
Quit ==
  /\ NextKey = Enter /\ menu = "main" /\ select = 2
  /\ served' = "leaving" /\ Blank

\* An option that only shows a text, or keys that are ignored.
Stay == Passes /\ UNCHANGED <<served, menu, select>>

Answer ==
  /\ served = "yes" /\ answered < Len(typed)
  /\ Move \/ Submenu \/ Back \/ Quit \/ Stay

\* The client hangs up.
HangUp == served \in {"yes", "leaving"} /\ served' = "gone" /\ Blank

\* The connection is closed and the server waits for the next client.
Close == served \in {"leaving", "gone"} /\ served' = "no" /\ Blank

\* A client who hung up may take the server with him, and nobody else may.
Fail == served = "gone" /\ served' = "down" /\ Blank

Next == Serve \/ (\E k \in Keys : Type(k)) \/ Answer \/ HangUp \/ Close \/ Fail

Spec == Init /\ [][Next]_menuVars
=============================================================================
