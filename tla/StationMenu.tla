---------------------------- MODULE StationMenu -----------------------------
(***************************************************************************)
(* What the receiver's menu promises to its listener, without its list,    *)
(* iterators, flags and threads: which stations are known, which one is    *)
(* marked, which one plays, and what the terminals show.                   *)
(***************************************************************************)
EXTENDS Naturals

CONSTANTS
  Station,
  Name,         \* the name of each station; the menu is in their order
  Preferred,    \* the name to be marked when it comes, or 0
  Nobody,       \* no station
  Viewer

VARIABLES
  known,
  marked,
  tuned,        \* the station that plays
  calling,      \* the menu as it was when a viewer began to be shown it
  shown,        \* what each viewer who is there sees
  answered      \* FALSE from a move of the mark until it is shown

vars == <<known, marked, tuned, calling, shown, answered>>

Menu == [known |-> known, marks |-> {marked} \ {Nobody}]

\* What a viewer may be shown when the menu was old at first: the menu, or when it
\* has changed meanwhile, the stations before or after, any of them marked that
\* was or is.
Glimpses(old) ==
  {p \in [known : {old.known, known}, marks : SUBSET (old.marks \union Menu.marks)] :
     p.marks \subseteq p.known /\ (old = Menu => p = Menu)}

IsFirst(s, menu) == s \in menu /\ \A k \in menu : Name[s] <= Name[k]
IsLast(s, menu)  == s \in menu /\ \A k \in menu : Name[k] <= Name[s]

\* Nothing of the menu is between the names of a and b.
Beside(a, b) ==
  \A k \in known : /\ ~(Name[a] < Name[k] /\ Name[k] < Name[b])
                   /\ ~(Name[b] < Name[k] /\ Name[k] < Name[a])

Init ==
  /\ known = {} /\ marked = Nobody /\ tuned = Nobody
  /\ calling \in [{} -> {Menu}] /\ shown \in [{} -> {Menu}]
  /\ answered = TRUE

\* Without a preference the first one is marked, else only one of the preferred
\* name is.
Arrive(s) ==
  /\ s \notin known
  /\ known' = known \union {s}
  /\ marked' \in IF Preferred = 0 THEN {IF known = {} THEN s ELSE marked}
                 ELSE IF Name[s] = Preferred THEN {s, marked} ELSE {marked}
  /\ UNCHANGED <<tuned, calling, shown, answered>>

\* Stations that fell silent go together, and the mark goes to the top.
Drop ==
  /\ answered
  /\ \E gone \in SUBSET known : gone # {} /\ known' = known \ gone
  /\ IF known' = {} THEN marked' = Nobody ELSE IsFirst(marked', known')
  /\ UNCHANGED <<tuned, calling, shown, answered>>

\* The mark goes to the next name, up or down and around the ends.
Move ==
  /\ answered /\ answered' = FALSE
  /\ marked' \in known \ {marked}
  /\ \/ marked = Nobody /\ (IsFirst(marked', known) \/ IsLast(marked', known))
     \/ marked \in known /\ Beside(marked, marked')
     \/ IsFirst(marked, known) /\ IsLast(marked', known)
     \/ IsLast(marked, known) /\ IsFirst(marked', known)
  /\ UNCHANGED <<known, tuned, calling, shown>>

\* Only the marked station starts to play, and only when no other plays.
Tune ==
  /\ tuned = Nobody /\ marked \in known
  /\ tuned' = marked
  /\ UNCHANGED <<known, marked, calling, shown, answered>>

Leave ==
  /\ tuned # Nobody /\ tuned' = Nobody
  /\ UNCHANGED <<known, marked, calling, shown, answered>>

Call(v) ==
  /\ DOMAIN calling = {} /\ v \notin DOMAIN shown
  /\ calling' = [u \in {v} |-> Menu]
  /\ UNCHANGED <<known, marked, tuned, shown, answered>>

Greet(v) ==
  /\ v \in DOMAIN calling
  /\ \E p \in Glimpses(calling[v]) :
       shown' = [u \in DOMAIN shown \union {v} |-> IF u = v THEN p ELSE shown[u]]
  /\ calling' = [u \in DOMAIN calling \ {v} |-> calling[u]]
  /\ UNCHANGED <<known, marked, tuned, answered>>

HangUp(v) ==
  /\ v \in DOMAIN shown
  /\ shown' = [u \in DOMAIN shown \ {v} |-> shown[u]]
  /\ UNCHANGED <<known, marked, tuned, calling, answered>>

\* One viewer after the other gets the menu, and all have it before the next move.
Show(v) ==
  /\ v \in DOMAIN shown
  /\ shown' = [shown EXCEPT ![v] = Menu]
  /\ UNCHANGED <<known, marked, tuned, calling, answered>>

Answer ==
  /\ ~answered /\ answered' = TRUE
  /\ \A v \in DOMAIN shown : shown[v] = Menu
  /\ UNCHANGED <<known, marked, tuned, calling, shown>>

Next ==
  \/ \E s \in Station : Arrive(s)
  \/ Drop \/ Move \/ Tune \/ Leave \/ Answer
  \/ \E v \in Viewer : Call(v) \/ Greet(v) \/ HangUp(v) \/ Show(v)

Spec == Init /\ [][Next]_vars
=============================================================================
