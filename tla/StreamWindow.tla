---------------------------- MODULE StreamWindow ----------------------------
(***************************************************************************)
(* What the sender promises to the multicast group, without its threads:   *)
(* an ever longer stream of numbered packets, of which any of the last     *)
(* Window is sent again, unchanged, when it is asked for, and no other.    *)
(***************************************************************************)
EXTENDS Naturals, Sequences

CONSTANTS
  Window,       \* packets back from the latest that can be repeated
  Payload,      \* what a packet may carry, ordered as it is read
  Number        \* packet numbers a receiver may ask for

VARIABLES
  sent,         \* the payloads broadcast so far; packet n carries sent[n + 1]
  asked,        \* the numbers asked for and not dealt with yet
  out           \* the latest datagram

\* The packets that can be repeated.
Recent(n) == n < Len(sent) /\ Len(sent) <= n + Window

Init ==
  /\ sent = <<>> /\ asked = {}
  /\ out = [num |-> 0, data |-> 0]

Broadcast ==
  \E d \in Payload :
    /\ \A i \in DOMAIN sent : sent[i] < d
    /\ sent' = Append(sent, d)
    /\ out' = [num |-> Len(sent), data |-> d]
    /\ UNCHANGED asked

Ask ==
  /\ \E numbers \in SUBSET Number : asked' = asked \union numbers
  /\ UNCHANGED <<sent, out>>

\* A number that was asked for again meanwhile stays.
Repeat ==
  \E n \in asked :
    /\ Recent(n)
    /\ out' = [num |-> n, data |-> sent[n + 1]]
    /\ asked' \in {asked, asked \ {n}}
    /\ UNCHANGED sent

\* Only what is too old, or was never sent, is given up.
GiveUp ==
  /\ \E n \in asked : ~Recent(n) /\ asked' = asked \ {n}
  /\ UNCHANGED <<sent, out>>

Next == Broadcast \/ Ask \/ Repeat \/ GiveUp

Spec == Init /\ [][Next]_<<sent, asked, out>>
=============================================================================
