----------------------------- MODULE PlayBuffer -----------------------------
(***************************************************************************)
(* What the audio buffer of a receiver promises to the player, whatever    *)
(* the network delivers: one stretch of a stream of numbered packets, with *)
(* holes for those not there yet, played from the front.  A packet takes   *)
(* its own hole or the next place and no other; a hole is never played; no *)
(* two streams are mixed; and only the oldest package gives way to a       *)
(* buffer that is full.                                                    *)
(***************************************************************************)
EXTENDS Naturals

CONSTANTS
  Number,       \* numbers a packet may come with
  Capacity,     \* packages the buffer is made for
  Payload,      \* what a packet may carry: the stream it belongs to
  Hole          \* in the place of what is not there yet

VARIABLES
  buffer,       \* for each number in the buffer, payload or hole
  playing       \* the package being written, or Nothing

Nothing == [num |-> 0, data |-> Hole]
Empty   == [n \in {} |-> Hole]

\* The buffer goes from the number first to the number last.
Spans(first, last) == first <= last /\ DOMAIN buffer = first .. last

\* Nothing of another stream than p is buffered or on its way to the player.
OneStream(p) ==
  /\ \A n \in DOMAIN buffer : buffer[n] \in {p, Hole}
  /\ playing.data \in {p, Hole}

Init == buffer = Empty /\ playing = Nothing

Start ==
  /\ buffer = Empty
  /\ \E n \in Number, p \in Payload :
       OneStream(p) /\ buffer' = [m \in {n} |-> p]
  /\ UNCHANGED playing

Fill ==
  /\ \E n \in DOMAIN buffer, p \in Payload :
       /\ buffer[n] = Hole /\ OneStream(p)
       /\ buffer' = [buffer EXCEPT ![n] = p]
  /\ UNCHANGED playing

\* The next packet, while there is room.
Extend(first, last) ==
  /\ last + 1 < first + Capacity
  /\ \E p \in Payload :
       /\ OneStream(p)
       /\ buffer' = [m \in first .. last + 1 |->
                       IF m = last + 1 THEN p ELSE buffer[m]]
  /\ UNCHANGED playing

\* The next packet is not there: a hole takes its place, and when that fills the
\* buffer the oldest package goes.
Slip(first, last) ==
  /\ last + 1 < first + Capacity
  /\ LET oldest == IF last + 2 = first + Capacity THEN first + 1 ELSE first
     IN  buffer' = [m \in oldest .. last + 1 |->
                      IF m = last + 1 THEN Hole ELSE buffer[m]]
  /\ UNCHANGED playing

Play(first, last) ==
  /\ playing = Nothing /\ buffer[first] # Hole
  /\ playing' = [num |-> first, data |-> buffer[first]]
  /\ buffer' = [m \in first + 1 .. last |-> buffer[m]]

Written == playing # Nothing /\ playing' = Nothing /\ UNCHANGED buffer

Clear == buffer' = Empty /\ UNCHANGED playing

Next ==
  \/ Start \/ Fill \/ Written \/ Clear
  \/ \E first, last \in DOMAIN buffer :
       /\ Spans(first, last)
       /\ Extend(first, last) \/ Slip(first, last) \/ Play(first, last)

Spec == Init /\ [][Next]_<<buffer, playing>>
=============================================================================
