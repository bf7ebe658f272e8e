---------------------------- MODULE MCEchoServer ----------------------------
(* Three clients for two slots.  The one that may be suspended sends enough *)
(* to fill both directions and the server's buffer; the third has no input, *)
(* or a line that is not BYE.                                               *)
EXTENDS EchoServer

CONSTANTS c1, c2, c3

MCInput ==
  [p \in {"poll", "echo"} |->
    [c \in {c1, c2, c3} |->
      CASE c = c1 -> 2 [] c = c2 -> 6 [] OTHER -> IF p = "poll" THEN 1 ELSE 0]]
=============================================================================
