---------------------------- MODULE MCFileServer ----------------------------
(* Constants of the runs of FileServer. *)
EXTENDS FileServer

\* The user of c types what makes its name begin with a's; without it, it is b's.
MCClients == {"a", "b", "c"}
MCName == [a |-> <<"x">>, b |-> <<"z">>, c |-> <<"z">>]
MCTyped == [a |-> <<>>, b |-> <<>>, c |-> <<"x">>]

\* Two names that one read takes whole.
MCTwoClients == {"a", "b"}
MCTwoName == [a |-> <<"x">>, b |-> <<"z">>]
MCTwoTyped == [a |-> <<>>, b |-> <<>>]
=============================================================================
