------------------------------- MODULE MCDrain -------------------------------
(* Instances of Drain for TLC. *)
EXTENDS Drain

CONSTANTS r1, r2, r3

MCRef == {r1, r2, r3}
\* An empty line, lines of two and three tokens that merge step by step, a
\* placeholder, and more first tokens than a node has room for.
MCLine == {<<>>,
           <<"a", "x", "p">>, <<"a", "x", "q">>, <<"a", "y", "q">>,
           <<"b", "x", "p">>, <<"c", "x", "p">>, <<"<IP>", "x", "q">>,
           <<"a", "x">>}
=============================================================================
