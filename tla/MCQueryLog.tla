----------------------------- MODULE MCQueryLog -----------------------------
(* Two threads; an argument without special characters, and one as in       *)
(* title="x".                                                               *)
EXTENDS QueryLog
CONSTANTS w1, w2
MCWorkers == {w1, w2}
MCArguments == {<<"x">>, <<"x", Quote, "x">>}
=============================================================================
