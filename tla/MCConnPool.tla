----------------------------- MODULE MCConnPool -----------------------------
(* Three workers and the reaper over two connections: waiters, bargers and  *)
(* a second waiter behind a first one all occur.                            *)
EXTENDS ConnPool
CONSTANTS w1, w2, w3, reaper
MCWorkers == {w1, w2, w3}
MCCollectors == {reaper}
MCConns == {1, 2}
=============================================================================
