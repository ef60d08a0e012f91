------------------------------ MODULE MCCaches ------------------------------
(* The two groups of caches, one per behaviour: they share no row, and the  *)
(* commands that meet in memcached are actions of both.  Long term: two     *)
(* workers, two keys and two values, every overlap of two calls on one key  *)
(* next to a second key that Empty and the sweeper also remove.  Sessions:  *)
(* two workers, two sites and one id; the name of one site is that of the   *)
(* other with "LongTerm2" behind it, so that their entries meet.            *)
EXTENDS SiteCaches, TLC
CONSTANTS w1, w2, k1, k2, v1, v2, i1
VARIABLE which

MCWorkers == {w1, w2}
MCKeys == {k1, k2}
MCValues == {v1, v2}
MCSubdomains == {<<"a">>, <<"a", "L", "o", "n", "g", "T", "e", "r", "m", "2">>}
MCIds == {i1}
MCShortKeys == {<<"a">>, <<":", "a">>}
CacheSymmetry == Permutations(MCWorkers) \cup Permutations(MCKeys) \cup Permutations(MCValues)

allVars == <<which, vars, sessionVars>>

LongTermUnused ==
    /\ kvstore = [k \in Keys |-> NoValue] /\ memcache = kvstore
    /\ pc = [w \in Workers |-> "idle"]
    /\ \E k \in Keys : key = [w \in Workers |-> k]
    /\ val = [w \in Workers |-> NoValue]
    /\ suspect = [k \in Keys |-> FALSE] /\ kept = suspect /\ alone = {}

SessionsUnused ==
    /\ Sessions!Init
    /\ sub = [w \in Workers |-> <<"a">>] /\ \E v \in Values : sent = [w \in Workers |-> v]

MCInit ==
    \/ which = "long term" /\ Init /\ SessionsUnused
    \/ which = "sessions" /\ Sessions!Init /\ LongTermUnused

MCNext ==
    /\ \/ which = "long term" /\ Next /\ UNCHANGED sessionVars
       \/ which = "sessions" /\ Sessions!Next /\ UNCHANGED vars
    /\ UNCHANGED which

MCSpec == MCInit /\ [][MCNext]_allVars
=============================================================================
