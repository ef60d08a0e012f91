---------------------------- MODULE MCSiteShared ----------------------------
(* What three worker threads share of a site, in three parts; a behaviour   *)
(* is of one part.                                                          *)
(*   queries: one text below three contexts and a cache of two: double and  *)
(*     triple misses of a key, evictions of what others hold or are about   *)
(*     to insert.                                                           *)
(*   transfer: one object, generations 0 and 1: two transfers overlap in    *)
(*     the window of the third, in every order.                             *)
(*   context: a Context with two fields, a path and one that is not XPath.  *)
EXTENDS SiteShared
CONSTANTS w1, w2, w3, c1, c2, c3, x1, f1, f2, p1, p2
VARIABLE part

MCWorkers == {w1, w2, w3}
MCContexts == {c1, c2, c3}
MCTexts == {x1}
MCObjects == 1 .. 5
MCFields == {f1, f2}
MCPaths == {p1, p2}
MCBadPaths == {p2}
SharedSymmetry == Permutations(MCWorkers) \cup Permutations(MCContexts) \cup Permutations(MCFields)

allVars == <<part, vars, transferVars, contextVars>>

NoTransfer == S3!Init /\ object = 0 /\ cache = 0

MCInit == \/ part = "queries" /\ Init /\ NoTransfer /\ Ctx!Init
          \/ part = "transfer" /\ Init /\ S3!Init /\ Ctx!Init
          \/ part = "context" /\ Init /\ NoTransfer /\ Ctx!Init

MCNext == /\ \/ part = "queries" /\ Next /\ UNCHANGED <<transferVars, contextVars>>
             \/ part = "transfer" /\ S3!Next /\ UNCHANGED <<vars, contextVars>>
             \/ part = "context" /\ Ctx!Next /\ UNCHANGED <<vars, transferVars>>
          /\ UNCHANGED part

MCSpec == MCInit /\ [][MCNext]_allVars
=============================================================================
