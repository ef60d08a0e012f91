--------------------------- MODULE MCSiteRegistry ---------------------------
(* One subdomain in both modes, two workers, the Bus and one reload thread, *)
(* feed generations 0 and 1: reloads overlap loads and each other.          *)
EXTENDS SiteRegistry
CONSTANTS d1, w1, w2, r1
MCSubdomains == {d1}
MCWorkers == {w1, w2}
MCReloaders == {r1}
=============================================================================
