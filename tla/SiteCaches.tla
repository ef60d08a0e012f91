----------------------------- MODULE SiteCaches -----------------------------
(***************************************************************************)
(* The caches the handler keeps for sites, side by side: the long term      *)
(* cache of one site (LongTermCache) and the session and short term caches  *)
(* of all sites (SessionCache).  They share no row.  In memcached they      *)
(* share one space of keys, in which they can meet; each module has what    *)
(* the other does there as actions of its own (ForeignSet there,            *)
(* LongTermCacheStore and LongTermCacheForget here).                        *)
(***************************************************************************)
EXTENDS LongTermCache

CONSTANTS Subdomains, Ids, ShortKeys, NoRow

VARIABLES sessionData, entries, at, sub, id, sent, undisturbed, stored

Sessions == INSTANCE SessionCache WITH
    memcache <- entries, pc <- at, val <- sent, alone <- undisturbed, Keys <- ShortKeys

ASSUME SessionAssumption == Sessions!SessionCacheAssumption

sessionVars == <<sessionData, entries, at, sub, id, sent, undisturbed, stored>>

(* Sites that share session ids keep what they stored, and sites that share *)
(* memcached read what they stored there, but for the one pair of names     *)
(* whose keys meet (SessionCache!SitesApart).                               *)
SitesApart == Sessions!SitesApart
=============================================================================
