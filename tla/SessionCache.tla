---------------------------- MODULE SessionCache ----------------------------
(***************************************************************************)
(* The session cache, rows of the table session_data, and the short term   *)
(* cache, entries of memcache, of all sites.                               *)
(*                                                                         *)
(* The primary key of session_data is `id` alone (db/), so that one row is *)
(* all there is for an id; every statement selects by id and subdomain.    *)
(* sessionCacheSet is a DELETE and an INSERT without a transaction; an SQL *)
(* error is logged, ends the call and is not told to the caller.           *)
(*                                                                         *)
(* memcache has one flat space of keys for all sites and for both caches   *)
(* that use it: the copies that the long term cache of a site keeps        *)
(* (LongTermCache) are entries here, too.  A subdomain and a key are       *)
(* sequences of characters, since memcache knows an entry only by the text *)
(* that the handler puts together.  An entry holds the cache, the site and *)
(* the key that it was stored for.                                         *)
(***************************************************************************)
EXTENDS Sequences, FiniteSets

CONSTANTS Workers, Subdomains, Ids, Keys, Values, NoRow, NoValue

VARIABLES sessionData, \* id -> its row, or NoRow
          memcache,    \* full key -> what was stored there, or NoValue
          pc,          \* worker -> the statement its call is at
          sub, id, val,\* worker -> the arguments of its call
          alone,       \* calls that nothing has disturbed since they began
          stored       \* <<subdomain, id>> -> the value of its latest set, if
                       \* that stored it and it was not deleted and is not old

vars == <<sessionData, memcache, pc, sub, id, val, alone, stored>>

Row(s, v) == [subdomain |-> s, data |-> v, expired |-> FALSE]
Rows == [subdomain : Subdomains, data : Values, expired : BOOLEAN]

FullKey(s, k) == <<"VaedbProxy:">> \o s \o <<":">> \o k

(* The handler puts "LongTerm2" behind the subdomain for the keys of the   *)
(* long term cache, which makes them look like those of another site.      *)
LongTermName(s) == s \o <<"L", "o", "n", "g", "T", "e", "r", "m", "2">>
LongTermKey(s, k) == FullKey(LongTermName(s), k)

Names == Subdomains \cup {LongTermName(s) : s \in Subdomains}
FullKeys == {FullKey(n, k) : n \in Names, k \in Keys}
Entries == {"short", "long"} \X Subdomains \X Keys

(* What the constants are.  A subdomain is a part of a host name: there is *)
(* no colon in it.                                                         *)
SessionCacheAssumption ==
    /\ Subdomains \subseteq Seq(STRING) /\ Keys \subseteq Seq(STRING)
    /\ \A s \in Subdomains : \A n \in DOMAIN s : s[n] # ":"
    /\ NoRow \notin Rows
    /\ NoValue \notin Values /\ NoValue \notin Entries

Init ==
    /\ sessionData = [i \in Ids |-> NoRow]
    /\ memcache = [f \in FullKeys |-> NoValue]
    /\ pc = [w \in Workers |-> "idle"]
    /\ sub \in [Workers -> Subdomains] /\ id \in [Workers -> Ids] /\ val \in [Workers -> Values]
    /\ alone = {}
    /\ stored = [p \in Subdomains \X Ids |-> NoValue]

Mine(w) == <<sub[w], id[w]>>
CallsOn(p) == {w \in Workers : pc[w] # "idle" /\ Mine(w) = p}

(* A slip: the id alone selects the row. *)
IdMatches(s, i) == sessionData[i] # NoRow
(* WHERE `id`=? AND `subdomain`=? *)
Matches(s, i) == sessionData[i] # NoRow /\ sessionData[i].subdomain = s

Without(s, i) == IF Matches(s, i) THEN [sessionData EXCEPT ![i] = NoRow] ELSE sessionData

(***************************************************************************)
(* sessionCacheSet and sessionCacheDelete.                                 *)
(***************************************************************************)
Begin(w, s, i, v, first) ==
    /\ pc[w] = "idle"
    /\ pc' = [pc EXCEPT ![w] = first]
    /\ sub' = [sub EXCEPT ![w] = s]
    /\ id' = [id EXCEPT ![w] = i]
    /\ val' = [val EXCEPT ![w] = v]
    /\ alone' = IF CallsOn(<<s, i>>) = {} THEN alone \cup {w} ELSE alone \ (CallsOn(<<s, i>>) \cup {w})
    /\ stored' = [stored EXCEPT ![<<s, i>>] = NoValue]
    /\ UNCHANGED <<sessionData, memcache>>

Set(w, s, i, v) == Begin(w, s, i, v, "delete")
Delete(w, s, i) == Begin(w, s, i, val[w], "drop")

(* The DELETE of a set; an SQL error, after which nothing is known of the  *)
(* statement, ends the call.                                               *)
DeleteRow(w) ==
    /\ pc[w] = "delete"
    /\ \/ /\ sessionData' = Without(sub[w], id[w])
          /\ pc' = [pc EXCEPT ![w] = "insert"]
          /\ UNCHANGED alone
       \/ /\ sessionData' \in {sessionData, Without(sub[w], id[w])}
          /\ pc' = [pc EXCEPT ![w] = "idle"]
          /\ alone' = alone \ {w}
    /\ UNCHANGED <<memcache, sub, id, val, stored>>

(* The INSERT; a row with this id, of whatever site, makes it fail. *)
InsertRow(w) ==
    LET row == sessionData[id[w]]
        inserted == [sessionData EXCEPT ![id[w]] = Row(sub[w], val[w])]
    IN  /\ pc[w] = "insert"
        /\ pc' = [pc EXCEPT ![w] = "idle"]
        /\ \/ /\ row = NoRow
              /\ sessionData' = inserted
              /\ stored' = [stored EXCEPT ![Mine(w)] =
                                IF CallsOn(Mine(w)) = {w} /\ w \in alone THEN val[w] ELSE NoValue]
              /\ UNCHANGED alone
           \/ /\ row # NoRow
              /\ UNCHANGED <<sessionData, stored, alone>>
           \/ /\ row = NoRow
              /\ sessionData' \in {sessionData, inserted}
              /\ alone' = alone \ {w}
              /\ UNCHANGED stored
        /\ UNCHANGED <<memcache, sub, id, val>>

DropRow(w) ==
    /\ pc[w] = "drop"
    /\ sessionData' \in {sessionData, Without(sub[w], id[w])}
    /\ pc' = [pc EXCEPT ![w] = "idle"]
    /\ UNCHANGED <<memcache, sub, id, val, alone, stored>>

(***************************************************************************)
(* Rows expire after two days, and the Reaper's garbageCollect deletes the *)
(* ones that have.                                                         *)
(***************************************************************************)
TwoDaysPass(i) ==
    /\ sessionData[i] # NoRow /\ ~sessionData[i].expired
    /\ sessionData' = [sessionData EXCEPT ![i].expired = TRUE]
    /\ stored' = [stored EXCEPT ![<<sessionData[i].subdomain, i>>] = NoValue]
    /\ UNCHANGED <<memcache, pc, sub, id, val, alone>>

Expired(i) == sessionData[i] # NoRow /\ sessionData[i].expired

GarbageCollect ==
    LET gone == {i \in Ids : Expired(i)}
    IN  /\ gone # {}
        /\ sessionData' = [i \in Ids |-> IF i \in gone THEN NoRow ELSE sessionData[i]]
        /\ UNCHANGED <<memcache, pc, sub, id, val, alone, stored>>

(***************************************************************************)
(* shortTermCacheSet and shortTermCacheDelete are one command each, which  *)
(* may fail; memcached drops what it likes.                                *)
(***************************************************************************)
ShortTermCacheSet(s, k) ==
    /\ memcache' = [memcache EXCEPT ![FullKey(s, k)] = <<"short", s, k>>]
    /\ UNCHANGED <<sessionData, pc, sub, id, val, alone, stored>>

ShortTermCacheDelete(s, k) ==
    /\ memcache' = [memcache EXCEPT ![FullKey(s, k)] = NoValue]
    /\ UNCHANGED <<sessionData, pc, sub, id, val, alone, stored>>

(* What longTermCacheGet, longTermCacheSet and longTermCacheDelete send to  *)
(* the same memcached after their statements on kvstore (LongTermCache).   *)
LongTermCacheStore(s, k) ==
    /\ memcache' = [memcache EXCEPT ![LongTermKey(s, k)] = <<"long", s, k>>]
    /\ UNCHANGED <<sessionData, pc, sub, id, val, alone, stored>>

LongTermCacheForget(s, k) ==
    /\ memcache' = [memcache EXCEPT ![LongTermKey(s, k)] = NoValue]
    /\ UNCHANGED <<sessionData, pc, sub, id, val, alone, stored>>

Step(w) == DeleteRow(w) \/ InsertRow(w) \/ DropRow(w)

Next ==
    \/ \E w \in Workers, s \in Subdomains, i \in Ids : Delete(w, s, i) \/ \E v \in Values : Set(w, s, i, v)
    \/ \E w \in Workers : Step(w)
    \/ \E i \in Ids : TwoDaysPass(i)
    \/ GarbageCollect
    \/ \E s \in Subdomains, k \in Keys :
        \/ ShortTermCacheSet(s, k) \/ ShortTermCacheDelete(s, k)
        \/ LongTermCacheStore(s, k) \/ LongTermCacheForget(s, k)

Spec == Init /\ [][Next]_vars

(***************************************************************************)
(* What sessionCacheGet, shortTermCacheGet and the first step of           *)
(* longTermCacheGet find in a state; an error gives "" as well.            *)
(***************************************************************************)
SessionCacheGet(s, i) == {NoValue} \cup (IF Matches(s, i) THEN {sessionData[i].data} ELSE {})
ShortTermCacheGet(s, k) == {NoValue, memcache[FullKey(s, k)]}
LongTermCacheProbe(s, k) == {NoValue, memcache[LongTermKey(s, k)]}

-----------------------------------------------------------------------------
TypeOK ==
    /\ sessionData \in [Ids -> Rows \cup {NoRow}]
    /\ memcache \in [FullKeys -> Entries \cup {NoValue}]
    /\ pc \in [Workers -> {"idle", "delete", "insert", "drop"}]
    /\ sub \in [Workers -> Subdomains] /\ id \in [Workers -> Ids] /\ val \in [Workers -> Values]
    /\ alone \subseteq Workers
    /\ stored \in [Subdomains \X Ids -> Values \cup {NoValue}]

(* How far sites disturb each other.  What a site has stored for a session *)
(* by a set that overlapped no other call on that session, it reads back   *)
(* until it sets or deletes it or two days have passed, whatever others do *)
(* with the same id.  A get from memcache finds what its own site stored   *)
(* under that key in that cache, with one exception, which the code really *)
(* has: a site whose name is another's with "LongTerm2" behind it shares   *)
(* its short term entries with the long term entries of that other.        *)
SitesApart ==
    /\ \A s \in Subdomains, i \in Ids :
        stored[<<s, i>>] # NoValue => stored[<<s, i>>] \in SessionCacheGet(s, i)
    /\ \A s \in Subdomains, k \in Keys :
        /\ \A e \in ShortTermCacheGet(s, k) :
            \/ e \in {NoValue, <<"short", s, k>>}
            \/ \E t \in Subdomains : s = LongTermName(t) /\ e = <<"long", t, k>>
        /\ \A e \in LongTermCacheProbe(s, k) :
            \/ e \in {NoValue, <<"long", s, k>>}
            \/ LongTermName(s) \in Subdomains /\ e = <<"short", LongTermName(s), k>>
=============================================================================
