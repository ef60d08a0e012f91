--------------------------- MODULE LongTermCache ---------------------------
(***************************************************************************)
(* The long term cache of a site: the rows of the table kvstore, with a     *)
(* copy of each in memcache.  The handler's calls are made of separate      *)
(* statements to two servers, with no lock and no transaction around them;  *)
(* a statement that fails is logged and the call goes on.                   *)
(*                                                                          *)
(* One subdomain, and what the rest of the world does to its entries: the   *)
(* short term cache of a site that is named <subdomain>LongTerm2 has the    *)
(* same keys in memcache (module SessionCache).  A value that is "" and a   *)
(* row or entry that does not exist are the same to every caller.           *)
(***************************************************************************)
EXTENDS FiniteSets

CONSTANTS Workers, Keys, Values, NoValue

ASSUME CacheAssumption == NoValue \notin Values

VARIABLES kvstore,   \* the row of each key
          memcache,  \* the entry VaedbProxy:<subdomain>LongTerm2:<key>
          pc,        \* the statement each worker's call is at
          key, val,  \* the arguments of the call, and what a get has read
          suspect,   \* the entry of the key may differ from its row
          alone,     \* calls that nothing has disturbed since they began
          kept       \* somebody has set the key, and nobody has deleted it

vars == <<kvstore, memcache, pc, key, val, suspect, alone, kept>>

Gets == {"probe", "select", "fill"}
Writes == {"delete", "insert", "store", "drop", "forget"}
Contents == [Keys -> Values \cup {NoValue}]

TypeOK == /\ kvstore \in Contents /\ memcache \in Contents
          /\ pc \in [Workers -> {"idle"} \cup Gets \cup Writes]
          /\ key \in [Workers -> Keys]
          /\ val \in [Workers -> Values \cup {NoValue}]
          /\ suspect \in [Keys -> BOOLEAN]
          /\ alone \subseteq Workers
          /\ kept \in [Keys -> BOOLEAN]

Init == /\ kvstore \in Contents
        /\ memcache = [k \in Keys |-> NoValue]
        /\ pc = [w \in Workers |-> "idle"]
        /\ key \in [Workers -> Keys]
        /\ val = [w \in Workers |-> NoValue]
        /\ suspect = [k \in Keys |-> FALSE]
        /\ alone = {}
        /\ kept = [k \in Keys |-> kvstore[k] # NoValue]

CallsOn(k) == {w \in Workers : pc[w] # "idle" /\ key[w] = k}
Goto(w, l) == pc' = [pc EXCEPT ![w] = l]

(* A statement of the call of w has failed. *)
Failed(w) == /\ suspect' = [suspect EXCEPT ![key[w]] = TRUE]
             /\ alone' = alone \ {w}
(* An SQL error tells nothing about whether the statement took effect.      *)
Uncertain(w, v) == /\ \E r \in {kvstore[key[w]], v} : kvstore' = [kvstore EXCEPT ![key[w]] = r]
                   /\ kept' = [kept EXCEPT ![key[w]] = FALSE]
(* The last statement of the call of w has succeeded: a call that nothing   *)
(* disturbed leaves no doubt about its key.                                 *)
Succeeded(w) == /\ suspect' = [suspect EXCEPT ![key[w]] = @ /\ w \notin alone]
                /\ alone' = alone \ {w}

-----------------------------------------------------------------------------
(* A call on a key begins.  Two calls on one key at the same time, one of   *)
(* them a write, may leave an entry that differs from the row.              *)
Begin(w, k, v, l) ==
  /\ pc[w] = "idle"
  /\ Goto(w, l)
  /\ key' = [key EXCEPT ![w] = k]
  /\ val' = [val EXCEPT ![w] = v]
  /\ suspect' = [suspect EXCEPT ![k] = @ \/ \E u \in CallsOn(k) : l \in Writes \/ pc[u] \in Writes]
  /\ alone' = IF CallsOn(k) = {} THEN alone \cup {w} ELSE alone \ CallsOn(k)
  /\ UNCHANGED <<kvstore, memcache, kept>>

(* longTermCacheGet with and without useShortTermCache. *)
Get(w, k) == Begin(w, k, NoValue, "probe") \/ Begin(w, k, NoValue, "select")
Set(w, k, v) == Begin(w, k, v, "delete")
Delete(w, k) == Begin(w, k, NoValue, "drop")

-----------------------------------------------------------------------------
(* longTermCacheGet *)

(* An entry that is not "" is the answer; otherwise, or on an error of      *)
(* memcache, the row is.                                                    *)
Probe(w) == /\ pc[w] = "probe"
            /\ \/ Goto(w, "select") /\ UNCHANGED alone
               \/ memcache[key[w]] # NoValue /\ Goto(w, "idle") /\ alone' = alone \ {w}
            /\ UNCHANGED <<kvstore, memcache, key, val, suspect, kept>>

(* The SELECT, and the UPDATE of expire_at that does not change the value;  *)
(* an SQL error gives "".                                                   *)
Select(w) == /\ pc[w] = "select"
             /\ \E v \in {kvstore[key[w]], NoValue} : val' = [val EXCEPT ![w] = v]
             /\ Goto(w, "fill")
             /\ UNCHANGED <<kvstore, memcache, key, suspect, alone, kept>>

(* memcacheProxy.set of what was read, "" included. *)
Fill(w) == /\ pc[w] = "fill"
           /\ \/ memcache' = [memcache EXCEPT ![key[w]] = val[w]] /\ Succeeded(w)
              \/ UNCHANGED <<memcache, suspect>> /\ alone' = alone \ {w}
           /\ Goto(w, "idle")
           /\ UNCHANGED <<kvstore, key, val, kept>>

-----------------------------------------------------------------------------
(* longTermCacheSet *)

(* A slip: the call goes from the DELETE to memcache. *)
SkipInsert == "store"
AfterDelete == "insert"

(* The DELETE; if it fails, the INSERT is not tried. *)
DeleteRow(w) ==
  /\ pc[w] = "delete"
  /\ \/ /\ kvstore' = [kvstore EXCEPT ![key[w]] = NoValue]
        /\ Goto(w, AfterDelete)
        /\ UNCHANGED <<suspect, alone, kept>>
     \/ /\ Uncertain(w, NoValue)
        /\ Goto(w, "store")
        /\ Failed(w)
  /\ UNCHANGED <<memcache, key, val>>

(* The INSERT; another call's row for this key makes it fail. *)
InsertRow(w) ==
  /\ pc[w] = "insert"
  /\ \/ /\ kvstore[key[w]] = NoValue
        /\ kvstore' = [kvstore EXCEPT ![key[w]] = val[w]]
        /\ kept' = [kept EXCEPT ![key[w]] = TRUE]
        /\ UNCHANGED <<suspect, alone>>
     \/ /\ kvstore[key[w]] # NoValue
        /\ UNCHANGED <<kvstore, kept>>
        /\ Failed(w)
     \/ /\ kvstore[key[w]] = NoValue
        /\ Uncertain(w, val[w])
        /\ Failed(w)
  /\ Goto(w, "store")
  /\ UNCHANGED <<memcache, key, val>>

(* A slip: the entry is left to expire. *)
EntryUnchanged(w) == memcache
EntrySet(w) == [memcache EXCEPT ![key[w]] = val[w]]

(* memcacheProxy.set, whether or not the row was written. *)
Store(w) ==
  /\ pc[w] = "store"
  /\ \/ memcache' = EntrySet(w) /\ Succeeded(w)
     \/ UNCHANGED memcache /\ Failed(w)
  /\ Goto(w, "idle")
  /\ UNCHANGED <<kvstore, key, val, kept>>

-----------------------------------------------------------------------------
(* longTermCacheDelete *)
DropRow(w) ==
  /\ pc[w] = "drop"
  /\ \/ /\ kvstore' = [kvstore EXCEPT ![key[w]] = NoValue]
        /\ kept' = [kept EXCEPT ![key[w]] = FALSE]
        /\ UNCHANGED <<suspect, alone>>
     \/ Uncertain(w, NoValue) /\ Failed(w)
  /\ Goto(w, "forget")
  /\ UNCHANGED <<memcache, key, val>>

(* memcacheProxy.remove *)
Forget(w) ==
  /\ pc[w] = "forget"
  /\ \/ memcache' = [memcache EXCEPT ![key[w]] = NoValue] /\ Succeeded(w)
     \/ UNCHANGED memcache /\ Failed(w)
  /\ Goto(w, "idle")
  /\ UNCHANGED <<kvstore, key, val, kept>>

-----------------------------------------------------------------------------
(* Rows go and their entries stay. *)
RowsGone(gone) ==
  /\ kvstore' = [k \in Keys |-> IF k \in gone THEN NoValue ELSE kvstore[k]]
  /\ kept' = [k \in Keys |-> kept[k] /\ k \notin gone]
  /\ suspect' = [k \in Keys |-> \/ suspect[k]
                                \/ k \in gone /\ (memcache[k] # NoValue \/ CallsOn(k) # {})]
  /\ alone' = {w \in alone : key[w] \notin gone}
  /\ UNCHANGED <<memcache, pc, key, val>>

(* longTermCacheEmpty: DELETE all rows of the subdomain.  memcache is not   *)
(* told.                                                                    *)
Empty == RowsGone(Keys)

(* longTermCacheSweeperInfo: DELETE the rows past expire_at, whichever they *)
(* are, and list the file names that are left.                              *)
SweeperInfo == \E old \in SUBSET Keys : old # {} /\ RowsGone(old)

(* memcached drops an entry, because of its age (86400 s) or for lack of    *)
(* memory.  If nobody is in a call on the key, no doubt about it is left.   *)
Expire(k) == /\ memcache' = [memcache EXCEPT ![k] = NoValue]
             /\ suspect' = [suspect EXCEPT ![k] = @ /\ CallsOn(k) # {}]
             /\ UNCHANGED <<kvstore, pc, key, val, alone, kept>>

(* shortTermCacheSet of the site <subdomain>LongTerm2 has the same full key.*)
(* Its shortTermCacheDelete does to an entry what Expire does.              *)
ForeignSet(k, v) == /\ memcache' = [memcache EXCEPT ![k] = v]
                    /\ suspect' = [suspect EXCEPT ![k] = TRUE]
                    /\ UNCHANGED <<kvstore, pc, key, val, alone, kept>>

-----------------------------------------------------------------------------
Step(w) == \/ Probe(w) \/ Select(w) \/ Fill(w)
           \/ DeleteRow(w) \/ InsertRow(w) \/ Store(w)
           \/ DropRow(w) \/ Forget(w)

Next == \/ \E w \in Workers, k \in Keys :
             Get(w, k) \/ Delete(w, k) \/ \E v \in Values : Set(w, k, v)
        \/ \E w \in Workers : Step(w)
        \/ Empty \/ SweeperInfo
        \/ \E k \in Keys : Expire(k) \/ \E v \in Values : ForeignSet(k, v)

Spec == Init /\ [][Next]_vars

-----------------------------------------------------------------------------
(* Properties *)

(* When no call on a key is under way, its entry in memcache is its row,    *)
(* unless calls on the key overlapped, a statement of a write failed, rows  *)
(* were removed by Empty or the sweeper, or the site <subdomain>LongTerm2   *)
(* overwrote the entry, and since then no get that read the row, no set and *)
(* no delete went through undisturbed: there is no other way to serve a     *)
(* stale value.                                                             *)
Coherent == \A k \in Keys :
  CallsOn(k) = {} /\ ~suspect[k] => memcache[k] \in {NoValue, kvstore[k]}

(* Sets of one key that overlap may fail on each other's row, but they do   *)
(* not lose the key: unless it is deleted, or a statement fails, there is a *)
(* row as soon as no set is between its DELETE and its INSERT.              *)
SetNotLost == \A k \in Keys :
  kept[k] /\ kvstore[k] = NoValue => \E w \in CallsOn(k) : pc[w] = "insert"
=============================================================================
