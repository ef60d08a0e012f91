-------------------------- MODULE SiteCachesProofs --------------------------
(***************************************************************************)
(* What the caches of a site promise although their calls are made of       *)
(* separate statements, for any number of workers, keys, sites and values.  *)
(*                                                                          *)
(* Long term cache.  Coherent says something only of keys with no call on   *)
(* them.  To carry it through the calls takes three facts: a call that is   *)
(* still marked alone is the only one on its key (OnlyCall) and knows what  *)
(* the row is (KnowsRow); a key without a doubt has one write that is       *)
(* alone, or only gets (OneWrite), and in the second case neither its entry *)
(* nor what a get is about to fill in differs from the row (NoStaleFill).   *)
(* SetNotLost needs that a set has a value (SetsValue).                     *)
(*                                                                          *)
(* Session cache.  What counts as stored is in a row that is not old and    *)
(* that no call on the same session is about to delete (StoredStays).  In   *)
(* memcache two names never build the same full key (FullKeyInjective), so  *)
(* an entry is of the site, or of the long term cache of the site, whose    *)
(* name its key is made of (OwnEntries): only there can two owners meet.    *)
(***************************************************************************)
EXTENDS SiteCaches, SequenceTheorems, TLAPS

(* Nobody else is in a call on the key of a call that is alone. *)
OnlyCall == \A w \in alone :
  pc[w] # "idle" /\ \A u \in Workers : pc[u] # "idle" /\ key[u] = key[w] => u = w

(* What a call that is alone knows of the row when it goes to memcache. *)
KnowsRow == \A w \in alone :
  /\ pc[w] = "fill" => val[w] \in {NoValue, kvstore[key[w]]}
  /\ pc[w] = "store" => kvstore[key[w]] = val[w]
  /\ pc[w] \in {"insert", "forget"} => kvstore[key[w]] = NoValue

(* On a key without a doubt a write is alone. *)
OneWrite == \A w \in Workers : pc[w] \in Writes /\ ~suspect[key[w]] => w \in alone

(* Where only gets are under way, nobody has or brings another value. *)
NoStaleFill == \A k \in Keys : ~suspect[k] /\ (\A w \in CallsOn(k) : pc[w] \in Gets) =>
  /\ memcache[k] \in {NoValue, kvstore[k]}
  /\ \A w \in CallsOn(k) : pc[w] = "fill" => val[w] \in {NoValue, kvstore[k]}

(* A set stores a value that is not "". *)
SetsValue == \A w \in Workers : pc[w] \in {"delete", "insert", "store"} => val[w] # NoValue

Inv == TypeOK /\ OnlyCall /\ KnowsRow /\ OneWrite /\ NoStaleFill /\ SetsValue /\ SetNotLost

-----------------------------------------------------------------------------
(* A server that has just started, on the rows an earlier one left. *)
LEMMA InitInv == Init => Inv
<1> SUFFICES ASSUME Init PROVE Inv
  OBVIOUS
<1>1. TypeOK
  BY DEF Init, TypeOK, Contents
<1>2. OnlyCall /\ KnowsRow /\ OneWrite /\ SetsValue
  BY DEF Init, OnlyCall, KnowsRow, OneWrite, SetsValue, Writes
<1>3. NoStaleFill /\ SetNotLost
  BY DEF Init, NoStaleFill, SetNotLost, CallsOn
<1> QED BY <1>1, <1>2, <1>3 DEF Inv

(* A call begins.  If it finds another one on its key, neither is alone any *)
(* more, and if one of them is a write the key is in doubt.                 *)
LEMMA BeginInv ==
  ASSUME Inv, NEW w \in Workers, NEW k \in Keys, NEW v \in Values \cup {NoValue},
         NEW l \in {"probe", "select", "delete", "drop"}, l = "delete" => v # NoValue,
         Begin(w, k, v, l)
  PROVE  Inv'
<1> USE DEF Begin, Goto, Inv
<1>1. TypeOK'
  BY DEF TypeOK, CallsOn, Gets, Writes
<1>2. \A e \in Keys : CallsOn(e)' = IF e = k THEN CallsOn(e) \cup {w} ELSE CallsOn(e)
  BY DEF TypeOK, CallsOn
<1>3. /\ pc'[w] = l /\ key'[w] = k /\ val'[w] = v /\ w \notin alone
      /\ \A u \in Workers \ {w} : pc'[u] = pc[u] /\ key'[u] = key[u] /\ val'[u] = val[u]
  BY DEF TypeOK, OnlyCall
<1>4. \A e \in Keys : /\ suspect[e] => suspect'[e]
                      /\ e # k => suspect'[e] = suspect[e]
  BY DEF TypeOK
<1>5. \A u \in CallsOn(k) : l \in Writes \/ pc[u] \in Writes => suspect'[k]
  BY DEF TypeOK
<1>6. OnlyCall'
  BY <1>3 DEF OnlyCall, TypeOK, CallsOn
<1>7. KnowsRow'
  BY <1>3 DEF KnowsRow, TypeOK
<1>8. OneWrite'
  BY <1>3, <1>4, <1>5 DEF OneWrite, CallsOn, TypeOK
<1>9. NoStaleFill'
  BY <1>2, <1>3, <1>4, <1>5 DEF NoStaleFill, CallsOn, TypeOK, Gets, Writes
<1>10. SetsValue' /\ SetNotLost'
  BY <1>2, <1>3 DEF SetsValue, SetNotLost, TypeOK, CallsOn
<1> QED BY <1>1, <1>6, <1>7, <1>8, <1>9, <1>10

-----------------------------------------------------------------------------
(* A step of a call changes where that call is. *)
LEMMA StepCalls ==
  ASSUME Inv, NEW w \in Workers, NEW l, Goto(w, l), pc[w] # "idle", UNCHANGED key
  PROVE  /\ pc'[w] = l /\ \A u \in Workers \ {w} : pc'[u] = pc[u]
         /\ \A k \in Keys : CallsOn(k)' = IF l = "idle" THEN CallsOn(k) \ {w} ELSE CallsOn(k)
         /\ w \in CallsOn(key[w]) /\ key[w] \in Keys
BY DEF Goto, Inv, TypeOK, CallsOn

(* An entry that is found is the answer, and changes nothing. *)
LEMMA ProbeInv == ASSUME Inv, NEW w \in Workers, Probe(w) PROVE Inv'
<1> USE DEF Inv
<1>1. pc[w] = "probe" /\ UNCHANGED <<kvstore, memcache, key, val, suspect, kept>>
  BY DEF Probe
<1>2. /\ pc'[w] \in {"select", "idle"} /\ \A u \in Workers \ {w} : pc'[u] = pc[u]
      /\ pc' \in [Workers -> {"idle"} \cup Gets \cup Writes]
      /\ w \in alone' => pc'[w] = "select"
      /\ alone' \subseteq alone /\ \A u \in alone : u # w => u \in alone'
  BY DEF Probe, Goto, TypeOK, Gets
<1>3. TypeOK'
  BY <1>1, <1>2 DEF TypeOK
<1>4. OnlyCall'
  BY <1>1, <1>2 DEF OnlyCall, TypeOK
<1>5. KnowsRow'
  BY <1>1, <1>2 DEF KnowsRow, TypeOK
<1>6. OneWrite'
  BY <1>1, <1>2 DEF OneWrite, Writes
<1>7. NoStaleFill'
  BY <1>1, <1>2 DEF NoStaleFill, CallsOn, Gets
<1>8. SetsValue' /\ SetNotLost'
  BY <1>1, <1>2 DEF SetsValue, SetNotLost, CallsOn
<1> QED BY <1>3, <1>4, <1>5, <1>6, <1>7, <1>8

(* What the SELECT brings is the row or nothing. *)
LEMMA SelectInv == ASSUME Inv, NEW w \in Workers, Select(w) PROVE Inv'
<1> USE DEF Select, Inv
<1>1. /\ pc'[w] = "fill" /\ \A u \in Workers \ {w} : pc'[u] = pc[u]
      /\ \A k \in Keys : CallsOn(k)' = CallsOn(k)
      /\ w \in CallsOn(key[w]) /\ key[w] \in Keys
  BY StepCalls
<1>2. val'[w] \in {NoValue, kvstore[key[w]]} /\ \A u \in Workers \ {w} : val'[u] = val[u]
  BY DEF TypeOK
<1>3. TypeOK'
  BY <1>1, <1>2 DEF TypeOK, Goto, Gets, Contents
<1>4. OnlyCall' /\ KnowsRow'
  BY <1>1, <1>2 DEF OnlyCall, KnowsRow, TypeOK
<1>5. OneWrite'
  BY <1>1 DEF OneWrite, Writes
<1>6. NoStaleFill'
  BY <1>1, <1>2 DEF NoStaleFill, CallsOn, Gets
<1>7. SetsValue' /\ SetNotLost'
  BY <1>1, <1>2 DEF SetsValue, SetNotLost, CallsOn
<1> QED BY <1>3, <1>4, <1>5, <1>6, <1>7

(* A get that was alone fills in the row or nothing, and so does one on a   *)
(* key without a doubt, where only gets are.                                *)
LEMMA FillInv == ASSUME Inv, NEW w \in Workers, Fill(w) PROVE Inv'
<1> USE DEF Fill, Inv
<1>1. /\ pc'[w] = "idle" /\ \A u \in Workers \ {w} : pc'[u] = pc[u]
      /\ \A k \in Keys : CallsOn(k)' = CallsOn(k) \ {w}
      /\ w \in CallsOn(key[w]) /\ key[w] \in Keys
  BY StepCalls
<1>2. /\ alone' = alone \ {w}
      /\ \A k \in Keys \ {key[w]} : memcache'[k] = memcache[k] /\ suspect'[k] = suspect[k]
      /\ memcache'[key[w]] \in {memcache[key[w]], val[w]}
      /\ suspect'[key[w]] \in {suspect[key[w]], suspect[key[w]] /\ w \notin alone}
      /\ memcache'[key[w]] = memcache[key[w]] => memcache'[key[w]] = val[w] \/ suspect'[key[w]] = suspect[key[w]]
  BY DEF Succeeded, TypeOK, Contents
<1>3. TypeOK'
  BY <1>1 DEF TypeOK, Goto, Gets, Contents, Succeeded
<1>4. OnlyCall'
  BY <1>1, <1>2 DEF OnlyCall, TypeOK
<1>5. KnowsRow'
  BY <1>1, <1>2 DEF KnowsRow, TypeOK
<1>6. OneWrite'
  <2> SUFFICES ASSUME NEW u \in Workers, pc'[u] \in Writes, ~suspect'[key[u]] PROVE u \in alone'
    BY DEF OneWrite
  <2>1. u # w /\ pc[u] \in Writes
    BY <1>1 DEF Writes
  <2>2. CASE key[u] = key[w] /\ w \in alone
    BY <1>1, <2>1, <2>2 DEF OnlyCall, CallsOn, Writes
  <2>3. CASE ~(key[u] = key[w] /\ w \in alone)
    BY <1>1, <1>2, <2>1, <2>3 DEF OneWrite, TypeOK
  <2> QED BY <2>2, <2>3
<1>7. NoStaleFill'
  <2> SUFFICES ASSUME NEW k \in Keys, ~suspect'[k], \A u \in CallsOn(k)' : pc'[u] \in Gets
               PROVE  /\ memcache'[k] \in {NoValue, kvstore[k]}
                      /\ \A u \in CallsOn(k)' : pc'[u] = "fill" => val[u] \in {NoValue, kvstore[k]}
    BY DEF NoStaleFill
  <2>1. CASE k # key[w]
    BY <1>1, <1>2, <2>1 DEF NoStaleFill, CallsOn
  <2>2. CASE k = key[w] /\ ~suspect[k]
    <3>1. \A u \in CallsOn(k) : pc[u] \in Gets
      BY <1>1 DEF Gets, CallsOn
    <3>2. /\ memcache[k] \in {NoValue, kvstore[k]}
          /\ \A u \in CallsOn(k) : pc[u] = "fill" => val[u] \in {NoValue, kvstore[k]}
      BY <2>2, <3>1 DEF NoStaleFill
    <3>3. val[w] \in {NoValue, kvstore[k]}
      BY <1>1, <2>2, <3>2
    <3> QED BY <1>1, <1>2, <2>2, <3>2, <3>3 DEF CallsOn
  <2>3. CASE k = key[w] /\ suspect[k]
    <3>1. w \in alone /\ memcache'[k] = val[w]
      BY <1>1, <1>2, <2>3
    <3>2. CallsOn(k) = {w} /\ val[w] \in {NoValue, kvstore[k]}
      BY <2>3, <3>1 DEF OnlyCall, KnowsRow, CallsOn
    <3> QED BY <1>1, <3>1, <3>2
  <2> QED BY <2>1, <2>2, <2>3
<1>8. SetsValue' /\ SetNotLost'
  BY <1>1 DEF SetsValue, SetNotLost, CallsOn
<1> QED BY <1>3, <1>4, <1>5, <1>6, <1>7, <1>8

-----------------------------------------------------------------------------
(* A statement on the row, between others of a write: it fails, which puts  *)
(* the key in doubt, or it tells the call, if that is alone, what the row   *)
(* is now.                                                                  *)
LEMMA RowStep ==
  ASSUME Inv, NEW w \in Workers, pc[w] \in Writes,
         NEW l \in {"insert", "store", "forget"}, l # "forget" => val[w] # NoValue,
         Goto(w, l), UNCHANGED <<memcache, key, val>>,
         kvstore' \in Contents, kept' \in [Keys -> BOOLEAN],
         \A k \in Keys \ {key[w]} : kvstore'[k] = kvstore[k],
         \/ Failed(w)
         \/ /\ UNCHANGED <<suspect, alone>>
            /\ w \in alone => kvstore'[key[w]] = IF l = "store" THEN val[w] ELSE NoValue
  PROVE  TypeOK' /\ OnlyCall' /\ KnowsRow' /\ OneWrite' /\ NoStaleFill' /\ SetsValue'
<1> USE DEF Inv
<1>1. /\ pc'[w] = l /\ \A u \in Workers \ {w} : pc'[u] = pc[u]
      /\ pc' \in [Workers -> {"idle"} \cup Gets \cup Writes]
      /\ key[w] \in Keys /\ pc[w] # "idle" /\ l \in Writes
  BY DEF Goto, TypeOK, Writes
<1>2. /\ alone' \subseteq alone /\ \A u \in alone : u # w => u \in alone'
      /\ suspect' \in [Keys -> BOOLEAN]
      /\ \A k \in Keys \ {key[w]} : suspect'[k] = suspect[k]
      /\ suspect[key[w]] => suspect'[key[w]]
      /\ w \in alone' => kvstore'[key[w]] = IF l = "store" THEN val[w] ELSE NoValue
      /\ w \in alone /\ w \notin alone' => suspect'[key[w]]
  BY <1>1 DEF Failed, TypeOK
<1>3. TypeOK'
  BY <1>1, <1>2 DEF TypeOK
<1>4. OnlyCall'
  BY <1>1, <1>2 DEF OnlyCall, TypeOK
<1>5. KnowsRow'
  <2> SUFFICES ASSUME NEW u \in alone'
               PROVE  /\ pc'[u] = "fill" => val[u] \in {NoValue, kvstore'[key[u]]}
                      /\ pc'[u] = "store" => kvstore'[key[u]] = val[u]
                      /\ pc'[u] \in {"insert", "forget"} => kvstore'[key[u]] = NoValue
    BY DEF KnowsRow
  <2>1. CASE u = w
    BY <1>1, <1>2, <2>1
  <2>2. CASE u # w
    <3>1. u \in alone /\ u \in Workers /\ key[u] \in Keys /\ key[u] # key[w]
      BY <1>1, <1>2, <2>2 DEF OnlyCall, TypeOK
    <3> QED BY <1>1, <2>2, <3>1 DEF KnowsRow
  <2> QED BY <2>1, <2>2
<1>6. OneWrite'
  BY <1>1, <1>2 DEF OneWrite, TypeOK
<1>7. NoStaleFill'
  <2> SUFFICES ASSUME NEW k \in Keys, ~suspect'[k], \A u \in CallsOn(k)' : pc'[u] \in Gets
               PROVE  /\ memcache[k] \in {NoValue, kvstore'[k]}
                      /\ \A u \in CallsOn(k)' : pc'[u] = "fill" => val[u] \in {NoValue, kvstore'[k]}
    BY DEF NoStaleFill
  <2>1. k # key[w]
    BY <1>1 DEF CallsOn, Gets
  <2>2. CallsOn(k)' = CallsOn(k) /\ w \notin CallsOn(k)
    BY <1>1, <2>1 DEF CallsOn
  <2> QED BY <1>1, <1>2, <2>1, <2>2 DEF NoStaleFill, CallsOn
<1>8. SetsValue'
  BY <1>1 DEF SetsValue
<1> QED BY <1>3, <1>4, <1>5, <1>6, <1>7, <1>8

(* The DELETE of a set: the row is missing until the INSERT. *)
LEMMA DeleteRowInv == ASSUME Inv, NEW w \in Workers, DeleteRow(w) PROVE Inv'
<1>1. /\ pc[w] = "delete" /\ key[w] \in Keys /\ val[w] # NoValue /\ pc[w] \in Writes
      /\ UNCHANGED <<memcache, key, val>>
  BY DEF DeleteRow, Inv, TypeOK, SetsValue, Writes
<1>2. CASE /\ kvstore' = [kvstore EXCEPT ![key[w]] = NoValue]
           /\ Goto(w, AfterDelete) /\ UNCHANGED <<suspect, alone, kept>>
  <2>1. /\ kvstore' \in Contents /\ kept' \in [Keys -> BOOLEAN] /\ kvstore'[key[w]] = NoValue
        /\ \A k \in Keys \ {key[w]} : kvstore'[k] = kvstore[k]
    BY <1>1, <1>2 DEF Inv, TypeOK, Contents
  <2>2. TypeOK' /\ OnlyCall' /\ KnowsRow' /\ OneWrite' /\ NoStaleFill' /\ SetsValue'
    BY <1>1, <1>2, <2>1, RowStep DEF AfterDelete
  <2>3. SetNotLost'
    BY <1>1, <1>2, <2>1 DEF Inv, TypeOK, SetNotLost, CallsOn, Goto, AfterDelete
  <2> QED BY <2>2, <2>3 DEF Inv
<1>3. CASE Uncertain(w, NoValue) /\ Goto(w, "store") /\ Failed(w)
  <2>1. /\ kvstore' \in Contents /\ kept' \in [Keys -> BOOLEAN] /\ ~kept'[key[w]]
        /\ \A k \in Keys \ {key[w]} : kvstore'[k] = kvstore[k] /\ kept'[k] = kept[k]
    BY <1>1, <1>3 DEF Uncertain, Inv, TypeOK, Contents
  <2>2. TypeOK' /\ OnlyCall' /\ KnowsRow' /\ OneWrite' /\ NoStaleFill' /\ SetsValue'
    BY <1>1, <1>3, <2>1, RowStep
  <2>3. SetNotLost'
    BY <1>1, <1>3, <2>1 DEF Inv, TypeOK, SetNotLost, CallsOn, Goto
  <2> QED BY <2>2, <2>3 DEF Inv
<1> QED BY <1>2, <1>3 DEF DeleteRow

(* The INSERT: there is a row afterwards, this one or another's, or the key *)
(* no longer counts as kept.                                                *)
LEMMA InsertRowInv == ASSUME Inv, NEW w \in Workers, InsertRow(w) PROVE Inv'
<1>1. /\ pc[w] = "insert" /\ key[w] \in Keys /\ val[w] # NoValue /\ val[w] \in Values \cup {NoValue}
      /\ UNCHANGED <<memcache, key, val>> /\ Goto(w, "store") /\ pc[w] \in Writes
      /\ \A u \in Workers \ {w} : pc'[u] = pc[u]
  BY DEF InsertRow, Inv, TypeOK, SetsValue, Goto, Writes
<1>2. CASE /\ kvstore' = [kvstore EXCEPT ![key[w]] = val[w]]
           /\ kept' = [kept EXCEPT ![key[w]] = TRUE] /\ UNCHANGED <<suspect, alone>>
  <2>1. /\ kvstore' \in Contents /\ kept' \in [Keys -> BOOLEAN] /\ kvstore'[key[w]] = val[w]
        /\ \A k \in Keys \ {key[w]} : kvstore'[k] = kvstore[k] /\ kept'[k] = kept[k]
    BY <1>1, <1>2 DEF Inv, TypeOK, Contents
  <2>2. TypeOK' /\ OnlyCall' /\ KnowsRow' /\ OneWrite' /\ NoStaleFill' /\ SetsValue'
    BY <1>1, <1>2, <2>1, RowStep
  <2>3. SetNotLost'
    BY <1>1, <2>1 DEF Inv, SetNotLost, CallsOn
  <2> QED BY <2>2, <2>3 DEF Inv
<1>3. CASE kvstore[key[w]] # NoValue /\ UNCHANGED <<kvstore, kept>> /\ Failed(w)
  <2>1. kvstore' \in Contents /\ kept' \in [Keys -> BOOLEAN]
    BY <1>3 DEF Inv, TypeOK
  <2>2. TypeOK' /\ OnlyCall' /\ KnowsRow' /\ OneWrite' /\ NoStaleFill' /\ SetsValue'
    BY <1>1, <1>3, <2>1, RowStep
  <2>3. SetNotLost'
    BY <1>1, <1>3 DEF Inv, SetNotLost, CallsOn
  <2> QED BY <2>2, <2>3 DEF Inv
<1>4. CASE Uncertain(w, val[w]) /\ Failed(w)
  <2>1. /\ kvstore' \in Contents /\ kept' \in [Keys -> BOOLEAN] /\ ~kept'[key[w]]
        /\ \A k \in Keys \ {key[w]} : kvstore'[k] = kvstore[k] /\ kept'[k] = kept[k]
    BY <1>1, <1>4 DEF Uncertain, Inv, TypeOK, Contents
  <2>2. TypeOK' /\ OnlyCall' /\ KnowsRow' /\ OneWrite' /\ NoStaleFill' /\ SetsValue'
    BY <1>1, <1>4, <2>1, RowStep
  <2>3. SetNotLost'
    BY <1>1, <2>1 DEF Inv, SetNotLost, CallsOn
  <2> QED BY <2>2, <2>3 DEF Inv
<1> QED BY <1>2, <1>3, <1>4 DEF InsertRow

(* The DELETE of longTermCacheDelete; the key is no longer kept. *)
LEMMA DropRowInv == ASSUME Inv, NEW w \in Workers, DropRow(w) PROVE Inv'
<1>1. /\ pc[w] = "drop" /\ key[w] \in Keys /\ pc[w] \in Writes
      /\ UNCHANGED <<memcache, key, val>> /\ Goto(w, "forget")
      /\ \A u \in Workers \ {w} : pc'[u] = pc[u]
  BY DEF DropRow, Inv, TypeOK, Goto, Writes
<1>2. /\ kvstore' \in Contents /\ kept' \in [Keys -> BOOLEAN] /\ ~kept'[key[w]]
      /\ \A k \in Keys \ {key[w]} : kvstore'[k] = kvstore[k] /\ kept'[k] = kept[k]
      /\ Failed(w) \/ (UNCHANGED <<suspect, alone>> /\ kvstore'[key[w]] = NoValue)
  <2>1. CASE /\ kvstore' = [kvstore EXCEPT ![key[w]] = NoValue]
             /\ kept' = [kept EXCEPT ![key[w]] = FALSE] /\ UNCHANGED <<suspect, alone>>
    BY <1>1, <2>1 DEF Inv, TypeOK, Contents
  <2>2. CASE Uncertain(w, NoValue) /\ Failed(w)
    <3>1. /\ kvstore' \in Contents /\ kept' \in [Keys -> BOOLEAN] /\ ~kept'[key[w]]
          /\ \A k \in Keys \ {key[w]} : kvstore'[k] = kvstore[k] /\ kept'[k] = kept[k]
      BY <1>1, <2>2 DEF Uncertain, Inv, TypeOK, Contents
    <3> QED BY <2>2, <3>1, Zenon
  <2> QED BY <2>1, <2>2 DEF DropRow
<1>3. TypeOK' /\ OnlyCall' /\ KnowsRow' /\ OneWrite' /\ NoStaleFill' /\ SetsValue'
  BY <1>1, <1>2, RowStep
<1>4. SetNotLost'
  BY <1>1, <1>2 DEF Inv, SetNotLost, CallsOn
<1> QED BY <1>3, <1>4 DEF Inv

-----------------------------------------------------------------------------
(* The last statement of a write, to memcache: it fails, which puts the key *)
(* in doubt, or the entry of a call that is alone becomes its row.          *)
LEMMA EntryStep ==
  ASSUME Inv, NEW w \in Workers, pc[w] \in Writes, Goto(w, "idle"), UNCHANGED <<kvstore, key, val, kept>>,
         pc[w] # "insert", memcache' \in Contents,
         \A k \in Keys \ {key[w]} : memcache'[k] = memcache[k],
         Failed(w) \/ (Succeeded(w) /\ (w \in alone => memcache'[key[w]] = kvstore[key[w]]))
  PROVE  Inv'
<1> USE DEF Inv
<1>1. /\ pc'[w] = "idle" /\ \A u \in Workers \ {w} : pc'[u] = pc[u]
      /\ pc' \in [Workers -> {"idle"} \cup Gets \cup Writes]
      /\ key[w] \in Keys /\ pc[w] # "idle"
  BY DEF Goto, TypeOK, Writes
<1>2. /\ alone' = alone \ {w} /\ suspect' \in [Keys -> BOOLEAN]
      /\ \A k \in Keys \ {key[w]} : suspect'[k] = suspect[k]
      /\ ~suspect'[key[w]] => w \in alone /\ memcache'[key[w]] = kvstore[key[w]]
  BY <1>1 DEF Failed, Succeeded, TypeOK, OneWrite
<1>3. TypeOK'
  BY <1>1, <1>2 DEF TypeOK
<1>4. OnlyCall' /\ KnowsRow'
  BY <1>1, <1>2 DEF OnlyCall, KnowsRow, TypeOK
<1>5. OneWrite'
  BY <1>1, <1>2 DEF OneWrite, OnlyCall, TypeOK, Writes
<1>6. NoStaleFill'
  <2> SUFFICES ASSUME NEW k \in Keys, ~suspect'[k], \A u \in CallsOn(k)' : pc'[u] \in Gets
               PROVE  /\ memcache'[k] \in {NoValue, kvstore[k]}
                      /\ \A u \in CallsOn(k)' : pc'[u] = "fill" => val[u] \in {NoValue, kvstore[k]}
    BY DEF NoStaleFill
  <2>1. CASE k = key[w]
    <3>1. CallsOn(k)' = {}
      BY <1>1, <1>2, <2>1 DEF CallsOn, OnlyCall
    <3> QED BY <1>2, <2>1, <3>1
  <2>2. CASE k # key[w]
    BY <1>1, <1>2, <2>2 DEF NoStaleFill, CallsOn
  <2> QED BY <2>1, <2>2
<1>7. SetsValue' /\ SetNotLost'
  BY <1>1 DEF SetsValue, SetNotLost, CallsOn
<1> QED BY <1>3, <1>4, <1>5, <1>6, <1>7

(* memcacheProxy.set at the end of longTermCacheSet. *)
LEMMA StoreInv == ASSUME Inv, NEW w \in Workers, Store(w) PROVE Inv'
<1>1. /\ pc[w] = "store" /\ Goto(w, "idle") /\ UNCHANGED <<kvstore, key, val, kept>>
      /\ pc[w] \in Writes /\ key[w] \in Keys
  BY DEF Store, Writes, Inv, TypeOK
<1>2. /\ memcache' \in Contents /\ \A k \in Keys \ {key[w]} : memcache'[k] = memcache[k]
      /\ Failed(w) \/ (Succeeded(w) /\ (w \in alone => memcache'[key[w]] = kvstore[key[w]]))
  <2>1. CASE memcache' = EntrySet(w) /\ Succeeded(w)
    <3>1. /\ memcache' \in Contents /\ \A k \in Keys \ {key[w]} : memcache'[k] = memcache[k]
          /\ w \in alone => memcache'[key[w]] = kvstore[key[w]]
      BY <1>1, <2>1 DEF EntrySet, Inv, TypeOK, Contents, KnowsRow
    <3> QED BY <2>1, <3>1, Zenon
  <2>2. CASE UNCHANGED memcache /\ Failed(w)
    <3>1. memcache' \in Contents /\ \A k \in Keys \ {key[w]} : memcache'[k] = memcache[k]
      BY <2>2 DEF Inv, TypeOK
    <3> QED BY <2>2, <3>1, Zenon
  <2> QED BY <2>1, <2>2 DEF Store
<1> QED BY <1>1, <1>2, EntryStep

(* memcacheProxy.remove at the end of longTermCacheDelete. *)
LEMMA ForgetInv == ASSUME Inv, NEW w \in Workers, Forget(w) PROVE Inv'
<1>1. /\ pc[w] = "forget" /\ Goto(w, "idle") /\ UNCHANGED <<kvstore, key, val, kept>>
      /\ pc[w] \in Writes /\ key[w] \in Keys
  BY DEF Forget, Writes, Inv, TypeOK
<1>2. /\ memcache' \in Contents /\ \A k \in Keys \ {key[w]} : memcache'[k] = memcache[k]
      /\ Failed(w) \/ (Succeeded(w) /\ (w \in alone => memcache'[key[w]] = kvstore[key[w]]))
  <2>1. CASE memcache' = [memcache EXCEPT ![key[w]] = NoValue] /\ Succeeded(w)
    <3>1. /\ memcache' \in Contents /\ \A k \in Keys \ {key[w]} : memcache'[k] = memcache[k]
          /\ w \in alone => memcache'[key[w]] = kvstore[key[w]]
      BY <1>1, <2>1 DEF Inv, TypeOK, Contents, KnowsRow
    <3> QED BY <2>1, <3>1, Zenon
  <2>2. CASE UNCHANGED memcache /\ Failed(w)
    <3>1. memcache' \in Contents /\ \A k \in Keys \ {key[w]} : memcache'[k] = memcache[k]
      BY <2>2 DEF Inv, TypeOK
    <3> QED BY <2>2, <3>1, Zenon
  <2> QED BY <2>1, <2>2 DEF Forget
<1> QED BY <1>1, <1>2, EntryStep

-----------------------------------------------------------------------------
(* Rows that go behind the back of memcache put a key in doubt, unless it   *)
(* has no entry and no call.                                                *)
LEMMA RowsGoneInv == ASSUME Inv, NEW gone \in SUBSET Keys, RowsGone(gone) PROVE Inv'
<1> USE DEF RowsGone, Inv
<1>1. TypeOK'
  BY DEF TypeOK, Contents
<1>2. \A k \in Keys : CallsOn(k)' = CallsOn(k)
  BY DEF CallsOn
<1>3. \A k \in Keys : /\ k \in gone => kvstore'[k] = NoValue /\ ~kept'[k]
                      /\ k \notin gone =>
                           kvstore'[k] = kvstore[k] /\ kept'[k] = kept[k] /\ suspect'[k] = suspect[k]
                      /\ suspect[k] => suspect'[k]
                      /\ k \in gone /\ ~suspect'[k] => memcache[k] = NoValue /\ CallsOn(k) = {}
  BY DEF TypeOK
<1>4. OnlyCall'
  BY DEF OnlyCall
<1>5. KnowsRow'
  <2> SUFFICES ASSUME NEW w \in alone'
               PROVE  /\ pc[w] = "fill" => val[w] \in {NoValue, kvstore'[key[w]]}
                      /\ pc[w] = "store" => kvstore'[key[w]] = val[w]
                      /\ pc[w] \in {"insert", "forget"} => kvstore'[key[w]] = NoValue
    BY DEF KnowsRow
  <2>1. w \in alone /\ key[w] \in Keys /\ key[w] \notin gone
    BY DEF TypeOK
  <2> QED BY <1>3, <2>1 DEF KnowsRow
<1>6. OneWrite'
  <2> SUFFICES ASSUME NEW w \in Workers, pc[w] \in Writes, ~suspect'[key[w]] PROVE w \in alone'
    BY DEF OneWrite
  <2>1. key[w] \in Keys /\ key[w] \notin gone /\ ~suspect[key[w]]
    BY <1>3 DEF TypeOK, CallsOn, Writes
  <2> QED BY <2>1 DEF OneWrite
<1>7. NoStaleFill'
  <2> SUFFICES ASSUME NEW k \in Keys, ~suspect'[k], \A u \in CallsOn(k) : pc[u] \in Gets
               PROVE  /\ memcache[k] \in {NoValue, kvstore'[k]}
                      /\ \A u \in CallsOn(k) : pc[u] = "fill" => val[u] \in {NoValue, kvstore'[k]}
    BY <1>2 DEF NoStaleFill
  <2>1. CASE k \in gone
    BY <1>3, <2>1
  <2>2. CASE k \notin gone
    BY <1>3, <2>2 DEF NoStaleFill
  <2> QED BY <2>1, <2>2
<1>8. SetsValue'
  BY DEF SetsValue
<1>9. SetNotLost'
  <2> SUFFICES ASSUME NEW k \in Keys, kept'[k], kvstore'[k] = NoValue
               PROVE  \E w \in CallsOn(k)' : pc'[w] = "insert"
    BY DEF SetNotLost
  <2>1. k \notin gone /\ kvstore[k] = NoValue /\ kept[k]
    BY <1>3
  <2>2. PICK w \in CallsOn(k) : pc[w] = "insert"
    BY <2>1 DEF SetNotLost
  <2> QED BY <1>2, <2>2
<1> QED BY <1>1, <1>4, <1>5, <1>6, <1>7, <1>8, <1>9

(* An entry that memcached drops is not stale any more. *)
LEMMA ExpireInv == ASSUME Inv, NEW k \in Keys, Expire(k) PROVE Inv'
<1> USE DEF Expire, Inv
<1>1. TypeOK'
  BY DEF TypeOK, Contents
<1>2. \A e \in Keys : CallsOn(e)' = CallsOn(e)
  BY DEF CallsOn
<1>3. /\ memcache'[k] = NoValue /\ \A e \in Keys \ {k} : memcache'[e] = memcache[e] /\ suspect'[e] = suspect[e]
      /\ CallsOn(k) # {} => suspect'[k] = suspect[k]
  BY DEF TypeOK, Contents
<1>4. OnlyCall' /\ KnowsRow' /\ SetsValue'
  BY DEF OnlyCall, KnowsRow, SetsValue
<1>5. OneWrite'
  BY <1>3 DEF OneWrite, CallsOn, TypeOK, Writes
<1>6. NoStaleFill'
  BY <1>2, <1>3 DEF NoStaleFill
<1>7. SetNotLost'
  BY <1>2 DEF SetNotLost
<1> QED BY <1>1, <1>4, <1>5, <1>6, <1>7

(* An entry that another site overwrites is in doubt from then on. *)
LEMMA ForeignSetInv == ASSUME Inv, NEW k \in Keys, NEW v \in Values, ForeignSet(k, v) PROVE Inv'
<1> USE DEF ForeignSet, Inv
<1>1. TypeOK'
  BY DEF TypeOK, Contents
<1>2. \A e \in Keys : CallsOn(e)' = CallsOn(e)
  BY DEF CallsOn
<1>3. suspect'[k] /\ \A e \in Keys \ {k} : memcache'[e] = memcache[e] /\ suspect'[e] = suspect[e]
  BY DEF TypeOK, Contents
<1>4. OnlyCall' /\ KnowsRow' /\ SetsValue'
  BY DEF OnlyCall, KnowsRow, SetsValue
<1>5. OneWrite'
  BY <1>3 DEF OneWrite, TypeOK
<1>6. NoStaleFill'
  BY <1>2, <1>3 DEF NoStaleFill
<1>7. SetNotLost'
  BY <1>2 DEF SetNotLost
<1> QED BY <1>1, <1>4, <1>5, <1>6, <1>7

(* Nothing changes. *)
LEMMA StutterInv == ASSUME Inv, UNCHANGED vars PROVE Inv'
BY DEF vars, Inv, TypeOK, OnlyCall, KnowsRow, OneWrite, NoStaleFill, SetsValue, SetNotLost, CallsOn

(* Every step of the workers, of the sweeper and of memcached. *)
LEMMA StepInv == ASSUME Inv, [Next]_vars PROVE Inv'
<1>1. CASE UNCHANGED vars
  BY <1>1, StutterInv
<1>2. ASSUME NEW w \in Workers, NEW k \in Keys, Get(w, k) \/ Delete(w, k) PROVE Inv'
  BY <1>2, BeginInv DEF Get, Delete
<1>3. ASSUME NEW w \in Workers, NEW k \in Keys, NEW v \in Values, Set(w, k, v) PROVE Inv'
  BY <1>3, BeginInv, CacheAssumption DEF Set
<1>4. ASSUME NEW w \in Workers, Step(w) PROVE Inv'
  BY <1>4, ProbeInv, SelectInv, FillInv, DeleteRowInv, InsertRowInv, StoreInv, DropRowInv, ForgetInv DEF Step
<1>5. CASE Empty \/ SweeperInfo
  BY <1>5, RowsGoneInv DEF Empty, SweeperInfo
<1>6. ASSUME NEW k \in Keys, Expire(k) \/ \E v \in Values : ForeignSet(k, v) PROVE Inv'
  BY <1>6, ExpireInv, ForeignSetInv
<1> QED BY <1>1, <1>2, <1>3, <1>4, <1>5, <1>6 DEF Next

(* The long term cache keeps Inv, whatever fails or overlaps. *)
THEOREM LongTermInvariant == Spec => []Inv
BY InitInv, StepInv, PTL DEF Spec

(* An entry of memcache differs from its row only where calls on the key    *)
(* overlapped, a statement failed, rows went behind memcache's back, or     *)
(* the one site with the same keys overwrote it.                            *)
THEOREM EntriesMatchRows == Spec => []Coherent
<1>1. Inv => Coherent
  BY DEF Inv, Coherent, NoStaleFill
<1> QED BY <1>1, LongTermInvariant, PTL

(* longTermCacheSet calls that overlap do not lose the key between them. *)
THEOREM SetsKeepKey == Spec => []SetNotLost
<1>1. Inv => SetNotLost
  BY DEF Inv
<1> QED BY <1>1, LongTermInvariant, PTL

-----------------------------------------------------------------------------
(* What is stored is in its row, and no call on the session is under way. *)
StoredStays == \A s \in Subdomains, i \in Ids : stored[<<s, i>>] # NoValue =>
  /\ sessionData[i] = Sessions!Row(s, stored[<<s, i>>])
  /\ Sessions!CallsOn(<<s, i>>) = {}

(* Whose entry a full key made of this name and key may hold: that of the   *)
(* site of this name, or a long term one of the site it is made from.       *)
Owner(n, k, e) == \/ e = NoValue
                  \/ n \in Subdomains /\ e = <<"short", n, k>>
                  \/ \E s \in Subdomains : n = Sessions!LongTermName(s) /\ e = <<"long", s, k>>

OwnEntries == \A n \in Sessions!Names, k \in ShortKeys :
  Owner(n, k, entries[Sessions!FullKey(n, k)])

SessionInv == Sessions!TypeOK /\ StoredStays /\ OwnEntries

-----------------------------------------------------------------------------
(* What texts are made of. *)
Chars == STRING \cup {"VaedbProxy:", ":", "L", "o", "n", "g", "T", "e", "r", "m", "2"}

(* What stands where in the key that the handler gives to memcache. *)
LEMMA FullKeyElements ==
  ASSUME NEW s \in Seq(Chars), NEW k \in Seq(Chars)
  PROVE  /\ Len(Sessions!FullKey(s, k)) = Len(s) + Len(k) + 2
         /\ \A n \in 1 .. Len(s) : Sessions!FullKey(s, k)[n + 1] = s[n]
         /\ Sessions!FullKey(s, k)[Len(s) + 2] = ":"
         /\ \A n \in 1 .. Len(k) : Sessions!FullKey(s, k)[Len(s) + 2 + n] = k[n]
<1> DEFINE a == <<"VaedbProxy:">> \o s
           b == a \o <<":">>
<1>1. Len(s) \in Nat /\ Len(k) \in Nat
  OBVIOUS
<1>2. <<"VaedbProxy:">> \in Seq(Chars) /\ <<":">> \in Seq(Chars)
  <2>1. "VaedbProxy:" \in Chars /\ ":" \in Chars
    BY DEF Chars
  <2> QED BY <2>1
<1>3. /\ a \in Seq(Chars) /\ Len(a) = Len(s) + 1
      /\ \A n \in 1 .. Len(s) : a[n + 1] = s[n]
  BY <1>1, <1>2, ConcatProperties
<1>4. /\ b \in Seq(Chars) /\ Len(b) = Len(s) + 2
      /\ \A n \in 1 .. Len(s) : b[n + 1] = a[n + 1]
      /\ b[Len(s) + 2] = ":"
  <2> HIDE DEF a
  <2> QED BY <1>1, <1>2, <1>3, ConcatProperties
<1>5. /\ Len(b \o k) = Len(s) + Len(k) + 2
      /\ \A n \in 1 .. Len(s) + 2 : (b \o k)[n] = b[n]
      /\ \A n \in 1 .. Len(k) : (b \o k)[Len(s) + 2 + n] = k[n]
  <2> HIDE DEF b
  <2>1. /\ Len(b \o k) = Len(b) + Len(k)
        /\ \A n \in 1 .. Len(b) + Len(k) : (b \o k)[n] = IF n <= Len(b) THEN b[n] ELSE k[n - Len(b)]
    BY <1>2, <1>4, ConcatProperties
  <2>2. \A n \in 1 .. Len(s) + 2 : n \in 1 .. Len(b) + Len(k) /\ n <= Len(b)
    BY <1>1, <1>4
  <2>3. \A n \in 1 .. Len(k) : /\ Len(s) + 2 + n \in 1 .. Len(b) + Len(k) /\ ~(Len(s) + 2 + n <= Len(b))
                               /\ (Len(s) + 2 + n) - Len(b) = n
    BY <1>1, <1>4
  <2>4. Len(b \o k) = Len(s) + Len(k) + 2
    BY <1>1, <1>4, <2>1
  <2> QED BY <2>1, <2>2, <2>3, <2>4
<1>6. Sessions!FullKey(s, k) = b \o k
  BY DEF Sessions!FullKey
<1> HIDE DEF a, b
<1> QED BY <1>1, <1>3, <1>4, <1>5, <1>6

(* What the handler puts behind a subdomain has no colon either, and it can *)
(* be taken off again in one way only.                                      *)
LEMMA LongTermNames ==
  ASSUME NEW s \in Seq(Chars)
  PROVE  /\ Sessions!LongTermName(s) \in Seq(Chars)
         /\ (\A n \in 1 .. Len(s) : s[n] # ":") =>
              \A n \in 1 .. Len(Sessions!LongTermName(s)) : Sessions!LongTermName(s)[n] # ":"
         /\ Len(Sessions!LongTermName(s)) = Len(s) + 9
         /\ \A n \in 1 .. Len(s) : Sessions!LongTermName(s)[n] = s[n]
<1> DEFINE L == <<"L", "o", "n", "g", "T", "e", "r", "m", "2">>
<1>1. L \in Seq(Chars) /\ Len(L) = 9 /\ Len(s) \in Nat
  <2>1. /\ "L" \in Chars /\ "o" \in Chars /\ "n" \in Chars /\ "g" \in Chars /\ "T" \in Chars
        /\ "e" \in Chars /\ "r" \in Chars /\ "m" \in Chars /\ "2" \in Chars
    BY DEF Chars
  <2> QED BY <2>1
<1>2. \A n \in 1 .. 9 : L[n] # ":"
  OBVIOUS
<1>3. Sessions!LongTermName(s) = s \o L
  BY DEF Sessions!LongTermName
<1> HIDE DEF L
<1>4. /\ s \o L \in Seq(Chars) /\ Len(s \o L) = Len(s) + 9
      /\ \A n \in 1 .. Len(s) + 9 : (s \o L)[n] = IF n <= Len(s) THEN s[n] ELSE L[n - Len(s)]
  <2>1. /\ s \o L \in Seq(Chars) /\ Len(s \o L) = Len(s) + Len(L)
        /\ \A n \in 1 .. Len(s) + Len(L) : (s \o L)[n] = IF n <= Len(s) THEN s[n] ELSE L[n - Len(s)]
    BY <1>1, ConcatProperties
  <2> QED BY <1>1, <2>1
<1>5. ASSUME \A n \in 1 .. Len(s) : s[n] # ":", NEW n \in 1 .. Len(s) + 9 PROVE (s \o L)[n] # ":"
  <2>1. CASE n <= Len(s)
    BY <1>1, <1>4, <1>5, <2>1
  <2>2. CASE ~(n <= Len(s))
    <3>1. n - Len(s) \in 1 .. 9
      BY <1>1, <2>2
    <3> QED BY <1>2, <1>4, <2>2, <3>1
  <2> QED BY <2>1, <2>2
<1>6. \A n \in 1 .. Len(s) : (s \o L)[n] = s[n]
  BY <1>1, <1>4
<1> QED BY <1>3, <1>4, <1>5, <1>6

(* Names and keys are texts, and there is no colon in a name. *)
LEMMA NameFacts ==
  /\ \A n \in Sessions!Names : n \in Seq(Chars) /\ \A i \in 1 .. Len(n) : n[i] # ":"
  /\ \A k \in ShortKeys : k \in Seq(Chars)
<1>1. /\ \A s \in Subdomains : s \in Seq(STRING) /\ \A n \in 1 .. Len(s) : s[n] # ":"
      /\ \A k \in ShortKeys : k \in Seq(STRING)
  BY SessionAssumption DEF Sessions!SessionCacheAssumption
<1>2. \A t \in Seq(STRING) : t \in Seq(Chars)
  <2>1. STRING \subseteq Chars
    BY DEF Chars
  <2> QED BY <2>1, SeqMonotonic
<1> QED BY <1>1, <1>2, LongTermNames DEF Sessions!Names

(* A long term name is made from one subdomain. *)
LEMMA LongTermNameInjective ==
  ASSUME NEW s \in Subdomains, NEW t \in Subdomains,
         Sessions!LongTermName(s) = Sessions!LongTermName(t)
  PROVE  s = t
<1>1. s \in Seq(Chars) /\ t \in Seq(Chars)
  BY NameFacts DEF Sessions!Names
<1>2. Len(s) = Len(t) /\ Len(s) \in Nat /\ Len(t) \in Nat
  BY <1>1, LongTermNames
<1>3. \A n \in 1 .. Len(s) : s[n] = t[n]
  BY <1>1, <1>2, LongTermNames
<1> QED BY <1>1, <1>2, <1>3, SeqEqual

(* Two names never have a full key in common: the colon behind the name is  *)
(* the first one after the prefix.                                          *)
LEMMA FullKeyInjective ==
  ASSUME NEW s \in Sessions!Names, NEW t \in Sessions!Names, NEW k \in ShortKeys, NEW m \in ShortKeys,
         Sessions!FullKey(s, k) = Sessions!FullKey(t, m)
  PROVE  s = t /\ k = m
<1>1. /\ s \in Seq(Chars) /\ t \in Seq(Chars) /\ k \in Seq(Chars) /\ m \in Seq(Chars)
      /\ \A n \in 1 .. Len(s) : s[n] # ":"
      /\ \A n \in 1 .. Len(t) : t[n] # ":"
  BY NameFacts
<1>2. Len(s) \in Nat /\ Len(t) \in Nat /\ Len(k) \in Nat /\ Len(m) \in Nat
  BY <1>1
<1> DEFINE f == Sessions!FullKey(s, k)
<1>3. /\ Len(f) = Len(s) + Len(k) + 2 /\ f[Len(s) + 2] = ":"
      /\ \A n \in 1 .. Len(s) : f[n + 1] = s[n]
      /\ \A n \in 1 .. Len(k) : f[Len(s) + 2 + n] = k[n]
  BY <1>1, FullKeyElements
<1>4. /\ Len(f) = Len(t) + Len(m) + 2 /\ f[Len(t) + 2] = ":"
      /\ \A n \in 1 .. Len(t) : f[n + 1] = t[n]
      /\ \A n \in 1 .. Len(m) : f[Len(t) + 2 + n] = m[n]
  <2>1. f = Sessions!FullKey(t, m)
    OBVIOUS
  <2> HIDE DEF f
  <2> QED BY <1>1, <2>1, FullKeyElements
<1> HIDE DEF f
<1>5. ~(Len(s) < Len(t))
  <2> SUFFICES ASSUME Len(s) < Len(t) PROVE FALSE
    OBVIOUS
  <2>1. Len(s) + 1 \in 1 .. Len(t) /\ (Len(s) + 1) + 1 = Len(s) + 2
    BY <1>2
  <2>2. f[(Len(s) + 1) + 1] = t[Len(s) + 1]
    BY <1>4, <2>1
  <2>3. t[Len(s) + 1] # ":"
    BY <1>1, <2>1
  <2>4. f[(Len(s) + 1) + 1] = ":"
    BY <1>3, <2>1
  <2> QED BY <2>2, <2>3, <2>4
<1>6. ~(Len(t) < Len(s))
  <2> SUFFICES ASSUME Len(t) < Len(s) PROVE FALSE
    OBVIOUS
  <2>1. Len(t) + 1 \in 1 .. Len(s) /\ (Len(t) + 1) + 1 = Len(t) + 2
    BY <1>2
  <2>2. f[(Len(t) + 1) + 1] = s[Len(t) + 1]
    BY <1>3, <2>1
  <2>3. s[Len(t) + 1] # ":"
    BY <1>1, <2>1
  <2>4. f[(Len(t) + 1) + 1] = ":"
    BY <1>4, <2>1
  <2> QED BY <2>2, <2>3, <2>4
<1>7. Len(s) = Len(t) /\ Len(k) = Len(m)
  BY <1>2, <1>3, <1>4, <1>5, <1>6
<1>8. s = t
  BY <1>1, <1>3, <1>4, <1>7, SeqEqual
<1>9. k = m
  BY <1>1, <1>3, <1>4, <1>7, SeqEqual
<1> QED BY <1>8, <1>9

-----------------------------------------------------------------------------
(* No session is stored and no entry is there. *)
LEMMA SessionInit == Sessions!Init => SessionInv
<1> SUFFICES ASSUME Sessions!Init PROVE SessionInv
  OBVIOUS
<1>1. Sessions!TypeOK
  BY DEF Sessions!Init, Sessions!TypeOK
<1>2. StoredStays /\ OwnEntries
  BY DEF Sessions!Init, StoredStays, OwnEntries, Owner, Sessions!FullKeys
<1> QED BY <1>1, <1>2 DEF SessionInv

(* A set or delete begins: what its session had stored does not count any   *)
(* more.                                                                    *)
LEMMA SessionBegin ==
  ASSUME SessionInv, NEW w \in Workers, NEW s \in Subdomains, NEW i \in Ids, NEW v \in Values,
         NEW l \in {"delete", "drop"}, Sessions!Begin(w, s, i, v, l)
  PROVE  SessionInv'
<1> USE DEF Sessions!Begin, SessionInv
<1>1. Sessions!TypeOK'
  BY DEF Sessions!TypeOK
<1>2. \A t \in Subdomains, j \in Ids :
        /\ <<t, j>> = <<s, i>> => stored'[<<t, j>>] = NoValue
        /\ <<t, j>> # <<s, i>> => /\ stored'[<<t, j>>] = stored[<<t, j>>]
                                  /\ Sessions!CallsOn(<<t, j>>)' \subseteq Sessions!CallsOn(<<t, j>>)
  BY DEF Sessions!TypeOK, Sessions!CallsOn, Sessions!Mine
<1>3. StoredStays'
  BY <1>2, ZenonT(60) DEF StoredStays, Sessions!Row
<1>4. OwnEntries'
  BY DEF OwnEntries
<1> QED BY <1>1, <1>3, <1>4

(* A row that an INSERT writes is not the absence of one. *)
LEMMA RowIsThere == ASSUME NEW s \in Subdomains, NEW v \in Values PROVE Sessions!Row(s, v) # NoRow
<1>1. Sessions!Row(s, v) \in Sessions!Rows
  BY DEF Sessions!Row, Sessions!Rows
<1>2. NoRow \notin Sessions!Rows
  BY SessionAssumption DEF Sessions!SessionCacheAssumption
<1> QED BY <1>1, <1>2

(* What is stored for a session is not touched by a statement that a call   *)
(* on another session or another site makes.                                *)
LEMMA OthersKeepRow ==
  ASSUME SessionInv, NEW w \in Workers, at[w] # "idle",
         NEW s \in Subdomains, NEW i \in Ids, stored[<<s, i>>] # NoValue
  PROVE  /\ Sessions!Mine(w) # <<s, i>>
         /\ sessionData[i] # NoRow
         /\ Sessions!Without(sub[w], id[w])[i] = sessionData[i]
<1> USE DEF SessionInv
<1>1. Sessions!Mine(w) # <<s, i>> /\ sub[w] \in Subdomains /\ id[w] \in Ids
  BY DEF StoredStays, Sessions!CallsOn, Sessions!TypeOK
<1>2. sessionData[i] = Sessions!Row(s, stored[<<s, i>>]) /\ sessionData[i].subdomain = s
  BY DEF StoredStays, Sessions!Row
<1>3. sessionData[i] # NoRow
  <2>1. stored[<<s, i>>] \in Values
    BY DEF Sessions!TypeOK
  <2> QED BY <1>2, <2>1, RowIsThere
<1>4. Sessions!Without(sub[w], id[w])[i] = sessionData[i]
  <2>1. CASE id[w] = i
    BY <1>1, <1>2, <2>1 DEF Sessions!Without, Sessions!Matches, Sessions!Mine
  <2>2. CASE id[w] # i
    BY <1>1, <2>2 DEF Sessions!Without, Sessions!TypeOK
  <2> QED BY <2>1, <2>2
<1> QED BY <1>1, <1>3, <1>4

(* Without keeps the table in its type. *)
LEMMA WithoutType ==
  ASSUME SessionInv, NEW w \in Workers
  PROVE  Sessions!Without(sub[w], id[w]) \in [Ids -> Sessions!Rows \cup {NoRow}]
BY DEF SessionInv, Sessions!TypeOK, Sessions!Without

(* The DELETE of a set, and the one statement of a delete. *)
LEMMA SessionDelete ==
  ASSUME SessionInv, NEW w \in Workers, Sessions!DeleteRow(w) \/ Sessions!DropRow(w)
  PROVE  SessionInv'
<1> USE DEF SessionInv
<1>1. /\ at[w] # "idle" /\ UNCHANGED <<entries, sub, id, sent, stored>>
      /\ sessionData' \in {sessionData, Sessions!Without(sub[w], id[w])}
      /\ at' \in [Workers -> {"idle", "delete", "insert", "drop"}]
      /\ undisturbed' \subseteq Workers
      /\ \A u \in Workers : at[u] = "idle" => at'[u] = "idle"
  BY DEF Sessions!DeleteRow, Sessions!DropRow, Sessions!TypeOK
<1>2. Sessions!TypeOK'
  BY <1>1, WithoutType DEF Sessions!TypeOK
<1>3. StoredStays'
  <2> SUFFICES ASSUME NEW s \in Subdomains, NEW i \in Ids, stored[<<s, i>>] # NoValue
               PROVE  /\ sessionData'[i] = Sessions!Row(s, stored[<<s, i>>])
                      /\ Sessions!CallsOn(<<s, i>>)' = {}
    BY <1>1 DEF StoredStays, Sessions!Row
  <2>1. sessionData'[i] = sessionData[i]
    BY <1>1, OthersKeepRow
  <2>2. Sessions!CallsOn(<<s, i>>)' \subseteq Sessions!CallsOn(<<s, i>>)
    BY <1>1 DEF Sessions!CallsOn, Sessions!Mine
  <2> QED BY <2>1, <2>2 DEF StoredStays
<1>4. OwnEntries'
  BY <1>1 DEF OwnEntries
<1> QED BY <1>2, <1>3, <1>4

(* The INSERT, which another site's row with the same id makes fail. *)
LEMMA SessionInsert == ASSUME SessionInv, NEW w \in Workers, Sessions!InsertRow(w) PROVE SessionInv'
<1> USE DEF SessionInv
<1> DEFINE row == Sessions!Row(sub[w], sent[w])
           inserted == [sessionData EXCEPT ![id[w]] = row]
<1>1. /\ at[w] = "insert" /\ at' = [at EXCEPT ![w] = "idle"] /\ UNCHANGED <<entries, sub, id, sent>>
      /\ sub[w] \in Subdomains /\ id[w] \in Ids /\ sent[w] \in Values
  BY DEF Sessions!InsertRow, Sessions!TypeOK
<1>2. /\ sessionData' \in {sessionData, inserted}
      /\ sessionData' # sessionData => sessionData[id[w]] = NoRow
      /\ undisturbed' \subseteq Workers
      /\ \/ UNCHANGED stored
         \/ /\ sessionData' = inserted /\ sessionData[id[w]] = NoRow
            /\ \E v \in {NoValue, sent[w]} : stored' = [stored EXCEPT ![Sessions!Mine(w)] = v]
            /\ stored'[Sessions!Mine(w)] # NoValue => Sessions!CallsOn(Sessions!Mine(w)) = {w}
  BY <1>1 DEF Sessions!InsertRow, Sessions!TypeOK, Sessions!Mine
<1>3. row \in Sessions!Rows
  BY <1>1 DEF Sessions!Row, Sessions!Rows
<1>4. Sessions!TypeOK'
  <2>1. sessionData' \in [Ids -> Sessions!Rows \cup {NoRow}]
    BY <1>2, <1>3 DEF Sessions!TypeOK
  <2>2. stored' \in [Subdomains \X Ids -> Values \cup {NoValue}]
    BY <1>1, <1>2 DEF Sessions!TypeOK, Sessions!Mine
  <2> QED BY <1>1, <1>2, <2>1, <2>2 DEF Sessions!TypeOK
<1>5. \A p : Sessions!CallsOn(p)' = Sessions!CallsOn(p) \ {w}
  BY <1>1 DEF Sessions!CallsOn, Sessions!Mine, Sessions!TypeOK
<1>6. StoredStays'
  <2> SUFFICES ASSUME NEW s \in Subdomains, NEW i \in Ids, stored'[<<s, i>>] # NoValue
               PROVE  /\ sessionData'[i] = Sessions!Row(s, stored'[<<s, i>>])
                      /\ Sessions!CallsOn(<<s, i>>)' = {}
    BY DEF StoredStays, Sessions!Row
  <2>1. CASE stored[<<s, i>>] = stored'[<<s, i>>]
    <3>1. sessionData[i] = Sessions!Row(s, stored[<<s, i>>]) /\ Sessions!CallsOn(<<s, i>>) = {}
      BY <2>1 DEF StoredStays
    <3>2. sessionData[i] # NoRow
      BY <1>1, <2>1, OthersKeepRow
    <3>3. sessionData'[i] = sessionData[i]
      BY <1>1, <1>2, <3>2 DEF Sessions!TypeOK
    <3> QED BY <1>5, <2>1, <3>1, <3>3
  <2>2. CASE stored[<<s, i>>] # stored'[<<s, i>>]
    <3>1. <<s, i>> = Sessions!Mine(w) /\ sessionData' = inserted
      BY <1>1, <1>2, <2>2 DEF Sessions!TypeOK, Sessions!Mine
    <3>2. s = sub[w] /\ i = id[w] /\ stored'[<<s, i>>] = sent[w]
      BY <1>1, <1>2, <2>2, <3>1 DEF Sessions!TypeOK, Sessions!Mine
    <3>3. sessionData'[i] = row
      BY <1>1, <3>1, <3>2 DEF Sessions!TypeOK
    <3> QED BY <1>2, <1>5, <2>2, <3>1, <3>2, <3>3
  <2> QED BY <2>1, <2>2
<1>7. OwnEntries'
  BY <1>1 DEF OwnEntries
<1> QED BY <1>4, <1>6, <1>7

(* A row that gets old, and the Reaper that deletes the old ones. *)
LEMMA SessionAges ==
  ASSUME SessionInv, Sessions!GarbageCollect \/ \E i \in Ids : Sessions!TwoDaysPass(i)
  PROVE  SessionInv'
<1> USE DEF SessionInv
<1>1. CASE Sessions!GarbageCollect
  <2> USE <1>1 DEF Sessions!GarbageCollect
  <2>1. Sessions!TypeOK' /\ OwnEntries'
    BY DEF Sessions!TypeOK, OwnEntries
  <2>2. StoredStays'
    BY DEF StoredStays, Sessions!Row, Sessions!Expired, Sessions!CallsOn, Sessions!Mine
  <2> QED BY <2>1, <2>2
<1>2. ASSUME NEW i \in Ids, Sessions!TwoDaysPass(i) PROVE SessionInv'
  <2> USE <1>2 DEF Sessions!TwoDaysPass
  <2>1. sessionData[i] \in Sessions!Rows
    BY DEF Sessions!TypeOK
  <2>2. Sessions!TypeOK' /\ OwnEntries'
    BY <2>1 DEF Sessions!TypeOK, OwnEntries, Sessions!Rows
  <2>3. StoredStays'
    <3> SUFFICES ASSUME NEW s \in Subdomains, NEW j \in Ids, stored'[<<s, j>>] # NoValue
                 PROVE  /\ sessionData'[j] = Sessions!Row(s, stored'[<<s, j>>])
                        /\ Sessions!CallsOn(<<s, j>>)' = {}
      BY DEF StoredStays, Sessions!Row
    <3>1. stored'[<<s, j>>] = stored[<<s, j>>] /\ <<s, j>> # <<sessionData[i].subdomain, i>>
      BY <2>1 DEF Sessions!TypeOK, Sessions!Rows
    <3>2. sessionData[j] = Sessions!Row(s, stored[<<s, j>>]) /\ Sessions!CallsOn(<<s, j>>) = {}
      BY <3>1 DEF StoredStays
    <3>3. i # j
      BY <3>1, <3>2 DEF Sessions!Row
    <3>4. sessionData'[j] = sessionData[j]
      BY <3>3 DEF Sessions!TypeOK
    <3> QED BY <3>1, <3>2, <3>4 DEF Sessions!CallsOn, Sessions!Mine
  <2> QED BY <2>2, <2>3
<1> QED BY <1>1, <1>2

(* One command to memcache changes one entry, to one of its owners'. *)
LEMMA EntryInv ==
  ASSUME SessionInv, NEW n \in Sessions!Names, NEW k \in ShortKeys, NEW e \in Sessions!Entries \cup {NoValue},
         Owner(n, k, e), entries' = [entries EXCEPT ![Sessions!FullKey(n, k)] = e],
         UNCHANGED <<sessionData, at, sub, id, sent, undisturbed, stored>>
  PROVE  SessionInv'
<1> USE DEF SessionInv
<1>1. \A t \in Sessions!Names, m \in ShortKeys : Sessions!FullKey(t, m) \in Sessions!FullKeys
  BY DEF Sessions!FullKeys
<1>2. Sessions!TypeOK'
  BY <1>1 DEF Sessions!TypeOK
<1>3. StoredStays'
  BY DEF StoredStays, Sessions!Row, Sessions!CallsOn, Sessions!Mine
<1>4. ASSUME NEW t \in Sessions!Names, NEW m \in ShortKeys
      PROVE  Owner(t, m, entries'[Sessions!FullKey(t, m)])
  <2>1. CASE Sessions!FullKey(t, m) = Sessions!FullKey(n, k)
    <3>1. t = n /\ m = k
      BY <2>1, FullKeyInjective
    <3>2. entries'[Sessions!FullKey(t, m)] = e
      BY <1>1, <2>1 DEF Sessions!TypeOK
    <3> QED BY <3>1, <3>2
  <2>2. CASE Sessions!FullKey(t, m) # Sessions!FullKey(n, k)
    <3>1. entries'[Sessions!FullKey(t, m)] = entries[Sessions!FullKey(t, m)]
      BY <1>1, <2>2 DEF Sessions!TypeOK
    <3>2. Owner(t, m, entries[Sessions!FullKey(t, m)])
      BY DEF OwnEntries
    <3> QED BY <3>1, <3>2
  <2> QED BY <2>1, <2>2
<1>5. OwnEntries'
  BY <1>4 DEF OwnEntries, Owner, Sessions!FullKey, Sessions!Names
<1> QED BY <1>2, <1>3, <1>5

(* The commands of shortTermCacheSet and shortTermCacheDelete. *)
LEMMA ShortTermInv ==
  ASSUME SessionInv, NEW s \in Subdomains, NEW k \in ShortKeys,
         Sessions!ShortTermCacheSet(s, k) \/ Sessions!ShortTermCacheDelete(s, k)
  PROVE  SessionInv'
<1>1. PICK e \in {<<"short", s, k>>, NoValue} : entries' = [entries EXCEPT ![Sessions!FullKey(s, k)] = e]
  BY DEF Sessions!ShortTermCacheSet, Sessions!ShortTermCacheDelete
<1>2. UNCHANGED <<sessionData, at, sub, id, sent, undisturbed, stored>>
  BY DEF Sessions!ShortTermCacheSet, Sessions!ShortTermCacheDelete
<1>3. s \in Sessions!Names /\ e \in Sessions!Entries \cup {NoValue} /\ Owner(s, k, e)
  BY DEF Sessions!Names, Sessions!Entries, Owner
<1> QED BY <1>1, <1>2, <1>3, EntryInv

(* Those of the long term cache. *)
LEMMA LongTermInv ==
  ASSUME SessionInv, NEW s \in Subdomains, NEW k \in ShortKeys,
         Sessions!LongTermCacheStore(s, k) \/ Sessions!LongTermCacheForget(s, k)
  PROVE  SessionInv'
<1> DEFINE n == Sessions!LongTermName(s)
<1>1. PICK e \in {<<"long", s, k>>, NoValue} : entries' = [entries EXCEPT ![Sessions!FullKey(n, k)] = e]
  BY DEF Sessions!LongTermCacheStore, Sessions!LongTermCacheForget, Sessions!LongTermKey
<1>2. UNCHANGED <<sessionData, at, sub, id, sent, undisturbed, stored>>
  BY DEF Sessions!LongTermCacheStore, Sessions!LongTermCacheForget
<1>3. n \in Sessions!Names /\ e \in Sessions!Entries \cup {NoValue} /\ Owner(n, k, e)
  BY DEF Sessions!Names, Sessions!Entries, Owner
<1> QED BY <1>1, <1>2, <1>3, EntryInv

(* Every step of the calls, of time, of the Reaper and of memcached. *)
LEMMA SessionStep == ASSUME SessionInv, [Sessions!Next]_(Sessions!vars) PROVE SessionInv'
<1>1. CASE UNCHANGED Sessions!vars
  BY <1>1 DEF Sessions!vars, SessionInv, Sessions!TypeOK, StoredStays, OwnEntries, Sessions!Row,
              Sessions!CallsOn, Sessions!Mine
<1>2. ASSUME NEW w \in Workers, NEW s \in Subdomains, NEW i \in Ids, Sessions!Delete(w, s, i)
      PROVE  SessionInv'
  <2>1. sent[w] \in Values
    BY DEF SessionInv, Sessions!TypeOK
  <2> QED BY <1>2, <2>1, SessionBegin DEF Sessions!Delete
<1>3. ASSUME NEW w \in Workers, NEW s \in Subdomains, NEW i \in Ids, NEW v \in Values, Sessions!Set(w, s, i, v)
      PROVE  SessionInv'
  BY <1>3, SessionBegin DEF Sessions!Set
<1>4. ASSUME NEW w \in Workers, Sessions!Step(w) PROVE SessionInv'
  BY <1>4, SessionDelete, SessionInsert DEF Sessions!Step
<1>5. ASSUME NEW s \in Subdomains, NEW k \in ShortKeys,
             \/ Sessions!ShortTermCacheSet(s, k) \/ Sessions!ShortTermCacheDelete(s, k)
             \/ Sessions!LongTermCacheStore(s, k) \/ Sessions!LongTermCacheForget(s, k)
      PROVE  SessionInv'
  BY <1>5, ShortTermInv, LongTermInv
<1> QED BY <1>1, <1>2, <1>3, <1>4, <1>5, SessionAges DEF Sessions!Next

(* The session and short term caches keep SessionInv. *)
THEOREM SessionCacheInvariant == Sessions!Spec => []SessionInv
BY SessionInit, SessionStep, PTL DEF Sessions!Spec

(* A site reads what it stored for a session, whatever other sites do with  *)
(* the same id.  In the one key space of memcached the short and the long   *)
(* term caches of any number of sites read entries of their own, but for a  *)
(* site named like another one with "LongTerm2" behind it: those two meet.  *)
THEOREM SitesKeepApart == Sessions!Spec => []SitesApart
<1>1. SessionInv => SitesApart
  <2> SUFFICES ASSUME SessionInv PROVE SitesApart
    OBVIOUS
  <2>1. ASSUME NEW s \in Subdomains, NEW i \in Ids, stored[<<s, i>>] # NoValue
        PROVE  stored[<<s, i>>] \in Sessions!SessionCacheGet(s, i)
    <3>1. sessionData[i] = Sessions!Row(s, stored[<<s, i>>])
      BY <2>1 DEF SessionInv, StoredStays
    <3>2. sessionData[i] # NoRow
      <4>1. stored[<<s, i>>] \in Values
        BY <2>1 DEF SessionInv, Sessions!TypeOK
      <4> QED BY <3>1, <4>1, RowIsThere
    <3> QED BY <3>1, <3>2 DEF Sessions!SessionCacheGet, Sessions!Matches, Sessions!Row
  <2>2. ASSUME NEW s \in Subdomains, NEW k \in ShortKeys, NEW e \in Sessions!ShortTermCacheGet(s, k)
        PROVE  \/ e \in {NoValue, <<"short", s, k>>}
               \/ \E t \in Subdomains : s = Sessions!LongTermName(t) /\ e = <<"long", t, k>>
    <3>1. Owner(s, k, NoValue) /\ Owner(s, k, entries[Sessions!FullKey(s, k)])
      BY DEF SessionInv, OwnEntries, Sessions!Names, Owner
    <3> QED BY <3>1 DEF Sessions!ShortTermCacheGet, Owner
  <2>3. ASSUME NEW s \in Subdomains, NEW k \in ShortKeys, NEW e \in Sessions!LongTermCacheProbe(s, k)
        PROVE  \/ e \in {NoValue, <<"long", s, k>>}
               \/ /\ Sessions!LongTermName(s) \in Subdomains
                  /\ e = <<"short", Sessions!LongTermName(s), k>>
    <3> DEFINE n == Sessions!LongTermName(s)
    <3>1. n \in Sessions!Names
      BY DEF Sessions!Names
    <3>2. Owner(n, k, e)
      BY <3>1 DEF SessionInv, OwnEntries, Owner, Sessions!LongTermCacheProbe, Sessions!LongTermKey
    <3> HIDE DEF n
    <3>3. ASSUME NEW t \in Subdomains, n = Sessions!LongTermName(t) PROVE t = s
      BY <3>3, LongTermNameInjective DEF n
    <3> QED BY <3>2, <3>3 DEF Owner, n
  <2> QED BY <2>1, <2>2, <2>3 DEF SitesApart, Sessions!SitesApart
<1> QED BY <1>1, SessionCacheInvariant, PTL
=============================================================================
