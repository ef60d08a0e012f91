------------------------- MODULE SitewideLockProofs -------------------------
(***************************************************************************)
(* When the sitewide lock excludes, for any number of scripts and           *)
(* subdomains and any times.                                                *)
(*                                                                          *)
(* ExclusiveUnlessOverrun is not inductive.  A row has no owner in the      *)
(* database, so what protects a holder is that its row is still the one in  *)
(* the table (Held), which others' purges and late unlocks must leave       *)
(* alone: an unlock under way does because the row it will delete is still  *)
(* the caller's own (Unlocking), both of them as long as no purge has taken *)
(* a needed row of that site by age.  With the times of the code that never *)
(* happens to a holder: its row is not older than its script (RowYounger)   *)
(* and the script not older than its time limit (Timely).                   *)
(***************************************************************************)
EXTENDS SitewideLock, TLAPS

(* A script that believes it has the lock runs, waits for nothing and,      *)
(* unless its site was overrun, has its row in the table.                   *)
Held == \A s \in Scripts :
  holds[s] => /\ script[s] = "running" /\ call[s] = "none"
              /\ row[site[s]] = s \/ site[s] \in overrun

(* The row an unlock under way will delete is the caller's, unless the site *)
(* was overrun.                                                             *)
Unlocking == \A s \in Scripts :
  call[s] = "unlock" => row[site[s]] = s \/ site[s] \in overrun

(* created_at is not before the start of the script that inserted the row.  *)
RowYounger == \A d \in Subdomains : row[d] # NoScript => rowAge[d] <= scriptAge[row[d]]

(* PHP's timeout, and the delay of a last call. *)
Timely == \A s \in Scripts : /\ script[s] = "running" => scriptAge[s] <= PhpTimeout
                             /\ call[s] # "none" => scriptAge[s] <= PhpTimeout + Delay

Inv == TypeOK /\ Held /\ Unlocking /\ RowYounger /\ Timely

-----------------------------------------------------------------------------
(* Ages are naturals up to a bound that is above all three times. *)
LEMMA AgeFacts == /\ Forever \in Nat /\ Ages \subseteq Nat
                  /\ 0 \in Ages
                  /\ PhpTimeout + Delay < Forever /\ LockTTL < Forever
BY LockAssumption DEF Forever, Ages, Longest

(* No age passes the bound, and ageing keeps the order of two ages. *)
LEMMA OlderFacts == ASSUME NEW x \in Ages, NEW y \in Ages
                    PROVE  /\ Older(x) \in Ages
                           /\ x <= y => Older(x) <= Older(y)
                           /\ x < PhpTimeout => Older(x) <= PhpTimeout
                           /\ x < PhpTimeout + Delay => Older(x) <= PhpTimeout + Delay
BY LockAssumption, AgeFacts DEF Older, Ages

(* An empty table and idle scripts. *)
LEMMA InitInv == Init => Inv
BY LockAssumption, AgeFacts DEF Init, Inv, TypeOK, Held, Unlocking, RowYounger, Timely

(* A slot is used again only when no row of its last script is left. *)
LEMMA BeginInv == ASSUME Inv, NEW s \in Scripts, Begin(s) PROVE Inv'
<1> USE DEF Begin, Inv
<1>1. TypeOK' /\ Held' /\ Unlocking'
  BY AgeFacts DEF TypeOK, Held, Unlocking
<1>2. RowYounger'
  BY DEF TypeOK, RowYounger
<1>3. Timely'
  BY LockAssumption DEF TypeOK, Timely
<1> QED BY <1>1, <1>2, <1>3

(* A script that sends lock() holds nothing yet, and it is not out of time. *)
LEMMA SendLockInv == ASSUME Inv, NEW s \in Scripts, SendLock(s) PROVE Inv'
<1> USE DEF SendLock, Inv
<1>1. TypeOK' /\ Held' /\ Unlocking' /\ RowYounger'
  BY DEF TypeOK, Held, Unlocking, RowYounger
<1>2. Timely'
  BY LockAssumption DEF TypeOK, Timely, Ages, Forever
<1> QED BY <1>1, <1>2

(* The row a holder asks to delete is its own. *)
LEMMA SendUnlockInv == ASSUME Inv, NEW s \in Scripts, SendUnlock(s) PROVE Inv'
<1> USE DEF SendUnlock, Inv
<1>1. TypeOK' /\ Held' /\ RowYounger'
  BY DEF TypeOK, Held, RowYounger
<1>2. Unlocking'
  BY DEF TypeOK, Held, Unlocking
<1>3. Timely'
  BY LockAssumption DEF TypeOK, Timely, Ages, Forever
<1> QED BY <1>1, <1>2, <1>3

(* A script that ends leaves its row and its call behind. *)
LEMMA EndInv == ASSUME Inv, NEW s \in Scripts, End(s) PROVE Inv'
<1> USE DEF End, Inv
<1>1. \A t \in Scripts : (NeedsRow(t))' /\ site[t] \in overrun => site[t] \in overrun'
  BY DEF InDoubt
<1>2. TypeOK' /\ RowYounger' /\ Timely'
  BY DEF TypeOK, RowYounger, Timely, InDoubt
<1>3. Held' /\ Unlocking'
  BY <1>1 DEF TypeOK, Held, Unlocking, NeedsRow
<1> QED BY <1>2, <1>3

-----------------------------------------------------------------------------
(* A row inserted where there was none takes nobody's row away. *)
LEMMA InsertKeepsRows ==
  ASSUME Inv, NEW s \in Scripts, row[site[s]] = NoScript,
         row' = [row EXCEPT ![site[s]] = s],
         rowAge' = [rowAge EXCEPT ![site[s]] = CreatedAtNow],
         UNCHANGED <<scriptAge, site>>
  PROVE  /\ row' \in [Subdomains -> Scripts \cup {NoScript}]
         /\ rowAge' \in [Subdomains -> Ages]
         /\ \A t \in Scripts : row[site[t]] = t => row'[site[t]] = t
         /\ RowYounger'
         /\ row'[site'[s]] = s
<1> USE DEF Inv
<1>1. /\ row' \in [Subdomains -> Scripts \cup {NoScript}]
      /\ rowAge' \in [Subdomains -> Ages]
  BY AgeFacts DEF TypeOK, CreatedAtNow
<1>2. \A t \in Scripts : row[site[t]] = t => row'[site[t]] = t
  BY LockAssumption DEF TypeOK
<1>3. RowYounger'
  <2>1. \A t \in Scripts : 0 <= scriptAge[t]
    BY DEF TypeOK, Ages
  <2> QED BY <2>1 DEF TypeOK, RowYounger, CreatedAtNow
<1> QED BY <1>1, <1>2, <1>3 DEF TypeOK

(* The one who is told 1 is the one whose row is there. *)
LEMMA LockGrantedInv == ASSUME Inv, NEW s \in Scripts, LockGranted(s) PROVE Inv'
<1> USE DEF LockGranted, Inv
<1>1. /\ row' \in [Subdomains -> Scripts \cup {NoScript}]
      /\ rowAge' \in [Subdomains -> Ages]
      /\ \A t \in Scripts : row[site[t]] = t => row'[site[t]] = t
      /\ RowYounger'
      /\ row'[site'[s]] = s
  BY InsertKeepsRows
<1>2. TypeOK'
  BY <1>1 DEF TypeOK
<1>3. Held' /\ Unlocking' /\ Timely'
  BY <1>1 DEF TypeOK, Held, Unlocking, Timely
<1> QED BY <1>1, <1>2, <1>3

(* A refusal, with or without the row of an INSERT whose answer was lost. *)
LEMMA LockRefusedInv == ASSUME Inv, NEW s \in Scripts, LockRefused(s) PROVE Inv'
<1> USE DEF LockRefused, Inv
<1>1. CASE UNCHANGED <<row, rowAge>>
  BY <1>1 DEF TypeOK, Held, Unlocking, RowYounger, Timely
<1>2. CASE /\ row[site[s]] = NoScript
           /\ row' = [row EXCEPT ![site[s]] = s]
           /\ rowAge' = [rowAge EXCEPT ![site[s]] = CreatedAtNow]
  <2>1. /\ row' \in [Subdomains -> Scripts \cup {NoScript}]
        /\ rowAge' \in [Subdomains -> Ages]
        /\ \A t \in Scripts : row[site[t]] = t => row'[site[t]] = t
        /\ RowYounger'
    BY <1>2, InsertKeepsRows
  <2>2. TypeOK'
    BY <2>1 DEF TypeOK
  <2>3. Held' /\ Unlocking' /\ Timely'
    BY <2>1 DEF TypeOK, Held, Unlocking, Timely
  <2> QED BY <2>1, <2>2, <2>3
<1> QED BY <1>1, <1>2

(* With the times of the code the row of a holder is never an old one. *)
LEMMA HeldRowIsYoung ==
  ASSUME RowOutlivesScript, Inv, NEW s \in Scripts, NEW d \in Subdomains,
         row[d] = s, holds[s]
  PROVE  ~OldRow(d)
<1>1. rowAge[d] <= scriptAge[s] /\ rowAge[d] \in Nat /\ scriptAge[s] \in Nat
  BY LockAssumption, AgeFacts DEF Inv, RowYounger, TypeOK
<1>2. scriptAge[s] <= PhpTimeout
  BY <1>1, LockAssumption DEF Inv, Held, Timely
<1> QED BY <1>1, <1>2, LockAssumption DEF OldRow, RowOutlivesScript

(* The clean-up spares a needed row, or its subdomain is overrun. *)
LEMMA PurgeInv == ASSUME Inv, NEW s \in Scripts, PurgeOldRows(s) PROVE Inv'
<1> USE DEF PurgeOldRows, Inv
<1>1. ASSUME NEW t \in Scripts, row[site[t]] = t, NeedsRow(t)
      PROVE  row'[site[t]] = t \/ site[t] \in overrun'
  <2>1. CASE OldRow(site[t])
    BY <1>1, <2>1, LockAssumption DEF AgedOut, OldRow, TypeOK
  <2>2. CASE ~OldRow(site[t])
    BY <1>1, <2>2 DEF TypeOK
  <2> QED BY <2>1, <2>2
<1>2. TypeOK' /\ Timely'
  BY DEF TypeOK, Timely, AgedOut
<1>3. Held' /\ Unlocking'
  BY <1>1 DEF TypeOK, Held, Unlocking, NeedsRow
<1>4. RowYounger'
  BY DEF TypeOK, RowYounger
<1> QED BY <1>2, <1>3, <1>4

(* A clean-up that fails deletes nothing. *)
LEMMA PurgeFailsInv == ASSUME Inv, NEW s \in Scripts, PurgeFails(s) PROVE Inv'
BY DEF PurgeFails, Inv, TypeOK, Held, Unlocking, RowYounger, Timely

(* The DELETE by subdomain hits the row of the caller, so of nobody else,   *)
(* or the site was overrun, which is remembered while others need their row.*)
LEMMA UnlockInv == ASSUME Inv, NEW s \in Scripts, Unlock(s) PROVE Inv'
<1> USE DEF Unlock, Inv
<1>1. (row[site[s]] = s \/ site[s] \in overrun) /\ ~holds[s]
  BY DEF Held, Unlocking
<1>2. \A t \in Scripts : (NeedsRow(t))' /\ site[t] \in overrun => site[t] \in overrun'
  BY DEF InDoubt
<1>3. \A t \in Scripts :
        t # s /\ row[site[t]] = t => row'[site[t]] = t \/ site[t] \in overrun
  BY <1>1 DEF TypeOK
<1>4. TypeOK' /\ Timely'
  BY DEF TypeOK, Timely, InDoubt
<1>5. Held'
  BY <1>1, <1>2, <1>3 DEF TypeOK, Held, NeedsRow
<1>6. Unlocking'
  BY <1>1, <1>2, <1>3 DEF TypeOK, Unlocking, NeedsRow
<1>7. RowYounger'
  BY DEF TypeOK, RowYounger
<1> QED BY <1>4, <1>5, <1>6, <1>7

(* Time passes for rows and scripts alike. *)
LEMMA TickInv == ASSUME Inv, Tick PROVE Inv'
<1> USE DEF Tick, Inv
<1>1. TypeOK'
  BY OlderFacts, AgeFacts DEF TypeOK
<1>2. Held' /\ Unlocking'
  BY DEF TypeOK, Held, Unlocking
<1>3. RowYounger'
  BY OlderFacts, LockAssumption DEF TypeOK, RowYounger
<1>4. Timely'
  BY OlderFacts DEF TypeOK, Timely
<1> QED BY <1>1, <1>2, <1>3, <1>4

-----------------------------------------------------------------------------
(* Every step of every caller, of MySQL and of the clock. *)
LEMMA StepInv == ASSUME Inv, [Next]_vars PROVE Inv'
<1>1. CASE \E s \in Scripts : Begin(s) \/ SendLock(s) \/ SendUnlock(s) \/ End(s)
  BY <1>1, BeginInv, SendLockInv, SendUnlockInv, EndInv
<1>2. CASE \E s \in Scripts : Mysql(s)
  BY <1>2, LockGrantedInv, LockRefusedInv, PurgeInv, PurgeFailsInv, UnlockInv DEF Mysql
<1>3. CASE Tick
  BY <1>3, TickInv
<1>4. CASE UNCHANGED vars
  BY <1>4 DEF vars, Inv, TypeOK, Held, Unlocking, RowYounger, Timely
<1> QED BY <1>1, <1>2, <1>3, <1>4 DEF Next

(* A step that takes a row away takes it from a script that does not hold   *)
(* the lock, or the site was overrun before.                                *)
LEMMA StepDeletes ==
  ASSUME RowOutlivesScript, Inv, [Next]_vars,
         NEW d \in Subdomains, row[d] # NoScript, row'[d] # row[d], holds[row[d]]
  PROVE  d \in overrun
<1>1. CASE \E s \in Scripts : PurgeOldRows(s)
  <2>1. OldRow(d)
    BY <1>1 DEF PurgeOldRows, Inv, TypeOK
  <2> QED BY <2>1, HeldRowIsYoung DEF Inv, TypeOK
<1>2. CASE \E s \in Scripts : Unlock(s)
  <2>1. PICK s \in Scripts : Unlock(s)
    BY <1>2
  <2>2. d = site[s] /\ (row[d] = s \/ d \in overrun)
    BY <2>1 DEF Unlock, Inv, TypeOK, Unlocking
  <2> QED BY <2>1, <2>2 DEF Unlock, Inv, Held
<1>3. CASE \E s \in Scripts : LockGranted(s) \/ LockRefused(s)
  BY <1>3 DEF LockGranted, LockRefused, Inv, TypeOK
<1>4. CASE \/ \E s \in Scripts : Begin(s) \/ SendLock(s) \/ SendUnlock(s) \/ End(s) \/ PurgeFails(s)
           \/ Tick
           \/ UNCHANGED vars
  BY <1>4 DEF Begin, SendLock, SendUnlock, End, PurgeFails, Tick, vars
<1> QED BY <1>1, <1>2, <1>3, <1>4 DEF Next, Mysql

-----------------------------------------------------------------------------
(* The invariant, type correctness included, holds for any number of        *)
(* callers of lock() and unlock() and for any PHP timeout, delay and row    *)
(* lifetime.                                                                *)
THEOREM LockInvariant == Spec => []Inv
<1>1. Inv /\ [Next]_vars => Inv'
  BY StepInv
<1> QED BY <1>1, InitInv, PTL DEF Spec

(* Two scripts of one site both hold its lock only after a clean-up of      *)
(* lock() deleted by age a row that was still needed; no assumption is made *)
(* on the lifetime of a row.                                                *)
THEOREM LockExcludes == Spec => []ExclusiveUnlessOverrun
<1>1. Inv => ExclusiveUnlessOverrun
  BY DEF Inv, Held, ExclusiveUnlessOverrun
<1> QED BY <1>1, LockInvariant, PTL

(* With the relation of the times in the code, 60 seconds and 1 MINUTE, no  *)
(* clean-up deletes the row of a script that holds the lock, and an unlock  *)
(* does so only on a site that was overrun before.                          *)
THEOREM HoldersKeepRows == ASSUME RowOutlivesScript PROVE Spec => OnlyOwnRowDeleted
<1>1. Inv /\ [Next]_vars =>
        [\A d \in Subdomains :
           row[d] # NoScript /\ row'[d] # row[d] /\ holds[row[d]] => d \in overrun]_vars
  BY StepDeletes
<1> QED BY <1>1, LockInvariant, PTL DEF Spec, OnlyOwnRowDeleted
=============================================================================
