---------------------------- MODULE SitewideLock ----------------------------
(***************************************************************************)
(* The sitewide lock: one row of the table `locks` for each locked          *)
(* subdomain (subdomain is a UNIQUE key).  MysqlProxy::lock inserts the     *)
(* row; when the INSERT fails it deletes the rows of every subdomain that   *)
(* are older than LockTTL and reports that it has no lock, so the caller    *)
(* tries again.  MysqlProxy::unlock deletes the row, whoever inserted it.   *)
(*                                                                          *)
(* Callers are PHP scripts, as in module Sessions: killed at PhpTimeout,    *)
(* with their last call over Delay later.  Two statements of one lock() are *)
(* two steps, and other callers run between them.  The row has no owner in  *)
(* the database; the model remembers who inserted it, and in overrun which  *)
(* subdomains lost a row by age while its script still needed it.           *)
(***************************************************************************)
EXTENDS Naturals

CONSTANTS Scripts, NoScript,
          Subdomains,
          PhpTimeout, Delay, \* as in module Sessions
          LockTTL            \* INTERVAL 1 MINUTE

ASSUME LockAssumption ==
  /\ PhpTimeout \in Nat /\ Delay \in Nat /\ LockTTL \in Nat
  /\ NoScript \notin Scripts

(* What the deployed times are, 60, about 2 and 60: a row outlives a        *)
(* running script, but not the last call of one.                            *)
RowOutlivesScript == PhpTimeout <= LockTTL

VARIABLES row,       \* row[d]: who inserted the row of d, or NoScript
          rowAge,    \* NOW() - created_at
          script,    \* "idle" | "running" | "ended"
          scriptAge,
          site,      \* the subdomain of the script's session
          call,      \* "none" | "lock" | "purge" | "unlock"
          holds,     \* lock() returned 1 and unlock() has not been called
          overrun    \* history: subdomains whose row aged out too early

vars == <<row, rowAge, script, scriptAge, site, call, holds, overrun>>

Longest(a, b) == IF a < b THEN b ELSE a
Forever == Longest(LockTTL, PhpTimeout + Delay) + 1
Ages == 0 .. Forever

TypeOK == /\ row \in [Subdomains -> Scripts \cup {NoScript}]
          /\ rowAge \in [Subdomains -> Ages]
          /\ script \in [Scripts -> {"idle", "running", "ended"}]
          /\ scriptAge \in [Scripts -> Ages]
          /\ site \in [Scripts -> Subdomains]
          /\ call \in [Scripts -> {"none", "lock", "purge", "unlock"}]
          /\ holds \in [Scripts -> BOOLEAN]
          /\ overrun \in SUBSET Subdomains

Init == /\ row = [d \in Subdomains |-> NoScript]
        /\ rowAge = [d \in Subdomains |-> 0]
        /\ script = [s \in Scripts |-> "idle"]
        /\ scriptAge = [s \in Scripts |-> 0]
        /\ site \in [Scripts -> Subdomains]
        /\ call = [s \in Scripts |-> "none"]
        /\ holds = [s \in Scripts |-> FALSE]
        /\ overrun = {}

(* History.  A script needs its row while it holds the lock and until its   *)
(* unlock is over.  An overrun is remembered as long as anybody of that     *)
(* site needs a row: it is in doubt until then whose row is in the table.   *)
NeedsRow(s) == holds[s] \/ call[s] = "unlock"
InDoubt(D) == {d \in D : \E s \in Scripts : site[s] = d /\ NeedsRow(s)'}
AgedOut == {d \in Subdomains : row[d] # NoScript /\ rowAge[d] > LockTTL /\ NeedsRow(row[d])}

-----------------------------------------------------------------------------
(* The PHP script (external) *)

(* A slot with no call and no row left behind hosts a new script. *)
Begin(s) == /\ script[s] # "running" /\ call[s] = "none"
            /\ \A d \in Subdomains : row[d] # s
            /\ script' = [script EXCEPT ![s] = "running"]
            /\ scriptAge' = [scriptAge EXCEPT ![s] = 0]
            /\ UNCHANGED <<row, rowAge, site, call, holds, overrun>>

(* A script asks for the lock until it is told that it has it. *)
SendLock(s) == /\ script[s] = "running" /\ call[s] = "none" /\ ~holds[s]
               /\ call' = [call EXCEPT ![s] = "lock"]
               /\ UNCHANGED <<row, rowAge, script, scriptAge, site, holds, overrun>>

(* Calling unlock ends what the lock protects. *)
SendUnlock(s) == /\ script[s] = "running" /\ call[s] = "none" /\ holds[s]
                 /\ call' = [call EXCEPT ![s] = "unlock"]
                 /\ holds' = [holds EXCEPT ![s] = FALSE]
                 /\ UNCHANGED <<row, rowAge, script, scriptAge, site, overrun>>

(* The script ends or is killed, whatever it holds and is waiting for. *)
End(s) == /\ script[s] = "running"
          /\ script' = [script EXCEPT ![s] = "ended"]
          /\ holds' = [holds EXCEPT ![s] = FALSE]
          /\ UNCHANGED <<row, rowAge, scriptAge, site, call>>
          /\ overrun' = InDoubt(overrun)

-----------------------------------------------------------------------------
(* MysqlProxy *)

(* created_at = NOW() *)
CreatedAtNow == 0

(* The INSERT succeeds: gotLock = 1.  A script that has died meanwhile does *)
(* not hear it.                                                             *)
LockGranted(s) ==
  /\ call[s] = "lock" /\ row[site[s]] = NoScript
  /\ row' = [row EXCEPT ![site[s]] = s]
  /\ rowAge' = [rowAge EXCEPT ![site[s]] = CreatedAtNow]
  /\ call' = [call EXCEPT ![s] = "none"]
  /\ holds' = [holds EXCEPT ![s] = (script[s] = "running")]
  /\ UNCHANGED <<script, scriptAge, site, overrun>>

(* The INSERT throws: the row exists (duplicate key), or the statement      *)
(* fails, or it was executed and its answer was lost.                       *)
LockRefused(s) ==
  /\ call[s] = "lock"
  /\ \/ UNCHANGED <<row, rowAge>>
     \/ /\ row[site[s]] = NoScript
        /\ row' = [row EXCEPT ![site[s]] = s]
        /\ rowAge' = [rowAge EXCEPT ![site[s]] = CreatedAtNow]
  /\ call' = [call EXCEPT ![s] = "purge"]
  /\ UNCHANGED <<script, scriptAge, site, holds, overrun>>

(* A slip: the DELETE has lost its condition on created_at. *)
AnyRow(d) == row[d] # NoScript
(* A slip: the catch block reports the refusal and deletes nothing. *)
NoOldRow(d) == FALSE
OldRow(d) == row[d] # NoScript /\ rowAge[d] > LockTTL

(* The catch block of lock(): DELETE the old rows of all subdomains. *)
PurgeOldRows(s) ==
  /\ call[s] = "purge"
  /\ row' = [d \in Subdomains |-> IF OldRow(d) THEN NoScript ELSE row[d]]
  /\ call' = [call EXCEPT ![s] = "none"]
  /\ overrun' = overrun \cup AgedOut
  /\ UNCHANGED <<rowAge, script, scriptAge, site, holds>>

(* That DELETE throws as well; it is logged. *)
PurgeFails(s) ==
  /\ call[s] = "purge"
  /\ call' = [call EXCEPT ![s] = "none"]
  /\ UNCHANGED <<row, rowAge, script, scriptAge, site, holds, overrun>>

(* unlock(): DELETE by subdomain, or an SQL error, logged, that leaves it.  *)
Unlock(s) ==
  /\ call[s] = "unlock"
  /\ row' = [row EXCEPT ![site[s]] = NoScript] \/ UNCHANGED row
  /\ call' = [call EXCEPT ![s] = "none"]
  /\ UNCHANGED <<rowAge, script, scriptAge, site, holds>>
  /\ overrun' = InDoubt(overrun)

-----------------------------------------------------------------------------
Older(a) == IF a = Forever THEN a ELSE a + 1

Tick == /\ \A s \in Scripts :
             /\ script[s] = "running" => scriptAge[s] < PhpTimeout
             /\ call[s] # "none" => scriptAge[s] < PhpTimeout + Delay
        /\ rowAge' = [d \in Subdomains |-> IF row[d] = NoScript THEN 0 ELSE Older(rowAge[d])]
        /\ scriptAge' = [s \in Scripts |-> Older(scriptAge[s])]
        /\ UNCHANGED <<row, script, site, call, holds, overrun>>

Mysql(s) == LockGranted(s) \/ LockRefused(s) \/ PurgeOldRows(s) \/ PurgeFails(s) \/ Unlock(s)

Next == \/ \E s \in Scripts : \/ Begin(s) \/ SendLock(s) \/ SendUnlock(s) \/ End(s)
                              \/ Mysql(s)
        \/ Tick

Spec == Init /\ [][Next]_vars

(* Time passes, PHP ends every script and every statement returns. *)
FairSpec == /\ Spec
            /\ WF_vars(Tick)
            /\ \A s \in Scripts : WF_vars(End(s)) /\ WF_vars(Mysql(s))

-----------------------------------------------------------------------------
(* Properties *)

(* Two running scripts of one site never both hold its sitewide lock.  This *)
(* is what a lock promises, and not what the code gives.                    *)
MutualExclusion == \A s, t \in Scripts :
  holds[s] /\ holds[t] /\ site[s] = site[t] => s = t

(* What the code gives, whatever its three times are: only one thing breaks *)
(* the exclusion, a clean-up in lock() that deletes by age the row of a     *)
(* script that still needs it.  Failing statements, lost answers, dead      *)
(* scripts, late unlocks and the clean-ups of other sites do not.           *)
ExclusiveUnlessOverrun == \A s, t \in Scripts :
  holds[s] /\ holds[t] /\ site[s] = site[t] => s = t \/ site[s] \in overrun

(* With the times of the code no clean-up takes the row of a script that    *)
(* holds the lock, and no unlock does except after such an overrun: the     *)
(* first row to be lost is always that of an unlock under way.              *)
OnlyOwnRowDeleted ==
  [][\A d \in Subdomains :
       row[d] # NoScript /\ row'[d] # row[d] /\ holds[row[d]] => d \in overrun]_vars

(* A row whose script died or whose unlock failed does not lock the site    *)
(* for ever: as long as callers keep being refused and cleaning up, the row *)
(* keeps going away.                                                        *)
StuckLockFreed == \A d \in Subdomains :
  []<><<\E s \in Scripts : PurgeOldRows(s)>>_vars => []<>(row[d] = NoScript)
=============================================================================
