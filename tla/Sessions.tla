------------------------------ MODULE Sessions ------------------------------
(***************************************************************************)
(* The session table of VaeDbHandler, the Reaper thread, and the PHP        *)
(* scripts that open, use and close sessions through Thrift.                *)
(*                                                                          *)
(* A script is a request of the web server: it opens one session, makes     *)
(* calls on it one at a time, usually closes it, and is killed by PHP when  *)
(* it has run for PhpTimeout seconds.  A script that ends or is killed      *)
(* leaves behind the call it was waiting for; that call completes within    *)
(* Delay seconds.  The session table knows nothing of scripts: it maps an   *)
(* id to a Session object.  The object is named here by the script that     *)
(* opened it.                                                               *)
(*                                                                          *)
(* Only differences of time are ever used, so the model keeps ages, which   *)
(* saturate one second past the largest age the code tells apart.           *)
(***************************************************************************)
EXTENDS Naturals, FiniteSets

CONSTANTS Scripts,    \* slots for PHP scripts; a slot is used again and again
          NoScript,
          Ids,        \* session ids (int32_t in the code)
          NoId,
          PhpTimeout, \* PHP's max_execution_time (60)
          Delay,      \* how late a call of a script can still arrive (~2)
          ReapTime    \* SESSION_REAP_TIME (62)

(* The comment on SESSION_REAP_TIME: at least the PHP timeout plus a margin. *)
ASSUME SessionsAssumption ==
  /\ PhpTimeout \in Nat /\ Delay \in Nat /\ ReapTime \in Nat
  /\ PhpTimeout + Delay <= ReapTime
  /\ NoScript \notin Scripts /\ NoId \notin Ids

VARIABLES sessions,   \* sessions[i]: the session under id i, or NoScript
          age,        \* age[s]: seconds since createdAt of the session of s
          script,     \* "idle" | "running" | "ended"
          scriptAge,  \* seconds since the script began
          call,       \* the call the script waits for, or has abandoned
          sid,        \* the session id the script was given
          using,      \* the Session the call's handler holds a pointer to
          reaper,     \* "asleep" | "woken" | "collecting"
          nap,        \* seconds of sleep() left
          condemned   \* sessions past ReapTime when the Reaper read the clock

vars == <<sessions, age, script, scriptAge, call, sid, using, reaper, nap, condemned>>

Calls == {"none", "open", "sited", "request", "working", "close"}
Forever == ReapTime + 1
Ages == 0 .. Forever

TypeOK == /\ sessions \in [Ids -> Scripts \cup {NoScript}]
          /\ age \in [Scripts -> Ages]
          /\ script \in [Scripts -> {"idle", "running", "ended"}]
          /\ scriptAge \in [Scripts -> Ages]
          /\ call \in [Scripts -> Calls]
          /\ sid \in [Scripts -> Ids \cup {NoId}]
          /\ using \in [Scripts -> Scripts \cup {NoScript}]
          /\ reaper \in {"asleep", "woken", "collecting"}
          /\ nap \in 0 .. (ReapTime \div 2)
          /\ condemned \subseteq Scripts

(* A slip: sleep(SESSION_REAP_TIME). *)
NapTwice == ReapTime
(* sleep(SESSION_REAP_TIME / 2) *)
Nap == ReapTime \div 2

Init == /\ sessions = [i \in Ids |-> NoScript]
        /\ age = [s \in Scripts |-> 0]
        /\ script = [s \in Scripts |-> "idle"]
        /\ scriptAge = [s \in Scripts |-> 0]
        /\ call = [s \in Scripts |-> "none"]
        /\ sid = [s \in Scripts |-> NoId]
        /\ using = [s \in Scripts |-> NoScript]
        /\ reaper = "asleep" /\ nap = Nap
        /\ condemned = {}

InTable(s) == \E i \in Ids : sessions[i] = s

-----------------------------------------------------------------------------
(* The PHP script (external): what the server relies on *)

(* A slot whose last script has ended, left no call and no session behind,  *)
(* hosts a new script, whose first call is openSession.                     *)
Begin(s) == /\ script[s] = "idle" \/ (script[s] = "ended" /\ call[s] = "none")
            /\ ~InTable(s)
            /\ script' = [script EXCEPT ![s] = "running"]
            /\ scriptAge' = [scriptAge EXCEPT ![s] = 0]
            /\ call' = [call EXCEPT ![s] = "open"]
            /\ sid' = [sid EXCEPT ![s] = NoId]
            /\ UNCHANGED <<sessions, age, using, reaper, nap, condemned>>

(* A call on the session: get, createInfo, data, structure, a cache call,   *)
(* a sitewide lock call, or closeSession, which the script makes last.      *)
Send(s, c) == /\ script[s] = "running" /\ call[s] = "none" /\ sid[s] # NoId
              /\ call' = [call EXCEPT ![s] = c]
              /\ UNCHANGED <<sessions, age, script, scriptAge, sid, using, reaper, nap, condemned>>

(* The script finishes or is killed, at any point, with or without a call   *)
(* under way.                                                               *)
End(s) == /\ script[s] = "running"
          /\ script' = [script EXCEPT ![s] = "ended"]
          /\ UNCHANGED <<sessions, age, scriptAge, call, sid, using, reaper, nap, condemned>>

-----------------------------------------------------------------------------
(* VaeDbHandler *)

(* openSession, first part: getSite, which may take long, and may throw:    *)
(* the script then has no session and ends.                                 *)
OpenSite(s) ==
  /\ call[s] = "open"
  /\ \/ call' = [call EXCEPT ![s] = "sited"] /\ UNCHANGED script
     \/ call' = [call EXCEPT ![s] = "none"] /\ script' = [script EXCEPT ![s] = "ended"]
  /\ UNCHANGED <<sessions, age, scriptAge, sid, using, reaper, nap, condemned>>

(* A slip: the suggested id is taken without looking whether it is in use.  *)
MayGetUnchecked(i) == TRUE
(* The suggested id if it is free, otherwise whatever free id rand() hits.  *)
MayGet(i) == sessions[i] = NoScript

(* openSession, second part, under sessionsMutex: a new Session under a     *)
(* free id.  Its createdAt is now.                                          *)
OpenSession(s) ==
  /\ call[s] = "sited"
  /\ \E i \in Ids : /\ MayGet(i)
                    /\ sessions' = [sessions EXCEPT ![i] = s]
                    /\ sid' = [sid EXCEPT ![s] = i]
  /\ age' = [age EXCEPT ![s] = 0]
  /\ condemned' = condemned \ {s}
  /\ call' = [call EXCEPT ![s] = "none"]
  /\ UNCHANGED <<script, scriptAge, using, reaper, nap>>

(* The first half of every call that names a session: under sessionsMutex,  *)
(* copy the shared_ptr, or warn and return.                                 *)
Lookup(s) ==
  /\ call[s] = "request"
  /\ using' = [using EXCEPT ![s] = sessions[sid[s]]]
  /\ call' = [call EXCEPT ![s] = IF sessions[sid[s]] = NoScript THEN "none" ELSE "working"]
  /\ UNCHANGED <<sessions, age, script, scriptAge, sid, reaper, nap, condemned>>

(* The second half, with no lock held: work on the Session, answer, drop    *)
(* the pointer.                                                             *)
Answer(s) ==
  /\ call[s] = "working"
  /\ using' = [using EXCEPT ![s] = NoScript]
  /\ call' = [call EXCEPT ![s] = "none"]
  /\ UNCHANGED <<sessions, age, script, scriptAge, sid, reaper, nap, condemned>>

(* closeSession erases what is under the id; the script does nothing more   *)
(* with the id.                                                             *)
CloseSession(s) ==
  /\ call[s] = "close"
  /\ sessions' = [sessions EXCEPT ![sid[s]] = NoScript]
  /\ sid' = [sid EXCEPT ![s] = NoId]
  /\ call' = [call EXCEPT ![s] = "none"]
  /\ UNCHANGED <<age, script, scriptAge, using, reaper, nap, condemned>>

-----------------------------------------------------------------------------
(* Reaper::Run *)

(* A slip: >= for >. *)
ExpiredOrJustNot(s) == age[s] >= ReapTime
Expired(s) == age[s] > ReapTime

(* sleep() returns; now = time(NULL), read before the mutex is taken.       *)
ReaperWake == /\ reaper = "asleep" /\ nap = 0
              /\ condemned' = {s \in Scripts : Expired(s)}
              /\ reaper' = "woken"
              /\ UNCHANGED <<sessions, age, script, scriptAge, call, sid, using, nap>>

(* A slip: the scan erases nothing. *)
SpareAll(s) == FALSE
Reaped(s) == s \in condemned

(* The scan under sessionsMutex. *)
ReaperScan ==
  /\ reaper = "woken"
  /\ sessions' = [i \in Ids |-> IF Reaped(sessions[i]) THEN NoScript ELSE sessions[i]]
  /\ reaper' = "collecting"
  /\ UNCHANGED <<age, script, scriptAge, call, sid, using, nap, condemned>>

(* mysqlProxy.garbageCollect() and the top of the loop. *)
ReaperCollect == /\ reaper = "collecting"
                 /\ reaper' = "asleep" /\ nap' = Nap
                 /\ condemned' = {}
                 /\ UNCHANGED <<sessions, age, script, scriptAge, call, sid, using>>

-----------------------------------------------------------------------------
Older(a) == IF a = Forever THEN a ELSE a + 1

(* A second passes.  PHP has killed a script by PhpTimeout, and its call is *)
(* over Delay seconds later.                                                *)
Tick == /\ \A s \in Scripts :
             /\ script[s] = "running" => scriptAge[s] < PhpTimeout
             /\ call[s] # "none" => scriptAge[s] < PhpTimeout + Delay
        /\ age' = [s \in Scripts |-> Older(age[s])]
        /\ scriptAge' = [s \in Scripts |-> Older(scriptAge[s])]
        /\ nap' = IF nap = 0 THEN 0 ELSE nap - 1
        /\ UNCHANGED <<sessions, script, call, sid, using, reaper, condemned>>

Handler(s) == OpenSite(s) \/ OpenSession(s) \/ Lookup(s) \/ Answer(s) \/ CloseSession(s)

Reaper == ReaperWake \/ ReaperScan \/ ReaperCollect

Next == \/ \E s \in Scripts : \/ Begin(s) \/ End(s) \/ Handler(s)
                              \/ \E c \in {"request", "close"} : Send(s, c)
        \/ Reaper
        \/ Tick

Spec == Init /\ [][Next]_vars

(* Time passes, the Reaper thread runs, PHP ends every script, and every    *)
(* handler returns.                                                         *)
Fairness == /\ WF_vars(Tick) /\ WF_vars(Reaper)
            /\ \A s \in Scripts : WF_vars(End(s)) /\ WF_vars(Handler(s))

FairSpec == Spec /\ Fairness

-----------------------------------------------------------------------------
(* Properties *)

(* A script with an id that it has not closed, as long as it runs or a call *)
(* of it is on its way, finds its own session under that id: it was neither *)
(* reaped under the script's feet, nor replaced by a session that came to   *)
(* use the same id.                                                         *)
OwnSession == \A s \in Scripts :
  sid[s] # NoId /\ (script[s] = "running" \/ call[s] # "none") => sessions[sid[s]] = s

(* Session has no mutex: its responses vector is safe only because no two   *)
(* handlers ever hold the same Session.                                     *)
OneHandlerPerSession == \A s, t \in Scripts :
  using[s] # NoScript /\ using[s] = using[t] => s = t

(* A session leaves the table in two ways only: its own script's            *)
(* closeSession, or the Reaper after the script has ended and its last call *)
(* is over.  In particular an openSession never replaces a session.         *)
ErasesOwn ==
  [][\A i \in Ids : sessions[i] # NoScript /\ sessions'[i] # sessions[i] =>
       LET s == sessions[i]
       IN  \/ s \in condemned /\ script[s] = "ended" /\ call[s] = "none"
           \/ sid[s] = i /\ call[s] = "close"]_vars

(* A session nobody closes, because its script died, had its openSession    *)
(* answered too late, or just forgot, does not stay in the table.           *)
Reclaimed == \A s \in Scripts : InTable(s) ~> ~InTable(s)
=============================================================================
