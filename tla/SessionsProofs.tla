--------------------------- MODULE SessionsProofs ---------------------------
(***************************************************************************)
(* A script never loses its session to the Reaper or to another script, for *)
(* any number of scripts and ids and any times that satisfy the assumption  *)
(* on ReapTime.                                                             *)
(*                                                                          *)
(* OwnSession is not inductive: that the Reaper spares a session in use     *)
(* needs to know that a session is never older than its script (Younger),   *)
(* that a script and its calls are over in time (Timely), and that what the *)
(* Reaper has condemned before it took the mutex is still old when it has   *)
(* it (Condemned).                                                          *)
(***************************************************************************)
EXTENDS Sessions, TLAPS

(* Where the script is in its one session's life. *)
Stages == \A s \in Scripts :
  /\ script[s] = "idle" => call[s] = "none" /\ sid[s] = NoId
  /\ call[s] \in {"open", "sited"} => sid[s] = NoId
  /\ call[s] \in {"request", "working", "close"} => sid[s] # NoId

(* The table has a session under the id its script was told, and only there.*)
Placed == \A i \in Ids : sessions[i] # NoScript => sid[sessions[i]] = i

(* createdAt is not before the start of the script. *)
Younger == \A s \in Scripts : sid[s] # NoId => age[s] <= scriptAge[s]

(* PHP's timeout, and the delay of a last call. *)
Timely == \A s \in Scripts : /\ script[s] = "running" => scriptAge[s] <= PhpTimeout
                             /\ call[s] # "none" => scriptAge[s] <= PhpTimeout + Delay

(* A session opened after the Reaper read the clock is not condemned. *)
Condemned == \A s \in condemned : sid[s] # NoId => age[s] > ReapTime

(* A handler works on the session of the script it works for. *)
UsesOwn == \A s \in Scripts : using[s] # NoScript => using[s] = s

Inv == /\ TypeOK /\ Stages /\ Placed /\ Younger /\ Timely /\ Condemned
       /\ OwnSession /\ UsesOwn

-----------------------------------------------------------------------------
(* A table without sessions satisfies all of it. *)
LEMMA InitInv == Init => Inv
<1> SUFFICES ASSUME Init PROVE Inv
  OBVIOUS
<1> USE DEF Init
<1>1. TypeOK
  BY SessionsAssumption DEF TypeOK, Nap, Calls, Ages, Forever
<1>2. Stages /\ Placed /\ Younger /\ Timely /\ Condemned /\ OwnSession /\ UsesOwn
  BY SessionsAssumption DEF Stages, Placed, Younger, Timely, Condemned, OwnSession, UsesOwn
<1> QED BY <1>1, <1>2 DEF Inv

(* A new script has no session yet, and its slot none left. *)
LEMMA BeginInv == ASSUME Inv, NEW s \in Scripts, Begin(s) PROVE Inv'
<1> USE DEF Begin, Inv
<1>1. TypeOK'
  BY SessionsAssumption DEF TypeOK, Calls, Ages, Forever
<1>2. Stages' /\ Younger' /\ Condemned' /\ UsesOwn'
  BY DEF TypeOK, Stages, Younger, Condemned, UsesOwn
<1>3. Placed'
  BY DEF TypeOK, Placed, InTable
<1>4. Timely'
  BY SessionsAssumption DEF TypeOK, Timely
<1>5. OwnSession'
  BY DEF TypeOK, OwnSession
<1> QED BY <1>1, <1>2, <1>3, <1>4, <1>5

(* A script that runs still has its session, so the call it makes has. *)
LEMMA SendInv ==
  ASSUME Inv, NEW s \in Scripts, NEW c \in {"request", "close"}, Send(s, c)
  PROVE  Inv'
<1> USE DEF Send, Inv
<1>1. TypeOK' /\ Stages' /\ UsesOwn' /\ Placed' /\ Younger' /\ Condemned'
  BY DEF TypeOK, Calls, Stages, UsesOwn, Placed, Younger, Condemned
<1>2. Timely'
  BY SessionsAssumption DEF TypeOK, Timely, Ages, Forever
<1>3. OwnSession'
  BY DEF TypeOK, OwnSession
<1> QED BY <1>1, <1>2, <1>3

(* A script that ends leaves its session and its call behind. *)
LEMMA EndInv == ASSUME Inv, NEW s \in Scripts, End(s) PROVE Inv'
BY DEF End, Inv, TypeOK, Stages, UsesOwn, Placed, Younger, Condemned, Timely, OwnSession

(* getSite is over; there is no session yet. *)
LEMMA OpenSiteInv == ASSUME Inv, NEW s \in Scripts, OpenSite(s) PROVE Inv'
BY DEF OpenSite, Inv, TypeOK, Calls, Stages, UsesOwn, Placed, Younger, Condemned, Timely, OwnSession

(* The id was free, and the script had no session under another one. *)
LEMMA OpenSessionInv == ASSUME Inv, NEW s \in Scripts, OpenSession(s) PROVE Inv'
<1> USE DEF OpenSession, Inv
<1>1. PICK i \in Ids : /\ sessions[i] = NoScript
                       /\ sessions' = [sessions EXCEPT ![i] = s]
                       /\ sid' = [sid EXCEPT ![s] = i]
  BY DEF MayGet
<1>2. \A j \in Ids : sessions[j] # s
  BY SessionsAssumption DEF Stages, Placed, TypeOK
<1>3. TypeOK'
  BY <1>1, SessionsAssumption DEF TypeOK, Calls, Ages, Forever
<1>4. Stages' /\ Timely' /\ UsesOwn'
  BY <1>1, SessionsAssumption DEF TypeOK, Stages, Timely, UsesOwn
<1>5. Placed'
  BY <1>1, <1>2 DEF TypeOK, Placed
<1>6. Younger'
  BY <1>1 DEF TypeOK, Younger, Ages
<1>7. Condemned'
  BY <1>1 DEF TypeOK, Condemned
<1>8. OwnSession'
  BY <1>1, <1>2, SessionsAssumption DEF TypeOK, OwnSession, Placed
<1> QED BY <1>3, <1>4, <1>5, <1>6, <1>7, <1>8

(* What a handler finds under the script's id is the script's session. *)
LEMMA LookupInv == ASSUME Inv, NEW s \in Scripts, Lookup(s) PROVE Inv'
<1> USE DEF Lookup, Inv
<1>1. sid[s] \in Ids /\ sessions[sid[s]] = s
  BY DEF TypeOK, Stages, OwnSession
<1>2. TypeOK' /\ Stages' /\ Placed' /\ Younger' /\ Condemned' /\ Timely' /\ OwnSession'
  BY <1>1, SessionsAssumption DEF TypeOK, Calls, Stages, Placed, Younger, Condemned, Timely, OwnSession
<1>3. UsesOwn'
  BY <1>1 DEF TypeOK, UsesOwn
<1> QED BY <1>2, <1>3

(* The handler lets go of the session. *)
LEMMA AnswerInv == ASSUME Inv, NEW s \in Scripts, Answer(s) PROVE Inv'
BY DEF Answer, Inv, TypeOK, Calls, Stages, UsesOwn, Placed, Younger, Condemned, Timely, OwnSession

(* What closeSession erases is the session of the script that asks for it.  *)
LEMMA CloseSessionInv == ASSUME Inv, NEW s \in Scripts, CloseSession(s) PROVE Inv'
<1> USE DEF CloseSession, Inv
<1>1. sid[s] \in Ids /\ sessions[sid[s]] = s
  BY DEF TypeOK, Stages, OwnSession
<1>2. TypeOK' /\ Stages' /\ Younger' /\ Condemned' /\ Timely' /\ UsesOwn'
  BY DEF TypeOK, Calls, Stages, Younger, Condemned, Timely, UsesOwn
<1>3. Placed'
  BY <1>1 DEF TypeOK, Placed
<1>4. OwnSession'
  BY <1>1 DEF TypeOK, OwnSession
<1> QED BY <1>2, <1>3, <1>4

-----------------------------------------------------------------------------
(* What the Reaper condemns is past ReapTime. *)
LEMMA ReaperWakeInv == ASSUME Inv, ReaperWake PROVE Inv'
<1> USE DEF ReaperWake, Inv
<1>1. TypeOK' /\ Stages' /\ UsesOwn' /\ Placed' /\ Younger' /\ Timely' /\ OwnSession'
  BY DEF TypeOK, Stages, UsesOwn, Placed, Younger, Timely, OwnSession
<1>2. Condemned'
  BY DEF Condemned, Expired
<1> QED BY <1>1, <1>2

(* The script of a condemned session is over, and so are its calls. *)
LEMMA CondemnedIsOver ==
  ASSUME Inv, NEW i \in Ids, sessions[i] \in condemned
  PROVE  script[sessions[i]] = "ended" /\ call[sessions[i]] = "none"
<1> DEFINE s == sessions[i]
<1>1. s \in Scripts /\ sid[s] = i /\ sid[s] # NoId
  BY SessionsAssumption DEF Inv, TypeOK, Placed
<1>2. scriptAge[s] \in Nat /\ age[s] \in Nat
  BY <1>1 DEF Inv, TypeOK, Ages
<1>3. scriptAge[s] > PhpTimeout + Delay
  BY <1>1, <1>2, SessionsAssumption DEF Inv, Condemned, Younger
<1>4. scriptAge[s] > PhpTimeout
  BY <1>2, <1>3, SessionsAssumption
<1>5. call[s] = "none" /\ script[s] # "running"
  BY <1>1, <1>2, <1>3, <1>4, SessionsAssumption DEF Inv, Timely
<1>6. script[s] # "idle"
  BY <1>1 DEF Inv, Stages
<1> QED BY <1>1, <1>5, <1>6 DEF Inv, TypeOK

(* What the Reaper erases belonged to scripts that are over. *)
LEMMA ReaperScanInv == ASSUME Inv, ReaperScan PROVE Inv'
<1> USE DEF ReaperScan, Inv
<1>1. TypeOK' /\ Stages' /\ UsesOwn' /\ Younger' /\ Timely' /\ Condemned'
  BY DEF TypeOK, Stages, UsesOwn, Younger, Timely, Condemned
<1>2. Placed'
  BY DEF TypeOK, Placed
<1>3. OwnSession'
  <2> SUFFICES ASSUME NEW s \in Scripts, sid[s] # NoId, script[s] = "running" \/ call[s] # "none"
               PROVE  sessions'[sid[s]] = s
    BY DEF OwnSession
  <2>1. sid[s] \in Ids /\ sessions[sid[s]] = s
    BY DEF TypeOK, OwnSession
  <2>2. s \notin condemned
    BY <2>1, CondemnedIsOver
  <2> QED BY <2>1, <2>2 DEF Reaped
<1> QED BY <1>1, <1>2, <1>3

(* garbageCollect touches no session. *)
LEMMA ReaperCollectInv == ASSUME Inv, ReaperCollect PROVE Inv'
BY SessionsAssumption
   DEF ReaperCollect, Nap, Inv, TypeOK, Stages, UsesOwn, Placed, Younger, Condemned, Timely, OwnSession

(* Both ages grow together, and a script whose time is up stops the clock.  *)
LEMMA TickInv == ASSUME Inv, Tick PROVE Inv'
<1> USE DEF Tick, Inv
<1>1. ReapTime \in Nat /\ PhpTimeout \in Nat /\ Delay \in Nat /\ PhpTimeout + Delay <= ReapTime
  BY SessionsAssumption
<1>2. \A a, b \in Ages : Older(a) \in Ages /\ a <= Older(a) /\ (a <= b => Older(a) <= Older(b))
                         /\ Older(a) <= a + 1
  BY <1>1 DEF Ages, Forever, Older
<1>3. TypeOK'
  BY <1>1, <1>2 DEF TypeOK
<1>4. Stages' /\ UsesOwn' /\ Placed' /\ OwnSession'
  BY DEF Stages, UsesOwn, Placed, OwnSession
<1>5. Younger'
  BY <1>2 DEF TypeOK, Younger
<1>6. Timely'
  BY <1>1, <1>2 DEF TypeOK, Timely, Ages, Forever
<1>7. Condemned'
  BY <1>1, <1>2 DEF TypeOK, Condemned, Ages, Forever
<1> QED BY <1>3, <1>4, <1>5, <1>6, <1>7

(* Nothing changes. *)
LEMMA StutterInv == ASSUME Inv, UNCHANGED vars PROVE Inv'
BY DEF vars, Inv, TypeOK, Stages, UsesOwn, Placed, Younger, Condemned, Timely, OwnSession

(* Every step of every script, of the handlers, of the Reaper and of time. *)
LEMMA StepInv == ASSUME Inv, [Next]_vars PROVE Inv'
<1>1. CASE UNCHANGED vars
  BY <1>1, StutterInv
<1>2. ASSUME NEW s \in Scripts, Begin(s) \/ End(s) \/ Handler(s) PROVE Inv'
  BY <1>2, BeginInv, EndInv, OpenSiteInv, OpenSessionInv, LookupInv, AnswerInv, CloseSessionInv
     DEF Handler
<1>3. ASSUME NEW s \in Scripts, NEW c \in {"request", "close"}, Send(s, c) PROVE Inv'
  BY <1>3, SendInv
<1>4. CASE Reaper
  BY <1>4, ReaperWakeInv, ReaperScanInv, ReaperCollectInv DEF Reaper
<1>5. CASE Tick
  BY <1>5, TickInv
<1> QED BY <1>1, <1>2, <1>3, <1>4, <1>5 DEF Next

-----------------------------------------------------------------------------
(* The table, the scripts and the Reaper keep Inv. *)
THEOREM SessionsInvariant == Spec => []Inv
BY InitInv, StepInv, PTL DEF Spec

(* The state stays in its types. *)
THEOREM TypeCorrect == Spec => []TypeOK
<1>1. Inv => TypeOK
  BY DEF Inv
<1> QED BY <1>1, SessionsInvariant, PTL

(* A live script or call always finds its own session. *)
THEOREM ScriptsKeepSessions == Spec => []OwnSession
<1>1. Inv => OwnSession
  BY DEF Inv
<1> QED BY <1>1, SessionsInvariant, PTL

(* No Session is ever used by two handlers, although it has no mutex. *)
THEOREM SessionsNotShared == Spec => []OneHandlerPerSession
<1>1. Inv => OneHandlerPerSession
  BY DEF Inv, UsesOwn, OneHandlerPerSession
<1> QED BY <1>1, SessionsInvariant, PTL

(* A session is erased by its own script or when that is over. *)
THEOREM OnlyOwnErased == Spec => ErasesOwn
<1> DEFINE Rule == \A i \in Ids : sessions[i] # NoScript /\ sessions'[i] # sessions[i] =>
                     LET s == sessions[i]
                     IN  \/ s \in condemned /\ script[s] = "ended" /\ call[s] = "none"
                         \/ sid[s] = i /\ call[s] = "close"
<1>1. ASSUME Inv, [Next]_vars PROVE [Rule]_vars
  <2>1. CASE UNCHANGED vars
    BY <2>1
  <2>2. ASSUME NEW s \in Scripts, OpenSession(s) PROVE Rule
    BY <1>1, <2>2 DEF OpenSession, MayGet, Inv, TypeOK
  <2>3. ASSUME NEW s \in Scripts, CloseSession(s) PROVE Rule
    <3>1. sid[s] \in Ids /\ sessions[sid[s]] = s
      BY <1>1, <2>3 DEF CloseSession, Inv, TypeOK, Stages, OwnSession
    <3> QED BY <1>1, <2>3, <3>1 DEF CloseSession, Inv, TypeOK
  <2>4. CASE ReaperScan
    BY <1>1, <2>4, CondemnedIsOver DEF ReaperScan, Reaped
  <2>5. CASE UNCHANGED sessions
    BY <2>5
  <2>6. CASE Next
    <3>1. ASSUME NEW s \in Scripts,
                 \/ Begin(s) \/ End(s) \/ OpenSite(s) \/ Lookup(s) \/ Answer(s)
                 \/ \E c \in {"request", "close"} : Send(s, c)
          PROVE  UNCHANGED sessions
      BY <3>1 DEF Begin, End, OpenSite, Lookup, Answer, Send
    <3>2. ASSUME ReaperWake \/ ReaperCollect \/ Tick PROVE UNCHANGED sessions
      BY <3>2 DEF ReaperWake, ReaperCollect, Tick
    <3> QED BY <2>2, <2>3, <2>4, <2>5, <2>6, <3>1, <3>2 DEF Next, Handler, Reaper
  <2> QED BY <1>1, <2>1, <2>6
<1> QED BY <1>1, SessionsInvariant, PTL DEF Spec, ErasesOwn
=============================================================================
