--------------------------- MODULE ConnPoolProofs ---------------------------
(***************************************************************************)
(* The connection pool is correct for any number of threads and             *)
(* connections.  Inv is inductive: the counter and the FREE entries agree   *)
(* only because a connection that is held is INUSE, and that needs to know  *)
(* at which points of the code a thread holds one.                          *)
(***************************************************************************)
EXTENDS ConnPool, FiniteSetTheorems, TLAPS

(* A thread holds a connection between getConnection and freeConnection,    *)
(* and the connection is one of the pool.                                   *)
Holding(t) == pc[t] \in {"holding", "prepared", "done"}
HeldInPool == \A t \in Threads : /\ con[t] # NoConn <=> Holding(t)
                                 /\ con[t] # NoConn => con[t] \in DOMAIN connPool

Inv == /\ TypeOK
       /\ HeldInPool
       /\ ExclusiveUse
       /\ CounterMatchesPool
       /\ NoLostWakeup

-----------------------------------------------------------------------------
(* The sets that are counted are finite. *)
LEMMA Finite ==
  ASSUME TypeOK
  PROVE  IsFiniteSet(FreeConns) /\ Cardinality(FreeConns) \in Nat
<1>1. FreeConns \in SUBSET Conns
  BY DEF TypeOK, FreeConns
<1> QED BY <1>1, FS_Subset, FS_CardinalityType, PoolAssumption

(* The sets of threads that Cardinality is applied to are finite. *)
LEMMA FiniteThreads ==
  ASSUME NEW S \in SUBSET Threads
  PROVE  IsFiniteSet(S) /\ Cardinality(S) \in Nat
<1>1. IsFiniteSet(Threads)
  BY FS_Union, PoolAssumption DEF Threads
<1> QED BY <1>1, FS_Subset, FS_CardinalityType

(* The constructor's pool: all entries FREE, and as many as it counted. *)
LEMMA InitInv == Init => Inv
<1> SUFFICES ASSUME Init PROVE Inv
  OBVIOUS
<1>1. PICK made \in SUBSET Conns :
        connPool = [c \in made |-> "FREE"] /\ availableConnections = Cardinality(made)
  BY DEF Init, Opened
<1>2. FreeConns = made
  BY <1>1 DEF FreeConns
<1>3. availableConnections \in Nat
  BY <1>1, FS_Subset, FS_CardinalityType, PoolAssumption
<1>4. TypeOK
  BY <1>1, <1>3 DEF Init, TypeOK, PC
<1>5. HeldInPool /\ ExclusiveUse
  BY DEF Init, HeldInPool, Holding, ExclusiveUse
<1>6. At("waiting") = {}
  BY DEF Init, At
<1> QED BY <1>1, <1>2, <1>4, <1>5, <1>6 DEF Inv, CounterMatchesPool, NoLostWakeup

-----------------------------------------------------------------------------
(* getConnection takes an entry that was FREE, out of the set and the       *)
(* count, and gives it to a thread that held none.                          *)
LEMMA TakeEffect ==
  ASSUME Inv, NEW t \in Threads, Take(t)
  PROVE  \E c \in FreeConns : /\ FreeConns' = FreeConns \ {c}
                              /\ con' = [con EXCEPT ![t] = c]
                              /\ DOMAIN connPool' = DOMAIN connPool
                              /\ TypeOK'
<1>1. PICK c \in Conns : IsFirstFree(c) /\ connPool' = MarkInUse(c) /\ con' = [con EXCEPT ![t] = c]
  BY DEF Take
<1>2. c \in FreeConns /\ c \in DOMAIN connPool
  BY <1>1 DEF IsFirstFree, FreeConns
<1>3. FreeConns' = FreeConns \ {c}
  BY <1>1, <1>2 DEF FreeConns, MarkInUse, Inv, TypeOK
<1>4. availableConnections' \in Nat
  BY DEF Take, NoneAvailable, Inv, TypeOK
<1>5. TypeOK'
  BY <1>1, <1>2, <1>4 DEF Take, MarkInUse, Inv, TypeOK, PC
<1>6. DOMAIN connPool' = DOMAIN connPool
  BY <1>1, <1>2 DEF MarkInUse, Inv, TypeOK
<1> QED BY <1>1, <1>2, <1>3, <1>5, <1>6

(* freeConnection puts back the connection its caller held. *)
LEMMA FreeEffect ==
  ASSUME Inv, NEW t \in Threads, FreeConnection(t)
  PROVE  /\ con[t] \in DOMAIN connPool /\ con[t] \notin FreeConns /\ con[t] # NoConn
         /\ FreeConns' = FreeConns \cup {con[t]}
         /\ con' = [con EXCEPT ![t] = NoConn]
         /\ DOMAIN connPool' = DOMAIN connPool
         /\ pc[t] \notin {"waiting", "woken"}
         /\ \E l \in {"out", "freed"} :
              \/ At("waiting") = {} /\ pc' = [pc EXCEPT ![t] = l]
              \/ \E w \in At("waiting") : pc' = [pc EXCEPT ![t] = l, ![w] = "woken"]
<1>1. Holding(t)
  BY DEF FreeConnection, Holding
<1>2. con[t] \in DOMAIN connPool /\ con[t] \notin FreeConns /\ con[t] # NoConn
  BY <1>1 DEF Inv, HeldInPool, ExclusiveUse
<1>3. FreeConns' = FreeConns \cup {con[t]}
  BY <1>2 DEF FreeConnection, FreeConns, Inv, TypeOK
<1>4. DOMAIN connPool' = DOMAIN connPool
  BY DEF FreeConnection, Inv, TypeOK
<1>5. pc[t] \notin {"waiting", "woken"}
  BY DEF FreeConnection
<1>6. \E l \in {"out", "freed"} :
         \/ At("waiting") = {} /\ pc' = [pc EXCEPT ![t] = l]
         \/ \E w \in At("waiting") : pc' = [pc EXCEPT ![t] = l, ![w] = "woken"]
  <2> DEFINE l == IF pc[t] = "done" THEN "out" ELSE "freed"
  <2>1. NotifyOne([pc EXCEPT ![t] = l])
    BY DEF FreeConnection
  <2> QED BY <2>1 DEF NotifyOne
<1> QED BY <1>2, <1>3, <1>4, <1>5, <1>6 DEF FreeConnection

(* A step that leaves the pool and the holders alone, and in which nobody   *)
(* starts to wait or stops being on the way, keeps the counts.              *)
LEMMA QuietStep ==
  ASSUME Inv, NEW t \in Threads, NEW l \in PC \ {"waiting", "woken"},
         pc[t] \notin {"waiting", "woken"}, pc' = [pc EXCEPT ![t] = l],
         UNCHANGED <<connPool, availableConnections>>
  PROVE  CounterMatchesPool' /\ NoLostWakeup'
<1>1. FreeConns' = FreeConns
  BY DEF FreeConns
<1>2. At("waiting")' = At("waiting") /\ At("woken")' = At("woken")
  BY DEF At, Inv, TypeOK
<1> QED BY <1>1, <1>2 DEF Inv, CounterMatchesPool, NoLostWakeup

(* A thread goes to sleep only when the counter is 0. *)
LEMMA WaitInv == ASSUME Inv, NEW t \in Threads, Wait(t) PROVE Inv'
<1> USE DEF Wait
<1>1. TypeOK'
  BY DEF Inv, TypeOK, PC
<1>2. HeldInPool' /\ ExclusiveUse'
  BY DEF Inv, TypeOK, HeldInPool, ExclusiveUse, Holding, FreeConns
<1>3. CounterMatchesPool'
  BY DEF Inv, CounterMatchesPool, FreeConns
<1>4. NoLostWakeup'
  <2>1. Cardinality(At("woken"))' \in Nat
    <3>1. At("woken")' \in SUBSET Threads
      BY DEF At
    <3> QED BY <3>1, FiniteThreads
  <2> QED BY <2>1 DEF NoLostWakeup, NoneAvailable
<1> QED BY <1>1, <1>2, <1>3, <1>4 DEF Inv

(* One entry, one count and one woken or new caller less. *)
LEMMA TakeInv == ASSUME Inv, NEW t \in Threads, Take(t) PROVE Inv'
<1>1. PICK c \in FreeConns : /\ FreeConns' = FreeConns \ {c}
                            /\ con' = [con EXCEPT ![t] = c]
                            /\ DOMAIN connPool' = DOMAIN connPool
                            /\ TypeOK'
  BY TakeEffect
<1>2. c \in DOMAIN connPool /\ c # NoConn
  BY PoolAssumption DEF FreeConns, Inv, TypeOK
<1>3. pc' = [pc EXCEPT ![t] = "holding"] /\ pc \in [Threads -> PC] /\ con \in [Threads -> Conns \cup {NoConn}]
  BY DEF Take, Inv, TypeOK
<1>4. HeldInPool'
  BY <1>1, <1>2, <1>3 DEF Inv, HeldInPool, Holding
<1>5. \A u \in Threads : con[u] # c
  BY <1>2 DEF Inv, ExclusiveUse
<1>6. ExclusiveUse'
  BY <1>1, <1>3, <1>5 DEF Inv, ExclusiveUse
<1>7. availableConnections' = availableConnections - 1
  BY DEF Take
<1>8. CounterMatchesPool'
  BY <1>1, <1>7, Finite, FS_RemoveElement DEF Inv, CounterMatchesPool
<1>9. NoLostWakeup'
  <2>1. At("waiting")' = At("waiting")
    BY <1>3 DEF At, Take
  <2>2. At("woken")' = At("woken") \ {t}
    BY <1>3 DEF At
  <2>3. IsFiniteSet(At("woken")) /\ Cardinality(At("woken")) \in Nat
    BY FiniteThreads DEF At
  <2>4. Cardinality(At("woken"))' \in {Cardinality(At("woken")), Cardinality(At("woken")) - 1}
    BY <2>2, <2>3, FS_RemoveElement
  <2>5. availableConnections \in Nat
    BY DEF Inv, TypeOK
  <2> QED BY <1>7, <2>1, <2>3, <2>4, <2>5 DEF Inv, NoLostWakeup
<1> QED BY <1>1, <1>4, <1>6, <1>8, <1>9 DEF Inv

(* One entry and one count more, and one more woken thread if any waits. *)
LEMMA FreeInv == ASSUME Inv, NEW t \in Threads, FreeConnection(t) PROVE Inv'
<1>1. PICK l \in {"out", "freed"} :
         \/ At("waiting") = {} /\ pc' = [pc EXCEPT ![t] = l]
         \/ \E w \in At("waiting") : pc' = [pc EXCEPT ![t] = l, ![w] = "woken"]
  BY FreeEffect
<1>2. /\ con[t] \in DOMAIN connPool /\ con[t] \notin FreeConns /\ con[t] # NoConn
      /\ FreeConns' = FreeConns \cup {con[t]}
      /\ con' = [con EXCEPT ![t] = NoConn]
      /\ DOMAIN connPool' = DOMAIN connPool
      /\ pc[t] \notin {"waiting", "woken"}
  BY FreeEffect
<1>3. pc \in [Threads -> PC] /\ con \in [Threads -> Conns \cup {NoConn}]
  BY DEF Inv, TypeOK
<1>4. availableConnections' = availableConnections + 1 /\ availableConnections \in Nat
  BY DEF FreeConnection, CountUp, Inv, TypeOK
<1>5. pc' \in [Threads -> PC] /\ \A u \in Threads : Holding(u)' <=> Holding(u) /\ u # t
  BY <1>1, <1>2, <1>3 DEF At, PC, Holding
<1>6. TypeOK'
  BY <1>2, <1>3, <1>4, <1>5 DEF FreeConnection, Inv, TypeOK
<1>7. HeldInPool'
  BY <1>2, <1>3, <1>5 DEF Inv, HeldInPool
<1>8. ExclusiveUse'
  BY <1>2, <1>3 DEF Inv, ExclusiveUse
<1>9. CounterMatchesPool'
  BY <1>2, <1>4, Finite, FS_AddElement DEF Inv, CounterMatchesPool
<1>10. NoLostWakeup'
  <2>1. CASE At("waiting") = {} /\ pc' = [pc EXCEPT ![t] = l]
    <3>1. At("waiting")' = {}
      BY <2>1, <1>3 DEF At
    <3> QED BY <3>1 DEF NoLostWakeup
  <2>2. CASE \E w \in At("waiting") : pc' = [pc EXCEPT ![t] = l, ![w] = "woken"]
    <3>1. PICK w \in At("waiting") : pc' = [pc EXCEPT ![t] = l, ![w] = "woken"]
      BY <2>2
    <3>2. At("woken")' = At("woken") \cup {w} /\ w \notin At("woken")
      BY <3>1, <1>2, <1>3 DEF At
    <3>3. Cardinality(At("woken"))' = Cardinality(At("woken")) + 1 /\ Cardinality(At("woken")) \in Nat
      <4>1. IsFiniteSet(At("woken")) /\ Cardinality(At("woken")) \in Nat
        BY FiniteThreads DEF At
      <4> QED BY <4>1, <3>2, FS_AddElement
    <3> QED BY <3>1, <3>3, <1>4 DEF Inv, NoLostWakeup
  <2> QED BY <2>1, <2>2, <1>1
<1> QED BY <1>6, <1>7, <1>8, <1>9, <1>10 DEF Inv

(* A spurious wake-up adds a woken thread and changes nothing else. *)
LEMMA WakeupInv == ASSUME Inv, NEW t \in Threads, SpuriousWakeup(t) PROVE Inv'
<1> USE DEF SpuriousWakeup
<1>1. TypeOK' /\ HeldInPool' /\ ExclusiveUse' /\ CounterMatchesPool'
  BY DEF Inv, TypeOK, PC, HeldInPool, Holding, ExclusiveUse, CounterMatchesPool, FreeConns
<1>2. At("woken")' = At("woken") \cup {t} /\ At("waiting") # {}
  BY DEF At, Inv, TypeOK
<1>3. /\ Cardinality(At("woken")) \in Nat
      /\ Cardinality(At("woken"))' \in {Cardinality(At("woken")), Cardinality(At("woken")) + 1}
  <2>1. IsFiniteSet(At("woken")) /\ Cardinality(At("woken")) \in Nat
    BY FiniteThreads DEF At
  <2> QED BY <1>2, <2>1, FS_AddElement
<1>4. NoLostWakeup'
  BY <1>2, <1>3 DEF Inv, TypeOK, NoLostWakeup
<1> QED BY <1>1, <1>4 DEF Inv

(* Preparing, not preparing and closing a statement. *)
LEMMA StatementInv ==
  ASSUME Inv, NEW t \in Threads, Prepare(t) \/ NoStatement(t) \/ CloseStatement(t)
  PROVE  Inv'
<1>1. PICK l \in {"prepared", "done", "out"} : pc' = [pc EXCEPT ![t] = l] /\ (l = "out" <=> pc[t] = "freed")
  BY DEF Prepare, NoStatement, CloseStatement
<1>2. pc[t] \in {"holding", "prepared", "freed"} /\ UNCHANGED <<connPool, availableConnections, con>>
  BY DEF Prepare, NoStatement, CloseStatement
<1>3. stmt' \in [Threads -> Conns \cup {NoConn}]
  BY DEF Prepare, NoStatement, CloseStatement, Inv, TypeOK
<1>4. TypeOK'
  BY <1>1, <1>2, <1>3 DEF Inv, TypeOK, PC
<1>5. HeldInPool' /\ ExclusiveUse'
  BY <1>1, <1>2 DEF Inv, TypeOK, HeldInPool, Holding, ExclusiveUse, FreeConns
<1>6. CounterMatchesPool' /\ NoLostWakeup'
  BY <1>1, <1>2, QuietStep DEF PC
<1> QED BY <1>4, <1>5, <1>6 DEF Inv

(* Nothing changes. *)
LEMMA StutterInv == ASSUME Inv, UNCHANGED vars PROVE Inv'
BY DEF vars, Inv, TypeOK, HeldInPool, Holding, ExclusiveUse, CounterMatchesPool, NoLostWakeup,
       FreeConns, At

-----------------------------------------------------------------------------
(* The pool of MysqlProxy and MemcacheProxy keeps Inv, for any number of    *)
(* threads and connections.                                                 *)
THEOREM PoolInvariant == Spec => []Inv
<1>1. ASSUME Inv, [Next]_vars PROVE Inv'
  <2>1. CASE UNCHANGED vars
    BY <1>1, <2>1, StutterInv
  <2>2. CASE Next
    <3>1. PICK t \in Threads : Step(t) \/ SpuriousWakeup(t)
      BY <2>2 DEF Next
    <3> QED BY <1>1, <3>1, WaitInv, TakeInv, FreeInv, WakeupInv, StatementInv DEF Step
  <2> QED BY <1>1, <2>1, <2>2
<1> QED BY <1>1, InitInv, PTL DEF Spec

(* The counter the code waits on is the number of FREE entries. *)
THEOREM CounterCorrect == Spec => []CounterMatchesPool
<1>1. Inv => CounterMatchesPool
  BY DEF Inv
<1> QED BY <1>1, PoolInvariant, PTL

(* getConnection never gives one connection to two threads. *)
THEOREM Exclusive == Spec => []ExclusiveUse
<1>1. Inv => ExclusiveUse
  BY DEF Inv
<1> QED BY <1>1, PoolInvariant, PTL

(* No wake-up is lost: while anybody waits, every free connection has a     *)
(* woken thread coming for it.                                              *)
THEOREM WakeupsSuffice == Spec => []NoLostWakeup
<1>1. Inv => NoLostWakeup
  BY DEF Inv
<1> QED BY <1>1, PoolInvariant, PTL

(* "Should never get here" at the end of getConnection is right. *)
THEOREM ThrowIsDead == Spec => []NeverThrows
<1>1. Inv => NeverThrows
  <2> SUFFICES ASSUME Inv, NEW t \in Threads, ~NoneAvailable(t) PROVE FreeConns # {}
    BY DEF NeverThrows, At
  <2> QED BY FS_EmptySet DEF NoneAvailable, Inv, CounterMatchesPool
<1> QED BY <1>1, PoolInvariant, PTL

(* The pool implements the abstract pool: getConnection is Acquire,         *)
(* freeConnection is Release, and every other step is invisible.            *)
THEOREM Refinement == Spec => ImplementsPool
<1>1. Init => Pool!Init
  BY DEF Init, Pool!Init, Opened, FreeConns
<1>2. ASSUME Inv, [Next]_vars PROVE [Pool!Next]_(Pool!vars)
  <2>1. CASE UNCHANGED vars
    BY <2>1 DEF vars, Pool!vars, FreeConns
  <2>2. ASSUME NEW t \in Threads, Take(t) PROVE Pool!Acquire(t)
    <3>1. con[t] = NoConn
      BY <1>2, <2>2 DEF Take, Inv, HeldInPool, Holding
    <3> QED BY <1>2, <2>2, <3>1, TakeEffect DEF Pool!Acquire
  <2>3. ASSUME NEW t \in Threads, FreeConnection(t) PROVE Pool!Release(t)
    BY <1>2, <2>3, FreeEffect DEF Pool!Release
  <2>4. ASSUME NEW t \in Threads,
               Wait(t) \/ Prepare(t) \/ NoStatement(t) \/ CloseStatement(t) \/ SpuriousWakeup(t)
        PROVE  UNCHANGED Pool!vars
    BY <2>4 DEF Wait, Prepare, NoStatement, CloseStatement, SpuriousWakeup, Pool!vars, FreeConns
  <2>5. CASE Next
    <3>1. PICK t \in Threads : Step(t) \/ SpuriousWakeup(t)
      BY <2>5 DEF Next
    <3> QED BY <3>1, <2>2, <2>3, <2>4 DEF Step, Pool!Next
  <2> QED BY <1>2, <2>1, <2>5
<1> QED BY <1>1, <1>2, PoolInvariant, PTL DEF Spec, ImplementsPool, Pool!Spec
=============================================================================
