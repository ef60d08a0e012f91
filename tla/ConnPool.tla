------------------------------ MODULE ConnPool ------------------------------
(***************************************************************************)
(* The connection pool of MysqlProxy and, with the same text, of            *)
(* MemcacheProxy: a map from connection to FREE / INUSE, a counter of free  *)
(* connections, one mutex and one condition variable.                       *)
(*                                                                          *)
(* getConnection and freeConnection run under poolMutex from their first    *)
(* line to their last (cond.wait releases it), so each passage through the  *)
(* mutex is one step.  What a thread does between the two is not: it        *)
(* prepares a statement on the connection, runs it, and the C++ destructors *)
(* at the end of the scope close the statement and return the connection in *)
(* the reverse order of their declarations.                                 *)
(***************************************************************************)
EXTENDS Naturals, FiniteSets

CONSTANTS Workers,    \* Thrift worker threads (main.cpp starts 12 by default)
          Collectors, \* threads that call garbageCollect (the Reaper)
          Conns,      \* connection addresses, ordered as std::map orders them
          NoConn      \* the null connection

Threads == Workers \cup Collectors

ASSUME PoolAssumption ==
  /\ IsFiniteSet(Workers) /\ IsFiniteSet(Collectors)
  /\ Workers \cap Collectors = {}
  /\ IsFiniteSet(Conns) /\ Conns \subseteq Nat
  /\ NoConn \notin Conns

VARIABLES connPool,             \* created connections -> "FREE" | "INUSE"
          availableConnections, \* the counter the condition tests
          pc,                   \* where each thread is
          con,                  \* the shared_ptr<Connection> each thread holds
          stmt                  \* the connection its PreparedStatement is on

vars == <<connPool, availableConnections, pc, con, stmt>>

PC == {"out", "waiting", "woken", "holding", "prepared", "done", "freed"}

TypeOK == /\ DOMAIN connPool \subseteq Conns
          /\ connPool \in [DOMAIN connPool -> {"FREE", "INUSE"}]
          /\ availableConnections \in Nat
          /\ pc \in [Threads -> PC]
          /\ con \in [Threads -> Conns \cup {NoConn}]
          /\ stmt \in [Threads -> Conns \cup {NoConn}]

FreeConns == {c \in DOMAIN connPool : connPool[c] = "FREE"}
At(l)     == {t \in Threads : pc[t] = l}

(* The constructor keeps the connections createConnection could open; it    *)
(* returns NULL for one that cannot connect or select the schema.           *)
Opened == SUBSET Conns

Init == /\ \E made \in Opened :
             /\ connPool = [c \in made |-> "FREE"]
             /\ availableConnections = Cardinality(made)
        /\ pc = [t \in Threads |-> "out"]
        /\ con = [t \in Threads |-> NoConn]
        /\ stmt = [t \in Threads |-> NoConn]

-----------------------------------------------------------------------------
(* getConnection *)

(* The condition of the while loop, tested on entry and after every wake-up. *)
NoneAvailable(t) == availableConnections = 0

(* The loop over connPool stops at the first free entry, in address order. *)
IsFirstFree(c) == c \in FreeConns /\ \A d \in FreeConns : c <= d

(* cond.wait: releases poolMutex and blocks. *)
Wait(t) == /\ pc[t] \in {"out", "woken"}
           /\ NoneAvailable(t)
           /\ pc' = [pc EXCEPT ![t] = "waiting"]
           /\ UNCHANGED <<connPool, availableConnections, con, stmt>>

(* A slip: the entry is handed out but not marked. *)
MarkNothing(c) == connPool
MarkInUse(c) == [connPool EXCEPT ![c] = "INUSE"]

(* The loop finds an entry; if none were free the code would throw "Should  *)
(* never get here" (NeverThrows below).                                     *)
Take(t) == /\ pc[t] \in {"out", "woken"}
           /\ ~NoneAvailable(t)
           /\ \E c \in Conns :
                /\ IsFirstFree(c)
                /\ connPool' = MarkInUse(c)
                /\ con' = [con EXCEPT ![t] = c]
           /\ availableConnections' = availableConnections - 1
           /\ pc' = [pc EXCEPT ![t] = "holding"]
           /\ UNCHANGED stmt

-----------------------------------------------------------------------------
(* Using the connection *)

(* garbageCollect declares `stmt` before `con`, every other method after    *)
(* it: C++ destroys `con` first there, while the statement still exists.    *)
FreesBeforeClose(t) == t \in Collectors

(* prepareStatement, then the statement is bound and executed. *)
Prepare(t) == /\ pc[t] = "holding"
              /\ stmt' = [stmt EXCEPT ![t] = con[t]]
              /\ pc' = [pc EXCEPT ![t] = "prepared"]
              /\ UNCHANGED <<connPool, availableConnections, con>>

(* prepareStatement throws and the catch block logs it, or the caller is a  *)
(* memcache operation, which has no statement.                              *)
NoStatement(t) == /\ pc[t] = "holding"
                  /\ pc' = [pc EXCEPT ![t] = "done"]
                  /\ UNCHANGED <<connPool, availableConnections, con, stmt>>

(* ~PreparedStatement: closes the statement on the connection it is on.     *)
CloseStatement(t) ==
  /\ \/ pc[t] = "prepared" /\ ~FreesBeforeClose(t)
        /\ pc' = [pc EXCEPT ![t] = "done"]
     \/ pc[t] = "freed"
        /\ pc' = [pc EXCEPT ![t] = "out"]
  /\ stmt' = [stmt EXCEPT ![t] = NoConn]
  /\ UNCHANGED <<connPool, availableConnections, con>>

(* A slip: notify only when the pool was empty, which wakes too few. *)
NotifyWhenEmpty(self) ==
  IF At("waiting") = {} \/ availableConnections # 0
    THEN pc' = self
    ELSE \E w \in At("waiting") : pc' = [self EXCEPT ![w] = "woken"]
(* A slip: no notify at all. *)
NotifyNobody(self) == pc' = self

(* cond.notify_one: wakes one waiting thread, if there is one.  `self` is   *)
(* pc with the caller already moved on.                                     *)
NotifyOne(self) ==
  IF At("waiting") = {}
    THEN pc' = self
    ELSE \E w \in At("waiting") : pc' = [self EXCEPT ![w] = "woken"]

(* A slip: the counter is not given back. *)
CountUnchanged == availableConnections
CountUp == availableConnections + 1

(* ~shared_ptr<Connection> calls the deleter freeConnection.                *)
FreeConnection(t) ==
  /\ pc[t] = "done" \/ (pc[t] = "prepared" /\ FreesBeforeClose(t))
  /\ connPool' = [connPool EXCEPT ![con[t]] = "FREE"]
  /\ availableConnections' = CountUp
  /\ con' = [con EXCEPT ![t] = NoConn]
  /\ NotifyOne([pc EXCEPT ![t] = IF pc[t] = "done" THEN "out" ELSE "freed"])
  /\ UNCHANGED stmt

-----------------------------------------------------------------------------
(* boost::condition_variable may wake a waiter that nobody notified. *)
SpuriousWakeup(t) == /\ pc[t] = "waiting"
                     /\ pc' = [pc EXCEPT ![t] = "woken"]
                     /\ UNCHANGED <<connPool, availableConnections, con, stmt>>

Step(t) == \/ Wait(t) \/ Take(t)
           \/ Prepare(t) \/ NoStatement(t) \/ CloseStatement(t) \/ FreeConnection(t)

Next == \E t \in Threads : Step(t) \/ SpuriousWakeup(t)

Spec == Init /\ [][Next]_vars

(* The server answers every statement and the scheduler runs every runnable *)
(* thread, so a thread that holds a connection gives it back.  Nothing is   *)
(* assumed of threads that compete for the mutex.                           *)
Fairness == \A t \in Threads :
              WF_vars(Prepare(t) \/ NoStatement(t) \/ CloseStatement(t) \/ FreeConnection(t))

FairSpec == Spec /\ Fairness

-----------------------------------------------------------------------------
(* Properties *)

(* The counter that getConnection waits on is the number of FREE entries:   *)
(* every path through take and free keeps the two in step.                  *)
CounterMatchesPool == availableConnections = Cardinality(FreeConns)

(* A connection is never handed to two threads at once, and one that is     *)
(* held is never on offer.                                                  *)
ExclusiveUse == \A t \in Threads : con[t] # NoConn =>
                  /\ con[t] \notin FreeConns
                  /\ \A u \in Threads \ {t} : con[u] # con[t]

(* The throw after the loop of getConnection, "Should never get here", is   *)
(* dead: a thread that leaves the while loop finds a FREE entry.            *)
NeverThrows == \A t \in At("out") \cup At("woken") :
                 ~NoneAvailable(t) => FreeConns # {}

(* No lost wake-up: when threads are blocked on the condition variable,     *)
(* every connection on offer has a woken thread on its way to it.  Barging  *)
(* callers and spurious wake-ups are allowed for.                           *)
NoLostWakeup == At("waiting") # {} =>
                  availableConnections <= Cardinality(At("woken"))

(* What POOL_FREE says: no statement is open on a connection that is free.  *)
FreeMeansUnused == \A t \in Threads : stmt[t] \notin FreeConns

(* A thread blocked on an exhausted pool does not stay blocked with         *)
(* everybody else asleep: if any connection was ever opened, somebody is    *)
(* woken.                                                                   *)
WaiterWoken == (At("waiting") # {} /\ DOMAIN connPool # {}) ~> (At("woken") # {})

(* The pool implements the abstract pool: one holder for each connection.   *)
Pool == INSTANCE ResourcePool WITH free <- FreeConns, held <- con
ImplementsPool == Pool!Spec
=============================================================================
