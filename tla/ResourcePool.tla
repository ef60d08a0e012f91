---------------------------- MODULE ResourcePool ----------------------------
(***************************************************************************)
(* What a connection pool promises to its callers: a set of resources, each *)
(* of which is either free or held by exactly one thread.  There is no      *)
(* mutex, no counter and no condition variable here; module ConnPool shows  *)
(* that the pools of MysqlProxy and MemcacheProxy implement this.           *)
(***************************************************************************)
CONSTANTS Threads, Conns, NoConn

VARIABLES free,   \* the connections nobody holds
          held    \* held[t]: the connection thread t holds, or NoConn

vars == <<free, held>>

Init == /\ free \in SUBSET Conns
        /\ held = [t \in Threads |-> NoConn]

Acquire(t) == /\ held[t] = NoConn
              /\ \E c \in free : /\ free' = free \ {c}
                                 /\ held' = [held EXCEPT ![t] = c]

Release(t) == /\ held[t] # NoConn
              /\ free' = free \cup {held[t]}
              /\ held' = [held EXCEPT ![t] = NoConn]

Next == \E t \in Threads : Acquire(t) \/ Release(t)

Spec == Init /\ [][Next]_vars
=============================================================================
