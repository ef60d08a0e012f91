----------------------------- MODULE ContextData -----------------------------
(***************************************************************************)
(* What one Context keeps for its readers: the map of its fields, filled at *)
(* the first use, and the results of queries and counts below it.  Worker   *)
(* threads of many sessions read one Context.  dataPopulated is read with   *)
(* nothing locked, the map is then copied with nothing locked; filling and  *)
(* the caches are under the Context's mutex.  Reads and writes take effect  *)
(* in the order of the program: the flag is a plain bool, and what a        *)
(* compiler or processor may reorder around it is not in the model.         *)
(***************************************************************************)
EXTENDS Naturals, FiniteSets

CONSTANTS Workers,
          Fields,      \* the names of the child elements with a text
          Paths,       \* queries that are not the name of one
          BadPaths,    \* those among them that are not XPath
          Empty,       \* the query ""
          NoWorker

Queries == Fields \cup Paths \cup {Empty}

(* What the constants are. *)
ContextAssumption ==
  /\ Fields \cap Paths = {} /\ BadPaths \subseteq Paths
  /\ Empty \notin Fields \cup Paths
  /\ NoWorker \notin Workers

VARIABLES data,           \* the fields that are in the map
          dataPopulated,
          cachedQueries, cachedCounts,   \* the queries with an entry
          mutex,
          pc, op, query,  \* of every worker's call
          copy,           \* what toVaeDbDataForContext has copied
          read            \* the fields it has yet to copy

vars == <<data, dataPopulated, cachedQueries, cachedCounts, mutex, pc, op, query, copy, read>>

Ops == {"getData", "getCount", "toVaeDbDataForContext"}

TypeOK ==
  /\ data \subseteq Fields /\ dataPopulated \in BOOLEAN
  /\ cachedQueries \subseteq (Fields \cup Paths) \ BadPaths /\ cachedCounts \subseteq (Fields \cup Paths) \ BadPaths
  /\ mutex \in Workers \cup {NoWorker}
  /\ pc \in [Workers -> {"idle", "fill", "filling", "lookup", "locked", "copy"}]
  /\ op \in [Workers -> Ops] /\ query \in [Workers -> Queries]
  /\ copy \in [Workers -> SUBSET Fields] /\ read \in [Workers -> SUBSET Fields]

Init ==
  /\ data = {} /\ dataPopulated = FALSE
  /\ cachedQueries = {} /\ cachedCounts = {}
  /\ mutex = NoWorker
  /\ pc = [w \in Workers |-> "idle"]
  /\ op = [w \in Workers |-> "getData"] /\ query = [w \in Workers |-> Empty]
  /\ copy = [w \in Workers |-> {}] /\ read = [w \in Workers |-> {}]

Goto(w, l) == pc' = [pc EXCEPT ![w] = l]
(* The call returns or throws. *)
Return(w) ==
  /\ Goto(w, "idle")
  /\ op' = [op EXCEPT ![w] = "getData"] /\ query' = [query EXCEPT ![w] = Empty]
  /\ copy' = [copy EXCEPT ![w] = {}]
After(o) == IF o = "getData" THEN "lookup" ELSE "copy"

-----------------------------------------------------------------------------
(* A call, up to the test of dataPopulated; a getCount makes none.          *)
Call(w, o, q) ==
  /\ pc[w] = "idle"
  /\ op' = [op EXCEPT ![w] = o] /\ query' = [query EXCEPT ![w] = q]
  /\ copy' = [copy EXCEPT ![w] = {}]
  /\ Goto(w, IF o = "getCount" THEN "lookup" ELSE IF dataPopulated THEN After(o) ELSE "fill")
  /\ read' = [read EXCEPT ![w] = IF pc'[w] = "copy" THEN data ELSE {}]
  /\ UNCHANGED <<data, dataPopulated, cachedQueries, cachedCounts, mutex>>

(* A slip: dataPopulated is set when filling begins. *)
SetsAtOnce == TRUE
SetsFirst == dataPopulated

(* populateData has the mutex: another one may have filled the map since.   *)
Fill(w) ==
  /\ pc[w] = "fill" /\ mutex = NoWorker
  /\ IF dataPopulated
       THEN /\ Goto(w, After(op[w])) /\ UNCHANGED mutex
            /\ read' = [read EXCEPT ![w] = IF op[w] = "getData" THEN {} ELSE data]
       ELSE Goto(w, "filling") /\ mutex' = w /\ UNCHANGED read
  /\ dataPopulated' = SetsFirst
  /\ UNCHANGED <<data, cachedQueries, cachedCounts, op, query, copy>>

(* One round of the loop over the children. *)
Enter(w, f) ==
  /\ pc[w] = "filling" /\ f \in Fields \ data
  /\ data' = data \cup {f}
  /\ UNCHANGED <<dataPopulated, cachedQueries, cachedCounts, mutex, pc, op, query, copy, read>>

Filled(w) ==
  /\ pc[w] = "filling" /\ data = Fields
  /\ dataPopulated' = TRUE
  /\ mutex' = NoWorker
  /\ Goto(w, After(op[w]))
  /\ read' = [read EXCEPT ![w] = IF op[w] = "getData" THEN {} ELSE data]
  /\ UNCHANGED <<data, cachedQueries, cachedCounts, op, query, copy>>

(* `_return.data = data`, entry by entry. *)
Copy(w, f) ==
  /\ pc[w] = "copy" /\ f \in read[w]
  /\ copy' = [copy EXCEPT ![w] = @ \cup {f}]
  /\ read' = [read EXCEPT ![w] = @ \ {f}]
  /\ UNCHANGED <<data, dataPopulated, cachedQueries, cachedCounts, mutex, pc, op, query>>

Copied(w) ==
  /\ pc[w] = "copy" /\ read[w] = {}
  /\ Return(w)
  /\ UNCHANGED <<data, dataPopulated, cachedQueries, cachedCounts, mutex, read>>

-----------------------------------------------------------------------------
Lock(w) ==
  /\ pc[w] = "lookup" /\ mutex = NoWorker
  /\ mutex' = w
  /\ Goto(w, "locked")
  /\ UNCHANGED <<data, dataPopulated, cachedQueries, cachedCounts, op, query, copy, read>>

Throws(w) == query[w] \in BadPaths \cup {Empty}

(* The rest of getData: "" is an error; a field comes from the map, another *)
(* query from its cache or from a Query, which may throw and is not kept    *)
(* then.  ~unique_lock runs on every way out.                               *)
GetData(w) ==
  /\ pc[w] = "locked" /\ op[w] = "getData"
  /\ cachedQueries' = cachedQueries \cup (IF Throws(w) THEN {} ELSE {query[w]} \ data)
  /\ mutex' = NoWorker
  /\ Return(w)
  /\ UNCHANGED <<data, dataPopulated, cachedCounts, read>>

(* The rest of getCount; "" is a query that is not XPath here. *)
GetCount(w) ==
  /\ pc[w] = "locked" /\ op[w] = "getCount"
  /\ cachedCounts' = cachedCounts \cup (IF Throws(w) THEN {} ELSE {query[w]})
  /\ mutex' = NoWorker
  /\ Return(w)
  /\ UNCHANGED <<data, dataPopulated, cachedQueries, read>>

Step(w) == \/ Fill(w) \/ Filled(w) \/ Copied(w) \/ Lock(w) \/ GetData(w) \/ GetCount(w)
           \/ \E f \in Fields : Enter(w, f) \/ Copy(w, f)

Next == \E w \in Workers : Step(w) \/ \E o \in Ops, q \in Queries : Call(w, o, q)

Spec == Init /\ [][Next]_vars

-----------------------------------------------------------------------------
(* Properties *)

(* The map is whole for everybody who takes it for filled, although the     *)
(* flag is read and the map copied with nothing locked: no copy lacks a     *)
(* field, and no field is taken for a query because it is not there yet.    *)
WholeData ==
  /\ \A w \in Workers : pc[w] = "copy" => copy[w] \cup read[w] = Fields
  /\ cachedQueries \cap Fields = {}
=============================================================================
