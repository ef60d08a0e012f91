----------------------------- MODULE QueryCache -----------------------------
(***************************************************************************)
(* Site::fetch_query and the cache behind it, a list of queries in order of *)
(* insertion with an index of list positions.  Worker threads of different  *)
(* sessions share the cache of a site.  A look-up and an insertion each run *)
(* under the cache's mutex; the query that a miss has to run, which may     *)
(* take long and may throw, runs between the two with nothing locked.       *)
(*                                                                          *)
(* fetch is called with touch_data false, so a hit does not move an entry:  *)
(* entries leave in the order in which they were last inserted.             *)
(***************************************************************************)
EXTENDS Naturals, Sequences, SequencesExt

CONSTANTS Workers,
          Contexts, Texts,    \* a query is a text below a context
          NoKey,
          Objects, NoObject,  \* Query objects, as many as there is memory
                              \* for; a free one is used again
          MaxSize             \* query_cache(384)

Keys == Contexts \X Texts

ASSUME QueryCacheAssumption ==
  /\ MaxSize \in Nat \ {0}
  /\ NoObject \notin Objects
  /\ NoKey \notin Keys

VARIABLES list,       \* _list, front first: key and shared_ptr<Query>
          index,      \* _index: the object at the list position of each key
          currSize,   \* _curr_size
          built,      \* the key each Query object was built for
          pc, key,
          query       \* the shared_ptr<Query> each worker holds

vars == <<list, index, currSize, built, pc, key, query>>

Entry(k, q) == [key |-> k, obj |-> q]
Cached == {list[i].obj : i \in DOMAIN list}
InUse == Cached \cup {query[w] : w \in Workers}

TypeOK == /\ list \in Seq([key : Keys, obj : Objects])
          /\ index \in [Keys -> Objects \cup {NoObject}]
          /\ currSize \in 0 .. MaxSize
          /\ built \in [Objects -> Keys \cup {NoKey}]
          /\ pc \in [Workers -> {"idle", "missed", "built", "has"}]
          /\ key \in [Workers -> Keys \cup {NoKey}]
          /\ query \in [Workers -> Objects \cup {NoObject}]

Init == /\ list = <<>>
        /\ index = [k \in Keys |-> NoObject]
        /\ currSize = 0
        /\ built = [q \in Objects |-> NoKey]
        /\ pc = [w \in Workers |-> "idle"]
        /\ key = [w \in Workers |-> NoKey]
        /\ query = [w \in Workers |-> NoObject]

-----------------------------------------------------------------------------
(* A slip: operator< of LRUKey looks at the text only. *)
SameText(k) == {e \in Keys : e[2] = k[2]}
(* The keys that std::map takes for k, by operator< of LRUKey. *)
Same(k) == {k}

(* What _index.find(k) finds. *)
Found(k) == LET hits == {e \in Same(k) : index[e] # NoObject}
            IN  IF hits = {} THEN NoObject ELSE index[CHOOSE e \in hits : TRUE]

(* query_cache.fetch(key, false): a copy of the pointer, or an empty one.   *)
Fetch(w, k) ==
  /\ pc[w] = "idle"
  /\ key' = [key EXCEPT ![w] = k]
  /\ query' = [query EXCEPT ![w] = Found(k)]
  /\ pc' = [pc EXCEPT ![w] = IF Found(k) = NoObject THEN "missed" ELSE "has"]
  /\ UNCHANGED <<list, index, currSize, built>>

(* new Query(this, key.p, key.s).  Objects are interchangeable: any free    *)
(* one will do.                                                             *)
Build(w) ==
  /\ pc[w] = "missed" /\ Objects \ InUse # {}
  /\ LET q == CHOOSE free \in Objects \ InUse : TRUE
     IN  /\ built' = [built EXCEPT ![q] = key[w]]
         /\ query' = [query EXCEPT ![w] = q]
  /\ pc' = [pc EXCEPT ![w] = "built"]
  /\ UNCHANGED <<list, index, currSize, key>>

(* The query is not valid XPath: VaeDbQueryError, nothing is cached.        *)
BuildThrows(w) ==
  /\ pc[w] = "missed"
  /\ pc' = [pc EXCEPT ![w] = "idle"]
  /\ key' = [key EXCEPT ![w] = NoKey]
  /\ UNCHANGED <<list, index, currSize, built, query>>

-----------------------------------------------------------------------------
(* A slip: an entry that another worker has inserted meanwhile is left.     *)
KeepOther(k) == list
(* The list position that the index has for a key it finds. *)
Position(k) == CHOOSE i \in DOMAIN list : list[i].obj = Found(k)
(* _touch, then _remove: the key's entry, if the index has one, goes. *)
Without(k) == IF Found(k) = NoObject THEN list ELSE RemoveAt(list, Position(k))

(* _curr_size after the removal and the insertion. *)
Counted(k) == currSize + 1 - (IF Found(k) = NoObject THEN 0 ELSE 1)

TooMany(n) == n > MaxSize

(* query_cache.insert(key, p_query).  The while loop removes the last       *)
(* element; the sizes are 1, so it runs at most once.                       *)
Insert(w) ==
  LET k == key[w]
      longer == <<Entry(k, query[w])>> \o Without(k)
      with == [index EXCEPT ![k] = query[w]]
      n == Counted(k)
  IN  /\ pc[w] = "built"
      /\ IF TooMany(n)
           THEN /\ list' = Front(longer)
                /\ index' = [with EXCEPT ![Last(longer).key] = NoObject]
                /\ currSize' = n - 1
           ELSE list' = longer /\ index' = with /\ currSize' = n
      /\ pc' = [pc EXCEPT ![w] = "has"]
      /\ UNCHANGED <<built, key, query>>

(* Response::query has read the nodes and drops its pointer. *)
Release(w) == /\ pc[w] = "has"
              /\ pc' = [pc EXCEPT ![w] = "idle"]
              /\ key' = [key EXCEPT ![w] = NoKey]
              /\ query' = [query EXCEPT ![w] = NoObject]
              /\ UNCHANGED <<list, index, currSize, built>>

Next == \E w \in Workers : \/ \E k \in Keys : Fetch(w, k)
                           \/ Build(w) \/ BuildThrows(w) \/ Insert(w) \/ Release(w)

Spec == Init /\ [][Next]_vars

-----------------------------------------------------------------------------
(* Properties *)

(* The index and the list stay each other's inverse, and the counter their  *)
(* size, within the limit, also when several workers miss on one key and    *)
(* insert it one after the other, or an entry is evicted while a worker     *)
(* rebuilds it.                                                             *)
IndexMatchesList ==
  /\ currSize = Len(list) /\ currSize <= MaxSize
  /\ \A k \in Keys, q \in Objects :
       index[k] = q <=> \E i \in DOMAIN list : list[i] = Entry(k, q)

(* A worker works on a query for the key it asked for, although objects are *)
(* replaced and evicted while it holds them, and their memory used again.   *)
RightQuery == \A w \in Workers : query[w] # NoObject => built[query[w]] = key[w]
=============================================================================
