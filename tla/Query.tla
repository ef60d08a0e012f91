-------------------------------- MODULE Query --------------------------------
(***************************************************************************)
(* Query::Query, the run of one query below a Context or from the root: a   *)
(* leading "/" makes it absolute, permalink/... and a leading id choose     *)
(* another node to start from, prev() and next() its siblings, and the rest *)
(* is rewritten and given to libxml2.  The XPath objects made on the way    *)
(* belong to the Query.                                                     *)
(*                                                                          *)
(* A query is a sequence of the parts between slashes.  What the rewriting  *)
(* of predicates makes of it matters to libxml2 only, whose answer is any   *)
(* (external).                                                              *)
(***************************************************************************)
EXTENDS Naturals, Sequences, FiniteSets

CONSTANTS Texts,        \* the queries: [absolute, parts]
          Numbers,      \* parts that are numbers
          Contexts,     \* the nodes a client may query below
          Permalinks,   \* paths that are permalinks; Site::permalinks
          KnownIds      \* the numbers in Site::nodes

(* What the constants are. *)
QueryAssumption ==
  /\ \A t \in Texts : t.parts \in Seq(STRING) /\ t.parts # <<>>
  /\ KnownIds \subseteq Numbers

NoNode == <<"none", <<>>>>
PermalinkNode(path) == <<"permalink", path>>
IdNode(n) == <<"id", <<n>>>>

VARIABLES text, below,  \* the arguments
          context, query,
          at,           \* where the constructor is
          made, freed,  \* XPath objects so far
          result,       \* the single node or the kind of list found
          strange       \* libxml2 has returned something else than nodes

vars == <<text, below, context, query, at, made, freed, result, strange>>

Init ==
  /\ text \in Texts /\ below \in Contexts \cup {NoNode}
  /\ context = below /\ query = text.parts
  /\ at = "start"
  /\ made = 0 /\ freed = 0
  /\ result = NoNode /\ strange = FALSE

(* result(node): a node set with one node or none. *)
Result(node) == made' = made + 1 /\ result' = node /\ at' = "done"

-----------------------------------------------------------------------------
(* A slip: an absolute query keeps the context. *)
KeepsContext == below
StartContext == IF text.absolute THEN NoNode ELSE below

Start ==
  /\ at = "start"
  /\ context' = StartContext
  /\ at' = "permalink"
  /\ UNCHANGED <<text, below, query, made, freed, result, strange>>

(* The loop over i, from the whole path down. *)
KnownPrefixes(path) == {n \in 1 .. Len(path) : SubSeq(path, 1, n) \in Permalinks}
Longest(path) == CHOOSE n \in KnownPrefixes(path) : \A m \in KnownPrefixes(path) : m <= n

ByPermalink ==
  LET path == Tail(query)
      n == Longest(path)
  IN  /\ at = "permalink"
      /\ IF Len(query) < 2 \/ query[1] # "permalink"
           THEN at' = "id" /\ UNCHANGED <<context, query, made, result>>
         ELSE IF KnownPrefixes(path) = {}
           THEN Result(NoNode) /\ UNCHANGED <<context, query>>
         ELSE IF n = Len(path)
           THEN Result(PermalinkNode(path)) /\ UNCHANGED <<context, query>>
         ELSE /\ context' = PermalinkNode(SubSeq(path, 1, n))
              /\ query' = SubSeq(path, n + 1, Len(path))
              /\ at' = "id" /\ UNCHANGED <<made, result>>
      /\ UNCHANGED <<text, below, freed, strange>>

(* A slip: the node set with the node of the id is not freed. *)
KeepsFound == freed
(* xmlXPathFreeObject of it. *)
FreesFound == freed + 1

ById ==
  /\ at = "id"
  /\ IF query[1] \notin Numbers
       THEN at' = "sibling" /\ UNCHANGED <<context, query, made, freed, result>>
     ELSE IF query[1] \in KnownIds /\ Len(query) > 1
       THEN /\ context' = IdNode(query[1]) /\ query' = Tail(query)
            /\ made' = made + 1 /\ freed' = FreesFound
            /\ at' = "sibling" /\ UNCHANGED result
     ELSE /\ Result(IF query[1] \in KnownIds THEN IdNode(query[1]) ELSE NoNode)
          /\ UNCHANGED <<context, query, freed>>
  /\ UNCHANGED <<text, below, strange>>

Sibling ==
  /\ at = "sibling"
  /\ at' = IF query \in {<<"prev()">>, <<"next()">>} /\ context = NoNode THEN "thrown" ELSE "rewrite"
  /\ UNCHANGED <<text, below, context, query, made, freed, result, strange>>

(* An empty part is a double slash. *)
Rewrite ==
  /\ at = "rewrite"
  /\ at' = IF \E i \in 2 .. Len(query) - 1 : query[i] = "" THEN "thrown" ELSE "run"
  /\ UNCHANGED <<text, below, context, query, made, freed, result, strange>>

(* runQuery and runRawQuery: no XPath, no nodes, a list, or a list that     *)
(* begins with the root, which is replaced by an empty one.                 *)
NotXPath ==
  /\ at = "run" /\ at' = "thrown"
  /\ UNCHANGED <<text, below, context, query, made, freed, result, strange>>

NotNodes ==
  /\ at = "run" /\ at' = "thrown"
  /\ made' = made + 1 /\ strange' = TRUE
  /\ UNCHANGED <<text, below, context, query, freed, result>>

Found ==
  /\ at = "run" /\ at' = "done"
  /\ made' = made + 1 /\ result' = <<"below", <<>>>>
  /\ UNCHANGED <<text, below, context, query, freed, strange>>

FoundRoot ==
  /\ at = "run" /\ at' = "done"
  /\ made' = made + 2 /\ freed' = freed + 1 /\ result' = NoNode
  /\ UNCHANGED <<text, below, context, query, strange>>

(* ~Query; it is not run when the constructor throws. *)
Destroy ==
  /\ at = "done" /\ at' = "gone"
  /\ freed' = freed + 1
  /\ UNCHANGED <<text, below, context, query, made, result, strange>>

Finished == at \in {"gone", "thrown"} /\ UNCHANGED vars

Next == Start \/ ByPermalink \/ ById \/ Sibling \/ Rewrite \/ NotXPath \/ NotNodes \/ Found \/ FoundRoot
        \/ Destroy \/ Finished

Spec == Init /\ [][Next]_vars

-----------------------------------------------------------------------------
(* Properties *)

(* Whatever way a Query takes, it has one XPath object when it is built and *)
(* none is left when it is gone; a constructor that throws leaves none      *)
(* behind either, but for the one of a result that is not nodes.            *)
ObjectsFreed ==
  /\ freed <= made
  /\ at = "done" => made = freed + 1
  /\ at = "gone" => made = freed
  /\ at = "thrown" => made - freed = (IF strange THEN 1 ELSE 0)

(* The node a query starts from, read off its text: the last part that      *)
(* names one, and the client's Context only if none does.                   *)
Named ==
  LET parts == text.parts
      path == IF Len(parts) >= 2 /\ parts[1] = "permalink" THEN Tail(parts) ELSE <<>>
      n == IF KnownPrefixes(path) = {} THEN 0 ELSE Cardinality({m \in 1 .. Len(path) :
             \E k \in m .. Len(path) : k \in KnownPrefixes(path)})
      rest == IF path = <<>> THEN parts ELSE SubSeq(path, n + 1, Len(path))
  IN  IF rest # <<>> /\ rest[1] \in KnownIds THEN IdNode(rest[1])
      ELSE IF n > 0 THEN PermalinkNode(SubSeq(path, 1, n))
      ELSE IF text.absolute THEN NoNode ELSE below

StartsAtNamed ==
  /\ at = "run" => context = Named
  /\ at = "done" /\ result \notin {NoNode, <<"below", <<>>>>} => result = Named
=============================================================================
