------------------------------ MODULE SiteLoad ------------------------------
(***************************************************************************)
(* The document of one Site from loadXmlDoc to ~Site: Contexts are made for *)
(* its elements, staging items are dropped on a live site, and then every   *)
(* association is spliced into the tree: it shows the children, attributes  *)
(* and Context of its target, and the target gets a pointer node that shows *)
(* those of the item the association is in.  Child lists are shared, not    *)
(* copied, and so are attribute lists: the tree becomes a cyclic graph,     *)
(* which ~Site has to cut open before it can be freed.                      *)
(*                                                                          *)
(* Items have ids and may be nested.  An association holds the text of an   *)
(* id.  Other fields and the attributes' values are left out.  A linked     *)
(* list of xmlNodes is a sequence here, and a pointer into the list of      *)
(* another node is a view: the list from that place on.  A list of xmlAttrs *)
(* is named by the node it was parsed for.                                  *)
(***************************************************************************)
EXTENDS Naturals, Sequences, FiniteSets, SequencesExt

CONSTANTS N,            \* number of items: their ids are 1 .. N, in document order
          MaxLinks,     \* bound on the associations of an item
          Documents,    \* the documents a feed may bring
          MaxHeld       \* bound on the nodes that XPath objects hold

Ids == 1 .. N
AnAssociation == N + 1
Links == {<<"link", i, k>> : i \in Ids, k \in 1 .. MaxLinks}

(* staging, stagingLinks : the items and associations with that attribute;  *)
(* indented : lists begin and end with white space.  An item comes after    *)
(* the one it is nested in.  An association names an item, nothing (0) or   *)
(* another association.                                                     *)
LoadAssumption ==
  /\ N \in Nat /\ MaxLinks \in Nat /\ MaxHeld \in Nat
  /\ Documents \subseteq [parent : [Ids -> Ids \cup {0}], links : [Ids -> Seq(Ids \cup {0, AnAssociation})],
                          staging : SUBSET Ids, stagingLinks : SUBSET Links,
                          indented : BOOLEAN, stagingMode : BOOLEAN]
  /\ \A d \in Documents, i \in Ids : d.parent[i] < i /\ Len(d.links[i]) <= MaxLinks

VARIABLES doc, phase,
          todo,         \* associationsToInitialize
          list,         \* the children of every item and of the root, which is 0
          view,         \* what an association or pointer node shares
          props,        \* node->properties
          nodes,        \* Site::nodes
          nodesToClean, nodesToClean2,
          pointerNodes, \* of the Context of every item
          freed,        \* how often each xmlNode was freed
          attrsFreed,   \* how often each list of xmlAttrs was freed
          deleted,      \* how often the Context of each xmlNode was deleted
          held          \* the nodes in XPath objects that are kept: by query_cache and responses

vars == <<doc, phase, todo, list, view, props, nodes, nodesToClean, nodesToClean2, pointerNodes,
          freed, attrsFreed, deleted, held>>

Null == <<"null", 0, 0>>
Item(i) == <<"item", i, 0>>
Indent(i, place) == <<"text", i, place>>
Pointer(a) == <<"pointer", a[2], a[3]>>
Items == {Item(i) : i \in Ids}
Pointers == {Pointer(a) : a \in Links}
Nodes == Items \cup Links \cup Pointers \cup {Indent(i, p) : i \in Ids, p \in {1, 2}}

NoView == [of |-> 0, from |-> Null, last |-> Null]
Views == [of : Ids \cup {0}, from : Nodes \cup {Null}, last : Nodes \cup {Null}]

TypeOK ==
  /\ phase \in {"parsed", "linking", "corrupted", "loaded", "failed", "cut", "freed", "destroyed"}
  /\ todo \in Seq(Links)
  /\ list \in [Ids \cup {0} -> Seq(Nodes)]
  /\ view \in [Links \cup Pointers -> Views]
  /\ props \in [Items \cup Links \cup Pointers -> Items \cup Links \cup {Null}]
  /\ nodes \in [Ids \cup {0} -> Items \cup Links \cup {Null}]
  /\ nodesToClean \subseteq Pointers /\ nodesToClean2 \subseteq Links
  /\ pointerNodes \in [Ids -> SUBSET Pointers]
  /\ freed \in [Nodes -> Nat]
  /\ attrsFreed \in [Items \cup Links -> Nat] /\ deleted \in [Items \cup Links -> Nat]
  /\ held \subseteq Nodes

(* The children of item i as libxml2 reads them: its associations, then the *)
(* items nested in it.                                                      *)
Nested(d, i) == FlattenSeq([j \in Ids |-> IF d.parent[j] = i THEN <<Item(j)>> ELSE <<>>])
LinksOf(d, i) == [k \in 1 .. (IF i = 0 THEN 0 ELSE Len(d.links[i])) |-> <<"link", i, k>>]
Parsed(d, i) ==
  LET elements == LinksOf(d, i) \o Nested(d, i)
  IN  IF d.indented /\ i # 0 THEN <<Indent(i, 1)>> \o elements \o <<Indent(i, 2)>> ELSE elements

Init ==
  /\ doc \in Documents
  /\ phase = "parsed"
  /\ todo = <<>>
  /\ list = [i \in Ids \cup {0} |-> Parsed(doc, i)]
  /\ view = [n \in Links \cup Pointers |-> NoView]
  /\ props = [n \in Items \cup Links \cup Pointers |-> IF n \in Pointers THEN Null ELSE n]
  /\ nodes = [i \in Ids \cup {0} |-> Null]
  /\ nodesToClean = {} /\ nodesToClean2 = {}
  /\ pointerNodes = [i \in Ids |-> {}]
  /\ freed = [n \in Nodes |-> 0]
  /\ attrsFreed = [n \in Items \cup Links |-> 0] /\ deleted = [n \in Items \cup Links |-> 0]
  /\ held = {}

-----------------------------------------------------------------------------
(* The Contexts.                                                            *)

(* A slip: the staging attribute is not looked at. *)
KillsNone(i) == FALSE
(* populateAttrs: killMe. *)
KillMe(i) == ~doc.stagingMode /\ i \in doc.staging

(* The items whose Context is made at all: none below one that is killed.   *)
Outer(i) == LET up[j \in Ids \cup {0}] == IF j = 0 THEN {} ELSE {doc.parent[j]} \cup up[doc.parent[j]]
            IN  up[i] \ {0}
InKilled(i) == \E j \in Outer(i) : KillMe(j)
Killed == {i \in Ids : KillMe(i) /\ ~InKilled(i)}
Kept == {i \in Ids : ~KillMe(i) /\ ~InKilled(i)}
KilledLinks == {a \in Links : a[2] \in Kept /\ a[3] \in DOMAIN doc.links[a[2]]
                               /\ ~doc.stagingMode /\ a \in doc.stagingLinks}

(* xmlFreeNode of a killed item frees all that is in it. *)
Subtree(i) == {Item(j) : j \in {j \in Ids : j = i \/ i \in Outer(j)}}
              \cup UNION {Range(list[j]) : j \in {j \in Ids : j = i \/ i \in Outer(j)}}

(* xmlUnlinkNode of these nodes. *)
Without(s, gone) == FlattenSeq([k \in DOMAIN s |-> IF s[k] \in gone THEN <<>> ELSE <<s[k]>>])

(* The loop over rootNode->children and the recursion of Context::Context:  *)
(* nodes[id] and associationsToInitialize in document order; what has no    *)
(* id is entered as 0, the last one stays.                                  *)
MakeContexts ==
  LET links == Without(FlattenSeq([i \in Ids |-> IF i \in Kept THEN LinksOf(doc, i) ELSE <<>>]), KilledLinks)
      gone == (UNION {Subtree(i) : i \in Killed}) \cup KilledLinks
  IN  /\ phase = "parsed"
      /\ phase' = "linking"
      /\ todo' = links
      /\ list' = [i \in DOMAIN list |-> Without(list[i], gone)]
      /\ nodes' = [i \in Ids \cup {0} |-> IF i = 0 THEN (IF links = <<>> THEN Null ELSE Last(links))
                                          ELSE IF i \in Kept THEN Item(i) ELSE Null]
      /\ freed' = [n \in Nodes |-> IF n \in gone THEN 1 ELSE 0]
      /\ attrsFreed' = [n \in Items \cup Links |-> IF n \in gone THEN 1 ELSE 0]
      /\ deleted' = [n \in Items \cup Links |->
                       IF n \in KilledLinks \/ (n[1] = "item" /\ n[2] \in Killed) THEN 1 ELSE 0]
      /\ UNCHANGED <<doc, view, props, nodesToClean, nodesToClean2, pointerNodes, held>>

-----------------------------------------------------------------------------
(* initializeAssociation, for each of them in turn.                         *)

FirstOf(s) == IF s = <<>> THEN Null ELSE s[1]
LastOf(s) == IF s = <<>> THEN Null ELSE Last(s)
View(i, s) == [of |-> i, from |-> FirstOf(s), last |-> LastOf(s)]

Target(a) == doc.links[a[2]][a[3]]
Found(a) == Target(a) \in Ids /\ nodes[Target(a)] # Null

(* A slip: the pointer nodes of the target keep the end they were made with. *)
UpdatesNone(i, p) == {}
(* The previously placed pointer nodes whose `last` becomes p. *)
Updates(i, p) == pointerNodes'[i]

(* The association takes over the target's lists; the copy of its own item, *)
(* which takes over that item's, goes to the end of the target's children.  *)
Associate ==
  LET a == Head(todo)
      i == a[2]
      t == Target(a)
      p == Pointer(a)
  IN  /\ phase = "linking" /\ todo # <<>> /\ Found(a)
      /\ attrsFreed' = [attrsFreed EXCEPT ![props[a]] = @ + 1]
      /\ props' = [props EXCEPT ![a] = props[Item(t)], ![p] = props[Item(i)]]
      /\ list' = [list EXCEPT ![t] = Append(@, p)]
      /\ pointerNodes' = [pointerNodes EXCEPT ![i] = @ \cup {p}]
      /\ view' = LET new == [view EXCEPT ![a] = View(t, list[t]), ![p] = View(i, list[i])]
                 IN  [n \in DOMAIN new |-> IF n \in Updates(t, p) THEN [new[n] EXCEPT !.last = p] ELSE new[n]]
      /\ nodesToClean2' = nodesToClean2 \cup {a}
      /\ nodesToClean' = nodesToClean \cup {p}
      /\ deleted' = [deleted EXCEPT ![a] = @ + 1]
      /\ todo' = Tail(todo)
      /\ UNCHANGED <<doc, phase, nodes, freed, held>>

(* xmlCopyNode returns NULL: the forward association is set up, and the     *)
(* constructor throws.                                                      *)
CopyFails ==
  LET a == Head(todo)
      t == Target(a)
  IN  /\ phase = "linking" /\ todo # <<>> /\ Found(a)
      /\ phase' = "failed"
      /\ attrsFreed' = [attrsFreed EXCEPT ![props[a]] = @ + 1]
      /\ props' = [props EXCEPT ![a] = props[Item(t)]]
      /\ view' = [view EXCEPT ![a] = View(t, list[t])]
      /\ nodesToClean2' = nodesToClean2 \cup {a}
      /\ UNCHANGED <<doc, todo, list, nodes, nodesToClean, pointerNodes, freed, deleted, held>>

(* The association names another one: it takes over lists that go with that *)
(* one's own initialization, or went, and the pointer node is in a list     *)
(* that is freed.  Nothing is said of what happens from here.               *)
AssociateAssociation ==
  /\ phase = "linking" /\ todo # <<>> /\ Target(Head(todo)) = AnAssociation
  /\ phase' = "corrupted"
  /\ UNCHANGED <<doc, todo, list, view, props, nodes, nodesToClean, nodesToClean2, pointerNodes,
                 freed, attrsFreed, deleted, held>>

(* xmlUnlinkNode, xmlFreeNode and delete: Site::nodes is left as it is. *)
CouldNotFind ==
  LET a == Head(todo)
  IN  /\ phase = "linking" /\ todo # <<>> /\ ~Found(a) /\ Target(a) # AnAssociation
      /\ list' = [list EXCEPT ![a[2]] = Without(@, {a})]
      /\ freed' = [freed EXCEPT ![a] = @ + 1]
      /\ attrsFreed' = [attrsFreed EXCEPT ![props[a]] = @ + 1]
      /\ deleted' = [deleted EXCEPT ![a] = @ + 1]
      /\ todo' = Tail(todo)
      /\ UNCHANGED <<doc, phase, view, props, nodes, nodesToClean, nodesToClean2, pointerNodes, held>>

Loaded ==
  /\ phase = "linking" /\ todo = <<>>
  /\ phase' = "loaded"
  /\ UNCHANGED <<doc, todo, list, view, props, nodes, nodesToClean, nodesToClean2, pointerNodes,
                 freed, attrsFreed, deleted, held>>

(* The root or design node, or in the end the generation, is missing: the   *)
(* constructor throws, and as ~Site is not run, nothing is freed.           *)
Throw ==
  /\ phase \in {"parsed", "linking"} /\ todo = <<>>
  /\ phase' = "failed"
  /\ UNCHANGED <<doc, todo, list, view, props, nodes, nodesToClean, nodesToClean2, pointerNodes,
                 freed, attrsFreed, deleted, held>>

-----------------------------------------------------------------------------
(* What is found in the tree.                                               *)

(* The children one finds at n, and all that is found from the root.  The   *)
(* first node of a list that was shared may have been freed since: it is    *)
(* still pointed to, and nothing behind it is found.                        *)
From(s, n) == LET at == {k \in DOMAIN s : s[k] = n}
              IN  IF n = Null THEN <<>> ELSE IF at = {} THEN <<n>>
                  ELSE SubSeq(s, CHOOSE k \in at : TRUE, Len(s))
ListAt(n) ==
  CASE n = Null -> list[0]
    [] n \in Items -> list[n[2]]
    [] n \in DOMAIN view -> IF view[n] = NoView THEN <<>> ELSE From(list[view[n].of], view[n].from)
    [] OTHER -> <<>>
Reachable ==
  LET from[S \in SUBSET (Nodes \cup {Null})] ==
        LET more == S \cup UNION {Range(ListAt(n)) : n \in S}
        IN  IF more = S THEN S ELSE from[more]
  IN  from[{Null}]

(* The item whose Context is at n. *)
ContextAt(n) == IF n \in Items THEN n ELSE IF n \in DOMAIN view /\ view[n] # NoView THEN Item(view[n].of) ELSE Null

(* A query finds an element: its XPath object stays in query_cache or with  *)
(* a response.                                                              *)
RunQuery(n) ==
  /\ phase = "loaded" /\ Cardinality(held) < MaxHeld
  /\ held' = held \cup {n}
  /\ UNCHANGED <<doc, phase, todo, list, view, props, nodes, nodesToClean, nodesToClean2, pointerNodes,
                 freed, attrsFreed, deleted>>

-----------------------------------------------------------------------------
(* ~Site                                                                    *)

(* A slip: only the associations are cut, the pointer nodes are forgotten. *)
CutsLinks == nodesToClean2
(* The two loops over nodesToClean and nodesToClean2. *)
Cuts == nodesToClean \cup nodesToClean2

CutOpen ==
  /\ phase = "loaded"
  /\ phase' = "cut"
  /\ view' = [n \in DOMAIN view |-> IF n \in Cuts THEN NoView ELSE view[n]]
  /\ props' = [n \in DOMAIN props |-> IF n \in Cuts THEN Null ELSE props[n]]
  /\ nodesToClean' = {} /\ nodesToClean2' = {}
  /\ UNCHANGED <<doc, todo, list, nodes, pointerNodes, freed, attrsFreed, deleted, held>>

(* freeContexts and xmlFreeDoc: what is found in two lists is freed twice,  *)
(* and so is an attribute list that is found at two nodes.                  *)
Free ==
  LET visits == UNION {{n} \X Range(ListAt(n)) : n \in Reachable}
  IN  /\ phase = "cut"
      /\ phase' = "freed"
      /\ freed' = [n \in Nodes |-> freed[n] + Cardinality({v \in visits : v[2] = n})]
      /\ attrsFreed' = [n \in DOMAIN attrsFreed |->
                          attrsFreed[n] + Cardinality({v \in visits : v[2] \in DOMAIN props /\ props[v[2]] = n})]
      /\ deleted' = [n \in DOMAIN deleted |-> deleted[n] + Cardinality({v \in visits : ContextAt(v[2]) = n})]
      /\ UNCHANGED <<doc, todo, list, view, props, nodes, nodesToClean, nodesToClean2, pointerNodes, held>>

(* The members of Site and the responses of a Session go after the document *)
(* is freed: xmlXPathFreeObject reads the type of every node of its set and *)
(* frees those that are namespaces.  What it reads in a freed node is       *)
(* undefined, so that any of them may be freed again.                       *)
FreeObjects(again) ==
  /\ phase = "freed" /\ again \subseteq held
  /\ phase' = "destroyed"
  /\ freed' = [n \in Nodes |-> IF n \in again THEN freed[n] + 1 ELSE freed[n]]
  /\ UNCHANGED <<doc, todo, list, view, props, nodes, nodesToClean, nodesToClean2, pointerNodes,
                 attrsFreed, deleted, held>>

(* Nothing is left to do: the registry makes another Site. *)
Gone == phase \in {"destroyed", "failed", "corrupted"} /\ UNCHANGED vars

Next ==
  \/ MakeContexts \/ Associate \/ CopyFails \/ AssociateAssociation \/ CouldNotFind \/ Loaded \/ Throw
  \/ phase = "loaded" /\ \E n \in Reachable \cap DOMAIN props : RunQuery(n)
  \/ CutOpen \/ Free
  \/ \E again \in SUBSET held : FreeObjects(again)
  \/ Gone

Spec == Init /\ [][Next]_vars

-----------------------------------------------------------------------------
(* Properties *)

Placed == UNION {Range(list[i]) : i \in DOMAIN list}

(* The load and the body of ~Site free every node, attribute list and       *)
(* Context once, although associations, their targets and pointer nodes     *)
(* have shared all three in every way, cycles included.  The double frees   *)
(* main.cpp:58 speaks of come from elsewhere: from XPath objects that       *)
(* outlive the document, and of the nodes they hold alone; or from an       *)
(* association that names an association.                                   *)
FreedOnce ==
  /\ \A n \in Nodes : freed[n] <= 1 \/ (phase = "destroyed" /\ n \in held /\ freed[n] = 2)
  /\ \A n \in Items \cup Links : attrsFreed[n] <= 1 /\ deleted[n] <= 1
  /\ phase \in {"freed", "destroyed"} =>
       /\ \A i \in Ids : /\ freed[Item(i)] >= 1 /\ attrsFreed[Item(i)] = 1
                         /\ i \in Kept \cup Killed => deleted[Item(i)] = 1
       /\ \A i \in Ids : \A k \in DOMAIN doc.links[i] :
            LET a == <<"link", i, k>>
                spliced == i \in Kept /\ a \notin KilledLinks /\ Target(a) \in Kept
            IN  /\ freed[a] >= 1 /\ attrsFreed[a] = 1
                /\ i \in Kept => deleted[a] = 1
                /\ IF spliced THEN freed[Pointer(a)] >= 1 ELSE freed[Pointer(a)] = 0
  /\ phase = "corrupted" => \E i \in Kept : AnAssociation \in Range(doc.links[i])

(* On a live site no path, along associations in either direction, leads to *)
(* an item with the staging attribute or to one in such an item, and no id  *)
(* of one is known; nor does one lead over an association with it.          *)
StagingHidden ==
  phase = "loaded" /\ ~doc.stagingMode =>
    LET hidden == {i \in Ids : i \in doc.staging \/ Outer(i) \cap doc.staging # {}}
    IN  /\ \A i \in hidden : nodes[i] = Null
        /\ \A n \in Reachable : /\ {n, ContextAt(n)} \cap {Item(i) : i \in hidden} = {}
                                /\ n \notin doc.stagingLinks

(* The first child of a list that is shared may be an association that      *)
(* cannot be found: it is freed, and still pointed to.                      *)
Dangling(n) == ~doc.indented /\ n \in Links /\ n \notin Placed

(* What is found in the tree has not been freed, but for the first child of *)
(* a list without white space.  In an indented document an association      *)
(* shows what its target shows, with the pointer nodes of associations that *)
(* were set up later; the target shows the item at the end of one of its    *)
(* children; and pointer nodes end where the item they stand for ends.      *)
Mirrored ==
  phase = "loaded" =>
    /\ \A n \in Reachable \ {Null} : freed[n] = 0 \/ Dangling(n)
    /\ doc.indented => \A i \in Kept : \A k \in DOMAIN doc.links[i] :
         LET a == <<"link", i, k>>
             t == Target(a)
             p == Pointer(a)
         IN  IF t \in Kept /\ a \notin KilledLinks
             THEN /\ ContextAt(a) = Item(t) /\ ListAt(a) = list[t]
                  /\ p \in Range(list[t]) /\ ContextAt(p) = Item(i) /\ ListAt(p) = list[i]
                  /\ view[p].last = Last(list[i])
             ELSE a \notin Placed
=============================================================================
