----------------------------- MODULE MCSiteData -----------------------------
(* What one thread makes of a site's document, in five parts that share no  *)
(* state; a behaviour is of one part.                                       *)
(*   load: three items in every tree, one or two associations each to every *)
(*     item or to none, an item or none with the staging attribute, with    *)
(*     and without white space.                                             *)
(*   query: every query of up to three parts, with and without a leading    *)
(*     slash, below a Context and from the root; permalinks that are        *)
(*     prefixes of each other.                                              *)
(*   pages: every list of up to four nodes, every filter over it, every     *)
(*     combination of small options, eight pages; a 6-bit int, so that page *)
(*     arithmetic does reach the overflow.                                  *)
(*   order: every choice of three contexts over twelve texts with runs of   *)
(*     digits, points and letters in every order, among them 1.11, 1.12 and *)
(*     1.2, of which EPS ties the neighbours; lists that hold one context   *)
(*     twice or contexts without an id.                                     *)
(*   ids: up to three responses over two queries, nested in every way; ids  *)
(*     from -1 to 4.                                                        *)
EXTENDS SiteAnswers
CONSTANTS q1, q2
VARIABLE part

-----------------------------------------------------------------------------
ItemIds == 1 .. 3
Trees == {p \in [ItemIds -> 0 .. 2] : p[1] = 0 /\ p[2] \in {0, 1} /\ p[3] \in {0, 2, p[2]}}
One == {<<>>} \cup {<<t>> : t \in 0 .. 3}
Two == One \cup {<<s, t>> : s, t \in 0 .. 3}
NoLinks == {{}}
TwoLinks == {f \in [ItemIds -> Two] : f[1] \in One \ {<<1>>} /\ f[3] \in One \ {<<0>>}}
LiveDocuments == [parent : Trees, links : TwoLinks, staging : {{}}, stagingLinks : NoLinks,
                  indented : BOOLEAN, stagingMode : {FALSE}]
HidingDocuments == [parent : Trees, links : [ItemIds -> One], staging : {{2}, {3}},
                    stagingLinks : {{<<"link", 1, 1>>}}, indented : BOOLEAN, stagingMode : {FALSE}]
StagingDocuments == [parent : Trees, links : [ItemIds -> One], staging : {{2}},
                     stagingLinks : {{<<"link", 1, 1>>}}, indented : {TRUE}, stagingMode : {TRUE}]
ChainedDocuments == [parent : {<<0, 1, 0>>}, links : {f \in [ItemIds -> One \cup {<<4>>}] : f[2] = <<4>>},
                     staging : {{}, {2}}, stagingLinks : NoLinks, indented : {TRUE}, stagingMode : {FALSE}]
MCDocuments == LiveDocuments \cup HidingDocuments \cup StagingDocuments \cup ChainedDocuments

QueryParts == {"permalink", "a", "b", "7", "8", "prev()", ""}
MCQueryTexts == {t \in [absolute : BOOLEAN, parts : UNION {[1 .. n -> QueryParts] : n \in 1 .. 3}] :
                   t.parts[1] # "" /\ t.parts[Len(t.parts)] # ""}
MCNumberParts == {"7", "8"}
MCKnownIds == {"7"}
MCQueryContexts == {<<"context", <<"c">>>>}
MCPermalinks == {<<"a">>, <<"a", "b">>, <<"b", "7">>}

(* The characters 1, 2, a and the point. *)
c1 == 49
c2 == 50
ca == 97
dot == 46
SortTexts == <<<<>>, <<dot>>, <<c1>>, <<c2>>, <<c1, c2>>, <<c2, dot>>, <<c1, dot, c2>>,
               <<c1, dot, c1, c1>>, <<c1, dot, c1, c2>>, <<ca>>, <<ca, c2>>, <<ca, c1, c2>>>>
Some == DOMAIN SortTexts
Context(i, t) == [id |-> i, count |-> Len(SortTexts[t]), data |-> SortTexts[t]]
Triples == {c \in Some \X Some \X Some : c[1] <= c[2] /\ c[2] <= c[3]}
MCLists == {<<Context(1, c[1]), Context(2, c[2]), Context(3, c[3])>> : c \in Triples}
             \cup {<<Context(1, s), Context(2, t), Context(1, s)>> : s, t \in Some}
             \cup {<<Context(0, s), Context(0, t)>> : s, t \in Some}
Field(b, d) == [by |-> b, direction |-> d]
Order(type, fields) == [sortType |-> type, sortFields |-> fields]
MCOrders == {Order("Reverse", <<>>), Order("Shuffle", <<>>),
               Order("Specific", <<Field("data", "Asc")>>),
               Order("Specific", <<Field("count", "Desc"), Field("data", "Asc")>>),
               Order("Specific", <<Field("data", "Desc"), Field("id", "Desc")>>)}

MCQueries == {q1, q2}

-----------------------------------------------------------------------------
allVars == <<part, vars, loadVars, queryVars, sortVars, idVars>>

NoLoad ==
    /\ doc = [parent |-> <<0, 0, 0>>, links |-> <<<<>>, <<>>, <<>>>>, staging |-> {}, stagingLinks |-> {},
              indented |-> FALSE, stagingMode |-> FALSE]
    /\ phase = "failed" /\ todo = <<>>
    /\ children = [i \in {0} \cup ItemIds |-> <<>>] /\ nodes = [i \in {0} \cup ItemIds |-> Load!Null]
    /\ view = [n \in Load!Links \cup Load!Pointers |-> Load!NoView]
    /\ props = [n \in Load!Items \cup Load!Links \cup Load!Pointers |-> Load!Null]
    /\ nodesToClean = {} /\ nodesToClean2 = {} /\ pointerNodes = [i \in ItemIds |-> {}]
    /\ freed = [n \in Load!Nodes |-> 0] /\ held = {}
    /\ attrsFreed = [n \in Load!Items \cup Load!Links |-> 0] /\ deleted = attrsFreed
NoQuery ==
    /\ text = [absolute |-> TRUE, parts |-> <<"a">>] /\ query = text.parts
    /\ below = Run!NoNode /\ context = Run!NoNode /\ result = Run!NoNode
    /\ at = "thrown" /\ made = 0 /\ objectsFreed = 0 /\ strange = FALSE
NoPages ==
    /\ size = 0 /\ page = 0 /\ seen = <<>>
    /\ opt = [skip |-> 0, groups |-> 0, paginate |-> 1, order |-> "None", dropped |-> {}]
NoSort == list = <<>> /\ order = Order("Reverse", <<>>) /\ done = TRUE
NoIds == Responses!Init

MCInit == \/ part = "load" /\ Load!Init /\ NoQuery /\ NoPages /\ NoSort /\ NoIds
          \/ part = "query" /\ NoLoad /\ Run!Init /\ NoPages /\ NoSort /\ NoIds
          \/ part = "pages" /\ NoLoad /\ NoQuery /\ Init /\ NoSort /\ NoIds
          \/ part = "order" /\ NoLoad /\ NoQuery /\ NoPages /\ Sort!Init /\ NoIds
          \/ part = "ids" /\ NoLoad /\ NoQuery /\ NoPages /\ NoSort /\ Responses!Init

MCNext == /\ \/ part = "load" /\ Load!Next /\ UNCHANGED <<queryVars, vars, sortVars, idVars>>
             \/ part = "query" /\ Run!Next /\ UNCHANGED <<loadVars, vars, sortVars, idVars>>
             \/ part = "pages" /\ Ask /\ UNCHANGED <<loadVars, queryVars, sortVars, idVars>>
             \/ part = "order" /\ Sort!Next /\ UNCHANGED <<loadVars, queryVars, vars, idVars>>
             \/ part = "ids" /\ Responses!Next /\ UNCHANGED <<loadVars, queryVars, vars, sortVars>>
          /\ UNCHANGED part

MCSpec == MCInit /\ [][MCNext]_allVars
=============================================================================
