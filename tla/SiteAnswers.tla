----------------------------- MODULE SiteAnswers -----------------------------
(***************************************************************************)
(* What one thread makes of a site's document, side by side: the tree with  *)
(* its associations, from loadXmlDoc to ~Site (SiteLoad), and how a         *)
(* client's get is answered from it: the run of a query (Query), the order  *)
(* of the nodes found (SortOrder), the choice of those of a page            *)
(* (ResponsePaging), and the ids by which the Session keeps the responses   *)
(* (SessionResponses).                                                      *)
(***************************************************************************)
EXTENDS ResponsePaging

CONSTANTS QueryTexts, NumberParts, QueryContexts, Permalinks, KnownIds,
          Queries, MaxResponses,
          N, MaxLinks, Documents, MaxHeld,
          Lists, Orders, Places, Eps

VARIABLES text, below, context, query, at, made, objectsFreed, result, strange,
          responses, told, answer,
          doc, phase, todo, children, view, props, nodes, nodesToClean, nodesToClean2, pointerNodes,
          freed, attrsFreed, deleted, held,
          list, order, done

Run == INSTANCE Query WITH
    Texts <- QueryTexts, Numbers <- NumberParts, Contexts <- QueryContexts, freed <- objectsFreed
Responses == INSTANCE SessionResponses
Load == INSTANCE SiteLoad WITH list <- children
Sort == INSTANCE SortOrder

ASSUME RunAssumption == Run!QueryAssumption
ASSUME DocumentAssumption == Load!LoadAssumption
ASSUME OrderAssumption == Sort!SortAssumption

queryVars == <<text, below, context, query, at, made, objectsFreed, result, strange>>
idVars == <<responses, told, answer>>
loadVars == <<doc, phase, todo, children, view, props, nodes, nodesToClean, nodesToClean2, pointerNodes,
              freed, attrsFreed, deleted, held>>
sortVars == <<list, order, done>>

(* A Query frees the XPath objects it makes (Query!ObjectsFreed).           *)
ObjectsFreed == Run!ObjectsFreed
(* A query starts from the node its text names (Query!StartsAtNamed).       *)
StartsAtNamed == Run!StartsAtNamed
(* An id returned by get names that response for the rest of the session    *)
(* (SessionResponses!IdsNameResponses).                                     *)
IdsNameResponses == Responses!IdsNameResponses
(* Every node, every attribute list and every Context of a site is freed    *)
(* once (SiteLoad!FreedOnce).                                               *)
FreedOnce == Load!FreedOnce
(* Nothing of a staging item is found on a live site                        *)
(* (SiteLoad!StagingHidden).                                                *)
StagingHidden == Load!StagingHidden
(* An association shows its target and the target the item                  *)
(* (SiteLoad!Mirrored).                                                     *)
Mirrored == Load!Mirrored
(* std::sort gets from sortCallback what it needs of a comparison, but for  *)
(* a repeated Context under DESC(id) and numbers that tie by EPS            *)
(* (SortOrder!StrictWeakOrder).                                             *)
StrictWeakOrder == Sort!StrictWeakOrder
(* Texts that are numbers come in the order of their values, up to EPS      *)
(* (SortOrder!NumeralsByValue).                                             *)
NumeralsByValue == Sort!NumeralsByValue
=============================================================================
