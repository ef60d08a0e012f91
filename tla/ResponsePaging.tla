--------------------------- MODULE ResponsePaging ---------------------------
(***************************************************************************)
(* Which of the nodes a query finds Response::query returns, for the        *)
(* options page, paginate (or limit), skip, groups, order, filter, unique.  *)
(* A client asks for page 1, 2, 3, ... of one list with the same options.   *)
(*                                                                          *)
(* All of the code's arithmetic is on int: it wraps at IntMax (undefined in *)
(* C++, two's complement in the build), and a float that does not fit,      *)
(* or a division by zero, converts to the smallest int (x86).               *)
(***************************************************************************)
EXTENDS Integers, Sequences, SequencesExt

CONSTANTS IntMax,     \* 2^31 - 1
          MaxSize,    \* bound on the number of nodes a query finds
          Below,      \* skip, groups and paginate are in -Below .. MaxOption:
          MaxOption,  \* atoi() of whatever the client sent
          MaxPage     \* bound on the page the client asks for

(* Sizes, options and pages are ints. *)
ASSUME PagingAssumption ==
  /\ {IntMax, MaxSize, Below, MaxOption, MaxPage} \subseteq Nat
  /\ {MaxSize, Below, MaxOption, MaxPage} \subseteq 0 .. IntMax

VARIABLES size,  \* p_query->getSize(): nodes are 1 .. size, in document order
          opt,   \* the options of the request
          page,  \* the pages the client has asked for: 1 .. page
          seen   \* what it has been given, page after page

vars == <<size, opt, page, seen>>

IntMin == -IntMax - 1
Wrap(x) == ((x - IntMin) % (2 * (IntMax + 1))) + IntMin
ToInt(x) == IF x \in IntMin .. IntMax THEN x ELSE IntMin

(* (int)ceil((float)a / b) *)
CeilQuot(a, b) == IF b = 0 THEN IntMin
                  ELSE ToInt(IF b > 0 THEN -((-a) \div b) ELSE -(a \div (-b)))

AtLeast(x, low) == IF x < low THEN low ELSE x

-----------------------------------------------------------------------------
(* A slip: every group takes the same share of what is left. *)
SharesLeftOfAll(j) == opt.groups
SharesLeft(j) == Wrap(opt.groups - j)

(* The loop over groups: skip_ and paginate_ of each round. *)
GroupRound[j \in Nat] ==
  LET prev == GroupRound[j - 1]
      from == IF j = 0 THEN opt.skip ELSE Wrap(prev.skip + prev.paginate)
  IN  [skip |-> from, paginate |-> CeilQuot(Wrap(size - from), SharesLeft(j))]

GroupWindow(p) == GroupRound[AtLeast(p, 1) - 1]

PageStart(p) == Wrap((p - 1) * opt.paginate)

(* Page -1 stands for last(). *)
PageWindow(p) ==
  LET n == IF p = -1 THEN CeilQuot(Wrap(size - opt.skip), opt.paginate) ELSE p
  IN  [skip |-> Wrap(opt.skip + PageStart(AtLeast(n, 1))), paginate |-> opt.paginate]

(* A slip: the clamp of skip_ is missing. *)
NoClamp(x) == x
NonNegative(x) == AtLeast(x, 0)

(* skip_ and paginate_ after the clamps. *)
Window(p) ==
  LET w == IF opt.groups # 0 THEN GroupWindow(p) ELSE PageWindow(p)
  IN  [skip |-> NonNegative(w.skip), paginate |-> AtLeast(w.paginate, 1)]

EndOfPage(stop) == IF stop < size THEN stop ELSE size

(* [start, end) of the loops over the nodes. *)
Bounds(p) ==
  LET w == Window(p)
  IN  IF opt.order = "None" THEN [start |-> w.skip, end |-> EndOfPage(Wrap(w.paginate + w.skip))]
                            ELSE [start |-> 0, end |-> size]

(* The nodes that pass the filter and are not duplicates, in document order. *)
Matching == FlattenSeq([i \in 1 .. size |-> IF i \in opt.dropped THEN <<>> ELSE <<i>>])

(* Elements from .. to of s, as far as there are any. *)
Slice(s, from, to) == SubSeq(s, from, IF to < Len(s) THEN to ELSE Len(s))

(* The loop that fills _return.contexts.  With a filter it counts matching  *)
(* nodes: `skipped` up to start, then `included` while the two are short of *)
(* end.  Without one it indexes nodes.  Every node here has a Context.      *)
Gathered(p) ==
  LET b == Bounds(p)
  IN  IF opt.dropped = {} THEN [i \in 1 .. (b.end - b.start) |-> b.start + i]
                          ELSE Slice(Matching, b.start + 1, b.end)

(* order: reverse() of what was gathered; std::sort puts it in some fixed   *)
(* order, for which the reverse stands as well.                             *)
Ordered(s) == IF opt.order = "Reverse" THEN Reverse(s) ELSE s

(* A slip: the sorted list is cut to size before the skip. *)
CutThenErase(s, w) == Slice(Slice(s, 1, w.paginate), w.skip + 1, Len(s))
(* erase(begin, begin + skip_), then resize(paginate_), for sorted lists. *)
EraseThenCut(s, w) == Slice(Slice(s, w.skip + 1, Len(s)), 1, w.paginate)

Response(p) == IF opt.order = "None" THEN Gathered(p)
               ELSE EraseThenCut(Ordered(Gathered(p)), Window(p))

-----------------------------------------------------------------------------
Numbers == -Below .. MaxOption
Options == [skip : Numbers, groups : Numbers, paginate : Numbers, order : {"None", "Reverse"},
            dropped : SUBSET (1 .. MaxSize)]

TypeOK == /\ size \in 0 .. MaxSize
          /\ opt \in Options
          /\ page \in 0 .. MaxPage
          /\ seen \in Seq(1 .. size)

Init == /\ size \in 0 .. MaxSize
        /\ opt \in {o \in Options : o.dropped \subseteq 1 .. size}
        /\ page = 0
        /\ seen = <<>>

(* The client asks for the next page. *)
Ask == /\ page < MaxPage
       /\ page' = page + 1
       /\ seen' = seen \o Response(page + 1)
       /\ UNCHANGED <<size, opt>>

Spec == Init /\ [][Ask]_vars

-----------------------------------------------------------------------------
(* Properties.  The reference is the list the client means: the matching    *)
(* nodes in the order asked for, without the first `skip`.                  *)

Wanted == Slice(Ordered(Matching), opt.skip + 1, Len(Matching))
Sensible(p) == opt.skip >= 0 /\ opt.paginate >= 1 /\ p * opt.paginate + opt.skip <= IntMax

(* The loop over nodeTab stays inside it whatever the client asks for:      *)
(* negative and zero options, pages past the end or past the last group,    *)
(* sums that overflow.                                                      *)
NodesInRange == \A p \in -Below .. MaxPage : Bounds(p).start >= 0 /\ Bounds(p).end <= size

(* Pages 1, 2, ... are consecutive blocks of `paginate` items of the list:  *)
(* nothing is shown twice or left out between two pages, with and without   *)
(* filter and order, and the pages after the last one are empty.  Without a *)
(* filter, and as long as the sums of last() fit an int, it is the last of  *)
(* them that is not.                                                        *)
PagesPartition == opt.groups = 0 =>
  /\ Sensible(page) => seen = Slice(Wanted, 1, page * opt.paginate)
  /\ Sensible(1) /\ size + opt.paginate <= IntMax /\ opt.dropped = {} /\ Wanted # <<>> =>
       LET before == ((Len(Wanted) - 1) \div opt.paginate) * opt.paginate
       IN  Response(-1) = Slice(Wanted, before + 1, Len(Wanted))

(* With `groups`, pages 1 .. groups deal the whole list out in order, in    *)
(* shares that differ by at most one, the larger ones first, and the page   *)
(* after the last group is empty.  (The shares are computed from the        *)
(* unfiltered size, so this is about lists without a filter.)               *)
GroupsBalanced == opt.groups > 0 /\ opt.skip >= 0 /\ opt.dropped = {} /\ page <= opt.groups + 1 =>
  LET n == Len(Wanted)
      larger == n % opt.groups
      dealt == IF page > opt.groups THEN n
               ELSE page * (n \div opt.groups) + (IF page < larger THEN page ELSE larger)
  IN  seen = Slice(Wanted, 1, dealt)
=============================================================================
