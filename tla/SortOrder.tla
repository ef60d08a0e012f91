----------------------------- MODULE SortOrder -----------------------------
(***************************************************************************)
(* The last part of Response::query for an `order` option: reverse,        *)
(* shuffle, or std::sort with sortCallback, which compares the contexts    *)
(* field by field, texts by str_compare_nat (util.cpp).                    *)
(*                                                                         *)
(* A text is a sequence of characters, and a character its code.  A        *)
(* context is a record [id, count, data] for one field that is counted and *)
(* one whose text is compared; it may be in the list twice, as two nodes   *)
(* of an association share their Context.  An id of 0 is none.             *)
(***************************************************************************)
EXTENDS Naturals, Integers, Sequences, FiniteSets

CONSTANTS Lists,    \* lists of contexts that a query found
          Orders,   \* values of the option, as [sortType, sortFields]
          Places,   \* the decimals of a number
          Eps       \* EPS, in units of the last of them

VARIABLES list,     \* _return.contexts
          order,    \* sortType and sortFields
          done      \* the list has been put in order

vars == <<list, order, done>>

Chars == 0 .. 255
Point == 46
Digits == 48 .. 57

(* Doubles are modelled by exact numbers, so no number of a text has more  *)
(* than fifteen digits, Places of them behind its point: a double tells    *)
(* two of those apart, and two that differ by less than EPS from two that  *)
(* differ by more.  A difference of EPS itself is not below it here; in    *)
(* the code rounding decides.                                              *)
Exact(s) ==
    /\ \A i, j \in DOMAIN s :
         /\ \A k \in i .. j : s[k] \in Digits \cup {Point}
         /\ Cardinality({k \in i .. j : s[k] = Point}) <= 1
         => Cardinality({k \in i .. j : s[k] \in Digits}) <= 15
    /\ \A i \in DOMAIN s : s[i] = Point /\ i + Places + 1 <= Len(s)
                             => \E j \in i + 1 .. i + Places + 1 : s[j] \notin Digits

Contexts == [id : Nat, count : Nat, data : {s \in Seq(Chars) : Exact(s)}]
Fields == [by : {"id", "count", "data"}, direction : {"Asc", "Desc"}]

SortAssumption ==
    /\ Places \in Nat /\ Eps \in Nat \ {0}
    /\ Lists \subseteq Seq(Contexts)
    /\ Orders \subseteq [sortType : {"Reverse", "Shuffle"}, sortFields : {<<>>}]
                            \cup [sortType : {"Specific"}, sortFields : Seq(Fields)]

(* The least of a set of numbers. *)
First(S) == CHOOSE i \in S : \A j \in S : i <= j

(***************************************************************************)
(* tokenize_string: runs of other characters and of digits in turn,        *)
(* starting with the former, which may be empty; the last one always is.   *)
(***************************************************************************)
TokenEnd(s, b, strmode) ==
    LET stops == {i \in b .. Len(s) : (s[i] \in Digits) = strmode}
    IN  IF stops = {} THEN Len(s) + 1 ELSE First(stops)

Tokenize(s) ==
    LET b[k \in Nat] == IF k = 0 THEN 1 ELSE TokenEnd(s, b[k - 1], k % 2 = 1)
        last == First({k \in 0 .. Len(s) + 1 : b[k] > Len(s)})
    IN  [k \in 1 .. last + 1 |-> SubSeq(s, b[k - 1], b[k] - 1)]

(* merge_floats: digits, "." and digits are one token. *)
IsFloat(t, i) == i + 2 <= Len(t) /\ t[i + 1] = <<Point>> /\ t[i] # <<>> /\ t[i + 2] # <<>>

MergeFloats(t) ==
    LET i[k \in Nat] == IF k = 0 THEN 1 ELSE LET j == i[k - 1] IN j + (IF IsFloat(t, j) THEN 3 ELSE 1)
        size == First({k \in 0 .. Len(t) : i[k] > Len(t)})
        token(j) == IF IsFloat(t, j) THEN t[j] \o t[j + 1] \o t[j + 2] ELSE t[j]
    IN  [k \in 1 .. size |-> token(i[k - 1])]

(* lexical_cast<double>, in units of the last place. *)
Number(tok) ==
    LET point == First({i \in DOMAIN tok : tok[i] = Point} \cup {Len(tok) + 1})
        value[i \in Nat] ==
            IF i = 0 THEN 0
            ELSE IF i = point THEN value[i - 1]
            ELSE 10 * value[i - 1] + (IF i <= Len(tok) THEN tok[i] - 48 ELSE 0)
    IN  value[point + Places]

(* operator< of std::string. *)
LessText(s, t) ==
    LET differ == {j \in 1 .. Len(s) : j > Len(t) \/ s[j] # t[j]}
        i == First(differ)
    IN  IF differ = {} THEN Len(s) < Len(t) ELSE i <= Len(t) /\ s[i] < t[i]

(* A slip: the tokens are compared as text. *)
LessNumberText(s, t) == LessText(s, t)
(* Numbers closer than EPS are not told apart. *)
LessNumber(s, t) == Number(s) + Eps <= Number(t)

(* One token of each, at an even place a number: 1, -1, or 0 to go on. *)
CompareToken(i, s, t) ==
    CASE s = <<>> /\ t = <<>> -> 0
      [] s = <<>> /\ t # <<>> -> 1
      [] s # <<>> /\ t = <<>> -> -1
      [] OTHER -> LET less(u, v) == IF i % 2 = 0 THEN LessNumber(u, v) ELSE LessText(u, v)
                  IN  IF less(s, t) THEN 1 ELSE IF less(t, s) THEN -1 ELSE 0

(* The loop over the tokens: the first pair that differs decides, else the *)
(* one with fewer tokens comes first.                                      *)
CompareTokens(t1, t2) ==
    LET differ == {j \in DOMAIN t1 \cap DOMAIN t2 : CompareToken(j, t1[j], t2[j]) # 0}
        i == First(differ)
    IN  IF differ # {} THEN CompareToken(i, t1[i], t2[i])
        ELSE IF Len(t1) = Len(t2) THEN 0 ELSE IF Len(t1) < Len(t2) THEN 1 ELSE -1

Tokens(s) == MergeFloats(Tokenize(s))
StrCompareNat(s1, s2) == CompareTokens(Tokens(s1), Tokens(s2))

(***************************************************************************)
(* sortCallback.  A field [by, direction] decides unless the contexts are  *)
(* equal in it; an id always does.                                         *)
(***************************************************************************)
(* A slip: equal counts decide. *)
DecidesCount(field, l, r) == field.by \in {"id", "count"} \/ StrCompareNat(l.data, r.data) # 0
Decides(field, l, r) ==
    CASE field.by = "id" -> TRUE
      [] field.by = "count" -> l.count # r.count
      [] field.by = "data" -> StrCompareNat(l.data, r.data) # 0

Less(field, l, r) ==
    CASE field.by = "id" -> l.id < r.id
      [] field.by = "count" -> l.count < r.count
      [] field.by = "data" -> StrCompareNat(l.data, r.data) > 0

(* `comp = !comp` for a descending order. *)
Comp(field, l, r) == Less(field, l, r) # (field.direction = "Desc")

SortCallback(fields, l, r) ==
    LET deciding == {i \in DOMAIN fields : Decides(fields[i], l, r)}
    IN  deciding # {} /\ Comp(fields[First(deciding)], l, r)

(***************************************************************************)
(* The three orders.  Where the comparison is what std::sort asks for, it  *)
(* leaves an arrangement in which nothing that is before another is behind *)
(* it; where not, what it does is undefined, and any arrangement may be    *)
(* left.                                                                   *)
(***************************************************************************)
Indices == DOMAIN list
Permutations == {q \in [Indices -> Indices] : \A i \in Indices : \E j \in Indices : q[j] = i}
Arranged(q) == [i \in Indices |-> list[q[i]]]

(* Of two contexts one at most is before the other, and before and tie are *)
(* transitive.  libstdc++ does not compare an element with itself.         *)
Before == {p \in Indices \X Indices : SortCallback(order.sortFields, list[p[1]], list[p[2]])}
Tie(before, i, j) == {<<i, j>>, <<j, i>>} \cap before = {}
Transitive(before, i, j, k) ==
    /\ {<<i, j>>, <<j, k>>} \subseteq before => <<i, k>> \in before
    /\ Tie(before, i, j) /\ Tie(before, j, k) => Tie(before, i, k)
Consistent(before) ==
    /\ \A i, j \in Indices : i # j => ~({<<i, j>>, <<j, i>>} \subseteq before)
    /\ \A i, j, k \in Indices : Transitive(before, i, j, k)

Reverse ==
    /\ order.sortType = "Reverse"
    /\ list' = [i \in Indices |-> list[Len(list) + 1 - i]]

Shuffle == order.sortType = "Shuffle" /\ \E q \in Permutations : list' = Arranged(q)

Specific ==
    /\ order.sortType = "Specific"
    /\ LET before == Before
           sorted == {q \in Permutations : \A i, j \in Indices : i < j => <<q[j], q[i]>> \notin before}
       IN  \E q \in IF Consistent(before) THEN sorted ELSE Permutations : list' = Arranged(q)

Init == list \in Lists /\ order \in Orders /\ done = FALSE

Next ==
    /\ ~done /\ done' = TRUE
    /\ UNCHANGED order
    /\ Reverse \/ Shuffle \/ Specific

Spec == Init /\ [][Next]_vars

-----------------------------------------------------------------------------
(* The contexts have one id, or none, and nothing in front of DESC(id)     *)
(* decides.                                                                *)
Repeated(i, j) ==
    /\ list[i].id = list[j].id
    /\ \E f \in DOMAIN order.sortFields :
         /\ order.sortFields[f] = [by |-> "id", direction |-> "Desc"]
         /\ \A g \in 1 .. f - 1 : ~Decides(order.sortFields[g], list[i], list[j])

(* The texts have, at one place, two numbers closer than EPS.              *)
Close(s, t) ==
    \E p \in DOMAIN Tokens(s) \cap DOMAIN Tokens(t) :
        /\ p % 2 = 0 /\ <<>> \notin {Tokens(s)[p], Tokens(t)[p]}
        /\ Number(Tokens(s)[p]) - Number(Tokens(t)[p]) \in (1 - Eps .. Eps - 1) \ {0}

(* What std::sort asks of sortCallback (else its loops may leave the       *)
(* array), and where it does not get it.  Two contexts are each before the *)
(* other exactly if they have the same id and DESC(id) decides, as         *)
(* `comp = !comp` makes of equal ids; and before and tie are transitive    *)
(* unless two of three texts have numbers that tie by EPS alone.           *)
StrictWeakOrder ==
    order.sortType = "Specific" /\ ~done =>
        LET before == Before
        IN  /\ \A i, j \in Indices : {<<i, j>>, <<j, i>>} \subseteq before <=> Repeated(i, j)
            /\ \A i, j, k \in Indices :
                 \/ Transitive(before, i, j, k)
                 \/ \E a, b \in {i, j, k} : Close(list[a].data, list[b].data)

(* Digits, with a point between them or without. *)
IsNumeral(s) ==
    /\ s # <<>> /\ s[1] \in Digits /\ s[Len(s)] \in Digits
    /\ \A i \in DOMAIN s : s[i] \in Digits \cup {Point}
    /\ \A i, j \in DOMAIN s : s[i] = Point /\ s[j] = Point => i = j

Numerals == {i \in Indices : IsNumeral(list[i].data)}
Value(i) == Number(list[i].data)

(* Texts that are numbers are compared by value, also when they have       *)
(* decimals or different lengths, and closer than EPS they tie.  They end  *)
(* up in the order of their values, up to EPS.                             *)
NumeralsByValue ==
    order.sortFields = <<[by |-> "data", direction |-> "Asc"]>> =>
        LET before == Before
        IN  /\ \A i, j \in Numerals : <<i, j>> \in before <=> Value(i) + Eps <= Value(j)
            /\ done /\ Consistent(before) => \A i, j \in Numerals : i < j => Value(i) < Value(j) + Eps
=============================================================================
