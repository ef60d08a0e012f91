------------------------- MODULE SiteSharedProofs -------------------------
(***************************************************************************)
(* What worker threads can rely on of the things they share of a site, for  *)
(* any number of workers, contexts, texts, fields and generations and any   *)
(* size of the cache.                                                       *)
(*                                                                          *)
(* The invariants below say of every point of a call what the properties    *)
(* say only of its end, or of all workers together: which entries the list  *)
(* can hold, which texts a transfer can hold, who holds the mutex.          *)
(***************************************************************************)
EXTENDS SiteShared, SequenceTheorems, TLAPS

-----------------------------------------------------------------------------
(* The query cache.                                                         *)

Entries == [key : Keys, obj : Objects]

(* No key is in a list l twice, an index ix has the objects of l and no     *)
(* others, and each was built for the key it is under.                      *)
Indexed(l, ix) ==
  /\ l \in Seq(Entries) /\ ix \in [Keys -> Objects \cup {NoObject}]
  /\ \A i, j \in 1 .. Len(l) : l[i].key = l[j].key => i = j
  /\ \A i \in 1 .. Len(l) : ix[l[i].key] = l[i].obj /\ built[l[i].obj] = l[i].key
  /\ \A k \in Keys : ix[k] # NoObject => \E i \in 1 .. Len(l) : l[i].key = k

(* A worker has a key during a call, and a query once it has found or built *)
(* one.                                                                     *)
HasQuery == \A w \in Workers : /\ pc[w] \in {"idle", "missed"} <=> query[w] = NoObject
                               /\ pc[w] # "idle" => key[w] \in Keys

CacheInv == TypeOK /\ Indexed(list, index) /\ currSize = Len(list) /\ HasQuery /\ RightQuery

-----------------------------------------------------------------------------
(* The transfers.                                                           *)

(* Only a write error that nobody noticed cuts the copy in the cache, or    *)
(* the text of a transfer that has not failed, or what a caller gets.       *)
CutByDisk ==
  /\ cache = Part => diskFull
  /\ \A t \in Workers :
       /\ ~failed[t] /\ (temp[t] = Part \/ ss[t] = Part) => diskFull
       /\ step[t] = "returned" /\ ss[t] = Part => diskFull

(* A temporary file is gone when the value is chosen; who is about to       *)
(* replace the cache has one to replace it with.                            *)
HasFile == \A t \in Workers :
  /\ step[t] \in {"replacing", "removed"} => temp[t] # NoFile /\ ~failed[t]
  /\ step[t] \in {"idle", "choosing", "reading", "returned"} => temp[t] = NoFile

TransferInv == S3!TypeOK /\ CutByDisk /\ HasFile /\ FallbackKept

-----------------------------------------------------------------------------
(* The Context.                                                             *)

(* The mutex is with whoever fills the map or looks up and enters results.  *)
Holder == \A w \in Workers : at[w] \in {"filling", "locked"} <=> mutex = w

(* The flag says that the map is full, and is set last. *)
FlagLast == /\ dataPopulated => data = Fields
            /\ \A w \in Workers : at[w] = "filling" => ~dataPopulated

(* Who fills the map needs it, and nobody goes on to the map before it is   *)
(* full.                                                                    *)
Readers == \A w \in Workers :
  /\ at[w] \in {"fill", "filling"} => op[w] # "getCount"
  /\ at[w] \in {"lookup", "locked"} /\ op[w] = "getData" => dataPopulated
  /\ at[w] = "copy" => dataPopulated /\ copy[w] \cup read[w] = Fields

ContextInv == Ctx!TypeOK /\ Holder /\ FlagLast /\ Readers /\ WholeData

-----------------------------------------------------------------------------
(* Proofs about the query cache.                                            *)

(* What the erasure of a list element leaves. *)
LEMMA RemoveAtElements ==
  ASSUME NEW S, NEW s \in Seq(S), NEW p \in 1 .. Len(s)
  PROVE  /\ RemoveAt(s, p) \in Seq(S) /\ Len(RemoveAt(s, p)) = Len(s) - 1
         /\ \A i \in 1 .. Len(s) - 1 : RemoveAt(s, p)[i] = IF i < p THEN s[i] ELSE s[i + 1]
<1> DEFINE a == SubSeq(s, 1, p - 1)
           b == SubSeq(s, p + 1, Len(s))
<1>1. Len(s) \in Nat /\ p \in Nat /\ \A i \in 1 .. Len(s) : s[i] \in S
  BY LenProperties, ElementOfSeq
<1>2. /\ a \in Seq(S) /\ Len(a) = p - 1
      /\ \A i \in 1 .. p - 1 : a[i] = s[i]
  <2>1. 1 \in Int /\ p - 1 \in Int /\ \A i \in 1 .. p - 1 : s[i] \in S
    BY <1>1
  <2>2. /\ a \in Seq(S) /\ Len(a) = IF 1 <= p - 1 THEN (p - 1) - 1 + 1 ELSE 0
        /\ \A i \in 1 .. (p - 1) - 1 + 1 : a[i] = s[1 + i - 1]
    BY <2>1, SubSeqProperties
  <2> HIDE DEF a
  <2> QED BY <1>1, <2>2
<1>3. /\ b \in Seq(S) /\ Len(b) = Len(s) - p
      /\ \A i \in 1 .. Len(s) - p : b[i] = s[p + i]
  <2>1. p + 1 \in Int /\ Len(s) \in Int /\ \A i \in p + 1 .. Len(s) : s[i] \in S
    BY <1>1
  <2>2. /\ b \in Seq(S) /\ Len(b) = IF p + 1 <= Len(s) THEN Len(s) - (p + 1) + 1 ELSE 0
        /\ \A i \in 1 .. Len(s) - (p + 1) + 1 : b[i] = s[p + 1 + i - 1]
    BY <2>1, SubSeqProperties
  <2> HIDE DEF b
  <2> QED BY <1>1, <2>2
<1>4. RemoveAt(s, p) = a \o b
  BY DEF RemoveAt
<1> HIDE DEF a, b
<1>5. /\ a \o b \in Seq(S) /\ Len(a \o b) = Len(a) + Len(b)
      /\ \A i \in 1 .. Len(a) + Len(b) : (a \o b)[i] = IF i <= Len(a) THEN a[i] ELSE b[i - Len(a)]
  BY <1>2, <1>3, ConcatProperties
<1>6. ASSUME NEW i \in 1 .. Len(s) - 1
      PROVE  (a \o b)[i] = IF i < p THEN s[i] ELSE s[i + 1]
  <2>1. i \in 1 .. Len(a) + Len(b) /\ (i < p <=> i <= Len(a))
    BY <1>1, <1>2, <1>3
  <2>2. CASE i < p
    BY <1>1, <1>2, <1>5, <2>1, <2>2
  <2>3. CASE ~(i < p)
    <3>1. i - Len(a) \in 1 .. Len(s) - p /\ p + (i - Len(a)) = i + 1
      BY <1>1, <1>2, <2>3
    <3>2. (a \o b)[i] = b[i - Len(a)]
      BY <1>5, <2>1, <2>3
    <3> QED BY <1>3, <2>3, <3>1, <3>2
  <2> QED BY <2>2, <2>3
<1>7. Len(a \o b) = Len(s) - 1
  BY <1>1, <1>2, <1>3, <1>5
<1> QED BY <1>4, <1>5, <1>6, <1>7

(* _remove: the element and its index entry go together. *)
LEMMA EraseIndexed ==
  ASSUME NEW l, NEW ix, Indexed(l, ix), NEW p \in 1 .. Len(l), NEW k \in Keys, l[p].key = k
  PROVE  Indexed(RemoveAt(l, p), [ix EXCEPT ![k] = NoObject]) /\ Len(RemoveAt(l, p)) = Len(l) - 1
<1> DEFINE r == RemoveAt(l, p)
           rx == [ix EXCEPT ![k] = NoObject]
           old(i) == IF i < p THEN i ELSE i + 1
<1>1. Len(l) \in Nat /\ p \in Nat /\ l \in Seq(Entries) /\ ix \in [Keys -> Objects \cup {NoObject}]
  BY LenProperties DEF Indexed
<1>2. r \in Seq(Entries) /\ Len(r) = Len(l) - 1 /\ \A i \in 1 .. Len(r) : r[i] = l[old(i)]
  <2>1. \A i \in 1 .. Len(l) - 1 : r[i] = IF i < p THEN l[i] ELSE l[i + 1]
    BY <1>1, RemoveAtElements
  <2>2. r \in Seq(Entries) /\ Len(r) = Len(l) - 1
    BY <1>1, RemoveAtElements
  <2> QED BY <2>1, <2>2
<1>3. \A i \in 1 .. Len(l) - 1 : old(i) \in 1 .. Len(l) /\ old(i) # p
  BY <1>1
<1>4. \A i, j \in 1 .. Len(l) - 1 : old(i) = old(j) => i = j
  BY <1>1
<1>5. \A j \in 1 .. Len(l) : j # p => \E i \in 1 .. Len(l) - 1 : old(i) = j
  <2> SUFFICES ASSUME NEW j \in 1 .. Len(l), j # p PROVE \E i \in 1 .. Len(l) - 1 : old(i) = j
    OBVIOUS
  <2>1. CASE j < p
    <3>1. j \in 1 .. Len(l) - 1 /\ old(j) = j
      BY <1>1, <2>1
    <3> QED BY <3>1
  <2>2. CASE p < j
    <3>1. j - 1 \in 1 .. Len(l) - 1 /\ old(j - 1) = j
      BY <1>1, <2>2
    <3> QED BY <3>1
  <2> QED BY <1>1, <2>1, <2>2
<1> HIDE DEF old, r
<1>6. rx \in [Keys -> Objects \cup {NoObject}] /\ rx[k] = NoObject /\ \A m \in Keys \ {k} : rx[m] = ix[m]
  BY <1>1
<1> HIDE DEF rx
<1>7. \A i \in 1 .. Len(l) : l[i].key \in Keys
  <2>1. \A i \in 1 .. Len(l) : l[i] \in Entries
    BY <1>1, ElementOfSeq
  <2> QED BY <2>1 DEF Entries
<1>8. \A i, j \in 1 .. Len(r) : r[i].key = r[j].key => i = j
  BY <1>2, <1>3, <1>4 DEF Indexed
<1>9. \A i \in 1 .. Len(r) : rx[r[i].key] = r[i].obj /\ built[r[i].obj] = r[i].key
  <2> SUFFICES ASSUME NEW i \in 1 .. Len(r) PROVE rx[r[i].key] = r[i].obj /\ built[r[i].obj] = r[i].key
    OBVIOUS
  <2>1. r[i] = l[old(i)] /\ old(i) \in 1 .. Len(l) /\ old(i) # p
    BY <1>2, <1>3
  <2>2. l[old(i)].key # k /\ l[old(i)].key \in Keys
    BY <1>7, <2>1 DEF Indexed
  <2>3. ix[l[old(i)].key] = l[old(i)].obj /\ built[l[old(i)].obj] = l[old(i)].key
    BY <2>1 DEF Indexed
  <2> QED BY <1>6, <2>1, <2>2, <2>3
<1>10. \A m \in Keys : rx[m] # NoObject => \E i \in 1 .. Len(r) : r[i].key = m
  <2> SUFFICES ASSUME NEW m \in Keys, rx[m] # NoObject PROVE \E i \in 1 .. Len(r) : r[i].key = m
    OBVIOUS
  <2>1. m # k /\ ix[m] # NoObject
    BY <1>6
  <2>2. PICK j \in 1 .. Len(l) : l[j].key = m
    BY <2>1 DEF Indexed
  <2>3. PICK i \in 1 .. Len(l) - 1 : old(i) = j
    BY <1>5, <2>1, <2>2
  <2> QED BY <1>2, <2>2, <2>3
<1>11. Indexed(r, rx)
  BY <1>2, <1>6, <1>8, <1>9, <1>10 DEF Indexed
<1> QED BY <1>2, <1>11 DEF r, rx

(* push_front and _index.insert, of a key that is not there. *)
LEMMA PushIndexed ==
  ASSUME NEW l, NEW ix, Indexed(l, ix), NEW k \in Keys, ix[k] = NoObject,
         NEW q \in Objects, built[q] = k
  PROVE  /\ Indexed(<<Entry(k, q)>> \o l, [ix EXCEPT ![k] = q])
         /\ Len(<<Entry(k, q)>> \o l) = Len(l) + 1
<1> DEFINE e == Entry(k, q)
           r == <<e>> \o l
           rx == [ix EXCEPT ![k] = q]
<1>1. Len(l) \in Nat /\ l \in Seq(Entries) /\ ix \in [Keys -> Objects \cup {NoObject}]
  BY LenProperties DEF Indexed
<1>2. e \in Entries /\ e.key = k /\ e.obj = q
  BY DEF Entry, Entries
<1> HIDE DEF e
<1>3. r \in Seq(Entries) /\ Len(r) = Len(l) + 1 /\ r[1] = e /\ \A i \in 1 .. Len(l) : r[i + 1] = l[i]
  <2>1. <<e>> \in Seq(Entries) /\ Len(<<e>>) = 1 /\ <<e>>[1] = e
    BY <1>2
  <2>2. /\ r \in Seq(Entries) /\ Len(r) = 1 + Len(l)
        /\ \A i \in 1 .. 1 + Len(l) : r[i] = IF i <= 1 THEN <<e>>[i] ELSE l[i - 1]
    BY <1>1, <2>1, ConcatProperties
  <2> HIDE DEF r
  <2>3. r[1] = e
    BY <1>1, <2>1, <2>2
  <2>4. \A i \in 1 .. Len(l) : i + 1 \in 1 .. 1 + Len(l) /\ ~(i + 1 <= 1) /\ (i + 1) - 1 = i
    BY <1>1
  <2>5. \A i \in 1 .. Len(l) : r[i + 1] = l[i]
    BY <2>2, <2>4
  <2> QED BY <1>1, <2>2, <2>3, <2>5
<1> HIDE DEF r
<1>4. rx \in [Keys -> Objects \cup {NoObject}] /\ rx[k] = q /\ \A m \in Keys \ {k} : rx[m] = ix[m]
  BY <1>1
<1> HIDE DEF rx
<1>5. \A i \in 1 .. Len(l) : l[i].key \in Keys /\ l[i].key # k
  <2> SUFFICES ASSUME NEW i \in 1 .. Len(l) PROVE l[i].key \in Keys /\ l[i].key # k
    OBVIOUS
  <2>1. l[i] \in Entries
    BY <1>1, ElementOfSeq
  <2>2. l[i].key \in Keys /\ l[i].obj \in Objects
    BY <2>1 DEF Entries
  <2>3. l[i].key # k
    BY <2>2, QueryCacheAssumption DEF Indexed
  <2> QED BY <2>2, <2>3
<1>6. \A i \in 1 .. Len(r) : i = 1 \/ (i - 1 \in 1 .. Len(l) /\ r[i] = l[i - 1])
  <2> SUFFICES ASSUME NEW i \in 1 .. Len(r), i # 1 PROVE i - 1 \in 1 .. Len(l) /\ r[i] = l[i - 1]
    OBVIOUS
  <2>1. i - 1 \in 1 .. Len(l) /\ (i - 1) + 1 = i
    BY <1>1, <1>3
  <2> QED BY <1>3, <2>1
<1>7. \A i, j \in 1 .. Len(r) : r[i].key = r[j].key => i = j
  <2> SUFFICES ASSUME NEW i \in 1 .. Len(r), NEW j \in 1 .. Len(r), r[i].key = r[j].key PROVE i = j
    OBVIOUS
  <2>1. CASE i = 1 \/ j = 1
    BY <1>2, <1>3, <1>5, <1>6, <2>1
  <2>2. CASE i # 1 /\ j # 1
    <3>1. i - 1 = j - 1
      BY <1>6, <2>2, SMTT(30) DEF Indexed
    <3> QED BY <1>1, <1>3, <3>1
  <2> QED BY <2>1, <2>2
<1>8. \A i \in 1 .. Len(r) : rx[r[i].key] = r[i].obj /\ built[r[i].obj] = r[i].key
  <2> SUFFICES ASSUME NEW i \in 1 .. Len(r) PROVE rx[r[i].key] = r[i].obj /\ built[r[i].obj] = r[i].key
    OBVIOUS
  <2>1. CASE i = 1
    BY <1>2, <1>3, <1>4, <2>1
  <2>2. CASE i # 1
    <3>1. i - 1 \in 1 .. Len(l) /\ r[i] = l[i - 1]
      BY <1>6, <2>2
    <3>2. ix[l[i - 1].key] = l[i - 1].obj /\ built[l[i - 1].obj] = l[i - 1].key
      BY <3>1 DEF Indexed
    <3> QED BY <1>4, <1>5, <3>1, <3>2
  <2> QED BY <2>1, <2>2
<1>9. \A m \in Keys : rx[m] # NoObject => \E i \in 1 .. Len(r) : r[i].key = m
  <2> SUFFICES ASSUME NEW m \in Keys, rx[m] # NoObject PROVE \E i \in 1 .. Len(r) : r[i].key = m
    OBVIOUS
  <2>1. CASE m = k
    <3>1. 1 \in 1 .. Len(r)
      BY <1>1, <1>3
    <3> QED BY <1>2, <1>3, <2>1, <3>1
  <2>2. CASE m # k
    <3>1. PICK j \in 1 .. Len(l) : l[j].key = m
      BY <1>4, <2>2 DEF Indexed
    <3>2. j + 1 \in 1 .. Len(r) /\ r[j + 1].key = m
      BY <1>1, <1>3, <3>1
    <3> QED BY <3>2
  <2> QED BY <2>1, <2>2
<1>10. Indexed(r, rx)
  BY <1>3, <1>4, <1>7, <1>8, <1>9 DEF Indexed
<1> QED BY <1>3, <1>10 DEF r, rx, e

(* The removal of the last element is an erasure, too. *)
LEMMA FrontIsRemoval ==
  ASSUME NEW S, NEW s \in Seq(S), s # <<>>
  PROVE  Front(s) = RemoveAt(s, Len(s)) /\ Len(s) \in 1 .. Len(s)
<1>1. Len(s) \in Nat \ {0} /\ \A i \in 1 .. Len(s) : s[i] \in S
  BY LenProperties, EmptySeq, ElementOfSeq
<1>2. SubSeq(s, Len(s) + 1, Len(s)) = <<>>
  BY <1>1, SubSeqEmpty
<1>3. SubSeq(s, 1, Len(s) - 1) \in Seq(S)
  <2>1. 1 \in Int /\ Len(s) - 1 \in Int /\ \A i \in 1 .. Len(s) - 1 : s[i] \in S
    BY <1>1
  <2> QED BY <2>1, SubSeqProperties
<1>4. SubSeq(s, 1, Len(s) - 1) \o <<>> = SubSeq(s, 1, Len(s) - 1)
  BY <1>3, ConcatEmptySeq
<1> QED BY <1>1, <1>2, <1>4 DEF Front, RemoveAt

(* _index.find finds the entry of the key, and of no other. *)
LEMMA FoundIsIndex == ASSUME NEW k \in Keys PROVE Found(k) = index[k]
<1> DEFINE hits == {e \in Same(k) : index[e] # NoObject}
<1>1. CASE index[k] = NoObject
  <2>1. hits = {}
    BY <1>1 DEF Same
  <2> QED BY <1>1, <2>1 DEF Found
<1>2. CASE index[k] # NoObject
  <2>1. hits = {k}
    BY <1>2 DEF Same
  <2>2. hits # {} /\ (CHOOSE e \in hits : TRUE) = k
    BY <2>1
  <2> QED BY <2>2 DEF Found
<1> QED BY <1>1, <1>2

(* An object that the index has was built for its key, and is in the list,  *)
(* at the position that the index stands for.                               *)
LEMMA FoundEntry ==
  ASSUME CacheInv, NEW k \in Keys, Found(k) # NoObject
  PROVE  /\ Found(k) \in Objects /\ built[Found(k)] = k
         /\ Position(k) \in 1 .. Len(list) /\ list[Position(k)].key = k
<1>1. index[k] \in Objects /\ Found(k) = index[k]
  BY FoundIsIndex DEF CacheInv, TypeOK
<1>2. PICK i \in 1 .. Len(list) : list[i].key = k
  BY <1>1, QueryCacheAssumption DEF CacheInv, Indexed
<1>3. list[i].obj = Found(k) /\ built[Found(k)] = k
  BY <1>1, <1>2 DEF CacheInv, Indexed
<1>4. DOMAIN list = 1 .. Len(list)
  BY LenProperties DEF CacheInv, TypeOK
<1>5. Position(k) \in 1 .. Len(list) /\ list[Position(k)].obj = Found(k)
  BY <1>2, <1>3, <1>4 DEF Position
<1>6. built[list[Position(k)].obj] = list[Position(k)].key
  BY <1>5 DEF CacheInv, Indexed
<1> QED BY <1>1, <1>3, <1>5, <1>6

(* What _touch and _remove leave of the list, with the index of the rest. *)
LEMMA WithoutIndexed ==
  ASSUME CacheInv, NEW k \in Keys
  PROVE  /\ Indexed(Without(k), [index EXCEPT ![k] = NoObject])
         /\ Len(Without(k)) + 1 = Counted(k)
<1>1. Indexed(list, index) /\ index \in [Keys -> Objects \cup {NoObject}] /\ currSize = Len(list)
  BY DEF CacheInv, TypeOK
<1>2. Len(list) \in Nat
  BY LenProperties DEF CacheInv, TypeOK
<1>3. CASE Found(k) = NoObject
  <2>1. [index EXCEPT ![k] = NoObject] = index
    BY <1>1, <1>3, FoundIsIndex
  <2>2. Without(k) = list
    BY <1>3 DEF Without
  <2>3. Counted(k) = Len(list) + 1
    BY <1>1, <1>2, <1>3 DEF Counted
  <2>4. Indexed(Without(k), [index EXCEPT ![k] = NoObject])
    BY <1>1, <2>1, <2>2, Zenon
  <2> QED BY <1>2, <2>2, <2>3, <2>4
<1>4. CASE Found(k) # NoObject
  <2>1. Position(k) \in 1 .. Len(list) /\ list[Position(k)].key = k
    BY <1>4, FoundEntry
  <2>2. /\ Indexed(RemoveAt(list, Position(k)), [index EXCEPT ![k] = NoObject])
        /\ Len(RemoveAt(list, Position(k))) = Len(list) - 1
    BY <1>1, <2>1, EraseIndexed
  <2> QED BY <1>1, <1>2, <1>4, <2>2 DEF Without, Counted
<1> QED BY <1>3, <1>4

(* A new cache, and a site nobody uses. *)
LEMMA CacheInit == ASSUME Init PROVE CacheInv
<1>1. TypeOK
  <2>1. 0 \in 0 .. MaxSize
    BY QueryCacheAssumption
  <2> QED BY <2>1 DEF Init, TypeOK
<1>2. Indexed(list, index) /\ currSize = Len(list)
  <2>1. Len(list) = 0 /\ list \in Seq(Entries) /\ 1 .. Len(list) = {}
    BY DEF Init
  <2> QED BY <2>1 DEF Init, Indexed
<1>3. HasQuery /\ RightQuery
  BY DEF Init, HasQuery, RightQuery
<1> QED BY <1>1, <1>2, <1>3 DEF CacheInv

(* A look-up: what it finds is a query for its key. *)
LEMMA FetchInv == ASSUME CacheInv, NEW w \in Workers, NEW k \in Keys, Fetch(w, k) PROVE CacheInv'
<1>1. Found(k) = NoObject \/ (Found(k) \in Objects /\ built[Found(k)] = k)
  BY FoundEntry
<1>2. /\ UNCHANGED <<list, index, currSize, built>>
      /\ key'[w] = k /\ query'[w] = Found(k)
      /\ pc'[w] = IF Found(k) = NoObject THEN "missed" ELSE "has"
      /\ \A u \in Workers : u # w => key'[u] = key[u] /\ query'[u] = query[u] /\ pc'[u] = pc[u]
  BY DEF Fetch, CacheInv, TypeOK
<1>3. TypeOK'
  BY <1>1 DEF Fetch, CacheInv, TypeOK
<1>4. Indexed(list, index)' /\ (currSize = Len(list))'
  BY <1>2 DEF CacheInv, Indexed
<1>5. HasQuery' /\ RightQuery'
  BY <1>1, <1>2, QueryCacheAssumption DEF CacheInv, HasQuery, RightQuery
<1> QED BY <1>3, <1>4, <1>5 DEF CacheInv

(* An object that nobody uses is built: nobody's query changes. *)
LEMMA BuildInv == ASSUME CacheInv, NEW w \in Workers, Build(w) PROVE CacheInv'
<1> DEFINE q == CHOOSE free \in Objects \ InUse : TRUE
<1>1. q \in Objects \ InUse
  BY DEF Build
<1>2. /\ UNCHANGED <<list, index, currSize, key>> /\ pc[w] = "missed"
      /\ built' = [built EXCEPT ![q] = key[w]] /\ query' = [query EXCEPT ![w] = q]
      /\ pc' = [pc EXCEPT ![w] = "built"]
  BY DEF Build
<1> HIDE DEF q
<1>3. key[w] \in Keys
  BY <1>2 DEF CacheInv, HasQuery
<1>4. /\ built'[q] = key[w] /\ \A p \in Objects \ {q} : built'[p] = built[p]
      /\ query'[w] = q /\ pc'[w] = "built"
      /\ \A u \in Workers : u # w => query'[u] = query[u] /\ pc'[u] = pc[u]
  BY <1>1, <1>2 DEF CacheInv, TypeOK
<1>5. TypeOK'
  BY <1>1, <1>2, <1>3 DEF CacheInv, TypeOK
<1>6. \A i \in 1 .. Len(list) : list[i].obj \in Objects \ {q}
  <2> SUFFICES ASSUME NEW i \in 1 .. Len(list) PROVE list[i].obj \in Objects \ {q}
    OBVIOUS
  <2>1. list \in Seq(Entries) /\ DOMAIN list = 1 .. Len(list)
    BY LenProperties DEF CacheInv, TypeOK, Entries
  <2>2. list[i] \in Entries
    BY <2>1, ElementOfSeq
  <2>3. list[i].obj \in InUse
    BY <2>1 DEF InUse, Cached
  <2> QED BY <1>1, <2>2, <2>3 DEF Entries
<1>7. Indexed(list, index)' /\ (currSize = Len(list))'
  BY <1>2, <1>4, <1>6 DEF CacheInv, Indexed
<1>8. \A u \in Workers : query[u] # NoObject => query[u] \in Objects \ {q}
  BY <1>1 DEF CacheInv, TypeOK, InUse
<1>9. q # NoObject
  BY <1>1, QueryCacheAssumption
<1>10. HasQuery' /\ RightQuery'
  BY <1>2, <1>3, <1>4, <1>8, <1>9 DEF CacheInv, HasQuery, RightQuery
<1> QED BY <1>5, <1>7, <1>10 DEF CacheInv

(* A worker that has nothing any more: its query threw, or is done with. *)
LEMMA DropInv == ASSUME CacheInv, NEW w \in Workers, BuildThrows(w) \/ Release(w) PROVE CacheInv'
<1>1. /\ UNCHANGED <<list, index, currSize, built>>
      /\ pc' = [pc EXCEPT ![w] = "idle"] /\ key' = [key EXCEPT ![w] = NoKey]
      /\ query' = [query EXCEPT ![w] = NoObject]
  BY DEF BuildThrows, Release, CacheInv, TypeOK, HasQuery
<1>2. /\ pc'[w] = "idle" /\ query'[w] = NoObject
      /\ \A u \in Workers : u # w => pc'[u] = pc[u] /\ key'[u] = key[u] /\ query'[u] = query[u]
  BY <1>1 DEF CacheInv, TypeOK
<1>3. TypeOK'
  BY <1>1 DEF CacheInv, TypeOK
<1>4. Indexed(list, index)' /\ (currSize = Len(list))'
  BY <1>1 DEF CacheInv, Indexed
<1>5. HasQuery' /\ RightQuery'
  BY <1>1, <1>2 DEF CacheInv, HasQuery, RightQuery
<1> QED BY <1>3, <1>4, <1>5 DEF CacheInv

(* An insertion: what is there for the key is replaced, and what is then    *)
(* too much is the oldest entry, which is another one.                      *)
LEMMA InsertInv == ASSUME CacheInv, NEW w \in Workers, Insert(w) PROVE CacheInv'
<1> DEFINE k == key[w]
           q == query[w]
           rest == Without(k)
           gone == [index EXCEPT ![k] = NoObject]
           longer == <<Entry(k, q)>> \o rest
           with == [index EXCEPT ![k] = q]
<1>1. /\ UNCHANGED <<built, key, query>> /\ pc[w] = "built" /\ pc' = [pc EXCEPT ![w] = "has"]
      /\ IF TooMany(Counted(k))
           THEN /\ list' = Front(longer)
                /\ index' = [with EXCEPT ![Last(longer).key] = NoObject]
                /\ currSize' = Counted(k) - 1
           ELSE list' = longer /\ index' = with /\ currSize' = Counted(k)
  BY DEF Insert
<1>2. k \in Keys /\ q \in Objects /\ built[q] = k /\ index \in [Keys -> Objects \cup {NoObject}]
  BY <1>1 DEF CacheInv, TypeOK, HasQuery, RightQuery
<1> HIDE DEF k, q
<1>3. Indexed(rest, gone) /\ Len(rest) + 1 = Counted(k)
  BY <1>2, WithoutIndexed
<1>4. gone[k] = NoObject /\ [gone EXCEPT ![k] = q] = with
  BY <1>2
<1> HIDE DEF rest, gone, with
<1>5. Indexed(longer, with) /\ Len(longer) = Counted(k)
  BY <1>2, <1>3, <1>4, PushIndexed
<1>6. Counted(k) \in 1 .. currSize + 1 /\ currSize \in 0 .. MaxSize /\ longer \in Seq(Entries)
  <2>1. Len(rest) \in Nat /\ currSize \in 0 .. MaxSize
    BY <1>3, LenProperties DEF Indexed, CacheInv, TypeOK
  <2>2. longer \in Seq(Entries)
    BY <1>5 DEF Indexed
  <2>3. Counted(k) <= currSize + 1
    BY <2>1 DEF Counted
  <2> QED BY <1>3, <2>1, <2>2, <2>3
<1> HIDE DEF longer
<1>7. /\ Indexed(list', index') /\ currSize' = Len(list') /\ currSize' \in 0 .. MaxSize
  <2>1. CASE ~TooMany(Counted(k))
    <3>1. Counted(k) \in 0 .. MaxSize
      BY <1>6, <2>1, QueryCacheAssumption DEF TooMany
    <3> QED BY <1>1, <1>5, <2>1, <3>1
  <2>2. CASE TooMany(Counted(k))
    <3>1. longer # <<>> /\ Len(longer) \in 1 .. Len(longer)
      BY <1>5, <1>6
    <3>2. longer[Len(longer)] \in Entries
      BY <1>6, <3>1, ElementOfSeq
    <3>3. Last(longer) = longer[Len(longer)] /\ Last(longer).key \in Keys
      BY <3>2 DEF Last, Entries
    <3>4. Front(longer) = RemoveAt(longer, Len(longer))
      BY <1>6, <3>1, FrontIsRemoval
    <3>5. /\ Indexed(Front(longer), [with EXCEPT ![Last(longer).key] = NoObject])
          /\ Len(Front(longer)) = Len(longer) - 1
      BY <1>5, <3>1, <3>3, <3>4, EraseIndexed
    <3>6. Counted(k) - 1 \in 0 .. MaxSize
      BY <1>6, QueryCacheAssumption
    <3> QED BY <1>1, <1>5, <2>2, <3>5, <3>6
  <2> QED BY <2>1, <2>2
<1>8. Indexed(list, index)'
  BY <1>1, <1>7 DEF Indexed
<1>9. TypeOK'
  BY <1>1, <1>7 DEF CacheInv, TypeOK, Indexed, Entries
<1>10. pc'[w] = "has" /\ \A u \in Workers : u # w => pc'[u] = pc[u]
  BY <1>1 DEF CacheInv, TypeOK
<1>11. HasQuery' /\ RightQuery'
  BY <1>1, <1>10 DEF CacheInv, HasQuery, RightQuery
<1> QED BY <1>7, <1>8, <1>9, <1>11 DEF CacheInv

(* Every step of every worker. *)
LEMMA CacheStep == ASSUME CacheInv, [Next]_vars PROVE CacheInv'
<1>1. CASE UNCHANGED vars
  BY <1>1 DEF vars, CacheInv, TypeOK, Indexed, HasQuery, RightQuery
<1>2. ASSUME NEW w \in Workers,
             \/ \E k \in Keys : Fetch(w, k)
             \/ Build(w) \/ BuildThrows(w) \/ Insert(w) \/ Release(w)
      PROVE  CacheInv'
  BY <1>2, FetchInv, BuildInv, DropInv, InsertInv
<1> QED BY <1>1, <1>2 DEF Next

(* The query cache keeps CacheInv. *)
THEOREM CacheInvariant == Spec => []CacheInv
BY CacheInit, CacheStep, PTL DEF Spec

(* Index, list and counter agree, within the limit, however misses,         *)
(* insertions and evictions interleave.                                     *)
THEOREM IndexIsList == Spec => []IndexMatchesList
<1>1. CacheInv => IndexMatchesList
  <2> SUFFICES ASSUME CacheInv PROVE IndexMatchesList
    OBVIOUS
  <2>1. DOMAIN list = 1 .. Len(list) /\ \A i \in 1 .. Len(list) : list[i] \in Entries
    BY LenProperties, ElementOfSeq DEF CacheInv, TypeOK, Entries
  <2>2. currSize = Len(list) /\ currSize <= MaxSize
    BY QueryCacheAssumption DEF CacheInv, TypeOK
  <2>3. ASSUME NEW k \in Keys, NEW q \in Objects, index[k] = q
        PROVE  \E i \in DOMAIN list : list[i] = Entry(k, q)
    <3>1. PICK i \in 1 .. Len(list) : list[i].key = k
      BY <2>3, QueryCacheAssumption DEF CacheInv, Indexed
    <3>2. list[i].obj = q
      BY <2>3, <3>1 DEF CacheInv, Indexed
    <3>3. list[i] = Entry(k, q)
      BY <2>1, <3>1, <3>2 DEF Entry, Entries
    <3> QED BY <2>1, <3>3
  <2>4. ASSUME NEW k \in Keys, NEW q \in Objects, NEW i \in DOMAIN list, list[i] = Entry(k, q)
        PROVE  index[k] = q
    <3>1. list[i].key = k /\ list[i].obj = q
      BY <2>4 DEF Entry
    <3> QED BY <2>1, <3>1 DEF CacheInv, Indexed
  <2> QED BY <2>2, <2>3, <2>4 DEF IndexMatchesList
<1> QED BY <1>1, CacheInvariant, PTL

(* A worker never runs on with the query of somebody else. *)
THEOREM QueryForKey == Spec => []RightQuery
BY CacheInvariant, PTL DEF CacheInv

-----------------------------------------------------------------------------
(* Proofs about the transfers.                                              *)

(* The constants differ from the generations and from each other. *)
LEMMA Texts3 == /\ \A g \in S3!Gens : g # NoFile /\ g # Part /\ g # Nothing
                /\ NoFile # Part /\ NoFile # Nothing /\ Part # Nothing
BY S3Assumption DEF S3!TransferAssumption, S3!Gens

(* A process that has just started has fetched nothing. *)
LEMMA TransferInit == ASSUME S3!Init PROVE TransferInv
<1>1. S3!TypeOK
  <2>1. cache \in S3!Gens \cup {NoFile}
    BY S3Assumption DEF S3!Init, S3!TransferAssumption, S3!Gens
  <2>2. lost \in BOOLEAN /\ diskFull \in BOOLEAN
    BY DEF S3!Init
  <2>3. /\ object \in S3!Gens /\ step \in [Workers -> S3!PC] /\ ss \in [Workers -> S3!Contents]
        /\ temp \in [Workers -> S3!Gens \cup {NoFile, Part}] /\ failed \in [Workers -> BOOLEAN]
    BY DEF S3!Init, S3!Contents, S3!PC
  <2> QED BY <2>1, <2>2, <2>3 DEF S3!TypeOK
<1>2. CutByDisk
  BY <1>1, Texts3, S3Assumption DEF S3!Init, CutByDisk, S3!TransferAssumption
<1>3. HasFile /\ FallbackKept
  BY DEF S3!Init, HasFile, FallbackKept, S3!FallbackKept
<1> QED BY <1>1, <1>2, <1>3 DEF TransferInv

(* A new object in S3 changes nothing of what was fetched. *)
LEMMA UploadInv == ASSUME TransferInv, S3!Upload PROVE TransferInv'
<1> USE DEF S3!Upload, TransferInv
<1>1. S3!TypeOK'
  BY S3Assumption DEF S3!TypeOK, S3!Gens, S3!TransferAssumption, S3!Contents
<1>2. CutByDisk' /\ HasFile' /\ FallbackKept'
  BY DEF CutByDisk, HasFile, FallbackKept, S3!FallbackKept, S3!InWindow
<1> QED BY <1>1, <1>2

(* After a crash only the cache file is left. *)
LEMMA CrashInv == ASSUME TransferInv, S3!Crash PROVE TransferInv'
<1> USE DEF S3!Crash, TransferInv
<1>1. S3!TypeOK'
  BY DEF S3!TypeOK, S3!Contents, S3!PC
<1>2. CutByDisk' /\ HasFile' /\ FallbackKept'
  BY Texts3 DEF CutByDisk, HasFile, FallbackKept, S3!FallbackKept
<1> QED BY <1>1, <1>2

(* A transfer is begun. *)
LEMMA RequestInv == ASSUME TransferInv, NEW t \in Workers, S3!Request(t) PROVE TransferInv'
<1> USE DEF S3!Request, S3!Goto, TransferInv
<1>1. S3!TypeOK'
  BY DEF S3!TypeOK, S3!Contents, S3!PC
<1>2. CutByDisk'
  BY Texts3 DEF CutByDisk, S3!TypeOK
<1>3. HasFile'
  BY DEF HasFile, S3!TypeOK
<1>4. FallbackKept'
  BY DEF FallbackKept, S3!FallbackKept, S3!InWindow, S3!TypeOK
<1> QED BY <1>1, <1>2, <1>3, <1>4

(* A transfer is complete, if not its temporary file. *)
LEMMA CompleteInv == ASSUME TransferInv, NEW t \in Workers, S3!Complete(t) PROVE TransferInv'
<1> USE DEF S3!Complete, S3!Goto, TransferInv
<1>1. S3!TypeOK'
  BY DEF S3!TypeOK, S3!PC
<1>2. CutByDisk'
  BY DEF CutByDisk, S3!TypeOK
<1>3. HasFile'
  BY DEF HasFile, S3!TypeOK
<1>4. FallbackKept'
  BY DEF FallbackKept, S3!FallbackKept, S3!InWindow, S3!TypeOK
<1> QED BY <1>1, <1>2, <1>3, <1>4

(* A transfer fails. *)
LEMMA FailInv == ASSUME TransferInv, NEW t \in Workers, S3!Fail(t) PROVE TransferInv'
<1> USE DEF S3!Fail, S3!Goto, TransferInv
<1>1. S3!TypeOK'
  BY DEF S3!TypeOK, S3!PC, S3!Contents
<1>2. CutByDisk'
  BY DEF CutByDisk, S3!TypeOK
<1>3. HasFile'
  BY DEF HasFile, S3!TypeOK
<1>4. FallbackKept'
  BY DEF FallbackKept, S3!FallbackKept, S3!InWindow, S3!TypeOK
<1> QED BY <1>1, <1>2, <1>3, <1>4

(* A transfer that has failed leaves the cache file; another one goes on to *)
(* replace it.                                                              *)
LEMMA FinalizeInv == ASSUME TransferInv, NEW t \in Workers, S3!Finalize(t) PROVE TransferInv'
<1> USE DEF TransferInv
<1>1. /\ UNCHANGED <<object, cache, ss, failed, lost, diskFull>>
      /\ step[t] = "received" /\ step' \in [Workers -> S3!PC]
      /\ temp' \in [Workers -> S3!Gens \cup {NoFile, Part}]
      /\ \A u \in Workers : /\ temp'[u] \in {temp[u], NoFile}
                            /\ u # t => step'[u] = step[u] /\ temp'[u] = temp[u]
      /\ \/ step'[t] = "replacing" /\ temp'[t] # NoFile /\ ~failed[t]
         \/ step'[t] = "choosing" /\ temp'[t] = NoFile
  BY DEF S3!Finalize, S3!Goto, S3!Replaces, S3!CacheAfterFailure, S3!TypeOK, S3!PC
<1>2. S3!TypeOK'
  BY <1>1 DEF S3!TypeOK
<1>3. CutByDisk'
  BY <1>1, Texts3 DEF CutByDisk
<1>4. HasFile'
  BY <1>1 DEF HasFile
<1>5. FallbackKept'
  BY <1>1 DEF FallbackKept, S3!FallbackKept, S3!InWindow
<1> QED BY <1>2, <1>3, <1>4, <1>5

(* The old copy is removed: the window opens. *)
LEMMA RemoveCacheInv == ASSUME TransferInv, NEW t \in Workers, S3!RemoveCache(t) PROVE TransferInv'
<1> USE DEF S3!RemoveCache, S3!Goto, TransferInv
<1>1. S3!TypeOK'
  BY DEF S3!TypeOK, S3!PC
<1>2. CutByDisk'
  BY Texts3 DEF CutByDisk, S3!TypeOK
<1>3. HasFile'
  BY DEF HasFile, S3!TypeOK
<1>4. FallbackKept'
  BY DEF FallbackKept, S3!FallbackKept, S3!InWindow, S3!TypeOK
<1> QED BY <1>1, <1>2, <1>3, <1>4

(* The window closes, with a whole copy or, after an error, with what other *)
(* transfers have left.                                                     *)
LEMMA RenameInv == ASSUME TransferInv, NEW t \in Workers, S3!Rename(t) PROVE TransferInv'
<1> USE DEF TransferInv
<1>1. /\ UNCHANGED <<object, ss, failed, diskFull>>
      /\ step' \in [Workers -> S3!PC]
      /\ step[t] = "removed" /\ step'[t] = "choosing" /\ temp'[t] = NoFile
      /\ \A u \in Workers : u # t => step'[u] = step[u] /\ temp'[u] = temp[u]
      /\ \/ cache' = temp[t] /\ lost' = FALSE
         \/ cache' = cache /\ lost' = (cache = NoFile)
  BY DEF S3!Rename, S3!Goto, S3!TypeOK, S3!PC
<1>2. temp[t] # NoFile /\ ~failed[t]
  BY <1>1 DEF HasFile
<1>3. S3!TypeOK'
  BY <1>1 DEF S3!TypeOK, S3!Rename
<1>4. CutByDisk'
  BY <1>1, <1>2, Texts3 DEF CutByDisk
<1>5. HasFile'
  BY <1>1 DEF HasFile
<1>6. FallbackKept'
  BY <1>1, <1>2 DEF FallbackKept, S3!FallbackKept
<1> QED BY <1>3, <1>4, <1>5, <1>6

(* What was received is only chosen if the transfer has not failed. *)
LEMMA ChooseInv == ASSUME TransferInv, NEW t \in Workers, S3!Choose(t) PROVE TransferInv'
<1> USE DEF TransferInv
<1>1. /\ UNCHANGED <<object, cache, temp, failed, lost, diskFull>>
      /\ step[t] = "choosing" /\ step' \in [Workers -> S3!PC] /\ ss' \in [Workers -> S3!Contents]
      /\ step'[t] \in {"reading", "returned"}
      /\ \A u \in Workers : u # t => step'[u] = step[u] /\ ss'[u] = ss[u]
      /\ ss'[t] \in {ss[t], Nothing}
      /\ step'[t] = "returned" => ~failed[t] \/ ss'[t] = Nothing
  BY DEF S3!Choose, S3!ReturnsReceived, S3!Goto, S3!TypeOK, S3!PC, S3!Contents
<1>2. S3!TypeOK'
  BY <1>1 DEF S3!TypeOK
<1>3. CutByDisk'
  BY <1>1, Texts3 DEF CutByDisk
<1>4. HasFile'
  BY <1>1 DEF HasFile
<1>5. FallbackKept'
  BY <1>1 DEF FallbackKept, S3!FallbackKept, S3!InWindow
<1> QED BY <1>2, <1>3, <1>4, <1>5

(* read_cache finds a whole copy or, if the file has gone, nothing.         *)
LEMMA ReadCacheInv == ASSUME TransferInv, NEW t \in Workers, S3!ReadCache(t) PROVE TransferInv'
<1> USE DEF S3!ReadCache, S3!TextOfCache, S3!Goto, TransferInv
<1>1. S3!TypeOK'
  BY DEF S3!TypeOK, S3!PC, S3!Contents
<1>2. CutByDisk'
  BY Texts3 DEF CutByDisk, S3!TypeOK
<1>3. HasFile'
  BY DEF HasFile, S3!TypeOK
<1>4. FallbackKept'
  BY DEF FallbackKept, S3!FallbackKept, S3!InWindow, S3!TypeOK
<1> QED BY <1>1, <1>2, <1>3, <1>4

(* The caller takes the text. *)
LEMMA ReturnInv == ASSUME TransferInv, NEW t \in Workers, S3!Return(t) PROVE TransferInv'
<1> USE DEF TransferInv
<1>1. /\ UNCHANGED <<object, cache, temp, lost, diskFull>>
      /\ step[t] = "returned" /\ step'[t] = "idle" /\ ss'[t] = Nothing /\ ~failed'[t]
      /\ \A u \in Workers : u # t => step'[u] = step[u] /\ ss'[u] = ss[u] /\ failed'[u] = failed[u]
  BY DEF S3!Return, S3!Goto, S3!TypeOK
<1>2. S3!TypeOK'
  BY DEF S3!TypeOK, S3!Return, S3!Goto, S3!PC, S3!Contents
<1>3. CutByDisk'
  BY <1>1, Texts3 DEF CutByDisk, HasFile
<1>4. HasFile'
  BY <1>1 DEF HasFile
<1>5. FallbackKept'
  BY <1>1 DEF FallbackKept, S3!FallbackKept, S3!InWindow
<1> QED BY <1>2, <1>3, <1>4, <1>5

(* Every step of S3, of the process and of its transfers. *)
LEMMA TransferStep == ASSUME TransferInv, [S3!Next]_(S3!vars) PROVE TransferInv'
<1>1. CASE UNCHANGED S3!vars
  BY <1>1 DEF S3!vars, TransferInv, S3!TypeOK, CutByDisk, HasFile, FallbackKept, S3!FallbackKept, S3!InWindow
<1>2. CASE S3!Upload \/ S3!Crash
  BY <1>2, UploadInv, CrashInv
<1>3. ASSUME NEW t \in Workers, S3!Request(t) \/ S3!Step(t) PROVE TransferInv'
  BY <1>3, RequestInv, CompleteInv, FailInv, FinalizeInv, RemoveCacheInv, RenameInv, ChooseInv,
     ReadCacheInv, ReturnInv DEF S3!Step
<1> QED BY <1>1, <1>2, <1>3 DEF S3!Next

(* The transfers keep TransferInv. *)
THEOREM TransferInvariant == S3!Spec => []TransferInv
BY TransferInit, TransferStep, PTL DEF S3!Spec

(* Whatever transfers overlap, fail or die: only a write error on the disk  *)
(* that `transfer` does not look at cuts what read_s3 returns or the cached *)
(* copy.                                                                    *)
THEOREM WholeObjects == S3!Spec => []ServesWhole
<1>1. TransferInv => ServesWhole
  BY DEF TransferInv, CutByDisk, ServesWhole, S3!ServesWhole
<1> QED BY <1>1, TransferInvariant, PTL

(* No transfer takes the cached copy away, outside the window between       *)
(* remove and rename and what may go wrong there.                           *)
THEOREM FallbackStays == S3!Spec => []FallbackKept
BY TransferInvariant, PTL DEF TransferInv

-----------------------------------------------------------------------------
(* Proofs about the Context.                                                *)

(* A Context that nobody has read. *)
LEMMA ContextInit == ASSUME Ctx!Init PROVE ContextInv
<1>1. Ctx!TypeOK
  BY DEF Ctx!Init, Ctx!TypeOK, Ctx!Ops, Ctx!Queries
<1>2. Holder /\ FlagLast /\ Readers /\ WholeData
  BY CtxAssumption DEF Ctx!Init, Holder, FlagLast, Readers, WholeData, Ctx!WholeData, Ctx!ContextAssumption
<1> QED BY <1>1, <1>2 DEF ContextInv

(* A call begins: whoever finds the flag set finds all of the map. *)
LEMMA CallInv ==
  ASSUME ContextInv, NEW w \in Workers, NEW o \in Ctx!Ops, NEW q \in Ctx!Queries, Ctx!Call(w, o, q)
  PROVE  ContextInv'
<1> USE DEF ContextInv
<1>1. /\ UNCHANGED <<data, dataPopulated, cachedQueries, cachedCounts, mutex>>
      /\ at[w] = "idle" /\ op'[w] = o /\ copy'[w] = {}
      /\ at'[w] = IF o = "getCount" THEN "lookup" ELSE IF dataPopulated THEN Ctx!After(o) ELSE "fill"
      /\ read'[w] = IF at'[w] = "copy" THEN data ELSE {}
      /\ \A u \in Workers : u # w => /\ at'[u] = at[u] /\ op'[u] = op[u]
                                     /\ copy'[u] = copy[u] /\ read'[u] = read[u]
  BY DEF Ctx!Call, Ctx!Goto, Ctx!TypeOK
<1>2. Ctx!After(o) \in {"lookup", "copy"} /\ at'[w] \in {"lookup", "copy", "fill"}
  BY <1>1 DEF Ctx!After
<1>3. Ctx!TypeOK'
  BY DEF Ctx!TypeOK, Ctx!Call, Ctx!Goto, Ctx!After
<1>4. Holder'
  BY <1>1, <1>2 DEF Holder
<1>5. FlagLast'
  BY <1>1, <1>2 DEF FlagLast
<1>6. at'[w] = "copy" => dataPopulated /\ o # "getCount"
  BY <1>1
<1>7. Readers'
  BY <1>1, <1>2, <1>6 DEF Readers, FlagLast, Ctx!After
<1>8. WholeData'
  BY <1>1, <1>6 DEF WholeData, Ctx!WholeData, FlagLast
<1> QED BY <1>3, <1>4, <1>5, <1>7, <1>8

(* populateData gets the mutex, and tests the flag again. *)
LEMMA FillInv == ASSUME ContextInv, NEW w \in Workers, Ctx!Fill(w) PROVE ContextInv'
<1> USE DEF ContextInv
<1>1. /\ UNCHANGED <<data, dataPopulated, cachedQueries, cachedCounts, op, asked, copy>>
      /\ at[w] = "fill" /\ mutex = NoWorker
      /\ \A u \in Workers : u # w => at'[u] = at[u] /\ read'[u] = read[u]
  BY DEF Ctx!Fill, Ctx!Goto, Ctx!SetsFirst, Ctx!TypeOK
<1>2. \A u \in Workers : at[u] \notin {"filling", "locked"}
  BY <1>1, CtxAssumption DEF Holder, Ctx!ContextAssumption
<1>3. op[w] # "getCount"
  BY <1>1 DEF Readers
<1>4. CASE dataPopulated
  <2>1. /\ UNCHANGED mutex /\ data = Fields
        /\ at' = [at EXCEPT ![w] = Ctx!After(op[w])]
        /\ read' = [read EXCEPT ![w] = IF op[w] = "getData" THEN {} ELSE data]
    BY <1>4 DEF Ctx!Fill, Ctx!Goto, FlagLast
  <2>2. op[w] = "getData" => at'[w] = "lookup"
    BY <2>1 DEF Ctx!TypeOK, Ctx!After
  <2>3. op[w] # "getData" => at'[w] = "copy" /\ read'[w] = Fields
    BY <2>1 DEF Ctx!TypeOK, Ctx!After
  <2>4. Ctx!TypeOK'
    BY <1>1, <2>1 DEF Ctx!TypeOK, Ctx!After
  <2>5. Holder'
    BY <1>1, <1>2, <2>1, <2>2, <2>3, CtxAssumption DEF Holder, Ctx!ContextAssumption
  <2>6. FlagLast'
    BY <1>1, <1>2, <2>1, <2>2, <2>3 DEF FlagLast
  <2>7. copy[w] \subseteq Fields
    BY DEF Ctx!TypeOK
  <2>8. Readers'
    BY <1>1, <1>3, <1>4, <2>2, <2>3, <2>7 DEF Readers
  <2>9. WholeData'
    BY <1>1, <2>2, <2>3, <2>7 DEF WholeData, Ctx!WholeData
  <2> QED BY <2>4, <2>5, <2>6, <2>8, <2>9
<1>5. CASE ~dataPopulated
  <2>1. UNCHANGED read /\ mutex' = w /\ at' = [at EXCEPT ![w] = "filling"]
    BY <1>5 DEF Ctx!Fill, Ctx!Goto
  <2>2. at'[w] = "filling"
    BY <2>1 DEF Ctx!TypeOK
  <2>3. Ctx!TypeOK'
    BY <1>1, <2>1 DEF Ctx!TypeOK
  <2>4. Holder'
    BY <1>1, <1>2, <2>1, <2>2 DEF Holder
  <2>5. FlagLast' /\ Readers'
    BY <1>1, <1>3, <1>5, <2>1, <2>2 DEF FlagLast, Readers
  <2>6. WholeData'
    BY <1>1, <2>1, <2>2 DEF WholeData, Ctx!WholeData
  <2> QED BY <2>3, <2>4, <2>5, <2>6
<1> QED BY <1>4, <1>5

(* A field is entered: nobody can have taken the map for full. *)
LEMMA EnterInv == ASSUME ContextInv, NEW w \in Workers, NEW f \in Fields, Ctx!Enter(w, f) PROVE ContextInv'
<1> USE DEF ContextInv, Ctx!Enter
<1>1. Ctx!TypeOK'
  BY DEF Ctx!TypeOK
<1>2. Holder' /\ FlagLast' /\ Readers' /\ WholeData'
  BY DEF Holder, FlagLast, Readers, WholeData, Ctx!WholeData
<1> QED BY <1>1, <1>2

(* The loop is over: the flag is set, and only then the mutex given back.   *)
LEMMA FilledInv == ASSUME ContextInv, NEW w \in Workers, Ctx!Filled(w) PROVE ContextInv'
<1> USE DEF ContextInv
<1>1. /\ UNCHANGED <<data, cachedQueries, cachedCounts, op, asked, copy>>
      /\ at[w] = "filling" /\ data = Fields /\ dataPopulated' = TRUE /\ mutex' = NoWorker
      /\ at' = [at EXCEPT ![w] = Ctx!After(op[w])]
      /\ read' = [read EXCEPT ![w] = IF op[w] = "getData" THEN {} ELSE data]
  BY DEF Ctx!Filled, Ctx!Goto
<1>2. \A u \in Workers : u # w => at'[u] = at[u] /\ read'[u] = read[u]
  BY <1>1 DEF Ctx!TypeOK
<1>3. \A u \in Workers : u # w => at[u] \notin {"filling", "locked"}
  BY <1>1 DEF Holder
<1>4. op[w] # "getCount"
  BY <1>1 DEF Readers
<1>5. op[w] = "getData" => at'[w] = "lookup"
  BY <1>1 DEF Ctx!TypeOK, Ctx!After
<1>6. op[w] # "getData" => at'[w] = "copy" /\ read'[w] = Fields
  BY <1>1 DEF Ctx!TypeOK, Ctx!After
<1>7. Ctx!TypeOK'
  BY <1>1 DEF Ctx!TypeOK, Ctx!After
<1>8. Holder'
  BY <1>1, <1>2, <1>3, <1>5, <1>6, CtxAssumption DEF Holder, Ctx!ContextAssumption
<1>9. FlagLast'
  BY <1>1, <1>2, <1>3, <1>5, <1>6 DEF FlagLast
<1>10. copy[w] \subseteq Fields
  BY DEF Ctx!TypeOK
<1>11. Readers'
  BY <1>1, <1>2, <1>4, <1>5, <1>6, <1>10 DEF Readers
<1>12. WholeData'
  BY <1>1, <1>2, <1>5, <1>6, <1>10 DEF WholeData, Ctx!WholeData
<1> QED BY <1>7, <1>8, <1>9, <1>11, <1>12

(* An entry of the map is copied. *)
LEMMA CopyInv == ASSUME ContextInv, NEW w \in Workers, NEW f \in Fields, Ctx!Copy(w, f) PROVE ContextInv'
<1> USE DEF ContextInv
<1>1. /\ UNCHANGED <<data, dataPopulated, cachedQueries, cachedCounts, mutex, at, op, asked>>
      /\ at[w] = "copy" /\ f \in read[w]
      /\ copy'[w] = copy[w] \cup {f} /\ read'[w] = read[w] \ {f}
      /\ \A u \in Workers : u # w => copy'[u] = copy[u] /\ read'[u] = read[u]
  BY DEF Ctx!Copy, Ctx!TypeOK
<1>2. Ctx!TypeOK'
  BY DEF Ctx!TypeOK, Ctx!Copy
<1>3. copy'[w] \cup read'[w] = copy[w] \cup read[w]
  BY <1>1
<1>4. Holder' /\ FlagLast'
  BY <1>1 DEF Holder, FlagLast
<1>5. Readers' /\ WholeData'
  BY <1>1, <1>3 DEF Readers, WholeData, Ctx!WholeData
<1> QED BY <1>2, <1>4, <1>5

(* A look-up gets the mutex. *)
LEMMA LockInv == ASSUME ContextInv, NEW w \in Workers, Ctx!Lock(w) PROVE ContextInv'
<1> USE DEF ContextInv
<1>1. /\ UNCHANGED <<data, dataPopulated, cachedQueries, cachedCounts, op, asked, copy, read>>
      /\ at[w] = "lookup" /\ mutex = NoWorker /\ mutex' = w /\ at'[w] = "locked"
      /\ \A u \in Workers : u # w => at'[u] = at[u]
  BY DEF Ctx!Lock, Ctx!Goto, Ctx!TypeOK
<1>2. Ctx!TypeOK'
  BY DEF Ctx!TypeOK, Ctx!Lock, Ctx!Goto
<1>3. Holder'
  BY <1>1, CtxAssumption DEF Holder, Ctx!ContextAssumption
<1>4. FlagLast' /\ Readers' /\ WholeData'
  BY <1>1 DEF FlagLast, Readers, WholeData, Ctx!WholeData
<1> QED BY <1>2, <1>3, <1>4

(* What every way out of a call has in common. *)
LEMMA LeaveInv ==
  ASSUME ContextInv, NEW w \in Workers, Ctx!Return(w), UNCHANGED <<data, dataPopulated, read>>,
         \/ at[w] = "copy" /\ UNCHANGED mutex
         \/ at[w] = "locked" /\ mutex' = NoWorker,
         cachedQueries' \subseteq (Fields \cup Paths) \ BadPaths, cachedQueries' \cap Fields = {},
         cachedCounts' \subseteq (Fields \cup Paths) \ BadPaths
  PROVE  ContextInv'
<1> USE DEF ContextInv
<1>1. /\ at'[w] = "idle" /\ op'[w] = "getData"
      /\ \A u \in Workers : u # w => at'[u] = at[u] /\ op'[u] = op[u] /\ copy'[u] = copy[u]
  BY DEF Ctx!Return, Ctx!Goto, Ctx!TypeOK
<1>2. Ctx!TypeOK'
  BY DEF Ctx!TypeOK, Ctx!Return, Ctx!Goto, Ctx!Ops, Ctx!Queries
<1>3. Holder'
  BY <1>1, CtxAssumption DEF Holder, Ctx!ContextAssumption
<1>4. FlagLast' /\ Readers' /\ WholeData'
  BY <1>1 DEF FlagLast, Readers, WholeData, Ctx!WholeData
<1> QED BY <1>2, <1>3, <1>4

(* The ways out: a map copied, a look-up done.  A getData that gets to the  *)
(* cache of queries has a full map, in which it has not found its query.    *)
LEMMA ReturnsInv ==
  ASSUME ContextInv, NEW w \in Workers, Ctx!Copied(w) \/ Ctx!GetData(w) \/ Ctx!GetCount(w)
  PROVE  ContextInv'
<1>1. /\ cachedQueries \subseteq (Fields \cup Paths) \ BadPaths /\ cachedQueries \cap Fields = {}
      /\ cachedCounts \subseteq (Fields \cup Paths) \ BadPaths /\ asked[w] \in Ctx!Queries
  BY DEF ContextInv, Ctx!TypeOK, WholeData, Ctx!WholeData
<1>2. ~Ctx!Throws(w) => asked[w] \in (Fields \cup Paths) \ BadPaths
  BY <1>1 DEF Ctx!Throws, Ctx!Queries
<1>3. CASE Ctx!Copied(w)
  BY <1>1, <1>3, LeaveInv DEF Ctx!Copied
<1>4. CASE Ctx!GetData(w)
  <2>1. data = Fields
    BY <1>4 DEF Ctx!GetData, ContextInv, Readers, FlagLast
  <2>2. cachedQueries' \subseteq (Fields \cup Paths) \ BadPaths /\ cachedQueries' \cap Fields = {}
    BY <1>1, <1>2, <1>4, <2>1 DEF Ctx!GetData
  <2> QED BY <1>1, <1>4, <2>2, LeaveInv DEF Ctx!GetData
<1>5. CASE Ctx!GetCount(w)
  BY <1>1, <1>2, <1>5, LeaveInv DEF Ctx!GetCount
<1> QED BY <1>3, <1>4, <1>5

(* Every step of every call. *)
LEMMA ContextStep == ASSUME ContextInv, [Ctx!Next]_(Ctx!vars) PROVE ContextInv'
<1>1. CASE UNCHANGED Ctx!vars
  BY <1>1 DEF Ctx!vars, ContextInv, Ctx!TypeOK, Holder, FlagLast, Readers, WholeData, Ctx!WholeData
<1>2. ASSUME NEW w \in Workers, Ctx!Step(w) PROVE ContextInv'
  BY <1>2, FillInv, FilledInv, LockInv, ReturnsInv, EnterInv, CopyInv DEF Ctx!Step
<1>3. ASSUME NEW w \in Workers, NEW o \in Ctx!Ops, NEW q \in Ctx!Queries, Ctx!Call(w, o, q) PROVE ContextInv'
  BY <1>3, CallInv
<1> QED BY <1>1, <1>2, <1>3 DEF Ctx!Next

(* The Context keeps ContextInv. *)
THEOREM ContextInvariant == Ctx!Spec => []ContextInv
BY ContextInit, ContextStep, PTL DEF Ctx!Spec

(* The test of the flag with nothing locked is enough: whoever goes past it *)
(* copies every field, and takes no field for a query.                      *)
THEOREM MapIsWhole == Ctx!Spec => []WholeData
BY ContextInvariant, PTL DEF ContextInv
=============================================================================
