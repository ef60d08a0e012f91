------------------------------ MODULE QueryLog ------------------------------
(***************************************************************************)
(* The query log (query_log.cpp, query_log.h): a handler makes an entry,   *)
(* adds its arguments, runs, and the entry's destructor writes one block   *)
(* to the file.                                                            *)
(*                                                                         *)
(* `boost::mutex::scoped_lock(_log._mutex);` declares a temporary that     *)
(* unlocks at the end of its own statement, so `_query_id++` is a read and *)
(* a write with other threads in between.                                  *)
(*                                                                         *)
(* An argument is a sequence of characters.  str_replace is a loop over    *)
(* it; what lies before loc never matters again, so that rest[w] is what   *)
(* lies from loc on, and loc itself is kept modulo 2 only to tell one turn *)
(* of the loop from the next.                                              *)
(* What happens once a string has used up the memory is left out: the loop *)
(* goes on.                                                                *)
(***************************************************************************)
EXTENDS Naturals, Sequences

CONSTANTS Workers,      \* threads of the server
          Arguments,    \* strings that calls carry, in Seq({Backslash, Quote, "x"})
          IsLogging,    \* --query_log was given and the file opened
          MaxId         \* ids are counted modulo this

Backslash == "\\"
Quote == "\""

VARIABLES queryId,  \* _query_id of the log
          pc,       \* worker -> where its handler is
          id,       \* worker -> _query_id of its entry
          rest,     \* worker -> the argument, from loc on
          search,   \* worker -> what str_replace looks for
          loc,      \* worker -> loc modulo 2
          written   \* worker -> the block of its latest call is in the file

vars == <<queryId, pc, id, rest, search, loc, written>>

Init ==
    /\ queryId = 0
    /\ pc = [w \in Workers |-> "idle"]
    /\ id = [w \in Workers |-> 0]
    /\ rest = [w \in Workers |-> <<>>]
    /\ search = [w \in Workers |-> Backslash]
    /\ loc = [w \in Workers |-> 0]
    /\ written = [w \in Workers |-> TRUE]

(* The constructor reads the counter, *)
NewEntry(w) ==
    /\ pc[w] = "idle"
    /\ pc' = [pc EXCEPT ![w] = "counting"]
    /\ id' = [id EXCEPT ![w] = queryId]
    /\ written' = [written EXCEPT ![w] = FALSE]
    /\ UNCHANGED <<queryId, rest, search, loc>>

(* and stores it; method_call() and << begin the entry. *)
MethodCall(w, argument) ==
    /\ pc[w] = "counting"
    /\ queryId' = (id[w] + 1) % MaxId
    /\ rest' = [rest EXCEPT ![w] = argument]
    /\ search' = [search EXCEPT ![w] = Backslash]
    /\ loc' = [loc EXCEPT ![w] = 0]
    /\ pc' = [pc EXCEPT ![w] = IF IsLogging THEN "escaping" ELSE "running"]
    /\ UNCHANGED <<id, written>>

Found(w) == \E i \in DOMAIN rest[w] : rest[w][i] = search[w]

(* while ((loc = str.find(search, loc)) != npos)                           *)
(*   str.replace(loc++, search.size(), replacement);                       *)
StrReplace(w) ==
    LET at == CHOOSE i \in DOMAIN rest[w] :
                    rest[w][i] = search[w] /\ \A j \in 1 .. i - 1 : rest[w][j] # search[w]
        replaced == <<Backslash, search[w]>> \o SubSeq(rest[w], at + 1, Len(rest[w]))
    IN  /\ pc[w] = "escaping" /\ Found(w)
        /\ rest' = [rest EXCEPT ![w] = Tail(replaced)]
        /\ loc' = [loc EXCEPT ![w] = 1 - @]
        /\ UNCHANGED <<queryId, pc, id, search, written>>

(* ValueRep: first the backslashes, then the quotes, of the whole string.  *)
(* The loop ends only where it replaced nothing.                           *)
Replaced(w) ==
    /\ pc[w] = "escaping" /\ ~Found(w)
    /\ search' = [search EXCEPT ![w] = Quote]
    /\ pc' = [pc EXCEPT ![w] = IF search[w] = Backslash THEN "escaping" ELSE "running"]
    /\ UNCHANGED <<queryId, id, rest, loc, written>>

(* The handler runs, and the destructor flushes the block of the entry. *)
Return(w) ==
    /\ pc[w] = "running"
    /\ pc' = [pc EXCEPT ![w] = "idle"]
    /\ written' = [written EXCEPT ![w] = IsLogging]
    /\ UNCHANGED <<queryId, id, rest, search, loc>>

Step(w) ==
    \/ \E s \in Arguments : MethodCall(w, s)
    \/ StrReplace(w)
    \/ Replaced(w)
    \/ Return(w)

Next == \E w \in Workers : NewEntry(w) \/ Step(w)

(* Threads that have something to do go on; no call has to be made. *)
Spec == Init /\ [][Next]_vars /\ \A w \in Workers : WF_vars(Step(w))

-----------------------------------------------------------------------------
(* The log holds the queries: a call that has made its entry is in the     *)
(* file in the end, whatever characters its arguments have.  StrReplace    *)
(* finds the character it has just written again.                          *)
EveryQueryLogged == \A w \in Workers : pc[w] = "counting" ~> written[w]
=============================================================================
