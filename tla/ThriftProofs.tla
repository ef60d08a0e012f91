----------------------------- MODULE ThriftProofs -----------------------------
(***************************************************************************)
(* A reply is of the call that gets it, the handler gets the arguments of   *)
(* the call and the caller learns how the handler ended, for any number of  *)
(* clients, threads and pending calls, every method of both services and    *)
(* every version of vae.thrift a client is built from.                      *)
(***************************************************************************)
EXTENDS VaeRpc, SequenceTheorems, TLAPS

-----------------------------------------------------------------------------
(* The inductive invariant: the states of one connection.                   *)

(* A sequence, whatever is in it. *)
IsSeq(q) == q \in Seq({q[i] : i \in DOMAIN q})

MethodNames == VaeDbMethods \cup VaeRubydMethods \cup {"", "later"}
ClientRecord == [pc : {"closed", "idle", "waiting", "skipping"}, service : Services,
                 method : MethodNames, call : 0 .. 1]

Row(c) == client[c] \in ClientRecord /\ IsSeq(calls[c]) /\ IsSeq(replies[c])

(* A reply carries the name of the method that was run. *)
NamedByRun(c) == \A i \in DOMAIN replies[c] : replies[c][i].run.method = replies[c][i].fname

(* The one thing of a call that is under way: the call, its run, or the     *)
(* reply, and each is of the call that the client waits for.                *)
OneUnderWay(c) ==
  /\ calls[c] # <<>> => /\ Len(calls[c]) = 1 /\ replies[c] = <<>> /\ server[c].pc # "handling"
                        /\ calls[c][1].fname = client[c].method /\ calls[c][1].call = client[c].call
  /\ server[c].pc = "handling" => /\ replies[c] = <<>>
                                  /\ server[c].method = client[c].method /\ server[c].call = client[c].call
  /\ replies[c] # <<>> => /\ Len(replies[c]) = 1
                          /\ replies[c][1].fname = client[c].method /\ replies[c][1].run.call = client[c].call

(* A client that closes what it gives up on. *)
Careful(c) ==
  /\ client[c].pc # "skipping"
  /\ client[c].pc = "closed" => replies[c] = <<>>
  /\ client[c].pc = "idle" => calls[c] = <<>> /\ replies[c] = <<>> /\ server[c].pc # "handling"
  /\ client[c].pc = "waiting" => OneUnderWay(c)

(* What a client has got, if anything, is of its latest call. *)
OfThisCall(c) ==
  got[c] # Unset =>
    /\ c \notin Reusers => got[c].run.call = client[c].call
    /\ c \notin Reusers \/ got[c].end.how # "TApplicationException" => got[c].run.method = client[c].method

LinkInv(c) == Row(c) /\ NamedByRun(c) /\ (c \notin Reusers => Careful(c)) /\ OfThisCall(c)

Tables == /\ DOMAIN client = Clients /\ DOMAIN server = Clients /\ DOMAIN calls = Clients
          /\ DOMAIN replies = Clients /\ DOMAIN got = Clients

RpcInv == Tables /\ \A c \in Clients : LinkInv(c)

-----------------------------------------------------------------------------
(* Sequences of anything.                                                   *)

LEMMA SeqIsSeq == ASSUME NEW S, NEW q \in Seq(S) PROVE IsSeq(q)
<1>1. Len(q) \in Nat /\ q \in [1 .. Len(q) -> S] /\ DOMAIN q = 1 .. Len(q)
  BY LenProperties
<1> DEFINE T == {q[i] : i \in DOMAIN q}
<1>2. q \in [1 .. Len(q) -> T]
  BY <1>1
<1>3. q \in Seq(T)
  BY <1>1, <1>2, SeqDef
<1> QED BY <1>3 DEF IsSeq

LEMMA EmptyIsSeq == IsSeq(<<>>)
BY EmptySeq, SeqIsSeq

LEMMA AppendIsSeq ==
  ASSUME NEW q, NEW e, IsSeq(q)
  PROVE  /\ IsSeq(Append(q, e)) /\ Len(q) \in Nat /\ DOMAIN q = 1 .. Len(q)
         /\ Len(Append(q, e)) = Len(q) + 1 /\ DOMAIN Append(q, e) = 1 .. Len(q) + 1
         /\ \A i \in 1 .. Len(q) : Append(q, e)[i] = q[i]
         /\ Append(q, e)[Len(q) + 1] = e
<1> DEFINE S == {q[i] : i \in DOMAIN q}
           T == S \cup {e}
<1>1. q \in Seq(S)
  BY DEF IsSeq
<1> HIDE DEF S
<1>2. q \in Seq(T) /\ e \in T
  BY <1>1, SeqMonotonic
<1> HIDE DEF T
<1>3. /\ Append(q, e) \in Seq(T) /\ Len(Append(q, e)) = Len(q) + 1
      /\ \A i \in 1 .. Len(q) : Append(q, e)[i] = q[i]
      /\ Append(q, e)[Len(q) + 1] = e
  BY <1>2, AppendProperties
<1>4. IsSeq(Append(q, e))
  BY <1>3, SeqIsSeq
<1>5. Len(q) \in Nat /\ DOMAIN q = 1 .. Len(q) /\ DOMAIN Append(q, e) = 1 .. Len(Append(q, e))
  BY <1>2, <1>3, LenProperties
<1> QED BY <1>3, <1>4, <1>5

(* What is left behind the first element. *)
LEMMA TailIsSeq ==
  ASSUME NEW q, IsSeq(q), q # <<>>
  PROVE  /\ IsSeq(Tail(q)) /\ Len(q) \in Nat \ {0} /\ DOMAIN q = 1 .. Len(q) /\ Head(q) = q[1]
         /\ Len(Tail(q)) = Len(q) - 1 /\ DOMAIN Tail(q) = 1 .. Len(q) - 1
         /\ \A i \in 1 .. Len(q) - 1 : Tail(q)[i] = q[i + 1]
         /\ Len(q) = 1 => Tail(q) = <<>>
<1> DEFINE S == {q[i] : i \in DOMAIN q}
<1>1. q \in Seq(S)
  BY DEF IsSeq
<1> HIDE DEF S
<1>2. Len(q) \in Nat /\ DOMAIN q = 1 .. Len(q) /\ Len(q) # 0
  BY <1>1, LenProperties, EmptySeq
<1>3. /\ Tail(q) \in Seq(S) /\ Len(Tail(q)) = Len(q) - 1
      /\ \A i \in 1 .. Len(Tail(q)) : Tail(q)[i] = q[i + 1]
  BY <1>1, HeadTailProperties
<1>4. IsSeq(Tail(q)) /\ DOMAIN Tail(q) = 1 .. Len(Tail(q))
  <2>1. Tail(q) \in Seq(S)
    BY <1>3
  <2>2. IsSeq(Tail(q))
    BY <2>1, SeqIsSeq
  <2>3. DOMAIN Tail(q) = 1 .. Len(Tail(q))
    BY <2>1, LenProperties
  <2> QED BY <2>2, <2>3
<1>5. Len(q) = 1 => Tail(q) = <<>>
  <2>1. Tail(q) \in Seq(S) /\ (Len(q) = 1 => Len(Tail(q)) = 0)
    BY <1>2, <1>3
  <2>2. \A t \in Seq(S) : Len(t) = 0 => t = <<>>
    BY EmptySeq
  <2> QED BY <2>1, <2>2
<1>6. Head(q) = q[1]
  BY <1>1, <1>2
<1> QED BY <1>2, <1>3, <1>4, <1>5, <1>6

(* Writing one message is appending it. *)
LEMMA ConcatOne == ASSUME NEW q, NEW e, IsSeq(q) PROVE q \o <<e>> = Append(q, e)
<1> DEFINE S == {q[i] : i \in DOMAIN q}
           T == S \cup {e}
<1>1. q \in Seq(S)
  BY DEF IsSeq
<1> HIDE DEF S
<1>2. q \in Seq(T) /\ e \in T
  BY <1>1, SeqMonotonic
<1> HIDE DEF T
<1> QED BY <1>2, AppendIsConcat

-----------------------------------------------------------------------------
(* A step of one connection leaves the others as they are.                  *)

OnlyTouches(c) ==
  /\ Tables'
  /\ \A x \in Clients \ {c} : /\ client'[x] = client[x] /\ server'[x] = server[x] /\ calls'[x] = calls[x]
                              /\ replies'[x] = replies[x] /\ got'[x] = got[x]

LEMMA Untouched ==
  ASSUME NEW c \in Clients, LinkInv(c), client'[c] = client[c], server'[c] = server[c], calls'[c] = calls[c],
         replies'[c] = replies[c], got'[c] = got[c]
  PROVE  LinkInv(c)'
BY DEF LinkInv, Row, NamedByRun, Careful, OneUnderWay, OfThisCall

LEMMA OneLink == ASSUME RpcInv, NEW c \in Clients, OnlyTouches(c), LinkInv(c)' PROVE RpcInv'
<1>1. ASSUME NEW x \in Clients PROVE LinkInv(x)'
  <2>1. CASE x = c
    BY <2>1
  <2>2. CASE x # c
    BY <2>2, Untouched DEF RpcInv, OnlyTouches
  <2> QED BY <2>1, <2>2
<1> QED BY <1>1 DEF RpcInv, OnlyTouches

(* The fields of a client that a step sets. *)
LEMMA ClientFields ==
  ASSUME NEW c \in Clients, DOMAIN client = Clients, client[c] \in ClientRecord, NEW r \in ClientRecord,
         client' = [client EXCEPT ![c] = r]
  PROVE  DOMAIN client' = Clients /\ client'[c] = r /\ \A x \in Clients \ {c} : client'[x] = client[x]
OBVIOUS

LEMMA RecordOf ==
  ASSUME NEW p \in {"closed", "idle", "waiting", "skipping"}, NEW s \in Services, NEW m \in MethodNames,
         NEW n \in 0 .. 1
  PROVE  LET r == [pc |-> p, service |-> s, method |-> m, call |-> n]
         IN  r \in ClientRecord /\ r.pc = p /\ r.method = m /\ r.call = n
BY DEF ClientRecord

LEMMA ConnectStep == ASSUME RpcInv, NEW c \in Clients, NEW s \in Services, Connect(c, s) PROVE RpcInv'
<1> DEFINE r == [client[c] EXCEPT !.pc = "idle", !.service = s]
<1>1. Tables /\ LinkInv(c) /\ client[c] \in ClientRecord /\ client[c].pc = "closed"
  BY DEF RpcInv, LinkInv, Row, Connect, Open
<1>2. r \in ClientRecord /\ r.pc = "idle" /\ r.call = client[c].call /\ r.method = client[c].method
  BY <1>1 DEF ClientRecord
<1>3. client' = [client EXCEPT ![c] = r]
  BY DEF Connect
<1> HIDE DEF r
<1>4. DOMAIN client' = Clients /\ client'[c] = r /\ \A x \in Clients \ {c} : client'[x] = client[x]
  BY <1>1, <1>2, <1>3, ClientFields DEF Tables
<1>5. OnlyTouches(c)
  BY <1>1, <1>4 DEF OnlyTouches, Tables, Connect
<1>6. /\ server'[c].pc = "queued" /\ calls'[c] = <<>> /\ replies'[c] = replies[c] /\ got'[c] = got[c]
  BY <1>1 DEF Tables, Connect, Queued, NotServed
<1>7. LinkInv(c)'
  <2>1. Row(c)' /\ NamedByRun(c)'
    BY <1>1, <1>2, <1>4, <1>6, EmptyIsSeq DEF LinkInv, Row, NamedByRun
  <2>2. c \notin Reusers => Careful(c)'
    BY <1>1, <1>2, <1>4, <1>6 DEF LinkInv, Careful
  <2>3. OfThisCall(c)'
    BY <1>1, <1>2, <1>4, <1>6 DEF LinkInv, OfThisCall
  <2> QED BY <2>1, <2>2, <2>3 DEF LinkInv
<1> QED BY <1>5, <1>7, OneLink

(* The socket is closed from any state. *)
LEMMA CloseStep == ASSUME RpcInv, NEW c \in Clients, CloseSocket(c) PROVE RpcInv'
<1> DEFINE r == [pc |-> "closed", service |-> client[c].service, method |-> "", call |-> 0]
<1>1. Tables /\ LinkInv(c) /\ client[c] \in ClientRecord
  BY DEF RpcInv, LinkInv, Row
<1>2. r \in ClientRecord /\ r.pc = "closed"
  <2>1. client[c].service \in Services
    BY <1>1 DEF ClientRecord
  <2>2. "" \in MethodNames
    BY DEF MethodNames
  <2>3. 0 \in 0 .. 1
    OBVIOUS
  <2> QED BY <2>1, <2>2, <2>3, RecordOf, Zenon
<1>3. client' = [client EXCEPT ![c] = r]
  BY DEF CloseSocket
<1> HIDE DEF r
<1>4. DOMAIN client' = Clients /\ client'[c] = r /\ \A x \in Clients \ {c} : client'[x] = client[x]
  BY <1>1, <1>2, <1>3, ClientFields DEF Tables
<1>5. OnlyTouches(c)
  BY <1>1, <1>4 DEF OnlyTouches, Tables, CloseSocket
<1>6. calls'[c] = calls[c] /\ replies'[c] = <<>> /\ got'[c] = Unset
  BY <1>1 DEF Tables, CloseSocket
<1>7. LinkInv(c)'
  BY <1>1, <1>2, <1>4, <1>6, EmptyIsSeq DEF LinkInv, Row, NamedByRun, Careful, OfThisCall
<1> QED BY <1>5, <1>7, OneLink

(* A client of Reusers stops waiting and keeps the connection. *)
LEMMA TimeoutStep == ASSUME RpcInv, NEW c \in Clients, Timeout(c) PROVE RpcInv'
<1>1. CASE CloseSocket(c)
  BY <1>1, CloseStep
<1>2. CASE /\ c \in Reusers
           /\ client' = [client EXCEPT ![c].pc = "idle"]
           /\ UNCHANGED <<server, calls, replies, accepted, got>>
  <2> DEFINE r == [client[c] EXCEPT !.pc = "idle"]
  <2>1. Tables /\ LinkInv(c) /\ client[c] \in ClientRecord
    BY DEF RpcInv, LinkInv, Row
  <2>2. r \in ClientRecord /\ r.call = client[c].call /\ r.method = client[c].method
    BY <2>1 DEF ClientRecord
  <2>3. client' = [client EXCEPT ![c] = r]
    BY <1>2
  <2> HIDE DEF r
  <2>4. DOMAIN client' = Clients /\ client'[c] = r /\ \A x \in Clients \ {c} : client'[x] = client[x]
    BY <2>1, <2>2, <2>3, ClientFields DEF Tables
  <2>5. OnlyTouches(c)
    BY <1>2, <2>1, <2>4 DEF OnlyTouches, Tables
  <2>6. LinkInv(c)'
    BY <1>2, <2>1, <2>2, <2>4 DEF LinkInv, Row, NamedByRun, OfThisCall
  <2> QED BY <2>5, <2>6, OneLink
<1> QED BY <1>1, <1>2 DEF Timeout

(* A thread is given to a connection or taken from it. *)
LEMMA ThreadStep ==
  ASSUME RpcInv, NEW d, NEW v, v.pc # "handling", server' = [server EXCEPT ![d] = v],
         UNCHANGED <<client, calls, replies, got>>
  PROVE  RpcInv'
<1>1. Tables'
  BY DEF RpcInv, Tables
<1>2. ASSUME NEW x \in Clients PROVE LinkInv(x)'
  <2>1. LinkInv(x) /\ DOMAIN server = Clients
    BY DEF RpcInv, Tables
  <2>2. server'[x] = server[x] \/ server'[x].pc # "handling"
    BY <2>1
  <2> QED BY <2>1, <2>2 DEF LinkInv, Row, NamedByRun, Careful, OneUnderWay, OfThisCall
<1> QED BY <1>1, <1>2 DEF RpcInv

(* What the dead server held is lost, and what it wrote may be. *)
LEMMA RestartStep == ASSUME RpcInv, NEW s \in Services, Restart(s) PROVE RpcInv'
<1>1. Tables'
  BY DEF RpcInv, Tables, Restart
<1>2. ASSUME NEW x \in Clients PROVE LinkInv(x)'
  <2>1. LinkInv(x) /\ client'[x] = client[x] /\ got'[x] = got[x]
    BY DEF RpcInv, Restart
  <2>2. \/ server'[x] = server[x] /\ calls'[x] = calls[x] /\ replies'[x] = replies[x]
        \/ server'[x] = NotServed /\ calls'[x] = <<>> /\ replies'[x] \in {replies[x], <<>>}
    BY DEF Restart
  <2>3. CASE server'[x] = NotServed /\ calls'[x] = <<>> /\ replies'[x] \in {replies[x], <<>>}
    <3>1. NotServed.pc = "none"
      BY DEF NotServed
    <3>2. server'[x].pc # "handling"
      BY <2>3, <3>1
    <3> QED BY <2>1, <2>3, <3>2, EmptyIsSeq DEF LinkInv, Row, NamedByRun, Careful, OneUnderWay, OfThisCall
  <2> QED BY <2>1, <2>2, <2>3, Untouched
<1> QED BY <1>1, <1>2 DEF RpcInv

-----------------------------------------------------------------------------
(* The calls, for whatever table of arguments and result.                   *)

LEMMA SendStep ==
  ASSUME RpcInv, NEW c \in Clients, NEW s, NEW method \in MethodNames, NEW A, NEW d,
         Send(c, s, method, A, d)
  PROVE  RpcInv'
<1> DEFINE call == 1 - client[c].call
           m == [fname |-> method, wire |-> InDialect(Write(A, Fill(A, call)), d),
                 given |-> Given(A, call, d), call |-> call]
           r == [pc |-> "waiting", service |-> s, method |-> method, call |-> call]
<1>1. Tables /\ LinkInv(c) /\ client[c] \in ClientRecord /\ client[c].pc = "idle" /\ IsSeq(calls[c])
  BY DEF RpcInv, LinkInv, Row, Send
<1>2. s \in Services /\ call \in 0 .. 1
  <2>1. client[c].call \in 0 .. 1 /\ client[c].service \in Services /\ client[c].service = s
    BY <1>1 DEF ClientRecord, Send
  <2> QED BY <2>1
<1>3. /\ client' = [client EXCEPT ![c] = r]
      /\ calls' = [calls EXCEPT ![c] = IF server[c].pc = "none" THEN @ ELSE Append(@, m)]
      /\ got' = [got EXCEPT ![c] = Unset]
      /\ UNCHANGED <<server, replies, accepted>>
  BY DEF Send
<1>4. m.fname = method /\ m.call = call
  OBVIOUS
<1> HIDE DEF m
<1> HIDE DEF call
<1>5. r \in ClientRecord /\ r.pc = "waiting" /\ r.method = method /\ r.call = call
  BY <1>2 DEF ClientRecord
<1> HIDE DEF r
<1>6. DOMAIN client' = Clients /\ client'[c] = r /\ \A x \in Clients \ {c} : client'[x] = client[x]
  BY <1>1, <1>3, <1>5, ClientFields DEF Tables
<1>7. OnlyTouches(c)
  BY <1>1, <1>3, <1>6 DEF OnlyTouches, Tables
<1>8. /\ calls'[c] \in {calls[c], Append(calls[c], m)}
      /\ got'[c] = Unset /\ server'[c] = server[c] /\ replies'[c] = replies[c]
  BY <1>1, <1>3 DEF Tables
<1>9. IsSeq(calls'[c])
  <2>1. IsSeq(Append(calls[c], m))
    BY <1>1, AppendIsSeq
  <2> QED BY <1>1, <1>8, <2>1
<1>10. c \notin Reusers => Careful(c)'
  <2> SUFFICES ASSUME c \notin Reusers PROVE Careful(c)'
    OBVIOUS
  <2>1. calls[c] = <<>> /\ replies[c] = <<>> /\ server[c].pc # "handling"
    BY <1>1 DEF LinkInv, Careful
  <2>2. Len(Append(<<>>, m)) = 1 /\ Append(<<>>, m)[1] = m
    BY EmptyIsSeq, AppendIsSeq
  <2>3. OneUnderWay(c)'
    BY <1>4, <1>5, <1>6, <1>8, <2>1, <2>2 DEF OneUnderWay
  <2> QED BY <1>5, <1>6, <2>3 DEF Careful
<1>11. LinkInv(c)'
  BY <1>1, <1>5, <1>6, <1>8, <1>9, <1>10 DEF LinkInv, Row, NamedByRun, OfThisCall
<1> QED BY <1>7, <1>11, OneLink

(* recv_<method> takes a reply for its own, or skips it. *)
LEMMA RecvStep ==
  ASSUME RpcInv, NEW c \in Clients, NEW s, NEW method, NEW R, Recv(c, s, method, R)
  PROVE  RpcInv'
<1> DEFINE r == Head(replies[c])
           how == IF r.mtype = "T_EXCEPTION" THEN Ended("TApplicationException", Unset) ELSE Decode(R, r.wire)
<1>1. /\ Tables /\ LinkInv(c) /\ client[c] \in ClientRecord /\ IsSeq(replies[c])
      /\ client[c].pc = "waiting" /\ client[c].method = method /\ replies[c] # <<>>
  BY DEF RpcInv, LinkInv, Row, Recv
<1>2. /\ IsSeq(Tail(replies[c])) /\ Len(replies[c]) \in Nat \ {0} /\ DOMAIN replies[c] = 1 .. Len(replies[c])
      /\ r = replies[c][1] /\ DOMAIN Tail(replies[c]) = 1 .. Len(replies[c]) - 1
      /\ \A i \in 1 .. Len(replies[c]) - 1 : Tail(replies[c])[i] = replies[c][i + 1]
      /\ Len(replies[c]) = 1 => Tail(replies[c]) = <<>>
  BY <1>1, TailIsSeq
<1>3. r.run.method = r.fname
  BY <1>1, <1>2 DEF LinkInv, NamedByRun
<1>4. \A i \in DOMAIN Tail(replies[c]) : Tail(replies[c])[i].run.method = Tail(replies[c])[i].fname
  <2> SUFFICES ASSUME NEW i \in 1 .. Len(replies[c]) - 1
               PROVE  Tail(replies[c])[i].run.method = Tail(replies[c])[i].fname
    BY <1>2
  <2>1. i + 1 \in DOMAIN replies[c] /\ Tail(replies[c])[i] = replies[c][i + 1]
    BY <1>2
  <2> QED BY <1>1, <2>1 DEF LinkInv, NamedByRun
<1>5. c \notin Reusers => /\ r.fname = method /\ r.run.call = client[c].call /\ Tail(replies[c]) = <<>>
                          /\ calls[c] = <<>> /\ server[c].pc # "handling"
  BY <1>1, <1>2 DEF LinkInv, Careful, OneUnderWay
<1>6. /\ replies' = [replies EXCEPT ![c] = Tail(@)]
      /\ UNCHANGED <<server, calls, accepted>>
      /\ \/ /\ r.mtype = "T_EXCEPTION" \/ r.fname = method
            /\ client' = [client EXCEPT ![c].pc = "idle"]
            /\ got' = [got EXCEPT ![c] = [run |-> r.run, end |-> how]]
         \/ /\ r.fname # method
            /\ client' = [client EXCEPT ![c].pc = "skipping"]
            /\ UNCHANGED got
  BY DEF Recv, IsMine
<1>7. r.mtype = "T_EXCEPTION" => how.how = "TApplicationException"
  BY DEF Ended
<1> HIDE DEF how, r
<1>8. /\ replies'[c] = Tail(replies[c]) /\ server'[c] = server[c] /\ calls'[c] = calls[c]
      /\ \A x \in Clients \ {c} : server'[x] = server[x] /\ calls'[x] = calls[x] /\ replies'[x] = replies[x]
      /\ DOMAIN server' = Clients /\ DOMAIN calls' = Clients /\ DOMAIN replies' = Clients
  BY <1>1, <1>6 DEF Tables
<1>9. CASE /\ r.mtype = "T_EXCEPTION" \/ r.fname = method
           /\ client' = [client EXCEPT ![c].pc = "idle"]
           /\ got' = [got EXCEPT ![c] = [run |-> r.run, end |-> how]]
  <2> DEFINE k == [client[c] EXCEPT !.pc = "idle"]
  <2>1. k \in ClientRecord /\ k.pc = "idle" /\ k.call = client[c].call /\ k.method = client[c].method
    BY <1>1 DEF ClientRecord
  <2>2. client' = [client EXCEPT ![c] = k]
    BY <1>9
  <2> HIDE DEF k
  <2>3. DOMAIN client' = Clients /\ client'[c] = k /\ \A x \in Clients \ {c} : client'[x] = client[x]
    BY <1>1, <2>1, <2>2, ClientFields DEF Tables
  <2>4. /\ DOMAIN got' = Clients /\ \A x \in Clients \ {c} : got'[x] = got[x]
        /\ got'[c].run = r.run /\ got'[c].end = how
    BY <1>1, <1>9 DEF Tables
  <2>5. OnlyTouches(c)
    BY <1>8, <2>3, <2>4 DEF OnlyTouches, Tables
  <2>6. Row(c)' /\ NamedByRun(c)'
    BY <1>1, <1>2, <1>4, <1>8, <2>1, <2>3 DEF LinkInv, Row, NamedByRun
  <2>7. c \notin Reusers => Careful(c)'
    BY <1>5, <1>8, <2>1, <2>3 DEF Careful
  <2>8. OfThisCall(c)'
    BY <1>1, <1>3, <1>5, <1>7, <1>9, <2>1, <2>3, <2>4 DEF OfThisCall
  <2> QED BY <2>5, <2>6, <2>7, <2>8, OneLink DEF LinkInv
<1>10. CASE /\ r.fname # method
            /\ client' = [client EXCEPT ![c].pc = "skipping"]
            /\ UNCHANGED got
  <2> DEFINE k == [client[c] EXCEPT !.pc = "skipping"]
  <2>1. k \in ClientRecord /\ k.call = client[c].call /\ k.method = client[c].method
    BY <1>1 DEF ClientRecord
  <2>2. client' = [client EXCEPT ![c] = k]
    BY <1>10
  <2> HIDE DEF k
  <2>3. DOMAIN client' = Clients /\ client'[c] = k /\ \A x \in Clients \ {c} : client'[x] = client[x]
    BY <1>1, <2>1, <2>2, ClientFields DEF Tables
  <2>4. OnlyTouches(c)
    BY <1>1, <1>8, <1>10, <2>3 DEF OnlyTouches, Tables
  <2>5. Row(c)' /\ NamedByRun(c)'
    BY <1>1, <1>2, <1>4, <1>8, <2>1, <2>3 DEF LinkInv, Row, NamedByRun
  <2>6. c \in Reusers
    BY <1>5, <1>10
  <2>7. OfThisCall(c)'
    BY <1>1, <1>10, <2>1, <2>3 DEF LinkInv, OfThisCall
  <2> QED BY <2>4, <2>5, <2>6, <2>7, OneLink DEF LinkInv
<1> QED BY <1>6, <1>9, <1>10

(* process_<method> has read a call: the thread runs the handler. *)
LEMMA ReadArgsStep ==
  ASSUME RpcInv, NEW c \in Clients, NEW s, NEW method, NEW A, ReadArgs(c, s, method, A)
  PROVE  RpcInv'
<1> DEFINE m == Head(calls[c])
<1>1. Tables /\ LinkInv(c) /\ IsSeq(calls[c]) /\ calls[c] # <<>> /\ m.fname = method
  BY DEF RpcInv, LinkInv, Row, ReadArgs
<1>2. /\ IsSeq(Tail(calls[c])) /\ m = calls[c][1] /\ (Len(calls[c]) = 1 => Tail(calls[c]) = <<>>)
  BY <1>1, TailIsSeq
<1> HIDE DEF m
<1>3. /\ server'[c].pc = "handling" /\ server'[c].method = method /\ server'[c].call = m.call
      /\ calls'[c] = Tail(calls[c]) /\ client'[c] = client[c] /\ replies'[c] = replies[c] /\ got'[c] = got[c]
  BY <1>1 DEF Tables, ReadArgs, m
<1>4. OnlyTouches(c)
  BY <1>1 DEF OnlyTouches, Tables, ReadArgs
<1>5. Row(c)' /\ NamedByRun(c)' /\ OfThisCall(c)'
  BY <1>1, <1>2, <1>3 DEF LinkInv, Row, NamedByRun, OfThisCall
<1>6. c \notin Reusers => Careful(c)'
  <2> SUFFICES ASSUME c \notin Reusers PROVE Careful(c)'
    OBVIOUS
  <2>1. Careful(c)
    BY <1>1 DEF LinkInv
  <2>2. CASE client[c].pc = "waiting"
    <3>1. /\ Len(calls[c]) = 1 /\ replies[c] = <<>>
          /\ m.fname = client[c].method /\ m.call = client[c].call
      BY <1>1, <1>2, <2>1, <2>2 DEF Careful, OneUnderWay
    <3>2. OneUnderWay(c)'
      BY <1>1, <1>2, <1>3, <3>1 DEF OneUnderWay
    <3> QED BY <1>3, <2>2, <3>2 DEF Careful
  <2>3. CASE client[c].pc # "waiting"
    BY <1>1, <1>3, <2>1, <2>3 DEF Careful
  <2> QED BY <2>2, <2>3
<1> QED BY <1>4, <1>5, <1>6, OneLink DEF LinkInv

(* The reply r of a run is written to a client that still has the socket;   *)
(* the call it answers was the only thing under way.                        *)
LEMMA DeliverStep ==
  ASSUME RpcInv, NEW c \in Clients, NEW r, r.run.method = r.fname, Deliver(c, <<r>>),
         c \notin Reusers /\ client[c].pc = "waiting"
           => r.fname = client[c].method /\ r.run.call = client[c].call /\ replies[c] = <<>>,
         c \notin Reusers /\ client[c].pc = "waiting" => calls'[c] = <<>>,
         c \notin Reusers => client[c].pc # "idle",
         DOMAIN calls' = Clients, IsSeq(calls'[c]), \A x \in Clients \ {c} : calls'[x] = calls[x],
         DOMAIN server' = Clients, server'[c].pc # "handling", \A x \in Clients \ {c} : server'[x] = server[x],
         UNCHANGED <<client, got>>
  PROVE  RpcInv'
<1>1. Tables /\ LinkInv(c) /\ IsSeq(replies[c])
  BY DEF RpcInv, LinkInv, Row
<1>2. replies[c] \o <<r>> = Append(replies[c], r)
  BY <1>1, ConcatOne
<1>3. /\ DOMAIN replies' = Clients /\ \A x \in Clients \ {c} : replies'[x] = replies[x]
      /\ replies'[c] = IF Open(c) THEN Append(replies[c], r) ELSE replies[c]
  BY <1>1, <1>2 DEF Deliver, Tables
<1>4. OnlyTouches(c)
  BY <1>1, <1>3 DEF OnlyTouches, Tables
<1>5. /\ IsSeq(Append(replies[c], r)) /\ Len(replies[c]) \in Nat /\ DOMAIN replies[c] = 1 .. Len(replies[c])
      /\ DOMAIN Append(replies[c], r) = 1 .. Len(replies[c]) + 1
      /\ \A i \in 1 .. Len(replies[c]) : Append(replies[c], r)[i] = replies[c][i]
      /\ Append(replies[c], r)[Len(replies[c]) + 1] = r
      /\ Len(Append(replies[c], r)) = Len(replies[c]) + 1
  BY <1>1, AppendIsSeq
<1>6. IsSeq(replies'[c])
  BY <1>1, <1>3, <1>5
<1>7. NamedByRun(c)'
  <2>1. CASE Open(c)
    <3>1. \A i \in 1 .. Len(replies[c]) + 1 : i \in 1 .. Len(replies[c]) \/ i = Len(replies[c]) + 1
      BY <1>5
    <3> QED BY <1>1, <1>3, <1>5, <2>1, <3>1 DEF LinkInv, NamedByRun
  <2>2. CASE ~Open(c)
    BY <1>1, <1>3, <2>2 DEF LinkInv, NamedByRun
  <2> QED BY <2>1, <2>2
<1>8. Row(c)' /\ OfThisCall(c)'
  BY <1>1, <1>6 DEF LinkInv, Row, OfThisCall
<1>9. c \notin Reusers => Careful(c)'
  <2> SUFFICES ASSUME c \notin Reusers PROVE Careful(c)'
    OBVIOUS
  <2>1. Careful(c) /\ client'[c] = client[c] /\ client[c].pc \in {"closed", "waiting"}
    BY <1>1 DEF LinkInv, Careful, Row, ClientRecord
  <2>2. CASE client[c].pc = "waiting"
    <3>1. replies'[c] = Append(<<>>, r)
      BY <1>3, <2>2 DEF Open
    <3>2. Len(Append(<<>>, r)) = 1 /\ Append(<<>>, r)[1] = r
      BY EmptyIsSeq, AppendIsSeq
    <3>3. OneUnderWay(c)'
      BY <2>1, <2>2, <3>1, <3>2 DEF OneUnderWay
    <3> QED BY <2>1, <2>2, <3>3 DEF Careful
  <2>3. CASE client[c].pc = "closed"
    BY <1>3, <2>1, <2>3 DEF Careful, Open
  <2> QED BY <2>1, <2>2, <2>3
<1> QED BY <1>4, <1>7, <1>8, <1>9, OneLink DEF LinkInv

LEMMA MessageFields ==
  ASSUME NEW method, NEW mtype, NEW wire, NEW call, NEW tells
  PROVE  LET r == Message(method, mtype, wire, call, tells)
         IN  r.fname = method /\ r.run.method = method /\ r.run.call = call
BY DEF Message

(* However a handler ends, its run writes one message. *)
LEMMA OneAnswer ==
  ASSUME NEW R, NEW method, NEW outcome, NEW call
  PROVE  \E mtype, wire, tells : Answers(R, method, outcome, call) = <<Message(method, mtype, wire, call, tells)>>
BY Zenon DEF Answers

LEMMA AnswerStep ==
  ASSUME RpcInv, NEW c \in Clients, NEW s, NEW method, NEW R, Answer(c, s, method, R)
  PROVE  RpcInv'
<1>1. PICK outcome \in Outcomes(R) : Deliver(c, Answers(R, method, outcome, server[c].call))
  BY DEF Answer
<1>2. PICK mtype, wire, tells : Answers(R, method, outcome, server[c].call)
                                  = <<Message(method, mtype, wire, server[c].call, tells)>>
  BY OneAnswer
<1> DEFINE r == Message(method, mtype, wire, server[c].call, tells)
<1>3. r.fname = method /\ r.run.method = method /\ r.run.call = server[c].call
  BY MessageFields
<1>4. Deliver(c, <<r>>)
  BY <1>1, <1>2
<1> HIDE DEF r
<1>5. Tables /\ LinkInv(c) /\ server[c].pc = "handling" /\ server[c].method = method
  BY DEF RpcInv, Answer
<1>6. Serving.pc = "serving"
  BY DEF Serving, NotServed
<1>7. /\ UNCHANGED <<client, calls, got>> /\ DOMAIN server' = Clients /\ server'[c] = Serving
      /\ \A x \in Clients \ {c} : server'[x] = server[x]
  BY <1>5 DEF Tables, Answer
<1>8. ASSUME c \notin Reusers
      PROVE  /\ client[c].pc # "idle"
             /\ client[c].pc = "waiting" =>
                  r.fname = client[c].method /\ r.run.call = client[c].call /\ replies[c] = <<>> /\ calls[c] = <<>>
  BY <1>3, <1>5, <1>8 DEF LinkInv, Careful, OneUnderWay
<1>9. DOMAIN calls' = Clients /\ IsSeq(calls'[c]) /\ \A x \in Clients \ {c} : calls'[x] = calls[x]
  BY <1>5, <1>7 DEF Tables, LinkInv, Row
<1> QED BY <1>3, <1>4, <1>6, <1>7, <1>8, <1>9, DeliverStep

(* dispatchCall answers a name that is not in processMap_. *)
LEMMA UnknownStep ==
  ASSUME RpcInv, NEW c \in Clients, NEW s, NEW processMap, DispatchUnknown(c, s, processMap)
  PROVE  RpcInv'
<1> DEFINE m == Head(calls[c])
           r == Message(m.fname, "T_EXCEPTION", <<>>, m.call, Ended("TApplicationException", Unset))
<1>1. /\ Tables /\ LinkInv(c) /\ IsSeq(calls[c]) /\ calls[c] # <<>> /\ server[c].pc = "serving"
      /\ Deliver(c, <<r>>) /\ calls' = [calls EXCEPT ![c] = Tail(@)] /\ UNCHANGED <<client, server, got>>
  BY DEF RpcInv, LinkInv, Row, DispatchUnknown
<1>2. r.fname = m.fname /\ r.run.method = m.fname /\ r.run.call = m.call
  BY MessageFields
<1> HIDE DEF r
<1>3. IsSeq(Tail(calls[c])) /\ m = calls[c][1] /\ (Len(calls[c]) = 1 => Tail(calls[c]) = <<>>)
  BY <1>1, TailIsSeq
<1> HIDE DEF m
<1>4. ASSUME c \notin Reusers
      PROVE  /\ client[c].pc # "idle"
             /\ client[c].pc = "waiting" =>
                  /\ r.fname = client[c].method /\ r.run.call = client[c].call
                  /\ replies[c] = <<>> /\ Tail(calls[c]) = <<>>
  BY <1>1, <1>2, <1>3, <1>4 DEF LinkInv, Careful, OneUnderWay
<1>5. DOMAIN calls' = Clients /\ calls'[c] = Tail(calls[c]) /\ \A x \in Clients \ {c} : calls'[x] = calls[x]
  BY <1>1 DEF Tables
<1>6. DOMAIN server' = Clients /\ server'[c].pc # "handling" /\ \A x \in Clients \ {c} : server'[x] = server[x]
  BY <1>1 DEF Tables
<1>7. IsSeq(calls'[c])
  BY <1>3, <1>5
<1> QED BY <1>1, <1>2, <1>4, <1>5, <1>6, <1>7, DeliverStep

-----------------------------------------------------------------------------
(* The methods of both services.                                            *)

(* The tables of each method. *)
VaeDbArgs ==
  [ping |-> VaeDb_ping_args, closeSession |-> VaeDb_closeSession_args, createInfo |-> VaeDb_createInfo_args,
   data |-> VaeDb_data_args, get |-> VaeDb_get_args, openSession |-> VaeDb_openSession_args,
   resetSite |-> VaeDb_resetSite_args, structure |-> VaeDb_structure_args,
   sessionCacheGet |-> VaeDb_sessionCacheGet_args, sessionCacheSet |-> VaeDb_sessionCacheSet_args,
   sessionCacheDelete |-> VaeDb_sessionCacheDelete_args, shortTermCacheGet |-> VaeDb_shortTermCacheGet_args,
   shortTermCacheSet |-> VaeDb_shortTermCacheSet_args, shortTermCacheDelete |-> VaeDb_shortTermCacheDelete_args,
   longTermCacheGet |-> VaeDb_longTermCacheGet_args, longTermCacheSet |-> VaeDb_longTermCacheSet_args,
   longTermCacheDelete |-> VaeDb_longTermCacheDelete_args, longTermCacheEmpty |-> VaeDb_longTermCacheEmpty_args,
   longTermCacheSweeperInfo |-> VaeDb_longTermCacheSweeperInfo_args, sitewideLock |-> VaeDb_sitewideLock_args,
   sitewideUnlock |-> VaeDb_sitewideUnlock_args]

VaeDbResults ==
  [ping |-> VaeDb_ping_result, closeSession |-> VaeDb_closeSession_result,
   createInfo |-> VaeDb_createInfo_result, data |-> VaeDb_data_result, get |-> VaeDb_get_result,
   openSession |-> VaeDb_openSession_result, resetSite |-> VaeDb_resetSite_result,
   structure |-> VaeDb_structure_result, sessionCacheGet |-> VaeDb_sessionCacheGet_result,
   sessionCacheSet |-> VaeDb_sessionCacheSet_result, sessionCacheDelete |-> VaeDb_sessionCacheDelete_result,
   shortTermCacheGet |-> VaeDb_shortTermCacheGet_result, shortTermCacheSet |-> VaeDb_shortTermCacheSet_result,
   shortTermCacheDelete |-> VaeDb_shortTermCacheDelete_result,
   longTermCacheGet |-> VaeDb_longTermCacheGet_result, longTermCacheSet |-> VaeDb_longTermCacheSet_result,
   longTermCacheDelete |-> VaeDb_longTermCacheDelete_result,
   longTermCacheEmpty |-> VaeDb_longTermCacheEmpty_result,
   longTermCacheSweeperInfo |-> VaeDb_longTermCacheSweeperInfo_result,
   sitewideLock |-> VaeDb_sitewideLock_result, sitewideUnlock |-> VaeDb_sitewideUnlock_result]

VaeRubydArgs ==
  [ping |-> VaeRubyd_ping_args, fixDocRoot |-> VaeRubyd_fixDocRoot_args, haml |-> VaeRubyd_haml_args,
   sass |-> VaeRubyd_sass_args, scss |-> VaeRubyd_scss_args]

VaeRubydResults ==
  [ping |-> VaeRubyd_ping_result, fixDocRoot |-> VaeRubyd_fixDocRoot_result, haml |-> VaeRubyd_haml_result,
   sass |-> VaeRubyd_sass_result, scss |-> VaeRubyd_scss_result]

MethodsOf(s) == CASE s = "VaeDb" -> VaeDbMethods [] s = "VaeRubyd" -> VaeRubydMethods [] OTHER -> {}
ArgsOf(s, m) == IF s = "VaeDb" THEN VaeDbArgs[m] ELSE VaeRubydArgs[m]
ResultsOf(s, m) == IF s = "VaeDb" THEN VaeDbResults[m] ELSE VaeRubydResults[m]

(* A method of the service s, with its tables. *)
Offers(s, m, A, R) == m \in MethodsOf(s) /\ A = ArgsOf(s, m) /\ R = ResultsOf(s, m)

LEMMA VaeDbOffers ==
  /\ Offers("VaeDb", "ping", VaeDb_ping_args, VaeDb_ping_result)
  /\ Offers("VaeDb", "closeSession", VaeDb_closeSession_args, VaeDb_closeSession_result)
  /\ Offers("VaeDb", "createInfo", VaeDb_createInfo_args, VaeDb_createInfo_result)
  /\ Offers("VaeDb", "data", VaeDb_data_args, VaeDb_data_result)
  /\ Offers("VaeDb", "get", VaeDb_get_args, VaeDb_get_result)
  /\ Offers("VaeDb", "openSession", VaeDb_openSession_args, VaeDb_openSession_result)
  /\ Offers("VaeDb", "resetSite", VaeDb_resetSite_args, VaeDb_resetSite_result)
  /\ Offers("VaeDb", "structure", VaeDb_structure_args, VaeDb_structure_result)
  /\ Offers("VaeDb", "sessionCacheGet", VaeDb_sessionCacheGet_args, VaeDb_sessionCacheGet_result)
  /\ Offers("VaeDb", "sessionCacheSet", VaeDb_sessionCacheSet_args, VaeDb_sessionCacheSet_result)
  /\ Offers("VaeDb", "sessionCacheDelete", VaeDb_sessionCacheDelete_args, VaeDb_sessionCacheDelete_result)
  /\ Offers("VaeDb", "shortTermCacheGet", VaeDb_shortTermCacheGet_args, VaeDb_shortTermCacheGet_result)
  /\ Offers("VaeDb", "shortTermCacheSet", VaeDb_shortTermCacheSet_args, VaeDb_shortTermCacheSet_result)
  /\ Offers("VaeDb", "shortTermCacheDelete", VaeDb_shortTermCacheDelete_args,
            VaeDb_shortTermCacheDelete_result)
  /\ Offers("VaeDb", "longTermCacheGet", VaeDb_longTermCacheGet_args, VaeDb_longTermCacheGet_result)
  /\ Offers("VaeDb", "longTermCacheSet", VaeDb_longTermCacheSet_args, VaeDb_longTermCacheSet_result)
  /\ Offers("VaeDb", "longTermCacheDelete", VaeDb_longTermCacheDelete_args, VaeDb_longTermCacheDelete_result)
  /\ Offers("VaeDb", "longTermCacheEmpty", VaeDb_longTermCacheEmpty_args, VaeDb_longTermCacheEmpty_result)
  /\ Offers("VaeDb", "longTermCacheSweeperInfo", VaeDb_longTermCacheSweeperInfo_args,
            VaeDb_longTermCacheSweeperInfo_result)
  /\ Offers("VaeDb", "sitewideLock", VaeDb_sitewideLock_args, VaeDb_sitewideLock_result)
  /\ Offers("VaeDb", "sitewideUnlock", VaeDb_sitewideUnlock_args, VaeDb_sitewideUnlock_result)
BY DEF Offers, MethodsOf, ArgsOf, ResultsOf, VaeDbMethods, VaeDbArgs, VaeDbResults

LEMMA VaeRubydOffers ==
  /\ Offers("VaeRubyd", "ping", VaeRubyd_ping_args, VaeRubyd_ping_result)
  /\ Offers("VaeRubyd", "fixDocRoot", VaeRubyd_fixDocRoot_args, VaeRubyd_fixDocRoot_result)
  /\ Offers("VaeRubyd", "haml", VaeRubyd_haml_args, VaeRubyd_haml_result)
  /\ Offers("VaeRubyd", "sass", VaeRubyd_sass_args, VaeRubyd_sass_result)
  /\ Offers("VaeRubyd", "scss", VaeRubyd_scss_args, VaeRubyd_scss_result)
BY DEF Offers, MethodsOf, ArgsOf, ResultsOf, VaeRubydMethods, VaeRubydArgs, VaeRubydResults

(* Every step of a client or a processor is one of a method that its        *)
(* service offers.                                                          *)
LEMMA VaeDbCalls ==
  ASSUME NEW c, VaeDbClient(c)
  PROVE  \E method, A, R : Offers("VaeDb", method, A, R) /\ Call(c, "VaeDb", method, A, R)
BY VaeDbOffers, Zenon DEF
     VaeDbClient, VaeDbClient_ping, VaeDbClient_closeSession, VaeDbClient_createInfo, VaeDbClient_data,
     VaeDbClient_get, VaeDbClient_openSession, VaeDbClient_resetSite, VaeDbClient_structure,
     VaeDbClient_sessionCacheGet, VaeDbClient_sessionCacheSet, VaeDbClient_sessionCacheDelete,
     VaeDbClient_shortTermCacheGet, VaeDbClient_shortTermCacheSet, VaeDbClient_shortTermCacheDelete,
     VaeDbClient_longTermCacheGet, VaeDbClient_longTermCacheSet, VaeDbClient_longTermCacheDelete,
     VaeDbClient_longTermCacheEmpty, VaeDbClient_longTermCacheSweeperInfo, VaeDbClient_sitewideLock,
     VaeDbClient_sitewideUnlock

LEMMA VaeRubydCalls ==
  ASSUME NEW c, VaeRubydClient(c)
  PROVE  \E method, A, R : Offers("VaeRubyd", method, A, R) /\ Call(c, "VaeRubyd", method, A, R)
BY VaeRubydOffers, Zenon DEF
     VaeRubydClient, VaeRubydClient_ping, VaeRubydClient_fixDocRoot, VaeRubydClient_haml, VaeRubydClient_sass,
     VaeRubydClient_scss

LEMMA VaeDbDispatches ==
  ASSUME NEW c, VaeDbProcessor_dispatchCall(c)
  PROVE  \/ \E method, A, R : Offers("VaeDb", method, A, R) /\ Process(c, "VaeDb", method, A, R)
         \/ DispatchUnknown(c, "VaeDb", VaeDbMethods)
BY VaeDbOffers, Zenon DEF
     VaeDbProcessor_dispatchCall, VaeDbProcessor_process_ping, VaeDbProcessor_process_closeSession,
     VaeDbProcessor_process_createInfo, VaeDbProcessor_process_data, VaeDbProcessor_process_get,
     VaeDbProcessor_process_openSession, VaeDbProcessor_process_resetSite, VaeDbProcessor_process_structure,
     VaeDbProcessor_process_sessionCacheGet, VaeDbProcessor_process_sessionCacheSet,
     VaeDbProcessor_process_sessionCacheDelete, VaeDbProcessor_process_shortTermCacheGet,
     VaeDbProcessor_process_shortTermCacheSet, VaeDbProcessor_process_shortTermCacheDelete,
     VaeDbProcessor_process_longTermCacheGet, VaeDbProcessor_process_longTermCacheSet,
     VaeDbProcessor_process_longTermCacheDelete, VaeDbProcessor_process_longTermCacheEmpty,
     VaeDbProcessor_process_longTermCacheSweeperInfo, VaeDbProcessor_process_sitewideLock,
     VaeDbProcessor_process_sitewideUnlock

LEMMA VaeRubydDispatches ==
  ASSUME NEW c, VaeRubydProcessor_dispatchCall(c)
  PROVE  \/ \E method, A, R : Offers("VaeRubyd", method, A, R) /\ Process(c, "VaeRubyd", method, A, R)
         \/ DispatchUnknown(c, "VaeRubyd", VaeRubydMethods)
BY VaeRubydOffers, Zenon DEF
     VaeRubydProcessor_dispatchCall, VaeRubydProcessor_process_ping, VaeRubydProcessor_process_fixDocRoot,
     VaeRubydProcessor_process_haml, VaeRubydProcessor_process_sass, VaeRubydProcessor_process_scss

LEMMA OfferedNames == ASSUME NEW s, NEW m, NEW A, NEW R, Offers(s, m, A, R) PROVE m \in MethodNames
BY DEF Offers, MethodsOf, MethodNames

LEMMA LaterIsNoMethod == ASSUME NEW s PROVE "later" \notin MethodsOf(s) /\ "later" \in MethodNames
BY DEF MethodsOf, MethodNames, VaeDbMethods, VaeRubydMethods

(* A step of a client is a call, of a method that the service offers or of  *)
(* one that it does not know.                                               *)
LEMMA ClientCalls ==
  ASSUME NEW c, Client(c)
  PROVE  \E s, method, A, R : /\ Offers(s, method, A, R) \/ method \notin MethodsOf(s)
                              /\ method \in MethodNames
                              /\ Call(c, s, method, A, R)
<1>1. CASE VaeDbClient(c)
  BY <1>1, VaeDbCalls, OfferedNames, Zenon
<1>2. CASE VaeRubydClient(c)
  BY <1>2, VaeRubydCalls, OfferedNames, Zenon
<1>3. CASE LaterMethod(c)
  BY <1>3, LaterIsNoMethod, Zenon DEF LaterMethod
<1> QED BY <1>1, <1>2, <1>3 DEF Client

LEMMA ServerDispatches ==
  ASSUME NEW c, Server(c)
  PROVE  \/ \E s, method, A, R : Offers(s, method, A, R) /\ Process(c, s, method, A, R)
         \/ \E s, processMap : DispatchUnknown(c, s, processMap)
<1>1. CASE VaeDbProcessor_dispatchCall(c)
  BY <1>1, VaeDbDispatches, Zenon
<1>2. CASE VaeRubydProcessor_dispatchCall(c)
  BY <1>2, VaeRubydDispatches, Zenon
<1> QED BY <1>1, <1>2 DEF Server


-----------------------------------------------------------------------------
LEMMA RpcInit == Init => RpcInv
<1> SUFFICES ASSUME Init PROVE RpcInv
  OBVIOUS
<1> DEFINE s == CHOOSE s \in Services : TRUE
<1>1. s \in Services
  BY RpcAssumption
<1>2. "" \in MethodNames /\ 0 \in 0 .. 1
  BY DEF MethodNames
<1> DEFINE r == [pc |-> "closed", service |-> s, method |-> "", call |-> 0]
<1>3. r \in ClientRecord /\ r.pc = "closed"
  BY <1>1, <1>2, RecordOf, Zenon
<1>4. client = [c \in Clients |-> r]
  BY DEF Init
<1> HIDE DEF r
<1>5. Tables
  BY <1>4 DEF Init, Tables
<1>6. ASSUME NEW c \in Clients PROVE LinkInv(c)
  <2>1. client[c] = r /\ calls[c] = <<>> /\ replies[c] = <<>> /\ got[c] = Unset
    BY <1>4 DEF Init
  <2> QED BY <1>3, <2>1, EmptyIsSeq DEF LinkInv, Row, NamedByRun, Careful, OfThisCall
<1> QED BY <1>5, <1>6 DEF RpcInv

(* Assign and PeerGone give or take a thread. *)
LEMMA ThreadsStep ==
  ASSUME RpcInv, NEW c, NEW s, Assign(s) \/ PeerGone(c)
  PROVE  RpcInv'
<1>1. NotServed.pc = "none" /\ Serving.pc = "serving"
  BY DEF NotServed, Serving
<1> QED BY <1>1, ThreadStep DEF Assign, PeerGone

LEMMA RpcStep == RpcInv /\ [Next]_vars => RpcInv'
<1> SUFFICES ASSUME RpcInv, [Next]_vars PROVE RpcInv'
  OBVIOUS
<1>1. ASSUME NEW c \in Clients, NEW s \in Services, Connect(c, s) PROVE RpcInv'
  BY <1>1, ConnectStep
<1>2. ASSUME NEW c \in Clients, Client(c) PROVE RpcInv'
  <2>1. PICK s, method, A, R : method \in MethodNames /\ Call(c, s, method, A, R)
    BY <1>2, ClientCalls, Zenon
  <2> QED BY <2>1, SendStep, RecvStep DEF Call
<1>3. ASSUME NEW c \in Clients, Server(c) PROVE RpcInv'
  <2>1. \/ \E s, method, A, R : Process(c, s, method, A, R)
        \/ \E s, processMap : DispatchUnknown(c, s, processMap)
    BY <1>3, ServerDispatches, Zenon
  <2> QED BY <2>1, ReadArgsStep, AnswerStep, UnknownStep DEF Process
<1>4. ASSUME NEW c \in Clients, Garbage(c) \/ EndOfFile(c) \/ Close(c) PROVE RpcInv'
  BY <1>4, CloseStep DEF Garbage, EndOfFile, Close
<1>5. ASSUME NEW c \in Clients, Timeout(c) PROVE RpcInv'
  BY <1>5, TimeoutStep
<1>6. ASSUME NEW c \in Clients, PeerGone(c) PROVE RpcInv'
  BY <1>6, ThreadsStep
<1>7. ASSUME NEW s \in Services, Assign(s) PROVE RpcInv'
  BY <1>7, ThreadsStep
<1>8. ASSUME NEW s \in Services, Restart(s) PROVE RpcInv'
  BY <1>8, RestartStep
<1>9. CASE UNCHANGED vars
  <2>1. Tables'
    BY <1>9 DEF RpcInv, Tables, vars
  <2>2. ASSUME NEW c \in Clients PROVE LinkInv(c)'
    BY <1>9, Untouched DEF RpcInv, vars
  <2> QED BY <2>1, <2>2 DEF RpcInv
<1> QED BY <1>1, <1>2, <1>3, <1>4, <1>5, <1>6, <1>7, <1>8, <1>9 DEF Next

(* However clients, threads, timeouts and restarts interleave, the          *)
(* inductive invariant holds.                                               *)
THEOREM RpcInvariant == Spec => []RpcInv
<1>1. Init => RpcInv
  BY RpcInit
<1>2. RpcInv /\ [Next]_vars => RpcInv'
  BY RpcStep
<1> QED BY <1>1, <1>2, PTL DEF Spec

(* A client that closes what it gives up on starts its next call with empty *)
(* streams and a thread that waits for it: no process_<method> leaves       *)
(* anything of a call behind, in either service, however the call ended.    *)
THEOREM StreamsInStep == Spec => []InStep
<1>1. RpcInv => InStep
  BY DEF RpcInv, LinkInv, Careful, InStep
<1> QED BY <1>1, RpcInvariant, PTL

(* What recv_<method> returns is of the run of this method for this call,   *)
(* though it compares no seqid; and a client that kept its connection after *)
(* a timeout still never takes the result of one method for another's.      *)
THEOREM AnswerIsOwn == Spec => []ReplyOfThisCall
<1>1. RpcInv => ReplyOfThisCall
  BY DEF RpcInv, LinkInv, OfThisCall, ReplyOfThisCall
<1> QED BY <1>1, RpcInvariant, PTL

-----------------------------------------------------------------------------
(* The codec: what read() makes of what write() wrote.                      *)

(* The fields of a struct have names and ids of their own. *)
Proper(T) ==
  /\ IsSeq(T.fields)
  /\ \A i, j \in DOMAIN T.fields : i # j => T.fields[i].name # T.fields[j].name /\ T.fields[i].id # T.fields[j].id

(* A field is found by its name. *)
LEMMA FieldByName ==
  ASSUME NEW T, Proper(T)
  PROVE  /\ \A i \in DOMAIN T.fields :
              T.fields[i].name \in Names(T) /\ FieldNamed(T, T.fields[i].name) = T.fields[i]
         /\ \A n \in Names(T) : \E i \in DOMAIN T.fields : n = T.fields[i].name
<1>1. \A n \in Names(T) : \E i \in DOMAIN T.fields : n = T.fields[i].name
  BY DEF Names, Fields
<1>2. ASSUME NEW i \in DOMAIN T.fields
      PROVE  T.fields[i].name \in Names(T) /\ FieldNamed(T, T.fields[i].name) = T.fields[i]
  <2>1. T.fields[i] \in Fields(T)
    BY DEF Fields
  <2>2. T.fields[i].name \in Names(T)
    BY <2>1 DEF Names
  <2>3. \A f \in Fields(T) : f.name = T.fields[i].name => f = T.fields[i]
    BY DEF Fields, Proper
  <2> QED BY <2>1, <2>2, <2>3 DEF FieldNamed
<1> QED BY <1>1, <1>2

LEMMA LastOfOne == ASSUME NEW k \in Nat, NEW S, S = {k} PROVE (CHOOSE i \in S : \A j \in S : j <= i) = k
OBVIOUS

(* A token is no empty value, nor is a list of one. *)
LEMMA NotUnset == ASSUME NEW a, NEW b PROVE <<a, b>> # Unset /\ <<a>> # Unset
BY DEF Unset

(* The same for the structs it holds: they are nested three deep at most. *)
Proper1(T) == Proper(T) /\ \A i \in DOMAIN T.fields : T.fields[i].of # NoStruct => Proper(T.fields[i].of)
Proper2(T) == Proper(T) /\ \A i \in DOMAIN T.fields : T.fields[i].of # NoStruct => Proper1(T.fields[i].of)
Proper3(T) == Proper(T) /\ \A i \in DOMAIN T.fields : T.fields[i].of # NoStruct => Proper2(T.fields[i].of)

(* A struct with every field filled is read as it was written, level by     *)
(* level.                                                                   *)
LEMMA Trip0 ==
  ASSUME NEW T, Proper(T), NEW call
  PROVE  Read0(T, Write0(T, Fill0(T, call))) = Fill0(T, call)
<1> DEFINE fs == T.fields
           fill == Fill0(T, call)
           wire == Write0(T, fill)
<1>1. /\ DOMAIN wire = DOMAIN fs
      /\ \A i \in DOMAIN fs :
           /\ wire[i].id = fs[i].id /\ wire[i].type = fs[i].type
           /\ wire[i].value = LET u == fill[fs[i].name]
                              IN  IF fs[i].of = NoStruct \/ u = Unset THEN u
                                  ELSE [j \in DOMAIN u |-> u[j]]
  BY DEF Write0, WriteFields
<1>2. fill = [n \in Names(T) |-> IF FieldNamed(T, n).of = NoStruct THEN <<n, call>>
                                 ELSE <<Unset>>]
  BY DEF Fill0, FillFields
<1> HIDE DEF wire, fill
<1>3. ASSUME NEW i \in DOMAIN fs PROVE Read0(T, wire)[fs[i].name] = fill[fs[i].name]
  <2> DEFINE n == fs[i].name
             of == fs[i].of
             v == wire[i].value
  <2>1. n \in Names(T) /\ FieldNamed(T, n) = fs[i] /\ i \in Nat
    BY FieldByName, <1>3, LenProperties DEF Proper, IsSeq
  <2>2. Stores(fs[i], wire) = {i}
    <3>1. DOMAIN wire = DOMAIN fs /\ \A k \in DOMAIN wire : wire[k].id = fs[k].id /\ wire[k].type = fs[k].type
      BY <1>1
    <3>2. Proper(T)
      OBVIOUS
    <3> QED BY <1>3, <3>1, <3>2 DEF Stores, Proper
  <2>3. (CHOOSE k \in Stores(fs[i], wire) : \A j \in Stores(fs[i], wire) : j <= k) = i
    BY <2>1, <2>2, LastOfOne
  <2>4. Read0(T, wire)[n] = IF of = NoStruct \/ v = Unset THEN v ELSE [j \in DOMAIN v |-> v[j]]
    <3> DEFINE g == FieldNamed(T, n)
               at == Stores(g, wire)
               last == CHOOSE k \in at : \A j \in at : j <= k
               u == wire[last].value
    <3>1. Read0(T, wire)[n] = CASE at = {} -> Unset
                              [] at # {} /\ (g.of = NoStruct \/ u = Unset) -> u
                              [] OTHER -> [j \in DOMAIN u |-> u[j]]
      BY <2>1 DEF Read0, ReadFields
    <3>2. at # {} /\ last = i /\ g = fs[i]
      BY <2>1, <2>2, <2>3
    <3> HIDE DEF at, last, g
    <3> QED BY <3>1, <3>2
  <2>5. CASE of = NoStruct
    BY <1>1, <2>1, <2>4, <2>5
  <2>6. CASE of # NoStruct
    <3> DEFINE x == Unset
    <3>1. fill[n] = <<x>> /\ fill[n] # Unset
      BY <1>2, <2>1, <2>6, NotUnset
    <3>2. v = <<x>> /\ v # Unset
      <4>1. v = [j \in DOMAIN <<x>> |-> <<x>>[j]]
        BY <1>1, <2>6, <3>1
      <4>2. [j \in DOMAIN <<x>> |-> <<x>>[j]] = <<x>>
        OBVIOUS
      <4> QED BY <4>1, <4>2, NotUnset
    <3>3. x = x
      OBVIOUS
    <3> HIDE DEF x
    <3> QED BY <2>4, <2>6, <3>1, <3>2, <3>3
  <2> QED BY <2>5, <2>6
<1>4. \A n \in Names(T) : Read0(T, wire)[n] = fill[n]
  BY <1>3, FieldByName
<1>5. Read0(T, wire) = [n \in Names(T) |-> Read0(T, wire)[n]] /\ fill = [n \in Names(T) |-> fill[n]]
  BY <1>2 DEF Read0, ReadFields
<1>6. [n \in Names(T) |-> Read0(T, wire)[n]] = [n \in Names(T) |-> fill[n]]
  BY <1>4
<1> QED BY <1>5, <1>6 DEF wire, fill

LEMMA Trip1 ==
  ASSUME NEW T, Proper1(T), NEW call
  PROVE  Read1(T, Write1(T, Fill1(T, call))) = Fill1(T, call)
<1> DEFINE fs == T.fields
           fill == Fill1(T, call)
           wire == Write1(T, fill)
<1>1. /\ DOMAIN wire = DOMAIN fs
      /\ \A i \in DOMAIN fs :
           /\ wire[i].id = fs[i].id /\ wire[i].type = fs[i].type
           /\ wire[i].value = LET u == fill[fs[i].name]
                              IN  IF fs[i].of = NoStruct \/ u = Unset THEN u
                                  ELSE [j \in DOMAIN u |-> Write0(fs[i].of, u[j])]
  BY DEF Write1, WriteFields
<1>2. fill = [n \in Names(T) |-> IF FieldNamed(T, n).of = NoStruct THEN <<n, call>>
                                 ELSE <<Fill0(FieldNamed(T, n).of, call)>>]
  BY DEF Fill1, FillFields
<1> HIDE DEF wire, fill
<1>3. ASSUME NEW i \in DOMAIN fs PROVE Read1(T, wire)[fs[i].name] = fill[fs[i].name]
  <2> DEFINE n == fs[i].name
             of == fs[i].of
             v == wire[i].value
  <2>1. n \in Names(T) /\ FieldNamed(T, n) = fs[i] /\ i \in Nat
    BY FieldByName, <1>3, LenProperties DEF Proper, Proper1, IsSeq
  <2>2. Stores(fs[i], wire) = {i}
    <3>1. DOMAIN wire = DOMAIN fs /\ \A k \in DOMAIN wire : wire[k].id = fs[k].id /\ wire[k].type = fs[k].type
      BY <1>1
    <3>2. Proper(T)
      BY DEF Proper1
    <3> QED BY <1>3, <3>1, <3>2 DEF Stores, Proper
  <2>3. (CHOOSE k \in Stores(fs[i], wire) : \A j \in Stores(fs[i], wire) : j <= k) = i
    BY <2>1, <2>2, LastOfOne
  <2>4. Read1(T, wire)[n] = IF of = NoStruct \/ v = Unset THEN v ELSE [j \in DOMAIN v |-> Read0(of, v[j])]
    <3> DEFINE g == FieldNamed(T, n)
               at == Stores(g, wire)
               last == CHOOSE k \in at : \A j \in at : j <= k
               u == wire[last].value
    <3>1. Read1(T, wire)[n] = CASE at = {} -> Unset
                              [] at # {} /\ (g.of = NoStruct \/ u = Unset) -> u
                              [] OTHER -> [j \in DOMAIN u |-> Read0(g.of, u[j])]
      BY <2>1 DEF Read1, ReadFields
    <3>2. at # {} /\ last = i /\ g = fs[i]
      BY <2>1, <2>2, <2>3
    <3> HIDE DEF at, last, g
    <3> QED BY <3>1, <3>2
  <2>5. CASE of = NoStruct
    BY <1>1, <2>1, <2>4, <2>5
  <2>6. CASE of # NoStruct
    <3> DEFINE x == Fill0(of, call)
    <3>1. fill[n] = <<x>> /\ fill[n] # Unset
      BY <1>2, <2>1, <2>6, NotUnset
    <3>2. v = <<Write0(of, x)>> /\ v # Unset
      <4>1. v = [j \in DOMAIN <<x>> |-> Write0(of, <<x>>[j])]
        BY <1>1, <2>6, <3>1
      <4>2. [j \in DOMAIN <<x>> |-> Write0(of, <<x>>[j])] = <<Write0(of, x)>>
        OBVIOUS
      <4> QED BY <4>1, <4>2, NotUnset
    <3>3. Read0(of, Write0(of, x)) = x
      BY <2>6, Trip0 DEF Proper1
    <3> HIDE DEF x
    <3> QED BY <2>4, <2>6, <3>1, <3>2, <3>3
  <2> QED BY <2>5, <2>6
<1>4. \A n \in Names(T) : Read1(T, wire)[n] = fill[n]
  BY <1>3, FieldByName DEF Proper1
<1>5. Read1(T, wire) = [n \in Names(T) |-> Read1(T, wire)[n]] /\ fill = [n \in Names(T) |-> fill[n]]
  BY <1>2 DEF Read1, ReadFields
<1>6. [n \in Names(T) |-> Read1(T, wire)[n]] = [n \in Names(T) |-> fill[n]]
  BY <1>4
<1> QED BY <1>5, <1>6 DEF wire, fill

LEMMA Trip2 ==
  ASSUME NEW T, Proper2(T), NEW call
  PROVE  Read2(T, Write2(T, Fill2(T, call))) = Fill2(T, call)
<1> DEFINE fs == T.fields
           fill == Fill2(T, call)
           wire == Write2(T, fill)
<1>1. /\ DOMAIN wire = DOMAIN fs
      /\ \A i \in DOMAIN fs :
           /\ wire[i].id = fs[i].id /\ wire[i].type = fs[i].type
           /\ wire[i].value = LET u == fill[fs[i].name]
                              IN  IF fs[i].of = NoStruct \/ u = Unset THEN u
                                  ELSE [j \in DOMAIN u |-> Write1(fs[i].of, u[j])]
  BY DEF Write2, WriteFields
<1>2. fill = [n \in Names(T) |-> IF FieldNamed(T, n).of = NoStruct THEN <<n, call>>
                                 ELSE <<Fill1(FieldNamed(T, n).of, call)>>]
  BY DEF Fill2, FillFields
<1> HIDE DEF wire, fill
<1>3. ASSUME NEW i \in DOMAIN fs PROVE Read2(T, wire)[fs[i].name] = fill[fs[i].name]
  <2> DEFINE n == fs[i].name
             of == fs[i].of
             v == wire[i].value
  <2>1. n \in Names(T) /\ FieldNamed(T, n) = fs[i] /\ i \in Nat
    BY FieldByName, <1>3, LenProperties DEF Proper, Proper2, IsSeq
  <2>2. Stores(fs[i], wire) = {i}
    <3>1. DOMAIN wire = DOMAIN fs /\ \A k \in DOMAIN wire : wire[k].id = fs[k].id /\ wire[k].type = fs[k].type
      BY <1>1
    <3>2. Proper(T)
      BY DEF Proper2
    <3> QED BY <1>3, <3>1, <3>2 DEF Stores, Proper
  <2>3. (CHOOSE k \in Stores(fs[i], wire) : \A j \in Stores(fs[i], wire) : j <= k) = i
    BY <2>1, <2>2, LastOfOne
  <2>4. Read2(T, wire)[n] = IF of = NoStruct \/ v = Unset THEN v ELSE [j \in DOMAIN v |-> Read1(of, v[j])]
    <3> DEFINE g == FieldNamed(T, n)
               at == Stores(g, wire)
               last == CHOOSE k \in at : \A j \in at : j <= k
               u == wire[last].value
    <3>1. Read2(T, wire)[n] = CASE at = {} -> Unset
                              [] at # {} /\ (g.of = NoStruct \/ u = Unset) -> u
                              [] OTHER -> [j \in DOMAIN u |-> Read1(g.of, u[j])]
      BY <2>1 DEF Read2, ReadFields
    <3>2. at # {} /\ last = i /\ g = fs[i]
      BY <2>1, <2>2, <2>3
    <3> HIDE DEF at, last, g
    <3> QED BY <3>1, <3>2
  <2>5. CASE of = NoStruct
    BY <1>1, <2>1, <2>4, <2>5
  <2>6. CASE of # NoStruct
    <3> DEFINE x == Fill1(of, call)
    <3>1. fill[n] = <<x>> /\ fill[n] # Unset
      BY <1>2, <2>1, <2>6, NotUnset
    <3>2. v = <<Write1(of, x)>> /\ v # Unset
      <4>1. v = [j \in DOMAIN <<x>> |-> Write1(of, <<x>>[j])]
        BY <1>1, <2>6, <3>1
      <4>2. [j \in DOMAIN <<x>> |-> Write1(of, <<x>>[j])] = <<Write1(of, x)>>
        OBVIOUS
      <4> QED BY <4>1, <4>2, NotUnset
    <3>3. Read1(of, Write1(of, x)) = x
      BY <2>6, Trip1 DEF Proper2
    <3> HIDE DEF x
    <3> QED BY <2>4, <2>6, <3>1, <3>2, <3>3
  <2> QED BY <2>5, <2>6
<1>4. \A n \in Names(T) : Read2(T, wire)[n] = fill[n]
  BY <1>3, FieldByName DEF Proper2
<1>5. Read2(T, wire) = [n \in Names(T) |-> Read2(T, wire)[n]] /\ fill = [n \in Names(T) |-> fill[n]]
  BY <1>2 DEF Read2, ReadFields
<1>6. [n \in Names(T) |-> Read2(T, wire)[n]] = [n \in Names(T) |-> fill[n]]
  BY <1>4
<1> QED BY <1>5, <1>6 DEF wire, fill

-----------------------------------------------------------------------------
(* The arguments, between two versions of vae.thrift.                       *)

(* No argument of a method is a struct. *)
Flat(A) ==
  /\ Proper(A)
  /\ \A i \in DOMAIN A.fields : A.fields[i].of = NoStruct /\ A.fields[i].id # 99 /\ A.fields[i].type # "T_I64"

(* The places of the fields on which a client of version d agrees. *)
Agreed(A, d) == CASE d = "older" -> 1 .. Len(A.fields) - 1
                  [] d = "retyped" -> 2 .. Len(A.fields)
                  [] OTHER -> 1 .. Len(A.fields)

LEMMA WrittenArgs ==
  ASSUME NEW A, Flat(A), NEW call
  PROVE  LET w == Write(A, Fill(A, call))
         IN  /\ Len(A.fields) \in Nat /\ DOMAIN A.fields = 1 .. Len(A.fields)
             /\ IsSeq(w) /\ Len(w) = Len(A.fields) /\ DOMAIN w = 1 .. Len(A.fields)
             /\ \A i \in 1 .. Len(A.fields) :
                  w[i] = [id |-> A.fields[i].id, type |-> A.fields[i].type, value |-> <<A.fields[i].name, call>>]
<1> DEFINE fs == A.fields
           fill == Fill(A, call)
           w == Write(A, fill)
           S == {w[i] : i \in DOMAIN w}
<1>1. Len(fs) \in Nat /\ DOMAIN fs = 1 .. Len(fs) /\ Proper(A)
  BY LenProperties DEF Flat, Proper, IsSeq
<1>2. ASSUME NEW i \in DOMAIN fs PROVE fill[fs[i].name] = <<fs[i].name, call>>
  BY <1>1, <1>2, FieldByName DEF Fill, FillFields, Flat
<1>3. w = [i \in DOMAIN fs |-> [id |-> fs[i].id, type |-> fs[i].type,
                                value |-> IF fs[i].of = NoStruct \/ fill[fs[i].name] = Unset THEN fill[fs[i].name]
                                          ELSE [j \in DOMAIN fill[fs[i].name] |->
                                                  Write2(fs[i].of, fill[fs[i].name][j])]]]
  BY DEF Write, WriteFields
<1> HIDE DEF w, fill
<1>4. /\ DOMAIN w = 1 .. Len(fs)
      /\ \A i \in 1 .. Len(fs) : w[i] = [id |-> fs[i].id, type |-> fs[i].type, value |-> <<fs[i].name, call>>]
  BY <1>1, <1>2, <1>3 DEF Flat
<1>5. w \in [1 .. Len(fs) -> S]
  BY <1>3, <1>4
<1>6. w \in Seq(S) /\ Len(w) = Len(fs)
  <2> HIDE DEF S
  <2>1. w \in Seq(S)
    BY <1>1, <1>5, SeqDef
  <2>2. Len(w) \in Nat /\ DOMAIN w = 1 .. Len(w)
    BY <2>1, LenProperties
  <2>3. Len(w) = Len(fs)
    BY <1>1, <1>4, <2>2
  <2> QED BY <2>1, <2>3
<1>7. IsSeq(w)
  BY <1>6, SeqIsSeq
<1> QED BY <1>1, <1>4, <1>6, <1>7 DEF w, fill

(* read() stores the fields both sides agree on, and no other. *)
StoresAgreed(A, call, d, wire) ==
  \A i \in DOMAIN A.fields :
    /\ Stores(A.fields[i], wire) = IF i \in Agreed(A, d) THEN {i} ELSE {}
    /\ i \in Agreed(A, d) => wire[i].value = <<A.fields[i].name, call>>

LEMMA StoredArgs ==
  ASSUME NEW A, Flat(A), NEW call, NEW d \in {"same", "older", "newer", "retyped"},
         d \in {"older", "retyped"} => A.fields # <<>>
  PROVE  StoresAgreed(A, call, d, InDialect(Write(A, Fill(A, call)), d))
<1> DEFINE fs == A.fields
           n == Len(fs)
           w == Write(A, Fill(A, call))
           wire == InDialect(w, d)
<1>1. /\ n \in Nat /\ DOMAIN fs = 1 .. n /\ IsSeq(w) /\ Len(w) = n /\ DOMAIN w = 1 .. n
      /\ \A i \in 1 .. n : w[i] = [id |-> fs[i].id, type |-> fs[i].type, value |-> <<fs[i].name, call>>]
  BY WrittenArgs
<1>2. /\ \A i, j \in 1 .. n : i # j => fs[i].id # fs[j].id
      /\ \A i \in 1 .. n : fs[i].id # 99 /\ fs[i].type # "T_I64"
  BY <1>1 DEF Flat, Proper
<1> HIDE DEF w
<1> DEFINE Matches(k, i) == wire[k].id = fs[i].id /\ wire[k].type = fs[i].type
<1>0. SUFFICES ASSUME NEW i \in 1 .. n
               PROVE  /\ i \in Agreed(A, d) => i \in DOMAIN wire /\ wire[i].value = <<fs[i].name, call>>
                      /\ \A k \in DOMAIN wire : Matches(k, i) <=> k = i /\ i \in Agreed(A, d)
  <2>1. ASSUME NEW i \in 1 .. n, i \in Agreed(A, d) => i \in DOMAIN wire,
               \A k \in DOMAIN wire : Matches(k, i) <=> k = i /\ i \in Agreed(A, d)
        PROVE  Stores(fs[i], wire) = IF i \in Agreed(A, d) THEN {i} ELSE {}
    <3> HIDE DEF wire, n
    <3> QED BY <2>1 DEF Stores
  <2> QED BY <1>1, <2>1 DEF StoresAgreed, w
<1>3. CASE d = "same"
  <2>1. wire = w /\ Agreed(A, d) = 1 .. n
    BY <1>3 DEF InDialect, Agreed
  <2> HIDE DEF wire, n
  <2> QED BY <1>0, <1>1, <1>2, <2>1
<1>4. CASE d = "older"
  <2>1. wire = SubSeq(w, 1, n - 1) /\ Agreed(A, d) = 1 .. n - 1
    BY <1>1, <1>4 DEF InDialect, Agreed
  <2>2. n # 0
    BY <1>1, <1>4, EmptySeq DEF Flat, Proper, IsSeq
  <2>3. DOMAIN wire = 1 .. n - 1 /\ \A k \in 1 .. n - 1 : wire[k] = w[k]
    BY <1>1, <2>1, <2>2
  <2> HIDE DEF wire, n
  <2> QED BY <1>0, <1>1, <1>2, <2>1, <2>3, SMTT(30)
<1>5. CASE d = "newer"
  <2> DEFINE e == [id |-> 99, type |-> "T_I32", value |-> <<"later", 0>>]
  <2>1. wire = Append(w, e) /\ Agreed(A, d) = 1 .. n
    BY <1>5 DEF InDialect, Agreed
  <2>2. e.id = 99
    OBVIOUS
  <2> HIDE DEF e
  <2>3. DOMAIN wire = 1 .. n + 1 /\ wire[n + 1] = e /\ \A k \in 1 .. n : wire[k] = w[k]
    BY <1>1, <2>1, AppendIsSeq
  <2> HIDE DEF wire, n
  <2>4. ~Matches(n + 1, i)
    BY <1>0, <1>1, <1>2, <2>2, <2>3
  <2>5. \A k \in 1 .. n : Matches(k, i) <=> k = i
    BY <1>0, <1>1, <1>2, <2>3
  <2>6. i \in DOMAIN wire /\ i # n + 1 /\ wire[i].value = <<fs[i].name, call>>
    BY <1>0, <1>1, <2>3
  <2>7. \A k \in DOMAIN wire : k = n + 1 \/ k \in 1 .. n
    BY <1>1, <2>3
  <2> HIDE DEF Matches
  <2> QED BY <1>0, <2>1, <2>4, <2>5, <2>6, <2>7
<1>6. CASE d = "retyped"
  <2>1. wire = [w EXCEPT ![1].type = "T_I64"] /\ Agreed(A, d) = 2 .. n
    BY <1>6 DEF InDialect, Agreed
  <2>2. n # 0
    BY <1>1, <1>6, EmptySeq DEF Flat, Proper, IsSeq
  <2> DEFINE x == [w[1] EXCEPT !.type = "T_I64"]
  <2>3. x.type = "T_I64" /\ x.id = fs[1].id
    <3>1. w[1] = [id |-> fs[1].id, type |-> fs[1].type, value |-> <<fs[1].name, call>>]
      BY <1>1, <2>2
    <3> QED BY <3>1
  <2>4. DOMAIN wire = 1 .. n /\ wire[1] = x /\ \A k \in 2 .. n : wire[k] = w[k]
    <3>1. wire = [w EXCEPT ![1] = x]
      BY <2>1
    <3> HIDE DEF wire, x
    <3> QED BY <1>1, <2>2, <3>1
  <2> HIDE DEF x
  <2> HIDE DEF wire, n
  <2> QED BY <1>0, <1>1, <1>2, <2>1, <2>2, <2>3, <2>4
<1> QED BY <1>3, <1>4, <1>5, <1>6

(* The handler gets what the caller wrote in every field they agree on, and *)
(* nothing in the others.                                                   *)
LEMMA ArgsTrip ==
  ASSUME NEW A, Flat(A), NEW call, NEW d \in {"same", "older", "newer", "retyped"},
         d \in {"older", "retyped"} => A.fields # <<>>
  PROVE  Read(A, InDialect(Write(A, Fill(A, call)), d)) = Given(A, call, d)
<1> DEFINE fs == A.fields
           wire == InDialect(Write(A, Fill(A, call)), d)
           given == Given(A, call, d)
<1>1. /\ Len(fs) \in Nat /\ DOMAIN fs = 1 .. Len(fs) /\ Proper(A)
      /\ \A i \in DOMAIN fs : /\ Stores(fs[i], wire) = IF i \in Agreed(A, d) THEN {i} ELSE {}
                              /\ i \in Agreed(A, d) => wire[i].value = <<fs[i].name, call>>
  <2>1. /\ Len(fs) \in Nat /\ DOMAIN fs = 1 .. Len(fs) /\ Proper(A)
    BY WrittenArgs DEF Flat
  <2>2. StoresAgreed(A, call, d, wire)
    BY StoredArgs
  <2> HIDE DEF wire
  <2> QED BY <2>1, <2>2 DEF StoresAgreed
<1> HIDE DEF wire
<1>2. ASSUME NEW i \in DOMAIN fs
      PROVE  Read(A, wire)[fs[i].name] = IF i \in Agreed(A, d) THEN <<fs[i].name, call>> ELSE Unset
  <2> DEFINE n == fs[i].name
  <2>1. n \in Names(A) /\ FieldNamed(A, n) = fs[i] /\ i \in Nat /\ fs[i].of = NoStruct
    BY <1>1, <1>2, FieldByName DEF Flat
  <2>2. CASE i \in Agreed(A, d)
    <3>1. Stores(fs[i], wire) = {i}
      BY <1>1, <1>2, <2>2
    <3>2. (CHOOSE k \in Stores(fs[i], wire) : \A j \in Stores(fs[i], wire) : j <= k) = i
      BY <2>1, <3>1, LastOfOne
    <3>3. Read(A, wire)[n] = wire[i].value
      BY <2>1, <3>1, <3>2 DEF Read, ReadFields
    <3> QED BY <1>1, <1>2, <2>2, <3>3
  <2>3. CASE i \notin Agreed(A, d)
    <3>1. Stores(fs[i], wire) = {}
      BY <1>1, <1>2, <2>3
    <3>2. Read(A, wire)[n] = Unset
      BY <2>1, <3>1 DEF Read, ReadFields
    <3> QED BY <2>3, <3>2
  <2> QED BY <2>2, <2>3
<1>3. ASSUME NEW i \in DOMAIN fs
      PROVE  given[fs[i].name] = IF i \in Agreed(A, d) THEN <<fs[i].name, call>> ELSE Unset
  <2> DEFINE agreed == CASE d = "older" -> {fs[k].name : k \in 1 .. Len(fs) - 1}
                         [] d = "retyped" -> {fs[k].name : k \in 2 .. Len(fs)}
                         [] OTHER -> Names(A)
  <2>1. given = [n \in Names(A) |-> IF n \in agreed THEN <<n, call>> ELSE Unset]
    BY DEF Given
  <2>2. fs[i].name \in Names(A)
    BY <1>1, <1>3, FieldByName
  <2>3. \A k \in 1 .. Len(fs) : fs[k].name = fs[i].name => k = i
    BY <1>1, <1>3 DEF Proper
  <2>4. fs[i].name \in agreed <=> i \in Agreed(A, d)
    <3>1. CASE d = "older"
      BY <1>1, <1>3, <2>3, <3>1 DEF Agreed
    <3>2. CASE d = "retyped"
      BY <1>1, <1>3, <2>3, <3>2 DEF Agreed
    <3>3. CASE d \in {"same", "newer"}
      BY <1>1, <1>3, <2>2, <3>3 DEF Agreed
    <3> QED BY <3>1, <3>2, <3>3
  <2> HIDE DEF agreed
  <2> QED BY <2>1, <2>2, <2>4
<1>4. \A n \in Names(A) : Read(A, wire)[n] = given[n]
  <2>1. \A n \in Names(A) : \E i \in DOMAIN fs : n = fs[i].name
    BY <1>1, FieldByName
  <2> HIDE DEF given
  <2> QED BY <1>2, <1>3, <2>1, ZenonT(60)
<1>5. Read(A, wire) = [n \in Names(A) |-> Read(A, wire)[n]] /\ given = [n \in Names(A) |-> given[n]]
  BY DEF Read, ReadFields, Given
<1>6. [n \in Names(A) |-> Read(A, wire)[n]] = [n \in Names(A) |-> given[n]]
  BY <1>4
<1> QED BY <1>5, <1>6 DEF wire

-----------------------------------------------------------------------------
(* The result.                                                              *)

ResultTable(R) == Proper3(R) /\ {"ok", "empty", "std::exception"} \cap Names(R) = {}

(* The one field of a result that is written is the one field that is read. *)
LEMMA OneFieldTrip ==
  ASSUME NEW R, Proper3(R), NEW i \in DOMAIN R.fields, NEW call, NEW value,
         value = Fill(R, call) \/ value = [n \in Names(R) |-> Unset]
  PROVE  LET wire == <<Write(R, value)[i]>>
         IN  /\ FirstOf(R, {R.fields[i].name}) = i
             /\ Isset(R, wire) = {R.fields[i].name}
             /\ Read(R, wire)[R.fields[i].name] = value[R.fields[i].name]
<1> DEFINE fs == R.fields
           f == fs[i]
           u == value[f.name]
           w == Write(R, value)[i]
           wire == <<w>>
<1>1. Proper(R) /\ Len(fs) \in Nat /\ DOMAIN fs = 1 .. Len(fs)
  BY LenProperties DEF Proper3, Proper, IsSeq
<1>2. /\ \A k \in DOMAIN fs : fs[k].name \in Names(R) /\ FieldNamed(R, fs[k].name) = fs[k]
      /\ \A n \in Names(R) : \E k \in DOMAIN fs : n = fs[k].name
  BY <1>1, FieldByName
<1>3. \A k \in DOMAIN fs : k # i => fs[k].name # f.name /\ fs[k].id # f.id
  BY <1>1 DEF Proper
<1>4. FirstOf(R, {f.name}) = i
  <2>1. {k \in DOMAIN fs : fs[k].name \in {f.name}} = {i}
    BY <1>3
  <2>2. i \in Nat
    BY <1>1
  <2> QED BY <2>1, <2>2 DEF FirstOf
<1>5. /\ w.id = f.id /\ w.type = f.type
      /\ w.value = IF f.of = NoStruct \/ u = Unset THEN u ELSE [j \in DOMAIN u |-> Write2(f.of, u[j])]
  BY DEF Write, WriteFields
<1> HIDE DEF w
<1>6. DOMAIN wire = {1} /\ wire[1] = w
  OBVIOUS
<1> HIDE DEF wire
<1>7. Stores(f, wire) = {1} /\ \A k \in DOMAIN fs : k # i => Stores(fs[k], wire) = {}
  BY <1>3, <1>5, <1>6 DEF Stores
<1>8. Isset(R, wire) = {f.name}
  <2>1. ASSUME NEW n \in Names(R) PROVE Stores(FieldNamed(R, n), wire) # {} <=> n = f.name
    <3>1. PICK k \in DOMAIN fs : n = fs[k].name
      BY <1>2, <2>1
    <3>2. FieldNamed(R, n) = fs[k]
      BY <1>2, <3>1
    <3>3. CASE k = i
      BY <1>7, <3>1, <3>2, <3>3
    <3>4. CASE k # i
      BY <1>3, <1>7, <3>1, <3>2, <3>4
    <3> QED BY <3>3, <3>4
  <2> QED BY <1>2, <2>1 DEF Isset
<1>9. Read(R, wire)[f.name] = u
  <2> DEFINE v == w.value
  <2>1. (CHOOSE k \in Stores(f, wire) : \A j \in Stores(f, wire) : j <= k) = 1
    BY <1>7, LastOfOne
  <2>2. Read(R, wire)[f.name] = IF f.of = NoStruct \/ v = Unset THEN v ELSE [j \in DOMAIN v |-> Read2(f.of, v[j])]
    <3>1. f.name \in Names(R) /\ FieldNamed(R, f.name) = f
      BY <1>2
    <3> DEFINE g == FieldNamed(R, f.name)
               at == Stores(g, wire)
               last == CHOOSE k \in at : \A j \in at : j <= k
               x == wire[last].value
    <3>2. Read(R, wire)[f.name] = CASE at = {} -> Unset
                                    [] at # {} /\ (g.of = NoStruct \/ x = Unset) -> x
                                    [] OTHER -> [j \in DOMAIN x |-> Read2(g.of, x[j])]
      BY <3>1 DEF Read, ReadFields
    <3>3. at # {} /\ last = 1 /\ g = f
      BY <1>7, <2>1, <3>1
    <3> HIDE DEF at, last, g
    <3> QED BY <1>6, <3>2, <3>3
  <2>3. CASE f.of = NoStruct \/ u = Unset
    BY <1>5, <2>2, <2>3
  <2>4. CASE ~(f.of = NoStruct \/ u = Unset)
    <3> DEFINE x == Fill2(f.of, call)
    <3>1. value = Fill(R, call)
      BY <1>2, <2>4
    <3>2. u = <<x>>
      BY <1>2, <2>4, <3>1 DEF Fill, FillFields
    <3>3. v = <<Write2(f.of, x)>> /\ v # Unset
      <4>1. v = [j \in DOMAIN <<x>> |-> Write2(f.of, <<x>>[j])]
        BY <1>5, <2>4, <3>2
      <4>2. [j \in DOMAIN <<x>> |-> Write2(f.of, <<x>>[j])] = <<Write2(f.of, x)>>
        OBVIOUS
      <4> QED BY <4>1, <4>2, NotUnset
    <3>4. Read2(f.of, Write2(f.of, x)) = x
      BY <2>4, Trip2 DEF Proper3
    <3> HIDE DEF x, u, v
    <3> QED BY <2>2, <2>4, <3>2, <3>3, <3>4
  <2> QED BY <2>3, <2>4
<1> QED BY <1>4, <1>8, <1>9 DEF wire, w

(* The caller is told how the run ended. *)
LEMMA ResultTrip ==
  ASSUME NEW R, ResultTable(R), NEW outcome \in Outcomes(R), outcome # "std::exception", NEW call
  PROVE  Decode(R, WriteResult(R, SetBy(R, outcome), ResultOf(R, outcome, call))) = Tells(R, outcome, call)
<1> DEFINE value == ResultOf(R, outcome, call)
           set == SetBy(R, outcome)
           wire == WriteResult(R, set, value)
<1>1. Proper3(R) /\ Proper(R) /\ \A n \in Names(R) : n \notin {"ok", "empty", "std::exception"}
  BY DEF ResultTable, Proper3
<1>2. /\ \A k \in DOMAIN R.fields : R.fields[k].name \in Names(R) /\ FieldNamed(R, R.fields[k].name) = R.fields[k]
      /\ \A n \in Names(R) : \E k \in DOMAIN R.fields : n = R.fields[k].name
  BY <1>1, FieldByName
<1>3. value = IF outcome = "empty" THEN [n \in Names(R) |-> Unset] ELSE Fill(R, call)
  BY DEF ResultOf
<1>4. outcome \in {"ok", "empty"} \/ (outcome \in Names(R) /\ outcome # "success")
  BY <1>2 DEF Outcomes, Exceptions, Names
<1>5. outcome = "empty" => "success" \in Names(R)
  BY <1>1, <1>4 DEF Outcomes, Exceptions, Names
<1> HIDE DEF value
<1>6. ASSUME NEW n \in Names(R), set = {n}
      PROVE  Decode(R, wire) = IF n = "success" THEN Ended("returns", value[n])
                               ELSE Ended(FieldNamed(R, n).of.name, value[n])
  <2>1. PICK i \in DOMAIN R.fields : n = R.fields[i].name
    BY <1>2, <1>6
  <2>2. FieldNamed(R, n) = R.fields[i]
    BY <1>2, <2>1
  <2>3. /\ FirstOf(R, {n}) = i /\ Isset(R, <<Write(R, value)[i]>>) = {n}
        /\ Read(R, <<Write(R, value)[i]>>)[n] = value[n]
    BY <1>1, <1>3, <2>1, OneFieldTrip
  <2>4. wire = <<Write(R, value)[i]>>
    BY <1>6, <2>3 DEF WriteResult
  <2> HIDE DEF wire
  <2> QED BY <2>1, <2>2, <2>3, <2>4 DEF Decode
<1>7. CASE outcome \in {"ok", "empty"} /\ "success" \in Names(R)
  <2>1. set = {"success"}
    BY <1>7 DEF SetBy
  <2>2. Decode(R, wire) = Ended("returns", value["success"])
    BY <1>6, <1>7, <2>1
  <2> HIDE DEF wire, set
  <2> QED BY <1>3, <1>7, <2>2 DEF Tells, value, wire, set
<1>8. CASE outcome = "ok" /\ "success" \notin Names(R)
  <2>1. set = {} /\ wire = <<>>
    BY <1>8 DEF SetBy, WriteResult
  <2>2. Isset(R, <<>>) = {}
    BY DEF Isset, Stores
  <2>3. Decode(R, <<>>) = Ended("returns", Unset)
    BY <1>8, <2>2 DEF Decode
  <2> HIDE DEF wire, set
  <2> QED BY <1>8, <2>1, <2>3 DEF Tells, value, wire, set
<1>9. CASE outcome \in Names(R) /\ outcome # "success"
  <2>1. outcome \notin {"ok", "empty", "std::exception"}
    BY <1>1, <1>9
  <2>2. set = {outcome}
    BY <2>1 DEF SetBy
  <2>3. Decode(R, wire) = Ended(FieldNamed(R, outcome).of.name, value[outcome])
    BY <1>6, <1>9, <2>2
  <2> HIDE DEF wire, set
  <2> QED BY <1>3, <2>1, <2>3 DEF Tells, value, wire, set
<1> QED BY <1>4, <1>5, <1>7, <1>8, <1>9

-----------------------------------------------------------------------------
(* The tables of the two services.                                          *)

(* Two fields that no name and no id confuses; a field of no struct. *)
Apart(f, g) == f.name # g.name /\ f.id # g.id
Plain(f) == f.of = NoStruct /\ f.id # 99 /\ f.type # "T_I64"

LEMMA FieldOf ==
  ASSUME NEW id, NEW name, NEW S
  PROVE  /\ \A f \in {Bool(id, name), Byte(id, name), I32(id, name), String(id, name), Map(id, name)} :
              f.id = id /\ f.name = name /\ f.of = NoStruct /\ f.type # "T_I64"
         /\ \A f \in {Struct(id, name, S), List(id, name, S)} : f.id = id /\ f.name = name /\ f.of = S
BY DEF Bool, Byte, I32, String, Map, Struct, List, Field

LEMMA Proper_0 == ASSUME NEW n PROVE Proper(StructOf(n, <<>>)) /\ Flat(StructOf(n, <<>>))
BY EmptyIsSeq DEF Proper, Flat, StructOf

LEMMA Proper_1 ==
  ASSUME NEW n, NEW a
  PROVE  /\ Proper(StructOf(n, <<a>>))
         /\ (\A x \in {a} : Plain(x)) => Flat(StructOf(n, <<a>>))
<1> DEFINE q == <<a>>
<1>1. q \in Seq({a})
  OBVIOUS
<1>2. IsSeq(q)
  BY <1>1, SeqIsSeq
<1>3. DOMAIN q = 1 .. 1 /\ q[1] = a
  OBVIOUS
<1> HIDE DEF q
<1>4. StructOf(n, q).fields = q
  BY DEF StructOf
<1>5. Proper(StructOf(n, q))
  BY <1>2, <1>3, <1>4 DEF Proper, Apart
<1> QED BY <1>3, <1>4, <1>5 DEF Flat, Plain, q

LEMMA Proper_2 ==
  ASSUME NEW n, NEW a, NEW b,
         Apart(a, b)
  PROVE  /\ Proper(StructOf(n, <<a, b>>))
         /\ (\A x \in {a, b} : Plain(x)) => Flat(StructOf(n, <<a, b>>))
<1> DEFINE q == <<a, b>>
<1>1. q \in Seq({a, b})
  OBVIOUS
<1>2. IsSeq(q)
  BY <1>1, SeqIsSeq
<1>3. DOMAIN q = 1 .. 2 /\ q[1] = a /\ q[2] = b
  OBVIOUS
<1> HIDE DEF q
<1>4. StructOf(n, q).fields = q
  BY DEF StructOf
<1>5. Proper(StructOf(n, q))
  BY <1>2, <1>3, <1>4 DEF Proper, Apart
<1> QED BY <1>3, <1>4, <1>5 DEF Flat, Plain, q

LEMMA Proper_3 ==
  ASSUME NEW n, NEW a, NEW b, NEW c,
         Apart(a, b), Apart(a, c), Apart(b, c)
  PROVE  /\ Proper(StructOf(n, <<a, b, c>>))
         /\ (\A x \in {a, b, c} : Plain(x)) => Flat(StructOf(n, <<a, b, c>>))
<1> DEFINE q == <<a, b, c>>
<1>1. q \in Seq({a, b, c})
  OBVIOUS
<1>2. IsSeq(q)
  BY <1>1, SeqIsSeq
<1>3. DOMAIN q = 1 .. 3 /\ q[1] = a /\ q[2] = b /\ q[3] = c
  OBVIOUS
<1> HIDE DEF q
<1>4. StructOf(n, q).fields = q
  BY DEF StructOf
<1>5. Proper(StructOf(n, q))
  BY <1>2, <1>3, <1>4 DEF Proper, Apart
<1> QED BY <1>3, <1>4, <1>5 DEF Flat, Plain, q

LEMMA Proper_4 ==
  ASSUME NEW n, NEW a, NEW b, NEW c, NEW d,
         Apart(a, b), Apart(a, c), Apart(a, d), Apart(b, c), Apart(b, d), Apart(c, d)
  PROVE  /\ Proper(StructOf(n, <<a, b, c, d>>))
         /\ (\A x \in {a, b, c, d} : Plain(x)) => Flat(StructOf(n, <<a, b, c, d>>))
<1> DEFINE q == <<a, b, c, d>>
<1>1. q \in Seq({a, b, c, d})
  OBVIOUS
<1>2. IsSeq(q)
  BY <1>1, SeqIsSeq
<1>3. DOMAIN q = 1 .. 4 /\ q[1] = a /\ q[2] = b /\ q[3] = c /\ q[4] = d
  OBVIOUS
<1> HIDE DEF q
<1>4. StructOf(n, q).fields = q
  BY DEF StructOf
<1>5. Proper(StructOf(n, q))
  BY <1>2, <1>3, <1>4 DEF Proper, Apart
<1> QED BY <1>3, <1>4, <1>5 DEF Flat, Plain, q

LEMMA Proper_5 ==
  ASSUME NEW n, NEW a, NEW b, NEW c, NEW d, NEW e,
         Apart(a, b), Apart(a, c), Apart(a, d), Apart(a, e), Apart(b, c), Apart(b, d), Apart(b, e),
         Apart(c, d), Apart(c, e), Apart(d, e)
  PROVE  /\ Proper(StructOf(n, <<a, b, c, d, e>>))
         /\ (\A x \in {a, b, c, d, e} : Plain(x)) => Flat(StructOf(n, <<a, b, c, d, e>>))
<1> DEFINE q == <<a, b, c, d, e>>
<1>1. q \in Seq({a, b, c, d, e})
  OBVIOUS
<1>2. IsSeq(q)
  BY <1>1, SeqIsSeq
<1>3. DOMAIN q = 1 .. 5 /\ q[1] = a /\ q[2] = b /\ q[3] = c /\ q[4] = d /\ q[5] = e
  OBVIOUS
<1> HIDE DEF q
<1>4. StructOf(n, q).fields = q
  BY DEF StructOf
<1>5. Proper(StructOf(n, q))
  BY <1>2, <1>3, <1>4 DEF Proper, Apart
<1> QED BY <1>3, <1>4, <1>5 DEF Flat, Plain, q

LEMMA Proper_6 ==
  ASSUME NEW n, NEW a, NEW b, NEW c, NEW d, NEW e, NEW f,
         Apart(a, b), Apart(a, c), Apart(a, d), Apart(a, e), Apart(a, f), Apart(b, c), Apart(b, d),
         Apart(b, e), Apart(b, f), Apart(c, d), Apart(c, e), Apart(c, f), Apart(d, e), Apart(d, f),
         Apart(e, f)
  PROVE  /\ Proper(StructOf(n, <<a, b, c, d, e, f>>))
         /\ (\A x \in {a, b, c, d, e, f} : Plain(x)) => Flat(StructOf(n, <<a, b, c, d, e, f>>))
<1> DEFINE q == <<a, b, c, d, e, f>>
<1>1. q \in Seq({a, b, c, d, e, f})
  OBVIOUS
<1>2. IsSeq(q)
  BY <1>1, SeqIsSeq
<1>3. DOMAIN q = 1 .. 6 /\ q[1] = a /\ q[2] = b /\ q[3] = c /\ q[4] = d /\ q[5] = e /\ q[6] = f
  OBVIOUS
<1> HIDE DEF q
<1>4. StructOf(n, q).fields = q
  BY DEF StructOf
<1>5. Proper(StructOf(n, q))
  BY <1>2, <1>3, <1>4 DEF Proper, Apart
<1> QED BY <1>3, <1>4, <1>5 DEF Flat, Plain, q

(* The arguments of every method are scalars, strings and maps. *)
LEMMA ArgTables ==
  /\ Flat(VaeDb_ping_args) /\ Flat(VaeDb_closeSession_args) /\ Flat(VaeDb_createInfo_args)
  /\ Flat(VaeDb_data_args) /\ Flat(VaeDb_get_args) /\ Flat(VaeDb_openSession_args) /\ Flat(VaeDb_resetSite_args)
  /\ Flat(VaeDb_structure_args) /\ Flat(VaeDb_sessionCacheGet_args) /\ Flat(VaeDb_sessionCacheSet_args)
  /\ Flat(VaeDb_sessionCacheDelete_args) /\ Flat(VaeDb_shortTermCacheGet_args)
  /\ Flat(VaeDb_shortTermCacheSet_args) /\ Flat(VaeDb_shortTermCacheDelete_args)
  /\ Flat(VaeDb_longTermCacheGet_args) /\ Flat(VaeDb_longTermCacheSet_args)
  /\ Flat(VaeDb_longTermCacheDelete_args) /\ Flat(VaeDb_longTermCacheEmpty_args)
  /\ Flat(VaeDb_longTermCacheSweeperInfo_args) /\ Flat(VaeDb_sitewideLock_args)
  /\ Flat(VaeDb_sitewideUnlock_args) /\ Flat(VaeRubyd_ping_args) /\ Flat(VaeRubyd_fixDocRoot_args)
  /\ Flat(VaeRubyd_haml_args) /\ Flat(VaeRubyd_sass_args) /\ Flat(VaeRubyd_scss_args)
<1>1. Flat(VaeDb_ping_args)
  BY Proper_0 DEF VaeDb_ping_args
<1>2. Flat(VaeDb_closeSession_args)
  BY FieldOf, Proper_2 DEF VaeDb_closeSession_args, Apart, Plain
<1>3. Flat(VaeDb_createInfo_args)
  BY FieldOf, Proper_3 DEF VaeDb_createInfo_args, Apart, Plain
<1>4. Flat(VaeDb_data_args)
  BY FieldOf, Proper_2 DEF VaeDb_data_args, Apart, Plain
<1>5. Flat(VaeDb_get_args)
  <2> DEFINE a == I32(1, "session_id")
             b == I32(2, "response_id")
             c == String(3, "query")
             d == Map(4, "options")
  <2>1. /\ a.id = 1 /\ b.id = 2 /\ c.id = 3 /\ d.id = 4
        /\ a.name = "session_id" /\ b.name = "response_id" /\ c.name = "query" /\ d.name = "options"
    BY DEF I32, Map, String, Field
  <2>2. \A x \in {a, b, c, d} : Plain(x)
    BY DEF Plain, I32, Map, String, Field
  <2>3. VaeDb_get_args = StructOf("VaeDb_get_args", <<a, b, c, d>>)
    BY DEF VaeDb_get_args
  <2> HIDE DEF a, b, c, d
  <2>4. /\ Apart(a, b) /\ Apart(a, c) /\ Apart(a, d) /\ Apart(b, c) /\ Apart(b, d) /\ Apart(c, d)
    BY <2>1 DEF Apart
  <2> QED BY <2>2, <2>3, <2>4, Proper_4
<1>6. Flat(VaeDb_openSession_args)
  <2> DEFINE a == String(1, "site")
             b == String(2, "secret_key")
             c == Bool(3, "staging_mode")
             d == I32(4, "suggested_session_id")
  <2>1. /\ a.id = 1 /\ b.id = 2 /\ c.id = 3 /\ d.id = 4
        /\ a.name = "site" /\ b.name = "secret_key" /\ c.name = "staging_mode"
        /\ d.name = "suggested_session_id"
    BY DEF Bool, I32, String, Field
  <2>2. \A x \in {a, b, c, d} : Plain(x)
    BY DEF Plain, Bool, I32, String, Field
  <2>3. VaeDb_openSession_args = StructOf("VaeDb_openSession_args", <<a, b, c, d>>)
    BY DEF VaeDb_openSession_args
  <2> HIDE DEF a, b, c, d
  <2>4. /\ Apart(a, b) /\ Apart(a, c) /\ Apart(a, d) /\ Apart(b, c) /\ Apart(b, d) /\ Apart(c, d)
    BY <2>1 DEF Apart
  <2> QED BY <2>2, <2>3, <2>4, Proper_4
<1>7. Flat(VaeDb_resetSite_args)
  BY FieldOf, Proper_2 DEF VaeDb_resetSite_args, Apart, Plain
<1>8. Flat(VaeDb_structure_args)
  BY FieldOf, Proper_2 DEF VaeDb_structure_args, Apart, Plain
<1>9. Flat(VaeDb_sessionCacheGet_args)
  BY FieldOf, Proper_2 DEF VaeDb_sessionCacheGet_args, Apart, Plain
<1>10. Flat(VaeDb_sessionCacheSet_args)
  BY FieldOf, Proper_3 DEF VaeDb_sessionCacheSet_args, Apart, Plain
<1>11. Flat(VaeDb_sessionCacheDelete_args)
  BY FieldOf, Proper_2 DEF VaeDb_sessionCacheDelete_args, Apart, Plain
<1>12. Flat(VaeDb_shortTermCacheGet_args)
  BY FieldOf, Proper_3 DEF VaeDb_shortTermCacheGet_args, Apart, Plain
<1>13. Flat(VaeDb_shortTermCacheSet_args)
  <2> DEFINE a == I32(1, "session_id")
             b == String(2, "key")
             c == String(3, "value")
             d == I32(4, "flags")
             e == I32(5, "expireInterval")
  <2>1. /\ a.id = 1 /\ b.id = 2 /\ c.id = 3 /\ d.id = 4 /\ e.id = 5
        /\ a.name = "session_id" /\ b.name = "key" /\ c.name = "value"
        /\ d.name = "flags" /\ e.name = "expireInterval"
    BY DEF I32, String, Field
  <2>2. \A x \in {a, b, c, d, e} : Plain(x)
    BY DEF Plain, I32, String, Field
  <2>3. VaeDb_shortTermCacheSet_args = StructOf("VaeDb_shortTermCacheSet_args", <<a, b, c, d, e>>)
    BY DEF VaeDb_shortTermCacheSet_args
  <2> HIDE DEF a, b, c, d, e
  <2>4. /\ Apart(a, b) /\ Apart(a, c) /\ Apart(a, d) /\ Apart(a, e) /\ Apart(b, c) /\ Apart(b, d)
        /\ Apart(b, e) /\ Apart(c, d) /\ Apart(c, e) /\ Apart(d, e)
    BY <2>1 DEF Apart
  <2> QED BY <2>2, <2>3, <2>4, Proper_5
<1>14. Flat(VaeDb_shortTermCacheDelete_args)
  BY FieldOf, Proper_2 DEF VaeDb_shortTermCacheDelete_args, Apart, Plain
<1>15. Flat(VaeDb_longTermCacheGet_args)
  <2> DEFINE a == I32(1, "session_id")
             b == String(2, "key")
             c == I32(3, "renewExpiry")
             d == I32(4, "useShortTermCache")
  <2>1. /\ a.id = 1 /\ b.id = 2 /\ c.id = 3 /\ d.id = 4
        /\ a.name = "session_id" /\ b.name = "key" /\ c.name = "renewExpiry" /\ d.name = "useShortTermCache"
    BY DEF I32, String, Field
  <2>2. \A x \in {a, b, c, d} : Plain(x)
    BY DEF Plain, I32, String, Field
  <2>3. VaeDb_longTermCacheGet_args = StructOf("VaeDb_longTermCacheGet_args", <<a, b, c, d>>)
    BY DEF VaeDb_longTermCacheGet_args
  <2> HIDE DEF a, b, c, d
  <2>4. /\ Apart(a, b) /\ Apart(a, c) /\ Apart(a, d) /\ Apart(b, c) /\ Apart(b, d) /\ Apart(c, d)
    BY <2>1 DEF Apart
  <2> QED BY <2>2, <2>3, <2>4, Proper_4
<1>16. Flat(VaeDb_longTermCacheSet_args)
  <2> DEFINE a == I32(1, "session_id")
             b == String(2, "key")
             c == String(3, "value")
             d == I32(4, "expireInterval")
             e == I32(5, "isFilename")
  <2>1. /\ a.id = 1 /\ b.id = 2 /\ c.id = 3 /\ d.id = 4 /\ e.id = 5
        /\ a.name = "session_id" /\ b.name = "key" /\ c.name = "value"
        /\ d.name = "expireInterval" /\ e.name = "isFilename"
    BY DEF I32, String, Field
  <2>2. \A x \in {a, b, c, d, e} : Plain(x)
    BY DEF Plain, I32, String, Field
  <2>3. VaeDb_longTermCacheSet_args = StructOf("VaeDb_longTermCacheSet_args", <<a, b, c, d, e>>)
    BY DEF VaeDb_longTermCacheSet_args
  <2> HIDE DEF a, b, c, d, e
  <2>4. /\ Apart(a, b) /\ Apart(a, c) /\ Apart(a, d) /\ Apart(a, e) /\ Apart(b, c) /\ Apart(b, d)
        /\ Apart(b, e) /\ Apart(c, d) /\ Apart(c, e) /\ Apart(d, e)
    BY <2>1 DEF Apart
  <2> QED BY <2>2, <2>3, <2>4, Proper_5
<1>17. Flat(VaeDb_longTermCacheDelete_args)
  BY FieldOf, Proper_2 DEF VaeDb_longTermCacheDelete_args, Apart, Plain
<1>18. Flat(VaeDb_longTermCacheEmpty_args)
  BY FieldOf, Proper_1 DEF VaeDb_longTermCacheEmpty_args, Plain
<1>19. Flat(VaeDb_longTermCacheSweeperInfo_args)
  BY FieldOf, Proper_1 DEF VaeDb_longTermCacheSweeperInfo_args, Plain
<1>20. Flat(VaeDb_sitewideLock_args)
  BY FieldOf, Proper_1 DEF VaeDb_sitewideLock_args, Plain
<1>21. Flat(VaeDb_sitewideUnlock_args)
  BY FieldOf, Proper_1 DEF VaeDb_sitewideUnlock_args, Plain
<1>22. Flat(VaeRubyd_ping_args)
  BY Proper_0 DEF VaeRubyd_ping_args
<1>23. Flat(VaeRubyd_fixDocRoot_args)
  BY FieldOf, Proper_1 DEF VaeRubyd_fixDocRoot_args, Plain
<1>24. Flat(VaeRubyd_haml_args)
  BY FieldOf, Proper_1 DEF VaeRubyd_haml_args, Plain
<1>25. Flat(VaeRubyd_sass_args)
  BY FieldOf, Proper_3 DEF VaeRubyd_sass_args, Apart, Plain
<1>26. Flat(VaeRubyd_scss_args)
  BY FieldOf, Proper_3 DEF VaeRubyd_scss_args, Apart, Plain
<1> QED BY <1>1, <1>2, <1>3, <1>4, <1>5, <1>6, <1>7, <1>8, <1>9, <1>10, <1>11, <1>12, <1>13, <1>14, <1>15,
       <1>16, <1>17, <1>18, <1>19, <1>20, <1>21, <1>22, <1>23, <1>24, <1>25, <1>26

LEMMA Nested_0 ==
  ASSUME NEW n
  PROVE  LET T == StructOf(n, <<>>)
         IN  /\ Names(T) = {}
             /\ Proper3(T)
<1> DEFINE q == <<>>
           T == StructOf(n, q)
<1>1. Proper(T)
  BY Proper_0
<1>2. DOMAIN q = {}
  OBVIOUS
<1>3. T.fields = q
  BY DEF StructOf
<1> HIDE DEF q, T
<1>4. Fields(T) = {}
  BY <1>2, <1>3 DEF Fields
<1>5. Names(T) = {}
  BY <1>4 DEF Names
<1> QED BY <1>1, <1>2, <1>3, <1>5 DEF Proper3, T, q

LEMMA Nested_1 ==
  ASSUME NEW n, NEW a
  PROVE  LET T == StructOf(n, <<a>>)
         IN  /\ Names(T) = {a.name}
             /\ (\A x \in {a} : x.of = NoStruct \/ Proper(x.of)) => Proper1(T)
             /\ (\A x \in {a} : x.of = NoStruct \/ Proper1(x.of)) => Proper2(T)
             /\ (\A x \in {a} : x.of = NoStruct \/ Proper2(x.of)) => Proper3(T)
<1> DEFINE q == <<a>>
           T == StructOf(n, q)
<1>1. Proper(T)
  BY Proper_1
<1>2. DOMAIN q = 1 .. 1 /\ q[1] = a
  OBVIOUS
<1>3. T.fields = q
  BY DEF StructOf
<1> HIDE DEF q, T
<1>4. Fields(T) = {a}
  BY <1>2, <1>3 DEF Fields
<1>5. Names(T) = {a.name}
  BY <1>4 DEF Names
<1>6. \A i \in DOMAIN T.fields : T.fields[i] \in {a}
  BY <1>2, <1>3
<1> QED BY <1>1, <1>5, <1>6 DEF Proper1, Proper2, Proper3, T, q

LEMMA Nested_2 ==
  ASSUME NEW n, NEW a, NEW b, Apart(a, b)
  PROVE  LET T == StructOf(n, <<a, b>>)
         IN  /\ Names(T) = {a.name, b.name}
             /\ (\A x \in {a, b} : x.of = NoStruct \/ Proper(x.of)) => Proper1(T)
             /\ (\A x \in {a, b} : x.of = NoStruct \/ Proper1(x.of)) => Proper2(T)
             /\ (\A x \in {a, b} : x.of = NoStruct \/ Proper2(x.of)) => Proper3(T)
<1> DEFINE q == <<a, b>>
           T == StructOf(n, q)
<1>1. Proper(T)
  BY Proper_2
<1>2. DOMAIN q = 1 .. 2 /\ q[1] = a /\ q[2] = b
  OBVIOUS
<1>3. T.fields = q
  BY DEF StructOf
<1> HIDE DEF q, T
<1>4. Fields(T) = {a, b}
  BY <1>2, <1>3 DEF Fields
<1>5. Names(T) = {a.name, b.name}
  BY <1>4 DEF Names
<1>6. \A i \in DOMAIN T.fields : T.fields[i] \in {a, b}
  BY <1>2, <1>3
<1> QED BY <1>1, <1>5, <1>6 DEF Proper1, Proper2, Proper3, T, q

LEMMA Nested_3 ==
  ASSUME NEW n, NEW a, NEW b, NEW c, Apart(a, b), Apart(a, c), Apart(b, c)
  PROVE  LET T == StructOf(n, <<a, b, c>>)
         IN  /\ Names(T) = {a.name, b.name, c.name}
             /\ (\A x \in {a, b, c} : x.of = NoStruct \/ Proper(x.of)) => Proper1(T)
             /\ (\A x \in {a, b, c} : x.of = NoStruct \/ Proper1(x.of)) => Proper2(T)
             /\ (\A x \in {a, b, c} : x.of = NoStruct \/ Proper2(x.of)) => Proper3(T)
<1> DEFINE q == <<a, b, c>>
           T == StructOf(n, q)
<1>1. Proper(T)
  BY Proper_3
<1>2. DOMAIN q = 1 .. 3 /\ q[1] = a /\ q[2] = b /\ q[3] = c
  OBVIOUS
<1>3. T.fields = q
  BY DEF StructOf
<1> HIDE DEF q, T
<1>4. Fields(T) = {a, b, c}
  BY <1>2, <1>3 DEF Fields
<1>5. Names(T) = {a.name, b.name, c.name}
  BY <1>4 DEF Names
<1>6. \A i \in DOMAIN T.fields : T.fields[i] \in {a, b, c}
  BY <1>2, <1>3
<1> QED BY <1>1, <1>5, <1>6 DEF Proper1, Proper2, Proper3, T, q

LEMMA FlatIsDeep == ASSUME NEW T, Flat(T) PROVE Proper(T) /\ Proper1(T) /\ Proper2(T)
BY DEF Flat, Proper1, Proper2

(* The structs of vae_types.cpp that hold no struct. *)
LEMMA FlatStructs ==
  /\ Flat(VaeDbInternalError) /\ Flat(VaeDbQueryError) /\ Flat(VaeSyntaxError) /\ Flat(VaeDbContext)
  /\ Flat(VaeDbCreateInfo) /\ Flat(VaeDbStructure) /\ Flat(VaeDbDataForContext)
  /\ Flat(VaeDbOpenSessionResponse)
<1>1. Flat(VaeDbInternalError)
  BY FieldOf, Proper_1 DEF VaeDbInternalError, Plain
<1>2. Flat(VaeDbQueryError)
  BY FieldOf, Proper_1 DEF VaeDbQueryError, Plain
<1>3. Flat(VaeSyntaxError)
  BY FieldOf, Proper_1 DEF VaeSyntaxError, Plain
<1>4. Flat(VaeDbContext)
  <2> DEFINE a == I32(1, "id")
             b == I32(2, "structure_id")
             c == String(3, "type")
             d == String(4, "permalink")
             e == String(5, "data")
             f == Map(6, "dataMap")
  <2>1. /\ a.id = 1 /\ b.id = 2 /\ c.id = 3 /\ d.id = 4 /\ e.id = 5 /\ f.id = 6
        /\ a.name = "id" /\ b.name = "structure_id" /\ c.name = "type"
        /\ d.name = "permalink" /\ e.name = "data" /\ f.name = "dataMap"
    BY DEF I32, Map, String, Field
  <2>2. \A x \in {a, b, c, d, e, f} : Plain(x)
    BY DEF Plain, I32, Map, String, Field
  <2>3. VaeDbContext = StructOf("VaeDbContext", <<a, b, c, d, e, f>>)
    BY DEF VaeDbContext
  <2> HIDE DEF a, b, c, d, e, f
  <2>4. /\ Apart(a, b) /\ Apart(a, c) /\ Apart(a, d) /\ Apart(a, e) /\ Apart(a, f) /\ Apart(b, c)
        /\ Apart(b, d) /\ Apart(b, e) /\ Apart(b, f) /\ Apart(c, d) /\ Apart(c, e) /\ Apart(c, f)
        /\ Apart(d, e) /\ Apart(d, f) /\ Apart(e, f)
    BY <2>1 DEF Apart
  <2> QED BY <2>2, <2>3, <2>4, Proper_6
<1>5. Flat(VaeDbCreateInfo)
  BY FieldOf, Proper_2 DEF VaeDbCreateInfo, Apart, Plain
<1>6. Flat(VaeDbStructure)
  <2> DEFINE a == I32(1, "id")
             b == String(2, "name")
             c == String(3, "type")
             d == String(4, "permalink")
  <2>1. /\ a.id = 1 /\ b.id = 2 /\ c.id = 3 /\ d.id = 4
        /\ a.name = "id" /\ b.name = "name" /\ c.name = "type" /\ d.name = "permalink"
    BY DEF I32, String, Field
  <2>2. \A x \in {a, b, c, d} : Plain(x)
    BY DEF Plain, I32, String, Field
  <2>3. VaeDbStructure = StructOf("VaeDbStructure", <<a, b, c, d>>)
    BY DEF VaeDbStructure
  <2> HIDE DEF a, b, c, d
  <2>4. /\ Apart(a, b) /\ Apart(a, c) /\ Apart(a, d) /\ Apart(b, c) /\ Apart(b, d) /\ Apart(c, d)
    BY <2>1 DEF Apart
  <2> QED BY <2>2, <2>3, <2>4, Proper_4
<1>7. Flat(VaeDbDataForContext)
  BY FieldOf, Proper_1 DEF VaeDbDataForContext, Plain
<1>8. Flat(VaeDbOpenSessionResponse)
  BY FieldOf, Proper_2 DEF VaeDbOpenSessionResponse, Apart, Plain
<1> QED BY <1>1, <1>2, <1>3, <1>4, <1>5, <1>6, <1>7, <1>8

(* The structs that hold others. *)
LEMMA NestedStructs ==
  /\ Proper2(VaeDbResponse) /\ Proper2(VaeDbCreateInfoResponse)
  /\ Proper2(VaeDbDataResponse) /\ Proper2(VaeDbStructureResponse)
<1>1. Proper1(VaeDbResponseForContext)
  BY FieldOf, Nested_2, FlatStructs, FlatIsDeep DEF VaeDbResponseForContext, Apart
<1>2. Proper2(VaeDbResponse)
  BY <1>1, FieldOf, Nested_2 DEF VaeDbResponse, Apart
<1>3. Proper2(VaeDbCreateInfoResponse)
  BY FlatStructs, FlatIsDeep, FieldOf, Nested_1 DEF VaeDbCreateInfoResponse
<1>4. Proper2(VaeDbDataResponse)
  BY FlatStructs, FlatIsDeep, FieldOf, Nested_1 DEF VaeDbDataResponse
<1>5. Proper2(VaeDbStructureResponse)
  BY FlatStructs, FlatIsDeep, FieldOf, Nested_1 DEF VaeDbStructureResponse
<1> QED BY <1>2, <1>3, <1>4, <1>5

(* The results: at most three fields, none with a name that stands for another outcome. *)
LEMMA ResultTables ==
  /\ ResultTable(VaeDb_ping_result) /\ ResultTable(VaeDb_closeSession_result)
  /\ ResultTable(VaeDb_createInfo_result) /\ ResultTable(VaeDb_data_result) /\ ResultTable(VaeDb_get_result)
  /\ ResultTable(VaeDb_openSession_result) /\ ResultTable(VaeDb_resetSite_result)
  /\ ResultTable(VaeDb_structure_result) /\ ResultTable(VaeDb_sessionCacheGet_result)
  /\ ResultTable(VaeDb_sessionCacheSet_result) /\ ResultTable(VaeDb_sessionCacheDelete_result)
  /\ ResultTable(VaeDb_shortTermCacheGet_result) /\ ResultTable(VaeDb_shortTermCacheSet_result)
  /\ ResultTable(VaeDb_shortTermCacheDelete_result) /\ ResultTable(VaeDb_longTermCacheGet_result)
  /\ ResultTable(VaeDb_longTermCacheSet_result) /\ ResultTable(VaeDb_longTermCacheDelete_result)
  /\ ResultTable(VaeDb_longTermCacheEmpty_result) /\ ResultTable(VaeDb_longTermCacheSweeperInfo_result)
  /\ ResultTable(VaeDb_sitewideLock_result) /\ ResultTable(VaeDb_sitewideUnlock_result)
  /\ ResultTable(VaeRubyd_ping_result) /\ ResultTable(VaeRubyd_fixDocRoot_result)
  /\ ResultTable(VaeRubyd_haml_result) /\ ResultTable(VaeRubyd_sass_result) /\ ResultTable(VaeRubyd_scss_result)
<1>1. ResultTable(VaeDb_ping_result)
  BY FieldOf, Nested_1 DEF ResultTable, VaeDb_ping_result
<1>2. ResultTable(VaeDb_closeSession_result)
  BY FlatStructs, FlatIsDeep, FieldOf, Nested_1 DEF ResultTable, VaeDb_closeSession_result
<1>3. ResultTable(VaeDb_createInfo_result)
  BY FlatStructs, FlatIsDeep, NestedStructs, FieldOf, Nested_3 DEF ResultTable, VaeDb_createInfo_result, Apart
<1>4. ResultTable(VaeDb_data_result)
  BY FlatStructs, FlatIsDeep, NestedStructs, FieldOf, Nested_2 DEF ResultTable, VaeDb_data_result, Apart
<1>5. ResultTable(VaeDb_get_result)
  BY FlatStructs, FlatIsDeep, NestedStructs, FieldOf, Nested_3 DEF ResultTable, VaeDb_get_result, Apart
<1>6. ResultTable(VaeDb_openSession_result)
  BY FlatStructs, FlatIsDeep, FieldOf, Nested_2 DEF ResultTable, VaeDb_openSession_result, Apart
<1>7. ResultTable(VaeDb_resetSite_result)
  BY FlatStructs, FlatIsDeep, FieldOf, Nested_1 DEF ResultTable, VaeDb_resetSite_result
<1>8. ResultTable(VaeDb_structure_result)
  BY FlatStructs, FlatIsDeep, NestedStructs, FieldOf, Nested_2 DEF ResultTable, VaeDb_structure_result, Apart
<1>9. ResultTable(VaeDb_sessionCacheGet_result)
  BY FieldOf, Nested_1 DEF ResultTable, VaeDb_sessionCacheGet_result
<1>10. ResultTable(VaeDb_sessionCacheSet_result)
  BY Nested_0 DEF ResultTable, VaeDb_sessionCacheSet_result
<1>11. ResultTable(VaeDb_sessionCacheDelete_result)
  BY Nested_0 DEF ResultTable, VaeDb_sessionCacheDelete_result
<1>12. ResultTable(VaeDb_shortTermCacheGet_result)
  BY FieldOf, Nested_1 DEF ResultTable, VaeDb_shortTermCacheGet_result
<1>13. ResultTable(VaeDb_shortTermCacheSet_result)
  BY Nested_0 DEF ResultTable, VaeDb_shortTermCacheSet_result
<1>14. ResultTable(VaeDb_shortTermCacheDelete_result)
  BY Nested_0 DEF ResultTable, VaeDb_shortTermCacheDelete_result
<1>15. ResultTable(VaeDb_longTermCacheGet_result)
  BY FieldOf, Nested_1 DEF ResultTable, VaeDb_longTermCacheGet_result
<1>16. ResultTable(VaeDb_longTermCacheSet_result)
  BY Nested_0 DEF ResultTable, VaeDb_longTermCacheSet_result
<1>17. ResultTable(VaeDb_longTermCacheDelete_result)
  BY Nested_0 DEF ResultTable, VaeDb_longTermCacheDelete_result
<1>18. ResultTable(VaeDb_longTermCacheEmpty_result)
  BY Nested_0 DEF ResultTable, VaeDb_longTermCacheEmpty_result
<1>19. ResultTable(VaeDb_longTermCacheSweeperInfo_result)
  BY FlatStructs, FlatIsDeep, FieldOf, Nested_1 DEF ResultTable, VaeDb_longTermCacheSweeperInfo_result
<1>20. ResultTable(VaeDb_sitewideLock_result)
  BY FieldOf, Nested_1 DEF ResultTable, VaeDb_sitewideLock_result
<1>21. ResultTable(VaeDb_sitewideUnlock_result)
  BY FieldOf, Nested_1 DEF ResultTable, VaeDb_sitewideUnlock_result
<1>22. ResultTable(VaeRubyd_ping_result)
  BY FieldOf, Nested_1 DEF ResultTable, VaeRubyd_ping_result
<1>23. ResultTable(VaeRubyd_fixDocRoot_result)
  BY FieldOf, Nested_1 DEF ResultTable, VaeRubyd_fixDocRoot_result
<1>24. ResultTable(VaeRubyd_haml_result)
  BY FlatStructs, FlatIsDeep, FieldOf, Nested_2 DEF ResultTable, VaeRubyd_haml_result, Apart
<1>25. ResultTable(VaeRubyd_sass_result)
  BY FlatStructs, FlatIsDeep, FieldOf, Nested_2 DEF ResultTable, VaeRubyd_sass_result, Apart
<1>26. ResultTable(VaeRubyd_scss_result)
  BY FlatStructs, FlatIsDeep, FieldOf, Nested_2 DEF ResultTable, VaeRubyd_scss_result, Apart
<1> QED BY <1>1, <1>2, <1>3, <1>4, <1>5, <1>6, <1>7, <1>8, <1>9, <1>10, <1>11, <1>12, <1>13, <1>14, <1>15,
       <1>16, <1>17, <1>18, <1>19, <1>20, <1>21, <1>22, <1>23, <1>24, <1>25, <1>26

-----------------------------------------------------------------------------
(* What is under way is written from the tables of the service.             *)

(* A call holds, for the read() of its method, what its caller gave. *)
Carries(m, s) == m.fname \in MethodsOf(s) => Read(ArgsOf(s, m.fname), m.wire) = m.given

(* A reply tells what the run did: a result to the recv_ of its method, a   *)
(* T_EXCEPTION to any.                                                      *)
Reports(r, s) ==
  \/ r.mtype = "T_EXCEPTION" /\ r.run.tells = Ended("TApplicationException", Unset)
  \/ /\ r.mtype = "T_REPLY" /\ r.fname \in MethodsOf(s)
     /\ Decode(ResultsOf(s, r.fname), r.wire) = r.run.tells

WireInv(c) ==
  /\ client[c].pc = "closed" => replies[c] = <<>>
  /\ \A i \in DOMAIN calls[c] : Carries(calls[c][i], client[c].service)
  /\ \A i \in DOMAIN replies[c] : Reports(replies[c][i], client[c].service)
  /\ server[c].pc = "handling" => server[c].args = server[c].given
  /\ got[c] # Unset => got[c].end = got[c].run.tells

CodecInv == \A c \in Clients : WireInv(c)

LEMMA MethodTables ==
  ASSUME NEW s, NEW m \in MethodsOf(s)
  PROVE  Flat(ArgsOf(s, m)) /\ ResultTable(ResultsOf(s, m))
<1>1. ASSUME NEW n \in VaeDbMethods PROVE Flat(VaeDbArgs[n]) /\ ResultTable(VaeDbResults[n])
  BY <1>1, ArgTables, ResultTables DEF VaeDbMethods, VaeDbArgs, VaeDbResults
<1>2. ASSUME NEW n \in VaeRubydMethods PROVE Flat(VaeRubydArgs[n]) /\ ResultTable(VaeRubydResults[n])
  BY <1>2, ArgTables, ResultTables DEF VaeRubydMethods, VaeRubydArgs, VaeRubydResults
<1> QED BY <1>1, <1>2 DEF MethodsOf, ArgsOf, ResultsOf

(* A step that leaves a connection alone, and a step of one connection. *)
LEMMA SameWire ==
  ASSUME NEW c \in Clients, WireInv(c), client'[c] = client[c], server'[c] = server[c], calls'[c] = calls[c],
         replies'[c] = replies[c], got'[c] = got[c]
  PROVE  WireInv(c)'
BY DEF WireInv

LEMMA OneWire == ASSUME CodecInv, NEW c \in Clients, OnlyTouches(c), WireInv(c)' PROVE CodecInv'
<1>1. ASSUME NEW x \in Clients PROVE WireInv(x)'
  <2>1. CASE x = c
    BY <2>1
  <2>2. CASE x # c
    BY <2>2, SameWire DEF CodecInv, OnlyTouches
  <2> QED BY <2>1, <2>2
<1> QED BY <1>1 DEF CodecInv

LEMMA ConnectWire == ASSUME RpcInv, CodecInv, NEW c \in Clients, NEW s \in Services, Connect(c, s) PROVE CodecInv'
<1>1. Tables /\ WireInv(c) /\ client[c].pc = "closed"
  BY DEF RpcInv, CodecInv, Connect, Open
<1>2. OnlyTouches(c)
  BY <1>1 DEF OnlyTouches, Tables, Connect
<1>3. /\ server'[c].pc = "queued" /\ calls'[c] = <<>> /\ replies'[c] = <<>> /\ got'[c] = got[c]
  BY <1>1 DEF WireInv, Tables, Connect, Queued, NotServed
<1>4. WireInv(c)'
  BY <1>1, <1>3 DEF WireInv
<1> QED BY <1>2, <1>4, OneWire

LEMMA CloseWire == ASSUME RpcInv, CodecInv, NEW c \in Clients, CloseSocket(c) PROVE CodecInv'
<1>1. Tables /\ WireInv(c)
  BY DEF RpcInv, CodecInv
<1>2. OnlyTouches(c)
  BY <1>1, Zenon DEF OnlyTouches, Tables, CloseSocket
<1>3. /\ client'[c].service = client[c].service /\ server'[c] = server[c] /\ calls'[c] = calls[c]
      /\ replies'[c] = <<>> /\ got'[c] = Unset
  BY <1>1, Zenon DEF Tables, CloseSocket
<1>4. WireInv(c)'
  BY <1>1, <1>3 DEF WireInv
<1> QED BY <1>2, <1>4, OneWire

LEMMA TimeoutWire == ASSUME RpcInv, CodecInv, NEW c \in Clients, Timeout(c) PROVE CodecInv'
<1>1. CASE CloseSocket(c)
  BY <1>1, CloseWire
<1>2. CASE /\ client' = [client EXCEPT ![c].pc = "idle"]
           /\ UNCHANGED <<server, calls, replies, accepted, got>>
  <2>1. Tables /\ WireInv(c) /\ client[c] \in ClientRecord
    BY DEF RpcInv, LinkInv, Row, CodecInv
  <2>2. OnlyTouches(c)
    BY <1>2, <2>1 DEF OnlyTouches, Tables
  <2>3. client'[c].pc = "idle" /\ client'[c].service = client[c].service
    BY <1>2, <2>1 DEF Tables, ClientRecord
  <2>4. WireInv(c)'
    BY <1>2, <2>1, <2>3 DEF WireInv
  <2> QED BY <2>2, <2>4, OneWire
<1> QED BY <1>1, <1>2 DEF Timeout

LEMMA ThreadWire ==
  ASSUME RpcInv, CodecInv, NEW d, NEW v, v.pc # "handling", server' = [server EXCEPT ![d] = v],
         UNCHANGED <<client, calls, replies, got>>
  PROVE  CodecInv'
<1>1. ASSUME NEW x \in Clients PROVE WireInv(x)'
  <2>1. WireInv(x) /\ DOMAIN server = Clients
    BY DEF RpcInv, CodecInv, Tables
  <2>2. server'[x] = server[x] \/ server'[x].pc # "handling"
    BY <2>1
  <2> QED BY <2>1, <2>2 DEF WireInv
<1> QED BY <1>1 DEF CodecInv

LEMMA RestartWire == ASSUME CodecInv, NEW s \in Services, Restart(s) PROVE CodecInv'
<1>1. ASSUME NEW x \in Clients PROVE WireInv(x)'
  <2>1. WireInv(x) /\ client'[x] = client[x] /\ got'[x] = got[x]
    BY DEF CodecInv, Restart
  <2>2. \/ server'[x] = server[x] /\ calls'[x] = calls[x] /\ replies'[x] = replies[x]
        \/ server'[x] = NotServed /\ calls'[x] = <<>> /\ replies'[x] \in {replies[x], <<>>}
    BY DEF Restart
  <2>3. CASE server'[x] = NotServed /\ calls'[x] = <<>> /\ replies'[x] \in {replies[x], <<>>}
    <3>1. NotServed.pc = "none"
      BY DEF NotServed
    <3>2. server'[x].pc # "handling"
      BY <2>3, <3>1
    <3> QED BY <2>1, <2>3, <3>2 DEF WireInv
  <2> QED BY <2>1, <2>2, <2>3, SameWire
<1> QED BY <1>1 DEF CodecInv

(* A call is written from the table its method is read with, in any version *)
(* of vae.thrift.                                                           *)
LEMMA SendWire ==
  ASSUME RpcInv, CodecInv, NEW c \in Clients, NEW s, NEW method, NEW A, NEW R,
         Offers(s, method, A, R) \/ method \notin MethodsOf(s), NEW d \in Dialects[c], Send(c, s, method, A, d)
  PROVE  CodecInv'
<1> DEFINE call == 1 - client[c].call
           m == [fname |-> method, wire |-> InDialect(Write(A, Fill(A, call)), d),
                 given |-> Given(A, call, d), call |-> call]
<1>1. Tables /\ WireInv(c) /\ client[c].pc = "idle" /\ client[c].service = s /\ IsSeq(calls[c])
  BY DEF RpcInv, CodecInv, LinkInv, Row, Send
<1>2. m.fname = method /\ m.wire = InDialect(Write(A, Fill(A, call)), d) /\ m.given = Given(A, call, d)
  OBVIOUS
<1>3. /\ client' = [client EXCEPT ![c] = [pc |-> "waiting", service |-> s, method |-> method, call |-> call]]
      /\ calls' = [calls EXCEPT ![c] = IF server[c].pc = "none" THEN @ ELSE Append(@, m)]
      /\ got' = [got EXCEPT ![c] = Unset]
      /\ UNCHANGED <<server, replies, accepted>>
      /\ d \in {"older", "retyped"} => A.fields # <<>>
  BY DEF Send
<1> HIDE DEF m
<1> HIDE DEF call
<1>4. OnlyTouches(c)
  BY <1>1, <1>3 DEF OnlyTouches, Tables
<1>5. /\ client'[c].pc = "waiting" /\ client'[c].service = s /\ got'[c] = Unset
      /\ calls'[c] \in {calls[c], Append(calls[c], m)}
      /\ server'[c] = server[c] /\ replies'[c] = replies[c]
  BY <1>1, <1>3 DEF Tables
<1>6. Carries(m, s)
  <2>1. CASE Offers(s, method, A, R)
    <3>1. Flat(A) /\ d \in {"same", "older", "newer", "retyped"}
      BY <2>1, MethodTables, RpcAssumption DEF Offers
    <3>2. Read(A, m.wire) = m.given
      BY <1>2, <1>3, <3>1, ArgsTrip
    <3> QED BY <1>2, <2>1, <3>2 DEF Carries, Offers
  <2>2. CASE method \notin MethodsOf(s)
    BY <1>2, <2>2 DEF Carries
  <2> QED BY <2>1, <2>2
<1>7. \A i \in DOMAIN calls'[c] : Carries(calls'[c][i], s)
  <2>1. \A i \in DOMAIN calls[c] : Carries(calls[c][i], s)
    BY <1>1 DEF WireInv
  <2>2. /\ Len(calls[c]) \in Nat /\ DOMAIN calls[c] = 1 .. Len(calls[c])
        /\ DOMAIN Append(calls[c], m) = 1 .. Len(calls[c]) + 1
        /\ \A i \in 1 .. Len(calls[c]) : Append(calls[c], m)[i] = calls[c][i]
        /\ Append(calls[c], m)[Len(calls[c]) + 1] = m
    BY <1>1, AppendIsSeq
  <2>3. \A i \in 1 .. Len(calls[c]) + 1 : i \in 1 .. Len(calls[c]) \/ i = Len(calls[c]) + 1
    BY <2>2
  <2>4. \A i \in DOMAIN Append(calls[c], m) : Carries(Append(calls[c], m)[i], s)
    BY <1>6, <2>1, <2>2, <2>3
  <2> QED BY <1>5, <2>1, <2>4
<1>8. WireInv(c)'
  BY <1>1, <1>5, <1>7 DEF WireInv
<1> QED BY <1>4, <1>8, OneWire

(* The recv_ of the method decodes what the reply reports. *)
LEMMA RecvWire ==
  ASSUME RpcInv, CodecInv, NEW c \in Clients, NEW s, NEW method, NEW A, NEW R,
         Offers(s, method, A, R) \/ method \notin MethodsOf(s), Recv(c, s, method, R)
  PROVE  CodecInv'
<1> DEFINE r == Head(replies[c])
           how == IF r.mtype = "T_EXCEPTION" THEN Ended("TApplicationException", Unset) ELSE Decode(R, r.wire)
<1>1. /\ Tables /\ WireInv(c) /\ client[c] \in ClientRecord /\ IsSeq(replies[c])
      /\ client[c].pc = "waiting" /\ client[c].service = s /\ replies[c] # <<>>
  BY DEF RpcInv, CodecInv, LinkInv, Row, Recv
<1>2. /\ Len(replies[c]) \in Nat \ {0} /\ DOMAIN replies[c] = 1 .. Len(replies[c])
      /\ r = replies[c][1] /\ DOMAIN Tail(replies[c]) = 1 .. Len(replies[c]) - 1
      /\ \A i \in 1 .. Len(replies[c]) - 1 : Tail(replies[c])[i] = replies[c][i + 1]
  BY <1>1, TailIsSeq
<1>3. \A i \in 1 .. Len(replies[c]) : Reports(replies[c][i], s)
  BY <1>1, <1>2 DEF WireInv
<1>4. \A i \in DOMAIN Tail(replies[c]) : Reports(Tail(replies[c])[i], s)
  <2> SUFFICES ASSUME NEW i \in 1 .. Len(replies[c]) - 1 PROVE Reports(Tail(replies[c])[i], s)
    BY <1>2
  <2>1. i + 1 \in 1 .. Len(replies[c]) /\ Tail(replies[c])[i] = replies[c][i + 1]
    BY <1>2
  <2> QED BY <1>3, <2>1
<1>5. Reports(r, s)
  BY <1>2, <1>3
<1>6. /\ replies' = [replies EXCEPT ![c] = Tail(@)]
      /\ UNCHANGED <<server, calls, accepted>>
      /\ \/ /\ r.mtype = "T_EXCEPTION" \/ r.fname = method
            /\ client' = [client EXCEPT ![c].pc = "idle"]
            /\ got' = [got EXCEPT ![c] = [run |-> r.run, end |-> how]]
         \/ /\ client' = [client EXCEPT ![c].pc = "skipping"]
            /\ UNCHANGED got
  BY DEF Recv, IsMine
<1>7. r.mtype = "T_EXCEPTION" \/ r.fname = method => how = r.run.tells
  BY <1>5 DEF Reports, Offers
<1> HIDE DEF how, r
<1>8. OnlyTouches(c)
  BY <1>1, <1>6 DEF OnlyTouches, Tables
<1>9. /\ client'[c].service = s /\ client'[c].pc # "closed" /\ server'[c] = server[c] /\ calls'[c] = calls[c]
      /\ replies'[c] = Tail(replies[c])
  BY <1>1, <1>6 DEF Tables, ClientRecord
<1>10. got'[c] = got[c] \/ got'[c].end = got'[c].run.tells
  BY <1>1, <1>6, <1>7 DEF Tables
<1>11. WireInv(c)'
  BY <1>1, <1>4, <1>9, <1>10 DEF WireInv
<1> QED BY <1>8, <1>11, OneWire

LEMMA ReadArgsWire ==
  ASSUME RpcInv, CodecInv, NEW c \in Clients, NEW s, NEW method, NEW A, NEW R, Offers(s, method, A, R),
         ReadArgs(c, s, method, A)
  PROVE  CodecInv'
<1> DEFINE m == Head(calls[c])
<1>1. /\ Tables /\ WireInv(c) /\ IsSeq(calls[c]) /\ calls[c] # <<>> /\ m.fname = method
      /\ client[c].service = s
  BY DEF RpcInv, CodecInv, LinkInv, Row, ReadArgs
<1>2. /\ Len(calls[c]) \in Nat \ {0} /\ DOMAIN calls[c] = 1 .. Len(calls[c])
      /\ m = calls[c][1] /\ DOMAIN Tail(calls[c]) = 1 .. Len(calls[c]) - 1
      /\ \A i \in 1 .. Len(calls[c]) - 1 : Tail(calls[c])[i] = calls[c][i + 1]
  BY <1>1, TailIsSeq
<1>3. \A i \in 1 .. Len(calls[c]) : Carries(calls[c][i], s)
  BY <1>1, <1>2 DEF WireInv
<1>4. \A i \in DOMAIN Tail(calls[c]) : Carries(Tail(calls[c])[i], s)
  <2> SUFFICES ASSUME NEW i \in 1 .. Len(calls[c]) - 1 PROVE Carries(Tail(calls[c])[i], s)
    BY <1>2
  <2>1. i + 1 \in 1 .. Len(calls[c]) /\ Tail(calls[c])[i] = calls[c][i + 1]
    BY <1>2
  <2> QED BY <1>3, <2>1
<1>5. Read(A, m.wire) = m.given
  <2>1. Carries(m, s)
    BY <1>2, <1>3
  <2> QED BY <1>1, <2>1 DEF Carries, Offers
<1> HIDE DEF m
<1>6. /\ server'[c].args = Read(A, m.wire) /\ server'[c].given = m.given
      /\ calls'[c] = Tail(calls[c]) /\ client'[c] = client[c] /\ replies'[c] = replies[c] /\ got'[c] = got[c]
  BY <1>1 DEF Tables, ReadArgs, m
<1>7. OnlyTouches(c)
  BY <1>1 DEF OnlyTouches, Tables, ReadArgs
<1>8. WireInv(c)'
  BY <1>1, <1>4, <1>5, <1>6 DEF WireInv
<1> QED BY <1>7, <1>8, OneWire

(* A message that reports its run is written, or nobody is there to read it. *)
LEMMA DeliverWire ==
  ASSUME RpcInv, CodecInv, NEW c \in Clients, NEW r, Reports(r, client[c].service), Deliver(c, <<r>>)
  PROVE  /\ DOMAIN replies' = Clients /\ \A x \in Clients \ {c} : replies'[x] = replies[x]
         /\ client[c].pc = "closed" => replies'[c] = <<>>
         /\ \A i \in DOMAIN replies'[c] : Reports(replies'[c][i], client[c].service)
<1> DEFINE s == client[c].service
<1>1. /\ Tables /\ WireInv(c) /\ IsSeq(replies[c])
      /\ \A i \in DOMAIN replies[c] : Reports(replies[c][i], s)
  BY DEF RpcInv, LinkInv, Row, CodecInv, WireInv
<1>2. replies[c] \o <<r>> = Append(replies[c], r)
  BY <1>1, ConcatOne
<1>3. /\ DOMAIN replies' = Clients /\ \A x \in Clients \ {c} : replies'[x] = replies[x]
      /\ replies'[c] = IF Open(c) THEN Append(replies[c], r) ELSE replies[c]
  BY <1>1, <1>2 DEF Deliver, Tables
<1>4. /\ Len(replies[c]) \in Nat /\ DOMAIN replies[c] = 1 .. Len(replies[c])
      /\ DOMAIN Append(replies[c], r) = 1 .. Len(replies[c]) + 1
      /\ \A i \in 1 .. Len(replies[c]) : Append(replies[c], r)[i] = replies[c][i]
      /\ Append(replies[c], r)[Len(replies[c]) + 1] = r
  BY <1>1, AppendIsSeq
<1>5. \A i \in 1 .. Len(replies[c]) + 1 : i \in 1 .. Len(replies[c]) \/ i = Len(replies[c]) + 1
  BY <1>4
<1>6. \A i \in DOMAIN Append(replies[c], r) : Reports(Append(replies[c], r)[i], s)
  BY <1>1, <1>4, <1>5
<1>7. \A i \in DOMAIN replies'[c] : Reports(replies'[c][i], s)
  BY <1>1, <1>3, <1>6
<1>8. client[c].pc = "closed" => replies'[c] = <<>>
  BY <1>1, <1>3 DEF Open, WireInv
<1> QED BY <1>3, <1>7, <1>8

(* What a run of the handler writes reports it, however it ends. *)
LEMMA AnswerReports ==
  ASSUME NEW s, NEW method, NEW A, NEW R, Offers(s, method, A, R), NEW outcome \in Outcomes(R), NEW call
  PROVE  \E r : Answers(R, method, outcome, call) = <<r>> /\ Reports(r, s)
<1> DEFINE tells == Tells(R, outcome, call)
           wire == WriteResult(R, SetBy(R, outcome), ResultOf(R, outcome, call))
           e == Message(method, "T_EXCEPTION", <<>>, call, tells)
           r == Message(method, "T_REPLY", wire, call, tells)
<1>1. CASE outcome = "std::exception"
  <2>1. Answers(R, method, outcome, call) = <<e>>
    BY <1>1 DEF Answers
  <2>2. e.mtype = "T_EXCEPTION" /\ e.run.tells = tells
    BY DEF Message
  <2>3. tells = Ended("TApplicationException", Unset)
    BY <1>1 DEF Tells
  <2> HIDE DEF e, tells
  <2> QED BY <2>1, <2>2, <2>3 DEF Reports
<1>2. CASE outcome # "std::exception"
  <2>1. Answers(R, method, outcome, call) = <<r>>
    BY <1>2 DEF Answers
  <2>2. r.mtype = "T_REPLY" /\ r.fname = method /\ r.wire = wire /\ r.run.tells = tells
    BY DEF Message
  <2>3. Decode(R, wire) = tells
    BY <1>2, MethodTables, ResultTrip DEF Offers
  <2> HIDE DEF r, tells, wire
  <2> QED BY <2>1, <2>2, <2>3 DEF Reports, Offers
<1> QED BY <1>1, <1>2

LEMMA AnswerWire ==
  ASSUME RpcInv, CodecInv, NEW c \in Clients, NEW s, NEW method, NEW A, NEW R, Offers(s, method, A, R),
         Answer(c, s, method, R)
  PROVE  CodecInv'
<1>1. PICK outcome \in Outcomes(R) : Deliver(c, Answers(R, method, outcome, server[c].call))
  BY DEF Answer
<1>2. PICK r : Answers(R, method, outcome, server[c].call) = <<r>> /\ Reports(r, s)
  BY AnswerReports
<1>3. Tables /\ WireInv(c) /\ client[c].service = s
  BY DEF RpcInv, CodecInv, Answer
<1>4. Serving.pc = "serving"
  BY DEF Serving, NotServed
<1>5. /\ UNCHANGED <<client, calls, got>> /\ DOMAIN server' = Clients /\ server'[c].pc = "serving"
      /\ \A x \in Clients \ {c} : server'[x] = server[x]
  BY <1>3, <1>4 DEF Tables, Answer
<1>6. Deliver(c, <<r>>) /\ Reports(r, client[c].service)
  BY <1>1, <1>2, <1>3
<1>7. /\ DOMAIN replies' = Clients /\ \A x \in Clients \ {c} : replies'[x] = replies[x]
      /\ client[c].pc = "closed" => replies'[c] = <<>>
      /\ \A i \in DOMAIN replies'[c] : Reports(replies'[c][i], client[c].service)
  BY <1>6, DeliverWire
<1>8. OnlyTouches(c)
  BY <1>3, <1>5, <1>7 DEF OnlyTouches, Tables
<1>9. WireInv(c)'
  BY <1>3, <1>5, <1>7 DEF WireInv
<1> QED BY <1>8, <1>9, OneWire

LEMMA UnknownWire ==
  ASSUME RpcInv, CodecInv, NEW c \in Clients, NEW s, NEW processMap, DispatchUnknown(c, s, processMap)
  PROVE  CodecInv'
<1> DEFINE m == Head(calls[c])
           r == Message(m.fname, "T_EXCEPTION", <<>>, m.call, Ended("TApplicationException", Unset))
<1>1. /\ Tables /\ WireInv(c) /\ IsSeq(calls[c]) /\ calls[c] # <<>> /\ server[c].pc = "serving"
      /\ Deliver(c, <<r>>) /\ calls' = [calls EXCEPT ![c] = Tail(@)] /\ UNCHANGED <<client, server, got>>
  BY DEF RpcInv, CodecInv, LinkInv, Row, DispatchUnknown
<1>2. Reports(r, client[c].service)
  <2>1. r.mtype = "T_EXCEPTION" /\ r.run.tells = Ended("TApplicationException", Unset)
    BY DEF Message
  <2> HIDE DEF r
  <2> QED BY <2>1 DEF Reports
<1> HIDE DEF r
<1>3. /\ DOMAIN replies' = Clients /\ \A x \in Clients \ {c} : replies'[x] = replies[x]
      /\ client[c].pc = "closed" => replies'[c] = <<>>
      /\ \A i \in DOMAIN replies'[c] : Reports(replies'[c][i], client[c].service)
  BY <1>1, <1>2, DeliverWire
<1>4. DOMAIN calls' = Clients /\ calls'[c] = Tail(calls[c]) /\ \A x \in Clients \ {c} : calls'[x] = calls[x]
  BY <1>1 DEF Tables
<1>5. OnlyTouches(c)
  BY <1>1, <1>3, <1>4 DEF OnlyTouches, Tables
<1>6. \A i \in DOMAIN Tail(calls[c]) : Carries(Tail(calls[c])[i], client[c].service)
  <2>1. /\ Len(calls[c]) \in Nat \ {0} /\ DOMAIN calls[c] = 1 .. Len(calls[c])
        /\ DOMAIN Tail(calls[c]) = 1 .. Len(calls[c]) - 1
        /\ \A i \in 1 .. Len(calls[c]) - 1 : Tail(calls[c])[i] = calls[c][i + 1]
    BY <1>1, TailIsSeq
  <2> SUFFICES ASSUME NEW i \in 1 .. Len(calls[c]) - 1 PROVE Carries(Tail(calls[c])[i], client[c].service)
    BY <2>1
  <2>2. i + 1 \in DOMAIN calls[c] /\ Tail(calls[c])[i] = calls[c][i + 1]
    BY <2>1
  <2> QED BY <1>1, <2>2 DEF WireInv
<1>7. WireInv(c)'
  BY <1>1, <1>3, <1>4, <1>6 DEF WireInv
<1> QED BY <1>5, <1>7, OneWire

LEMMA CodecInit == Init => CodecInv
<1> SUFFICES ASSUME Init, NEW c \in Clients PROVE WireInv(c)
  BY DEF CodecInv
<1>1. calls[c] = <<>> /\ replies[c] = <<>> /\ got[c] = Unset /\ server[c] = NotServed
  BY DEF Init
<1>2. NotServed.pc = "none"
  BY DEF NotServed
<1> QED BY <1>1, <1>2 DEF WireInv

LEMMA CodecStep == RpcInv /\ CodecInv /\ [Next]_vars => CodecInv'
<1> SUFFICES ASSUME RpcInv, CodecInv, [Next]_vars PROVE CodecInv'
  OBVIOUS
<1>1. ASSUME NEW c \in Clients, NEW s \in Services, Connect(c, s) PROVE CodecInv'
  BY <1>1, ConnectWire
<1>2. ASSUME NEW c \in Clients, Client(c) PROVE CodecInv'
  <2>1. PICK s, method, A, R : /\ Offers(s, method, A, R) \/ method \notin MethodsOf(s)
                               /\ Call(c, s, method, A, R)
    BY <1>2, ClientCalls, Zenon
  <2>2. ASSUME NEW d \in Dialects[c], Send(c, s, method, A, d) PROVE CodecInv'
    BY <2>1, <2>2, SendWire
  <2>3. ASSUME Recv(c, s, method, R) PROVE CodecInv'
    BY <2>1, <2>3, RecvWire
  <2> QED BY <2>1, <2>2, <2>3 DEF Call
<1>3. ASSUME NEW c \in Clients, Server(c) PROVE CodecInv'
  <2>1. ASSUME NEW s, NEW method, NEW A, NEW R, Offers(s, method, A, R), Process(c, s, method, A, R)
        PROVE  CodecInv'
    BY <2>1, ReadArgsWire, AnswerWire DEF Process
  <2>2. ASSUME NEW s, NEW processMap, DispatchUnknown(c, s, processMap) PROVE CodecInv'
    BY <2>2, UnknownWire
  <2> QED BY <1>3, <2>1, <2>2, ServerDispatches
<1>4. ASSUME NEW c \in Clients, Garbage(c) \/ EndOfFile(c) \/ Close(c) PROVE CodecInv'
  BY <1>4, CloseWire DEF Garbage, EndOfFile, Close
<1>5. ASSUME NEW c \in Clients, Timeout(c) PROVE CodecInv'
  BY <1>5, TimeoutWire
<1>6. ASSUME NEW c, NEW s, Assign(s) \/ PeerGone(c) PROVE CodecInv'
  <2>1. NotServed.pc = "none" /\ Serving.pc = "serving"
    BY DEF NotServed, Serving
  <2> QED BY <1>6, <2>1, ThreadWire DEF Assign, PeerGone
<1>7. ASSUME NEW s \in Services, Restart(s) PROVE CodecInv'
  BY <1>7, RestartWire
<1>8. CASE UNCHANGED vars
  BY <1>8, SameWire DEF CodecInv, vars
<1> QED BY <1>1, <1>2, <1>3, <1>4, <1>5, <1>6, <1>7, <1>8 DEF Next

(* Whatever is under way was written from the tables it will be read with.  *)
THEOREM CodecInvariant == Spec => []CodecInv
<1>1. Init => CodecInv
  BY CodecInit
<1>2. RpcInv /\ CodecInv /\ [Next]_vars => CodecInv'
  BY CodecStep
<1> QED BY <1>1, <1>2, RpcInvariant, PTL DEF Spec

(* The handler of every method of both services runs with the arguments of  *)
(* the call it answers, as far as its caller's version of vae.thrift has    *)
(* them, and finds the others as the constructor left them.                 *)
THEOREM ArgumentsArrive == Spec => []ArgsArrive
<1>1. CodecInv => ArgsArrive
  BY DEF CodecInv, WireInv, ArgsArrive
<1> QED BY <1>1, CodecInvariant, PTL

(* The caller of every method learns what its handler did: the value, also  *)
(* the default one, the declared exception, or a TApplicationException.     *)
THEOREM OutcomesArrive == Spec => []OutcomeArrives
<1>1. CodecInv => OutcomeArrives
  BY DEF CodecInv, WireInv, OutcomeArrives
<1> QED BY <1>1, CodecInvariant, PTL
=============================================================================
