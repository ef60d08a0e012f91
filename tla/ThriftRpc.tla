----------------------------- MODULE ThriftRpc -----------------------------
(***************************************************************************)
(* A call over Thrift: what the client and the processor that the compiler *)
(* generates do for a method, over the table of its arguments and of its   *)
(* result (ThriftCodec).  The modules of the two services instantiate      *)
(* Process and Call for each of their methods.                             *)
(*                                                                         *)
(* A client is a socket of a PHP, Ruby or C++ program.  A connection waits *)
(* until one of the threads of the server takes it and keeps that thread   *)
(* until the client closes it (TThreadPoolServer).  Calls and replies are  *)
(* two streams; seqid is 0 in every message and nobody compares it, so     *)
(* that only the order ties a reply to its call.                           *)
(*                                                                         *)
(* The caller may give up on a call (a receive timeout) and then closes    *)
(* the connection; the clients in Reusers go on using it.  The server may  *)
(* die and be restarted at any step.                                       *)
(*                                                                         *)
(* client[c].call numbers the calls of c modulo 2.  It, `given`, `run` and *)
(* `tells` are carried along for the properties only.                      *)
(***************************************************************************)
EXTENDS VaeTypes

CONSTANTS Clients,      \* sockets
          Services,     \* the names of the servers
          Workers,      \* threads of a server (--workers)
          Reusers,      \* the clients that keep a connection after a timeout
          Programs,     \* populations: client -> the <<service, method>> pairs it calls
          Dialects,     \* client -> the versions of vae.thrift it may be built from
          MaxPending    \* bound: calls of a connection on their way, there or back

ASSUME RpcAssumption ==
    /\ Services # {}
    /\ Workers \in Nat \ {0}
    /\ MaxPending \in Nat \ {0}
    /\ Reusers \subseteq Clients
    /\ Dialects \in [Clients -> SUBSET {"same", "older", "newer", "retyped"}]
    /\ \A p \in Programs : DOMAIN p = Clients

VARIABLES uses,     \* the population of this behaviour; it never changes
          client,   \* client -> state of its side: pc, service, method, call
          server,   \* client -> state of the side that serves it
          calls,    \* client -> what it wrote and the server has not read
          replies,  \* client -> what the server wrote and it has not read
          accepted, \* service -> connections that wait for a thread
          got       \* client -> how its latest call ended, or Unset

vars == <<uses, client, server, calls, replies, accepted, got>>

NotServed == [pc |-> "none", method |-> "", args |-> Unset, given |-> Unset, call |-> 0]
Queued == [NotServed EXCEPT !.pc = "queued"]
Serving == [NotServed EXCEPT !.pc = "serving"]

Served(c) == server[c].pc \in {"serving", "handling"}
Open(c) == client[c].pc # "closed"
InFlight(c) == Len(calls[c]) + Len(replies[c]) + (IF server[c].pc = "handling" THEN 1 ELSE 0)

Init ==
    /\ uses \in Programs
    /\ client = [c \in Clients |-> [pc |-> "closed", service |-> CHOOSE s \in Services : TRUE,
                                    method |-> "", call |-> 0]]
    /\ server = [c \in Clients |-> NotServed]
    /\ calls = [c \in Clients |-> <<>>]
    /\ replies = [c \in Clients |-> <<>>]
    /\ accepted = [s \in Services |-> <<>>]
    /\ got = [c \in Clients |-> Unset]

(***************************************************************************)
(* Connections.                                                            *)
(***************************************************************************)
Connect(c, s) ==
    /\ ~Open(c) /\ server[c].pc = "none"
    /\ \E u \in uses[c] : u[1] = s
    /\ client' = [client EXCEPT ![c] = [@ EXCEPT !.pc = "idle", !.service = s]]
    /\ server' = [server EXCEPT ![c] = Queued]
    /\ calls' = [calls EXCEPT ![c] = <<>>]
    /\ accepted' = [accepted EXCEPT ![s] = Append(@, c)]
    /\ UNCHANGED <<replies, got>>

(* A thread takes the connection that has waited longest. *)
Assign(s) ==
    /\ accepted[s] # <<>>
    /\ Cardinality({c \in Clients : client[c].service = s /\ Served(c)}) < Workers
    /\ server' = [server EXCEPT ![Head(accepted[s])] = Serving]
    /\ accepted' = [accepted EXCEPT ![s] = Tail(@)]
    /\ UNCHANGED <<client, calls, replies, got>>

(* The end of the stream of calls gives the thread back.  What the client  *)
(* wrote before it closed the connection is read, and run, first.          *)
PeerGone(c) ==
    /\ ~Open(c) /\ server[c].pc = "serving" /\ calls[c] = <<>>
    /\ server' = [server EXCEPT ![c] = NotServed]
    /\ UNCHANGED <<client, calls, replies, accepted, got>>

CloseSocket(c) ==
    /\ client' = [client EXCEPT ![c] = [pc |-> "closed", service |-> @.service, method |-> "", call |-> 0]]
    /\ replies' = [replies EXCEPT ![c] = <<>>]
    /\ got' = [got EXCEPT ![c] = Unset]
    /\ UNCHANGED <<server, calls, accepted>>

Close(c) == client[c].pc = "idle" /\ CloseSocket(c)

(* The caller stops waiting. *)
Timeout(c) ==
    /\ client[c].pc \in {"waiting", "skipping"}
    /\ IF c \in Reusers /\ client[c].pc = "waiting"
       THEN /\ client' = [client EXCEPT ![c].pc = "idle"]
            /\ UNCHANGED <<server, calls, replies, accepted, got>>
       ELSE CloseSocket(c)

(* recv_ finds the end of the stream. *)
EndOfFile(c) ==
    /\ client[c].pc \in {"waiting", "skipping"}
    /\ server[c].pc = "none" /\ replies[c] = <<>>
    /\ CloseSocket(c)

(* crash_handler exits after a SIGSEGV, and so does the server that the    *)
(* watchdog's command stops; the supervisor starts it again.  What it had  *)
(* written may or may not reach its clients.                               *)
Restart(s) ==
    LET lost == {c \in Clients : client[c].service = s}
    IN  /\ \E c \in lost : server[c].pc # "none"
        /\ server' = [c \in Clients |-> IF c \in lost THEN NotServed ELSE server[c]]
        /\ calls' = [c \in Clients |-> IF c \in lost THEN <<>> ELSE calls[c]]
        /\ \/ UNCHANGED replies
           \/ replies' = [c \in Clients |-> IF c \in lost THEN <<>> ELSE replies[c]]
        /\ accepted' = [accepted EXCEPT ![s] = <<>>]
        /\ UNCHANGED <<client, got>>

(***************************************************************************)
(* send_<method>: writeMessageBegin(<method>, T_CALL, 0), the arguments.   *)
(* A client built from another version of vae.thrift lacks the last field, *)
(* has one more, or has another type for the first one.                    *)
(***************************************************************************)
InDialect(wire, d) ==
    CASE d = "same" -> wire
      [] d = "older" -> SubSeq(wire, 1, Len(wire) - 1)
      [] d = "newer" -> Append(wire, [id |-> 99, type |-> "T_I32", value |-> <<"later", 0>>])
      [] d = "retyped" -> [wire EXCEPT ![1].type = "T_I64"]

(* What a handler is entitled to: the fields that both sides agree on. *)
Given(A, call, d) ==
    LET agreed == CASE d = "older" -> {A.fields[i].name : i \in 1 .. Len(A.fields) - 1}
                    [] d = "retyped" -> {A.fields[i].name : i \in 2 .. Len(A.fields)}
                    [] OTHER -> Names(A)
    IN  [n \in Names(A) |-> IF n \in agreed THEN <<n, call>> ELSE Unset]

Send(c, s, method, A, d) ==
    LET call == 1 - client[c].call
        m == [fname |-> method, wire |-> InDialect(Write(A, Fill(A, call)), d),
              given |-> Given(A, call, d), call |-> call]
    IN  /\ client[c].pc = "idle" /\ client[c].service = s
        /\ <<s, method>> \in uses[c]
        /\ InFlight(c) < MaxPending
        /\ d \in {"older", "retyped"} => A.fields # <<>>
        /\ client' = [client EXCEPT ![c] = [pc |-> "waiting", service |-> s, method |-> method, call |-> call]]
        /\ calls' = [calls EXCEPT ![c] = IF server[c].pc = "none" THEN @ ELSE Append(@, m)]
        /\ got' = [got EXCEPT ![c] = Unset]
        /\ UNCHANGED <<server, replies, accepted>>

(***************************************************************************)
(* recv_<method>.                                                          *)
(***************************************************************************)
Ended(how, value) == [how |-> how, value |-> value]

(* An answer of this method: success first, then its exceptions. *)
Decode(R, wire) ==
    LET isset == Isset(R, wire)
        f == R.fields[FirstOf(R, isset)]
    IN  CASE isset # {} /\ f.name = "success" -> Ended("returns", Read(R, wire)[f.name])
          [] isset # {} /\ f.name # "success" -> Ended(f.of.name, Read(R, wire)[f.name])
          [] isset = {} /\ "success" \in Names(R) -> Ended("MISSING_RESULT", Unset)
          [] OTHER -> Ended("returns", Unset)

(* A reply that carries another name is skipped, and the result is then    *)
(* read from whatever follows it.                                          *)
IsMine(r, method) == r.fname = method

Recv(c, s, method, R) ==
    LET r == Head(replies[c])
    IN  /\ client[c].pc = "waiting" /\ client[c].service = s /\ client[c].method = method
        /\ replies[c] # <<>>
        /\ replies' = [replies EXCEPT ![c] = Tail(@)]
        /\ \/ /\ r.mtype = "T_EXCEPTION" \/ IsMine(r, method)
              /\ client' = [client EXCEPT ![c].pc = "idle"]
              /\ got' = [got EXCEPT ![c] =
                            [run |-> r.run,
                             end |-> IF r.mtype = "T_EXCEPTION" THEN Ended("TApplicationException", Unset)
                                                                ELSE Decode(R, r.wire)]]
           \/ /\ r.mtype = "T_REPLY" /\ ~IsMine(r, method)
              /\ client' = [client EXCEPT ![c].pc = "skipping"]
              /\ UNCHANGED got
        /\ UNCHANGED <<server, calls, accepted>>

(* The start of the next message is no struct: the protocol gives up. *)
Garbage(c) == client[c].pc = "skipping" /\ replies[c] # <<>> /\ CloseSocket(c)

Call(c, s, method, A, R) ==
    \/ \E d \in Dialects[c] : Send(c, s, method, A, d)
    \/ Recv(c, s, method, R)

(***************************************************************************)
(* process_<method>: read the arguments, run the handler, write what it    *)
(* returned or threw.                                                      *)
(***************************************************************************)
ReadArgs(c, s, method, A) ==
    /\ server[c].pc = "serving" /\ client[c].service = s
    /\ calls[c] # <<>> /\ Head(calls[c]).fname = method
    /\ LET m == Head(calls[c])
       IN  server' = [server EXCEPT ![c] = [pc |-> "handling", method |-> method, call |-> m.call,
                                            args |-> Read(A, m.wire), given |-> m.given]]
    /\ calls' = [calls EXCEPT ![c] = Tail(@)]
    /\ UNCHANGED <<client, replies, accepted, got>>

(* The handler returns, with a value or with the value that _return or the *)
(* constructor already had, or throws: an exception that the method        *)
(* declares, or anything else that is a std::exception.                    *)
Exceptions(R) == {f \in Fields(R) : f.name # "success"}
Outcomes(R) ==
    {"ok", "std::exception"} \cup {f.name : f \in Exceptions(R)}
        \cup (IF "success" \in Names(R) THEN {"empty"} ELSE {})

(* A slip: the catch block of an exception copies it and sets no flag. *)
SetByReturn(R, outcome) == IF outcome \in {"ok", "empty"} THEN {"success"} \cap Names(R) ELSE {}

(* `result.__isset.success = true` after the handler, `result.__isset.e =  *)
(* true` in the catch block of e.                                          *)
SetBy(R, outcome) == IF outcome \in {"ok", "empty"} THEN {"success"} \cap Names(R) ELSE {outcome}

ResultOf(R, outcome, call) ==
    IF outcome = "empty" THEN [n \in Names(R) |-> Unset] ELSE Fill(R, call)

(* How such a run has to end for the caller. *)
Tells(R, outcome, call) ==
    CASE outcome = "std::exception" -> Ended("TApplicationException", Unset)
      [] outcome = "empty" \/ (outcome = "ok" /\ "success" \notin Names(R)) -> Ended("returns", Unset)
      [] outcome = "ok" /\ "success" \in Names(R) -> Ended("returns", Fill(R, call)["success"])
      [] OTHER -> Ended(FieldNamed(R, outcome).of.name, Fill(R, call)[outcome])

Message(method, mtype, wire, call, tells) ==
    [fname |-> method, mtype |-> mtype, wire |-> wire,
     run |-> [method |-> method, call |-> call, tells |-> tells]]

(* A slip: no return after the T_EXCEPTION, the empty result follows it. *)
AnswersTwice(R, method, outcome, call) ==
    LET tells == Tells(R, outcome, call)
    IN  IF outcome = "std::exception"
        THEN <<Message(method, "T_EXCEPTION", <<>>, call, tells),
               Message(method, "T_REPLY", <<>>, call, tells)>>
        ELSE <<Message(method, "T_REPLY", WriteResult(R, SetBy(R, outcome), ResultOf(R, outcome, call)),
                       call, tells)>>

(* A slip: a std::exception is logged and not answered. *)
AnswersNot(R, method, outcome, call) ==
    IF outcome = "std::exception"
    THEN <<>>
    ELSE <<Message(method, "T_REPLY", WriteResult(R, SetBy(R, outcome), ResultOf(R, outcome, call)),
                   call, Tells(R, outcome, call))>>

(* What one run writes: for a std::exception the T_EXCEPTION, and return. *)
Answers(R, method, outcome, call) ==
    LET tells == Tells(R, outcome, call)
    IN  IF outcome = "std::exception"
        THEN <<Message(method, "T_EXCEPTION", <<>>, call, tells)>>
        ELSE <<Message(method, "T_REPLY", WriteResult(R, SetBy(R, outcome), ResultOf(R, outcome, call)),
                       call, tells)>>

(* A client that has closed its socket gets nothing. *)
Deliver(c, ms) == replies' = [replies EXCEPT ![c] = IF Open(c) THEN @ \o ms ELSE @]

Answer(c, s, method, R) ==
    /\ server[c].pc = "handling" /\ client[c].service = s /\ server[c].method = method
    /\ \E outcome \in Outcomes(R) : Deliver(c, Answers(R, method, outcome, server[c].call))
    /\ server' = [server EXCEPT ![c] = Serving]
    /\ UNCHANGED <<client, calls, accepted, got>>

Process(c, s, method, A, R) == ReadArgs(c, s, method, A) \/ Answer(c, s, method, R)

(* A slip: the arguments of the unknown method are not skipped. *)
DispatchUnread(c, s, processMap) ==
    /\ server[c].pc = "serving" /\ client[c].service = s
    /\ calls[c] # <<>> /\ Head(calls[c]).fname \notin processMap
    /\ LET m == Head(calls[c])
       IN  Deliver(c, <<Message(m.fname, "T_EXCEPTION", <<>>, m.call,
                                Ended("TApplicationException", Unset))>>)
    /\ UNCHANGED <<client, server, calls, accepted, got>>

(* dispatchCall for a name that is not in processMap_. *)
DispatchUnknown(c, s, processMap) ==
    /\ server[c].pc = "serving" /\ client[c].service = s
    /\ calls[c] # <<>> /\ Head(calls[c]).fname \notin processMap
    /\ LET m == Head(calls[c])
       IN  Deliver(c, <<Message(m.fname, "T_EXCEPTION", <<>>, m.call,
                                Ended("TApplicationException", Unset))>>)
    /\ calls' = [calls EXCEPT ![c] = Tail(@)]
    /\ UNCHANGED <<client, server, accepted, got>>
=============================================================================
