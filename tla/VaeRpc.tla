------------------------------- MODULE VaeRpc -------------------------------
(***************************************************************************)
(* Both services together, their clients and servers.                      *)
(***************************************************************************)
EXTENDS VaeDbService, VaeRubydService

(* A program built from a later vae.thrift calls a method of that version. *)
LaterMethod(c) ==
    \E s \in Services : Call(c, s, "later", StructOf("later_args", <<>>), StructOf("later_result", <<>>))

Client(c) == VaeDbClient(c) \/ VaeRubydClient(c) \/ LaterMethod(c)
Server(c) == VaeDbProcessor_dispatchCall(c) \/ VaeRubydProcessor_dispatchCall(c)

Next ==
    /\ \/ \E c \in Clients :
           \/ \E s \in Services : Connect(c, s)
           \/ Client(c)
           \/ Server(c)
           \/ Garbage(c)
           \/ EndOfFile(c)
           \/ Timeout(c)
           \/ Close(c)
           \/ PeerGone(c)
       \/ \E s \in Services : Assign(s) \/ Restart(s)
    /\ UNCHANGED uses

Serves(c) == Server(c) /\ UNCHANGED uses
Returns(c) ==
    /\ \/ client[c].pc = "waiting" /\ Client(c)
       \/ EndOfFile(c)
       \/ Garbage(c)
    /\ UNCHANGED uses

(* A thread goes on with the connection it has, which takes for granted    *)
(* that handlers return; a caller that waits reads what is there.  Nothing *)
(* is asked of the clients besides, nor that a waiting connection ever     *)
(* gets a thread: clients may keep all of them.                            *)
Fairness == \A c \in Clients : WF_vars(Serves(c)) /\ WF_vars(Returns(c))

Spec == Init /\ [][Next]_vars /\ Fairness

-----------------------------------------------------------------------------
Pcs == {"none", "queued", "serving", "handling"}

(* Both sides of every connection are in a state of the code; a connection *)
(* waits for a thread exactly while its server has it queued, and no       *)
(* server serves more connections than it has threads.                     *)
TypeOK ==
    /\ uses \in Programs
    /\ client \in [Clients -> [pc : {"closed", "idle", "waiting", "skipping"}, service : Services,
                               method : VaeDbMethods \cup VaeRubydMethods \cup {"", "later"}, call : 0 .. 1]]
    /\ \A c \in Clients : server[c].pc \in Pcs /\ Len(calls[c]) <= MaxPending
    /\ \A s \in Services :
        /\ {accepted[s][i] : i \in DOMAIN accepted[s]}
               = {c \in Clients : client[c].service = s /\ server[c].pc = "queued"}
        /\ Cardinality({c \in Clients : client[c].service = s /\ Served(c)}) <= Workers

(* The handler of process_<method> runs with the arguments of the call it  *)
(* answers: every field the two versions of vae.thrift agree on with the   *)
(* caller's value, every other one as the constructor left it.             *)
ArgsArrive == \A c \in Clients : server[c].pc = "handling" => server[c].args = server[c].given

(* A call that ends with an answer ends with the answer to itself: of the  *)
(* run of this method for this call.  recv_<method> compares the name only *)
(* and no seqid, so this needs a caller that closes what it gave up on;    *)
(* but even one that kept the connection and reads late replies never      *)
(* takes the result of one method for the result of another.               *)
ReplyOfThisCall ==
    \A c \in Clients : got[c] # Unset =>
        /\ c \notin Reusers => got[c].run.call = client[c].call
        /\ c \notin Reusers \/ got[c].end.how # "TApplicationException"
               => got[c].run.method = client[c].method

(* A caller learns what the handler did: the value it returned, also when  *)
(* that is the default; the exception it threw if the method declares it;  *)
(* a TApplicationException for any other exception and for an unknown      *)
(* method.                                                                 *)
OutcomeArrives == \A c \in Clients : got[c] # Unset => got[c].end = got[c].run.tells

(* Between calls nothing is left in flight: whatever process_<method> and  *)
(* recv_<method> did, the next call starts with empty streams and a thread *)
(* that waits for it.                                                      *)
InStep ==
    \A c \in Clients \ Reusers :
        client[c].pc = "idle" => calls[c] = <<>> /\ replies[c] = <<>> /\ server[c].pc # "handling"

(* The call of a connection that has a thread returns or throws, also when *)
(* the server dies; it takes no timeout.                                   *)
ServedCallReturns ==
    \A c \in Clients \ Reusers : client[c].pc = "waiting" /\ Served(c) ~> client[c].pc # "waiting"
=============================================================================
