-------------------------- MODULE SessionResponses --------------------------
(***************************************************************************)
(* The responses of one Session and the ids by which its client names them. *)
(* get runs a query, below an earlier response or from the root, and keeps  *)
(* the Response; createInfo does the same and keeps nothing; data and       *)
(* structure read an earlier response.  The client has one call at a time   *)
(* and nobody else uses the Session (module Sessions).                      *)
(***************************************************************************)
EXTENDS Integers, Sequences

CONSTANTS Queries,
          MaxResponses   \* bound on the responses of a session

VARIABLES responses, \* the vector; a Response is known by the path of
                     \* queries that led to it
          told,      \* the ids get has returned, each with its path
          answer     \* what the last call got

vars == <<responses, told, answer>>

Root == 0
IdsSent == -1 .. MaxResponses + 1  \* any int32_t can be sent as a response id
Paths == UNION {[1 .. n -> Queries] : n \in 1 .. MaxResponses}
Outcomes == {"none", "ok", "Invalid responseId", "query error", "out of bounds"}

TypeOK == /\ responses \in Seq(Paths) /\ Len(responses) <= MaxResponses
          /\ told \subseteq (1 .. MaxResponses) \X Paths
          /\ answer \in Outcomes

Init == responses = <<>> /\ told = {} /\ answer = "none"

(* responses.size() >= responseId compares a size_t with an int32_t: a      *)
(* negative id is a huge number.                                            *)
AtMostSize(id) == id >= 0 /\ id <= Len(responses)

ValidParent(id) == id # Root /\ AtMostSize(id)

(* The path of the parent: none, or responses[responseId-1], which counts   *)
(* from 0.                                                                  *)
ParentPath(id) == IF id = Root THEN <<>> ELSE responses[id]

-----------------------------------------------------------------------------
(* A slip: the id is the size before the push_back. *)
NewIdIsSize == Len(responses)
(* _return.id = responses.size()+1 *)
NewId == Len(responses) + 1

(* The Response constructor, which runs the query, may throw: no id is used *)
(* up then.                                                                 *)
Get(id, q) ==
  \/ /\ id # Root /\ ~ValidParent(id)
     /\ answer' = "Invalid responseId"
     /\ UNCHANGED <<responses, told>>
  \/ /\ id = Root \/ ValidParent(id)
     /\ answer' = "query error"
     /\ UNCHANGED <<responses, told>>
  \/ /\ id = Root \/ ValidParent(id)
     /\ Len(responses) < MaxResponses
     /\ answer' = "ok"
     /\ told' = told \cup {<<NewId, Append(ParentPath(id), q)>>}
     /\ responses' = Append(responses, Append(ParentPath(id), q))

CreateInfo(id) ==
  /\ IF id # Root /\ ~ValidParent(id) THEN answer' = "Invalid responseId"
                                      ELSE answer' \in {"ok", "query error"}
  /\ UNCHANGED <<responses, told>>

(* data and structure compare the id with the size as get does, but do not  *)
(* test for 0: responses[-1] is what lies before the vector's buffer.       *)
Read(id) ==
  /\ \/ ~AtMostSize(id) /\ answer' = "Invalid responseId"
     \/ AtMostSize(id) /\ id # 0 /\ answer' = "ok"
     \/ id = 0 /\ answer' = "out of bounds"
  /\ UNCHANGED <<responses, told>>

Data(id) == Read(id)
Structure(id) == Read(id)

Next == \E id \in IdsSent : \/ \E q \in Queries : Get(id, q)
                            \/ CreateInfo(id) \/ Data(id) \/ Structure(id)

Spec == Init /\ [][Next]_vars

-----------------------------------------------------------------------------
(* Properties *)

(* An id, once returned by get, names the response of that call for the     *)
(* rest of the session, and no other response, also when calls in between   *)
(* failed.                                                                  *)
IdsNameResponses == \A t \in told : t[1] \in 1 .. Len(responses) /\ responses[t[1]] = t[2]

(* A response id that names no response is answered by "Invalid responseId",*)
(* as the error path of data and structure says.                            *)
InvalidIdRefused == answer # "out of bounds"
=============================================================================
