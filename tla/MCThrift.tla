------------------------------ MODULE MCThrift ------------------------------
(* Two sockets and one thread per server.  Either a is alone and uses every *)
(* method of both services, in every version of vae.thrift; or a, which     *)
(* closes after a timeout, and b, which keeps its connection, compete for   *)
(* the threads of VaeDb with a few methods.                                 *)
EXTENDS VaeRpc
CONSTANTS a, b
MCClients == {a, b}
MCServices == {"VaeDb", "VaeRubyd"}
MCReusers == {b}
Alone ==
    [c \in MCClients |->
        IF c = a THEN ({"VaeDb"} \X (VaeDbMethods \cup {"later"})) \cup ({"VaeRubyd"} \X VaeRubydMethods)
                 ELSE {}]
Together ==
    [c \in MCClients |->
        IF c = a THEN {<<"VaeDb", "openSession">>, <<"VaeRubyd", "ping">>}
                 ELSE {"VaeDb"} \X {"sessionCacheSet", "sessionCacheDelete"}]
MCPrograms == {Alone, Together}
MCDialects == [c \in MCClients |-> IF c = a THEN {"same", "older", "newer", "retyped"} ELSE {"same"}]
=============================================================================
