---------------------------- MODULE VaeDbService ----------------------------
(***************************************************************************)
(* The VaeDb service of gen-cpp/VaeDb.cpp: the tables that the read() and  *)
(* write() of its argument and result structs follow, and one client and   *)
(* one server action per method.                                           *)
(***************************************************************************)
EXTENDS ThriftRpc

(* The arguments and the result of each method. *)
VaeDb_ping_args == StructOf("VaeDb_ping_args", <<>>)
VaeDb_ping_result == StructOf("VaeDb_ping_result", <<Byte(0, "success")>>)

VaeDb_closeSession_args ==
    StructOf("VaeDb_closeSession_args", <<I32(1, "session_id"), String(2, "secret_key")>>)
VaeDb_closeSession_result ==
    StructOf("VaeDb_closeSession_result", <<Struct(1, "e", VaeDbInternalError)>>)

VaeDb_createInfo_args ==
    StructOf("VaeDb_createInfo_args", <<I32(1, "session_id"), I32(2, "response_id"),
               String(3, "query")>>)
VaeDb_createInfo_result ==
    StructOf("VaeDb_createInfo_result", <<Struct(0, "success", VaeDbCreateInfoResponse),
               Struct(1, "ie", VaeDbInternalError), Struct(2, "qe", VaeDbQueryError)>>)

VaeDb_data_args == StructOf("VaeDb_data_args", <<I32(1, "session_id"), I32(2, "response_id")>>)
VaeDb_data_result ==
    StructOf("VaeDb_data_result", <<Struct(0, "success", VaeDbDataResponse),
               Struct(1, "ie", VaeDbInternalError)>>)

VaeDb_get_args ==
    StructOf("VaeDb_get_args", <<I32(1, "session_id"), I32(2, "response_id"), String(3, "query"),
               Map(4, "options")>>)
VaeDb_get_result ==
    StructOf("VaeDb_get_result", <<Struct(0, "success", VaeDbResponse),
               Struct(1, "ie", VaeDbInternalError), Struct(2, "qe", VaeDbQueryError)>>)

VaeDb_openSession_args ==
    StructOf("VaeDb_openSession_args", <<String(1, "site"), String(2, "secret_key"),
               Bool(3, "staging_mode"), I32(4, "suggested_session_id")>>)
VaeDb_openSession_result ==
    StructOf("VaeDb_openSession_result", <<Struct(0, "success", VaeDbOpenSessionResponse),
               Struct(1, "e", VaeDbInternalError)>>)

VaeDb_resetSite_args == StructOf("VaeDb_resetSite_args", <<String(1, "site"), String(2, "secret_key")>>)
VaeDb_resetSite_result == StructOf("VaeDb_resetSite_result", <<Struct(1, "e", VaeDbInternalError)>>)

VaeDb_structure_args ==
    StructOf("VaeDb_structure_args", <<I32(1, "session_id"), I32(2, "response_id")>>)
VaeDb_structure_result ==
    StructOf("VaeDb_structure_result", <<Struct(0, "success", VaeDbStructureResponse),
               Struct(1, "ie", VaeDbInternalError)>>)

VaeDb_sessionCacheGet_args ==
    StructOf("VaeDb_sessionCacheGet_args", <<I32(1, "session_id"), String(2, "key")>>)
VaeDb_sessionCacheGet_result == StructOf("VaeDb_sessionCacheGet_result", <<String(0, "success")>>)

VaeDb_sessionCacheSet_args ==
    StructOf("VaeDb_sessionCacheSet_args", <<I32(1, "session_id"), String(2, "key"),
               String(3, "value")>>)
VaeDb_sessionCacheSet_result == StructOf("VaeDb_sessionCacheSet_result", <<>>)

VaeDb_sessionCacheDelete_args ==
    StructOf("VaeDb_sessionCacheDelete_args", <<I32(1, "session_id"), String(2, "key")>>)
VaeDb_sessionCacheDelete_result == StructOf("VaeDb_sessionCacheDelete_result", <<>>)

VaeDb_shortTermCacheGet_args ==
    StructOf("VaeDb_shortTermCacheGet_args", <<I32(1, "session_id"), String(2, "key"),
               I32(3, "flags")>>)
VaeDb_shortTermCacheGet_result == StructOf("VaeDb_shortTermCacheGet_result", <<String(0, "success")>>)

VaeDb_shortTermCacheSet_args ==
    StructOf("VaeDb_shortTermCacheSet_args", <<I32(1, "session_id"), String(2, "key"),
               String(3, "value"), I32(4, "flags"), I32(5, "expireInterval")>>)
VaeDb_shortTermCacheSet_result == StructOf("VaeDb_shortTermCacheSet_result", <<>>)

VaeDb_shortTermCacheDelete_args ==
    StructOf("VaeDb_shortTermCacheDelete_args", <<I32(1, "session_id"), String(2, "key")>>)
VaeDb_shortTermCacheDelete_result == StructOf("VaeDb_shortTermCacheDelete_result", <<>>)

VaeDb_longTermCacheGet_args ==
    StructOf("VaeDb_longTermCacheGet_args", <<I32(1, "session_id"), String(2, "key"),
               I32(3, "renewExpiry"), I32(4, "useShortTermCache")>>)
VaeDb_longTermCacheGet_result == StructOf("VaeDb_longTermCacheGet_result", <<String(0, "success")>>)

VaeDb_longTermCacheSet_args ==
    StructOf("VaeDb_longTermCacheSet_args", <<I32(1, "session_id"), String(2, "key"),
               String(3, "value"), I32(4, "expireInterval"), I32(5, "isFilename")>>)
VaeDb_longTermCacheSet_result == StructOf("VaeDb_longTermCacheSet_result", <<>>)

VaeDb_longTermCacheDelete_args ==
    StructOf("VaeDb_longTermCacheDelete_args", <<I32(1, "session_id"), String(2, "key")>>)
VaeDb_longTermCacheDelete_result == StructOf("VaeDb_longTermCacheDelete_result", <<>>)

VaeDb_longTermCacheEmpty_args == StructOf("VaeDb_longTermCacheEmpty_args", <<I32(1, "session_id")>>)
VaeDb_longTermCacheEmpty_result == StructOf("VaeDb_longTermCacheEmpty_result", <<>>)

VaeDb_longTermCacheSweeperInfo_args ==
    StructOf("VaeDb_longTermCacheSweeperInfo_args", <<I32(1, "session_id")>>)
VaeDb_longTermCacheSweeperInfo_result ==
    StructOf("VaeDb_longTermCacheSweeperInfo_result", <<Struct(0, "success", VaeDbDataForContext)>>)

VaeDb_sitewideLock_args == StructOf("VaeDb_sitewideLock_args", <<I32(1, "session_id")>>)
VaeDb_sitewideLock_result == StructOf("VaeDb_sitewideLock_result", <<I32(0, "success")>>)

VaeDb_sitewideUnlock_args == StructOf("VaeDb_sitewideUnlock_args", <<I32(1, "session_id")>>)
VaeDb_sitewideUnlock_result == StructOf("VaeDb_sitewideUnlock_result", <<I32(0, "success")>>)

(* processMap_ *)
VaeDbMethods ==
    {"ping", "closeSession", "createInfo", "data", "get", "openSession", "resetSite", "structure",
     "sessionCacheGet", "sessionCacheSet", "sessionCacheDelete", "shortTermCacheGet",
     "shortTermCacheSet", "shortTermCacheDelete", "longTermCacheGet", "longTermCacheSet",
     "longTermCacheDelete", "longTermCacheEmpty", "longTermCacheSweeperInfo", "sitewideLock",
     "sitewideUnlock"}

(* The client: send_<method> and recv_<method>. *)
VaeDbClient_ping(c) ==
    Call(c, "VaeDb", "ping", VaeDb_ping_args, VaeDb_ping_result)
VaeDbClient_closeSession(c) ==
    Call(c, "VaeDb", "closeSession", VaeDb_closeSession_args, VaeDb_closeSession_result)
VaeDbClient_createInfo(c) ==
    Call(c, "VaeDb", "createInfo", VaeDb_createInfo_args, VaeDb_createInfo_result)
VaeDbClient_data(c) ==
    Call(c, "VaeDb", "data", VaeDb_data_args, VaeDb_data_result)
VaeDbClient_get(c) ==
    Call(c, "VaeDb", "get", VaeDb_get_args, VaeDb_get_result)
VaeDbClient_openSession(c) ==
    Call(c, "VaeDb", "openSession", VaeDb_openSession_args, VaeDb_openSession_result)
VaeDbClient_resetSite(c) ==
    Call(c, "VaeDb", "resetSite", VaeDb_resetSite_args, VaeDb_resetSite_result)
VaeDbClient_structure(c) ==
    Call(c, "VaeDb", "structure", VaeDb_structure_args, VaeDb_structure_result)
VaeDbClient_sessionCacheGet(c) ==
    Call(c, "VaeDb", "sessionCacheGet", VaeDb_sessionCacheGet_args, VaeDb_sessionCacheGet_result)
VaeDbClient_sessionCacheSet(c) ==
    Call(c, "VaeDb", "sessionCacheSet", VaeDb_sessionCacheSet_args, VaeDb_sessionCacheSet_result)
VaeDbClient_sessionCacheDelete(c) ==
    Call(c, "VaeDb", "sessionCacheDelete", VaeDb_sessionCacheDelete_args, VaeDb_sessionCacheDelete_result)
VaeDbClient_shortTermCacheGet(c) ==
    Call(c, "VaeDb", "shortTermCacheGet", VaeDb_shortTermCacheGet_args, VaeDb_shortTermCacheGet_result)
VaeDbClient_shortTermCacheSet(c) ==
    Call(c, "VaeDb", "shortTermCacheSet", VaeDb_shortTermCacheSet_args, VaeDb_shortTermCacheSet_result)
VaeDbClient_shortTermCacheDelete(c) ==
    Call(c, "VaeDb", "shortTermCacheDelete", VaeDb_shortTermCacheDelete_args, VaeDb_shortTermCacheDelete_result)
VaeDbClient_longTermCacheGet(c) ==
    Call(c, "VaeDb", "longTermCacheGet", VaeDb_longTermCacheGet_args, VaeDb_longTermCacheGet_result)
VaeDbClient_longTermCacheSet(c) ==
    Call(c, "VaeDb", "longTermCacheSet", VaeDb_longTermCacheSet_args, VaeDb_longTermCacheSet_result)
VaeDbClient_longTermCacheDelete(c) ==
    Call(c, "VaeDb", "longTermCacheDelete", VaeDb_longTermCacheDelete_args, VaeDb_longTermCacheDelete_result)
VaeDbClient_longTermCacheEmpty(c) ==
    Call(c, "VaeDb", "longTermCacheEmpty", VaeDb_longTermCacheEmpty_args, VaeDb_longTermCacheEmpty_result)
VaeDbClient_longTermCacheSweeperInfo(c) ==
    Call(c, "VaeDb", "longTermCacheSweeperInfo", VaeDb_longTermCacheSweeperInfo_args, VaeDb_longTermCacheSweeperInfo_result)
VaeDbClient_sitewideLock(c) ==
    Call(c, "VaeDb", "sitewideLock", VaeDb_sitewideLock_args, VaeDb_sitewideLock_result)
VaeDbClient_sitewideUnlock(c) ==
    Call(c, "VaeDb", "sitewideUnlock", VaeDb_sitewideUnlock_args, VaeDb_sitewideUnlock_result)

(* The processor: process_<method> and dispatchCall. *)
VaeDbProcessor_process_ping(c) ==
    Process(c, "VaeDb", "ping", VaeDb_ping_args, VaeDb_ping_result)
VaeDbProcessor_process_closeSession(c) ==
    Process(c, "VaeDb", "closeSession", VaeDb_closeSession_args, VaeDb_closeSession_result)
VaeDbProcessor_process_createInfo(c) ==
    Process(c, "VaeDb", "createInfo", VaeDb_createInfo_args, VaeDb_createInfo_result)
VaeDbProcessor_process_data(c) ==
    Process(c, "VaeDb", "data", VaeDb_data_args, VaeDb_data_result)
VaeDbProcessor_process_get(c) ==
    Process(c, "VaeDb", "get", VaeDb_get_args, VaeDb_get_result)
VaeDbProcessor_process_openSession(c) ==
    Process(c, "VaeDb", "openSession", VaeDb_openSession_args, VaeDb_openSession_result)
VaeDbProcessor_process_resetSite(c) ==
    Process(c, "VaeDb", "resetSite", VaeDb_resetSite_args, VaeDb_resetSite_result)
VaeDbProcessor_process_structure(c) ==
    Process(c, "VaeDb", "structure", VaeDb_structure_args, VaeDb_structure_result)
VaeDbProcessor_process_sessionCacheGet(c) ==
    Process(c, "VaeDb", "sessionCacheGet", VaeDb_sessionCacheGet_args, VaeDb_sessionCacheGet_result)
VaeDbProcessor_process_sessionCacheSet(c) ==
    Process(c, "VaeDb", "sessionCacheSet", VaeDb_sessionCacheSet_args, VaeDb_sessionCacheSet_result)
VaeDbProcessor_process_sessionCacheDelete(c) ==
    Process(c, "VaeDb", "sessionCacheDelete", VaeDb_sessionCacheDelete_args, VaeDb_sessionCacheDelete_result)
VaeDbProcessor_process_shortTermCacheGet(c) ==
    Process(c, "VaeDb", "shortTermCacheGet", VaeDb_shortTermCacheGet_args, VaeDb_shortTermCacheGet_result)
VaeDbProcessor_process_shortTermCacheSet(c) ==
    Process(c, "VaeDb", "shortTermCacheSet", VaeDb_shortTermCacheSet_args, VaeDb_shortTermCacheSet_result)
VaeDbProcessor_process_shortTermCacheDelete(c) ==
    Process(c, "VaeDb", "shortTermCacheDelete", VaeDb_shortTermCacheDelete_args, VaeDb_shortTermCacheDelete_result)
VaeDbProcessor_process_longTermCacheGet(c) ==
    Process(c, "VaeDb", "longTermCacheGet", VaeDb_longTermCacheGet_args, VaeDb_longTermCacheGet_result)
VaeDbProcessor_process_longTermCacheSet(c) ==
    Process(c, "VaeDb", "longTermCacheSet", VaeDb_longTermCacheSet_args, VaeDb_longTermCacheSet_result)
VaeDbProcessor_process_longTermCacheDelete(c) ==
    Process(c, "VaeDb", "longTermCacheDelete", VaeDb_longTermCacheDelete_args, VaeDb_longTermCacheDelete_result)
VaeDbProcessor_process_longTermCacheEmpty(c) ==
    Process(c, "VaeDb", "longTermCacheEmpty", VaeDb_longTermCacheEmpty_args, VaeDb_longTermCacheEmpty_result)
VaeDbProcessor_process_longTermCacheSweeperInfo(c) ==
    Process(c, "VaeDb", "longTermCacheSweeperInfo", VaeDb_longTermCacheSweeperInfo_args, VaeDb_longTermCacheSweeperInfo_result)
VaeDbProcessor_process_sitewideLock(c) ==
    Process(c, "VaeDb", "sitewideLock", VaeDb_sitewideLock_args, VaeDb_sitewideLock_result)
VaeDbProcessor_process_sitewideUnlock(c) ==
    Process(c, "VaeDb", "sitewideUnlock", VaeDb_sitewideUnlock_args, VaeDb_sitewideUnlock_result)

VaeDbClient(c) ==
    \/ VaeDbClient_ping(c)
    \/ VaeDbClient_closeSession(c)
    \/ VaeDbClient_createInfo(c)
    \/ VaeDbClient_data(c)
    \/ VaeDbClient_get(c)
    \/ VaeDbClient_openSession(c)
    \/ VaeDbClient_resetSite(c)
    \/ VaeDbClient_structure(c)
    \/ VaeDbClient_sessionCacheGet(c)
    \/ VaeDbClient_sessionCacheSet(c)
    \/ VaeDbClient_sessionCacheDelete(c)
    \/ VaeDbClient_shortTermCacheGet(c)
    \/ VaeDbClient_shortTermCacheSet(c)
    \/ VaeDbClient_shortTermCacheDelete(c)
    \/ VaeDbClient_longTermCacheGet(c)
    \/ VaeDbClient_longTermCacheSet(c)
    \/ VaeDbClient_longTermCacheDelete(c)
    \/ VaeDbClient_longTermCacheEmpty(c)
    \/ VaeDbClient_longTermCacheSweeperInfo(c)
    \/ VaeDbClient_sitewideLock(c)
    \/ VaeDbClient_sitewideUnlock(c)

VaeDbProcessor_dispatchCall(c) ==
    \/ VaeDbProcessor_process_ping(c)
    \/ VaeDbProcessor_process_closeSession(c)
    \/ VaeDbProcessor_process_createInfo(c)
    \/ VaeDbProcessor_process_data(c)
    \/ VaeDbProcessor_process_get(c)
    \/ VaeDbProcessor_process_openSession(c)
    \/ VaeDbProcessor_process_resetSite(c)
    \/ VaeDbProcessor_process_structure(c)
    \/ VaeDbProcessor_process_sessionCacheGet(c)
    \/ VaeDbProcessor_process_sessionCacheSet(c)
    \/ VaeDbProcessor_process_sessionCacheDelete(c)
    \/ VaeDbProcessor_process_shortTermCacheGet(c)
    \/ VaeDbProcessor_process_shortTermCacheSet(c)
    \/ VaeDbProcessor_process_shortTermCacheDelete(c)
    \/ VaeDbProcessor_process_longTermCacheGet(c)
    \/ VaeDbProcessor_process_longTermCacheSet(c)
    \/ VaeDbProcessor_process_longTermCacheDelete(c)
    \/ VaeDbProcessor_process_longTermCacheEmpty(c)
    \/ VaeDbProcessor_process_longTermCacheSweeperInfo(c)
    \/ VaeDbProcessor_process_sitewideLock(c)
    \/ VaeDbProcessor_process_sitewideUnlock(c)
    \/ DispatchUnknown(c, "VaeDb", VaeDbMethods)
=============================================================================
