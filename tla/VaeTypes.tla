------------------------------ MODULE VaeTypes ------------------------------
(***************************************************************************)
(* The structs of gen-cpp/vae_types.cpp, each as the table that its read() *)
(* and write() follow (see ThriftCodec).                                   *)
(***************************************************************************)
EXTENDS ThriftCodec

VaeDbInternalError == StructOf("VaeDbInternalError", <<String(1, "message")>>)

VaeDbQueryError == StructOf("VaeDbQueryError", <<String(1, "message")>>)

VaeSyntaxError == StructOf("VaeSyntaxError", <<String(1, "message")>>)

VaeDbContext ==
    StructOf("VaeDbContext", <<I32(1, "id"), I32(2, "structure_id"), String(3, "type"),
                               String(4, "permalink"), String(5, "data"), Map(6, "dataMap")>>)

VaeDbCreateInfo == StructOf("VaeDbCreateInfo", <<I32(1, "structure_id"), I32(2, "row_id")>>)

VaeDbStructure ==
    StructOf("VaeDbStructure",
             <<I32(1, "id"), String(2, "name"), String(3, "type"), String(4, "permalink")>>)

VaeDbResponseForContext ==
    StructOf("VaeDbResponseForContext",
             <<List(1, "contexts", VaeDbContext), I32(2, "totalItems")>>)

VaeDbResponse ==
    StructOf("VaeDbResponse", <<I32(1, "id"), List(2, "contexts", VaeDbResponseForContext)>>)

VaeDbCreateInfoResponse ==
    StructOf("VaeDbCreateInfoResponse", <<List(1, "contexts", VaeDbCreateInfo)>>)

VaeDbDataForContext == StructOf("VaeDbDataForContext", <<Map(1, "data")>>)

VaeDbDataResponse == StructOf("VaeDbDataResponse", <<List(1, "contexts", VaeDbDataForContext)>>)

VaeDbStructureResponse == StructOf("VaeDbStructureResponse", <<List(1, "contexts", VaeDbStructure)>>)

VaeDbOpenSessionResponse ==
    StructOf("VaeDbOpenSessionResponse", <<I32(1, "session_id"), I32(2, "generation")>>)
=============================================================================
