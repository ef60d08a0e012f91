--------------------------- MODULE VaeRubydService --------------------------
(***************************************************************************)
(* The VaeRubyd service of gen-cpp/VaeRubyd.cpp, whose server is the Ruby  *)
(* daemon: tables and actions as in VaeDbService.                          *)
(***************************************************************************)
EXTENDS ThriftRpc

(* The arguments and the result of each method. *)
VaeRubyd_ping_args == StructOf("VaeRubyd_ping_args", <<>>)
VaeRubyd_ping_result == StructOf("VaeRubyd_ping_result", <<Byte(0, "success")>>)

VaeRubyd_fixDocRoot_args == StructOf("VaeRubyd_fixDocRoot_args", <<String(1, "path")>>)
VaeRubyd_fixDocRoot_result == StructOf("VaeRubyd_fixDocRoot_result", <<Byte(0, "success")>>)

VaeRubyd_haml_args == StructOf("VaeRubyd_haml_args", <<String(1, "text")>>)
VaeRubyd_haml_result ==
    StructOf("VaeRubyd_haml_result", <<String(0, "success"), Struct(1, "se", VaeSyntaxError)>>)

VaeRubyd_sass_args ==
    StructOf("VaeRubyd_sass_args", <<String(1, "text"), String(2, "load_path"), String(3, "style")>>)
VaeRubyd_sass_result ==
    StructOf("VaeRubyd_sass_result", <<String(0, "success"), Struct(1, "se", VaeSyntaxError)>>)

VaeRubyd_scss_args ==
    StructOf("VaeRubyd_scss_args", <<String(1, "text"), String(2, "load_path"), String(3, "style")>>)
VaeRubyd_scss_result ==
    StructOf("VaeRubyd_scss_result", <<String(0, "success"), Struct(1, "se", VaeSyntaxError)>>)

(* processMap_ *)
VaeRubydMethods ==
    {"ping", "fixDocRoot", "haml", "sass", "scss"}

(* The client: send_<method> and recv_<method>. *)
VaeRubydClient_ping(c) ==
    Call(c, "VaeRubyd", "ping", VaeRubyd_ping_args, VaeRubyd_ping_result)
VaeRubydClient_fixDocRoot(c) ==
    Call(c, "VaeRubyd", "fixDocRoot", VaeRubyd_fixDocRoot_args, VaeRubyd_fixDocRoot_result)
VaeRubydClient_haml(c) ==
    Call(c, "VaeRubyd", "haml", VaeRubyd_haml_args, VaeRubyd_haml_result)
VaeRubydClient_sass(c) ==
    Call(c, "VaeRubyd", "sass", VaeRubyd_sass_args, VaeRubyd_sass_result)
VaeRubydClient_scss(c) ==
    Call(c, "VaeRubyd", "scss", VaeRubyd_scss_args, VaeRubyd_scss_result)

(* The processor: process_<method> and dispatchCall. *)
VaeRubydProcessor_process_ping(c) ==
    Process(c, "VaeRubyd", "ping", VaeRubyd_ping_args, VaeRubyd_ping_result)
VaeRubydProcessor_process_fixDocRoot(c) ==
    Process(c, "VaeRubyd", "fixDocRoot", VaeRubyd_fixDocRoot_args, VaeRubyd_fixDocRoot_result)
VaeRubydProcessor_process_haml(c) ==
    Process(c, "VaeRubyd", "haml", VaeRubyd_haml_args, VaeRubyd_haml_result)
VaeRubydProcessor_process_sass(c) ==
    Process(c, "VaeRubyd", "sass", VaeRubyd_sass_args, VaeRubyd_sass_result)
VaeRubydProcessor_process_scss(c) ==
    Process(c, "VaeRubyd", "scss", VaeRubyd_scss_args, VaeRubyd_scss_result)

VaeRubydClient(c) ==
    \/ VaeRubydClient_ping(c)
    \/ VaeRubydClient_fixDocRoot(c)
    \/ VaeRubydClient_haml(c)
    \/ VaeRubydClient_sass(c)
    \/ VaeRubydClient_scss(c)

VaeRubydProcessor_dispatchCall(c) ==
    \/ VaeRubydProcessor_process_ping(c)
    \/ VaeRubydProcessor_process_fixDocRoot(c)
    \/ VaeRubydProcessor_process_haml(c)
    \/ VaeRubydProcessor_process_sass(c)
    \/ VaeRubydProcessor_process_scss(c)
    \/ DispatchUnknown(c, "VaeRubyd", VaeRubydMethods)
=============================================================================
