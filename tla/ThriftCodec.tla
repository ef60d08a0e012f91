---------------------------- MODULE ThriftCodec ----------------------------
(***************************************************************************)
(* What the generated read() and write() functions of gen-cpp do, over a   *)
(* table of the struct they were generated for.  The table of a struct     *)
(* lists its fields as its write() writes them, each with the id and the   *)
(* type that its read() demands.                                           *)
(*                                                                         *)
(* A value is a nonempty tuple, so that nothing has to be known of it: a   *)
(* scalar, a string or a map is a token <<field, call>>, a list of structs *)
(* or a struct holds what it is made of.  <<>> is what a constructor       *)
(* leaves in a field: zero, "", the empty list or map.                     *)
(***************************************************************************)
EXTENDS Naturals, Sequences, FiniteSets

Unset == <<>>

(***************************************************************************)
(* Tables.                                                                 *)
(***************************************************************************)
StructOf(name, fields) == [name |-> name, fields |-> fields]
NoStruct == StructOf("", <<>>)

Field(id, type, name, of) == [id |-> id, type |-> type, name |-> name, of |-> of]
Bool(id, name) == Field(id, "T_BOOL", name, NoStruct)
Byte(id, name) == Field(id, "T_BYTE", name, NoStruct)
I32(id, name) == Field(id, "T_I32", name, NoStruct)
String(id, name) == Field(id, "T_STRING", name, NoStruct)
Map(id, name) == Field(id, "T_MAP", name, NoStruct)
Struct(id, name, of) == Field(id, "T_STRUCT", name, of)
List(id, name, of) == Field(id, "T_LIST", name, of)

Fields(S) == {S.fields[i] : i \in DOMAIN S.fields}
Names(S) == {f.name : f \in Fields(S)}
FieldNamed(S, n) == CHOOSE f \in Fields(S) : f.name = n

(***************************************************************************)
(* write(): every field in turn, with the value the struct holds.  The     *)
(* elements of a list, and a struct, are written by their own write(): the *)
(* four levels below are as deep as the structs of this service nest.      *)
(***************************************************************************)
WriteFields(W(_, _), S, value) ==
    [i \in DOMAIN S.fields |->
        LET f == S.fields[i]
            v == value[f.name]
        IN  [id |-> f.id, type |-> f.type,
             value |-> IF f.of = NoStruct \/ v = Unset THEN v ELSE [j \in DOMAIN v |-> W(f.of, v[j])]]]

Write0(S, value) == WriteFields(LAMBDA T, v : v, S, value)
Write1(S, value) == WriteFields(Write0, S, value)
Write2(S, value) == WriteFields(Write1, S, value)
Write(S, value) == WriteFields(Write2, S, value)

(***************************************************************************)
(* read(): while there is another field, the case of its id stores it if   *)
(* its type is the expected one, so the last such field wins; any other    *)
(* id, and an id with another type, is skipped.                            *)
(***************************************************************************)
(* A slip: the id alone selects the case. *)
StoresAnyType(f, wire) == {i \in DOMAIN wire : wire[i].id = f.id}

Stores(f, wire) == {i \in DOMAIN wire : wire[i].id = f.id /\ wire[i].type = f.type}

ReadFields(R(_, _), S, wire) ==
    [n \in Names(S) |->
        LET f == FieldNamed(S, n)
            at == Stores(f, wire)
            v == wire[CHOOSE i \in at : \A j \in at : j <= i].value
        IN  CASE at = {} -> Unset
              [] at # {} /\ (f.of = NoStruct \/ v = Unset) -> v
              [] OTHER -> [j \in DOMAIN v |-> R(f.of, v[j])]]

Read0(S, wire) == ReadFields(LAMBDA T, w : w, S, wire)
Read1(S, wire) == ReadFields(Read0, S, wire)
Read2(S, wire) == ReadFields(Read1, S, wire)
Read(S, wire) == ReadFields(Read2, S, wire)

(***************************************************************************)
(* The __isset flags: read() sets the flag of a field that it stores, and  *)
(* write() of a result is `if (__isset.success) ... else if (__isset.e)    *)
(* ...`: at most one field, whatever its value.                            *)
(***************************************************************************)
Isset(S, wire) == {n \in Names(S) : Stores(FieldNamed(S, n), wire) # {}}

FirstOf(S, isset) ==
    LET set == {i \in DOMAIN S.fields : S.fields[i].name \in isset}
    IN  CHOOSE i \in set : \A j \in set : i <= j

WriteResult(S, isset, value) == IF isset = {} THEN <<>> ELSE <<Write(S, value)[FirstOf(S, isset)]>>

(***************************************************************************)
(* A struct with every field filled, each with a token of its own for the  *)
(* call, one element to a list: what a caller passes or a handler returns. *)
(***************************************************************************)
FillFields(F(_, _), S, call) ==
    [n \in Names(S) |-> LET f == FieldNamed(S, n)
                        IN  IF f.of = NoStruct THEN <<n, call>> ELSE <<F(f.of, call)>>]

Fill0(S, call) == FillFields(LAMBDA T, c : Unset, S, call)
Fill1(S, call) == FillFields(Fill0, S, call)
Fill2(S, call) == FillFields(Fill1, S, call)
Fill(S, call) == FillFields(Fill2, S, call)
=============================================================================
