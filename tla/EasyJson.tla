------------------------------ MODULE EasyJson ------------------------------
(***************************************************************************)
(* What the code that easyjson generates does (pkg/go-hyperliquid,         *)
(* *_easyjson.go): a struct is written field by field in the order of its  *)
(* declaration, an omitempty field only when it is not empty, and read key *)
(* by key into a value that already exists.                                *)
(*                                                                         *)
(* A Go type is a kind, the same for writing and reading: in all 132 types *)
(* the generated encoder and decoder have the same keys in the same order. *)
(* A Go value is a number for a scalar (0 is its zero value), <<>> for nil *)
(* and <<x>> for a pointer to x, a slice x or a map x, and a function from *)
(* keys to values for a struct.  A JSON value is <<"null">>, a tagged      *)
(* scalar, <<"array", s>> or <<"object", s>> where s is a sequence of      *)
(* <<key, value>> pairs.                                                   *)
(***************************************************************************)
EXTENDS Integers, Sequences
LOCAL INSTANCE SequencesExt

(* Kinds *)
Str   == [is |-> "Str"]
Int64 == [is |-> "Int64"]
Bool  == [is |-> "Bool"]
Float64    == [is |-> "Float64"]
Float64Str == [is |-> "Float64Str"]
Iface == [is |-> "Iface"]
Raw == [is |-> "Raw"]
Ptr(k)  == [is |-> "Ptr", of |-> k]
List(k) == [is |-> "List", of |-> k]
Map(k)  == [is |-> "Map", of |-> k]
Obj(fields) == [is |-> "Obj", fields |-> fields]

\* A field, a field with omitempty, and a field that is declared but that the
\* generated code does not know.
F(key, kind) == [key |-> key, kind |-> kind, omit |-> FALSE, coded |-> TRUE]
O(key, kind) == [F(key, kind) EXCEPT !.omit = TRUE]
Uncoded(key, kind) == [F(key, kind) EXCEPT !.coded = FALSE]

\* Several fields of one kind.
Fs(kind, keys) == [i \in 1 .. Len(keys) |-> F(keys[i], kind)]
Os(kind, keys) == [i \in 1 .. Len(keys) |-> O(keys[i], kind)]

Scalars == {"Str", "Int64", "Bool", "Float64", "Float64Str"}
Nil  == <<>>
Null == <<"null">>
KeysOf(fields)  == {fields[i].key : i \in 1 .. Len(fields)}
FieldOf(fields, key) == fields[CHOOSE i \in 1 .. Len(fields) : fields[i].key = key]

RECURSIVE Zero(_)
Zero(k) ==
    CASE k.is \in Scalars -> 0
      [] k.is = "Obj" -> [key \in KeysOf(k.fields) |-> Zero(FieldOf(k.fields, key).kind)]
      [] OTHER -> Nil

-----------------------------------------------------------------------------
(* Writing *)

\* The token a scalar is written as, and read from.
Token(k) ==
    CASE k.is \in {"Str", "Float64Str"} -> "string"
      [] k.is = "Bool" -> "bool"
      [] OTHER -> "number"

\* Mutant of IsEmpty: a pointer to a zero value counts as empty.
IsEmptyDeref(k, v) ==
    CASE k.is \in Scalars -> v = 0
      [] k.is = "Ptr" -> v = Nil \/ v[1] = Zero(k.of)
      [] k.is \in {"Iface", "Raw"} -> v = Nil
      [] k.is \in {"List", "Map"} -> v = Nil \/ DOMAIN v[1] = {}
      [] k.is = "Obj" -> FALSE

\* What omitempty leaves out: a zero scalar, a nil pointer, an empty slice or map,
\* never a struct.
IsEmpty(k, v) ==
    CASE k.is \in Scalars -> v = 0
      [] k.is \in {"Ptr", "Iface", "Raw"} -> v = Nil
      [] k.is \in {"List", "Map"} -> v = Nil \/ DOMAIN v[1] = {}
      [] k.is = "Obj" -> FALSE

RECURSIVE Encode(_, _)

\* MarshalEasyJSON of a struct.
EncodeFields(fields, v) ==
    LET Written(f) == f.coded /\ ~(f.omit /\ IsEmpty(f.kind, v[f.key]))
        kept == SelectSeq(fields, Written)
    IN [i \in 1 .. Len(kept) |-> <<kept[i].key, Encode(kept[i].kind, v[kept[i].key])>>]

Encode(k, v) ==
    CASE k.is \in Scalars -> <<Token(k), v>>
      [] k.is = "Obj" -> <<"object", EncodeFields(k.fields, v)>>
      [] k.is # "Obj" /\ v = Nil -> Null
      [] k.is \in {"Iface", "Raw"} /\ v # Nil -> v[1]
      [] k.is = "Ptr" /\ v # Nil -> Encode(k.of, v[1])
      [] k.is = "List" /\ v # Nil ->
            <<"array", [i \in 1 .. Len(v[1]) |-> Encode(k.of, v[1][i])]>>
      [] k.is = "Map" /\ v # Nil ->
            LET keys == SetToSeq(DOMAIN v[1])
            IN <<"object", [i \in 1 .. Len(keys) |-> <<keys[i], Encode(k.of, v[1][keys[i]])>>]>>

-----------------------------------------------------------------------------
(* Reading *)

\* The lexer reports no error: every token is of the type its field needs.  An
\* unknown key is skipped with its value.
RECURSIVE Accepts(_, _)
Accepts(k, j) ==
    \/ j = Null
    \/ k.is \in {"Iface", "Raw"}
    \/ k.is \in Scalars /\ j[1] = Token(k)
    \/ k.is = "Ptr" /\ Accepts(k.of, j)
    \/ k.is = "List" /\ j[1] = "array" /\ \A i \in 1 .. Len(j[2]) : Accepts(k.of, j[2][i])
    \/ k.is = "Map" /\ j[1] = "object" /\ \A i \in 1 .. Len(j[2]) : Accepts(k.of, j[2][i][2])
    \/ /\ k.is = "Obj" /\ j[1] = "object"
       /\ \A i \in 1 .. Len(j[2]) : \A f \in Range(k.fields) :
             f.key = j[2][i][1] /\ f.coded => Accepts(f.kind, j[2][i][2])

RECURSIVE Decode(_, _, _)

\* UnmarshalEasyJSON of a struct: the switch on each key of the document.
DecodeFields(fields, old, pairs) ==
    LET Coded == {key \in KeysOf(fields) : FieldOf(fields, key).coded}
        Read(v, p) == IF p[1] \in Coded
                      THEN [v EXCEPT ![p[1]] = Decode(FieldOf(fields, p[1]).kind, v[p[1]], p[2])]
                      ELSE v
    IN FoldLeft(Read, old, pairs)

\* A null leaves a scalar, a struct, a map and a RawMessage as they are, and sets a
\* pointer, a slice or an interface to nil.  Slices and maps are made anew, their
\* elements start from zero.
Decode(k, old, j) ==
    CASE j = Null -> IF k.is \in {"Ptr", "List", "Iface"} THEN Nil ELSE old
      [] j # Null /\ k.is \in Scalars -> j[2]
      [] j # Null /\ k.is \in {"Iface", "Raw"} -> <<j>>
      [] j # Null /\ k.is = "Ptr" ->
            <<Decode(k.of, IF old = Nil THEN Zero(k.of) ELSE old[1], j)>>
      [] j # Null /\ k.is = "List" ->
            <<[i \in 1 .. Len(j[2]) |-> Decode(k.of, Zero(k.of), j[2][i])]>>
      [] j # Null /\ k.is = "Map" ->
            <<[key \in {j[2][i][1] : i \in 1 .. Len(j[2])} |->
                 Decode(k.of, Zero(k.of),
                        j[2][CHOOSE i \in 1 .. Len(j[2]) : j[2][i][1] = key][2])]>>
      [] j # Null /\ k.is = "Obj" -> DecodeFields(k.fields, old, j[2])
=============================================================================
