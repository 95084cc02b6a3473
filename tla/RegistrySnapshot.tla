-------------------------- MODULE RegistrySnapshot --------------------------
(***************************************************************************)
(* The two snapshot formats of migration_registry.cpp as functions on      *)
(* snapshots: what a value, a name and a key are after they were written   *)
(* to a document and read back, and which documents are refused.           *)
(*                                                                         *)
(* A key path is a sequence of names.  Data is a sequence of bytes.  Names *)
(* and texts matter by what the readers stumble over: OddNames hold a sign *)
(* that a .reg line cannot carry (an equals sign or a line break, which    *)
(* reg_escape leaves as they are), RawNames a control character that       *)
(* json_escape leaves as it is, and LineBreak is a byte that ends a line.  *)
(***************************************************************************)
EXTENDS Naturals, Sequences, SequencesExt

CONSTANTS OddNames, RawNames, LineBreak

Types == {"none", "string", "expandable_string", "multi_string", "dword", "qword", "binary", "unknown"}
Value(name, type, data) == [name |-> name, type |-> type, data |-> data]

\* A document is refused as a whole, or read as a sequence of items.
DocumentRefused == [ok |-> FALSE, items |-> <<>>]
Read(items) == [ok |-> TRUE, items |-> items]

\* combine_key_path
CombineKeyPath(root, relative) == root \o relative
-----------------------------------------------------------------------------
(* .reg *)

\* bytes_to_lossy_string, read back by string_to_bytes: up to the first zero.
LossyString(data) ==
  LET zeros == {i \in DOMAIN data : data[i] = 0} IN
  IF zeros = {} THEN data
  ELSE SubSeq(data, 1, (CHOOSE i \in zeros : \A j \in zeros : i <= j) - 1)

\* dword_bytes_to_reg_text and dword_reg_text_to_bytes: four bytes, the ones
\* that are missing are zero.
DwordText(data) == [i \in 1 .. 4 |-> IF i <= Len(data) THEN data[i] ELSE 0]

\* A value line of serialize_snapshot_reg as parse_snapshot_reg reads it: a
\* text that holds a line break splits the line ...
RegReadable(v) ==
  /\ v.name \notin OddNames
  /\ v.type = "string" => LineBreak \notin ToSet(LossyString(v.data))
\* ... data in hex digits is read as it was, under one of six types.
RegValue(v) ==
  CASE v.type = "string" -> Value(v.name, "string", LossyString(v.data))
    [] v.type = "dword" -> Value(v.name, "dword", DwordText(v.data))
    [] v.type \in {"expandable_string", "multi_string", "qword"} -> v
    [] OTHER -> Value(v.name, "binary", v.data)

\* A key section as parse_snapshot_reg takes it: the first is the root, a
\* later one must be the root or below it (and nothing is below a bare hive).
RegInside(root, key) == key = root \/ (root # <<>> /\ IsPrefix(root, key))
RegRelative(root, key) == SubSeq(key, Len(root) + 1, Len(key))

\* parse_snapshot_reg of serialize_snapshot_reg: the items of a snapshot,
\* each [path, value] with its path relative to the root of the document.
ThroughReg(root, items) ==
  LET key(i) == CombineKeyPath(root, items[i].path) IN
  IF /\ items # <<>>
     /\ \A i \in DOMAIN items : RegReadable(items[i].value) /\ RegInside(key(1), key(i))
  THEN Read([i \in DOMAIN items |->
               [path |-> RegRelative(key(1), key(i)), value |-> RegValue(items[i].value)]])
  ELSE DocumentRefused
-----------------------------------------------------------------------------
(* JSON *)

\* serialize_snapshot_json writes names as they are, data as hex digits.
ThroughJson(root, items) ==
  IF \E i \in DOMAIN items :
       \/ items[i].value.name \in RawNames
       \/ \E j \in DOMAIN items[i].path : items[i].path[j] \in RawNames
  THEN DocumentRefused
  ELSE Read(items)

\* A document that comes from elsewhere: what parse_snapshot_json looks for,
\* any of which refuses the whole document.
JsonDefects == {"duplicate_field", "malformed", "nesting", "not_an_object", "unknown_field",
                "format_marker", "root_missing", "values_missing"}
\* parse_json_root and parse_json_value_object
RootDefects == {"root_fields", "root_hive", "root_view"}
ValueDefects == {"value_fields", "value_type", "value_hex"}
\* decode_reg_text and reg_logical_lines
TextDefects == {"encoding", "continuation"}
Accepted(format, defects) == defects \cap (IF format = "reg" THEN TextDefects ELSE JsonDefects \cup RootDefects \cup ValueDefects) = {}
-----------------------------------------------------------------------------
(* Which keys may be written *)

\* is_policy_key, on a key path in lower case.
IsPolicyKey(path) ==
  \/ IsPrefix(<<"software", "policies">>, path)
  \/ \E i \in 2 .. Len(path) - 2 : path[i] = "software" /\ path[i + 1] = "policies"

\* registry_write_allowed
WriteAllowed(hive, path, options) ==
  /\ hive = "local_machine" => options.allowHklm
  /\ IsPolicyKey(path) => options.allowPolicy
=============================================================================
