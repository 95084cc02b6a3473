-------------------------- MODULE RegistryMigration --------------------------
(***************************************************************************)
(* export_tree_* and import_tree_* of migration_registry.cpp on the Win32  *)
(* registry: an export walks the keys by index, value by value, while      *)
(* another program changes them; the snapshot goes through a document; an  *)
(* import writes value after value, each behind its own gate.              *)
(*                                                                         *)
(* Keys are paths below one hive each.  Windows numbers the values of a    *)
(* key in the order they were made and its subkeys in their own order; a   *)
(* removal renumbers the ones behind it.                                   *)
(***************************************************************************)
EXTENDS RegistrySnapshot, FiniteSets

CONSTANTS
  Keys,          \* key paths that may exist, in the order of the registry
  Source, Destination,  \* the roots of the export and of the import
  Hive,          \* the hive that is written
  Stores,        \* what the registry may hold at first
  Documents,     \* documents that come from elsewhere: their defects
  Formats,       \* {"json"}, {"reg"} or both
  AllOptions,
  NewValues,     \* values the other program sets
  MaxChanges,    \* bound: changes by the other program
  MaxFailures    \* bound: calls of the system that fail

KeySet == ToSet(Keys)
KeyPaths == Seq(STRING)
RegistryValues == [name : STRING, type : Types, data : Seq(Nat)]
NothingRead == Value("", "none", <<>>)
NamesDiffer(values) == \A i, j \in DOMAIN values : values[i].name = values[j].name => i = j

\* A key is there once and below its parent; a value's name is there once.
ASSUME RegistryAssumption ==
  /\ MaxChanges \in Nat /\ MaxFailures \in Nat
  /\ Keys \in Seq(KeyPaths) /\ IsInjective(Keys)
  /\ \A k \in KeySet : Len(k) > 1 => Front(k) \in KeySet
  /\ Source \in KeyPaths /\ Destination \in KeyPaths
  /\ \A s \in Stores : s \in [KeySet -> Seq(RegistryValues)] /\ \A k \in KeySet : NamesDiffer(s[k])
  /\ NewValues \subseteq RegistryValues

VARIABLES
  store,         \* key path -> sequence of its values
  exists,        \* the keys there are
  registryOptions,
  at,            \* where the client is
  work,          \* keys still to walk, the one in hand first (relative)
  index, count,  \* the enumeration in hand
  names,         \* subkeys enumerated so far
  items,         \* the snapshot: [path, value] in order
  format,        \* the document's format
  next,          \* the value to import next
  ok,            \* report.ok
  steady,        \* values that were there at the start and not touched since
  got,           \* what read_value found: [type, data]
  changes, failures

registryVars == <<store, exists, registryOptions, at, work, index, count, names, items, format, next, ok, steady, got, changes, failures>>
walk == <<work, index, count, names>>
Places == {"idle", "opening", "values", "counting", "subkeys", "reading", "document", "import", "done"}

RegistryInit ==
  /\ store \in Stores
  /\ exists = {k \in KeySet : store[k] # <<>> \/ \E j \in KeySet : store[j] # <<>> /\ IsPrefix(k, j)}
  /\ registryOptions \in AllOptions /\ format \in Formats
  /\ at = "idle" /\ work = <<>> /\ index = 1 /\ count = 0 /\ names = <<>>
  /\ items = <<>> /\ next = 1 /\ ok = FALSE
  /\ steady = {} /\ got = NothingRead /\ changes = 0 /\ failures = 0

\* Every variable keeps its type.
RegistryTypeOK ==
  /\ store \in [KeySet -> Seq(RegistryValues)] /\ exists \subseteq KeySet
  /\ at \in Places /\ work \in Seq(KeyPaths) /\ names \in Seq(KeyPaths)
  /\ index \in Nat \ {0} /\ count \in Nat /\ next \in Nat \ {0}
  /\ items \in Seq([path : KeyPaths, value : RegistryValues])
  /\ steady \subseteq KeySet \X RegistryValues /\ got \in RegistryValues \cup {NothingRead}
  /\ ok \in BOOLEAN /\ changes \in Nat /\ failures \in Nat

KeyInHand == CombineKeyPath(Source, Head(work))
\* The subkeys of a key in the order Windows numbers them.
InOrder(places) ==
  [n \in 1 .. Cardinality(places) |-> CHOOSE i \in places : Cardinality({j \in places : j <= i}) = n]
SubkeyPlaces(k) == {i \in DOMAIN Keys : Keys[i] \in exists /\ Len(Keys[i]) = Len(k) + 1 /\ IsPrefix(k, Keys[i])}
Subkeys(k) == LET order == InOrder(SubkeyPlaces(k)) IN [n \in DOMAIN order |-> Keys[order[n]]]
CallFails == failures < MaxFailures /\ failures' = failures + 1
Stops == at' = "done" /\ ok' = FALSE
ClientOnly == UNCHANGED <<store, exists, registryOptions, format, got, changes>>
-----------------------------------------------------------------------------
(* Export *)

\* collect_snapshot_values starts at the root.
Export ==
  /\ at = "idle"
  /\ at' = "opening" /\ work' = << <<>> >>
  /\ steady' = {s \in UNION {{k} \X ToSet(store[k]) : k \in KeySet} : IsPrefix(Source, s[1])}
  /\ UNCHANGED <<index, count, names, items, next, ok, failures>> /\ ClientOnly

\* enumerate_values: open the key and ask how many values it has.
OpenValues ==
  /\ at = "opening"
  /\ \/ /\ KeyInHand \in exists
        /\ count' = Len(store[KeyInHand]) /\ index' = 1 /\ at' = "values"
        /\ UNCHANGED <<ok, failures>>
     \/ /\ IF KeyInHand \in exists THEN CallFails ELSE UNCHANGED failures
        /\ Stops /\ UNCHANGED <<index, count>>
  /\ UNCHANGED <<work, names, items, next, steady>> /\ ClientOnly

\* An index past the end is taken for the end (mutant).
EnumValueShort ==
  /\ at = "values" /\ index <= count
  /\ IF KeyInHand \in exists /\ index <= Len(store[KeyInHand])
     THEN /\ items' = Append(items, [path |-> Head(work), value |-> store[KeyInHand][index]])
          /\ index' = index + 1
     ELSE UNCHANGED items /\ index' = count + 1
  /\ UNCHANGED <<at, ok, failures, work, count, names, next, steady>> /\ ClientOnly

\* RegEnumValue: the value with this index, as the key is now; an index that
\* is past the end by now is an error and stops the export.
EnumValue ==
  /\ at = "values" /\ index <= count
  /\ IF KeyInHand \in exists /\ index <= Len(store[KeyInHand])
     THEN /\ items' = Append(items, [path |-> Head(work), value |-> store[KeyInHand][index]])
          /\ index' = index + 1 /\ UNCHANGED <<at, ok>>
     ELSE Stops /\ UNCHANGED <<items, index>>
  /\ UNCHANGED <<work, count, names, next, steady, failures>> /\ ClientOnly

\* enumerate_subkeys: open the key again and count its subkeys.
OpenSubkeys ==
  /\ at = "values" /\ index > count
  /\ \/ /\ KeyInHand \in exists
        /\ count' = Len(Subkeys(KeyInHand)) /\ index' = 1 /\ names' = <<>> /\ at' = "subkeys"
        /\ UNCHANGED <<ok, failures>>
     \/ /\ IF KeyInHand \in exists THEN CallFails ELSE UNCHANGED failures
        /\ Stops /\ UNCHANGED <<index, count, names>>
  /\ UNCHANGED <<work, items, next, steady>> /\ ClientOnly

EnumSubkey ==
  /\ at = "subkeys" /\ index <= count
  /\ IF KeyInHand \in exists /\ index <= Len(Subkeys(KeyInHand))
     THEN /\ names' = Append(names, Append(Head(work), Last(Subkeys(KeyInHand)[index])))
          /\ index' = index + 1 /\ UNCHANGED <<at, ok>>
     ELSE Stops /\ UNCHANGED <<names, index>>
  /\ UNCHANGED <<work, count, items, next, steady, failures>> /\ ClientOnly

\* The subkeys are walked before what is left of the levels above.
Descend ==
  /\ at = "subkeys" /\ index > count
  /\ work' = names \o Tail(work)
  /\ at' = IF work' = <<>> THEN "document" ELSE "opening"
  /\ ok' = (work' = <<>>)
  /\ UNCHANGED <<index, count, names, items, next, steady, failures>> /\ ClientOnly
-----------------------------------------------------------------------------
(* Document and import *)

Image == IF format = "json" THEN ThroughJson(Source, items) ELSE ThroughReg(Source, items)

\* import_tree_*: the document is read as a whole; it is the one exported, or
\* one from elsewhere whose defects refuse it; allow_import is asked for.
ImportDocument ==
  /\ at = "document"
  /\ \E defects \in Documents :
       IF ~Image.ok \/ ~Accepted(format, defects) \/ ~registryOptions.allowImport
       THEN Stops /\ UNCHANGED items
       ELSE at' = "import" /\ ok' = TRUE /\ items' = Image.items
  /\ next' = 1
  /\ UNCHANGED <<walk, steady, failures>> /\ ClientOnly

Target(i) == CombineKeyPath(Destination, items[i].path)
\* The gate is asked about the root of the import only (mutant).
TargetOfRoot(i) == Destination
\* The key a write asks its permission for.
Asked(i) == Target(i)

\* RegSetValueEx: a value of that name is replaced, else appended.
Set(values, v) ==
  IF \E i \in DOMAIN values : values[i].name = v.name
  THEN [i \in DOMAIN values |-> IF values[i].name = v.name THEN v ELSE values[i]]
  ELSE Append(values, v)

\* registry_type_to_native: a type that is not known is written as binary.
Native(v) == [v EXCEPT !.type = IF @ = "unknown" THEN "binary" ELSE @]
\* RegCreateKeyEx makes the key and the ones above it.
WithKey(k) == exists \cup {above \in KeySet : IsPrefix(above, k)}

\* Only the last write decides about the report (mutant).
AfterFailureLast(failed) == ~failed
\* import_snapshot: one failed write is enough, the others are still made.
AfterFailure(failed) == ok /\ ~failed

\* write_value for the next value of the snapshot: either call of the system
\* may fail, the second one with the key already made.
ImportValue ==
  /\ at = "import" /\ next <= Len(items)
  /\ \/ /\ WriteAllowed(Hive, Asked(next), registryOptions)
        /\ ~registryOptions.dryRun
        /\ Target(next) \in KeySet
        /\ store' = [store EXCEPT ![Target(next)] = Set(@, Native(items[next].value))]
        /\ exists' = WithKey(Target(next))
        /\ ok' = AfterFailure(FALSE) /\ UNCHANGED failures
     \/ /\ WriteAllowed(Hive, Asked(next), registryOptions) /\ registryOptions.dryRun
        /\ UNCHANGED <<store, exists, ok, failures>>
     \/ /\ ~WriteAllowed(Hive, Asked(next), registryOptions)
        /\ ok' = AfterFailure(TRUE) /\ UNCHANGED <<store, exists, failures>>
     \/ /\ WriteAllowed(Hive, Asked(next), registryOptions) /\ ~registryOptions.dryRun
        /\ CallFails
        /\ ok' = AfterFailure(TRUE) /\ UNCHANGED store
        /\ \/ UNCHANGED exists
           \/ Target(next) \in KeySet /\ exists' = WithKey(Target(next))
  /\ next' = next + 1
  /\ UNCHANGED <<registryOptions, at, walk, items, format, steady, got, changes>>

ImportDone ==
  /\ at = "import" /\ next > Len(items)
  /\ at' = "done"
  /\ UNCHANGED <<walk, items, next, ok, steady, failures>> /\ ClientOnly

\* delete_value and delete_key, before anything else: the key must be
\* permitted, a key with subkeys is not deleted (RegDeleteKeyEx).
DeleteValue(k, i) ==
  /\ at = "idle" /\ k \in exists /\ i \in DOMAIN store[k]
  /\ WriteAllowed(Hive, k, registryOptions) /\ ~registryOptions.dryRun
  /\ store' = [store EXCEPT ![k] = RemoveAt(@, i)]
  /\ at' = "done"
  /\ UNCHANGED <<exists, registryOptions, walk, items, format, next, ok, steady, got, changes, failures>>

DeleteKey(k) ==
  /\ at = "idle" /\ k \in exists /\ Subkeys(k) = <<>>
  /\ WriteAllowed(Hive, k, registryOptions) /\ registryOptions.allowRecursiveDelete /\ ~registryOptions.dryRun
  /\ store' = [store EXCEPT ![k] = <<>>]
  /\ exists' = exists \ {k}
  /\ at' = "done"
  /\ UNCHANGED <<registryOptions, walk, items, format, next, ok, steady, got, changes, failures>>

\* read_value asks twice: for the size and the type, then for the data.  The
\* type it reports is the one of the first answer; data that has grown since
\* is an error.
AskSize(k, i) ==
  /\ at = "idle" /\ k \in exists /\ i \in DOMAIN store[k]
  /\ got' = store[k][i] /\ work' = <<k>>
  /\ at' = "reading"
  /\ UNCHANGED <<store, exists, registryOptions, index, count, names, items, format, next, ok, steady, changes, failures>>

ReadData ==
  LET values == store[Head(work)]
      fits == {i \in DOMAIN values : values[i].name = got.name /\ Len(values[i].data) <= Len(got.data)}
  IN /\ at = "reading" /\ at' = "done"
     /\ \/ \E i \in fits : ok' = TRUE /\ got' = [got EXCEPT !.data = values[i].data]
        \/ fits = {} /\ ok' = FALSE /\ UNCHANGED got
     /\ UNCHANGED <<store, exists, registryOptions, walk, items, format, next, steady, changes, failures>>

\* The other program sets or removes a value of the source, or removes a key,
\* while the export walks it.
Untouched(k, name) == {s \in steady : s[1] # k \/ s[2].name # name}
OtherProgram ==
  /\ at \in {"opening", "values", "subkeys", "reading"} /\ changes < MaxChanges
  /\ changes' = changes + 1
  /\ \E k \in exists :
       /\ IsPrefix(Source, k)
       /\ \/ \E v \in NewValues :
               /\ store' = [store EXCEPT ![k] = Set(@, v)]
               /\ steady' = Untouched(k, v.name) /\ UNCHANGED exists
          \/ \E i \in DOMAIN store[k] :
               /\ store' = [store EXCEPT ![k] = RemoveAt(@, i)]
               /\ steady' = Untouched(k, store[k][i].name) /\ UNCHANGED exists
          \/ /\ Subkeys(k) = <<>>
             /\ exists' = exists \ {k}
             /\ store' = [store EXCEPT ![k] = <<>>]
             /\ steady' = {s \in steady : s[1] # k}
  /\ UNCHANGED <<registryOptions, at, walk, items, format, next, ok, got, failures>>

RegistryNext ==
  \/ Export \/ OpenValues \/ EnumValue \/ OpenSubkeys \/ EnumSubkey \/ Descend
  \/ ImportDocument \/ ImportValue \/ ImportDone
  \/ \E k \in KeySet : DeleteKey(k) \/ \E i \in DOMAIN store[k] : DeleteValue(k, i) \/ AskSize(k, i)
  \/ ReadData \/ OtherProgram

RegistrySpec == RegistryInit /\ [][RegistryNext]_registryVars
-----------------------------------------------------------------------------
(* Properties *)

\* An export that succeeds holds every value that was there from its start
\* to its end and was not touched, under the right key, although another
\* program made one change meanwhile: a removal shifts the numbering and is
\* noticed at the index that is missing.  (A removal and an addition are not:
\* see the README.)
ExportIsComplete ==
  at = "document" /\ changes <= 1 =>
    \A s \in steady : \E i \in DOMAIN items :
      CombineKeyPath(Source, items[i].path) = s[1] /\ items[i].value = s[2]

\* A .reg document brings a value back as it was if its type has a form there,
\* and in its place if the root has a value of its own.
Carried(s) ==
  \/ format = "json"
  \/ s[2].type \in {"expandable_string", "multi_string", "qword", "binary"} /\ \E r \in steady : r[1] = Source

\* An import that succeeds leaves every exported value that its document can
\* carry in its place under the destination, with its name, its bytes and its
\* type; a value whose type the code does not know comes back as binary.
ImportIsFaithful ==
  at = "done" /\ ok /\ ~registryOptions.dryRun /\ next > 1 /\ changes <= 1 =>
    \A s \in steady : Carried(s) =>
      \E v \in ToSet(store[CombineKeyPath(Destination, SubSeq(s[1], Len(Source) + 1, Len(s[1])))]) :
        /\ v.name = s[2].name /\ v.data = s[2].data
        /\ v.type = s[2].type \/ (s[2].type = "unknown" /\ v.type = "binary")

\* Nothing under the machine's hive or a policy key changes without the
\* permission for it, wherever the root of an import is, and nothing at all
\* in a dry run.
ChangesArePermitted ==
  [][changes' = changes => \A k \in KeySet : store'[k] # store[k] =>
       ~registryOptions.dryRun /\ WriteAllowed(Hive, k, registryOptions)]_registryVars
=============================================================================
