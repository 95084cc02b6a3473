------------------------ MODULE MCRegistryMigration ------------------------
(***************************************************************************)
(* Instances of RegistryMigration for TLC.                                 *)
(***************************************************************************)
EXTENDS RegistryMigration

\* The application's key with a subkey that is named like the policies, and
\* the destination: importing below "software" reaches the policy key.
App == <<"app">>
Software == <<"software">>
SomeKeys == << App, <<"app", "a">>, <<"app", "policies">>, Software, <<"software", "a">>, <<"software", "policies">> >>

Text(name) == Value(name, "string", <<1, 0, 1, 0>>)
Number(name) == Value(name, "dword", <<1>>)
Wide(name) == Value(name, "qword", <<3, 0>>)
Raw(name) == Value(name, "unknown", <<2>>)
Names == {"n", "odd", "raw"}

Holds(root, first, second) ==
  [k \in KeySet |-> IF k = App THEN root ELSE IF k = <<"app", "a">> THEN first
                    ELSE IF k = <<"app", "policies">> THEN second ELSE <<>>]
SomeStores ==
  { Holds(root, first, second) :
      root \in {<<>>, <<Text("n"), Number("m"), Raw("o")>>},
      first \in {<<>>, <<Text("n"), Wide("m")>>},
      second \in {<<>>, <<Number("n")>>, <<Text("raw")>>} }
  \ {Holds(<<>>, <<>>, <<>>)}
\* What the other program sets.
Set1 == {Text("n"), Text("x")}
\* A document of our own, or one with a defect.
SomeDocuments == {{}, {"value_hex"}, {"continuation"}}
\* Options: dry run, import, and the two permissions.
SomeOptions == [dryRun : BOOLEAN, allowImport : BOOLEAN, allowHklm : BOOLEAN, allowPolicy : BOOLEAN, allowRecursiveDelete : {TRUE}]
Both == {"json", "reg"}
=============================================================================
