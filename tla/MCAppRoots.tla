----------------------------- MODULE MCAppRoots -----------------------------
(***************************************************************************)
(* Requests for AppRoots.  Some ask for the paths alone and vary every     *)
(* source of a base directory; some vary the search paths; the others ask  *)
(* for roots with an override, a portable root and named roots.            *)
(***************************************************************************)
EXTENDS AppRoots

MCSegments == STRING
MCLeaf == <<"org", "app">>
MCPrivileged == {<<"/", "usr">>, <<"/", "opt">>}

Home == <<"/", "home">>
None == [f \in Families |-> Empty]
PlainPaths ==
  [override |-> None, injected |-> [n \in {} |-> Empty], process |-> [n \in {} |-> Empty], useProcess |-> FALSE,
   home |-> {Home}, defaultsGiven |-> FALSE, defaults |-> None, userDirs |-> <<>>,
   configDirs |-> <<<<"/", "etc", "xdg">>>>, dataDirs |-> <<<<"/", "usr", "share">>>>,
   temp |-> <<"/", "tmp">>, executable |-> <<"/", "srv", "bin", "app">>, actualExecutable |-> <<"/", "proc", "app">>,
   prefix |-> Empty, resourceRoot |-> Empty, winePrefix |-> Empty]
NoPortable ==
  [given |-> FALSE, requested |-> FALSE, root |-> Empty, marker |-> Empty, level |-> "profile",
   allow |-> TRUE, denyPrivileged |-> TRUE, allowUser |-> FALSE]
Plain ==
  [direct |-> FALSE, paths |-> PlainPaths, override |-> Empty, portable |-> NoPortable, userConfig |-> Empty,
   named |-> <<>>, plugins |-> <<>>, create |-> FALSE]

\* Every source of the configuration is absent, relative or absolute.
Given(where) == {Empty, <<"relative">>, <<"/", where>>}
PathRequests ==
  { [Plain EXCEPT !.direct = TRUE,
       !.paths = [PlainPaths EXCEPT
         !.override = [None EXCEPT !["config"] = x, !["cache"] = x],
         !.injected = IF e = "hidden" THEN [n \in {"XDG_CONFIG_HOME"} |-> Empty]
                      ELSE IF e = "own" THEN [n \in {"XDG_CONFIG_HOME", "XDG_STATE_HOME"} |-> v] ELSE @,
         !.process = [n \in {"XDG_CONFIG_HOME", "XDG_DATA_HOME", "HOME"} |-> IF n = "HOME" THEN Home ELSE v],
         !.useProcess = TRUE,
         !.home = h,
         !.defaultsGiven = (d # Empty), !.defaults = [None EXCEPT !["config"] = d, !["data"] = d]]]
    : x \in Given("chosen"), e \in {"hidden", "own", "process"}, v \in Given("xdg"), d \in Given("default"),
      h \in {{}, {Home}, {Empty}} }

Search == {<<"/", "a">>, <<"/", "b">>, <<"/", "b", "..", "a">>, <<"relative">>, Empty}
PluginRequests ==
  { [Plain EXCEPT !.direct = TRUE, !.paths = [PlainPaths EXCEPT !.winePrefix = w],
       !.plugins = <<[environment |-> <<x, y, z>>, defaults |-> <<<<"~", "a">>, <<"/", "b">>, <<"/", "c">>>>, wine |-> <<<<"c", "vst">>>>]>>]
    : x, y, z \in Search, w \in {Empty, <<"/", "b">>} }

Marker == <<"/", "media", "app", "portable.txt">>
Portables ==
  {NoPortable} \cup
  { [NoPortable EXCEPT !.given = TRUE, !.requested = r, !.root = p, !.marker = k, !.level = l, !.allowUser = u]
    : r \in BOOLEAN, p \in {Empty, <<"/", "stick">>}, k \in {Empty, Marker},
      l \in {"settings_only", "profile"}, u \in BOOLEAN }
  \cup { [NoPortable EXCEPT !.given = TRUE, !.requested = TRUE, !.root = p, !.level = l, !.allow = a]
    : p \in {<<"relative">>, <<"/", "stick">>}, l \in {"off", "clean"}, a \in BOOLEAN }

Named(name, relative, ownership, purpose, component) ==
  [name |-> name, relative |-> relative, ownership |-> ownership, purpose |-> purpose, create |-> TRUE, component |-> component]
NamedLists ==
  { <<Named("logs", Empty, "user_local", "logs", ""), Named("up", <<"..", "other">>, "user_roaming", "config", "")>>,
    <<Named("policy", <<"p">>, "managed", "managed_config", "reverb"), Named("abs", <<"/", "etc">>, "app_local", "config", "reverb")>> }
RootRequests ==
  { [Plain EXCEPT !.portable = p, !.override = o, !.userConfig = u]
    : p \in Portables, o \in {Empty, <<"/", "all">>}, u \in {Empty, <<"relative">>, <<"/", "synced">>} }
  \cup
  { [Plain EXCEPT !.portable = [NoPortable EXCEPT !.given = TRUE, !.marker = Marker, !.level = l],
       !.override = o, !.named = n, !.create = TRUE,
       !.paths = [PlainPaths EXCEPT !.home = h, !.executable = e]]
    : l \in {"settings_only", "profile"}, o \in {Empty, <<"relative">>}, n \in NamedLists,
      h \in {{Home}, {<<"relative">>}, {Empty}}, e \in {<<"/", "srv", "bin", "app">>, <<"/", "usr", "bin", "app">>} }

MCCalls == PathRequests \cup PluginRequests \cup RootRequests
=============================================================================
