------------------------------ MODULE AppRoots ------------------------------
(***************************************************************************)
(* resolve_app_roots of root.cpp and resolve_settings_roots of             *)
(* settings_roots.cpp: one call decides between an override, a portable    *)
(* root and the user's own directories, names further roots below them and *)
(* creates what it was asked to.  The marker of the portable root and the  *)
(* directories belong to everyone: they change between any two looks.      *)
(***************************************************************************)
EXTENDS AppPaths

CONSTANTS
  Calls,      \* the identity and the options of the call
  Segments,      \* what a path is made of
  Leaf,          \* the application's own segments
  Privileged,    \* the privileged install roots
  MaxChanges     \* bound: changes by other processes

Paths == Seq(Segments)
RootNames == {"config", "data", "state", "cache", "runtime", "resources"}
Ownerships == {"user_roaming", "user_local", "app_local", "ephemeral", "managed", "enforced"}
Purposes ==
  {"resources", "config", "data", "state", "cache", "runtime", "session", "plugin_config", "logs", "profiles", "backup",
   "temp", "component_config", "component_data", "component_state", "managed_config", "enforced_config", "custom"}
OwnSegments ==
  {".config", ".local", "share", "state", ".cache", "cache", ".wine", "managed", "enforced", "components", "sessions",
   "plugins", "Config"}

IsEnvironment(e) == \A n \in DOMAIN e : e[n] \in Paths
IsPathOptions(o) ==
  /\ o.override \in [Families -> Paths] /\ o.defaults \in [Families -> Paths] /\ o.home \subseteq Paths
  /\ IsEnvironment(o.injected) /\ IsEnvironment(o.process)
  /\ {o.temp, o.executable, o.actualExecutable, o.prefix, o.resourceRoot, o.winePrefix} \subseteq Paths
PortableRequests ==
  [given : BOOLEAN, requested : BOOLEAN, root : Paths, marker : Paths, level : {"off", "settings_only", "profile", "clean"},
   allow : BOOLEAN, denyPrivileged : BOOLEAN, allowUser : BOOLEAN]
NamedRequests ==
  [name : Segments, relative : Paths, ownership : Ownerships, purpose : Purposes, create : BOOLEAN, component : Segments]
PluginSets == [environment : Seq(Paths), defaults : Seq(Paths), wine : Seq(Paths)]

ASSUME RootsAssumption ==
  /\ MaxChanges \in Nat /\ OwnSegments \subseteq Segments /\ Leaf \in Paths /\ Leaf # Empty
  /\ \A r \in Calls :
       /\ IsPathOptions(r.paths) /\ r.override \in Paths /\ r.userConfig \in Paths
       /\ r.portable \in PortableRequests /\ r.named \in Seq(NamedRequests) /\ r.plugins \in Seq(PluginSets)
       /\ r.create \in BOOLEAN /\ r.direct \in BOOLEAN

VARIABLES
  q,             \* the request
  marker,        \* the marker file exists
  directories,   \* directories there are, of those the call is about
  blocked,       \* paths where there is a file instead
  at,            \* where the call is
  requested,     \* report.portable_root_requested
  mode,          \* "default", "override" or "portable"
  overridden,    \* report.user_config_override_active
  roots,         \* report.roots
  failed,        \* an error was reported
  todo,          \* directories still to create, each at its place
  existed,       \* what the look before the creation found
  created,       \* directories this call has made
  changes

rootsVars == <<q, marker, directories, blocked, at, requested, mode, overridden, roots, failed, todo, existed, created, changes>>
listing == <<directories, blocked>>
decision == <<requested, mode, overridden, roots>>

NoRoots == [n \in RootNames |-> Empty]

Nothing == [i \in {} |-> Empty]

RootsInit ==
  /\ q \in Calls
  /\ marker \in BOOLEAN
  /\ directories = {} /\ blocked = {}
  /\ at = "start" /\ requested = FALSE /\ mode = "default" /\ overridden = FALSE
  /\ roots = NoRoots /\ failed = FALSE
  /\ todo = Nothing /\ existed = FALSE /\ created = {} /\ changes = 0

PathReport == ResolveAppPaths(q.paths, Leaf)
Resources == ResolveResources(q.paths, Last(Leaf))
\* apply_default_roots_from_paths
DefaultRoots ==
  [n \in RootNames |-> IF n = "resources" THEN Resources ELSE PathReport.selected[n]]

\* An override or a full portable root takes all the application writes.
RootsUnder(base) ==
  [NoRoots EXCEPT !["config"] = base, !["data"] = base, !["state"] = base,
                  !["cache"] = Append(base, "cache"), !["resources"] = Resources]
-----------------------------------------------------------------------------
(* resolve_app_roots *)

\* resolve_app_paths may be all that is asked for.
ResolvePathsOnly ==
  /\ at = "start" /\ q.direct
  /\ failed' = PathReport.error /\ at' = "done"
  /\ UNCHANGED <<q, marker, listing, decision, todo, existed, created, changes>>

AppRootOverride ==
  /\ at = "start" /\ ~q.direct
  /\ IF IsAbsolute(q.override)
     THEN mode' = "override" /\ roots' = RootsUnder(q.override)
     ELSE mode' = mode /\ roots' = [NoRoots EXCEPT !["resources"] = Resources]
  /\ failed' = (PathReport.error \/ (q.override # Empty /\ ~IsAbsolute(q.override)))
  /\ at' = "marker"
  /\ UNCHANGED <<q, marker, listing, requested, overridden, todo, existed, created, changes>>

\* The marker is looked at once to see whether portable mode is asked for ...
LookForMarker ==
  /\ at = "marker"
  /\ requested' = (q.portable.given /\ (q.portable.requested \/ (q.portable.marker # Empty /\ marker)))
  /\ at' = "portable"
  /\ UNCHANGED <<q, marker, listing, mode, overridden, roots, failed, todo, existed, created, changes>>

\* path_is_at_or_under compares the normal forms of absolute paths; two
\* relative ones are both below the working directory.
IsUnder(path, root) == IsPrefix(Normal(root), Normal(path))
IsUnderPrivileged(path) == \E p \in Privileged : IsUnder(path, p)

\* ... and once more to find the root.
PortableRoot ==
  IF q.portable.root # Empty THEN q.portable.root
  ELSE IF q.portable.marker # Empty /\ marker THEN Front(q.portable.marker) ELSE Empty

PortableDenied(root) ==
  \/ ~q.portable.allow \/ q.portable.level = "off"
  \/ q.portable.denyPrivileged /\ IsUnderPrivileged(IF Resources # Empty THEN Resources ELSE root)

\* Mutant of PortableRoots: the settings level is taken for every level.
PortableRootsSettings(root) == [DefaultRoots EXCEPT !["config"] = root]

PortableRoots(root) ==
  IF q.portable.level = "settings_only" THEN [DefaultRoots EXCEPT !["config"] = root] ELSE RootsUnder(root)

SelectPortable ==
  /\ at = "portable"
  /\ LET root == PortableRoot
         active == mode # "override" /\ requested /\ IsAbsolute(root) /\ ~PortableDenied(root)
     IN /\ mode' = IF active THEN "portable" ELSE mode
        /\ roots' = IF active THEN PortableRoots(root) ELSE roots
        /\ failed' = (failed \/ (mode # "override" /\ requested /\ root # Empty /\ ~IsAbsolute(root)))
  /\ at' = "defaults"
  /\ UNCHANGED <<q, marker, listing, requested, overridden, todo, existed, created, changes>>

UserConfigAllowed == mode # "override" /\ (mode = "portable" => q.portable.allowUser)

\* The user's own directories, unless something above has failed; then the
\* user's override of the configuration.
ApplyDefaults ==
  /\ at = "defaults"
  /\ LET base == IF roots["config"] = Empty /\ ~failed THEN DefaultRoots ELSE roots
         wanted == q.userConfig # Empty /\ UserConfigAllowed
     IN /\ overridden' = (wanted /\ IsAbsolute(q.userConfig))
        /\ roots' = IF wanted /\ IsAbsolute(q.userConfig) THEN [base EXCEPT !["config"] = q.userConfig] ELSE base
        /\ failed' = (failed \/ (wanted /\ ~IsAbsolute(q.userConfig)))
  /\ at' = "named"
  /\ UNCHANGED <<q, marker, listing, requested, mode, todo, existed, created, changes>>
-----------------------------------------------------------------------------
(* Named roots *)

\* The root of a roaming purpose; all others belong to the configuration.
PurposeRoot(purpose) ==
  CASE purpose \in {"data", "component_data"} -> roots["data"]
    [] purpose \in {"state", "session", "logs", "component_state"} -> roots["state"]
    [] purpose \in {"cache", "temp"} -> roots["cache"]
    [] purpose \in {"runtime", "resources"} -> roots[purpose]
    [] OTHER -> roots["config"]

BasePathFor(n) ==
  CASE n.ownership = "user_local" -> IF n.purpose \in {"cache", "temp"} THEN roots["cache"]
                                     ELSE IF n.purpose = "runtime" THEN roots["runtime"] ELSE roots["state"]
    [] n.ownership = "app_local" -> roots["config"]
    [] n.ownership = "ephemeral" -> roots["cache"]
    [] n.ownership \in {"managed", "enforced"} -> Append(roots["config"], n.ownership)
    [] n.ownership = "user_roaming" -> PurposeRoot(n.purpose)

\* Without a path the name is used; a component's roots lie in its directory.
\* An absolute path swallows what stands before it.
RelativePath(n) ==
  LET own == IF n.relative # Empty THEN n.relative ELSE <<n.name>>
  IN IF n.component = "" \/ IsAbsolute(own) THEN own ELSE <<"components", n.component>> \o own

NamedPath(n) == BasePathFor(n) \o RelativePath(n)

\* Mutant of Confined: a path that climbs is not refused.
ConfinedNot(n) == n.name # "" /\ ~IsAbsolute(RelativePath(n)) /\ BasePathFor(n) # Empty
Confined(n) ==
  /\ n.name # ""
  /\ ~IsAbsolute(RelativePath(n)) /\ ".." \notin ToSet(RelativePath(n))
  /\ BasePathFor(n) # Empty /\ IsUnder(NamedPath(n), BasePathFor(n))

\* session and plugin_config are derived whether or not there is a root.
SessionRoot == Append(roots["state"], "sessions")
PluginConfigRoot == roots["config"] \o <<"plugins", "Config">>

\* The named roots are created whatever was reported so far.
ResolveNamedRoots ==
  /\ at = "named"
  /\ todo' = [i \in {i \in DOMAIN q.named : q.create /\ q.named[i].create /\ Confined(q.named[i])} |-> NamedPath(q.named[i])]
  /\ at' = "creating named"
  /\ UNCHANGED <<q, marker, listing, decision, failed, existed, created, changes>>

StandardPaths ==
  <<roots["config"], roots["data"], roots["state"], roots["cache"], SessionRoot, PluginConfigRoot, roots["runtime"]>>

\* The standard directories only when nothing has failed.
StandardDirectories ==
  /\ at = "creating named" /\ DOMAIN todo = {}
  /\ todo' = IF q.create /\ ~failed
             THEN [i \in {i \in DOMAIN StandardPaths : StandardPaths[i] # Empty} |-> StandardPaths[i]] ELSE todo
  /\ failed' = (failed \/ (q.create /\ \E n \in {"config", "data", "state", "cache"} : roots[n] = Empty))
  /\ at' = "creating"
  /\ UNCHANGED <<q, marker, listing, decision, existed, created, changes>>

Creating == at \in {"creating named", "creating"} /\ DOMAIN todo # {}
Place == CHOOSE i \in DOMAIN todo : \A j \in DOMAIN todo : i <= j
Directory == todo[Place]
NextDirectory == existed' = FALSE /\ todo' = [i \in DOMAIN todo \ {Place} |-> todo[i]]

\* create_directory_for_root, ensure_directory: first a look ...
LookAtDirectory ==
  /\ Creating /\ ~existed
  /\ IF Directory \in directories \cup blocked
     THEN NextDirectory /\ failed' = (failed \/ (at = "creating" /\ Directory \in blocked))
     ELSE existed' = TRUE /\ UNCHANGED <<todo, failed>>
  /\ UNCHANGED <<q, marker, listing, decision, at, created, changes>>

\* ... then the creation, which another process may have forestalled.
CreateDirectory ==
  /\ Creating /\ existed /\ NextDirectory
  /\ IF Directory \in blocked
     THEN failed' = (failed \/ at = "creating") /\ UNCHANGED <<directories, created>>
     ELSE /\ directories' = directories \cup {Directory}
          /\ created' = IF Directory \in directories THEN created ELSE created \cup {Directory}
          /\ UNCHANGED failed
  /\ UNCHANGED <<q, marker, blocked, decision, at, changes>>

ReturnReport ==
  /\ at = "creating" /\ DOMAIN todo = {}
  /\ at' = "done"
  /\ UNCHANGED <<q, marker, listing, decision, failed, todo, existed, created, changes>>

\* Other processes touch the marker and the directories.
OtherProcess ==
  /\ at # "done" /\ changes < MaxChanges /\ changes' = changes + 1
  /\ \/ marker' = ~marker /\ UNCHANGED listing
     \/ /\ Creating /\ UNCHANGED marker
        /\ \/ directories' = directories \cup {Directory} /\ blocked' = blocked \ {Directory}
           \/ directories' = directories \ {Directory} /\ blocked' = blocked \cup {Directory}
  /\ UNCHANGED <<q, at, decision, failed, todo, existed, created>>

RootsNext ==
  \/ ResolvePathsOnly \/ AppRootOverride \/ LookForMarker \/ SelectPortable \/ ApplyDefaults
  \/ ResolveNamedRoots \/ StandardDirectories \/ LookAtDirectory \/ CreateDirectory \/ ReturnReport
  \/ OtherProcess

RootsSpec == RootsInit /\ [][RootsNext]_rootsVars
-----------------------------------------------------------------------------
(* resolve_settings_roots: the layers of the settings *)

Layer(name, path, precedence, writable) == [name |-> name, path |-> path, precedence |-> precedence, writable |-> writable]
Layers ==
  << Layer("defaults", roots["resources"], 10, FALSE), Layer("global", <<"/", "etc", "xdg">> \o Leaf, 20, FALSE),
     Layer("user", roots["config"], 30, TRUE), Layer("local", roots["state"], 40, TRUE),
     Layer("managed", <<"/", "etc", "dconf", "db", Last(Leaf), "defaults">>, 60, FALSE),
     Layer("enforced", <<"/", "etc", "dconf", "db", Last(Leaf), "locks">>, 70, FALSE) >>
  \o (IF mode = "portable" THEN <<Layer("portable", roots["config"], 50, TRUE)>> ELSE <<>>)
  \o (IF mode = "override" THEN <<Layer("settings_override", roots["config"], 30, TRUE)>> ELSE <<>>)
  \o (IF overridden THEN <<Layer("sync_config_override", roots["config"], 30, TRUE)>> ELSE <<>>)

\* The layer that is written is the writable one of the highest precedence.
ActiveWriteLayer ==
  LET writable == {l \in ToSet(Layers) : l.writable}
  IN CHOOSE l \in writable : \A k \in writable : k.precedence <= l.precedence
-----------------------------------------------------------------------------
(* Properties *)

Stages == {"start", "marker", "portable", "defaults", "named", "creating named", "creating", "done"}

\* Every variable keeps its type.
RootsTypeOK ==
  /\ q \in Calls /\ marker \in BOOLEAN /\ at \in Stages
  /\ requested \in BOOLEAN /\ mode \in {"default", "override", "portable"} /\ overridden \in BOOLEAN
  /\ roots \in [RootNames -> Paths] /\ failed \in BOOLEAN /\ existed \in BOOLEAN
  /\ DOMAIN todo \subseteq Nat /\ \A i \in DOMAIN todo : todo[i] \in Paths
  /\ directories \cup blocked \cup created \subseteq Paths /\ directories \cap blocked = {}
  /\ changes \in 0 .. MaxChanges

BasesAreBest ==
  \A f \in BaseFamilies :
    LET sources == Sources(q.paths, f, Leaf)
        chosen == PathReport.selected[f]
    IN \/ chosen = Empty /\ \A i \in DOMAIN sources : sources[i] = Empty
       \/ \E i \in DOMAIN sources : /\ chosen = sources[i] /\ chosen # Empty
                                    /\ \A j \in 1 .. (i - 1) : sources[j] = Empty

SearchPathsAreBest ==
  \A s \in ToSet(q.plugins) :
    LET paths == PluginPaths(s, q.paths)
        given == {i \in DOMAIN s.environment : IsAbsolute(s.environment[i])}
        Spells(i, p) == Normal(s.environment[i]) = p
    IN /\ IsInjective(paths) /\ \A k \in DOMAIN paths : IsAbsolute(paths[k])
       /\ \A i \in given : \E k \in DOMAIN paths : Spells(i, paths[k])
       /\ \A l \in DOMAIN paths : \A k \in 1 .. (l - 1) :
            \A j \in given : Spells(j, paths[l]) => \E i \in given : i < j /\ Spells(i, paths[k])

\* Each base directory is the first usable one of override, environment,
\* platform default and home, whatever is hidden, empty or relative; a plugin
\* search path names no directory twice in any spelling and keeps every usable
\* one of the environment: whatever stands before it in the search path stands
\* before it in the environment (select_base_directory,
\* resolve_plugin_path_sets).
BestSourceWins == at = "done" /\ q.direct => BasesAreBest /\ SearchPathsAreBest

\* However the marker comes and goes between the two looks, a call ends in one
\* mode: all roots of the override, all of a full portable root with the layer
\* that is written, or none of either.
ModeIsWhole ==
  at = "done" =>
    /\ mode = "override" => /\ roots["runtime"] = Empty
                            /\ \A n \in {"config", "data", "state", "cache"} : IsPrefix(q.override, roots[n])
    /\ (mode = "portable" /\ q.portable.level # "settings_only") =>
         LET base == IF q.portable.root # Empty THEN q.portable.root ELSE Front(q.portable.marker)
         IN /\ \A n \in {"data", "state", "cache"} : IsPrefix(base, roots[n])
            /\ ~q.portable.allowUser => IsPrefix(base, roots["config"]) /\ IsPrefix(base, ActiveWriteLayer.path)
            /\ roots["runtime"] = Empty
    /\ mode = "portable" => requested /\ q.portable.allow /\ q.portable.level # "off"

\* A call creates directories only below the roots it reports, however its
\* paths are spelled, as long as those of the configuration and the state were
\* found and absolute.
CreatedInside ==
  IsAbsolute(roots["config"]) /\ IsAbsolute(roots["state"]) =>
    \A p \in created : \E n \in RootNames : roots[n] # Empty /\ IsUnder(p, roots[n])
=============================================================================
