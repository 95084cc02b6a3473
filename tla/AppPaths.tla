------------------------------ MODULE AppPaths ------------------------------
(***************************************************************************)
(* resolve_app_paths, parse_path_list and resolve_plugin_path_sets of      *)
(* paths.cpp on a freedesktop system, as operators.  A path is the         *)
(* sequence of its segments: an absolute one begins with "/", and the      *)
(* empty sequence is the empty path.  An environment variable that is      *)
(* empty counts as unset, so its value is <<>> too.                        *)
(***************************************************************************)
EXTENDS Naturals, Sequences, SequencesExt, FiniteSets

BaseFamilies == {"config", "data", "state", "cache"}
UserOrder == <<"documents", "desktop", "downloads", "music", "pictures", "videos", "templates", "public_share">>
UserFamilies == ToSet(UserOrder)
Families == BaseFamilies \cup UserFamilies \cup {"runtime", "temp"}

IsAbsolute(p) == p # <<>> /\ p[1] = "/"
Empty == <<>>

\* lexically_normal: "." goes, a parent reference takes the segment before it.
NormalStep(s, x) ==
  IF x = "." \/ (x = ".." /\ s = <<"/">>) THEN s
  ELSE IF x = ".." /\ s # <<>> /\ Last(s) # ".." THEN Front(s) ELSE Append(s, x)
Normal(p) ==
  LET upTo[n \in 0 .. Len(p)] == IF n = 0 THEN <<>> ELSE NormalStep(upTo[n - 1], p[n]) IN upTo[Len(p)]

\* What the caller injects hides the environment of the process, even when it
\* is empty.
EnvironmentValue(o, name) ==
  IF name \in DOMAIN o.injected THEN o.injected[name]
  ELSE IF o.useProcess /\ name \in DOMAIN o.process THEN o.process[name] ELSE Empty

\* o.home is {} or holds the one directory that is given.
HomeDirectory(o) == IF o.home # {} THEN CHOOSE h \in o.home : TRUE ELSE EnvironmentValue(o, "HOME")
-----------------------------------------------------------------------------
(* One family of the report and its candidates: the families are resolved   *)
(* independently of each other.                                            *)

NoPath == [selected |-> Empty, candidates |-> {}, error |-> FALSE]
Candidate(f, source, p, chosen) == [family |-> f, source |-> source, path |-> p, selected |-> chosen]

AddCandidate(r, f, source, p, chosen) ==
  [r EXCEPT !.candidates = @ \cup {Candidate(f, source, p, chosen)}, !.selected = IF chosen THEN p ELSE @]

\* A relative value is recorded with its diagnostic and not used.
Reject(r, f, source, p) ==
  IF p = Empty \/ IsAbsolute(p) THEN r
  ELSE [AddCandidate(r, f, source, p, FALSE) EXCEPT !.error = @ \/ source \in {"explicit_option", "platform_default"}]

SelectAbsoluteOverride(r, f, p) ==
  IF IsAbsolute(p) THEN AddCandidate(r, f, "explicit_option", p, TRUE) ELSE Reject(r, f, "explicit_option", p)

PlatformDefaultBase(o, f) == IF o.defaultsGiven THEN o.defaults[f] ELSE Empty

\* Mutant of SelectBaseDirectory: the variable is used as it is.
SelectBaseLoose(r, o, f, env, fallback, leaf) ==
  LET e == EnvironmentValue(o, env)
      d == PlatformDefaultBase(o, f)
  IN IF r.selected # Empty THEN r
     ELSE IF e # Empty THEN AddCandidate(r, f, "xdg_base_dir", e \o leaf, TRUE)
     ELSE IF IsAbsolute(d) THEN AddCandidate(r, f, "platform_default", d \o leaf, TRUE)
     ELSE IF fallback # Empty THEN AddCandidate(r, f, "fallback", fallback \o leaf, TRUE) ELSE r

\* select_base_directory: override, environment, platform default, home.
SelectBaseDirectory(r, o, f, env, fallback, leaf) ==
  LET e == EnvironmentValue(o, env)
      d == PlatformDefaultBase(o, f)
      withEnv == Reject(r, f, "environment", e)
      withDefault == Reject(withEnv, f, "platform_default", d)
  IN IF r.selected # Empty THEN r
     ELSE IF IsAbsolute(e) THEN AddCandidate(r, f, "xdg_base_dir", e \o leaf, TRUE)
     ELSE IF IsAbsolute(d) THEN AddCandidate(withEnv, f, "platform_default", d \o leaf, TRUE)
     ELSE IF fallback # Empty THEN AddCandidate(withDefault, f, "fallback", fallback \o leaf, TRUE)
     ELSE withDefault

\* user-dirs.dirs: later lines replace earlier ones, relative ones are dropped.
UserDirsConfigured(o, f) ==
  LET lines == {i \in DOMAIN o.userDirs : o.userDirs[i].family = f /\ IsAbsolute(o.userDirs[i].value)}
  IN IF HomeDirectory(o) = Empty \/ lines = {} THEN Empty
     ELSE Normal(o.userDirs[CHOOSE i \in lines : \A j \in lines : j <= i].value)
ParseUserDirs(o) ==
  IF HomeDirectory(o) = Empty THEN {}
  ELSE {Candidate(l.family, "xdg_user_dir", l.value, FALSE) : l \in {x \in ToSet(o.userDirs) : ~IsAbsolute(x.value)}}
         \cup Reject(NoPath, "config", "environment", EnvironmentValue(o, "XDG_CONFIG_HOME")).candidates

SelectUserDirectory(r, o, f) ==
  LET home == HomeDirectory(o)
  IN IF r.selected # Empty THEN r
     ELSE IF UserDirsConfigured(o, f) # Empty THEN AddCandidate(r, f, "xdg_user_dir", UserDirsConfigured(o, f), TRUE)
     ELSE IF home # Empty THEN AddCandidate(r, f, "fallback", Append(home, f), TRUE) ELSE r
-----------------------------------------------------------------------------
(* Path lists *)

\* parse_path_list: one entry per separator, kept in its normal form, or
\* recorded as it is and left out.
Kept(entries) ==
  {i \in DOMAIN entries : /\ IsAbsolute(entries[i])
                          /\ \A j \in 1 .. (i - 1) : IsAbsolute(entries[j]) => Normal(entries[j]) # Normal(entries[i])}
ParsePathList(entries) ==
  [i \in DOMAIN entries |-> IF i \in Kept(entries) THEN [path |-> Normal(entries[i]), selected |-> TRUE]
                            ELSE [path |-> entries[i], selected |-> FALSE]]

\* Site directories are named and never selected.
SiteCandidates(f, entries, leaf) ==
  { IF c.selected THEN Candidate(f, "site_default", c.path \o leaf, FALSE) ELSE Candidate(f, "environment", c.path, FALSE)
    : c \in ToSet(ParsePathList(entries)) }

ExpandHome(p, home) == IF p # Empty /\ p[1] = "~" /\ home # Empty THEN home \o Tail(p) ELSE p

\* resolve_plugin_path_sets, one set: the environment first, then the defaults,
\* then those of the Wine prefix.  An empty default counts as a relative one.
NormalCandidates(paths) == [i \in DOMAIN paths |-> [path |-> Normal(paths[i]), selected |-> IsAbsolute(Normal(paths[i]))]]
WinePrefix(o) ==
  IF o.winePrefix # Empty THEN o.winePrefix
  ELSE IF EnvironmentValue(o, "WINEPREFIX") # Empty THEN EnvironmentValue(o, "WINEPREFIX")
  ELSE IF HomeDirectory(o) # Empty THEN Append(HomeDirectory(o), ".wine") ELSE Empty
PluginCandidates(set, o) ==
  ParsePathList(set.environment)
    \o NormalCandidates([i \in DOMAIN set.defaults |-> ExpandHome(set.defaults[i], HomeDirectory(o))])
    \o (IF WinePrefix(o) = Empty THEN <<>> ELSE NormalCandidates([i \in DOMAIN set.wine |-> WinePrefix(o) \o set.wine[i]]))

\* The selected paths, the first of equal ones.
Distinct(candidates) ==
  LET upTo[n \in 0 .. Len(candidates)] ==
        IF n = 0 THEN <<>>
        ELSE IF candidates[n].selected /\ candidates[n].path \notin ToSet(upTo[n - 1])
             THEN Append(upTo[n - 1], candidates[n].path) ELSE upTo[n - 1]
  IN upTo[Len(candidates)]

PluginPaths(set, o) == Distinct(PluginCandidates(set, o))
-----------------------------------------------------------------------------
(* resolve_app_paths *)

EnvironmentName == [config |-> "XDG_CONFIG_HOME", data |-> "XDG_DATA_HOME", state |-> "XDG_STATE_HOME", cache |-> "XDG_CACHE_HOME"]
HomeLeaf == [config |-> <<".config">>, data |-> <<".local", "share">>, state |-> <<".local", "state">>, cache |-> <<".cache">>]

\* The runtime directory has no fallback and only the application's own name.
ResolveRuntime(r, o, leaf) == SelectBaseDirectory(r, o, "runtime", "XDG_RUNTIME_DIR", Empty, <<Last(leaf)>>)

ResolveFamily(o, f, leaf) ==
  LET home == HomeDirectory(o)
      r == IF f \in UserFamilies THEN NoPath ELSE SelectAbsoluteOverride(NoPath, f, o.override[f])
  IN CASE f \in BaseFamilies ->
            SelectBaseDirectory(r, o, f, EnvironmentName[f], IF home = Empty THEN Empty ELSE home \o HomeLeaf[f], leaf)
       [] f = "runtime" -> ResolveRuntime(r, o, leaf)
       [] f = "temp" -> IF r.selected # Empty \/ o.temp = Empty THEN r ELSE AddCandidate(r, "temp", "fallback", o.temp, TRUE)
       [] f \in UserFamilies -> SelectUserDirectory(r, o, f)

ResolveAppPaths(o, leaf) ==
  [selected |-> [f \in Families |-> ResolveFamily(o, f, leaf).selected],
   candidates |-> UNION {ResolveFamily(o, f, leaf).candidates : f \in Families} \cup ParseUserDirs(o)
                    \cup SiteCandidates("config", o.configDirs, leaf) \cup SiteCandidates("data", o.dataDirs, leaf),
   error |-> \/ \E p \in {o.resourceRoot, o.prefix, o.executable} : p # Empty /\ ~IsAbsolute(p)
             \/ HomeDirectory(o) = Empty /\ ~o.defaultsGiven
             \/ \E f \in Families : ResolveFamily(o, f, leaf).error]

\* Where the program's own files are: beside the executable unless given.
ResolveResources(o, application) ==
  LET executable == IF IsAbsolute(o.executable) THEN o.executable ELSE o.actualExecutable
      directory == IF executable = Empty THEN Empty ELSE Front(executable)
      prefix == IF IsAbsolute(o.prefix) THEN o.prefix
                ELSE IF directory # Empty /\ Last(directory) = "bin" THEN Front(directory) ELSE directory
  IN IF IsAbsolute(o.resourceRoot) THEN o.resourceRoot
     ELSE IF prefix # Empty THEN prefix \o <<"share", application>> ELSE Empty
-----------------------------------------------------------------------------
(* What a caller relies on *)

\* The order of the sources, stated without the algorithm.
Sources(o, f, leaf) ==
  << IF IsAbsolute(o.override[f]) THEN o.override[f] ELSE Empty,
     IF IsAbsolute(EnvironmentValue(o, EnvironmentName[f])) THEN EnvironmentValue(o, EnvironmentName[f]) \o leaf ELSE Empty,
     IF o.defaultsGiven /\ IsAbsolute(o.defaults[f]) THEN o.defaults[f] \o leaf ELSE Empty,
     IF HomeDirectory(o) # Empty THEN HomeDirectory(o) \o HomeLeaf[f] \o leaf ELSE Empty >>
=============================================================================
