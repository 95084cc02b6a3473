-------------------------- MODULE MCDesktopBundle --------------------------
(***************************************************************************)
(* Two applications that register for the same MIME type in a list another *)
(* program already uses.                                                   *)
(***************************************************************************)
EXTENDS DesktopBundle, TLC

Base == [valid |-> TRUE, located |-> TRUE, user |-> TRUE]
Owned(kind, path) == Base @@ [kind |-> kind, path |-> path, content |-> path]
Registration(kind, key, ids) == Base @@ [kind |-> kind, key |-> key, ids |-> ids, make_default |-> TRUE]
Rule(path) == Base @@ [kind |-> "cleanup", path |-> path, directory |-> FALSE, remove_empty_parent |-> TRUE]
Policy == [Base EXCEPT !.user = FALSE] @@
  [kind |-> "policy", path |-> "defaults", lock |-> "locks", enforced |-> TRUE, content |-> "theme"]

MCBundle ==
  "editor" :> << Owned("icon", "icon"), Registration("mime_association", <<"text", "x-a">>, <<"editor", "editor2">>),
                 Policy, Rule("old"), Rule("icon") >>
  @@ "viewer" :> << [Owned("desktop_entry", "entry") EXCEPT !.located = FALSE], Owned("autostart", "start"),
                    Registration("mime_association", <<"text", "x-a">>, <<"viewer">>),
                    [Registration("default_application", <<"text", "x-a">>, <<"viewer">>) EXCEPT !.make_default = FALSE],
                    Registration("url_scheme_handler", "x", <<"viewer">>) >>

Permitted == [dryRun |-> FALSE, write |-> TRUE, policy |-> TRUE, global |-> TRUE]
Denied == [op \in DOMAIN Permitted |-> FALSE]
MCOptions == {Permitted, Denied}

MCForeign ==
  <<"Added Associations", <<"text", "x-a">>>> :> <<"other", "third">>
  @@ <<"Default Applications", <<"text", "x-a">>>> :> <<"other">> @@ <<"Default Applications", SchemeKey("x")>> :> <<"other">>
MCLitter == "old" :> "old"
=============================================================================
