------------------------ MODULE MCVersionedSettings ------------------------
(***************************************************************************)
(* Constants for TLC.  Two writers in two processes.                        *)
(***************************************************************************)
EXTENDS VersionedSettings, TLC

CONSTANTS w1, w2, p1, p2, file, alias, a, b

OneEach == w1 :> p1 @@ w2 :> p2

Way(keep, atomic, durable, ok) ==
  [path: {file}, content: {b}, keep_backup: {keep}, atomic_replace: {atomic},
   durable_write: {durable}, valid: {ok}]
\* Ways to write through the path of the file itself; one writes the other content.
AllModes == Way(TRUE, TRUE, TRUE, TRUE) \union Way(FALSE, TRUE, FALSE, TRUE)
            \union Way(TRUE, FALSE, FALSE, FALSE) \union Way(FALSE, FALSE, TRUE, TRUE)
            \union [path: {file}, content: {a}, keep_backup: {TRUE}, atomic_replace: {TRUE},
                    durable_write: {TRUE}, valid: {TRUE}]
\* write_common_config.
CommonConfig == [path: {file}, content: {b}, keep_backup: {TRUE},
                 atomic_replace: {TRUE}, durable_write: {TRUE}, valid: {TRUE}]
None == {}
=============================================================================
