# Verification of LinuxDesktop2026

TLA+ models of the stateful parts of LinuxDesktop2026, checked with TLC on small
instances, with theorems checked by TLAPS for every value of the constants.
Source paths are relative to `src/`, the root of the repository.

## The system

LinuxDesktop2026 is a set of C++17 libraries for porting desktop programs. What
carries state, runs concurrently or can fail half-way:

| part | state | operations | interacts with |
|---|---|---|---|
| watcher (`src/watch.cpp`) | two bounded event queues, `callback_`, `watches_`, `state_`, `stopped_`, three worker threads | `add_watch`, `remove_watch`, `set_callback`, `poll`, `wait`, `wait_for`, `stop`, destructor, move assignment | a backend through `wait_event`, `add_watch`, `remove_watch`, `stop`; the application through the callback |
| settled-file scheduler (`src/watch.cpp`) | pending tasks, ordered deadlines, generations | `enqueue_for_settle`, `cancel_settle_tasks_for`, `run_settle` | raw worker (producer), `deliver` (consumer), the file system |
| inotify backend (`src/watch_inotify.cpp`) | records by wd and by id, pending moves, discovery queue, ready events, `fd_` | `add_watch`, `remove_watch`, `stop`, `wait_event`, discovery worker | kernel queue, `watcher::impl::run` |
| libuv backend (`src/watch_libuv.cpp`) | command queue, ready events, handles of the loop | `submit`, `process_commands`, `stop_on_loop` | libuv's loop thread |
| Windows backend (`src/watch_windows.cpp`) | a worker thread, handle and event per watch | `add_watch`, `remove_watch`, `stop`, `wait_event` | ReadDirectoryChangesW |
| durable write (`src/durable_file_write.cpp`) | none; temp file, backup and target on disk | `write_durable_file` | settings, desktop, migration |
| versioned settings (`src/settings.cpp`) | mutex registry, commit lock file, tokens held by callers | `read_file_version`, `missing_file_version`, `write_versioned`, `write_with_backup`, `ensure_config_defaults` | durable write |
| migration (`src/migration_planning.cpp`, `src/migration_filesystem.cpp`) | none; source and target trees | `plan_migration`, `execute_migration_plan` | file system, the owner of the files |
| registry (`src/migration_registry.cpp`) | none; the registry | `export_tree_*`, `import_tree_*`, `read_value`, `write_value`, `delete_*` | Win32 registry, other programs, documents |
| desktop (`src/desktop.cpp`) | none; owned files, `mimeapps.list`, policy files | `plan_bundle`, `apply_bundle`, `query_bundle`, `remove_bundle` | durable write, other applications of the user |
| paths and roots (`src/paths.cpp`, `src/root.cpp`, `src/settings_roots.cpp`) | none; directories that are created | `resolve_app_paths`, `resolve_plugin_path_sets`, `resolve_app_roots`, `resolve_settings_roots` | environment, home, portable marker, file system |
| C ABI (`src/*_c.cpp`) | reports handed out | conversions | the C++ libraries |

What is hard, part by part:

- **Watcher.** Four kinds of threads share `mutex_`; `stop` works in four
  separate steps and joins with `lifecycle_mutex_` held; the callback may
  call back in, replace itself, throw, or stop the watcher; a queue that
  overflows must keep telling so. Correct means: no event disappears without an
  overflow marker, none is given out twice, the callback sees them in order,
  nobody sleeps through a notification, `stop` returns and leaves no worker
  behind.
- **Settled files.** The worker releases the mutex while it holds a task, so
  events, removals and stop race with it; it sleeps until a deadline that may
  be overtaken. Correct means: the three maps agree, capacity is not leaked, a
  ready event stands for the newest event of its file, due tasks are taken.
- **Backends.** Recursive inotify watching adds a second thread with a bounded
  queue of its own; libuv hands commands over to its loop thread and wakes the submitter
  after the unlock; Windows has a thread per watch that is stopped by a flag, a cancelled
  read and an event object that it may itself reset.
- **Files.** Writers that crash, fail at any step or race with other writers;
  tokens that compare content; moves whose clean-up fails.
- **Registry.** An export that walks by index a tree that another program changes; two
  document formats that do not carry everything; a gate per value.
- **Desktop.** A shared list that everyone reads, changes and writes as a whole; policies
  that are two files; reports that must tell what is really there.
- **Paths and roots.** Four sources per directory with a precedence; a marker that is
  looked at twice; directories that appear between the look and the creation.

`PROJECT.json` lists every hazard at its line with the property that covers it.

## Modules

| module | models | proofs |
|---|---|---|
| `EventQueue` | the bounded queue with its overflow marker, as operators on a record | in `WatchDeliveryProofs` |
| `WatchDelivery` | workers, callback, public methods and `stop` of `watcher::impl` | `WatchDeliveryProofs` |
| `SettleScheduler` | the settled-file scheduler | `SettleSchedulerProofs` |
| `WatcherCalls` | the facade's `add_watch`, `remove_watch` and `stop` as a backend sees them; extended by the next two | |
| `LibuvBackend` | the libuv backend: commands, loop thread, handles | `LibuvBackendProofs` |
| `WindowsBackend` | the Windows backend: a worker and an overlapped read per watch | `WindowsBackendProofs` |
| `InotifyBackend` | the inotify backend and its discovery worker, with the filter of `run()` | `InotifyBackendProofs` |
| `Filters` | `KeepIn`: the erase-remove idiom, as the inotify backend uses it on its queues and the desktop library on the ids of `mimeapps.list` | in `DesktopBundleProofs` |
| `DurableFileWrite` | `write_durable_file` on POSIX, step by step, for several writers, with failing calls and what a power loss may leave | |
| `VersionedSettings` | tokens, the commit guard and every writer of `settings.cpp` on top of it, with processes and machines that stop | `SettingsProofs` |
| `CommitRegister` | what versioned commits promise: one register, replaced atomically if it still shows what the caller expects | |
| `MigrationExecution` | plan and execution of a migration, one call of the file system per step | `MigrationProofs` |
| `RegistrySnapshot` | the two document formats and the permission gate, as operators | |
| `RegistryMigration` | export, import, reading and deletion on a registry that changes | in `MigrationProofs` |
| `DesktopBundle` | the four operations on a bundle, for several applications | `DesktopBundleProofs` |
| `AppPaths` | resolution of paths, as operators | in `SettingsProofs` |
| `AppRoots` | one call of `resolve_app_roots` step by step, and the layers of the settings | in `SettingsProofs` |
| `MC...` | constants for TLC | |

### `EventQueue` and `WatchDelivery`

`queue_` with its flag and count is `pull`; `callback_queue_` is `call`. Both are
`EventQueue!Queue` records and use the same `Enqueue` and `PopFront`; in the code
the functions exist twice (`enqueue_locked`, `enqueue_callback_locked`). Every
critical section of `mutex_` is one action. What a thread carries from one to
the next is explicit: `taken[p]` is the event a producer has checked and not
yet delivered, `current` the event popped from `callback_queue_`, `stopAt[t]` the
place of a thread in `stop`. A thread in `parked` sleeps on a condition variable
and moves again only when an action that notifies removes it; lost wake-ups are
therefore possible in the model. `pc["delivery"] = "calling"` is application code:
there the delivery worker may use every public method, `stop` included.

The event is reduced to what decides its treatment: ordinary, marker (an overflow
event with the `queue_overflow` diagnostic) or failure, whether it is degraded,
and the count its message shows. `ids` and `fate` are history: `fate[n]` says what
became of the n-th event that reached `deliver`, and a marker's `ids` are the
events it accounts for. Real depths are 512; the constants take any depth of
at least 1.

Settled-file events come out of the settle worker as any event of an active
watch (`Take("settle")`). `GivenToSettle` and `SettleOverflow` are the two other
ends of `run()`: the event is kept by the scheduler, or refused with an overflow
marker. `SettleScheduler` models the inside.

### `SettleScheduler`

`pending`, `deadlines` and `generations` are the three containers; `hand` is the
task `run_settle` holds between its sections and `pc` the section it enters next.
A file is a version that every write changes and 0 when it cannot be read;
`changedAt` is history. Time is `now`, advanced by `Tick`. `poll_settle_task`
runs outside the mutex and is one action: that its clock reading and its `stat`
calls fall into one tick is an assumption of the model. A write that leaves size
and mtime as they were is not seen by the code and not modelled.

### `InotifyBackend`

`records` stands for `watch_by_wd_` and `watches_by_id_`, which hold the same
records; `kernel` gives the descriptor of the kernel watch on each path. A record
outlives the kernel watch of a deleted directory, as in the code. `ready`,
`discovery` and `overflowed` are the members of those names. The raw worker's place
is `pc`: it waits, polls without the mutex, maps a batch record by record (each
mapping may take the mutex to queue a discovery request), keeps the first event and
queues the others, and hands an event to `Report`, the test for an active watch in
`watcher::impl::run()` (`src/watch.cpp`). The discovery worker's place is `walker`: every
access to the file system and every section of the mutex is a step, so the tree
may change between any two of them. `recursive_directory_iterator` lists a directory
when it enters it; `listed` holds what it has not visited, in any order, and an
entry that is gone when it is visited is still reported with the type it was listed
with. A directory that cannot be opened ends the walk with a warning.

The kernel is the environment: `queued` keeps events in order, takes one overflow
event when full, and a deleted directory loses its watch. History are `lost`, the ids that
lost a discovery request, `missed`, those an event of which found the kernel's queue full,
`erased`, whether a discovery marker went before anyone was told, `told`, the ids the
application was told to distrust (an overflow or a diagnostic of the walk, warnings
included), and `known`, which paths it has been told of.

### `DurableFileWrite`, `VersionedSettings` and `CommitRegister`

One file, `Main`, and other paths that are at first symbolic links to it. A file is one
image: a content, `Absent`, or `Torn`, which stands for every image that is not all of
one content. `now` is what a reader of a path sees. `disk` holds the images the file at
that path may have after a power loss, and `older` those of earlier files that the entry
on disk may still lead to: `fsync` of a file reduces the first, `fsync` of its directory
empties the second. `op[w]` has the options and locals of a call of `write_durable_file`,
`pc[w]` its next step; every system call that others can observe is a step that may fail
(`MaxFaults`). Creating, filling, syncing and validating the temporary file is one step,
because its name is private to the call until the rename. `copy_file` truncates its
target, fills it and flushes nothing. A rename replaces the entry of the path it is given,
a link included, and whoever has the old file open goes on with a file that has no name
(`LoseName`). Two writers of one open file may mix their bytes (`Written`). Without
`durable_write` the file is flushed when the stream is closed, where a failure goes
unnoticed (`LoseWrite`).

`VersionedSettings` adds the callers. A writer is a thread of a process; `mutex` has the
entry of `mutex_for_target` for each process and lock domain, `flock` the lock on the file
beside a domain. `WriteVersioned` makes the checks that come before the guard,
`TargetMatchesToken` the comparison under it, `Write` wraps each step of the durable write,
and `Finish` returns the report and releases the guard. `WriteUnguarded` is
`write_with_backup` and `write_common_config`; `EnsureDefault` and the two steps after it are
`ensure_config_defaults`. `Kill` stops a process at any step, and the kernel releases its
locks; `PowerLoss` stops everybody and picks an image from what the disk may hold. `live` and
`safe` are history: what readers, and what a power loss, may find while nobody writes. Two
torn images compare equal or not. A token's content and domain are read in one step, and the
parents of the file, including their links, do not change.

`CommitRegister` is abstract: a commit asks, is applied if the register shows what it
expects, and is answered; one that was applied may be taken back. The answer is part of it:
`"ok"` is said only of a commit that is in place, `"stale"` only of one that changed nothing,
and a `"failed"` one leaves a torn register only if it writes in place. The refinement
(`CommitsAreAtomic`) maps a commit in place to the moment its content is written; the torn
image before that still counts for the image it replaces.

### `WatcherCalls`, `LibuvBackend` and `WindowsBackend`

`WatcherCalls` has the facade's mutex (`outer`), identifiers and stop flag, and for every
caller where its call is: `inside` the backend, `answered`, `joining` the worker. `add_watch`
and `remove_watch` hold the mutex through the backend call, `stop` does not. A backend
extends it with what happens in between.

In `LibuvBackend` a command is known by its caller, which has one at a time: `alive` are the
commands that exist, `completed` and `notified` what the loop thread has done to them,
`serving` the one it is working on. `Complete` and `Notify` are two steps, as the code
unlocks between them. The loop is reduced to what the backend relies on: a signal sent to an
open async handle is answered later, a closed handle is freed by a later turn, and `uv_run`
returns when no handle is left. `Spurious` says whether a condition variable may wake without
a notification.

In `WindowsBackend` every call of `run()` and `stop_worker` that another thread can notice is
a step: the flag, `CancelIoEx`, `SetEvent`, the join and the closing of the handles on one
side; the test of the flag, `ResetEvent`, the read, the wait in pieces of 100 ms and
`GetOverlappedResult` on the other. `io` is the state of the overlapped read, `signal` the
event object; a handle and its event object are opened and closed together and are one thing.
The kernel holds changes from the first read on, and may give them up for an empty completion.
`renamed` is `pending_rename`. `owed` is history: the watches with an overflow no event tells.

### `MigrationExecution`

A location holds nothing, a file, a link or a directory of entries, each with a content. An
action goes through `check`, `parents`, `copy`, `verify`, `remove`, `rollback` and `finish`;
copying, verifying and removing take one entry per step, in any order, may fail at each, and a
copy may be incomplete without an error. `VerifyFails` is an error of the verification that
the code sees, `VerifyDone` with entries left one that it does not. `existed` is
`result.target_existed_before`, `results` is `report.actions`. The owner writes to the source
up to the comparison of an entry. `vouched` and `lapses` are history: what the verification
saw, and whether a clean-up has failed or a verification was cut short.

### `RegistrySnapshot` and `RegistryMigration`

A key is a sequence of names, its values a sequence in the order Windows numbers them.
`EnumValue` and `EnumSubkey` ask for an index in the key as it is at that moment, after a count
that was taken earlier. A document is what the reader makes of what the writer wrote
(`ThroughJson`, `ThroughReg`), or refused as a whole: names and texts matter by the signs the
formats stumble over, types by whether they have a form. Documents from elsewhere are sets of
defects. Every imported value passes `WriteAllowed` for its own key and is written with the
type `registry_type_to_native` gives it (`Native`); when `RegSetValueExW` fails the key that
`RegCreateKeyExW` made stays (`WithKey`).

### `DesktopBundle`

A bundle is a sequence of items, a call goes through them one after another: `Refuse`, `Query`
and `DryRun` finish an item at once, `Start` begins to change something. Owned files are
replaced whole by the durable write, icons are copied in place and may be torn; a policy is two
files; a registration is `ReadList` and `UpdateList` with nothing locked in between, and names
one or more desktop ids, of which queries look at the first. A removal, and an apply of a
default with `make_default` off (`Removing`), looks for that id before it (`Look`). A write may
fail before its rename or after it (`WriteFails`, `WriteLock`, `UpdateListFails`), and then the
new content is in place although the item is reported failed. `QueryFails` are the looks that
fail: some queries take the error for absence (`TakesErrorForAbsence`). `Conclude` is
`append_effect_report`: the item's status and a row for each file it generates. `raced` is
history: an update began before another one had written; `staged` are the registrations
reported staged until a removal by their owner has written the list, failed reports included;
`blind` are the items whose look failed; `halfRemoved` are policies whose removal stopped
between its files.

### `AppPaths` and `AppRoots`

A path is the sequence of its segments, an absolute one begins with `"/"`; `Segments` says
what a segment can be. `ResolveFamily` tries the sources of one family in the code's order and
keeps each candidate or rejects it with its error; no family depends on another, so
`ResolveAppPaths` puts their results together. `Normal` is `lexically_normal`, one segment at
a time, and `Distinct` keeps the first of equal search paths, both as recursive functions.
`PluginPaths` is one set of `resolve_plugin_path_sets`. `AppRoots` is one call: override, the
two looks at the marker, portable root, defaults, named roots, and then one look and one
creation per directory, while `OtherProcess` makes and removes marker and directories. `todo`
holds the directories to come by their place in the request or among `StandardPaths`, and the
least place is next. `IsUnder` compares normal forms, as `path_is_at_or_under` does, and the
directory that is created is the path as it is spelled.
`Sources` states the precedence a second time, without the algorithm, for the comparison.

## Runs

| run | what it shows |
|---|---|
| `watch_delivery` | one application thread, two-place queues, four events: conservation, order and consistency of the queues across overflow, callback replacement, exceptions, removal and shutdown |
| `watch_shutdown` | two application threads or the callback stop a watcher with one-place queues: nobody sleeps for ever, `stop` returns after the workers have ended, a running watcher drains its callback queue |
| `watch_stop_deadlock` | violation: `stop` from outside and from the callback wait for each other |
| `settle_scheduler` | one file of a busy watch and two of a quiet one: maps, capacity, readiness, and that due tasks are taken |
| `inotify_backend` | two recursive watches, one inside the other, two directories that appear and may come back, a kernel queue of two, one mishap: where the kernel dropped nothing, everything made once is watched and reported or the application was told; a loss is told unless a marker was erased; a removed watch stays removed |
| `libuv_backend` | three callers add, remove and stop: no event of a new watch is dropped, every call returns |
| `windows_backend` | two callers, a directory and a file, a rename and a mishap: losses are told, every join and call returns |
| `versioned_settings` | two processes write one file with and without tokens in every write mode, one call fails, a process or the machine stops: commits are atomic against their token, acknowledged contents are visible and durable, every call returns |
| `migration` | moves, copies and renames with two mishaps and a write by the owner: no content is lost before a clean-up fails or a verification is cut short, `executed` means done, an old target is kept |
| `registry` | a small tree is exported while another program makes one change, and imported from both formats, with a failing call and every combination of permissions |
| `desktop` | two applications register, query and remove, with all permissions or with none, a step that fails before or after its change, or a killed process |
| `app_roots` | every combination of sources of a path, spellings of a search path, overrides, portable roots and named roots, with two changes by others |

Bounds. Four events fill a two-place queue, overflow it, raise the count and
leave one event to arrive after the marker was taken; callbacks may be set,
cleared and throw any number of times. One-place queues are the smallest in which
the oldest event is also the newest. Watches only decide whether an event is
delivered, so one id, added and removed, has both cases; ids are never reused
(`next_id_`). The scheduler's clock goes to 2, with `poll_interval` 1 and
`timeout_after` 2: a file of the busy watch is looked at, found changed, looked at again
after the poll interval or at the timeout, and found stable or timed out. Two events of one
file give a superseded generation; the third file makes one more path than the smaller watch
has places for.

The inotify tree has the root, a directory and one inside it, so that a
directory can appear in one that is being walked. The first watch is on the root, the second on
the directory, where it shares the descriptor of the first; both are recursive, so that the
inner directory is discovered for both and fills the discovery queue, whose depth is 1. Each
directory may be made twice (`MaxCreations`), and `MaxMishaps` is 1: one
directory vanishes, or one `inotify_add_watch` is refused, at any moment. The kernel's queue
holds two events. So all three ways in which the code keeps silent (see the divergences) occur in
the run: TLC reaches settled states with a loss nobody was told of, with `overflowed` up for
ever, with a directory uncovered after a kernel overflow and with one uncovered after it came
back, and states in which one watch has missed an event and the other can be relied on. Other
programs are quiet once the watcher stops, since nothing the backend does depends on the tree
from then on.

The libuv run has three callers, four calls, two identifiers and one event: a removal, an
addition and two stops can be under way at once, and the loop finds all of them queued. No
wait ends without a notification (`Spurious = FALSE`). The Windows run has two callers, three
calls and two watches, the second on a file that is the new name of the one rename, so that its
worker maps only the second record; a mishap is one lost buffer or one failed call.

The settings run has two writers in two processes, two contents, two calls, one failing
system call and one crash. The requests cover backup or not, atomic or in place, durable or
not, accepted or rejected by the validation, and the unguarded write is the one
`write_common_config` makes. Two calls are enough for a commit to meet a commit, an
unguarded write or a default under way, and for a crash or a failure between any two of
their steps; that a content comes back and revives an old token takes a third commit and is
not reached. `Disciplined` keeps unguarded writes from overlapping with others: ADR 0016
places them outside the protocol. Every request names the file itself.

The migration run has plans of one and two actions on three locations: the target of one action
is the source of the next, or both have one source; sources are a directory, a file or a link, targets free or
taken, options all sixteen. Two mishaps are a failed clean-up and a failed rollback, or an
incomplete copy or a verification cut short and a failure. The registry has a key with a subkey that is named like the
policies, so that importing below `software` meets a policy key; names and values include one
of each kind a format cannot carry. One change by another program is the most
`ExportIsComplete` holds for. The desktop run has three calls and one fault: an apply, a
removal and another application in between. Its bundles have one item of each kind of treatment,
a registration of two ids and a default that is applied with `make_default` off. There is no
dry-run option besides `plan`, which is one.
`app_roots` needs no more than two changes: the marker, or a directory, there and back.

`CHECK_DEADLOCK FALSE` is given because a stopped watcher, a system whose events are used
up and writers, calls and plans that are used up have nothing left to do.

Fairness is weak fairness of each thread of the watcher: the operating system
runs every thread that can run. Callbacks are taken to return (`DeliveryStep`
contains `CallbackReturns`); a callback that never does blocks `stop`, as the
header says. Application threads need not call anything: `Take`, `AddWatch`,
`SetCallback`, `WaitBegins`, `StopBegins` and the timeout of `wait_for` have no
fairness. In `SettleScheduler` the worker and a caller that is already in `stop` are
fair; the clock and the writers are not. In `LibuvBackend` and `WindowsBackend` a caller
inside a call, the loop thread or the watches' threads, and the facade's worker are fair; new
calls and changes are not, and Windows need not complete a read. In `VersionedSettings` a
thread inside a call is fair, and nobody has to start one. The other modules are checked for
safety only.

## What the violation shows

`StopReturns` under `watch_stop_deadlock`: `include/linuxdesktop/watch.hpp` allows
`stop()` in the callback. If another thread is already joining the delivery worker
it holds `lifecycle_mutex_`, which the callback's `stop()` then waits for. In
`watch_shutdown` only one of the two sides stops the watcher, and the same
property holds.

## Divergences met while modelling

The models have these behaviours; the properties above except them, by a bound or by a
condition, each named here. None has a run of its own.

- `docs/adr/0010-design-file-watcher-module.md` says `stop` "moves the stream to `stopped`".
  `deliver`, `enqueue_locked` and `handle_callback_exception` do not look at `stopped_`, so a
  worker that was past its check sets `degraded` (`WatchDelivery!state`).
- The ADR demands an event and a degraded state for an overflow ("overflow and lost-sync cannot
  be silently swallowed"). `overflow_event_locked` of the inotify backend gives its event no
  source, and `run()` drops events whose source is not an active watch: nobody is told of an
  overflow of the kernel's queue. The properties are about the watches of which no event was
  dropped (`missed`).
- When `remove_watch` erases a pending discovery marker it leaves `discovery_queue_overflowed_`
  up, nothing lowers it again, and later losses of the other watches are not told. `LossIsTold`
  ends at that moment (`erased`), and `Trusted` leaves out a watch that lost a request then or
  later.
- Records of deleted directories are never removed, and `has_watch_root_locked` takes a new
  directory of the same name for watched. Coverage and reports are about paths no part of which
  was made again (`MadeOnce`).
- Without `watch_directories` a recursive watch does not discover new directories either;
  `Trusted` asks for it.
- After its rename `write_durable_file` reads the target back; a different content, which
  another writer's rename may have put there, counts as damage, and the backup is copied over
  the target in place: two overlapping saves without a token can leave a torn file
  (`VersionedSettings` without `Disciplined`).
- ADR 0016 lets a link and its target share the guard, and they do; but the rename replaces the
  link, and the file behind it keeps the old content: with requests through a link
  `AcknowledgedIsVisible` fails.
- `process_commands` of the libuv backend notifies after the unlock. If the submitter's wait ends
  without being notified, which a condition variable may do, the command is gone: with
  `Spurious = TRUE` the model has a state in which the loop thread holds a command that is no
  longer in `alive`. With `FALSE` that is excluded by the guard of the wait, so no property of
  the run speaks of it.
- `map_raw` of the Windows backend keeps `pending_rename` over records it filters out, so that a
  new name may be paired with an old one of another rename.
- A directory move whose clean-up fails half-way removes the copy and reports a successful
  rollback, though some files are gone from the source (`migration_filesystem.cpp:164`);
  `KeepsContent` ends at the failed clean-up.
- The walk of `verify_supported_directory_copy` tests the error of `iterator.increment(ec)` in
  the body of its loop, but an error makes the iterator the end iterator and the loop ends first
  (`migration_internal.hpp:323-331`, and likewise 161-169): a verification that stopped half-way
  returns true, and a move then removes the source. `KeepsContent` ends there too.
- A registry value of a type the library does not know is written to a document as `unknown` and
  imported as `REG_BINARY` (`migration_registry.cpp:1147-1167`); `ImportIsFaithful` asks for the
  type the value had, or binary for such a value.
- An export that meets a removal and an addition in one key misses a value without an error;
  `ExportIsComplete` allows for one change. `read_value` takes type and bytes from two queries.
- The reader of a `.reg` document takes its first section for the root, and texts end at their
  first zero (`migration_registry.cpp:821`); `Carried` says what comes back.
- Two applications that update `mimeapps.list` at once lose one update; `StagedStays` excepts
  them by `raced`. Explicit cleanup rules remove files in `remove_bundle` even in a dry run
  (`desktop.cpp:2468`).
- A save that fails at the flush of the directory or the readback has replaced the file
  (`durable_file_write.cpp:494-526`): a removal or a registration that `desktop.cpp` reports as
  failed may have been made. `StagedStays` counts a registration until its removal has written
  the list, whatever the report says. A readback that finds other content restores nothing here:
  the desktop writes keep no backup.
- `query_autostart`, `query_policy` and `query_mimeapps_key` report an item missing, without an
  error, when `exists` fails (`desktop.cpp:1021`, `1623`, `2107`). `ReportIsTrue` excepts those
  answers (`blind`) and no others; "failed" claims nothing.
- A cleanup rule whose parent directory cannot be removed is reported failed although the file is
  gone (`desktop.cpp:2477-2499`); `exists(parent)` without an error code may also throw, which
  looks like a process that dies. The parent directories are not modelled.
- When there is no state root, `sessions` and the plugin directory are relative and are created
  below the working directory (`root.cpp:710`); `CreatedInside` asks for roots that were found.

## Proofs

`WatchDeliveryProofs` begins with lemmas about the queue operators of `EventQueue`, for every
queue, event and depth: they keep the type, and they keep `QueueConsistent` (a raised flag means a
marker at the front that shows the current count, a lowered flag means count 0,
and the length is within the depth). `EnqueueAccounts` and `PopFrontAccounts` say what
becomes of the arrivals: an enqueue holds the old ones and the new one, a pop gives up the
front's, each arrival is held once, and the order by age is kept. `EnqueuePlain` and
`PopFrontPlain` say where plain events and markers come from: what an overflow folds into a
marker is no longer plain, and no marker appears without an overflow or a marker enqueued.

It proves, for all constants that satisfy the assumptions of `WatchDelivery`, `TypeCorrect` (`Spec => []TypeOK`) and `QueuesStayConsistent`
(`Spec => []QueuesConsistent`). The inductive invariant is `TypeOK /\
QueuesConsistent`: consistency needs the type for the lemmas, and since it talks
about nothing but the two queues it is inductive with it. A step either leaves a
queue alone, enqueues or pops, and each case is a lemma.

On top of it, `Accounted` is inductive and yields `EventsAreConserved` (`Spec =>
[]Conservation`), `LossIsNeverClean` (`Spec => []LossDegradesStream`) and `DeliveryIsOrdered`
(`Spec => DeliveredOnceInOrder`). It adds to the two invariants `CallOrder`: what the callback
has seen is older than the plain event in the delivery worker's hands, and that is older than
the plain events of `callback_queue_`, which are in order; a marker has no place in the order,
since it stands for arrivals of any age. `MarkerInHand` says that a marker the worker has
popped still means a stream that is not clean, which `FallBackToQueue` relies on when it
enqueues it again. An arrival is younger than all that is held, so an enqueue keeps the order;
an event that falls back to `queue_` leaves the order of the callback.

Its last part has two theorems about threads. `WakeupsAreNotLost` (`Spec =>
[]NoLostWakeup`): the property is inductive relative to the invariant above. An
enqueue that does not notify meets an overflowed queue; `QueuesConsistent` says that
such a queue is not empty, so nobody sleeps on it. `StopLeavesNoWorker` (`Spec =>
[]StopJoinsWorkers`): the property alone is not inductive, since it speaks only of a
`stop` that has returned; `Joined` says for each thread inside `stop` that the workers it
has passed are not joinable, and of each worker that is not joinable that it has
ended or is the delivery worker that detached itself. That two callers of `stop` share
the joins, and that clients are not workers, is all it needs.

`InotifyBackendProofs` proves `RemovedWatchesStayRemoved` (`Spec =>
[]RemovedStaysRemoved`), which is inductive by itself: a record is added only by
`add_watch`, which activates the watch in the same step, and by `add_discovered_watch`,
which looks for a record of the watch in the same critical section. `TypeCorrect` needs
`Basics`: where the two workers are in their loops, and that a descriptor names one directory
for good, in the kernel, in the tables and in the events not yet read, so that an event is
always mapped to a path of the tree.

Its other three theorems are about what the application is told. They hold of the
specification without a hypothesis on the constants: where the code keeps silent (divergences
above) the properties themselves say so, of a state and not of an instance, so that the kernel's
queue may overflow, any watch may be removed and any directory may come back, and what is
left must hold for all the others.

- `LossesAreTold` (`LossIsTold`). The invariant `Losses`: unless a marker was erased, while a
  loss is untold a marker that `run()` will let through is on its way, and whenever
  `discovery_queue_overflowed_` is up there is such a marker, or no watch to tell.
- `DirectoriesAreCovered` (`CoveredOrTold`) and `EntriesAreReported` (`ReportedOrTold`). A path
  made once has only parents made once (`MadeOnceAbove`) and was made once before every step
  (`MadeOnceBefore`), so that what came back elsewhere in the tree cannot reach it. `Coverage`
  and `Reports` say
  for each entry under a watch the application need not distrust (`Sound`) where it is on its
  way: in an event not yet mapped (`InFlight`), in a request (`Requested`), before the
  discovery worker (`InWalk`), in an event ready to be handed over (`Announced`) — or its own
  directory is not watched yet, and will be listed when it is. The last clause is what makes
  the invariant inductive: an entry made before its directory is watched has no event at all.

`SettingsProofs` proves `TypeCorrect` (`Spec => []TypeOK`), for which a backup must
be known to be copied from an open file (`SourceOpen`), and `CommitsReplaceWhatTheyCompared`:
if every request names the file itself and the unguarded writers are disciplined
(`OneFile`), then `Spec => []TokenStaysCurrent`, for any number of writers, processes,
failures and crashes. The property is not inductive. `GuardInv` adds that every guard is on
the one domain of the file (`OpPaths`), that whoever compares or writes under a guard is the
one who holds its lock (`HoldsLock`), and that an unguarded writer under way is alone
(`AloneUnguarded`); `IdleUnguarded` says who has no guard. `WriterMoves` sums up what any step
of a durable write does: it moves its own writer and leaves the file alone until the
replacement. So a step that changes the file is of the lock's holder, who is past its own
comparison, or of a writer who is alone. Both assumptions are needed: a link to a missing
file has a lock domain of its own, and an unguarded write ignores the lock.

`CommitsImplementRegister` (`Spec => CommitsAreAtomic`, under `OneFile`) is the refinement of
`CommitRegister`. To `GuardInv` and `IdleUnguarded` it adds `CommitInv`, which says of each
writer under the guard what its step has made of the file and the backup: a file it has
truncated is torn and open in its hands, one it has renamed into place shows its content, and
a backup it has made is the image of its token, which is why a restore takes the commit back
and does not bring in another image. `Turn` collects what the steps of a write share: the
others' requests and answers stay, and the register shows what follows from the file and this
writer alone, as no one else can be replacing it. Each step of the write is then a lemma (`OpenTurn`,
`RenameTurn`, `OpenRestoreTurn`, ...) that names its step of the register or the stutter. A kill in mid-write
leaves a torn file only if the commit was in place or restoring.

`FileShowsTheAcknowledged` and `PowerLossLeavesTheAcknowledged` (`Spec =>
[]AcknowledgedIsVisible` and `Spec => []AcknowledgedSurvives`, under `OneFile`) rest on
`FileInv`. Neither property is inductive: both say what is left after a write, so the invariant
follows the one writer at work (`OneBusy`). `Doing` says which modes reach which step and what
is open, `Shows` what a reader sees at that step and that the backup is a content readers might
have been shown, `Leaves` what is on the disk: the content alone after the `fsync`, no older
entry after the directory is flushed, and a backup that may be left on the disk, so that a
restore brings back nothing that the acknowledgements do not allow. `Acting` and `Acted` state
a step's share of it, each step is a lemma (`SyncActs`, `RenameActs`, `RestoreActs`, ...), and
`CalmStep` covers those of writers who are not at work. In place, `Acknowledged` must keep
`older`: the entry of a file that was not created by this write may still lead to an older one;
without that the proof fails at the acknowledgement, and TLC finds the state.

The second part of `SettingsProofs` is about the roots, for any requests, segments and leaf
and any number of changes by others. What `RootsAssumption` asks is that the requests are
requests: paths are sequences of segments, and the application's leaf is not empty. `Normal`
and `Distinct` are recursive functions; that such a function exists and satisfies its equation
(`Recursion`) is proved by induction over the numbers up to a bound (`UpTo`).

- `BestSourceAlwaysWins` (`RootsSpec => []BestSourceWins`) holds of the request alone. `BaseSelects`
  reduces the candidates of a family to one choice, `BaseIsBest` compares it with `Sources`.
  `DistinctInFirstOrder` says of each prefix of the candidates what the search path holds by
  then: each usable path once, in the order in which it first occurs.
- `ModeAlwaysWhole` (`[]ModeIsWhole`) rests on `ModeInv`, which relates the mode and the roots
  from the moment the mode is chosen: all roots are those of the override, or of the portable
  root the second look has found. It survives the step that applies the defaults because the
  configuration of such a root is never empty and a user's override may move the configuration
  only. `PortableLayerIsWritten` finds the layer that is written.
- `AlwaysCreatedInside` (`[]CreatedInside`) rests on `CreationInv`: what is still to create
  lies below the roots as well, and the roots do not change any more. A path that a request
  names was compared with its base; the base may itself be a directory below the configuration,
  so `InsideInside` and `NormalAppend` are needed. `InsideAppend` covers what is derived.
- `RootsTypeCorrect` (`[]RootsTypeOK`). The invariant of all four is `RootsInv == RootsTypeOK /\
  ModeInv /\ CreationInv`; TLC has checked it on the instance of `app_roots`.

`SettleSchedulerProofs` proves `TypeCorrect`, `MapsAlwaysAgree`, `SlotsDoNotLeak`,
`SettledStandsForLatest` and `ReadyFilesAreQuiet` for any files, watches, options and bounds.
The invariant is `TypeOK /\ OneInHand /\ MapsAgree /\ NoSlotLeaks /\ Numbered /\ Looked`.
`MapsAgree` is not inductive: an event that arrives for a key whose task is in hand must not
give the new generation the number in hand. `Numbered` says that a task is never ahead of
its key, unless its watch is gone for good, and that a current task carries the last event
taken in. `cancel_settle_tasks_for` erases the generations, so numbers would be used again; it
is sound only because identifiers of watches are not. `Looked` says of each task that the
version it has seen, if the file still has it, is older than `stable_since`; that versions do
not come back is the assumption under `SettleScheduler` above.

`LibuvBackendProofs` proves `ActiveEventsAreReported` (`Spec => ActiveEventsReported`), with
spurious wake-ups or without. A command is in the queue once and new while it is there
(`CommandInv`). A call keeps
the facade's mutex from its own check until the facade has recorded the answer, so that when
the worker holds it to filter an event no call is halfway (`MutexHeld`), and then the loop
thread's watches and the facade's are the same (`SameWatches`).

`WindowsBackendProofs` proves
`WindowsLossIsTold` (`Spec => []LossIsTold`) for any callers, watches, changes and failures;
what it asks of the constants is that the kernel's records are records (`HappeningsAssumption`).
It needs why nothing is lost
between a worker that is started and the consumer: a worker in the map is not being stopped
and its read is not cancelled (`StopperInv`), so that it ends only after an error is pushed;
the workers in a caller's hands are out of the map (`CallerInv`), so that stopping one does
not touch another in use; a worker is recorded at the facade or its caller still holds the
facade's mutex (`RecordInv`), so that the facade does not drop its events as a stranger's.

`MigrationProofs` proves `NoContentIsLost`, `ExecutedIsDone` and `OldTargetIsKept` for any
plans, trees, options, failures and writes. Its assumptions are that no action of a plan has
its source as its target and that a file is a location with the entry `Self` only. The
invariant says for each step what the earlier ones have established: `Copying` (what is not
left to copy is in the target), `Verifying` (what is not left to verify was found equal and
has not been written since), `Removing` (what is still in the source is equal in the target, unless a clean-up
failed or a verification was cut short), `RollingBack` (only of a target that was not there before), `Finishing` and `Vouching`.
`ReportKeeps` covers every way an action can end.

The same module proves the registry's properties for any keys, values, options, documents and
failures, from `RegistryAssumption` alone: a key and the keys above it have a place in the
order of the registry, a key holds a name once.

- `ChangesAlwaysPermitted` (`ChangesArePermitted`): the gate is asked about the very key that
  changes.
- `ExportAlwaysComplete` (`ExportIsComplete`). `NothingLost` says of each value that was not
  touched that it is in the snapshot or `Ahead`: below a key that waits, or in the key in hand
  at a number still to come. A removal moves numbers, so that `Ahead` breaks; but then the
  enumeration is `Doomed`, it has counted more than there is and will ask for the number that
  is missing. `Counted` is why one change can do no more: before it the count is right.
  `ChildOnTheWay` finds the subkey on the way to a deeper key, by induction over the length
  of paths (`AncestorsExist`).
- `ImportAlwaysFaithful` (`ImportIsFaithful`) needs besides that no item of the snapshot
  replaces another when it is imported: `Orderly` says that the waiting keys are not below each
  other, that nothing in the snapshot is below them, that what has been enumerated of the key in
  hand has a smaller number, and that the root's own values come first, which a `.reg`
  document depends on. `Brought` follows the items through the document (`ImageItems`) to
  their places, where each stands as `Native` makes it.

`DesktopBundleProofs` proves the three properties of `DesktopBundle` for any applications, bundles,
options, calls and faults. It begins with what `KeepIn` keeps of a sequence, by induction over
the length as a set of numbers with a least element (`LeastNumber`, `Induction`). `View` then
says of every step of a call what it does to the call (`Moves`, `Ends`) and to what is shared;
the three proofs need no more than that and `Inv`, which places a call by the kind of its item.

- `ForeignRegistrationsStay` (`ForeignKept`) supposes `ForeignIsForeign`: other programs' ids
  are not ours, or a removal would rightly take them out. The invariant covers the list and
  every copy of it that a call has read and not yet written back.
- `StagedRegistrationsStay` (`StagedStays`), failures after the rename included, supposes that no two items make the same registration
  (`RegistrationsDiffer`): the removal of one would take the other's. `OneUpdate`: as long as no
  two updates have overlapped, the one under way has read the list as it is. For the locks it
  supposes `FilesDiffer` and `PoliciesAreOwn`: nobody else places a policy's files, no cleanup
  rule names them, and no lock is there at first without its value.
- `ReportsAreTrue` (`ReportIsTrue`) supposes `FilesDiffer`: two applications name no file in common,
  and two items of a bundle do not place the same one; the report of a second writer's file
  would be about the first one's. A cleanup rule may name a file of its own bundle, as in the
  checked instance. `AllTold` says it already of a call that has not ended, item by item, and
  of a policy between its two files.

The constants of the `desktop` run meet these hypotheses, and the invariants were checked by TLC
on them before they were proved.

What stays with TLC: liveness (`StopReturns`, `CallbackQueueDrains`, `DueTasksAreTaken`, `CallsReturn`),
which depends on fairness. The library's induction theorems take an operator as a parameter, which no installed prover can
instantiate; induction over a set of numbers, as for `KeepIn` and `Normal`, is possible and has
to be done for each function.

## Plan

Done: the watcher with its scheduler and its three backends, durable write and versioned
settings with the refinement of `CommitRegister`, migration, registry, desktop bundles, paths
and roots.

Left, in order:

1. Renames, symbolic links and watches on one file in `InotifyBackend`.
2. The memory protocol of the C ABI: what a report holds after an allocation failed half-way.

## Not modelled

Names of enums and capability reports, the wording of diagnostics, the text of desktop
entries and MIME packages, the Windows branches of paths, desktop and durable write, and the C
ABI wrappers, which convert and call through. The grammar of the registry documents is
abstracted to what the readers keep and refuse. `PROJECT.json` says for each component what is
left out of it.
