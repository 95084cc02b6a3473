---------------------------- MODULE InotifyBackend ----------------------------
(***************************************************************************)
(* The inotify backend (src/src/watch_inotify.cpp) with the filter of      *)
(* watcher::impl::run() that its events pass through.  The raw worker      *)
(* reads the kernel queue and maps it; for a directory that appears under  *)
(* an emulated recursive watch it queues a discovery request.  The         *)
(* discovery worker walks such a directory while it may still be growing,  *)
(* adds a kernel watch to everything it finds and reports it as created.   *)
(*                                                                         *)
(* Every critical section of the backend's mutex_ and every access to the  *)
(* file system is one action; add_watch holds mutex_ over its whole walk   *)
(* and is one.  Left out: renames, symbolic links, a watch on one file,    *)
(* events that tell of a change inside a file or of the watched directory  *)
(* itself, and diagnostics of level info.                                  *)
(***************************************************************************)
EXTENDS Filters, FiniteSets, SequencesExt

CONSTANTS
  Ids,                 \* watch ids, given out in order
  Names,               \* names of directory entries
  Paths, Files,        \* paths below and at <<>>, and which of them are files
  InitialTree,         \* what exists at first
  RootOf,              \* the watched directory, by id
  Recursive,           \* ids with recursive_policy::emulate
  Wanted,              \* {"dir", "file"} by id: watch_directories, watch_files
  MaxDiscoveryDepth,   \* max_discovery_queue_depth
  KernelDepth,         \* external: fs.inotify.max_queued_events
  MaxCreations,        \* bound: how often each path is created
  MaxMishaps           \* bound: deleted paths and refused inotify_add_watch calls

Dirs == Paths \ Files
Under(d) == {p \in Paths : IsPrefix(d, p)}
ChildrenOf(d) == {p \in Paths : p # <<>> /\ Front(p) = d}
TypeOf(p) == IF p \in Files THEN "file" ELSE "dir"

ASSUME PathsAssumption ==
  /\ Paths \subseteq Seq(Names) /\ Files \subseteq Paths /\ <<>> \in Dirs
  /\ IsFiniteSet(Paths)
  /\ \A p \in Paths : p # <<>> => Front(p) \in Dirs
  /\ InitialTree \subseteq Paths
  /\ \A p \in InitialTree : p # <<>> => Front(p) \in InitialTree
ASSUME OptionsAssumption ==
  /\ Ids \subseteq Nat \ {0} /\ RootOf \in [Ids -> Dirs] /\ Recursive \subseteq Ids
  /\ Wanted \in [Ids -> SUBSET {"dir", "file"}]
ASSUME DepthsAssumption ==
  /\ MaxDiscoveryDepth \in Nat \ {0} /\ KernelDepth \in Nat \ {0}
  /\ MaxCreations \in Nat /\ MaxMishaps \in Nat

VARIABLES
  tree,         \* external: the paths that exist
  creations,    \* bound: how often each was created
  kernel,       \* external: descriptor of the kernel watch on each path, or 0
  nextWd,       \* external: the next descriptor
  queued,       \* external: the kernel's event queue
  mishaps,      \* bound: deletions and refused calls so far
  added,        \* ids handed to add_watch so far
  active,       \* keys of the watcher's watches_
  stage,        \* "running", "stopping" (stopped_ of the watcher), "stopped"
  records,      \* watch_by_wd_ and watches_by_id_
  ready,        \* ready_events_
  discovery,    \* discovery_queue_
  overflowed,   \* discovery_queue_overflowed_
  pc,           \* where the raw worker is
  batch,        \* raw events it has read and not yet mapped
  todo,         \* records the raw event at hand still has to be mapped for
  mapped,       \* events of the raw event at hand
  next,         \* the first event of the batch, or the one run() looks at
  walker,       \* where the discovery worker is
  request,      \* the request it serves
  at,           \* the path it is at
  listed,       \* paths it has listed and not yet visited
  problems,     \* report.diagnostics of its walk
  told,         \* history: ids the application was told to distrust
  lost,         \* history: ids that lost a request since they were last told
  known,        \* history: what the application knows of each recursive watch
  missed,       \* history: ids an event of which found the kernel's queue full
  erased        \* history: a marker was taken away before anyone was told

kernelVars == <<tree, creations, kernel, nextWd, queued, mishaps>>
tables == <<added, active, stage, records>>
rawVars == <<pc, batch, todo, mapped, next>>
walkVars == <<walker, request, at, listed, problems>>
history == <<told, lost, known, missed, erased>>
vars == <<kernelVars, tables, ready, discovery, overflowed, rawVars, walkVars, history>>

Raw == [wd: Nat, kind: {"created", "removed", "overflow"}, path: Paths]
Record == [wd: Nat \ {0}, id: Ids, dir: Dirs]
Request == [id: Ids, path: Dirs]
NoSource == 0
EventOf(kind, source, path) == [kind |-> kind, source |-> source, path |-> path]
Events == [kind: {"created", "removed", "overflow", "marker", "warning", "error"},
           source: Ids \cup {NoSource}, path: Paths]
NoRequest == <<>>

TypeOK ==
  /\ tree \subseteq Paths /\ creations \in [Paths -> Nat]
  /\ kernel \in [Paths -> Nat] /\ nextWd \in Nat /\ queued \in Seq(Raw)
  /\ mishaps \in Nat
  /\ added \subseteq Ids /\ active \subseteq added
  /\ stage \in {"running", "stopping", "stopped"}
  /\ records \subseteq Record
  /\ ready \in Seq(Events) /\ discovery \in Seq(Request) /\ overflowed \in BOOLEAN
  /\ pc \in {"wait", "poll", "map", "check", "done"}
  /\ batch \in Seq(Raw) /\ todo \subseteq Record /\ mapped \in Seq(Events)
  /\ next \subseteq Events
  /\ walker \in {"idle", "look", "add", "open", "next", "report", "finish", "done"}
  /\ request \in Request \cup {NoRequest} /\ at \in Paths
  /\ listed \subseteq Paths /\ problems \subseteq {"warning", "error"}
  /\ told \subseteq Ids /\ lost \subseteq Ids /\ known \in [Recursive -> SUBSET Paths]
  /\ missed \subseteq Ids /\ erased \in BOOLEAN

Init ==
  /\ tree = InitialTree /\ creations = [p \in Paths |-> 0]
  /\ kernel = [p \in Paths |-> 0] /\ nextWd = 1 /\ queued = <<>> /\ mishaps = 0
  /\ added = {} /\ active = {} /\ stage = "running" /\ records = {}
  /\ ready = <<>> /\ discovery = <<>> /\ overflowed = FALSE
  /\ pc = "wait" /\ batch = <<>> /\ todo = {} /\ mapped = <<>> /\ next = {}
  /\ walker = "idle" /\ request = NoRequest /\ at = <<>> /\ listed = {} /\ problems = {}
  /\ told = {} /\ lost = {} /\ known = [i \in Recursive |-> {}]
  /\ missed = {} /\ erased = FALSE

-----------------------------------------------------------------------------
(* External: other programs and the kernel.  Bound: the other programs are *)
(* quiet once the watcher stops.                                            *)

\* The queue takes one overflow event when it is full and nothing more.
Notify(p, kind) ==
  LET wd == kernel[Front(p)]
      full == Len(queued) >= KernelDepth
      event == [wd |-> wd, kind |-> kind, path |-> p]
      overflow == [wd |-> 0, kind |-> "overflow", path |-> <<>>]
  IN /\ queued' = IF wd = 0 THEN queued
                  ELSE IF ~ full THEN Append(queued, event)
                  ELSE IF Last(queued) = overflow THEN queued
                  ELSE Append(queued, overflow)
     /\ missed' = IF wd # 0 /\ full
                    THEN missed \cup {r.id : r \in {s \in records : s.wd = wd}}
                    ELSE missed

Create(p) ==
  /\ stage = "running" /\ p \notin tree /\ p # <<>> /\ Front(p) \in tree
  /\ creations[p] < MaxCreations
  /\ tree' = tree \cup {p}
  /\ creations' = [creations EXCEPT ![p] = @ + 1]
  /\ Notify(p, "created")
  /\ UNCHANGED <<kernel, nextWd, mishaps, tables, ready, discovery,
                 overflowed, rawVars, walkVars, told, lost, known, erased>>

\* The kernel watch of a deleted directory is gone.
Delete(p) ==
  /\ stage = "running" /\ p \in tree /\ p # <<>> /\ ChildrenOf(p) \cap tree = {}
  /\ mishaps < MaxMishaps /\ mishaps' = mishaps + 1
  /\ tree' = tree \ {p}
  /\ kernel' = [kernel EXCEPT ![p] = 0]
  /\ Notify(p, "removed")
  /\ UNCHANGED <<creations, nextWd, tables, ready, discovery, overflowed,
                 rawVars, walkVars, told, lost, known, erased>>

-----------------------------------------------------------------------------
(* add_watch, remove_watch and stop, called with the watcher's mutex_ held   *)
(* or, stop, after the watcher set its stopped_.                             *)

RecordsOf(id) == {r \in records : r.id = id}
Live(id) == RecordsOf(id) # {}
IsMarker(e) == e.kind = "marker"

\* inotify_add_watch for a set of directories: the wd of a watch that exists is
\* given again, the others take new ones in some order.
WatchThem(id, ds) ==
  LET fresh == {d \in ds : kernel[d] = 0}
  IN \E order \in [fresh -> 0 .. Cardinality(fresh)] :
       /\ \A d, e \in fresh : d # e => order[d] # order[e]
       /\ \A d \in fresh : order[d] < Cardinality(fresh)
       /\ kernel' = [d \in Paths |-> IF d \in fresh THEN nextWd + order[d] ELSE kernel[d]]
       /\ nextWd' = nextWd + Cardinality(fresh)
       /\ records' = records \cup {[wd |-> kernel'[d], id |-> id, dir |-> d] : d \in ds}

\* Directories the kernel refuses to watch are named in the report; if it
\* refuses all, the watch does not start.
AddWatch(id) ==
  /\ stage = "running" /\ RootOf[id] \in tree
  /\ added = {i \in Ids : i < id}
  /\ LET here == IF id \in Recursive THEN Under(RootOf[id]) \cap Dirs \cap tree
                 ELSE {RootOf[id]}
     IN \E ds \in SUBSET here :
          /\ mishaps + Cardinality(here \ ds) <= MaxMishaps
          /\ mishaps' = mishaps + Cardinality(here \ ds)
          /\ WatchThem(id, ds)
          /\ active' = IF ds = {} THEN active ELSE active \cup {id}
          /\ told' = IF ds = here THEN told ELSE told \cup {id}
  /\ added' = added \cup {id}
  /\ known' = [known EXCEPT ![id] = tree \cap Under(RootOf[id])]
  /\ UNCHANGED <<tree, creations, queued, stage, ready, discovery, overflowed,
                 rawVars, walkVars, lost, missed, erased>>

\* std::erase_if
NotFrom(id, s) == KeepIn(s, {e \in Range(s) : e.source # id})

\* Defect: a descriptor that another watch shares is taken away, too.
AllDescriptors(id) == {r.wd : r \in RecordsOf(id)}

\* Kernel watches that only this watch needs.
Orphans(id) == {r.wd : r \in RecordsOf(id)} \ {r.wd : r \in records \ RecordsOf(id)}

\* Events and requests of the watch are erased, the discovery overflow marker
\* among them; discovery_queue_overflowed_ is left as it is.
RemoveWatch(id) ==
  /\ id \in active /\ Live(id)
  /\ kernel' = [p \in Paths |-> IF kernel[p] \in Orphans(id) THEN 0 ELSE kernel[p]]
  /\ records' = records \ RecordsOf(id)
  /\ active' = active \ {id}
  /\ ready' = NotFrom(id, ready)
  /\ discovery' = KeepIn(discovery, {r \in Range(discovery) : r.id # id})
  /\ erased' = (erased \/ \E e \in Range(ready) : IsMarker(e) /\ e.source = id)
  /\ UNCHANGED <<tree, creations, nextWd, queued, mishaps, added, stage, overflowed,
                 rawVars, walkVars, told, lost, known, missed>>

WatcherStops ==
  /\ stage = "running"
  /\ stage' = "stopping"
  /\ UNCHANGED <<kernelVars, added, active, records, ready, discovery, overflowed,
                 rawVars, walkVars, history>>

StopBackend ==
  /\ stage = "stopping"
  /\ stage' = "stopped"
  /\ kernel' = [p \in Paths |-> 0] /\ queued' = <<>>
  /\ records' = {} /\ ready' = <<>> /\ discovery' = <<>> /\ overflowed' = FALSE
  /\ UNCHANGED <<tree, creations, nextWd, mishaps, added, active, rawVars, walkVars,
                 history>>

-----------------------------------------------------------------------------
(* The raw worker: wait_event, and run() up to deliver(). *)

\* pop_ready_event_locked
PopReady ==
  /\ pc = "wait" /\ ready # <<>>
  /\ next' = {Head(ready)}
  /\ ready' = Tail(ready)
  /\ overflowed' = IF IsMarker(Head(ready)) THEN FALSE ELSE overflowed
  /\ pc' = "check"
  /\ UNCHANGED <<kernelVars, tables, discovery, batch, todo, mapped, walkVars, history>>

\* poll() and read() run outside mutex_.
BeginPoll ==
  /\ pc = "wait" /\ ready = <<>> /\ stage # "stopped"
  /\ pc' = "poll"
  /\ UNCHANGED <<kernelVars, tables, ready, discovery, overflowed, batch, todo, mapped,
                 next, walkVars, history>>

PollTimesOut ==
  /\ pc = "poll"
  /\ pc' = "wait"
  /\ UNCHANGED <<kernelVars, tables, ready, discovery, overflowed, batch, todo, mapped,
                 next, walkVars, history>>

Read ==
  /\ pc = "poll" /\ queued # <<>>
  /\ batch' = queued /\ queued' = <<>>
  /\ pc' = "map"
  /\ UNCHANGED <<tree, creations, kernel, nextWd, mishaps, tables, ready, discovery,
                 overflowed, todo, mapped, next, walkVars, history>>

\* map_event copies the records; a kernel overflow names no watch.
BeginMapping ==
  /\ pc = "map" /\ todo = {} /\ mapped = <<>> /\ batch # <<>>
  /\ IF Head(batch).kind = "overflow"
       THEN /\ mapped' = <<EventOf("overflow", NoSource, <<>>)>>
            /\ batch' = Tail(batch)
            /\ UNCHANGED todo
       ELSE /\ todo' = {r \in records : r.wd = Head(batch).wd}
            /\ batch' = IF todo' = {} THEN Tail(batch) ELSE batch
            /\ UNCHANGED mapped
  /\ UNCHANGED <<kernelVars, tables, ready, discovery, overflowed, pc, next, walkVars,
                 history>>

\* Defect: a full queue gives up its oldest request for the new one, unmarked.
EnqueueDiscoveredSilently(id, p) ==
  IF stage = "stopped" THEN UNCHANGED <<ready, discovery, overflowed, lost>>
  ELSE /\ UNCHANGED <<ready, overflowed>>
       /\ IF Len(discovery) >= MaxDiscoveryDepth
            THEN /\ discovery' = Append(Tail(discovery), [id |-> id, path |-> p])
                 /\ lost' = lost \cup {Head(discovery).id}
            ELSE discovery' = Append(discovery, [id |-> id, path |-> p]) /\ UNCHANGED lost

\* enqueue_discovered_tree: a full queue gives up its oldest request, and the
\* new one, for a marker in front of the ready events.
EnqueueDiscovered(id, p) ==
  IF stage = "stopped" THEN UNCHANGED <<ready, discovery, overflowed, lost>>
  ELSE IF overflowed
    THEN lost' = lost \cup {id} /\ UNCHANGED <<ready, discovery, overflowed>>
  ELSE IF Len(discovery) >= MaxDiscoveryDepth
    THEN /\ discovery' = Tail(discovery)
         /\ ready' = <<EventOf("marker", id, <<>>)>> \o ready
         /\ overflowed' = TRUE
         /\ lost' = lost \cup {id, Head(discovery).id}
  ELSE /\ discovery' = Append(discovery, [id |-> id, path |-> p])
       /\ UNCHANGED <<ready, overflowed, lost>>

\* Defect: directories are not reported.
IsWantedFile(id, p) == TypeOf(p) = "file" /\ "file" \in Wanted[id]

\* The records watch_directories and watch_files let through.
IsWanted(id, p) == TypeOf(p) \in Wanted[id]

\* recursive_emulated is set in the records of discovered directories, too.
ToDiscover(r, raw, p) == p \in Dirs /\ r.id \in Recursive /\ raw.kind = "created"

\* map_event_for_record for one of the copied records.
MapForRecord ==
  /\ pc = "map" /\ todo # {}
  /\ \E r \in todo :
       LET raw == Head(batch)
           p == Append(r.dir, Last(raw.path))
           wanted == IsWanted(r.id, p)
       IN /\ todo' = todo \ {r}
          /\ batch' = IF todo' = {} THEN Tail(batch) ELSE batch
          /\ mapped' = IF wanted THEN Append(mapped, EventOf(raw.kind, r.id, p)) ELSE mapped
          /\ IF wanted /\ ToDiscover(r, raw, p)
               THEN EnqueueDiscovered(r.id, p)
               ELSE UNCHANGED <<ready, discovery, overflowed, lost>>
  /\ UNCHANGED <<kernelVars, tables, pc, next, walkVars, told, known, missed, erased>>

\* The first event of the batch is kept, the others wait in ready_events_, even
\* if their watch or the backend is gone by now.
PushMapped ==
  /\ pc = "map" /\ todo = {} /\ mapped # <<>>
  /\ IF next = {} THEN next' = {Head(mapped)} /\ UNCHANGED ready
                  ELSE ready' = Append(ready, Head(mapped)) /\ UNCHANGED next
  /\ mapped' = Tail(mapped)
  /\ UNCHANGED <<kernelVars, tables, discovery, overflowed, pc, batch, todo, walkVars,
                 history>>

EndBatch ==
  /\ pc = "map" /\ batch = <<>> /\ todo = {} /\ mapped = <<>>
  /\ pc' = IF next = {} THEN "wait" ELSE "check"
  /\ UNCHANGED <<kernelVars, tables, ready, discovery, overflowed, batch, todo, mapped,
                 next, walkVars, history>>

\* watch_is_active in run(); what passes goes to deliver().  An overflow event of
\* the kernel names no watch and never passes, nor does a removed watch's marker.
Report ==
  /\ pc = "check"
  /\ \E e \in next :
       IF stage = "running" /\ e.source \in active
         THEN LET heard == CASE e.kind \in {"overflow", "marker"} -> active
                             [] e.kind \in {"warning", "error"} -> {e.source}
                             [] OTHER -> {}
              IN /\ told' = told \cup heard
                 /\ lost' = lost \ heard
                 /\ known' = IF e.kind = "created"
                               THEN [known EXCEPT ![e.source] = @ \cup {e.path}]
                               ELSE known
                 /\ UNCHANGED <<missed, erased>>
         ELSE /\ erased' = (erased \/ IsMarker(e))
              /\ UNCHANGED <<told, lost, known, missed>>
  /\ next' = {}
  /\ pc' = "wait"
  /\ UNCHANGED <<kernelVars, tables, ready, discovery, overflowed, batch, todo, mapped,
                 walkVars>>

RawWorkerExits ==
  /\ pc \in {"wait", "poll"} /\ ready = <<>> /\ stage = "stopped"
  /\ pc' = "done"
  /\ UNCHANGED <<kernelVars, tables, ready, discovery, overflowed, batch, todo, mapped,
                 next, walkVars, history>>

-----------------------------------------------------------------------------
(* The discovery worker: run_discovery and add_discovered_tree. *)

TakeRequest ==
  /\ walker = "idle" /\ stage # "stopped" /\ discovery # <<>>
  /\ request' = Head(discovery)
  /\ discovery' = Tail(discovery)
  /\ walker' = "look"
  /\ UNCHANGED <<kernelVars, tables, ready, overflowed, rawVars, at, listed, problems,
                 history>>

LookAtRoot ==
  /\ walker = "look"
  /\ IF request.path \in tree
       THEN walker' = "add" /\ at' = request.path /\ UNCHANGED request
       ELSE walker' = "idle" /\ request' = NoRequest /\ UNCHANGED at
  /\ UNCHANGED <<kernelVars, tables, ready, discovery, overflowed, rawVars, listed,
                 problems, history>>

HasRecord(id, d) == \E r \in RecordsOf(id) : r.dir = d

\* Defect: the watch is taken to be there still.
MayAddBlindly(id, d) == ~ HasRecord(id, d)

\* add_discovered_watch looks again under the lock whether the watch is there.
MayAdd(id, d) == Live(id) /\ ~ HasRecord(id, d)

\* add_one_locked: no record without a kernel watch.
AddOne(id, d) ==
  \/ /\ d \in tree
     /\ WatchThem(id, {d})
     /\ UNCHANGED <<mishaps, problems>>
  \/ /\ d \notin tree \/ mishaps < MaxMishaps
     /\ mishaps' = IF d \in tree THEN mishaps + 1 ELSE mishaps
     /\ problems' = problems \cup {"error"}
     /\ UNCHANGED <<kernel, nextWd, records>>

AddDiscoveredWatch ==
  /\ walker = "add"
  /\ IF MayAdd(request.id, at) THEN AddOne(request.id, at)
     ELSE UNCHANGED <<kernel, nextWd, records, mishaps, problems>>
  /\ walker' = IF at = request.path THEN "open" ELSE "report"
  /\ UNCHANGED <<tree, creations, queued, added, active, stage, ready, discovery,
                 overflowed, rawVars, request, at, listed, history>>

PushReady(e) == ready' = IF Live(e.source) THEN Append(ready, e) ELSE ready

ReportDiscovered ==
  /\ walker = "report"
  /\ IF IsWanted(request.id, at)
       THEN PushReady(EventOf("created", request.id, at))
       ELSE UNCHANGED ready
  /\ walker' = IF at \in Dirs THEN "open" ELSE "next"
  /\ UNCHANGED <<kernelVars, tables, discovery, overflowed, rawVars, request, at, listed,
                 problems, history>>

\* recursive_directory_iterator: a directory that cannot be opened ends the walk.
OpenDirectory ==
  /\ walker = "open"
  /\ IF at \in tree
       THEN /\ listed' = listed \cup (ChildrenOf(at) \cap tree)
            /\ walker' = "next"
            /\ UNCHANGED problems
       ELSE /\ listed' = {}
            /\ walker' = "finish"
            /\ problems' = problems \cup {"warning"}
  /\ UNCHANGED <<kernelVars, tables, ready, discovery, overflowed, rawVars, request, at,
                 history>>

NextEntry ==
  /\ walker = "next"
  /\ IF listed = {}
       THEN walker' = "finish" /\ UNCHANGED <<at, listed>>
       ELSE \E p \in listed :
              /\ at' = p /\ listed' = listed \ {p}
              /\ walker' = IF p \in Dirs THEN "add" ELSE "report"
  /\ UNCHANGED <<kernelVars, tables, ready, discovery, overflowed, rawVars, request,
                 problems, history>>

FinishWalk ==
  /\ walker = "finish"
  /\ IF problems = {}
       THEN /\ walker' = "idle" /\ request' = NoRequest /\ at' = <<>>
            /\ UNCHANGED <<problems, ready>>
       ELSE \E level \in problems :
              /\ PushReady(EventOf(level, request.id, <<>>))
              /\ problems' = problems \ {level}
              /\ UNCHANGED <<walker, request, at>>
  /\ UNCHANGED <<kernelVars, tables, discovery, overflowed, rawVars, listed, history>>

DiscoveryExits ==
  /\ walker = "idle" /\ stage = "stopped"
  /\ walker' = "done"
  /\ UNCHANGED <<kernelVars, tables, ready, discovery, overflowed, rawVars, request, at,
                 listed, problems, history>>

-----------------------------------------------------------------------------
RawStep ==
  \/ PopReady \/ BeginPoll \/ PollTimesOut \/ Read
  \/ BeginMapping \/ MapForRecord \/ PushMapped \/ EndBatch \/ Report \/ RawWorkerExits

DiscoveryStep ==
  \/ TakeRequest \/ LookAtRoot \/ AddDiscoveredWatch \/ ReportDiscovered
  \/ OpenDirectory \/ NextEntry \/ FinishWalk \/ DiscoveryExits

Next ==
  \/ \E p \in Paths : Create(p) \/ Delete(p)
  \/ \E id \in Ids : AddWatch(id) \/ RemoveWatch(id)
  \/ WatcherStops \/ StopBackend
  \/ RawStep \/ DiscoveryStep

Spec == Init /\ [][Next]_vars

-----------------------------------------------------------------------------
(* Properties. *)

\* Nothing is on its way to the application.
Quiet ==
  /\ queued = <<>> /\ batch = <<>> /\ todo = {} /\ mapped = <<>> /\ next = {}
  /\ ready = <<>> /\ discovery = <<>> /\ walker = "idle"

Watches(id, d) == kernel[d] # 0 /\ [wd |-> kernel[d], id |-> id, dir |-> d] \in records

\* Directories made again after a deletion.  The backend keeps the record of a deleted
\* directory, and takes one made again for watched.
Returned == {d \in Dirs : creations[d] > IF d \in InitialTree THEN 0 ELSE 1}
MadeOnce(p) == \A d \in Returned : p \notin Under(d)

\* Emulated recursive watches the application may rely on.  It may not, and is not
\* told, when the kernel dropped an event of the watch, when the watch lost a request
\* and the marker was erased, and when it wants no events of directories: then new
\* ones are not discovered.
Trusted ==
  {id \in (active \cap Recursive) \ (told \cup missed) :
     "dir" \in Wanted[id] /\ ~ (erased /\ id \in lost)}

\* When everything has settled, every directory under a trusted watch is watched:
\* directories made while their parent was being discovered included, whatever other
\* watches were removed or lost.
CoveredOrTold ==
  stage = "running" /\ Quiet =>
    \A id \in Trusted :
      \A d \in Under(RootOf[id]) \cap Dirs \cap tree : MadeOnce(d) => Watches(id, d)

\* When everything has settled, the application has seen an event for every entry
\* that was made under a trusted watch and is still there: entries made before their
\* directory was watched included.
ReportedOrTold ==
  stage = "running" /\ Quiet =>
    \A id \in Trusted :
      \A p \in tree \cap Under(RootOf[id]) :
        TypeOf(p) \in Wanted[id] /\ MadeOnce(p) => p \in known[id]

\* When everything has settled, every watch that lost a discovery request has been
\* told since, by a marker that may be of another watch, as long as no marker went
\* with its watch: the part of docs/adr/0010, "overflow and lost-sync cannot be
\* silently swallowed", that the code keeps.
LossIsTold == stage = "running" /\ Quiet /\ ~ erased => lost \cap active = {}

\* A removed watch stays removed, and so does a stopped backend's: the discovery
\* worker, in the middle of its walk, adds no record to it (add_discovered_watch).
RemovedStaysRemoved ==
  /\ {r.id : r \in records} \subseteq active
  /\ stage = "stopped" => records = {} /\ discovery = <<>>
=============================================================================
