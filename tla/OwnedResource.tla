---------------------------- MODULE OwnedResource ----------------------------
(***************************************************************************)
(* The owned-resource operator (anima/kernel/owned_resource.py): moving    *)
(* workspaces to the trash, restoring and reaping them, called by the tool *)
(* manage_owned_resource (anima/kernel/tools.py) on the event loop and by  *)
(* the maintenance of the self-probe loop (anima/scheduler/proactive.py)   *)
(* in an executor thread.                                                  *)
(*                                                                         *)
(* A path is the sequence of its names below workspaces_root.  A project's *)
(* workdir is <user>/<project>, that of a Telegram project a directory of  *)
(* workspaces_root itself.  What matters of a workspace is where its       *)
(* contents are.                                                           *)
(***************************************************************************)
EXTENDS Naturals, FiniteSets

CONSTANTS
    Projects,    \* the projects
    TopDir,      \* [Projects -> the directory of workspaces_root they are in]
    Flat,        \* the projects whose workdir is that directory itself
    InSource,    \* workspaces_root is below rawos_source_root, and not below its data/
    Graduated,   \* operator_owned_enabled and owned_workspace_gc has graduated
    MaxEntries,  \* bound: trash entries
    MaxIntents,  \* bound: intents that are started
    MaxRare,     \* bound: crashes, and reaps whose call names its own directory or window
    Home, Lost, Nowhere  \* where contents can be, besides a trash entry

ASSUME OwnedAssumption ==
    /\ Flat \subseteq Projects
    /\ InSource \in BOOLEAN /\ Graduated \in BOOLEAN
    /\ MaxEntries \in Nat /\ MaxIntents \in Nat /\ MaxRare \in Nat

Entries == 1..MaxEntries
Dirs == {TopDir[p] : p \in Projects}

ASSUME PlaceAssumption ==
    /\ {Home, Lost, Nowhere} \intersect Entries = {}
    /\ Home # Lost /\ Home # Nowhere /\ Lost # Nowhere

Workdir(p) == IF p \in Flat THEN <<TopDir[p]>> ELSE <<TopDir[p], p>>
Paths == {<<d>> : d \in Dirs} \union {Workdir(p) : p \in Projects}
Inside(path) == {p \in Projects : path = <<TopDir[p]>> \/ path = Workdir(p)}

VARIABLES
    place,    \* where the contents of a project's workspace are
    tops,     \* the directories of workspaces_root
    fresh,    \* those modified less than owned_workspace_min_age_days ago
    intents,  \* the projects with an intent that is not over
    trash,    \* the trash entries
    worker,   \* the two callers: the tool on the event loop, the executor thread
    scan,     \* _maybe_autonomous_owned_maintenance: its active_dirs and what is left
    reap,     \* reap_trash, by the tool: the directory that it is about to delete
    cut,      \* history: entries whose move was cut short by an exception or a crash
    used, started, rare

disk == <<place, tops, fresh, trash>>
budget == <<used, started, rare>>
vars == <<disk, intents, worker, scan, reap, cut, budget>>

Callers == {"tool", "scan"}
IdleWorker == [pc |-> "idle", path |-> <<>>, entry |-> 0]
Work(pc, path, entry) == [pc |-> pc, path |-> path, entry |-> entry]
IdleScan == [on |-> FALSE, active |-> {}, todo |-> {}]
IdleReap == [entry |-> 0, path |-> <<>>, asked |-> FALSE, filling |-> FALSE]
\* An entry or another directory, the call's own trash_root or retention_days, and as a
\* history whether a caller was filling the manifest when it was read.
Doomed(entry, path, asked, filling) ==
    [entry |-> entry, path |-> path, asked |-> asked, filling |-> filling]
Entry(st, path, old) == [st |-> st, path |-> path, old |-> old]
NoEntry == Entry("none", <<>>, FALSE)
GoneEntry == Entry("gone", <<>>, FALSE)

TypeOK ==
    /\ place \in [Projects -> Entries \union {Home, Lost, Nowhere}]
    /\ tops \subseteq Dirs /\ fresh \subseteq Dirs
    /\ intents \subseteq Projects
    /\ trash \in [Entries -> [st : {"none", "empty", "full", "torn", "sealed", "emptied",
                                    "gone"},
                              path : Paths \union {<<>>}, old : BOOLEAN]]
    /\ worker \in [Callers -> [pc : {"idle", "mkdir", "move", "open", "fill", "clean"},
                               path : Paths \union {<<>>}, entry : Entries \union {0}]]
    /\ scan \in [on : BOOLEAN, active : SUBSET Paths, todo : SUBSET Dirs]
    /\ reap \in [entry : Entries \union {0}, path : Paths \union {<<>>},
                 asked : BOOLEAN, filling : BOOLEAN]
    /\ cut \subseteq Entries
    /\ used \in 0..MaxEntries /\ started \in 0..MaxIntents /\ rare \in 0..MaxRare

Init ==
    /\ place = [p \in Projects |-> Nowhere]
    /\ tops = {} /\ fresh = {}
    /\ intents = {}
    /\ trash = [e \in Entries |-> NoEntry]
    /\ worker = [w \in Callers |-> IdleWorker]
    /\ scan = IdleScan /\ reap = IdleReap
    /\ cut = {}
    /\ used = 0 /\ started = 0 /\ rare = 0

----------------------------------------------------------------------------

\* The tool's body has no await: while it runs, nothing else runs on the loop.
LoopFree == worker["tool"].pc = "idle" /\ reap = IdleReap

Exists(path) ==
    \/ \E d \in tops : path = <<d>>
    \/ \E p \in Projects \ Flat : path = Workdir(p) /\ place[p] = Home

\* db.get_active_workspace_dirs
ActiveDirs == {Workdir(p) : p \in intents}

\* Mutant of Floored: the floor is forgotten.
FlooredNever(path, active) == FALSE

\* _inner_floor_check, of a path below workspaces_root.
Floored(path, active) == InSource \/ path \in active

----------------------------------------------------------------------------
(* The users.                                                              *)

\* Mutant of CreateProject: the user's id is left out of the path.
CreateProjectAtRoot(p) ==
    /\ LoopFree
    /\ place[p] = Nowhere
    /\ place' = [place EXCEPT ![p] = Home]
    /\ tops' = tops \union {p} /\ fresh' = fresh \union {p}
    /\ UNCHANGED <<trash, intents, worker, scan, reap, cut, budget>>

\* create_project: _make_workdir.
CreateProject(p) ==
    /\ LoopFree
    /\ place[p] = Nowhere
    /\ place' = [place EXCEPT ![p] = Home]
    /\ tops' = tops \union {TopDir[p]} /\ fresh' = fresh \union {TopDir[p]}
    /\ UNCHANGED <<trash, intents, worker, scan, reap, cut, budget>>

StartIntent(p) ==
    /\ LoopFree
    /\ place[p] # Nowhere /\ p \notin intents
    /\ started < MaxIntents
    /\ intents' = intents \union {p}
    /\ started' = started + 1
    /\ UNCHANGED <<disk, worker, scan, reap, cut, used, rare>>

\* The intent's status becomes completed or failed.
EndIntent(p) ==
    /\ LoopFree
    /\ p \in intents
    /\ intents' = intents \ {p}
    /\ UNCHANGED <<disk, worker, scan, reap, cut, budget>>

----------------------------------------------------------------------------
(* operate_on_owned_resource, execute_approved_owned_op, by their callers. *)

\* The tool: the active workspaces are read, and used at once.
ToolGC(path, approved) ==
    /\ LoopFree
    /\ ~Floored(path, ActiveDirs)
    /\ approved \/ Graduated
    /\ worker' = [worker EXCEPT !["tool"] = Work("mkdir", path, 0)]
    /\ UNCHANGED <<disk, intents, scan, reap, cut, budget>>

\* The maintenance: the active workspaces are read once for all directories.
ScanBegin ==
    /\ LoopFree /\ ~scan.on
    /\ scan' = [on |-> TRUE, active |-> ActiveDirs, todo |-> tops]
    /\ UNCHANGED <<disk, intents, worker, reap, cut, budget>>

ScanGC(d) ==
    /\ LoopFree /\ worker["scan"].pc = "idle"
    /\ d \in scan.todo
    /\ scan' = [scan EXCEPT !.todo = @ \ {d}]
    /\ worker' = IF d \in tops \ fresh /\ ~Floored(<<d>>, scan.active) /\ Graduated
                   THEN [worker EXCEPT !["scan"] = Work("mkdir", <<d>>, 0)] ELSE worker
    /\ UNCHANGED <<disk, intents, reap, cut, budget>>

ScanEnd ==
    /\ LoopFree /\ scan.on /\ scan.todo = {} /\ worker["scan"].pc = "idle"
    /\ scan' = IdleScan
    /\ UNCHANGED <<disk, intents, worker, reap, cut, budget>>

----------------------------------------------------------------------------
(* gc_workspace_to_trash.                                                  *)

MakeEntry(w) ==
    /\ worker[w].pc = "mkdir"
    /\ used < MaxEntries
    /\ used' = used + 1
    /\ trash' = [trash EXCEPT ![used + 1] = Entry("empty", worker[w].path, FALSE)]
    /\ worker' = [worker EXCEPT ![w] = Work("move", worker[w].path, used + 1)]
    /\ UNCHANGED <<place, tops, fresh, intents, scan, reap, cut, started, rare>>

\* Mutant of Move: the manifest is forgotten.
MoveWithoutManifest(w) ==
    /\ worker[w].pc = "move"
    /\ Exists(worker[w].path)
    /\ LET path == worker[w].path
           e == worker[w].entry
       IN  /\ place' = [p \in Projects |-> IF p \in Inside(path) /\ place[p] = Home
                                             THEN e ELSE place[p]]
           /\ tops' = tops \ {d \in Dirs : path = <<d>>}
           /\ fresh' = fresh \union {d \in Dirs : path[1] = d /\ path # <<d>>}
           /\ trash' = [trash EXCEPT ![e] = Entry("full", path, FALSE)]
    /\ worker' = [worker EXCEPT ![w] = IdleWorker]
    /\ UNCHANGED <<intents, scan, reap, cut, budget>>

\* shutil.move: a rename of the directory, with all that is in it; into an entry that was
\* destroyed meanwhile, a copy that makes it again.
Move(w) ==
    /\ worker[w].pc = "move"
    /\ Exists(worker[w].path)
    /\ LET path == worker[w].path
           e == worker[w].entry
       IN  /\ place' = [p \in Projects |-> IF p \in Inside(path) /\ place[p] = Home
                                             THEN e ELSE place[p]]
           /\ tops' = tops \ {d \in Dirs : path = <<d>>}
           /\ fresh' = fresh \union {d \in Dirs : path[1] = d /\ path # <<d>>}
           /\ trash' = [trash EXCEPT ![e] = Entry("full", path, FALSE)]
           /\ worker' = [worker EXCEPT ![w] = Work("open", path, e)]
    /\ UNCHANGED <<intents, scan, reap, cut, budget>>

\* write_text truncates the manifest ...
OpenManifest(w) ==
    /\ worker[w].pc = "open"
    /\ trash[worker[w].entry].st = "full"
    /\ trash' = [trash EXCEPT ![worker[w].entry].st = "torn"]
    /\ worker' = [worker EXCEPT ![w] = Work("fill", worker[w].path, worker[w].entry)]
    /\ UNCHANGED <<place, tops, fresh, intents, scan, reap, cut, budget>>

\* ... and fills it; a file that was deleted in between stays deleted.
FillManifest(w) ==
    /\ worker[w].pc = "fill"
    /\ trash' = [trash EXCEPT ![worker[w].entry].st = IF @ = "torn" THEN "sealed" ELSE @]
    /\ worker' = [worker EXCEPT ![w] = IdleWorker]
    /\ UNCHANGED <<place, tops, fresh, intents, scan, reap, cut, budget>>

\* The entries that a caller is still working on.
Unfinished(w) == {worker[w].entry} \intersect Entries

\* Any of the steps raises; nothing is undone.
CollectFails(w) ==
    /\ worker[w].pc \in {"mkdir", "move", "open", "fill"}
    /\ cut' = cut \union Unfinished(w)
    /\ worker' = [worker EXCEPT ![w] = IdleWorker]
    /\ UNCHANGED <<disk, intents, scan, reap, budget>>

Collect(w) ==
    MakeEntry(w) \/ Move(w) \/ OpenManifest(w) \/ FillManifest(w) \/ CollectFails(w)

----------------------------------------------------------------------------
(* restore_from_trash and reap_trash, by the tool.                         *)

RestoreMove(e) ==
    /\ LoopFree
    /\ trash[e].st = "sealed"
    /\ ~Exists(trash[e].path)
    /\ LET path == trash[e].path
       IN  /\ place' = [p \in Projects |-> IF place[p] = e THEN Home ELSE place[p]]
           /\ tops' = tops \union {path[1]}
           /\ fresh' = fresh \union {d \in Dirs : path[1] = d /\ path # <<d>>}
    /\ trash' = [trash EXCEPT ![e].st = "emptied"]
    /\ worker' = [worker EXCEPT !["tool"] = Work("clean", trash[e].path, e)]
    /\ UNCHANGED <<intents, scan, reap, cut, budget>>

RestoreClean ==
    /\ worker["tool"].pc = "clean"
    /\ trash' = [trash EXCEPT ![worker["tool"].entry] = GoneEntry]
    /\ worker' = [worker EXCEPT !["tool"] = IdleWorker]
    /\ UNCHANGED <<place, tops, fresh, intents, scan, reap, cut, budget>>

\* Mutant of Reapable: an entry without a manifest counts as trashed at 0.
ReapableWithoutManifest(e) ==
    \/ trash[e].st \in {"empty", "full", "torn"}
    \/ trash[e].st \in {"sealed", "emptied"} /\ trash[e].old

\* A manifest that cannot be parsed counts as trashed at 0; without a manifest, the
\* time of the last change of the entry counts.
Reapable(e) ==
    \/ trash[e].st = "torn"
    \/ trash[e].st \in {"empty", "full", "sealed", "emptied"} /\ trash[e].old

\* reap_trash reads the manifest of an entry.
ReapRead(e) ==
    /\ LoopFree
    /\ Reapable(e)
    /\ reap' = Doomed(e, <<>>, FALSE,
                      trash[e].st = "torn" /\ \E w \in Callers : worker[w].entry = e)
    /\ UNCHANGED <<disk, intents, worker, scan, cut, budget>>

\* A call that names its own retention_days may find any entry due, and one that names
\* its own trash_root has the directories in it for entries.
ReapReadNamed(e, path) ==
    /\ LoopFree
    /\ rare < MaxRare
    /\ IF e = 0 THEN Exists(path) ELSE path = <<>> /\ trash[e].st \notin {"none", "gone"}
    /\ reap' = Doomed(e, path, TRUE, FALSE)
    /\ rare' = rare + 1
    /\ UNCHANGED <<disk, intents, worker, scan, cut, used, started>>

\* shutil.rmtree, after whatever the executor thread has done since the read.
Destroy ==
    /\ reap # IdleReap
    /\ trash' = [e \in Entries |-> IF e = reap.entry THEN GoneEntry ELSE trash[e]]
    /\ place' = [p \in Projects |->
                    IF place[p] = reap.entry \/ (place[p] = Home /\ p \in Inside(reap.path))
                      THEN Lost ELSE place[p]]
    /\ tops' = tops \ {d \in Dirs : reap.path = <<d>>}
    /\ fresh' = fresh \union {d \in Dirs : reap.path \notin {<<>>, <<d>>} /\ reap.path[1] = d}
    /\ reap' = IdleReap
    /\ cut' = cut \ {reap.entry}
    /\ UNCHANGED <<intents, worker, scan, budget>>

----------------------------------------------------------------------------

\* No call is going on; none takes a day.
AllIdle == LoopFree /\ worker["scan"].pc = "idle"

\* owned_workspace_min_age_days pass.
AgeDir(d) ==
    /\ d \in fresh /\ AllIdle
    /\ fresh' = fresh \ {d}
    /\ UNCHANGED <<place, tops, trash, intents, worker, scan, reap, cut, budget>>

\* owned_trash_retention_days pass.
AgeEntry(e) ==
    /\ trash[e].st \notin {"none", "gone"} /\ ~trash[e].old
    /\ AllIdle
    /\ trash' = [trash EXCEPT ![e].old = TRUE]
    /\ UNCHANGED <<place, tops, fresh, intents, worker, scan, reap, cut, budget>>

Crash ==
    /\ rare < MaxRare
    /\ rare' = rare + 1
    /\ cut' = cut \union UNION {Unfinished(w) : w \in Callers}
    /\ worker' = [w \in Callers |-> IdleWorker]
    /\ scan' = IdleScan /\ reap' = IdleReap
    /\ UNCHANGED <<disk, intents, used, started>>

Next ==
    \/ \E p \in Projects : CreateProject(p) \/ StartIntent(p) \/ EndIntent(p)
    \/ \E path \in Paths, approved \in BOOLEAN : ToolGC(path, approved)
    \/ ScanBegin \/ (\E d \in Dirs : ScanGC(d)) \/ ScanEnd
    \/ \E w \in Callers : Collect(w)
    \/ \E e \in Entries : RestoreMove(e) \/ AgeEntry(e)
    \/ RestoreClean
    \/ \E e \in Entries : ReapRead(e) \/ ReapReadNamed(e, <<>>)
    \/ \E path \in Paths : ReapReadNamed(0, path)
    \/ Destroy
    \/ \E d \in Dirs : AgeDir(d)
    \/ Crash

Spec == Init /\ [][Next]_vars

----------------------------------------------------------------------------
(* Properties.                                                             *)

\* I-OWN3, "deletion = move-to-trash + manifest.json": what is in the trash can be
\* restored, unless its move was cut short or is still going on.
TrashRestorable ==
    \A p \in Projects : place[p] \in Entries =>
        \/ trash[place[p]].st = "sealed" /\ p \in Inside(trash[place[p]].path)
        \/ place[p] \in cut
        \/ \E w \in Callers : worker[w].entry = place[p]

\* I-OWN3: unless its call names another directory or another window, reap destroys only
\* what has been in the trash for the retention window, or whose collection was cut short,
\* or was at its manifest when reap read it.
ReapKeepsSealed ==
    [][\A p \in Projects : place[p] # Lost /\ place'[p] = Lost =>
          \/ reap.asked
          \/ /\ place[p] \in Entries
             /\ trash[place[p]].old \/ place[p] \in cut \/ reap.filling]_vars

\* I-OWN3, "hard-delete (reap) only after retention window".
ReapAfterRetention ==
    [][\A p \in Projects : place[p] # Lost /\ place'[p] = Lost =>
          place[p] \in Entries /\ trash[place[p]].old]_vars

\* I-OWN2, for the tool: a workspace that it collects by its own path has no intent
\* that is still running, from the check to the move.
ToolSparesActive ==
    [][worker["tool"].pc = "move" /\ worker'["tool"].pc # "move" =>
          \A p \in intents :
              place[p] = Home /\ place'[p] \in Entries => worker["tool"].path # Workdir(p)]_vars

\* I-OWN2, "refuse ops on ... workspaces bound to active intents".
ActiveNotCollected ==
    [][\A p \in Projects : place[p] = Home /\ place'[p] \in Entries => p \notin intents]_vars

=============================================================================
