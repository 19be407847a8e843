------------------------- MODULE OwnedResourceProofs -------------------------
(***************************************************************************)
(* Theorems about OwnedResource, for any projects and directories and any  *)
(* number of entries, intents, crashes and reaps.                          *)
(***************************************************************************)
EXTENDS OwnedResource, TLAPS

\* Entries are numbered in the order in which they are made.
Numbered == \A e \in Entries : e > used => trash[e].st = "none"

\* What the state of an entry says about the caller that works on it.
Stage(w) ==
    /\ worker[w].pc \in {"idle", "mkdir"} => worker[w].entry = 0
    /\ worker[w].pc \notin {"idle", "mkdir"} => worker[w].entry \in 1..used
    /\ worker[w].pc = "move" => trash[worker[w].entry].st \in {"empty", "gone"}
    /\ worker[w].pc = "open" => trash[worker[w].entry].st \in {"full", "gone"}
    /\ worker[w].pc = "fill" => trash[worker[w].entry].st \in {"torn", "gone"}
    /\ worker[w].pc = "clean" => trash[worker[w].entry].st \in {"emptied", "gone"}
    /\ worker[w].pc # "idle" => worker[w].path \in Paths

Stages == \A w \in Callers : Stage(w)

\* Two callers work on different entries.
Apart ==
    \A v, w \in Callers : v # w /\ worker[v].entry # 0 => worker[v].entry # worker[w].entry

\* Contents are only in entries that hold contents, made from a path above them.
Held ==
    \A p \in Projects : place[p] \in Entries =>
        /\ trash[place[p]].st \in {"full", "torn", "sealed"}
        /\ p \in Inside(trash[place[p]].path)

\* An entry without a complete manifest is in work, or its move was cut short.
Known ==
    \A e \in Entries : trash[e].st \in {"full", "torn"} =>
        e \in cut \/ \E w \in Callers : worker[w].entry = e

\* The executor thread works on young entries.
Young == worker["scan"].entry \in Entries => ~trash[worker["scan"].entry].old

\* What reap is about to delete without having been asked for it: an entry that is not
\* worked on, or was when its manifest was read.
Aimed ==
    /\ reap.entry \in 0..used
    /\ reap # IdleReap /\ ~reap.asked =>
          /\ reap.path = <<>> /\ reap.entry # 0
          /\ \/ reap.filling \/ reap.entry \in cut
             \/ /\ trash[reap.entry].old
                /\ \A w \in Callers : worker[w].entry # reap.entry

\* The entries that are sealed have a path.
SealedPath == \A e \in Entries : trash[e].st \notin {"none", "gone"} => trash[e].path \in Paths

\* The floor still holds for what the tool is about to move.
ToolPath ==
    worker["tool"].pc \in {"mkdir", "move"} =>
        \A p \in intents : worker["tool"].path # Workdir(p)

Inv ==
    /\ TypeOK /\ Numbered /\ Stages /\ Apart /\ Held /\ Known /\ Young /\ Aimed /\ SealedPath
    /\ ToolPath

\* A path starts with a directory of workspaces_root.
LEMMA PathHead == \A path \in Paths : path[1] \in Dirs
  BY DEF Paths, Workdir, Dirs

\* Workdirs are paths.
LEMMA WorkdirPath == \A p \in Projects : Workdir(p) \in Paths
  BY DEF Paths

\* Directories are paths.
LEMMA DirPath == \A d \in Dirs : <<d>> \in Paths
  BY DEF Paths

\* The invariant holds at the start.
LEMMA InvInit == Init => Inv
  <1> SUFFICES ASSUME Init PROVE Inv
    OBVIOUS
  <1>1. TypeOK
    BY OwnedAssumption DEF Init, TypeOK, NoEntry, Entry, IdleWorker, IdleScan, IdleReap
  <1>2. Numbered /\ SealedPath /\ Known
    BY DEF Init, Numbered, SealedPath, Known, NoEntry, Entry
  <1>3. Stages /\ Apart /\ ToolPath
    BY DEF Init, Stages, Stage, Apart, ToolPath, IdleWorker, Callers
  <1>4. Held
    BY PlaceAssumption DEF Init, Held
  <1>5. Young /\ Aimed
    BY DEF Init, Young, Aimed, IdleWorker, IdleReap, Callers, Entries
  <1> QED
    BY <1>1, <1>2, <1>3, <1>4, <1>5 DEF Inv

\* Steps of the users and of the scan leave the trash alone.
LEMMA InvUsers ==
  ASSUME Inv,
         \/ \E p \in Projects : CreateProject(p) \/ StartIntent(p) \/ EndIntent(p)
         \/ \E path \in Paths, approved \in BOOLEAN : ToolGC(path, approved)
         \/ ScanBegin \/ (\E d \in Dirs : ScanGC(d)) \/ ScanEnd
         \/ \E d \in Dirs : AgeDir(d)
  PROVE  Inv'
  <1> USE DEF Inv
  <1>1. ASSUME NEW p \in Projects, CreateProject(p) PROVE Inv'
    <2>1. TypeOK'
      BY <1>1, OwnedAssumption DEF CreateProject, TypeOK, budget, Dirs
    <2>2. Held'
      BY <1>1, PlaceAssumption DEF CreateProject, TypeOK, Held
    <2> QED
      BY <1>1, <2>1, <2>2 DEF CreateProject, budget, Numbered, Stages, Stage, Apart, Known, Young, Aimed,
         SealedPath, ToolPath
  <1>2. ASSUME NEW p \in Projects, StartIntent(p) PROVE Inv'
    BY <1>2, OwnedAssumption DEF StartIntent, LoopFree, TypeOK, disk, Numbered, Stages, Stage, Apart, Held,
       Known, Young, Aimed, SealedPath, ToolPath
  <1>3. ASSUME NEW p \in Projects, EndIntent(p) PROVE Inv'
    BY <1>3, OwnedAssumption DEF EndIntent, TypeOK, disk, budget, Numbered, Stages, Stage, Apart, Held,
       Known, Young, Aimed, SealedPath, ToolPath
  <1>4. ASSUME NEW path \in Paths, NEW approved \in BOOLEAN, ToolGC(path, approved) PROVE Inv'
    <2>1. worker' = [worker EXCEPT !["tool"] = Work("mkdir", path, 0)]
          /\ UNCHANGED <<place, tops, fresh, trash, intents, scan, reap, cut, used, started, rare>>
          /\ worker["tool"].entry = 0 /\ reap = IdleReap
      BY <1>4 DEF ToolGC, LoopFree, disk, budget, Stages, Stage, Callers
    <2>2. TypeOK'
      BY <2>1 DEF TypeOK, Work, Callers
    <2>3. Stages' /\ Apart'
      BY <2>1 DEF TypeOK, Work, Callers, Stages, Stage, Apart
    <2>4. Held' /\ Known' /\ Young' /\ Aimed'
      BY <2>1 DEF TypeOK, Work, Callers, Held, Known, Young, Aimed, Entries
    <2>5. ToolPath'
      <3>1. \A p \in intents : path # Workdir(p)
        BY <1>4 DEF ToolGC, Floored, ActiveDirs
      <3>2. worker'["tool"].path = path
        BY <2>1 DEF TypeOK, Work, Callers
      <3> QED
        BY <2>1, <3>1, <3>2 DEF ToolPath
    <2> QED
      BY <2>1, <2>2, <2>3, <2>4, <2>5 DEF Numbered, SealedPath
  <1>5. ASSUME ScanBegin PROVE Inv'
    <2>1. ActiveDirs \subseteq Paths
      BY WorkdirPath DEF ActiveDirs, TypeOK
    <2> QED
      BY <1>5, <2>1 DEF ScanBegin, TypeOK, disk, budget, Numbered, Stages, Stage, Apart, Held, Known, Young,
         Aimed, SealedPath, ToolPath
  <1>6. ASSUME NEW d \in Dirs, ScanGC(d) PROVE Inv'
    <2>1. CASE worker' = worker
      <3>1. UNCHANGED <<place, tops, fresh, trash, intents, reap, cut, used, started, rare>>
            /\ scan' = [scan EXCEPT !.todo = @ \ {d}]
        BY <1>6 DEF ScanGC, disk, budget
      <3>2. TypeOK'
        BY <3>1, <2>1 DEF TypeOK
      <3> QED
        BY <2>1, <3>1, <3>2 DEF Numbered, Stages, Stage, Apart, Held, Known, Young, Aimed, SealedPath, ToolPath
    <2>2. CASE worker' = [worker EXCEPT !["scan"] = Work("mkdir", <<d>>, 0)]
      <3>1. UNCHANGED <<place, tops, fresh, trash, intents, reap, cut, used, started, rare>>
            /\ scan' = [scan EXCEPT !.todo = @ \ {d}]
            /\ worker["scan"].entry = 0 /\ reap = IdleReap
        BY <1>6 DEF ScanGC, LoopFree, disk, budget, Stages, Stage, Callers
      <3>2. TypeOK'
        BY <3>1, <2>2, DirPath DEF TypeOK, Work, Callers
      <3>3. Stages' /\ Apart' /\ ToolPath'
        BY <3>1, <2>2, DirPath DEF TypeOK, Work, Callers, Stages, Stage, Apart, ToolPath
      <3>4. Held' /\ Known' /\ Young' /\ Aimed'
        BY <3>1, <2>2 DEF TypeOK, Work, Callers, Held, Known, Young, Aimed, Entries
      <3> QED
        BY <3>1, <3>2, <3>3, <3>4 DEF Numbered, SealedPath
    <2> QED
      BY <1>6, <2>1, <2>2 DEF ScanGC
  <1>7. ASSUME ScanEnd PROVE Inv'
    BY <1>7 DEF ScanEnd, IdleScan, TypeOK, disk, budget, Numbered, Stages, Stage, Apart, Held, Known, Young,
       Aimed, SealedPath, ToolPath
  <1>8. ASSUME NEW d \in Dirs, AgeDir(d) PROVE Inv'
    BY <1>8 DEF AgeDir, TypeOK, budget, Numbered, Stages, Stage, Apart, Held, Known, Young, Aimed, SealedPath,
       ToolPath
  <1> QED
    BY <1>1, <1>2, <1>3, <1>4, <1>5, <1>6, <1>7, <1>8

\* Steps of a caller of gc_workspace_to_trash.
LEMMA InvCollect ==
  ASSUME Inv, NEW w \in Callers, Collect(w)
  PROVE  Inv'
  <1> USE DEF Inv
  <1> DEFINE path == worker[w].path
             e == worker[w].entry
  <1>1. CASE MakeEntry(w)
    <2>1. /\ path \in Paths /\ e = 0 /\ used + 1 \in Entries /\ trash[used + 1].st = "none"
          /\ used \in Nat /\ MaxEntries \in Nat /\ e \notin Entries
      BY <1>1, OwnedAssumption DEF MakeEntry, TypeOK, Stages, Stage, Numbered, Entries
    <2>2. /\ used' = used + 1
          /\ trash' = [trash EXCEPT ![used + 1] = Entry("empty", path, FALSE)]
          /\ worker' = [worker EXCEPT ![w] = Work("move", path, used + 1)]
          /\ UNCHANGED <<place, tops, fresh, intents, scan, reap, cut, started, rare>>
      BY <1>1 DEF MakeEntry
    <2>3. TypeOK'
      BY <2>1, <2>2 DEF TypeOK, Entry, Work, Entries
    <2>4. Numbered' /\ SealedPath'
      BY <2>1, <2>2 DEF TypeOK, Entry, Numbered, SealedPath, Entries
    <2>5. Stages'
      BY <2>1, <2>2, <2>3 DEF TypeOK, Entry, Work, Stages, Stage, Entries
    <2>6. Apart'
      BY <2>1, <2>2 DEF TypeOK, Work, Apart, Stages, Stage, Entries
    <2>7. Held'
      <3> SUFFICES ASSUME NEW p \in Projects, place[p] \in Entries
                   PROVE  /\ trash'[place[p]].st \in {"full", "torn", "sealed"}
                          /\ p \in Inside(trash'[place[p]].path)
        BY <2>2 DEF Held
      <3>1. place[p] # used + 1
        BY <2>1 DEF Held
      <3>2. trash'[place[p]] = trash[place[p]]
        BY <2>2, <3>1 DEF TypeOK
      <3> QED
        BY <3>2 DEF Held
    <2>8. ToolPath'
      BY <1>1, <2>2 DEF MakeEntry, TypeOK, Work, ToolPath, Callers
    <2>9. /\ trash'[used + 1] = Entry("empty", path, FALSE)
          /\ \A f \in Entries \ {used + 1} : trash'[f] = trash[f]
          /\ \A v \in Callers \ {w} : worker'[v] = worker[v]
          /\ worker'[w] = Work("move", path, used + 1)
      BY <2>1, <2>2 DEF TypeOK
    <2>10. Known' /\ Young'
      BY <2>1, <2>2, <2>9 DEF Known, Young, Entry, Work, Callers
    <2>11. Aimed'
      <3>1. reap.entry \in 0..used /\ reap.entry # used + 1
        BY <2>1 DEF Aimed
      <3>2. reap.entry # 0 => reap.entry \in Entries \ {used + 1}
        BY <2>1, <3>1 DEF Entries
      <3>3. reap.entry # 0 => trash'[reap.entry] = trash[reap.entry]
        BY <2>9, <3>2
      <3>4. worker'[w].entry = used + 1
        BY <2>9 DEF Work
      <3>5. reap.entry \in 0..used'
        BY <2>1, <2>2, <3>1
      <3> QED
        BY <2>2, <2>9, <3>1, <3>3, <3>4, <3>5 DEF Aimed
    <2> QED
      BY <2>3, <2>4, <2>5, <2>6, <2>7, <2>8, <2>10, <2>11
  <1>2. CASE Move(w)
    <2>1. /\ path \in Paths /\ e \in Entries /\ e \in 1..used /\ trash[e].st \in {"empty", "gone"}
          /\ used \in Nat
      BY <1>2, OwnedAssumption DEF Move, TypeOK, Stages, Stage, Entries
    <2>2. /\ place' = [p \in Projects |-> IF p \in Inside(path) /\ place[p] = Home
                                            THEN e ELSE place[p]]
          /\ tops' = tops \ {d \in Dirs : path = <<d>>}
          /\ fresh' = fresh \union {d \in Dirs : path[1] = d /\ path # <<d>>}
          /\ trash' = [trash EXCEPT ![e] = Entry("full", path, FALSE)]
          /\ worker' = [worker EXCEPT ![w] = Work("open", path, e)]
          /\ UNCHANGED <<intents, scan, reap, cut, used, started, rare>>
      BY <1>2 DEF Move, budget
    <2>3. TypeOK'
      BY <2>1, <2>2 DEF TypeOK, Entry, Work
    <2>4. Numbered' /\ SealedPath'
      BY <2>1, <2>2 DEF TypeOK, Entry, Numbered, SealedPath, Entries
    <2>5. Apart'
      BY <2>1, <2>2 DEF TypeOK, Work, Apart
    <2>6. Stages'
      <3>1. ASSUME NEW v \in Callers, v # w
            PROVE  /\ worker'[v] = worker[v]
                   /\ worker[v].pc \notin {"idle", "mkdir"} =>
                         trash'[worker[v].entry] = trash[worker[v].entry]
        <4>1. worker'[v] = worker[v]
          BY <3>1, <2>2 DEF TypeOK
        <4>2. worker[v].pc \notin {"idle", "mkdir"} =>
                 worker[v].entry # e /\ worker[v].entry \in Entries
          BY <3>1, <2>1 DEF Apart, Stages, Stage, TypeOK
        <4> QED
          BY <2>2, <4>1, <4>2 DEF TypeOK
      <3>2. worker'[w] = Work("open", path, e) /\ trash'[e] = Entry("full", path, FALSE)
        BY <2>1, <2>2 DEF TypeOK
      <3>3. Stage(w)'
        BY <2>1, <2>2, <3>2 DEF Entry, Work, Stage
      <3>4. ASSUME NEW v \in Callers, v # w PROVE Stage(v)'
        BY <3>4, <2>1, <2>2, <3>1, ZenonT(30) DEF Stages, Stage
      <3> QED
        BY <3>3, <3>4 DEF Stages
    <2>7. Held'
      <3> SUFFICES ASSUME NEW p \in Projects, place'[p] \in Entries
                   PROVE  /\ trash'[place'[p]].st \in {"full", "torn", "sealed"}
                          /\ p \in Inside(trash'[place'[p]].path)
        BY <2>2 DEF Held
      <3>1. CASE p \in Inside(path) /\ place[p] = Home
        BY <2>1, <2>2, <3>1 DEF TypeOK, Entry, Work
      <3>2. CASE ~(p \in Inside(path) /\ place[p] = Home)
        <4>1. place'[p] = place[p] /\ place[p] # e
          BY <2>1, <2>2, <3>2 DEF Held
        <4>2. trash'[place[p]] = trash[place[p]]
          BY <2>2, <4>1 DEF TypeOK
        <4> QED
          BY <4>1, <4>2 DEF Held
      <3> QED
        BY <3>1, <3>2
    <2>8. ToolPath'
      BY <1>2, <2>2 DEF Move, TypeOK, Work, ToolPath, Callers
    <2>9. /\ trash'[e] = Entry("full", path, FALSE)
          /\ \A f \in Entries \ {e} : trash'[f] = trash[f]
          /\ \A v \in Callers : worker'[v].entry = worker[v].entry
      BY <2>1, <2>2 DEF TypeOK, Work
    <2>10. Known' /\ Young'
      BY <2>1, <2>2, <2>9 DEF Known, Young, Entry
    <2>11. Aimed'
      <3>1. reap.entry # 0 /\ reap.entry # e => trash'[reap.entry] = trash[reap.entry]
        <4>1. reap.entry \in Entries \union {0}
          BY DEF TypeOK
        <4> QED
          BY <2>9, <4>1
      <3> QED
        BY <2>2, <2>9, <3>1 DEF Aimed
    <2> QED
      BY <2>3, <2>4, <2>5, <2>6, <2>7, <2>8, <2>10, <2>11
  <1>3. CASE OpenManifest(w)
    <2>1. /\ e \in Entries /\ e \in 1..used /\ trash[e].st = "full" /\ used \in Nat
          /\ path \in Paths
      BY <1>3, OwnedAssumption DEF OpenManifest, TypeOK, Stages, Stage, Entries
    <2>2. /\ trash' = [trash EXCEPT ![e].st = "torn"]
          /\ worker' = [worker EXCEPT ![w] = Work("fill", path, e)]
          /\ UNCHANGED <<place, tops, fresh, intents, scan, reap, cut, used, started, rare>>
      BY <1>3 DEF OpenManifest, budget
    <2>3. TypeOK'
      <3>1. trash' \in [Entries -> [st : {"none", "empty", "full", "torn", "sealed", "emptied",
                                          "gone"},
                                    path : Paths \union {<<>>}, old : BOOLEAN]]
        BY <2>1, <2>2 DEF TypeOK
      <3>2. worker' \in [Callers -> [pc : {"idle", "mkdir", "move", "open", "fill", "clean"},
                                     path : Paths \union {<<>>}, entry : Entries \union {0}]]
        BY <2>1, <2>2 DEF TypeOK, Work
      <3> QED
        BY <2>2, <3>1, <3>2 DEF TypeOK
    <2>4. /\ trash'[e].st = "torn" /\ trash'[e].path = trash[e].path
          /\ \A f \in Entries \ {e} : trash'[f] = trash[f]
          /\ trash'[e].old = trash[e].old
          /\ \A v \in Callers : worker'[v].entry = worker[v].entry
      <3>1. trash'[e] = [trash[e] EXCEPT !.st = "torn"]
        BY <2>1, <2>2 DEF TypeOK
      <3>2. /\ \A f \in Entries \ {e} : trash'[f] = trash[f]
            /\ \A v \in Callers : worker'[v].entry = worker[v].entry
        BY <2>1, <2>2 DEF TypeOK, Work
      <3> QED
        BY <2>1, <3>1, <3>2 DEF TypeOK
    <2>5. Numbered' /\ SealedPath'
      BY <2>1, <2>2, <2>4 DEF Numbered, SealedPath, Entries
    <2>6. Apart'
      BY <2>4 DEF Apart
    <2>7. Stages'
      <3>1. ASSUME NEW v \in Callers, v # w
            PROVE  /\ worker'[v] = worker[v]
                   /\ worker[v].pc \notin {"idle", "mkdir"} =>
                         trash'[worker[v].entry] = trash[worker[v].entry]
        <4>1. worker'[v] = worker[v]
          BY <3>1, <2>2 DEF TypeOK
        <4>2. worker[v].pc \notin {"idle", "mkdir"} =>
                 worker[v].entry # e /\ worker[v].entry \in Entries
          BY <3>1, <2>1 DEF Apart, Stages, Stage, TypeOK
        <4> QED
          BY <2>4, <4>1, <4>2
      <3>2. worker'[w] = Work("fill", path, e)
        BY <2>2 DEF TypeOK
      <3>3. Stage(w)'
        BY <2>1, <2>2, <2>4, <3>2 DEF Work, Stage
      <3>4. ASSUME NEW v \in Callers, v # w PROVE Stage(v)'
        BY <3>4, <2>1, <2>2, <3>1, ZenonT(30) DEF Stages, Stage
      <3> QED
        BY <3>3, <3>4 DEF Stages
    <2>8. Held'
      BY <2>1, <2>2, <2>4 DEF Held, TypeOK
    <2>9. ToolPath'
      BY <2>2 DEF TypeOK, Work, ToolPath, Callers
    <2>10. Known' /\ Young'
      BY <2>1, <2>2, <2>4 DEF Known, Young
    <2>11. Aimed'
      <3>1. reap.entry # 0 => trash'[reap.entry].old = trash[reap.entry].old
        <4>1. reap.entry \in Entries \union {0}
          BY DEF TypeOK
        <4> QED
          BY <2>4, <4>1
      <3> QED
        BY <2>2, <2>4, <3>1 DEF Aimed
    <2> QED
      BY <2>3, <2>5, <2>6, <2>7, <2>8, <2>9, <2>10, <2>11
  <1>4. CASE FillManifest(w)
    <2>1. /\ e \in Entries /\ e \in 1..used /\ trash[e].st \in {"torn", "gone"} /\ used \in Nat
      BY <1>4, OwnedAssumption DEF FillManifest, TypeOK, Stages, Stage, Entries
    <2>2. /\ trash' = [trash EXCEPT ![e].st = IF @ = "torn" THEN "sealed" ELSE @]
          /\ worker' = [worker EXCEPT ![w] = IdleWorker]
          /\ UNCHANGED <<place, tops, fresh, intents, scan, reap, cut, used, started, rare>>
      BY <1>4 DEF FillManifest, budget
    <2>3. TypeOK'
      BY <2>1, <2>2 DEF TypeOK, IdleWorker
    <2>4. /\ trash'[e].st \in {"sealed", "gone"} /\ trash'[e].path = trash[e].path
          /\ trash'[e].st = "gone" => trash[e].st = "gone"
          /\ trash'[e].old = trash[e].old
          /\ \A f \in Entries \ {e} : trash'[f] = trash[f]
          /\ \A v \in Callers \ {w} : worker'[v] = worker[v]
          /\ worker'[w] = IdleWorker
      BY <2>1, <2>2 DEF TypeOK
    <2>5. Numbered' /\ SealedPath'
      BY <2>1, <2>2, <2>4 DEF Numbered, SealedPath, Entries
    <2>6. Apart'
      BY <2>4 DEF Apart, IdleWorker
    <2>7. Stages'
      <3>1. ASSUME NEW v \in Callers, v # w
            PROVE  /\ worker'[v] = worker[v]
                   /\ worker[v].pc \notin {"idle", "mkdir"} =>
                         trash'[worker[v].entry] = trash[worker[v].entry]
        <4>1. worker[v].pc \notin {"idle", "mkdir"} =>
                 worker[v].entry # e /\ worker[v].entry \in Entries
          BY <3>1, <2>1 DEF Apart, Stages, Stage, TypeOK
        <4> QED
          BY <2>4, <3>1, <4>1
      <3>2. Stage(w)'
        BY <2>4 DEF IdleWorker, Stage
      <3>3. ASSUME NEW v \in Callers, v # w PROVE Stage(v)'
        BY <3>3, <2>2, <3>1, ZenonT(30) DEF Stages, Stage
      <3> QED
        BY <3>2, <3>3 DEF Stages
    <2>8. Held'
      BY <2>1, <2>2, <2>4 DEF Held, TypeOK, IdleWorker
    <2>9. ToolPath'
      BY <2>2, <2>4 DEF IdleWorker, ToolPath, Callers
    <2>10. Known' /\ Young'
      BY <2>1, <2>2, <2>4 DEF Known, Young, IdleWorker, Callers, Entries
    <2>11. Aimed'
      BY <2>1, <2>2, <2>4 DEF Aimed, IdleWorker, Entries
    <2> QED
      BY <2>3, <2>5, <2>6, <2>7, <2>8, <2>9, <2>10, <2>11
  <1>5. CASE CollectFails(w)
    <2>1. /\ worker' = [worker EXCEPT ![w] = IdleWorker]
          /\ cut' = cut \union ({e} \intersect Entries)
          /\ UNCHANGED <<place, tops, fresh, trash, intents, scan, reap, used, started, rare>>
      BY <1>5 DEF CollectFails, Unfinished, disk, budget
    <2>2. TypeOK'
      BY <2>1 DEF TypeOK, IdleWorker
    <2>3. Stages' /\ Apart' /\ ToolPath'
      BY <2>1 DEF TypeOK, IdleWorker, Stages, Stage, Apart, ToolPath, Callers
    <2>4. Held'
      BY <2>1 DEF Held
    <2>5. /\ worker'[w] = IdleWorker /\ \A v \in Callers \ {w} : worker'[v] = worker[v]
      BY <2>1 DEF TypeOK
    <2>6. Known' /\ Young'
      BY <2>1, <2>5 DEF Known, Young, IdleWorker, Callers, Entries
    <2>7. Aimed'
      BY <2>1, <2>5, OwnedAssumption DEF Aimed, IdleWorker, TypeOK
    <2> QED
      BY <2>1, <2>2, <2>3, <2>4, <2>6, <2>7 DEF Numbered, SealedPath
  <1> QED
    BY <1>1, <1>2, <1>3, <1>4, <1>5 DEF Collect

\* Steps that touch one entry of the trash: restore, the passing of time.
LEMMA InvEntries ==
  ASSUME Inv, NEW e \in Entries, RestoreMove(e) \/ AgeEntry(e)
  PROVE  Inv'
  <1> USE DEF Inv
  <1>1. CASE RestoreMove(e)
    <2>1. /\ e \in 1..used /\ trash[e].st = "sealed" /\ trash[e].path \in Paths
          /\ trash[e].path[1] \in Dirs /\ worker["tool"].pc = "idle" /\ reap = IdleReap
      BY <1>1, PathHead, OwnedAssumption DEF RestoreMove, LoopFree, TypeOK, Numbered, SealedPath, Entries
    <2>2. /\ place' = [p \in Projects |-> IF place[p] = e THEN Home ELSE place[p]]
          /\ tops' = tops \union {trash[e].path[1]}
          /\ fresh' = fresh \union {d \in Dirs : trash[e].path[1] = d /\ trash[e].path # <<d>>}
          /\ trash' = [trash EXCEPT ![e].st = "emptied"]
          /\ worker' = [worker EXCEPT !["tool"] = Work("clean", trash[e].path, e)]
          /\ UNCHANGED <<intents, scan, reap, cut, used, started, rare>>
      BY <1>1 DEF RestoreMove, budget
    <2>3. TypeOK'
      BY <2>1, <2>2, ZenonT(60) DEF TypeOK, Work
    <2>4. /\ trash'[e].st = "emptied" /\ trash'[e].path = trash[e].path
          /\ \A f \in Entries \ {e} : trash'[f] = trash[f]
          /\ worker'["tool"] = Work("clean", trash[e].path, e)
          /\ \A v \in Callers \ {"tool"} : worker'[v] = worker[v]
      BY <2>2 DEF TypeOK, Callers
    <2>5. Numbered' /\ SealedPath'
      BY <2>1, <2>2, <2>4 DEF Numbered, SealedPath, Entries
    <2>6. \A v \in Callers : worker[v].entry # e
      BY <2>1 DEF Stages, Stage, TypeOK, Entries
    <2>7. Apart'
      BY <2>4, <2>6 DEF Apart, Work
    <2>8. Stages'
      <3>1. Stage("tool")'
        BY <2>1, <2>2, <2>4 DEF Stage, Work
      <3>2. ASSUME NEW v \in Callers, v # "tool" PROVE Stage(v)'
        <4>1. worker[v].pc \notin {"idle", "mkdir"} => trash'[worker[v].entry] = trash[worker[v].entry]
          BY <2>4, <2>6 DEF Stages, Stage, TypeOK
        <4>2. worker'[v] = worker[v] /\ used' = used /\ Stage(v)
          BY <3>2, <2>2, <2>4 DEF Stages
        <4> QED
          BY <4>1, <4>2 DEF Stage
      <3> QED
        BY <3>1, <3>2 DEF Stages
    <2>9. Held'
      <3> SUFFICES ASSUME NEW p \in Projects, place'[p] \in Entries
                   PROVE  /\ trash'[place'[p]].st \in {"full", "torn", "sealed"}
                          /\ p \in Inside(trash'[place'[p]].path)
        BY <2>2 DEF Held
      <3>1. place'[p] = place[p] /\ place[p] \in Entries \ {e}
        BY <2>2, PlaceAssumption
      <3>2. trash'[place[p]] = trash[place[p]]
        BY <2>4, <3>1
      <3> QED
        BY <3>1, <3>2 DEF Held
    <2>10. ToolPath'
      BY <2>4 DEF ToolPath, Work
    <2>11. Known' /\ Young'
      <3>1. worker["tool"].entry = 0 /\ 0 \notin Entries
        BY <2>1 DEF Stages, Stage, Callers, Entries
      <3> QED
        BY <2>2, <2>4, <2>6, <3>1 DEF Known, Young, Callers
    <2>12. Aimed'
      BY <2>1, <2>2 DEF Aimed
    <2> QED
      BY <2>3, <2>5, <2>7, <2>8, <2>9, <2>10, <2>11, <2>12
  <1>2. CASE AgeEntry(e)
    <2>1. /\ trash' = [trash EXCEPT ![e].old = TRUE]
          /\ UNCHANGED <<place, tops, fresh, intents, worker, scan, reap, cut, used, started, rare>>
      BY <1>2 DEF AgeEntry, budget
    <2>2. TypeOK'
      <3>1. trash[e] \in [st : {"none", "empty", "full", "torn", "sealed", "emptied", "gone"},
                          path : Paths \union {<<>>}, old : BOOLEAN]
        BY DEF TypeOK
      <3>2. TRUE \in BOOLEAN
        OBVIOUS
      <3>3. [trash[e] EXCEPT !.old = TRUE] \in
               [st : {"none", "empty", "full", "torn", "sealed", "emptied", "gone"},
                path : Paths \union {<<>>}, old : BOOLEAN]
        BY <3>1, <3>2
      <3>4. trash' = [trash EXCEPT ![e] = [trash[e] EXCEPT !.old = TRUE]]
        BY <2>1
      <3> QED
        BY <2>1, <3>3, <3>4 DEF TypeOK
    <2>3. \A f \in Entries : trash'[f].st = trash[f].st /\ trash'[f].path = trash[f].path
      BY <2>1 DEF TypeOK
    <2>4. Numbered' /\ SealedPath' /\ Apart' /\ Known' /\ ToolPath'
      BY <2>1, <2>3 DEF Numbered, SealedPath, Apart, Known, ToolPath
    <2>5. Stages'
      <3> SUFFICES ASSUME NEW v \in Callers PROVE Stage(v)'
        BY DEF Stages
      <3>1. worker[v].pc \notin {"idle", "mkdir"} =>
               trash'[worker[v].entry].st = trash[worker[v].entry].st
        BY <2>3 DEF Stages, Stage, TypeOK
      <3> QED
        BY <2>1, <3>1 DEF Stages, Stage
    <2>6. Held'
      BY <2>1, <2>3 DEF Held
    <2>7. Young' /\ Aimed'
      <3>1. worker["scan"].entry \notin Entries /\ reap = IdleReap
        BY <1>2 DEF AgeEntry, AllIdle, LoopFree, Stages, Stage, Callers, Entries
      <3> QED
        BY <2>1, <3>1 DEF Young, Aimed
    <2> QED
      BY <2>2, <2>4, <2>5, <2>6, <2>7
  <1> QED
    BY <1>1, <1>2

\* The end of a restore, and a crash: callers stop.
LEMMA InvEnds ==
  ASSUME Inv, RestoreClean \/ Crash
  PROVE  Inv'
  <1> USE DEF Inv
  <1>1. CASE RestoreClean
    <2> DEFINE e == worker["tool"].entry
    <2>1. /\ e \in Entries /\ e \in 1..used /\ trash[e].st \in {"emptied", "gone"}
      BY <1>1, OwnedAssumption DEF RestoreClean, TypeOK, Stages, Stage, Callers, Entries
    <2>2. /\ trash' = [trash EXCEPT ![e] = GoneEntry]
          /\ worker' = [worker EXCEPT !["tool"] = IdleWorker]
          /\ UNCHANGED <<place, tops, fresh, intents, scan, reap, cut, used, started, rare>>
      BY <1>1 DEF RestoreClean, budget
    <2>3. TypeOK'
      BY <2>1, <2>2 DEF TypeOK, IdleWorker, Callers, GoneEntry, Entry
    <2>4. /\ trash'[e] = GoneEntry
          /\ \A f \in Entries \ {e} : trash'[f] = trash[f]
          /\ \A v \in Callers \ {"tool"} : worker'[v] = worker[v]
          /\ worker'["tool"] = IdleWorker
      BY <2>1, <2>2 DEF TypeOK, Callers
    <2>5. Numbered' /\ SealedPath'
      BY <2>1, <2>2, <2>4 DEF Numbered, SealedPath, Entries, GoneEntry, Entry
    <2>6. Apart' /\ ToolPath'
      BY <2>4 DEF Apart, ToolPath, IdleWorker
    <2>7. Stages'
      <3>1. Stage("tool")'
        BY <2>4 DEF Stage, IdleWorker
      <3>2. ASSUME NEW v \in Callers, v # "tool" PROVE Stage(v)'
        <4>1. worker[v].pc \notin {"idle", "mkdir"} =>
                 worker[v].entry # e /\ worker[v].entry \in Entries
          BY <3>2, <2>1 DEF Apart, Stages, Stage, TypeOK, Callers
        <4> QED
          BY <3>2, <2>2, <2>4, <4>1 DEF Stages, Stage
      <3> QED
        BY <3>1, <3>2 DEF Stages
    <2>8. Held'
      <3> SUFFICES ASSUME NEW p \in Projects, place[p] \in Entries
                   PROVE  /\ trash'[place[p]].st \in {"full", "torn", "sealed"}
                          /\ p \in Inside(trash'[place[p]].path)
        BY <2>2 DEF Held
      <3>1. place[p] # e
        BY <2>1 DEF Held
      <3> QED
        BY <2>4, <3>1 DEF Held
    <2>9. Known' /\ Young'
      BY <2>1, <2>2, <2>4 DEF Known, Young, GoneEntry, Entry, IdleWorker, Callers
    <2>10. Aimed'
      BY <2>1, <2>2, <2>4 DEF Aimed, IdleWorker, Callers, Entries
    <2> QED
      BY <2>3, <2>5, <2>6, <2>7, <2>8, <2>9, <2>10
  <1>2. CASE Crash
    <2>1. /\ worker' = [w \in Callers |-> IdleWorker]
          /\ scan' = IdleScan /\ reap' = IdleReap
          /\ cut' = cut \union UNION {Unfinished(w) : w \in Callers}
          /\ rare < MaxRare /\ rare' = rare + 1
          /\ UNCHANGED <<place, tops, fresh, trash, intents, used, started>>
      BY <1>2 DEF Crash, disk
    <2>2. cut' \subseteq Entries
      BY <2>1 DEF TypeOK, Unfinished
    <2>3. TypeOK'
      BY <2>1, <2>2, OwnedAssumption DEF TypeOK, IdleWorker, IdleScan, IdleReap
    <2>4. Stages' /\ Apart' /\ ToolPath'
      BY <2>1 DEF Stages, Stage, Apart, ToolPath, IdleWorker, Callers
    <2>5. Held' /\ Known' /\ Young' /\ Aimed'
      <3>1. \A w \in Callers : worker[w].entry \in Entries => worker[w].entry \in cut'
        BY <2>1 DEF Unfinished
      <3> QED
        BY <2>1, <3>1 DEF Held, Known, Young, Aimed, IdleWorker, IdleReap, Callers, Entries, TypeOK
    <2> QED
      BY <2>1, <2>3, <2>4, <2>5 DEF Numbered, SealedPath
  <1> QED
    BY <1>1, <1>2

\* Steps of reap_trash.
LEMMA InvReap ==
  ASSUME Inv,
         \/ \E e \in Entries : ReapRead(e) \/ ReapReadNamed(e, <<>>)
         \/ \E path \in Paths : ReapReadNamed(0, path)
         \/ Destroy
  PROVE  Inv'
  <1> USE DEF Inv
  <1>1. ASSUME NEW e \in Entries, ReapRead(e) PROVE Inv'
    <2>1. /\ reap' = Doomed(e, <<>>, FALSE,
                            trash[e].st = "torn" /\ \E w \in Callers : worker[w].entry = e)
          /\ UNCHANGED <<place, tops, fresh, trash, intents, worker, scan, cut, used, started, rare>>
      BY <1>1 DEF ReapRead, disk, budget
    <2>2. TypeOK'
      BY <2>1 DEF TypeOK, Doomed
    <2>3. Aimed'
      <3>1. e \in 1..used
        BY <1>1, OwnedAssumption DEF ReapRead, Reapable, Numbered, TypeOK, Entries
      <3>2. trash[e].old => \A w \in Callers : worker[w].entry # e
        BY <1>1 DEF ReapRead, LoopFree, Young, Stages, Stage, Callers, Entries
      <3>3. trash[e].st = "torn" =>
               e \in cut \/ \E w \in Callers : worker[w].entry = e
        BY DEF Known
      <3>4. /\ reap'.entry = e /\ reap'.path = <<>>
            /\ reap'.filling = (trash[e].st = "torn" /\ \E w \in Callers : worker[w].entry = e)
        BY <2>1 DEF Doomed
      <3>5. trash[e].old \/ trash[e].st = "torn"
        BY <1>1 DEF ReapRead, Reapable
      <3>6. e # 0 /\ e \in 0..used
        BY <3>1
      <3> QED
        BY <2>1, <3>2, <3>3, <3>4, <3>5, <3>6 DEF Aimed
    <2> QED
      BY <2>1, <2>2, <2>3 DEF Numbered, Stages, Stage, Apart, Held, Known, Young, SealedPath, ToolPath
  <1>2. ASSUME NEW e \in Entries \union {0}, NEW path \in Paths \union {<<>>}, ReapReadNamed(e, path)
        PROVE  Inv'
    <2>1. /\ reap' = Doomed(e, path, TRUE, FALSE)
          /\ rare < MaxRare /\ rare' = rare + 1
          /\ UNCHANGED <<place, tops, fresh, trash, intents, worker, scan, cut, used, started>>
      BY <1>2 DEF ReapReadNamed, disk
    <2>2. TypeOK'
      BY <2>1, OwnedAssumption DEF TypeOK, Doomed
    <2>3. Aimed'
      <3>1. e \in 0..used
        BY <1>2, OwnedAssumption DEF ReapReadNamed, Numbered, TypeOK, Entries
      <3> QED
        BY <2>1, <3>1 DEF Aimed, Doomed
    <2> QED
      BY <2>1, <2>2, <2>3 DEF Numbered, Stages, Stage, Apart, Held, Known, Young, SealedPath, ToolPath
  <1>3. ASSUME Destroy PROVE Inv'
    <2>1. /\ trash' = [e \in Entries |-> IF e = reap.entry THEN GoneEntry ELSE trash[e]]
          /\ place' = [p \in Projects |->
                         IF place[p] = reap.entry \/ (place[p] = Home /\ p \in Inside(reap.path))
                           THEN Lost ELSE place[p]]
          /\ tops' = tops \ {d \in Dirs : reap.path = <<d>>}
          /\ fresh' = fresh \union {d \in Dirs : reap.path \notin {<<>>, <<d>>} /\ reap.path[1] = d}
          /\ reap' = IdleReap /\ cut' = cut \ {reap.entry}
          /\ UNCHANGED <<intents, worker, scan, used, started, rare>>
      BY <1>3 DEF Destroy, budget
    <2>2. TypeOK'
      <3>1. place' \in [Projects -> Entries \union {Home, Lost, Nowhere}]
        BY <2>1 DEF TypeOK
      <3>2. trash' \in [Entries -> [st : {"none", "empty", "full", "torn", "sealed", "emptied",
                                          "gone"},
                                    path : Paths \union {<<>>}, old : BOOLEAN]]
        BY <2>1 DEF TypeOK, GoneEntry, Entry
      <3>3. tops' \subseteq Dirs /\ fresh' \subseteq Dirs /\ cut' \subseteq Entries
        BY <2>1 DEF TypeOK
      <3>4. reap' \in [entry : Entries \union {0}, path : Paths \union {<<>>},
                       asked : BOOLEAN, filling : BOOLEAN]
        BY <2>1 DEF IdleReap
      <3> QED
        BY <2>1, <3>1, <3>2, <3>3, <3>4 DEF TypeOK
    <2>3. /\ \A e \in Entries : e = reap.entry => trash'[e] = GoneEntry
          /\ \A e \in Entries : e # reap.entry => trash'[e] = trash[e]
      BY <2>1
    <2>4. SealedPath' /\ Apart' /\ ToolPath' /\ Young' /\ Aimed'
      BY <2>1, <2>3 DEF SealedPath, Apart, ToolPath, Young, Aimed, IdleReap, GoneEntry, Entry, TypeOK
    <2>5. Numbered'
      <3>1. reap.entry \in 0..used
        BY DEF Aimed
      <3> QED
        BY <2>1, <2>3, <3>1, OwnedAssumption DEF Numbered, TypeOK, Entries
    <2>6. Known'
      BY <2>1, <2>3 DEF Known, GoneEntry, Entry
    <2>7. Stages'
      <3> SUFFICES ASSUME NEW v \in Callers PROVE Stage(v)'
        BY DEF Stages
      <3>1. CASE worker[v].entry = reap.entry
        BY <3>1, <2>1, <2>3 DEF Stages, Stage, GoneEntry, Entry, TypeOK
      <3>2. CASE worker[v].entry # reap.entry
        <4>1. worker[v].pc \notin {"idle", "mkdir"} => trash'[worker[v].entry] = trash[worker[v].entry]
          BY <3>2, <2>3 DEF Stages, Stage, TypeOK
        <4> QED
          BY <2>1, <4>1 DEF Stages, Stage
      <3> QED
        BY <3>1, <3>2
    <2>8. Held'
      <3> SUFFICES ASSUME NEW p \in Projects, place'[p] \in Entries
                   PROVE  /\ trash'[place'[p]].st \in {"full", "torn", "sealed"}
                          /\ p \in Inside(trash'[place'[p]].path)
        BY <2>1 DEF Held
      <3>1. place'[p] = place[p] /\ place[p] \in Entries /\ place[p] # reap.entry
        BY <2>1, PlaceAssumption
      <3> QED
        BY <3>1, <2>3 DEF Held
    <2> QED
      BY <2>2, <2>4, <2>5, <2>6, <2>7, <2>8
  <1> QED
    BY <1>1, <1>2, <1>3

\* The invariant is inductive.
LEMMA InvNext == Inv /\ [Next]_vars => Inv'
  <1> SUFFICES ASSUME Inv, [Next]_vars PROVE Inv'
    OBVIOUS
  <1>1. CASE UNCHANGED vars
    BY <1>1 DEF vars, disk, budget, Inv, TypeOK, Numbered, Stages, Stage, Apart, Held, Known, Young, Aimed,
       SealedPath, ToolPath
  <1>2. CASE Next
    BY <1>2, InvUsers, InvCollect, InvEntries, InvEnds, InvReap DEF Next
  <1> QED
    BY <1>1, <1>2

----------------------------------------------------------------------------

\* Callers, entries and contents fit together in every reachable state.
LEMMA TrashIsConsistent == Spec => []Inv
  BY InvInit, InvNext, PTL DEF Spec

\* Every reachable state of the owned-resource operator is well typed.
THEOREM TypeCorrect == Spec => []TypeOK
  <1>1. Inv => TypeOK
    BY DEF Inv
  <1> QED
    BY <1>1, TrashIsConsistent, PTL

\* I-OWN3 for any projects and any number of collections, failures and crashes: what is in
\* the trash can be restored, unless its move was cut short or is going on.
THEOREM TrashIsRestorable == Spec => []TrashRestorable
  <1>1. Inv => TrashRestorable
    BY DEF Inv, Held, Known, TrashRestorable
  <1> QED
    BY <1>1, TrashIsConsistent, PTL

\* I-OWN3: unless its call names another directory or another window, reap_trash destroys
\* only what has been in the trash for the retention window, or whose collection was cut
\* short, or was at its manifest at the read; and no other step destroys contents.
THEOREM ReapIsLate == Spec => ReapKeepsSealed
  <1> DEFINE Late == \A p \in Projects : place[p] # Lost /\ place'[p] = Lost =>
                        \/ reap.asked
                        \/ /\ place[p] \in Entries
                           /\ trash[place[p]].old \/ place[p] \in cut \/ reap.filling
  <1>1. Inv /\ [Next]_vars => [Late]_vars
    <2> SUFFICES ASSUME Inv, Next, NEW p \in Projects, place[p] # Lost, place'[p] = Lost, ~reap.asked
                 PROVE  /\ place[p] \in Entries
                        /\ trash[place[p]].old \/ place[p] \in cut \/ reap.filling
      BY DEF Late
    <2> USE PlaceAssumption DEF Inv, TypeOK, disk, budget
    <2>1. ASSUME NEW e \in Entries, RestoreMove(e) PROVE FALSE
      BY <2>1 DEF RestoreMove
    <2>2. ASSUME NEW w \in Callers, Move(w) PROVE FALSE
      <3>1. worker[w].entry \in Entries
        BY <2>2 DEF Move, Stages, Stage, Entries
      <3> QED
        BY <2>2, <3>1 DEF Move
    <2>3. ASSUME NEW q \in Projects, CreateProject(q) PROVE FALSE
      BY <2>3 DEF CreateProject
    <2>4. Destroy \/ (\E e \in Entries : RestoreMove(e))
          \/ (\E w \in Callers : Move(w)) \/ (\E q \in Projects : CreateProject(q))
      BY DEF Next, StartIntent, EndIntent, ToolGC, ScanBegin, ScanGC, ScanEnd, Collect, MakeEntry,
         OpenManifest, FillManifest, CollectFails, RestoreClean, AgeEntry, AgeDir, ReapRead,
         ReapReadNamed, Crash
    <2>5. Destroy
      BY <2>1, <2>2, <2>3, <2>4
    <2>6. /\ reap # IdleReap
          /\ place[p] = reap.entry \/ (place[p] = Home /\ p \in Inside(reap.path))
      BY <2>5 DEF Destroy
    <2>7. /\ reap.path = <<>> /\ reap.entry # 0
          /\ trash[reap.entry].old \/ reap.entry \in cut \/ reap.filling
      BY <2>6 DEF Aimed
    <2>8. p \notin Inside(<<>>)
      BY DEF Inside, Workdir
    <2> QED
      BY <2>6, <2>7, <2>8
  <1> QED
    BY <1>1, TrashIsConsistent, PTL DEF Spec, ReapKeepsSealed, Late

\* I-OWN2 for the manage_owned_resource tool: whatever the executor thread does meanwhile, the
\* workspace that it moves was free of intents at the move and not only at the check.
THEOREM ToolKeepsToTheFloor == Spec => ToolSparesActive
  <1> DEFINE Spares == worker["tool"].pc = "move" /\ worker'["tool"].pc # "move" =>
                          \A p \in intents :
                              place[p] = Home /\ place'[p] \in Entries
                                  => worker["tool"].path # Workdir(p)
  <1>1. Inv /\ [Next]_vars => [Spares]_vars
    BY DEF Inv, ToolPath, Spares
  <1> QED
    BY <1>1, TrashIsConsistent, PTL DEF Spec, ToolSparesActive, Spares
=============================================================================
