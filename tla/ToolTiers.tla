------------------------------ MODULE ToolTiers ------------------------------
(***************************************************************************)
(* A tool call inside a worktree of anima's own source (kernel/tools.py,   *)
(* execute and _execute_with_tier_enforcement): a mutating tool runs, and  *)
(* what it changed outside the TIER 1 directories is undone, whether it is *)
(* in the working tree, in a commit or in the live repository next door.   *)
(* The read-only shell is not among the mutating tools: it is trusted to   *)
(* change nothing, and nothing is looked at when it returns.               *)
(*                                                                         *)
(* A repository is what HEAD, the index and the working tree have of each  *)
(* path: as at the start or changed.  The worktree has no other writer;    *)
(* the live repository has the owner.  The agent's time may run out in the *)
(* middle of a call: nothing is undone then, and a command lives on.       *)
(***************************************************************************)
EXTENDS Naturals, FiniteSetsExt

CONSTANTS
    Path,       \* repository paths
    Tier1,      \* those under _TIER1_PREFIXES
    Untested,   \* TIER 1 sources of a module without tests: not to be edited
    Missing     \* paths that HEAD does not have at the start

ASSUME TierAssumption ==
    Untested \subseteq Tier1 /\ Tier1 \subseteq Path /\ Missing \subseteq Path

VARIABLES
    tree,       \* the worktree: [head, index, work], each the paths that are not as at the start
    live,       \* the paths changed in the live repository's working tree
    call,       \* the tool call in progress
    owned,      \* paths the owner has edited in the live repository
    slipped,    \* history: paths left changed by a failing git command or a call cut short
    halfway,    \* history: paths left changed because the live repository came first
    unguarded   \* history: paths that the read-only shell has changed

tierVars == <<tree, live, call, owned, slipped, halfway, unguarded>>

MutatingTools == {"write_file", "bash", "git_branch", "git_commit"}

Repo(head, index, work) == [head |-> head, index |-> index, work |-> work]

Fresh == Repo({}, {}, {})

Call(phase, tool, before, beforeLive, edited) ==
    [phase |-> phase, tool |-> tool, before |-> before, live |-> beforeLive, edited |-> edited]

NoCall == Call("idle", "none", Fresh, {}, FALSE)

In(phase) == call.phase = phase

ToPhase(phase) == call' = Call(phase, call.tool, call.before, call.live, call.edited)

-----------------------------------------------------------------------------
\* git status --porcelain: how the index differs from HEAD and the working tree from the index.
Differs(p, old, new) == IF (p \in old) = (p \in new) THEN " "
                        ELSE IF p \notin Missing THEN "M"
                        ELSE IF p \in new THEN "A" ELSE "D"

Status(repo, p) ==
    <<Differs(p, repo.head, repo.index), Differs(p, repo.index, repo.work)>>

Clean == <<" ", " ">>

LiveRepo(work) == Repo({}, {}, work)

\* _diff_paths: only paths whose status changed, however dirty they are.
DiffPaths(old, new) == {p \in Path : Status(old, p) # Status(new, p)}

InTier1Allowlist(p) == p \in Tier1

\* _is_bootstrap_blocked: the source of a module that has no tests.
BootstrapBlocked(p) == p \in Untested

\* Added or untracked, by the later status or, when that is clean, by the earlier one.
IsNew(old, new, p) ==
    LET status == IF Status(new, p) = Clean THEN Status(old, p) ELSE Status(new, p)
    IN status[1] = "A" \/ status = <<" ", "A">>

TierViolations(old, new) ==
    {p \in DiffPaths(old, new) :
        ~InTier1Allowlist(p) \/ (~IsNew(old, new, p) /\ BootstrapBlocked(p))}

\* The paths of a set as another set has them, the rest as they are.
From(other, paths, set) == (set \ paths) \union (other \cap paths)

\* Mutant of Restored: the working tree is checked out from the index.
RestoredFromIndex(repo, paths) ==
    Repo(repo.head, repo.index, From(repo.index, paths, repo.work))

\* _git_checkout_restore: back to HEAD, or gone when HEAD has no such path.
Restored(repo, paths) ==
    Repo(repo.head, From(repo.head, paths, repo.index), From(repo.head, paths, repo.work))

-----------------------------------------------------------------------------
\* execute, up to the call of the tool: the gate audits, the snapshots are taken.
BeginCall(tool) ==
    /\ In("idle") /\ tool \in MutatingTools
    /\ call' = Call("running", tool, tree, live, FALSE)
    /\ UNCHANGED <<tree, live, owned, slipped, halfway, unguarded>>

\* The read-only shell: no snapshots are taken (those of the record are for ChangedBy).
BeginReadonly ==
    /\ In("idle")
    /\ call' = Call("unwatched", "bash_readonly", tree, live, FALSE)
    /\ UNCHANGED <<tree, live, owned, slipped, halfway, unguarded>>

\* The command of a call runs, also after the call itself has been cancelled.
Running == call.phase \in {"running", "unwatched", "orphan"}

\* _bash: any command but a few destructive ones.  _is_bash_readonly_safe looks at the words
\* of a command, not at what they do: it lets commands that write pass as well.
Shell == Running /\ call.tool \in {"bash", "bash_readonly"}

\* _write_file: one path inside the worktree.  A shell command does that and more.
Edit(p) ==
    /\ Running
    /\ Shell \/ (call.tool = "write_file" /\ ~call.edited)
    /\ tree' = Repo(tree.head, tree.index, SymDiff(tree.work, {p}))
    /\ call' = Call(call.phase, call.tool, call.before, call.live, call.tool = "write_file")
    /\ UNCHANGED <<live, owned, slipped, halfway, unguarded>>

\* git add -A
Stage ==
    /\ Shell \/ (Running /\ call.tool = "git_commit")
    /\ tree.index # tree.work
    /\ tree' = Repo(tree.head, tree.work, tree.work)
    /\ UNCHANGED <<live, call, owned, slipped, halfway, unguarded>>

\* git commit; a commit needs something staged.
Commit ==
    /\ Shell \/ (Running /\ call.tool = "git_commit")
    /\ tree.index # tree.head
    /\ tree' = Repo(tree.index, tree.index, tree.work)
    /\ UNCHANGED <<live, call, owned, slipped, halfway, unguarded>>

\* A shell command that writes through an absolute path or a link.
EditLive(p) ==
    /\ Shell /\ p \notin live
    /\ live' = live \union {p}
    /\ UNCHANGED <<tree, call, owned, slipped, halfway, unguarded>>

\* What the call in progress has changed: in a commit, staged, in the working tree, or, if it
\* was not the owner, in the live repository.
ChangedBy ==
    UNION {SymDiff(call.before.head, tree.head), SymDiff(call.before.index, tree.index),
           SymDiff(call.before.work, tree.work), live \ (call.live \union owned)}

\* The read-only shell returns, through _run_impl alone.
ReadonlyReturns ==
    /\ In("unwatched")
    /\ unguarded' = unguarded \union ChangedBy
    /\ call' = NoCall
    /\ UNCHANGED <<tree, live, owned, slipped, halfway>>

\* The tool has returned.  HEAD has moved over a path outside TIER 1: the commits are taken
\* back, their changes stay staged.  When that fails the call returns with an error and nothing
\* more is undone.
CommitCrosses == \E p \in SymDiff(call.before.head, tree.head) : ~InTier1Allowlist(p)

Changed == {p \in tree.head \union tree.index \union tree.work : ~InTier1Allowlist(p)}

\* Mutant of ResetSoft: the check of the commit is left to the status that follows.
ResetSoftSkipped ==
    /\ In("running")
    /\ ToPhase("live")
    /\ UNCHANGED <<tree, live, owned, slipped, halfway, unguarded>>

ResetSoft ==
    /\ In("running")
    /\ tree' = IF CommitCrosses THEN Repo(call.before.head, tree.index, tree.work) ELSE tree
    /\ ToPhase("live")
    /\ UNCHANGED <<live, owned, slipped, halfway, unguarded>>

\* What the call has changed stays.
Slips ==
    /\ slipped' = slipped \union Changed \union (live \ call.live)
    /\ call' = NoCall

ResetFails ==
    /\ In("running") /\ CommitCrosses
    /\ Slips
    /\ UNCHANGED <<tree, live, owned, halfway, unguarded>>

\* Changes in the live repository are undone there, and the call returns at once.
CheckLive ==
    LET crossed == TierViolations(LiveRepo(call.live), LiveRepo(live))
    IN /\ In("live")
       /\ IF crossed = {}
          THEN ToPhase("work") /\ UNCHANGED <<live, owned, halfway>>
          ELSE /\ live' = live \ crossed
               /\ owned' = owned \ crossed
               /\ halfway' = halfway \union Changed
               /\ call' = NoCall
       /\ UNCHANGED <<tree, slipped, unguarded>>

\* The worktree's own violations; the result of the checkout is not looked at.
CheckWorktree ==
    LET crossed == TierViolations(call.before, tree)
    IN /\ In("work")
       /\ \/ tree' = Restored(tree, crossed) /\ UNCHANGED slipped
          \/ /\ crossed # {}
             /\ slipped' = slipped \union crossed
             /\ UNCHANGED tree
       /\ call' = NoCall
       /\ UNCHANGED <<live, owned, halfway, unguarded>>

\* The agent's time is up and its task is cancelled, at whatever await it is; run_bash kills a
\* command that exceeds its own limit, not one whose caller is cancelled.
Abandon ==
    /\ \/ In("idle") /\ UNCHANGED <<call, slipped>>
       \/ /\ (In("running") /\ call.tool # "write_file") \/ In("unwatched")
          /\ ToPhase("orphan") /\ UNCHANGED slipped
       \/ ~In("idle") /\ ~In("orphan") /\ Slips
    /\ UNCHANGED <<tree, live, owned, halfway, unguarded>>

OrphanEnds ==
    /\ In("orphan") /\ Slips
    /\ UNCHANGED <<tree, live, owned, halfway, unguarded>>

\* remove_worktree: the checkout is gone, the commits of its branch are not.
RemoveWorktree ==
    /\ tree' = Repo(tree.head, {}, {})
    /\ UNCHANGED <<live, call, owned, slipped, halfway, unguarded>>

\* The owner edits the live repository, one path at a time (a bound).
OwnerEdits(p) ==
    /\ ~In("idle") /\ owned = {} /\ p \notin live
    /\ live' = live \union {p}
    /\ owned' = owned \union {p}
    /\ UNCHANGED <<tree, call, slipped, halfway, unguarded>>

Enforce == ResetSoft \/ ResetFails \/ CheckLive \/ CheckWorktree

RunTool ==
    \/ \E p \in Path : Edit(p) \/ EditLive(p)
    \/ Stage \/ Commit

TierInit ==
    /\ tree = Fresh /\ live = {} /\ call = NoCall
    /\ owned = {} /\ slipped = {} /\ halfway = {} /\ unguarded = {}

\* Between two tool calls nothing outside the TIER 1 directories has changed in the worktree
\* or, but for the owner's own edits, in the live repository: no commit carries such a change,
\* unless a git command failed or the agent's time ran out within a call, and the working tree
\* holds none either, unless the call was answered for the live repository first.  Paths that
\* a command of the read-only shell has changed are excepted.
BoundaryKept ==
    In("idle") => \A p \in Path \ (Tier1 \union unguarded) :
        /\ p \in tree.head => p \in slipped
        /\ p \in tree.work => p \in slipped \union halfway
        /\ p \in live => p \in owned \union slipped
=============================================================================
