---------------------------- MODULE Orchestrator ----------------------------
(***************************************************************************)
(* One intent, from its classification to the last event of its run        *)
(* (kernel/orchestrator.py): handled by a single agent, or by sub-agents   *)
(* that run side by side as their dependencies allow, drained from one     *)
(* queue and summed up by a synthesis run.                                 *)
(*                                                                         *)
(* The agents are the loops of AgentLoop.  In a user's workspace a tool    *)
(* call is one step.  The other case is a cycle of the self-probe          *)
(* (scheduler/proactive.py): a single agent in a fresh worktree of anima's *)
(* own source, where each tool call goes through ToolTiers.  A server scan *)
(* of anima's own repository (AutonomousScan) runs its agent the same way. *)
(***************************************************************************)
EXTENDS AgentLoop, ToolTiers

CONSTANTS
    TaskId,         \* ids the classifier's plan may use
    MaxTasks,       \* settings.max_parallel_agents
    RecentN,        \* _RECENT_N: stored memories that a request starts from
    BusyRounds      \* bound: rounds in which an agent in the source uses tools

ASSUME OrchestratorAssumption ==
    /\ MaxTasks \in Nat \ {0} /\ RecentN \in Nat
    /\ BusyRounds \in 1..MaxToolRounds
    /\ Agent = 0..MaxTasks      \* 0: the single agent, or the synthesis

VARIABLES
    workdir,    \* "workspace" or "source", fixed for the run
    messages,   \* what the caller gives, fixed for the run
    phase,      \* where the orchestrator is
    plan,       \* the classifier's tasks, in order: [id, deps]
    pending,    \* ids not dispatched yet
    completed,  \* ids whose output has been drained
    doneCount,  \* done_count
    queue,      \* events of the sub-agents not drained yet: [type, task]
    row         \* status of the agents' database records; 0 is the orchestrator's own

orchVars == <<workdir, messages, phase, plan, pending, completed, doneCount, queue, row>>

intentVars == <<loop, tierVars, orchVars>>

Sub == Agent \ {0}

\* A task as the model writes it: any id, depending on any ids, its own and unknown ones
\* included; two tasks may carry the same id.
TaskSpec == [id : TaskId, deps : SUBSET TaskId]

Plans == UNION {[1..n -> TaskSpec] : n \in 1..MaxTasks}

\* sub_agents and pending are dictionaries: of two tasks with one id the later one stays.
AgentFor(id) == CHOOSE i \in DOMAIN plan :
                    plan[i].id = id /\ \A j \in DOMAIN plan : plan[j].id = id => j <= i

DepsOf(id) == plan[AgentFor(id)].deps

Event(type, task) == [type |-> type, task |-> task]

-----------------------------------------------------------------------------
\* build_context: what is stored of the project, the answers of earlier runs and of runs nobody
\* asked for (ProactiveScan) included, so that the first message may be an assistant's; the
\* goal comes last.
Requests == UNION {{Append(stored, UserMsg) : stored \in [1..n -> {UserMsg, AssistantMsg(0)}]} :
                      n \in 0..RecentN}

\* _classify_intent says direct, or anything it cannot use: one agent, the caller's messages.
ClassifyDirect ==
    /\ phase = "classify" /\ workdir = "workspace"
    /\ phase' = "direct"
    /\ loop' = [loop EXCEPT ![0] = StartedLoop(messages, TRUE)]
    /\ UNCHANGED <<tierVars, workdir, messages, plan, pending, completed, doneCount, queue, row>>

\* A plan of one to MaxTasks tasks: the records are created and announced, the last of two
\* tasks with one id takes the place of the first.
ClassifyMulti(p) ==
    /\ phase = "classify" /\ workdir = "workspace"
    /\ phase' = "dispatch"
    /\ plan' = p
    /\ pending' = {p[i].id : i \in DOMAIN p}
    /\ row' = [a \in Agent |-> IF a = 0 \/ a \in DOMAIN p THEN "active" ELSE "none"]
    /\ UNCHANGED <<loop, tierVars, workdir, messages, completed, doneCount, queue>>

Ready == {id \in pending : DepsOf(id) \subseteq completed}

\* What a sub-agent starts from: the caller's messages, the outputs it depends on with an
\* answer put in the agent's mouth, its goal.
TaskMessages(id) ==
    LET outputs == IF DepsOf(id) = {} THEN messages
                   ELSE Append(Append(messages, UserMsg), AssistantMsg(0))
    IN Append(outputs, UserMsg)

\* Every task whose dependencies are met is started, then the orchestrator waits for an event.
Dispatch ==
    /\ phase = "dispatch" /\ doneCount < Len(plan)
    /\ loop' = [a \in Agent |->
                   IF \E id \in Ready : AgentFor(id) = a
                   THEN StartedLoop(TaskMessages(plan[a].id), TRUE) ELSE loop[a]]
    /\ pending' = pending \ Ready
    /\ phase' = "wait"
    /\ UNCHANGED <<tierVars, workdir, messages, plan, completed, doneCount, queue, row>>

\* One event; a sentinel completes its task, anything else is passed on.
Drain ==
    /\ phase = "wait" /\ queue # <<>>
    /\ queue' = Tail(queue)
    /\ IF Head(queue).type = "sentinel"
       THEN completed' = completed \union {Head(queue).task} /\ doneCount' = doneCount + 1
       ELSE UNCHANGED <<completed, doneCount>>
    /\ phase' = "dispatch"
    /\ UNCHANGED <<loop, tierVars, workdir, messages, plan, pending, row>>

\* Mutant of QueueTimeout: the timeout is logged and the wait is repeated.
QueueTimeoutRetried ==
    /\ phase = "wait" /\ queue = <<>>
    /\ phase' = "dispatch"
    /\ UNCHANGED <<loop, tierVars, workdir, messages, plan, pending, completed, doneCount, queue, row>>

\* No event for _AGENT_TIMEOUT seconds: an error event, and the loop is left.
QueueTimeout ==
    /\ phase = "wait" /\ queue = <<>>
    /\ phase' = "gather"
    /\ UNCHANGED <<loop, tierVars, workdir, messages, plan, pending, completed, doneCount, queue, row>>

AllDone ==
    /\ phase = "dispatch" /\ doneCount = Len(plan)
    /\ phase' = "gather"
    /\ UNCHANGED <<loop, tierVars, workdir, messages, plan, pending, completed, doneCount, queue, row>>

\* asyncio.gather waits for every started sub-agent, however long; then the orchestrator's
\* record is closed and the synthesis run starts, without tools.
Gather ==
    /\ phase = "gather" /\ \A a \in Sub : loop[a].pc \in {"off", "over"}
    /\ row' = [row EXCEPT ![0] = "archived"]
    /\ loop' = [loop EXCEPT ![0] = StartedLoop(Append(messages, UserMsg), FALSE)]
    /\ phase' = "synthesis"
    /\ UNCHANGED <<tierVars, workdir, messages, plan, pending, completed, doneCount, queue>>

\* The last event of the single agent or of the synthesis.
RunComplete ==
    /\ phase \in {"direct", "synthesis"} /\ workdir = "workspace" /\ loop[0].pc = "done"
    /\ phase' = "ended"
    /\ UNCHANGED <<loop, tierVars, workdir, messages, plan, pending, completed, doneCount, queue, row>>

-----------------------------------------------------------------------------
\* create_worktree and git checkout -b: without a worktree the cycle ends, without a branch
\* the worktree is removed again.
ProbeBegins ==
    /\ phase = "classify" /\ workdir = "source"
    /\ \/ phase' \in {"ended", "remove"} /\ UNCHANGED <<loop, row>>
       \/ /\ phase' = "direct"
          /\ loop' = [loop EXCEPT ![0] = StartedLoop(messages, TRUE)]
          /\ row' = [row EXCEPT ![0] = "active"]
    /\ UNCHANGED <<tierVars, workdir, messages, plan, pending, completed, doneCount, queue>>

\* The loop has ended, or MAX_PROACTIVE_LOOP_TIME_S is over and it is cancelled wherever it is.
ProbeLeaves ==
    /\ phase = "direct" /\ workdir = "source"
    /\ IF loop[0].pc = "done" THEN UNCHANGED tierVars ELSE Abandon
    /\ phase' = "remove"
    /\ loop' = [loop EXCEPT ![0] = NoLoop]
    /\ UNCHANGED <<workdir, messages, plan, pending, completed, doneCount, queue, row>>

\* finally: whatever has happened, the worktree goes and the branch stays for review.
ProbeCleans ==
    /\ phase = "remove"
    /\ RemoveWorktree
    /\ phase' = "ended"
    /\ UNCHANGED <<loop, workdir, messages, plan, pending, completed, doneCount, queue, row>>

-----------------------------------------------------------------------------
Over(a) == loop' = [loop EXCEPT ![a] = [NoLoop EXCEPT !.pc = "over"]]

\* The end of _run_sub_agent: the record is archived and the sentinel sent.
SubDone(a) ==
    /\ loop[a].pc = "done" /\ Over(a)
    /\ row' = [row EXCEPT ![a] = "archived"]
    /\ queue' = Append(queue, Event("sentinel", plan[a].id))
    /\ UNCHANGED <<tierVars, workdir, messages, phase, plan, pending, completed, doneCount>>

\* An exception, of the run or of the database: announced as failed, archived all the same,
\* and the sentinel follows.
SubFailed(a) ==
    /\ loop[a].pc = "done" /\ Over(a)
    /\ row' = [row EXCEPT ![a] = "archived"]
    /\ queue' = queue \o <<Event("failed", plan[a].id), Event("sentinel", plan[a].id)>>
    /\ UNCHANGED <<tierVars, workdir, messages, phase, plan, pending, completed, doneCount>>

\* The database fails in the handler too: the task ends without a sentinel.
SubLost(a) ==
    /\ loop[a].pc = "done" /\ Over(a)
    /\ queue' = Append(queue, Event("failed", plan[a].id))
    /\ UNCHANGED <<tierVars, workdir, messages, phase, plan, pending, completed, doneCount, row>>

SubEnds(a) == SubDone(a) \/ SubFailed(a) \/ SubLost(a)

\* A tool call in a user's workspace, or one in the source that only reads or is not known.
PlainTool(a) ==
    /\ In("idle") /\ ToolReturned(a)
    /\ UNCHANGED <<tierVars, orchVars>>

\* In the source worktree the loop waits for the call that it has started.
BeginTool ==
    /\ workdir = "source" /\ loop[0].pc = "tools"
    /\ BeginReadonly \/ (\E tool \in MutatingTools : BeginCall(tool))
    /\ UNCHANGED <<loop, orchVars>>

\* A command that has outlived its worktree finds nothing there any more.
ToolStep ==
    /\ RunTool \/ OrphanEnds
    /\ phase = "ended" => UNCHANGED tree
    /\ UNCHANGED <<loop, orchVars>>

EnforceStep ==
    /\ Enforce \/ ReadonlyReturns
    /\ IF call'.phase = "idle" THEN ToolReturned(0) ELSE UNCHANGED loop
    /\ UNCHANGED orchVars

OwnerStep ==
    /\ workdir = "source" /\ \E p \in Path : OwnerEdits(p)
    /\ UNCHANGED <<loop, orchVars>>

\* The depth of a run is explored in the user's workspace.
MayUseTools(a) == workdir = "source" => loop[a].round < BusyRounds

ThinkStep(a) == Think(a, MayUseTools(a)) /\ UNCHANGED <<tierVars, orchVars>>

-----------------------------------------------------------------------------
IntentInit ==
    /\ loop = [a \in Agent |-> NoLoop]
    /\ TierInit
    /\ workdir \in {"workspace", "source"} /\ phase = "classify"
    /\ messages \in IF workdir = "workspace" THEN Requests ELSE {<<UserMsg>>}
    /\ plan = <<>> /\ pending = {} /\ completed = {} /\ doneCount = 0 /\ queue = <<>>
    /\ row = [a \in Agent |-> "none"]

AgentStep(a) == ThinkStep(a) \/ PlainTool(a) \/ (a # 0 /\ SubEnds(a))

Orchestrate ==
    \/ ClassifyDirect \/ (phase = "classify" /\ \E p \in Plans : ClassifyMulti(p))
    \/ Dispatch \/ Drain \/ QueueTimeout \/ AllDone \/ Gather \/ RunComplete
    \/ ProbeBegins \/ ProbeCleans

GuardedTool == BeginTool \/ EnforceStep

Ended == phase = "ended" /\ UNCHANGED intentVars

IntentNext ==
    \/ Orchestrate
    \/ \E a \in Agent : AgentStep(a)
    \/ GuardedTool \/ ToolStep \/ OwnerStep
    \/ ProbeLeaves
    \/ Ended

IntentSpec == IntentInit /\ [][IntentNext]_intentVars

\* What the process does by itself: a command ends (it is killed after 30 s otherwise), time
\* passes, and the event loop always runs one of the tasks that can run.
Progress ==
    \/ ProbeLeaves \/ GuardedTool
    \/ Orchestrate \/ (\E a \in Agent : AgentStep(a))

IntentFairSpec == IntentSpec /\ WF_intentVars(Progress)

\* Every run comes to its end, whatever the plan: a task that waits for itself, for a cycle or
\* for an unknown task, a repeated id and a sub-agent that dies silently only cost the timeout.
RunEnds == <>(phase = "ended")
=============================================================================
