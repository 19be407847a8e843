----------------------------- MODULE RunRegistry -----------------------------
(***************************************************************************)
(* The in-process run registry (anima/api/run_registry.py) with the two    *)
(* sides that use it (anima/api/intent_routes.py): _run_orchestration,     *)
(* which appends the events of a run, and the SSE streams of the clients.  *)
(*                                                                         *)
(* Everything runs on one event loop: a step is what a coroutine does      *)
(* between two awaits.  No critical section of run.cond awaits anything    *)
(* but cond.wait(), which gives the lock back: each one is a single step.  *)
(* The number of an event is its place in run.events.                      *)
(***************************************************************************)
EXTENDS Naturals, SequencesExt

CONSTANTS
    Runs,          \* run ids, which are the ids of intents
    Clients,       \* SSE connections' other ends
    UserOf,        \* [Clients -> users]
    MaxEvents,     \* bound: events the orchestrator yields in a run
    MaxConnects,   \* bound: connections of a client
    MayRaise       \* the database or the context builder may raise

ASSUME RegistryAssumption ==
    /\ MaxEvents \in Nat /\ MaxConnects \in Nat
    /\ MayRaise \in BOOLEAN

VARIABLES
    known,     \* registry._runs
    owner,     \* run.user_id
    events,    \* run.events: the types of the events
    done,      \* run.done
    expired,   \* the run finished more than RUN_TTL_SECONDS ago
    task,      \* _run_orchestration of each run
    failed,    \* its error_occurred
    intent,    \* the intent's status in the database
    client,    \* the stream of each client
    received,  \* the numbers of the events a client has, over all its streams
    connects

registry == <<known, owner, events, done, expired>>
job == <<task, failed, intent>>
streams == <<client, received, connects>>
vars == <<registry, job, streams>>

Users == {UserOf[c] : c \in Clients}
NoUser == "nobody"
NoRun == "no_run"

\* A stream: the run it reads, after_seq, and the events it is about to yield.
Stream(pc, run, after, pending) ==
    [pc |-> pc, run |-> run, after |-> after, pending |-> pending]
Closed == Stream("closed", NoRun, 0, <<>>)

EventTypes == {"run_started", "event", "error", "run_complete"}
TaskPcs == {"none", "created", "started", "prepared", "running", "persist", "finally",
            "completing", "finished"}
StreamPcs == {"closed", "check", "waiting", "woken", "yielding", "ended", "refused"}

TypeOK ==
    /\ known \subseteq Runs
    /\ owner \in [Runs -> Users \union {NoUser}]
    /\ events \in [Runs -> Seq(EventTypes)]
    /\ done \in [Runs -> BOOLEAN] /\ expired \in [Runs -> BOOLEAN]
    /\ task \in [Runs -> TaskPcs]
    /\ failed \in [Runs -> BOOLEAN]
    /\ intent \in [Runs -> {"none", "routing", "executing", "completed", "failed"}]
    /\ client \in [Clients -> [pc : StreamPcs, run : Runs \union {NoRun}, after : Nat,
                               pending : Seq(Nat)]]
    /\ received \in [Clients -> Seq(Nat)]
    /\ connects \in [Clients -> 0..MaxConnects]

Init ==
    /\ known = {}
    /\ owner = [r \in Runs |-> NoUser]
    /\ events = [r \in Runs |-> <<>>]
    /\ done = [r \in Runs |-> FALSE] /\ expired = [r \in Runs |-> FALSE]
    /\ task = [r \in Runs |-> "none"]
    /\ failed = [r \in Runs |-> FALSE]
    /\ intent = [r \in Runs |-> "none"]
    /\ client = [c \in Clients |-> Closed]
    /\ received = [c \in Clients |-> <<>>]
    /\ connects = [c \in Clients |-> 0]

----------------------------------------------------------------------------
(* The registry.                                                           *)

EvictExpired == known \ {r \in Runs : done[r] /\ expired[r]}

\* cond.notify_all: every waiting stream of the run is woken.
Notified(r) ==
    [c \in Clients |-> IF client[c].run = r /\ client[c].pc = "waiting"
                         THEN [client[c] EXCEPT !.pc = "woken"] ELSE client[c]]

AppendEvent(r, type) ==
    /\ events' = [events EXCEPT ![r] = Append(@, type)]
    /\ client' = Notified(r)

----------------------------------------------------------------------------
(* _run_orchestration.                                                     *)

At(r, pc) == task[r] = pc
Goto(r, pc) == task' = [task EXCEPT ![r] = pc]

Started(r) ==
    /\ At(r, "created")
    /\ AppendEvent(r, "run_started")
    /\ Goto(r, "started")
    /\ UNCHANGED <<known, owner, done, expired, failed, intent, received, connects>>

\* The project does not exist or has no directory.
NoProject(r) ==
    /\ At(r, "started")
    /\ AppendEvent(r, "error")
    /\ failed' = [failed EXCEPT ![r] = TRUE]
    /\ Goto(r, "finally")
    /\ UNCHANGED <<known, owner, done, expired, intent, received, connects>>

\* The intent and agent rows; the intent is executing.
CreateIntent(r) ==
    /\ At(r, "started")
    /\ intent' = [intent EXCEPT ![r] = "executing"]
    /\ Goto(r, "prepared")
    /\ UNCHANGED <<registry, failed, streams>>

\* save_memory, build_context.
BuildContext(r) ==
    /\ At(r, "prepared")
    /\ Goto(r, "running")
    /\ UNCHANGED <<registry, failed, intent, streams>>

Final(r) == IF failed[r] THEN "failed" ELSE "completed"

\* An exception outside the inner try: straight to the finally, whichever of the
\* database writes were done before it.
Raises(r) ==
    /\ MayRaise
    /\ task[r] \in {"started", "prepared", "persist"}
    /\ \E status \in CASE At(r, "started") -> {"none", "routing", "executing"}
                       [] At(r, "prepared") -> {"executing"}
                       [] At(r, "persist") -> {"executing", Final(r)} :
          intent' = [intent EXCEPT ![r] = status]
    /\ Goto(r, "finally")
    /\ UNCHANGED <<registry, failed, streams>>

Yielded(r, type) ==
    /\ At(r, "running")
    /\ Len(events[r]) <= MaxEvents
    /\ AppendEvent(r, type)
    /\ failed' = [failed EXCEPT ![r] = @ \/ type = "error"]
    /\ UNCHANGED <<known, owner, done, expired, task, intent, received, connects>>

\* Mutant of LoopRaises: error_occurred is not set.
LoopRaisesUnnoticed(r) ==
    /\ At(r, "running")
    /\ AppendEvent(r, "error")
    /\ Goto(r, "persist")
    /\ UNCHANGED <<known, owner, done, expired, failed, intent, received, connects>>

\* The orchestrator raised.
LoopRaises(r) ==
    /\ At(r, "running")
    /\ AppendEvent(r, "error")
    /\ failed' = [failed EXCEPT ![r] = TRUE]
    /\ Goto(r, "persist")
    /\ UNCHANGED <<known, owner, done, expired, intent, received, connects>>

LoopEnds(r) ==
    /\ At(r, "running")
    /\ Goto(r, "persist")
    /\ UNCHANGED <<registry, failed, intent, streams>>

Finalise(r) ==
    /\ At(r, "persist")
    /\ intent' = [intent EXCEPT ![r] = Final(r)]
    /\ Goto(r, "finally")
    /\ UNCHANGED <<registry, failed, streams>>

\* Mutant of Complete: the terminal event is not appended.
CompleteSilently(r) ==
    /\ At(r, "finally")
    /\ Goto(r, "completing")
    /\ UNCHANGED <<registry, failed, intent, streams>>

\* registry.finish: the terminal event ...
Complete(r) ==
    /\ At(r, "finally")
    /\ AppendEvent(r, "run_complete")
    /\ Goto(r, "completing")
    /\ UNCHANGED <<known, owner, done, expired, failed, intent, received, connects>>

\* Mutant of MarkDone: the flag is not set.
MarkDoneForgotten(r) ==
    /\ At(r, "completing")
    /\ client' = Notified(r)
    /\ Goto(r, "finished")
    /\ UNCHANGED <<registry, failed, intent, received, connects>>

\* ... and, in a critical section of its own, the flag.
MarkDone(r) ==
    /\ At(r, "completing")
    /\ done' = [done EXCEPT ![r] = TRUE]
    /\ client' = Notified(r)
    /\ Goto(r, "finished")
    /\ UNCHANGED <<known, owner, events, expired, failed, intent, received, connects>>

Orchestration(r) ==
    \/ Started(r) \/ NoProject(r) \/ CreateIntent(r) \/ BuildContext(r) \/ Raises(r)
    \/ \E type \in {"event", "error"} : Yielded(r, type)
    \/ LoopRaises(r) \/ LoopEnds(r) \/ Finalise(r) \/ Complete(r) \/ MarkDone(r)

----------------------------------------------------------------------------
(* The clients and their streams.                                          *)

Idle(c) == client[c].pc \in {"closed", "ended", "refused"}
SetStream(c, s) == client' = [client EXCEPT ![c] = s]

\* POST /intent: create the run, start the task, stream from the beginning.
Post(c, r) ==
    /\ Idle(c) /\ connects[c] < MaxConnects
    /\ task[r] = "none"
    /\ known' = EvictExpired \union {r}
    /\ owner' = [owner EXCEPT ![r] = UserOf[c]]
    /\ Goto(r, "created")
    /\ SetStream(c, Stream("check", r, 0, <<>>))
    /\ received' = [received EXCEPT ![c] = <<>>]
    /\ connects' = [connects EXCEPT ![c] = @ + 1]
    /\ UNCHANGED <<events, done, expired, failed, intent>>

\* GET /intent/{run_id}/stream: from the last event the client has, or from none.
Get(c, r, resume) ==
    /\ Idle(c) /\ connects[c] < MaxConnects
    /\ resume => client[c].run = r
    /\ known' = EvictExpired
    /\ LET after == IF resume THEN Len(received[c]) ELSE 0
       IN  /\ SetStream(c, IF r \in known' /\ owner[r] = UserOf[c]
                             THEN Stream("check", r, after, <<>>)
                             ELSE Stream("refused", r, after, <<>>))
           /\ received' = [received EXCEPT ![c] = SubSeq(@, 1, after)]
    /\ connects' = [connects EXCEPT ![c] = @ + 1]
    /\ UNCHANGED <<owner, events, done, expired, job>>

\* The critical section at the top of subscribe's loop.
Check(c) ==
    /\ client[c].pc = "check"
    /\ LET r == client[c].run
           after == client[c].after
           pending == [i \in 1..(IF after < Len(events[r]) THEN Len(events[r]) - after ELSE 0)
                         |-> after + i]
       IN  SetStream(c, Stream(IF pending # <<>> THEN "yielding"
                               ELSE IF done[r] THEN "ended" ELSE "waiting",
                               r, after, pending))
    /\ UNCHANGED <<registry, job, received, connects>>

\* cond.wait() has timed out (a keepalive is sent) or was notified: round again.
Wake(c) ==
    /\ client[c].pc \in {"waiting", "woken"}
    /\ SetStream(c, [client[c] EXCEPT !.pc = "check"])
    /\ UNCHANGED <<registry, job, received, connects>>

\* Mutant of Yield: after_seq is not advanced.
YieldWithoutAdvance(c) ==
    /\ client[c].pc = "yielding"
    /\ LET rest == Tail(client[c].pending)
       IN  /\ received' = [received EXCEPT ![c] = Append(@, Head(client[c].pending))]
           /\ SetStream(c, Stream(IF rest = <<>> THEN "check" ELSE "yielding",
                                  client[c].run, client[c].after, rest))
    /\ UNCHANGED <<registry, job, connects>>

Yield(c) ==
    /\ client[c].pc = "yielding"
    /\ LET seq == Head(client[c].pending)
           rest == Tail(client[c].pending)
       IN  /\ received' = [received EXCEPT ![c] = Append(@, seq)]
           /\ SetStream(c, Stream(IF rest = <<>> THEN "check" ELSE "yielding",
                                  client[c].run, seq, rest))
    /\ UNCHANGED <<registry, job, connects>>

\* The connection breaks; a frame on its way is lost.
Disconnect(c) ==
    /\ ~Idle(c)
    /\ SetStream(c, [client[c] EXCEPT !.pc = "closed"])
    /\ UNCHANGED <<registry, job, received, connects>>

Expire(r) ==
    /\ done[r] /\ ~expired[r]
    /\ expired' = [expired EXCEPT ![r] = TRUE]
    /\ UNCHANGED <<known, owner, events, done, job, streams>>

----------------------------------------------------------------------------

Next ==
    \/ \E r \in Runs : Orchestration(r) \/ Expire(r)
    \/ \E c \in Clients, r \in Runs :
          Post(c, r) \/ \E resume \in BOOLEAN : Get(c, r, resume)
    \/ \E c \in Clients : Check(c) \/ Wake(c) \/ Yield(c) \/ Disconnect(c)

Spec == Init /\ [][Next]_vars

\* The event loop resumes every coroutine that can go on; the orchestrator's
\* iteration ends (its own loop limits bound it).
FairSpec ==
    /\ Spec
    /\ \A r \in Runs : WF_vars(Orchestration(r))
    /\ \A c \in Clients : WF_vars(Check(c)) /\ WF_vars(Wake(c)) /\ WF_vars(Yield(c))

----------------------------------------------------------------------------
(* Properties.                                                             *)

\* However streams break and resume, and however appends, wake-ups and timeouts
\* interleave, a client has the events of the run from the first one on, each
\* once and in order.
NoGapNoDuplicate ==
    \A c \in Clients :
        /\ \A i \in 1..Len(received[c]) : received[c][i] = i
        /\ client[c].run \in Runs => Len(received[c]) <= Len(events[client[c].run])

\* A stream only ends of its own accord when the client has everything, the
\* terminal run_complete included.
EndsWithRunComplete ==
    \A c \in Clients : client[c].pc = "ended" =>
        LET r == client[c].run
        IN  /\ Len(received[c]) = Len(events[r])
            /\ events[r] # <<>> /\ Last(events[r]) = "run_complete"

\* _run_orchestration "always finalises (memory, intent status, ...)": a run that
\* is over has left no intent routing or executing.
IntentFinalised ==
    \A r \in Runs : done[r] => intent[r] \in {"none", "completed", "failed"}

\* What the database says of a finished intent is what its clients have been told: it
\* failed exactly when an error event is in its stream.
StatusMatchesStream ==
    \A r \in Runs : intent[r] \in {"completed", "failed"} =>
        (intent[r] = "failed" <=> \E i \in 1..Len(events[r]) : events[r][i] = "error")

\* A stream that is not cut ends: no coroutine waits for a run that is over.
StreamEnds == \A c \in Clients : ~Idle(c) ~> Idle(c)

=============================================================================
