---------------------------- MODULE IntentProofs -----------------------------
(***************************************************************************)
(* Theorems about the way of an intent: its run in the registry and the    *)
(* stream of its events (RunRegistry), and the agents that work on it      *)
(* (Orchestrator, with the loops of AgentLoop and the tool calls of        *)
(* ToolTiers). For every number of runs, clients, events, agents and       *)
(* rounds, every threshold of compression and every set of paths.          *)
(***************************************************************************)
EXTENDS RunRegistry, Orchestrator, FiniteSetTheorems, SequenceTheorems,
        WellFoundedInduction, TLAPS

(***************************************************************************)
(* RunRegistry: what a client is sent.                                     *)
(***************************************************************************)

HasError(r) == \E i \in 1..Len(events[r]) : events[r][i] = "error"

\* What the task of a run has appended: nothing before it starts, the terminal event
\* from `completing` on; and error_occurred says whether an error is among it.
TaskAndEvents ==
    \A r \in Runs :
        /\ task[r] \in {"none", "created"} => events[r] = <<>>
        /\ task[r] \in {"completing", "finished"} =>
              events[r] # <<>> /\ Last(events[r]) = "run_complete"
        /\ done[r] => task[r] = "finished"
        /\ failed[r] <=> HasError(r)

\* A final status is written when nothing can change error_occurred any more.
StatusAndTask ==
    \A r \in Runs : intent[r] \in {"completed", "failed"} =>
        /\ task[r] \in {"finally", "completing", "finished"}
        /\ intent[r] = Final(r)

\* A client has the first events of its run, each once and in order.
HasPrefix(c) ==
    /\ \A i \in 1..Len(received[c]) : received[c][i] = i
    /\ client[c].run \in Runs => Len(received[c]) <= Len(events[client[c].run])
    /\ client[c].run \notin Runs => Len(received[c]) = 0

\* An open stream stands behind what the client has.
StandsBehind(c) ==
    client[c].pc \in {"check", "waiting", "woken", "yielding"} =>
        client[c].run \in Runs /\ client[c].after = Len(received[c])

\* What a stream is about to yield are the events next in turn.
InTurn(s) == \A i \in 1..Len(s.pending) : s.pending[i] = s.after + i
YieldsNext(c) ==
    client[c].pc = "yielding" =>
        /\ client[c].pending # <<>>
        /\ InTurn(client[c])
        /\ client[c].after + Len(client[c].pending) <= Len(events[client[c].run])

\* A stream that ended had the run to its end.
EndedWithRun(c) ==
    client[c].pc = "ended" =>
        /\ client[c].run \in Runs
        /\ done[client[c].run]
        /\ Len(received[c]) = Len(events[client[c].run])

Continues(c) == HasPrefix(c) /\ StandsBehind(c) /\ YieldsNext(c) /\ EndedWithRun(c)

StreamContinues == \A c \in Clients : Continues(c)

\* The inductive invariant.
Inv == TypeOK /\ TaskAndEvents /\ StatusAndTask /\ StreamContinues

----------------------------------------------------------------------------

StreamState == [pc : StreamPcs, run : Runs \union {NoRun}, after : Nat, pending : Seq(Nat)]

\* One more event: the sequence grows at its end.
LEMMA Appended ==
    ASSUME NEW s \in Seq(EventTypes), NEW type \in EventTypes
    PROVE  /\ Append(s, type) \in Seq(EventTypes)
           /\ Len(s) \in Nat
           /\ Len(Append(s, type)) = Len(s) + 1
           /\ Append(s, type) # <<>>
           /\ Last(Append(s, type)) = type
           /\ (\E i \in 1..Len(Append(s, type)) : Append(s, type)[i] = "error")
                 <=> (\E i \in 1..Len(s) : s[i] = "error") \/ type = "error"
  <1>1. /\ Append(s, type) \in Seq(EventTypes)
        /\ Len(s) \in Nat
        /\ Len(Append(s, type)) = Len(s) + 1
        /\ \A i \in 1..Len(s) : Append(s, type)[i] = s[i]
        /\ Append(s, type)[Len(s) + 1] = type
        /\ Append(s, type) # <<>>
    BY AppendProperties, LenProperties
  <1> QED
    BY <1>1 DEF Last

\* Waking the waiting streams of a run changes where they stand and nothing else.
LEMMA NotifiedStreams ==
    ASSUME TypeOK, NEW r, client' = Notified(r)
    PROVE  /\ client' \in [Clients -> StreamState]
           /\ \A c \in Clients :
                 /\ client'[c].run = client[c].run
                 /\ client'[c].after = client[c].after
                 /\ client'[c].pending = client[c].pending
                 /\ \/ client'[c] = client[c]
                    \/ client[c].pc = "waiting" /\ client'[c].pc = "woken"
  BY ZenonT(100) DEF TypeOK, Notified, StreamState, StreamPcs

LEMMA Bounded == \A a, b, n, m \in Nat : a + b <= n /\ n <= m => a + b <= m
  OBVIOUS

LEMMA Remaining ==
    \A a, m \in Nat : a <= m => LET k == IF a < m THEN m - a ELSE 0
                               IN  k \in Nat /\ a + k = m
  OBVIOUS

LEMMA OneTaken ==
    \A a, b, m \in Nat : b # 0 /\ a + b <= m => /\ a + 1 <= m
                                               /\ b - 1 \in Nat
                                               /\ (a + 1) + (b - 1) <= m
  OBVIOUS

\* Wake-ups keep every stream a part of its run, as long as runs only grow, and do not
\* grow any more once they are done.
LEMMA WakeUpsKeepStreams ==
    ASSUME Inv, NEW r, client' = Notified(r), received' = received,
           events' \in [Runs -> Seq(EventTypes)],
           \A q \in Runs : /\ Len(events[q]) <= Len(events'[q])
                           /\ done[q] => done'[q] /\ Len(events'[q]) = Len(events[q])
    PROVE  client' \in [Clients -> StreamState] /\ StreamContinues'
  <1>1. /\ client' \in [Clients -> StreamState]
        /\ \A c \in Clients :
              /\ client'[c].run = client[c].run
              /\ client'[c].after = client[c].after
              /\ client'[c].pending = client[c].pending
              /\ \/ client'[c] = client[c]
                 \/ client[c].pc = "waiting" /\ client'[c].pc = "woken"
    BY NotifiedStreams DEF Inv
  <1>2. \A q \in Runs : Len(events[q]) \in Nat /\ Len(events'[q]) \in Nat
    BY LenProperties DEF Inv, TypeOK
  <1>3. ASSUME NEW c \in Clients PROVE Continues(c)'
    <2>1. /\ Len(received[c]) \in Nat
          /\ Len(client[c].pending) \in Nat
          /\ client[c].after \in Nat
      BY LenProperties DEF Inv, TypeOK
    <2>2. HasPrefix(c) /\ StandsBehind(c) /\ YieldsNext(c) /\ EndedWithRun(c)
      BY DEF Inv, StreamContinues, Continues
    <2>3. HasPrefix(c)'
      BY <1>1, <1>2, <2>1, <2>2 DEF HasPrefix
    <2>4. StandsBehind(c)'
      BY <1>1, <2>2 DEF StandsBehind
    <2>5. YieldsNext(c)'
      <3> SUFFICES ASSUME client[c].pc = "yielding", client'[c] = client[c]
                   PROVE  YieldsNext(c)'
        BY <1>1 DEF YieldsNext
      <3>1. /\ client[c].pending # <<>> /\ InTurn(client[c])
            /\ client[c].after + Len(client[c].pending) <= Len(events[client[c].run])
            /\ client[c].run \in Runs
        BY <2>2 DEF YieldsNext, StandsBehind
      <3>2. client[c].after + Len(client[c].pending) <= Len(events'[client[c].run])
        BY <1>2, <2>1, <3>1, Bounded
      <3> QED
        BY <3>1, <3>2 DEF YieldsNext
    <2>6. EndedWithRun(c)'
      BY <1>1, <1>2, <2>1, <2>2 DEF EndedWithRun
    <2> QED
      BY <2>3, <2>4, <2>5, <2>6 DEF Continues
  <1> QED
    BY <1>1, <1>3 DEF StreamContinues

\* An append to a run that is not over, with the wake-ups that come with it.
LEMMA AppendKeepsStreams ==
    ASSUME Inv, NEW r \in Runs, NEW type \in EventTypes, AppendEvent(r, type),
           task[r] # "finished", done' = done, received' = received
    PROVE  /\ events' \in [Runs -> Seq(EventTypes)]
           /\ client' \in [Clients -> StreamState]
           /\ events'[r] # <<>> /\ Last(events'[r]) = type
           /\ HasError(r)' <=> HasError(r) \/ type = "error"
           /\ \A q \in Runs \ {r} : events'[q] = events[q] /\ (HasError(q)' <=> HasError(q))
           /\ StreamContinues'
  <1>1. /\ events' = [events EXCEPT ![r] = Append(events[r], type)]
        /\ client' = Notified(r)
        /\ events \in [Runs -> Seq(EventTypes)]
    BY DEF AppendEvent, Inv, TypeOK
  <1>2. /\ events'[r] = Append(events[r], type)
        /\ events[r] \in Seq(EventTypes)
        /\ \A q \in Runs \ {r} : events'[q] = events[q]
    BY <1>1
  <1>3. /\ events' \in [Runs -> Seq(EventTypes)]
        /\ events'[r] # <<>> /\ Last(events'[r]) = type
        /\ HasError(r)' <=> HasError(r) \/ type = "error"
    BY <1>1, <1>2, Appended DEF HasError
  <1>4. ASSUME NEW q \in Runs
        PROVE  /\ Len(events[q]) <= Len(events'[q])
               /\ done[q] => done'[q] /\ Len(events'[q]) = Len(events[q])
    <2>1. CASE q = r
      BY <2>1, <1>2, Appended DEF Inv, TaskAndEvents
    <2>2. CASE q # r
      BY <2>2, <1>1, <1>2, LenProperties
    <2> QED
      BY <2>1, <2>2
  <1>5. \A q \in Runs \ {r} : HasError(q)' <=> HasError(q)
    BY <1>2 DEF HasError
  <1> QED
    BY <1>1, <1>2, <1>3, <1>4, <1>5, WakeUpsKeepStreams

----------------------------------------------------------------------------
(* The steps of _run_orchestration.                                        *)

USE RegistryAssumption

TaskInv == TaskAndEvents /\ StatusAndTask

\* The registry's critical sections and the task's writes keep the invariant: the
\* error flag follows the errors appended, and nothing is appended after the terminal
\* event.
LEMMA OrchestrationKeepsInv ==
    ASSUME Inv, NEW r \in Runs, Orchestration(r)
    PROVE  Inv'
  <1> USE DEF At, Goto, registry, job, streams, TaskPcs
  <1>1. CASE Started(r)
    <2>1. AppendEvent(r, "run_started") /\ task[r] = "created"
      BY <1>1 DEF Started
    <2>2. /\ events' \in [Runs -> Seq(EventTypes)] /\ client' \in [Clients -> StreamState]
          /\ HasError(r)' <=> HasError(r)
          /\ \A q \in Runs \ {r} : events'[q] = events[q] /\ (HasError(q)' <=> HasError(q))
          /\ StreamContinues'
      BY <1>1, <2>1, AppendKeepsStreams DEF Started, EventTypes
    <2>3. TypeOK'
      BY <1>1, <2>2 DEF Started, Inv, TypeOK, StreamState
    <2>4. TaskInv'
      BY <1>1, <2>2 DEF Started, Inv, TypeOK, TaskInv, TaskAndEvents, StatusAndTask, HasError,
                        Final
    <2> QED
      BY <2>2, <2>3, <2>4 DEF Inv, TaskInv
  <1>2. CASE NoProject(r)
    <2>1. AppendEvent(r, "error") /\ task[r] = "started"
      BY <1>2 DEF NoProject
    <2>2. /\ events' \in [Runs -> Seq(EventTypes)] /\ client' \in [Clients -> StreamState]
          /\ HasError(r)'
          /\ \A q \in Runs \ {r} : events'[q] = events[q] /\ (HasError(q)' <=> HasError(q))
          /\ StreamContinues'
      BY <1>2, <2>1, AppendKeepsStreams DEF NoProject, EventTypes
    <2>3. TypeOK'
      BY <1>2, <2>2 DEF NoProject, Inv, TypeOK, StreamState
    <2>4. failed' = [failed EXCEPT ![r] = TRUE] /\ failed \in [Runs -> BOOLEAN]
      BY <1>2 DEF NoProject, Inv, TypeOK
    <2>5. \A q \in Runs : failed[q] <=> HasError(q)
      BY DEF Inv, TaskAndEvents
    <2>6. \A q \in Runs : failed'[q] <=> HasError(q)'
      BY <2>2, <2>4, <2>5
    <2>7. TaskInv'
      BY <1>2, <2>2, <2>6 DEF NoProject, Inv, TypeOK, TaskInv, TaskAndEvents, StatusAndTask, Final
    <2> QED
      BY <2>2, <2>3, <2>7 DEF Inv, TaskInv
  <1>3. CASE UNCHANGED <<events, done, client, received>> /\ TypeOK' /\ TaskInv'
    BY <1>3 DEF Inv, TaskInv, StreamContinues, Continues, HasPrefix, StandsBehind, YieldsNext,
                EndedWithRun
  <1>4. CASE CreateIntent(r)
    BY <1>3, <1>4 DEF CreateIntent, Inv, TypeOK, TaskInv, TaskAndEvents, StatusAndTask, HasError,
                      Final
  <1>5. CASE BuildContext(r)
    BY <1>3, <1>5 DEF BuildContext, Inv, TypeOK, TaskInv, TaskAndEvents, StatusAndTask, HasError,
                      Final
  <1>6. CASE Raises(r)
    BY <1>3, <1>6 DEF Raises, Inv, TypeOK, TaskInv, TaskAndEvents, StatusAndTask, HasError, Final
  <1>7. ASSUME NEW type \in {"event", "error"}, Yielded(r, type) PROVE Inv'
    <2>1. AppendEvent(r, type) /\ task[r] = "running"
      BY <1>7 DEF Yielded
    <2>2. /\ events' \in [Runs -> Seq(EventTypes)] /\ client' \in [Clients -> StreamState]
          /\ HasError(r)' <=> HasError(r) \/ type = "error"
          /\ \A q \in Runs \ {r} : events'[q] = events[q] /\ (HasError(q)' <=> HasError(q))
          /\ StreamContinues'
      BY <1>7, <2>1, AppendKeepsStreams DEF Yielded, EventTypes
    <2>3. TypeOK'
      BY <1>7, <2>2 DEF Yielded, Inv, TypeOK, StreamState
    <2>4. failed' = [failed EXCEPT ![r] = (failed[r] \/ type = "error")] /\ failed \in [Runs ->
          BOOLEAN]
      BY <1>7 DEF Yielded, Inv, TypeOK
    <2>5. \A q \in Runs : failed[q] <=> HasError(q)
      BY DEF Inv, TaskAndEvents
    <2>6. \A q \in Runs : failed'[q] <=> HasError(q)'
      BY <2>2, <2>4, <2>5
    <2>7. TaskInv'
      BY <1>7, <2>2, <2>6 DEF Yielded, Inv, TypeOK, TaskInv, TaskAndEvents, StatusAndTask, Final
    <2> QED
      BY <2>2, <2>3, <2>7 DEF Inv, TaskInv
  <1>8. CASE LoopRaises(r)
    <2>1. AppendEvent(r, "error") /\ task[r] = "running"
      BY <1>8 DEF LoopRaises
    <2>2. /\ events' \in [Runs -> Seq(EventTypes)] /\ client' \in [Clients -> StreamState]
          /\ HasError(r)'
          /\ \A q \in Runs \ {r} : events'[q] = events[q] /\ (HasError(q)' <=> HasError(q))
          /\ StreamContinues'
      BY <1>8, <2>1, AppendKeepsStreams DEF LoopRaises, EventTypes
    <2>3. TypeOK'
      BY <1>8, <2>2 DEF LoopRaises, Inv, TypeOK, StreamState
    <2>4. failed' = [failed EXCEPT ![r] = TRUE] /\ failed \in [Runs -> BOOLEAN]
      BY <1>8 DEF LoopRaises, Inv, TypeOK
    <2>5. \A q \in Runs : failed[q] <=> HasError(q)
      BY DEF Inv, TaskAndEvents
    <2>6. \A q \in Runs : failed'[q] <=> HasError(q)'
      BY <2>2, <2>4, <2>5
    <2>7. TaskInv'
      BY <1>8, <2>2, <2>6 DEF LoopRaises, Inv, TypeOK, TaskInv, TaskAndEvents, StatusAndTask, Final
    <2> QED
      BY <2>2, <2>3, <2>7 DEF Inv, TaskInv
  <1>9. CASE LoopEnds(r)
    BY <1>3, <1>9 DEF LoopEnds, Inv, TypeOK, TaskInv, TaskAndEvents, StatusAndTask, HasError, Final
  <1>10. CASE Finalise(r)
    BY <1>3, <1>10 DEF Finalise, Inv, TypeOK, TaskInv, TaskAndEvents, StatusAndTask, HasError,
                       Final
  <1>11. CASE Complete(r)
    <2>1. AppendEvent(r, "run_complete") /\ task[r] = "finally"
      BY <1>11 DEF Complete
    <2>2. /\ events' \in [Runs -> Seq(EventTypes)] /\ client' \in [Clients -> StreamState]
          /\ HasError(r)' <=> HasError(r)
          /\ events'[r] # <<>> /\ Last(events'[r]) = "run_complete"
          /\ \A q \in Runs \ {r} : events'[q] = events[q] /\ (HasError(q)' <=> HasError(q))
          /\ StreamContinues'
      BY <1>11, <2>1, AppendKeepsStreams DEF Complete, EventTypes
    <2>3. TypeOK'
      BY <1>11, <2>2 DEF Complete, Inv, TypeOK, StreamState
    <2>4. TaskInv'
      BY <1>11, <2>2 DEF Complete, Inv, TypeOK, TaskInv, TaskAndEvents, StatusAndTask, HasError,
                        Final
    <2> QED
      BY <2>2, <2>3, <2>4 DEF Inv, TaskInv
  <1>12. CASE MarkDone(r)
    <2>1. client' \in [Clients -> StreamState] /\ StreamContinues'
      <3>1. /\ client' = Notified(r) /\ received' = received /\ events' = events
            /\ done' = [done EXCEPT ![r] = TRUE]
            /\ events \in [Runs -> Seq(EventTypes)] /\ done \in [Runs -> BOOLEAN]
        BY <1>12 DEF MarkDone, Inv, TypeOK
      <3>2. \A q \in Runs : /\ Len(events[q]) <= Len(events'[q])
                            /\ done[q] => done'[q] /\ Len(events'[q]) = Len(events[q])
        BY <3>1, LenProperties
      <3> QED
        BY <3>1, <3>2, WakeUpsKeepStreams
    <2>2. TypeOK'
      BY <1>12, <2>1 DEF MarkDone, Inv, TypeOK, StreamState
    <2>3. TaskInv'
      BY <1>12 DEF MarkDone, Inv, TypeOK, TaskInv, TaskAndEvents, StatusAndTask, HasError, Final
    <2> QED
      BY <2>1, <2>2, <2>3 DEF Inv, TaskInv
  <1> QED
    BY <1>1, <1>2, <1>4, <1>5, <1>6, <1>7, <1>8, <1>9, <1>10, <1>11, <1>12 DEF Orchestration

----------------------------------------------------------------------------
(* The steps of the clients and their streams.                             *)

\* A step of one stream, with what its client has received by it, leaves the others
\* where they are.
LEMMA OneStreamMoves ==
    ASSUME Inv, NEW c \in Clients, NEW s \in StreamState, NEW got \in Seq(Nat),
           client' = [client EXCEPT ![c] = s], received' = [received EXCEPT ![c] = got],
           events' = events, done' = done,
           HasPrefix(c)', StandsBehind(c)', YieldsNext(c)', EndedWithRun(c)'
    PROVE  /\ client' \in [Clients -> StreamState] /\ received' \in [Clients -> Seq(Nat)]
           /\ StreamContinues'
  <1>1. /\ client' \in [Clients -> StreamState] /\ received' \in [Clients -> Seq(Nat)]
        /\ \A d \in Clients \ {c} : client'[d] = client[d] /\ received'[d] = received[d]
    BY DEF Inv, TypeOK, StreamState
  <1>2. ASSUME NEW d \in Clients \ {c} PROVE Continues(d)'
    <2>1. Continues(d)
      BY DEF Inv, StreamContinues
    <2> QED
      BY <1>1, <2>1 DEF Continues, HasPrefix, StandsBehind, YieldsNext, EndedWithRun
  <1> QED
    BY <1>1, <1>2 DEF StreamContinues, Continues

\* The beginning of what a client has received is the beginning of the run.
LEMMA ResumedPrefix ==
    ASSUME NEW got \in Seq(Nat), NEW n \in 0..Len(got),
           \A i \in 1..Len(got) : got[i] = i
    PROVE  /\ SubSeq(got, 1, n) \in Seq(Nat)
           /\ Len(SubSeq(got, 1, n)) = n
           /\ \A i \in 1..n : SubSeq(got, 1, n)[i] = i
  <1>1. Len(got) \in Nat /\ \A i \in 1..n : got[i] \in Nat
    BY LenProperties
  <1> QED
    BY <1>1, SubSeqProperties

\* A client that resumes is given what follows the events it has, one that posts or
\* reads from the start gives up what it had.
LEMMA ConnectKeepsInv ==
    ASSUME Inv, NEW c \in Clients, NEW r \in Runs,
           Post(c, r) \/ \E resume \in BOOLEAN : Get(c, r, resume)
    PROVE  Inv'
  <1>1. CASE Post(c, r)
    <2> DEFINE s == Stream("check", r, 0, <<>>)
    <2>1. s \in StreamState /\ <<>> \in Seq(Nat) /\ Len(<<>>) = 0
      BY DEF Stream, StreamState, StreamPcs
    <2>2. /\ client' = [client EXCEPT ![c] = s] /\ received' = [received EXCEPT ![c] = <<>>]
          /\ client'[c] = s /\ received'[c] = <<>>
          /\ events' = events /\ done' = done
      BY <1>1 DEF Post, SetStream, Inv, TypeOK
    <2>3. HasPrefix(c)' /\ StandsBehind(c)' /\ YieldsNext(c)' /\ EndedWithRun(c)'
      <3>1. Len(events[r]) \in Nat
        BY LenProperties DEF Inv, TypeOK
      <3> QED
        BY <2>1, <2>2, <3>1 DEF HasPrefix, StandsBehind, YieldsNext, EndedWithRun, Stream
    <2>4. /\ client' \in [Clients -> StreamState] /\ received' \in [Clients -> Seq(Nat)]
          /\ StreamContinues'
      BY <2>1, <2>2, <2>3, OneStreamMoves
    <2>5. TypeOK'
      BY <1>1, <2>4, SMTT(30) DEF Post, Goto, TaskPcs, EvictExpired, Idle, Users, Inv, TypeOK,
        StreamState
    <2>6. TaskInv'
      BY <1>1 DEF Post, Goto, TaskPcs, Inv, TypeOK, TaskInv, TaskAndEvents, StatusAndTask,
                  HasError, Final
    <2> QED
      BY <2>4, <2>5, <2>6 DEF Inv, TaskInv
  <1>2. ASSUME NEW resume \in BOOLEAN, Get(c, r, resume) PROVE Inv'
    <2> DEFINE after == IF resume THEN Len(received[c]) ELSE 0
               pc == IF r \in known' /\ owner[r] = UserOf[c] THEN "check" ELSE "refused"
               s == Stream(pc, r, after, <<>>)
               got == SubSeq(received[c], 1, after)
    <2>1. /\ received[c] \in Seq(Nat) /\ Len(received[c]) \in Nat
          /\ \A i \in 1..Len(received[c]) : received[c][i] = i
          /\ Len(events[r]) \in Nat
          /\ after \in 0..Len(received[c]) /\ after <= Len(events[r])
      <3>1. HasPrefix(c)
        BY DEF Inv, StreamContinues, Continues
      <3>2. resume => client[c].run = r
        BY <1>2 DEF Get
      <3>3. received[c] \in Seq(Nat) /\ Len(received[c]) \in Nat /\ Len(events[r]) \in Nat
        BY LenProperties DEF Inv, TypeOK
      <3>4. resume => Len(received[c]) <= Len(events[r])
        BY <3>1, <3>2 DEF HasPrefix
      <3> QED
        BY <3>1, <3>3, <3>4 DEF HasPrefix
    <2>2. /\ got \in Seq(Nat) /\ Len(got) = after /\ \A i \in 1..after : got[i] = i
      BY <2>1, ResumedPrefix
    <2>3. s \in StreamState
      BY <2>1 DEF Stream, StreamState, StreamPcs
    <2>4. /\ client' = [client EXCEPT ![c] = s] /\ received' = [received EXCEPT ![c] = got]
          /\ client'[c] = s /\ received'[c] = got
          /\ events' = events /\ done' = done
      BY <1>2 DEF Get, SetStream, Inv, TypeOK
    <2> HIDE DEF got, after, pc
    <2>5. s.run = r /\ s.pc \in {"check", "refused"} /\ s.after = after
      BY DEF Stream, pc
    <2> HIDE DEF s
    <2>6. HasPrefix(c)' /\ StandsBehind(c)' /\ YieldsNext(c)' /\ EndedWithRun(c)'
      BY <2>1, <2>2, <2>4, <2>5 DEF HasPrefix, StandsBehind, YieldsNext, EndedWithRun
    <2>7. /\ client' \in [Clients -> StreamState] /\ received' \in [Clients -> Seq(Nat)]
          /\ StreamContinues'
      BY <2>2, <2>3, <2>4, <2>6, OneStreamMoves
    <2>8. TypeOK'
      BY <1>2, <2>7 DEF Get, job, EvictExpired, Inv, TypeOK, StreamState
    <2>9. TaskInv'
      BY <1>2 DEF Get, job, Inv, TaskInv, TaskAndEvents, StatusAndTask, HasError, Final
    <2> QED
      BY <2>7, <2>8, <2>9 DEF Inv, TaskInv
  <1> QED
    BY <1>1, <1>2

\* The numbers subscribe's critical section takes from a run: those after `after`.
LEMMA NextNumbers ==
    ASSUME NEW after \in Nat, NEW n \in Nat
    PROVE  LET next == [i \in 1..n |-> after + i]
           IN  /\ next \in Seq(Nat) /\ Len(next) = n
               /\ next = <<>> <=> n = 0
               /\ \A i \in 1..n : next[i] = after + i
  <1> DEFINE next == [i \in 1..n |-> after + i]
  <1>1. next \in [1..n -> Nat]
    OBVIOUS
  <1>2. next \in Seq(Nat) /\ Len(next) = n
    BY <1>1
  <1>3. next = <<>> <=> n = 0
    BY <1>2, EmptySeq
  <1> QED
    BY <1>2, <1>3

\* A stream's own steps: it looks for events, waits, yields one and breaks.
LEMMA StreamKeepsInv ==
    ASSUME Inv, NEW c \in Clients, Check(c) \/ Wake(c) \/ Yield(c) \/ Disconnect(c)
    PROVE  Inv'
  <1> DEFINE old == client[c]
             n == Len(received[c])
  <1>1. /\ old \in StreamState /\ received[c] \in Seq(Nat) /\ n \in Nat
        /\ Len(old.pending) \in Nat
        /\ \A r \in Runs : Len(events[r]) \in Nat
    BY LenProperties DEF Inv, TypeOK, StreamState
  <1>2. HasPrefix(c) /\ StandsBehind(c) /\ YieldsNext(c) /\ EndedWithRun(c)
    BY DEF Inv, StreamContinues, Continues
  <1>3. ASSUME UNCHANGED <<registry, job, connects>>,
               client' \in [Clients -> StreamState], received' \in [Clients -> Seq(Nat)],
               StreamContinues'
        PROVE  Inv'
    <2>1. TypeOK'
      BY <1>3 DEF Inv, TypeOK, StreamState, registry, job
    <2>2. TaskAndEvents'
      BY <1>3 DEF Inv, TaskAndEvents, HasError, registry, job
    <2>3. StatusAndTask'
      BY <1>3 DEF Inv, StatusAndTask, HasError, Final, registry, job
    <2> QED
      BY <1>3, <2>1, <2>2, <2>3 DEF Inv
  <1>4. CASE Check(c)
    <2> DEFINE r == old.run
               k == IF old.after < Len(events[r]) THEN Len(events[r]) - old.after ELSE 0
               next == [i \in 1..k |-> old.after + i]
               pc == IF next # <<>> THEN "yielding" ELSE IF done[r] THEN "ended" ELSE "waiting"
               s == Stream(pc, r, old.after, next)
    <2>1. r \in Runs /\ old.after = n /\ n <= Len(events[r]) /\ old.after \in Nat
      BY <1>1, <1>2, <1>4 DEF Check, StandsBehind, HasPrefix, StreamState
    <2>2. k \in Nat /\ old.after + k = Len(events[r]) /\ Len(events[r]) \in Nat
      <3>1. old.after \in Nat /\ Len(events[r]) \in Nat /\ old.after <= Len(events[r])
        BY <1>1, <2>1
      <3> HIDE DEF old, r
      <3> QED
        BY <3>1, Remaining
    <2>3. /\ next \in Seq(Nat) /\ Len(next) = k
          /\ next = <<>> <=> k = 0
          /\ \A i \in 1..k : next[i] = old.after + i
      <3> HIDE DEF k
      <3> QED
        BY <2>1, <2>2, NextNumbers
    <2>4. s \in StreamState
      BY <2>1, <2>3 DEF Stream, StreamState, StreamPcs
    <2>5. /\ client' = [client EXCEPT ![c] = s]
          /\ UNCHANGED <<registry, job, received, connects>>
      BY <1>4 DEF Check, SetStream
    <2>6. client'[c] = s /\ received' = [received EXCEPT ![c] = received[c]]
          /\ events' = events /\ done' = done /\ received'[c] = received[c]
      BY <2>5 DEF registry, Inv, TypeOK
    <2> HIDE DEF next, k, pc
    <2>7. s.pc = pc /\ s.run = r /\ s.after = old.after /\ s.pending = next
      BY DEF Stream
    <2> HIDE DEF s
    <2>8. HasPrefix(c)' /\ StandsBehind(c)'
      BY <1>2, <2>1, <2>6, <2>7 DEF HasPrefix, StandsBehind
    <2>9. YieldsNext(c)'
      BY <2>1, <2>2, <2>3, <2>6, <2>7 DEF YieldsNext, InTurn, pc
    <2>10. EndedWithRun(c)'
      BY <2>1, <2>2, <2>3, <2>6, <2>7 DEF EndedWithRun, pc
    <2> QED
      BY <1>1, <1>3, <2>4, <2>5, <2>6, <2>8, <2>9, <2>10, OneStreamMoves
  <1>5. CASE Wake(c) \/ Disconnect(c)
    <2>1. PICK pc \in {"check", "closed"} :
             /\ client' = [client EXCEPT ![c] = [old EXCEPT !.pc = pc]]
             /\ UNCHANGED <<registry, job, received, connects>>
             /\ pc = "check" => old.pc \in {"waiting", "woken"}
      BY <1>5 DEF Wake, Disconnect, SetStream
    <2>2. [old EXCEPT !.pc = pc] \in StreamState
      BY <1>1 DEF StreamState, StreamPcs
    <2>3. /\ client'[c] = [old EXCEPT !.pc = pc]
          /\ received' = [received EXCEPT ![c] = received[c]]
          /\ events' = events /\ done' = done /\ received'[c] = received[c]
      BY <2>1 DEF registry, Inv, TypeOK
    <2>4. client'[c].pc = pc /\ client'[c].run = old.run /\ client'[c].after = old.after
      BY <1>1, <2>3 DEF StreamState
    <2>5. HasPrefix(c)' /\ StandsBehind(c)' /\ YieldsNext(c)' /\ EndedWithRun(c)'
      BY <1>2, <2>1, <2>3, <2>4 DEF HasPrefix, StandsBehind, YieldsNext, EndedWithRun
    <2> QED
      BY <1>1, <1>3, <2>1, <2>2, <2>3, <2>5, OneStreamMoves
  <1>6. CASE Yield(c)
    <2> DEFINE seq == Head(old.pending)
               rest == Tail(old.pending)
               pc == IF rest = <<>> THEN "check" ELSE "yielding"
               s == Stream(pc, old.run, seq, rest)
               got == Append(received[c], seq)
    <2>1. /\ old.pending \in Seq(Nat) /\ old.pending # <<>> /\ InTurn(old)
          /\ old.run \in Runs /\ old.after = n
          /\ old.after + Len(old.pending) <= Len(events[old.run])
      BY <1>1, <1>2, <1>6 DEF Yield, YieldsNext, StandsBehind, StreamState
    <2>2. Len(old.pending) \in Nat \ {0} /\ seq = old.pending[1]
      BY <2>1, EmptySeq
    <2>3. seq = n + 1
      BY <1>1, <2>1, <2>2 DEF InTurn
    <2>4. /\ rest \in Seq(Nat) /\ Len(rest) = Len(old.pending) - 1
          /\ \A i \in 1..Len(rest) : rest[i] = old.pending[i + 1]
      BY <2>1, HeadTailProperties
    <2>5. /\ got \in Seq(Nat) /\ Len(got) = n + 1 /\ got[n + 1] = seq
          /\ \A i \in 1..n : got[i] = received[c][i]
      BY <1>1, <2>3, AppendProperties
    <2>6. s \in StreamState
      BY <1>1, <2>1, <2>3, <2>4 DEF Stream, StreamState, StreamPcs
    <2>7. /\ client' = [client EXCEPT ![c] = s] /\ received' = [received EXCEPT ![c] = got]
          /\ UNCHANGED <<registry, job, connects>>
      BY <1>6 DEF Yield, SetStream
    <2>8. client'[c] = s /\ received'[c] = got /\ events' = events /\ done' = done
      BY <2>7 DEF registry, Inv, TypeOK
    <2> HIDE DEF seq, rest, got, pc
    <2>9. s.pc = pc /\ s.run = old.run /\ s.after = seq /\ s.pending = rest
      BY DEF Stream
    <2> HIDE DEF s
    <2>10. /\ n + 1 <= Len(events[old.run])
           /\ (n + 1) + (Len(old.pending) - 1) <= Len(events[old.run])
      BY <1>1, <2>1, <2>2, OneTaken
    <2>11. HasPrefix(c)'
      <3>1. \A i \in 1..Len(got) : got[i] = i
        <4>1. \A i \in 1..n : got[i] = i
          BY <1>2, <2>5 DEF HasPrefix
        <4>2. \A i \in 1..(n + 1) : i \in 1..n \/ i = n + 1
          BY <1>1
        <4> QED
          BY <2>3, <2>5, <4>1, <4>2
      <3> QED
        BY <2>1, <2>5, <2>8, <2>9, <2>10, <3>1 DEF HasPrefix
    <2>12. StandsBehind(c)'
      BY <2>1, <2>3, <2>5, <2>8, <2>9 DEF StandsBehind
    <2>13. YieldsNext(c)'
      <3>1. \A i \in 1..Len(rest) : rest[i] = seq + i
        <4> SUFFICES ASSUME NEW i \in 1..Len(rest) PROVE rest[i] = seq + i
          OBVIOUS
        <4>1. Len(rest) + 1 = Len(old.pending) /\ i \in Nat /\ n \in Nat
          BY <1>1, <2>2, <2>4
        <4>2. i + 1 \in 1..Len(old.pending)
          BY <2>2, <4>1
        <4>3. old.pending[i + 1] = old.after + (i + 1)
          BY <2>1, <4>2 DEF InTurn
        <4>4. rest[i] = old.pending[i + 1]
          BY <2>4
        <4>5. old.after = n
          BY <2>1
        <4>6. n + (i + 1) = (n + 1) + i
          <5>1. \A j, k \in Nat : j + (k + 1) = (j + 1) + k
            OBVIOUS
          <5> QED
            BY <4>1, <5>1
        <4> QED
          BY <2>3, <4>3, <4>4, <4>5, <4>6
      <3>2. seq + Len(rest) <= Len(events[old.run])
        BY <2>3, <2>4, <2>10
      <3> QED
        BY <2>8, <2>9, <3>1, <3>2 DEF YieldsNext, InTurn, pc
    <2>14. EndedWithRun(c)'
      BY <2>8, <2>9 DEF EndedWithRun, pc
    <2> QED
      BY <1>3, <2>5, <2>6, <2>7, <2>8, <2>11, <2>12, <2>13, <2>14, OneStreamMoves
  <1> QED
    BY <1>4, <1>5, <1>6

----------------------------------------------------------------------------
(* The theorems.                                                           *)

\* The invariant holds before any run ...
LEMMA InvInit == Init => Inv
  <1> SUFFICES ASSUME Init PROVE Inv
    OBVIOUS
  <1> USE DEF Init, Closed, Stream
  <1>1. <<>> \in Seq(EventTypes) /\ <<>> \in Seq(Nat) /\ Len(<<>>) = 0
    OBVIOUS
  <1>2. TypeOK
    BY <1>1 DEF TypeOK, TaskPcs, StreamPcs
  <1>3. TaskAndEvents /\ StatusAndTask
    BY <1>1 DEF TaskAndEvents, StatusAndTask, HasError
  <1>4. ASSUME NEW c \in Clients PROVE Continues(c)
    <2>1. \A r \in Runs : Len(events[r]) = 0
      BY <1>1
    <2> QED
      BY <1>1, <2>1 DEF Continues, HasPrefix, StandsBehind, YieldsNext, EndedWithRun
  <1> QED
    BY <1>2, <1>3, <1>4 DEF Inv, StreamContinues

\* ... and every step of a task, of a client and of time keeps it.
LEMMA InvNext == Inv /\ [Next]_vars => Inv'
  <1> SUFFICES ASSUME Inv, [Next]_vars PROVE Inv'
    OBVIOUS
  <1>1. ASSUME NEW r \in Runs, Expire(r) PROVE Inv'
    <2>1. /\ UNCHANGED <<known, owner, events, done, task, failed, intent,
                         client, received, connects>>
          /\ expired' = [expired EXCEPT ![r] = TRUE]
      BY <1>1 DEF Expire, job, streams
    <2>2. TypeOK'
      BY <2>1 DEF Inv, TypeOK
    <2>3. TaskAndEvents' /\ StatusAndTask'
      BY <2>1 DEF Inv, TaskAndEvents, StatusAndTask, HasError, Final
    <2>4. ASSUME NEW c \in Clients PROVE Continues(c)'
      BY <2>1 DEF Inv, StreamContinues, Continues, HasPrefix, StandsBehind, YieldsNext,
                  EndedWithRun
    <2> QED
      BY <2>2, <2>3, <2>4 DEF Inv, StreamContinues
  <1>2. CASE UNCHANGED vars
    BY <1>2 DEF vars, registry, job, streams, Inv, TypeOK, TaskAndEvents, StatusAndTask,
                StreamContinues, Continues, HasPrefix, StandsBehind, YieldsNext, EndedWithRun,
                HasError, Final
  <1> QED
    BY <1>1, <1>2, OrchestrationKeepsInv, ConnectKeepsInv, StreamKeepsInv DEF Next

\* The state has its type throughout.
THEOREM TypeCorrect == Spec => []TypeOK
  <1>1. Inv => TypeOK
    BY DEF Inv
  <1> QED
    BY InvInit, InvNext, <1>1, PTL DEF Spec

\* subscribe's contract, for any number of clients, disconnections and resumptions: what
\* a client has of a run are its first events, each once and in order.  The argument is
\* that after_seq is always the number of events received, that runs only grow, at
\* their end, and that what a stream took under the lock stays next in turn while it is
\* yielded outside it.
THEOREM StreamsHaveNoGap == Spec => []NoGapNoDuplicate
  <1>1. Inv => NoGapNoDuplicate
    BY DEF Inv, StreamContinues, Continues, HasPrefix, NoGapNoDuplicate
  <1> QED
    BY InvInit, InvNext, <1>1, PTL DEF Spec

\* finish appends run_complete in one critical section and sets done in another, and a
\* stream looks at both in one: whichever way they interleave, a stream that ends of its
\* own accord has delivered run_complete as its last event.
THEOREM StreamsEndComplete == Spec => []EndsWithRunComplete
  <1>1. Inv => EndsWithRunComplete
    <2> SUFFICES ASSUME Inv, NEW c \in Clients, client[c].pc = "ended"
                 PROVE  /\ Len(received[c]) = Len(events[client[c].run])
                        /\ events[client[c].run] # <<>>
                        /\ Last(events[client[c].run]) = "run_complete"
      BY DEF EndsWithRunComplete
    <2>1. EndedWithRun(c)
      BY DEF Inv, StreamContinues, Continues
    <2> QED
      BY <2>1 DEF EndedWithRun, Inv, TaskAndEvents
  <1> QED
    BY InvInit, InvNext, <1>1, PTL DEF Spec

\* The status _run_orchestration leaves in the database agrees with what it streamed:
\* failed exactly when an error event is in the run.
THEOREM StatusIsTold == Spec => []StatusMatchesStream
  <1>1. Inv => StatusMatchesStream
    BY DEF Inv, TypeOK, TaskAndEvents, StatusAndTask, HasError, Final, StatusMatchesStream
  <1> QED
    BY InvInit, InvNext, <1>1, PTL DEF Spec

(***************************************************************************)
(* Orchestrator: the boundary of a tool call, and the messages an agent    *)
(* sends.                                                                  *)
(***************************************************************************)

-----------------------------------------------------------------------------
Outside == Path \ Tier1

\* Those that only an enforced call can have changed.
Guarded == Outside \ unguarded

\* A tool call knows how the repositories were when it began, and whatever was wrong with
\* them then is on record.
BeforeKept ==
    /\ \A p \in Guarded :
          /\ p \in call.before.head => p \in slipped
          /\ p \in call.before.work => p \in slipped \union halfway
          /\ p \in call.live => p \in owned \union slipped
    /\ call.live \subseteq live

\* Once the commits are taken back HEAD is outside TIER 1 what it was, and once the live
\* repository has been looked at only the owner can have changed it.
PassedChecks ==
    /\ call.phase \in {"live", "work"} =>
          \A p \in Outside : p \in tree.head <=> p \in call.before.head
    /\ In("work") => \A p \in Guarded : p \in live => p \in owned \union slipped

TierInv == BoundaryKept /\ (~In("idle") => BeforeKept) /\ PassedChecks

-----------------------------------------------------------------------------
\* One letter of a status tells whether two copies of a path differ.
LEMMA DiffersTells ==
    ASSUME NEW p, NEW a, NEW b, NEW c, NEW d,
           p \in a <=> p \in c, Differs(p, a, b) = Differs(p, c, d)
    PROVE  p \in b <=> p \in d
<1>1. ASSUME NEW x, NEW y PROVE (Differs(p, x, y) = " ") <=> (p \in x <=> p \in y)
  <2>1. CASE p \in x <=> p \in y
    <3>1. (p \in x) = (p \in y)
      BY <2>1
    <3> QED
      BY <2>1, <3>1 DEF Differs
  <2>2. CASE ~(p \in x <=> p \in y)
    BY <2>2 DEF Differs
  <2> QED
    BY <2>1, <2>2
<1> QED
  BY <1>1

\* A status tells a path's index entry and its file in the working tree, once HEAD is known.
LEMMA StatusTells ==
    ASSUME NEW old, NEW new, NEW p,
           p \in old.head <=> p \in new.head, Status(old, p) = Status(new, p)
    PROVE  p \in old.work <=> p \in new.work
<1>1. /\ Differs(p, old.head, old.index) = Differs(p, new.head, new.index)
      /\ Differs(p, old.index, old.work) = Differs(p, new.index, new.work)
  BY DEF Status
<1>2. p \in old.index <=> p \in new.index
  BY <1>1, DiffersTells
<1> QED
  BY <1>1, <1>2, DiffersTells

\* Outside TIER 1 every path whose status has changed is a violation.
LEMMA OutsideIsCrossed ==
    ASSUME NEW old, NEW new, NEW p \in Outside, p \notin TierViolations(old, new)
    PROVE  Status(old, p) = Status(new, p)
  BY DEF TierViolations, DiffPaths, InTier1Allowlist, Outside

\* What the live repository has more than at the beginning of a call is found by its status.
LEMMA NewInLiveIsCrossed ==
    ASSUME NEW old, NEW new, NEW p \in Outside, p \in new,
           p \notin TierViolations(LiveRepo(old), LiveRepo(new))
    PROVE  p \in old
<1>1. Status(LiveRepo(old), p) = Status(LiveRepo(new), p)
  BY OutsideIsCrossed
<1>2. LiveRepo(old).head = {} /\ LiveRepo(new).head = {}
      /\ LiveRepo(old).work = old /\ LiveRepo(new).work = new
  BY DEF LiveRepo, Repo
<1> QED
  BY <1>1, <1>2, StatusTells

\* Whoever gives up a call writes down all it has changed.
LEMMA SlipsKeeps ==
    ASSUME TierInv, ~In("idle"), Slips, UNCHANGED <<tree, live, owned, halfway, unguarded>>
    PROVE  TierInv'
<1>1. call'.phase = "idle"
  BY DEF Slips, NoCall, Call
<1>2. ASSUME NEW p \in Guarded
      PROVE  /\ p \in tree.head => p \in slipped'
             /\ p \in tree.work => p \in slipped'
             /\ p \in live => p \in owned \union slipped'
  <2>1. p \in tree.head \union tree.index \union tree.work => p \in slipped'
    BY DEF Slips, Changed, InTier1Allowlist, Guarded, Outside
  <2>2. p \in live => p \in owned \union slipped'
    BY DEF Slips, TierInv, BeforeKept
  <2> QED
    BY <2>1, <2>2
<1> QED
  BY <1>1, <1>2 DEF TierInv, BoundaryKept, PassedChecks, BeforeKept, In, Guarded, Outside

\* The call begins: what is wrong is on record, as the boundary was kept so far.
LEMMA BeginKeeps ==
    ASSUME TierInv, BeginReadonly \/ (\E tool \in MutatingTools : BeginCall(tool))
    PROVE  TierInv'
<1>1. /\ call'.phase \in {"running", "unwatched"} /\ call'.before = tree /\ call'.live = live
      /\ UNCHANGED <<tree, live, owned, slipped, halfway, unguarded>>
  BY DEF BeginCall, BeginReadonly, Call
<1>2. BoundaryKept /\ In("idle")
  BY DEF TierInv, BeginCall, BeginReadonly
<1> QED
  BY <1>1, <1>2 DEF TierInv, BoundaryKept, PassedChecks, BeforeKept, In, Guarded, Outside

\* A running command changes what it likes: nothing is promised of its repositories before
\* the checks that follow it.
LEMMA RunToolKeeps ==
    ASSUME TierInv, RunTool
    PROVE  TierInv'
<1>1. /\ call'.phase = call.phase /\ call'.before = call.before /\ call'.live = call.live
      /\ call.phase \in {"running", "unwatched", "orphan"}
      /\ live \subseteq live'
      /\ UNCHANGED <<owned, slipped, halfway, unguarded>>
  <2>1. CASE Stage \/ Commit
    BY <2>1 DEF Stage, Commit, Shell, Running
  <2>2. CASE \E p \in Path : Edit(p)
    BY <2>2 DEF Edit, Shell, Running, Call
  <2>3. CASE \E p \in Path : EditLive(p)
    BY <2>3 DEF EditLive, Shell, Running
  <2> QED
    BY <2>1, <2>2, <2>3 DEF RunTool
<1> QED
  BY <1>1 DEF TierInv, BoundaryKept, PassedChecks, BeforeKept, In, Guarded, Outside

\* git reset --soft: HEAD is outside TIER 1 what it was before the call.
LEMMA ResetKeeps ==
    ASSUME TierInv, ResetSoft
    PROVE  TierInv'
<1>1. /\ call'.phase = "live" /\ call'.before = call.before /\ call'.live = call.live
      /\ UNCHANGED <<live, owned, slipped, halfway, unguarded>> /\ call.phase = "running"
  BY DEF ResetSoft, ToPhase, Call, In
<1>2. \A p \in Outside : p \in tree'.head <=> p \in call.before.head
  <2>1. CASE CommitCrosses
    BY <2>1 DEF ResetSoft, Repo
  <2>2. CASE ~CommitCrosses
    BY <2>2 DEF ResetSoft, CommitCrosses, SymDiff, InTier1Allowlist, Outside
  <2> QED
    BY <2>1, <2>2
<1> QED
  BY <1>1, <1>2 DEF TierInv, BoundaryKept, PassedChecks, BeforeKept, In, Guarded, Outside

\* The live repository: without violations only the owner has changed it outside TIER 1, with
\* violations these are undone and what is left in the worktree is on record.
LEMMA CheckLiveKeeps ==
    ASSUME TierInv, CheckLive
    PROVE  TierInv'
<1> DEFINE crossed == TierViolations(LiveRepo(call.live), LiveRepo(live))
<1>1. ~In("idle") /\ BeforeKept /\ PassedChecks /\ call.phase = "live"
  BY DEF TierInv, CheckLive, In
<1>2. \A p \in Guarded : p \in live /\ p \notin crossed => p \in owned \union slipped
  BY <1>1, NewInLiveIsCrossed DEF BeforeKept, Guarded
<1>3. CASE crossed = {}
  <2>1. /\ call'.phase = "work" /\ call'.before = call.before /\ call'.live = call.live
        /\ UNCHANGED <<tree, live, owned, slipped, halfway, unguarded>>
    BY <1>3 DEF CheckLive, ToPhase, Call
  <2> QED
    BY <1>1, <1>2, <1>3, <2>1 DEF TierInv, BoundaryKept, PassedChecks, BeforeKept, In, Guarded, Outside
<1>4. CASE crossed # {}
  <2>1. /\ call'.phase = "idle"
        /\ live' = live \ crossed /\ owned' = owned \ crossed
        /\ halfway' = halfway \union Changed
        /\ UNCHANGED <<tree, slipped, unguarded>>
    BY <1>4 DEF CheckLive, NoCall, Call
  <2>2. ASSUME NEW p \in Guarded
        PROVE  /\ p \in tree.head => p \in slipped
               /\ p \in tree.work => p \in halfway'
               /\ p \in live' => p \in owned' \union slipped
    <3>1. p \in tree.head => p \in slipped
      BY <1>1 DEF BeforeKept, PassedChecks, Guarded
    <3>2. p \in tree.work => p \in halfway'
      BY <2>1 DEF Changed, InTier1Allowlist, Guarded, Outside
    <3>3. p \in live' => p \in owned' \union slipped
      BY <1>2, <2>1
    <3> QED
      BY <3>1, <3>2, <3>3
  <2> QED
    BY <2>1, <2>2 DEF TierInv, BoundaryKept, PassedChecks, BeforeKept, In, Guarded, Outside
<1> QED
  BY <1>3, <1>4

\* The worktree: a path outside TIER 1 has the status of before the call, and with the HEAD of
\* before also its content; or it is a violation, restored to HEAD or on record.
LEMMA CheckWorktreeKeeps ==
    ASSUME TierInv, CheckWorktree
    PROVE  TierInv'
<1> DEFINE crossed == TierViolations(call.before, tree)
<1>1. /\ ~In("idle") /\ BeforeKept /\ PassedChecks /\ In("work")
      /\ call'.phase = "idle" /\ UNCHANGED <<live, owned, halfway, unguarded>>
  BY DEF TierInv, CheckWorktree, In, NoCall, Call
<1>2. tree'.head = tree.head /\ slipped \subseteq slipped'
  BY DEF CheckWorktree, Restored, Repo
<1>3. ASSUME NEW p \in Guarded
      PROVE  /\ p \in tree'.head => p \in slipped'
             /\ p \in tree'.work => p \in slipped' \union halfway
             /\ p \in live => p \in owned \union slipped'
  <2>1. p \in tree.head <=> p \in call.before.head
    BY <1>1 DEF PassedChecks, Guarded, In
  <2>2. p \in tree'.head => p \in slipped'
    BY <1>1, <1>2, <2>1 DEF BeforeKept
  <2>3. CASE p \in crossed
    <3>1. CASE tree' = Restored(tree, crossed)
      BY <2>3, <3>1, <2>2, <1>1, <1>2 DEF Restored, Repo, From, PassedChecks
    <3>2. CASE slipped' = slipped \union crossed
      BY <2>3, <3>2, <1>1, <2>2 DEF PassedChecks
    <3> QED
      BY <1>1, <1>2, <2>2, <3>1, <3>2 DEF CheckWorktree, PassedChecks
  <2>4. CASE p \notin crossed
    <3>1. p \in tree.work <=> p \in call.before.work
      BY <2>1, <2>4, OutsideIsCrossed, StatusTells DEF Guarded
    <3>2. p \in tree'.work => p \in tree.work
      BY <2>4 DEF CheckWorktree, Restored, Repo, From
    <3> QED
      BY <1>1, <1>2, <2>2, <3>1, <3>2 DEF BeforeKept, PassedChecks
  <2> QED
    BY <1>1, <1>2, <2>2, <2>3, <2>4 DEF PassedChecks
<1> QED
  BY <1>1, <1>3 DEF TierInv, BoundaryKept, PassedChecks, BeforeKept, In, Guarded, Outside

LEMMA AbandonKeeps ==
    ASSUME TierInv, Abandon
    PROVE  TierInv'
<1>1. CASE UNCHANGED tierVars
  BY <1>1 DEF tierVars, TierInv, BoundaryKept, PassedChecks, BeforeKept, In, Guarded, Outside
<1>2. CASE (In("running") \/ In("unwatched")) /\ ToPhase("orphan") /\ UNCHANGED slipped
  <2>1. /\ call'.phase = "orphan" /\ call'.before = call.before /\ call'.live = call.live
        /\ UNCHANGED <<tree, live, owned, slipped, halfway, unguarded>> /\ call.phase \in {"running", "unwatched"}
    BY <1>2 DEF Abandon, ToPhase, Call, In
  <2> QED
    BY <2>1 DEF TierInv, BoundaryKept, PassedChecks, BeforeKept, In, Guarded, Outside
<1>3. CASE ~In("idle") /\ Slips
  BY <1>3, SlipsKeeps DEF Abandon
<1> QED
  BY <1>1, <1>2, <1>3 DEF Abandon, tierVars

\* The read-only shell returns: what it has changed is on record, the rest is as before.
LEMMA ReadonlyKeeps ==
    ASSUME TierInv, ReadonlyReturns
    PROVE  TierInv'
<1>1. /\ call'.phase = "idle" /\ unguarded' = unguarded \union ChangedBy
      /\ UNCHANGED <<tree, live, owned, slipped, halfway>>
  BY DEF ReadonlyReturns, NoCall, Call
<1>2. BeforeKept
  BY DEF TierInv, ReadonlyReturns, In
<1>3. ASSUME NEW p \in Outside, p \notin unguarded'
      PROVE  /\ p \in tree.head => p \in slipped
             /\ p \in tree.work => p \in slipped \union halfway
             /\ p \in live => p \in owned \union slipped
  <2>1. p \in Guarded /\ p \notin ChangedBy
    BY <1>1, <1>3 DEF Guarded
  <2>2. /\ p \in tree.head <=> p \in call.before.head
        /\ p \in tree.work <=> p \in call.before.work
        /\ p \in live => p \in call.live \union owned
    BY <2>1 DEF ChangedBy, SymDiff
  <2> QED
    BY <1>2, <2>1, <2>2 DEF BeforeKept
<1> QED
  BY <1>1, <1>3 DEF TierInv, BoundaryKept, PassedChecks, In, Outside

\* The checkout goes with its working tree; the owner's edits are the owner's.
LEMMA OthersKeep ==
    ASSUME TierInv, RemoveWorktree \/ (\E p \in Path : OwnerEdits(p)) \/ UNCHANGED tierVars
    PROVE  TierInv'
<1>1. /\ UNCHANGED <<call, slipped, halfway, unguarded>> /\ tree'.head = tree.head
      /\ tree'.work = tree.work \/ tree'.work = {}
      /\ \/ UNCHANGED <<live, owned>>
         \/ \E p \in Path : live' = live \union {p} /\ owned' = owned \union {p}
  <2>1. CASE RemoveWorktree \/ UNCHANGED tierVars
    BY <2>1 DEF RemoveWorktree, Repo, tierVars
  <2>2. CASE \E p \in Path : OwnerEdits(p)
    BY <2>2 DEF OwnerEdits
  <2> QED
    BY <2>1, <2>2
<1> QED
  BY <1>1 DEF TierInv, BoundaryKept, PassedChecks, BeforeKept, In, Guarded, Outside

\* Every step of an intent is a step of the tool call's machine or leaves it alone.
LEMMA TierStep ==
    ASSUME IntentNext
    PROVE  \/ BeginReadonly \/ (\E tool \in MutatingTools : BeginCall(tool))
           \/ RunTool \/ OrphanEnds \/ Enforce \/ ReadonlyReturns \/ Abandon
           \/ RemoveWorktree \/ (\E p \in Path : OwnerEdits(p)) \/ UNCHANGED tierVars
<1>1. CASE Orchestrate
  BY <1>1 DEF Orchestrate, ClassifyDirect, ClassifyMulti, Dispatch, Drain, QueueTimeout,
     AllDone, Gather, RunComplete, ProbeBegins, ProbeCleans
<1>2. ASSUME NEW a \in Agent, AgentStep(a)
      PROVE  UNCHANGED tierVars
  BY <1>2 DEF AgentStep, ThinkStep, PlainTool, SubEnds, SubDone, SubFailed, SubLost
<1>3. CASE GuardedTool
  BY <1>3 DEF GuardedTool, BeginTool, EnforceStep
<1>4. CASE ToolStep \/ OwnerStep \/ ProbeLeaves \/ Ended
  BY <1>4 DEF ToolStep, OwnerStep, ProbeLeaves, Ended, intentVars
<1> QED
  BY <1>1, <1>2, <1>3, <1>4 DEF IntentNext

\* The boundary of a tool call is kept whatever the agents, the owner and the clock do: the
\* enforcement of _execute_with_tier_enforcement needs no help from the loop around it.  The
\* read-only shell goes past it, so that the paths it has changed are excepted.
THEOREM BoundaryIsKept == IntentSpec => []BoundaryKept
<1>1. IntentInit => TierInv
  BY DEF IntentInit, TierInit, TierInv, BoundaryKept, PassedChecks, BeforeKept, In, Guarded,
     Outside, Fresh, Repo, NoCall, Call
<1>2. TierInv /\ [IntentNext]_intentVars => TierInv'
  <2> SUFFICES ASSUME TierInv, [IntentNext]_intentVars PROVE TierInv'
    OBVIOUS
  <2>1. CASE UNCHANGED intentVars
    BY <2>1, OthersKeep DEF intentVars
  <2>2. CASE IntentNext
    <3>1. ASSUME Enforce PROVE TierInv'
      <4>1. CASE ResetFails
        BY <4>1, SlipsKeeps DEF ResetFails, In
      <4> QED
        BY <3>1, <4>1, ResetKeeps, CheckLiveKeeps, CheckWorktreeKeeps DEF Enforce
    <3>2. ASSUME OrphanEnds PROVE TierInv'
      BY <3>2, SlipsKeeps DEF OrphanEnds, In
    <3> QED
      BY <2>2, <3>1, <3>2, TierStep, BeginKeeps, RunToolKeeps, ReadonlyKeeps, AbandonKeeps,
         OthersKeep
  <2> QED
    BY <2>1, <2>2
<1>3. TierInv => BoundaryKept
  BY DEF TierInv
<1> QED
  BY <1>1, <1>2, <1>3, PTL DEF IntentSpec

-----------------------------------------------------------------------------
\* The messages a run starts from, the first p, then turns only.
Form(msgs, p) ==
    /\ p \in DOMAIN msgs /\ msgs[p] = UserMsg
    /\ \A i \in 1..p : msgs[i].calls = 0 /\ msgs[i].role # "tool"
    /\ \A i \in DOMAIN msgs : i > p => msgs[i].calls > 0 \/ msgs[i].role = "tool"

\* Every answer that has come is in its place, and `todo` more are to follow.
Answered(msgs, todo) ==
    /\ \A i \in DOMAIN msgs : msgs[i].calls > 0 =>
          /\ \A j \in Answers(msgs, i) : j \in DOMAIN msgs => msgs[j].role = "tool"
          /\ i + msgs[i].calls <= Len(msgs) + todo
    /\ \A j \in DOMAIN msgs : msgs[j].role = "tool" =>
          \E i \in DOMAIN msgs : msgs[i].calls > 0 /\ j \in Answers(msgs, i)
    /\ todo > 0 => \E i \in DOMAIN msgs : msgs[i].calls > 0 /\ i + msgs[i].calls = Len(msgs) + todo

History(msgs, todo) ==
    /\ msgs \in Seq(Message)
    /\ \E p \in DOMAIN msgs : Form(msgs, p)
    /\ Answered(msgs, todo)

Due(rounds) == IF rounds < KeepTurns THEN rounds ELSE KeepTurns

Holds(msgs, rounds) == Cardinality(Turns(msgs)) >= Due(rounds)

RunOK(r) ==
    /\ r.pc \in {"round", "call", "final"} =>
          History(r.msgs, 0) /\ r.todo = 0 /\ Holds(r.msgs, r.round)
    /\ r.pc = "tools" => History(r.msgs, r.todo) /\ r.todo > 0 /\ Holds(r.msgs, r.round + 1)

AgentRun == [pc : {"off", "round", "call", "tools", "final", "done", "over"}, round : Nat,
             msgs : Seq(Message), todo : Nat, tools : BOOLEAN]

\* Stored messages, or what a run starts from before its goal: text, and no turns.
Plain(msgs) == msgs \in Seq(Message) /\ \A i \in DOMAIN msgs : msgs[i] \in {UserMsg, AssistantMsg(0)}

\* What the caller gives ends with the goal.
CallerOK ==
    Plain(messages) /\ Len(messages) > 0 /\ messages[Len(messages)] = UserMsg

LoopInv == loop \in [Agent -> AgentRun] /\ \A a \in Agent : RunOK(loop[a])

-----------------------------------------------------------------------------
\* Every set of numbers has a least one: what holds at 0 and is handed on holds everywhere.
LEMMA LeastNumber ==
    ASSUME NEW T, T \subseteq Nat, T # {}
    PROVE  \E x \in T : \A y \in T : x <= y
<1>1. OpToRel(<, Nat) = {p \in Nat \X Nat : p[1] < p[2]}
  BY DEF OpToRel
<1>2. PICK x \in T : \A y \in T : <<y, x>> \notin OpToRel(<, Nat)
  BY WFMin, NatLessThanWellFounded
<1>3. ASSUME NEW y \in T PROVE x <= y
  <2>1. <<y, x>> \in Nat \X Nat /\ <<y, x>>[1] = y /\ <<y, x>>[2] = x
    OBVIOUS
  <2>2. ~(y < x)
    BY <1>1, <1>2, <2>1
  <2> QED
    BY <2>2
<1> QED
  BY <1>3

\* A bounded set of numbers has a greatest one.
LEMMA GreatestNumber ==
    ASSUME NEW n \in Nat, NEW T, T \subseteq 0..n, T # {}
    PROVE  \E x \in T : \A y \in T : y <= x
<1> DEFINE D == {n - x : x \in T}
<1>1. D \subseteq Nat /\ D # {}
  <2>1. PICK t \in T : n - t \in D
    OBVIOUS
  <2>2. ASSUME NEW x \in T PROVE n - x \in Nat
    OBVIOUS
  <2> QED
    BY <2>1, <2>2
<1>2. PICK d \in D : \A y \in D : d <= y
  <2> HIDE DEF D
  <2> QED
    BY <1>1, LeastNumber
<1>3. PICK x \in T : d = n - x
  OBVIOUS
<1>4. ASSUME NEW y \in T PROVE y <= x
  <2>1. n - y \in D
    OBVIOUS
  <2> QED
    BY <1>2, <1>3, <2>1
<1> QED
  BY <1>4

-----------------------------------------------------------------------------
LEMMA MessageFacts ==
    ASSUME NEW m \in Message
    PROVE  /\ m.calls \in Nat
           /\ m.calls > 0 => m.role = "assistant"
           /\ m.role = "tool" => m.calls = 0
  BY LoopAssumption DEF Message, UserMsg, ToolMsg, AssistantMsg

\* From an index behind the first p messages the walk goes back over one turn, to the message
\* that made the calls; at p it stays.
LEMMA TurnStartEffect ==
    ASSUME NEW msgs \in Seq(Message), NEW p, Form(msgs, p), Answered(msgs, 0),
           NEW idx \in p..Len(msgs)
    PROVE  /\ TurnStart(msgs, idx) \in p..idx
           /\ TurnStart(msgs, idx) = idx => idx = p
           /\ TurnStart(msgs, idx) < idx =>
                 /\ msgs[TurnStart(msgs, idx) + 1].calls > 0
                 /\ \A k \in (TurnStart(msgs, idx) + 2)..idx : msgs[k].role = "tool"
<1> DEFINE ends == {j \in 1..idx : \A k \in j..(idx - 1) : RoleAt(msgs, k) = "tool"}
<1> DEFINE j == CHOOSE m \in ends : \A n \in ends : m <= n
<1>1. p \in 1..Len(msgs) /\ idx \in 1..Len(msgs) /\ msgs[p].role = "user"
  BY DEF Form, UserMsg
<1>2. j \in ends /\ \A n \in ends : j <= n
  <2>1. idx \in ends /\ ends \subseteq Nat
    BY <1>1
  <2>2. \E m \in ends : \A n \in ends : m <= n
    <3> HIDE DEF ends
    <3> QED
      BY <2>1, LeastNumber
  <2> HIDE DEF ends
  <2> QED
    BY <2>2
<1>3. /\ j \in 1..idx
      /\ \A k \in (j + 1)..idx : msgs[k].role = "tool"
      /\ j > 1 => msgs[j].role # "tool"
  <2> HIDE DEF j
  <2>1. j \in 1..idx
    BY <1>2
  <2>2. ASSUME NEW k \in (j + 1)..idx PROVE msgs[k].role = "tool"
    <3>1. k - 1 \in j..(idx - 1) /\ (k - 1) + 1 = k
      BY <1>1, <2>1
    <3> QED
      BY <1>2, <3>1 DEF RoleAt
  <2>3. ASSUME j > 1, msgs[j].role = "tool" PROVE FALSE
    <3>1. \A k \in (j - 1)..(idx - 1) : msgs[k + 1].role = "tool"
      BY <1>1, <2>1, <2>2, <2>3
    <3>2. j - 1 \in ends
      BY <1>1, <2>1, <2>3, <3>1 DEF RoleAt
    <3> QED
      BY <1>1, <1>2, <2>1, <3>2
  <2> QED
    BY <2>1, <2>2, <2>3
<1>4. TurnStart(msgs, idx) = IF j > 1 /\ RoleAt(msgs, j - 1) = "assistant" THEN j - 1 ELSE j
  BY DEF TurnStart
<1> HIDE DEF j
<1>5. RoleAt(msgs, j - 1) = msgs[j].role
  BY <1>1, <1>3 DEF RoleAt
<1>6. j >= p
  BY <1>1, <1>3
<1>7. CASE idx = p
  BY <1>1, <1>3, <1>4, <1>5, <1>6, <1>7
<1>8. CASE idx > p
  <2>1. j > p
    <3> SUFFICES ASSUME j = p PROVE FALSE
      BY <1>1, <1>3, <1>6
    <3>1. p + 1 \in DOMAIN msgs /\ msgs[p + 1].role = "tool"
      BY <1>1, <1>3, <1>8
    <3>2. PICK i \in DOMAIN msgs : msgs[i].calls > 0 /\ p + 1 \in Answers(msgs, i)
      BY <3>1 DEF Answered
    <3>3. i \in Nat /\ i <= p
      BY <1>1, <3>2, MessageFacts DEF Answers
    <3> QED
      BY <1>1, <3>2, <3>3 DEF Form
  <2>2. msgs[j].calls > 0 /\ j \in DOMAIN msgs
    BY <1>1, <1>3, <2>1 DEF Form
  <2>3. msgs[j].role = "assistant"
    BY <2>2, MessageFacts
  <2>4. TurnStart(msgs, idx) = j - 1
    BY <1>1, <1>3, <1>4, <1>5, <2>1, <2>3
  <2> QED
    BY <1>1, <1>3, <2>1, <2>2, <2>4
<1> QED
  BY <1>1, <1>7, <1>8

-----------------------------------------------------------------------------
\* The turns behind an index.
TurnsAfter(msgs, i) == {k \in Turns(msgs) : k > i}

\* How the walk stands after t rounds: in front of a turn, with t turns behind it, unless it
\* has come to an end, with all of them behind it.
WalkOK(msgs, p, t, b) ==
    /\ b.idx \in p..Len(msgs)
    /\ b.idx = Len(msgs) \/ msgs[b.idx + 1].calls > 0
    /\ b.open => Cardinality(TurnsAfter(msgs, b.idx)) >= t
    /\ ~b.open => TurnsAfter(msgs, b.idx) = Turns(msgs)

LEMMA TurnsFinite ==
    ASSUME NEW msgs \in Seq(Message)
    PROVE  /\ IsFiniteSet(Turns(msgs)) /\ Cardinality(Turns(msgs)) \in Nat
           /\ \A i : /\ IsFiniteSet(TurnsAfter(msgs, i))
                     /\ Cardinality(TurnsAfter(msgs, i)) \in Nat
<1>1. IsFiniteSet(1..Len(msgs))
  BY FS_Interval
<1>2. IsFiniteSet(Turns(msgs))
  BY <1>1, FS_Subset DEF Turns
<1>3. \A i : IsFiniteSet(TurnsAfter(msgs, i))
  BY <1>2, FS_Subset DEF TurnsAfter
<1> QED
  BY <1>2, <1>3, FS_CardinalityType

LEMMA OneTurnBackKeeps ==
    ASSUME NEW msgs \in Seq(Message), NEW p, Form(msgs, p), Answered(msgs, 0),
           NEW t \in Nat, NEW b, WalkOK(msgs, p, t, b)
    PROVE  WalkOK(msgs, p, t + 1, OneTurnBack(msgs, b))
<1>1. p \in 1..Len(msgs) /\ b.idx \in p..Len(msgs)
  BY DEF Form, WalkOK
<1>2. TurnsAfter(msgs, p) = Turns(msgs)
  BY <1>1 DEF TurnsAfter, Turns, Form
<1>3. CASE ~b.open
  <2>1. OneTurnBack(msgs, b).idx = b.idx /\ ~OneTurnBack(msgs, b).open
    BY <1>3 DEF OneTurnBack
  <2> QED
    BY <1>3, <2>1 DEF WalkOK
<1>4. CASE b.open /\ (b.idx <= 1 \/ TurnStart(msgs, b.idx) = b.idx)
  <2>1. OneTurnBack(msgs, b).idx = b.idx /\ ~OneTurnBack(msgs, b).open
    <3>1. (IF b.open /\ b.idx > 1 THEN TurnStart(msgs, b.idx) ELSE b.idx) = b.idx
      BY <1>1, <1>4
    <3>2. ~(b.idx < b.idx)
      BY <1>1
    <3> QED
      BY <3>1, <3>2 DEF OneTurnBack
  <2>2. b.idx = p
    BY <1>1, <1>4, TurnStartEffect
  <2> QED
    BY <1>2, <2>1, <2>2 DEF WalkOK
<1>5. CASE b.open /\ b.idx > 1 /\ TurnStart(msgs, b.idx) # b.idx
  <2> DEFINE r == TurnStart(msgs, b.idx)
  <2>1. /\ r \in p..b.idx /\ r < b.idx /\ msgs[r + 1].calls > 0
        /\ \A k \in (r + 2)..b.idx : msgs[k].role = "tool"
    BY <1>1, <1>5, TurnStartEffect
  <2> HIDE DEF r
  <2>2. r + 1 \in DOMAIN msgs /\ msgs[r + 1].role = "assistant"
    BY <1>1, <2>1, MessageFacts
  <2>3. OneTurnBack(msgs, b).idx = r /\ OneTurnBack(msgs, b).open
    BY <1>5, <2>1, <2>2 DEF OneTurnBack, RoleAt, r
  <2>4. TurnsAfter(msgs, r) = TurnsAfter(msgs, b.idx) \union {r + 1}
    <3>1. ASSUME NEW k \in Turns(msgs), k > r, k # r + 1 PROVE k > b.idx
      <4>1. k \in 1..Len(msgs) /\ msgs[k].calls > 0 /\ msgs[k].role # "tool"
        BY MessageFacts DEF Turns
      <4> QED
        BY <1>1, <2>1, <3>1, <4>1
    <3>2. r + 1 \in Turns(msgs)
      BY <2>1, <2>2 DEF Turns
    <3> QED
      BY <1>1, <2>1, <3>1, <3>2 DEF TurnsAfter, Turns
  <2>5. r + 1 \notin TurnsAfter(msgs, b.idx)
    BY <1>1, <2>1 DEF TurnsAfter
  <2>6. Cardinality(TurnsAfter(msgs, r)) = Cardinality(TurnsAfter(msgs, b.idx)) + 1
    BY <2>4, <2>5, TurnsFinite, FS_AddElement
  <2>7. Cardinality(TurnsAfter(msgs, r)) >= t + 1
    BY <1>5, <2>6, TurnsFinite DEF WalkOK
  <2> QED
    BY <1>1, <2>1, <2>3, <2>7 DEF WalkOK
<1> QED
  BY <1>1, <1>3, <1>4, <1>5

-----------------------------------------------------------------------------
\* What the recursive function in SafeTailStart satisfies, and that there is such a function.
Walk(msgs, keep, f) ==
    f = [t \in 0..keep |-> IF t = 0 THEN [idx |-> Len(msgs), open |-> TRUE]
                           ELSE OneTurnBack(msgs, f[t - 1])]

LEMMA WalkExists ==
    ASSUME NEW msgs, NEW keep \in Nat
    PROVE  \E f : Walk(msgs, keep, f)
<1> DEFINE Bad == {n \in Nat : ~\E f : Walk(msgs, n, f)}
<1> SUFFICES ASSUME Bad # {} PROVE FALSE
  OBVIOUS
<1>1. PICK n \in Bad : \A m \in Bad : n <= m
  <2>1. Bad \subseteq Nat
    OBVIOUS
  <2> HIDE DEF Bad
  <2> QED
    BY <2>1, LeastNumber
<1>2. CASE n = 0
  <2>1. Walk(msgs, 0, [t \in 0..0 |-> [idx |-> Len(msgs), open |-> TRUE]])
    BY DEF Walk
  <2> QED
    BY <1>1, <1>2, <2>1
<1>3. CASE n > 0
  <2>1. PICK f : Walk(msgs, n - 1, f)
    BY <1>1, <1>3
  <2> DEFINE g == [t \in 0..n |-> IF t = n THEN OneTurnBack(msgs, f[n - 1]) ELSE f[t]]
  <2>2. ASSUME NEW t \in 0..n
        PROVE  g[t] = IF t = 0 THEN [idx |-> Len(msgs), open |-> TRUE]
                      ELSE OneTurnBack(msgs, g[t - 1])
    <3>1. CASE t = n
      BY <1>3, <3>1
    <3>2. CASE t # n
      <4>1. t \in 0..(n - 1) /\ g[t] = f[t]
        BY <3>2
      <4>2. f[t] = IF t = 0 THEN [idx |-> Len(msgs), open |-> TRUE]
                   ELSE OneTurnBack(msgs, f[t - 1])
        BY <2>1, <4>1 DEF Walk
      <4>3. t # 0 => g[t - 1] = f[t - 1]
        BY <4>1
      <4> QED
        BY <4>1, <4>2, <4>3
    <3> QED
      BY <3>1, <3>2
  <2>3. Walk(msgs, n, g)
    BY <2>2 DEF Walk
  <2> QED
    BY <1>1, <2>3
<1> QED
  BY <1>1, <1>2, <1>3

\* _safe_tail_start stops in front of a turn, or at the end of the list, and leaves behind it
\* `keep` turns or all there are.
LEMMA TailStartEffect ==
    ASSUME NEW msgs \in Seq(Message), NEW p, Form(msgs, p), Answered(msgs, 0), NEW keep \in Nat
    PROVE  LET s == SafeTailStart(msgs, keep)
           IN /\ s \in p..Len(msgs)
              /\ s = Len(msgs) \/ msgs[s + 1].calls > 0
              /\ \/ Cardinality(TurnsAfter(msgs, s)) >= keep
                 \/ TurnsAfter(msgs, s) = Turns(msgs)
<1>1. SafeTailStart(msgs, keep) = (CHOOSE f : Walk(msgs, keep, f))[keep].idx
  BY DEF SafeTailStart, Walk
<1>2. PICK f : Walk(msgs, keep, f) /\ SafeTailStart(msgs, keep) = f[keep].idx
  BY <1>1, WalkExists
<1>3. /\ f[0] = [idx |-> Len(msgs), open |-> TRUE]
      /\ \A t \in 1..keep : f[t] = OneTurnBack(msgs, f[t - 1])
  <2> DEFINE Rhs(t) == IF t = 0 THEN [idx |-> Len(msgs), open |-> TRUE]
                       ELSE OneTurnBack(msgs, f[t - 1])
  <2>1. \A t \in 0..keep : f[t] = Rhs(t)
    BY <1>2 DEF Walk
  <2>2. f[0] = Rhs(0) /\ \A t \in 1..keep : t # 0 /\ f[t] = Rhs(t)
    <3>1. 0 \in 0..keep /\ \A t \in 1..keep : t # 0 /\ t \in 0..keep
      OBVIOUS
    <3> HIDE DEF Rhs
    <3> QED
      BY <2>1, <3>1
  <2> QED
    BY <2>2
<1> DEFINE Bad == {t \in 0..keep : ~WalkOK(msgs, p, t, f[t])}
<1>4. Bad = {}
  <2> SUFFICES ASSUME Bad # {} PROVE FALSE
    OBVIOUS
  <2>1. PICK t \in Bad : \A u \in Bad : t <= u
    <3>1. Bad \subseteq Nat
      OBVIOUS
    <3> HIDE DEF Bad
    <3> QED
      BY <3>1, LeastNumber
  <2>2. CASE t = 0
    <3>1. p \in 1..Len(msgs)
      BY DEF Form
    <3>2. WalkOK(msgs, p, 0, f[0])
      BY <1>3, <3>1, TurnsFinite DEF WalkOK
    <3> QED
      BY <2>1, <2>2, <3>2
  <2>3. CASE t > 0
    <3>1. t - 1 \in Nat /\ WalkOK(msgs, p, t - 1, f[t - 1])
      BY <2>1, <2>3
    <3>2. WalkOK(msgs, p, (t - 1) + 1, OneTurnBack(msgs, f[t - 1]))
      BY <3>1, OneTurnBackKeeps
    <3>3. f[t] = OneTurnBack(msgs, f[t - 1]) /\ (t - 1) + 1 = t
      BY <1>3, <2>1, <2>3
    <3> QED
      BY <2>1, <3>2, <3>3
  <2> QED
    BY <2>1, <2>2, <2>3
<1>5. WalkOK(msgs, p, keep, f[keep])
  BY <1>4
<1> QED
  BY <1>2, <1>5 DEF WalkOK

-----------------------------------------------------------------------------
\* A list that loses the messages 2..c+1, where c+2 is no tool message, is as well formed as
\* before, and keeps the turns behind c+1.
LEMMA DroppedKeeps ==
    ASSUME NEW msgs, History(msgs, 0), NEW c \in 1..(Len(msgs) - 1),
           c + 2 <= Len(msgs) => msgs[c + 2].role # "tool",
           NEW new \in Seq(Message), Len(new) = Len(msgs) - c, new[1] = UserMsg,
           \A i \in 2..Len(new) : new[i] = msgs[i + c]
    PROVE  /\ History(new, 0)
           /\ \A s \in (c + 1)..Len(msgs) :
                 Cardinality(TurnsAfter(msgs, s)) <= Cardinality(Turns(new))
<1>1. msgs \in Seq(Message) /\ Answered(msgs, 0)
  BY DEF History
<1>2. PICK p \in DOMAIN msgs : Form(msgs, p)
  BY DEF History
<1>3. /\ Len(msgs) \in Nat /\ p \in 1..Len(msgs) /\ DOMAIN new = 1..(Len(msgs) - c)
      /\ DOMAIN msgs = 1..Len(msgs) /\ Len(new) \in Nat
      /\ new[1].calls = 0 /\ new[1].role = "user"
  BY <1>1, <1>2 DEF UserMsg
<1>4. \E q \in DOMAIN new : Form(new, q)
  <2>1. CASE c + 1 < p
    <3>1. p - c \in 2..Len(new) /\ (p - c) + c = p
      BY <1>3, <2>1
    <3>2. Form(new, p - c)
      <4>1. ASSUME NEW i \in DOMAIN new, i # 1
            PROVE  i + c \in DOMAIN msgs /\ new[i] = msgs[i + c]
                   /\ (i > p - c <=> i + c > p)
        BY <1>3, <4>1
      <4>2. \A i \in 1..(p - c) : new[i].calls = 0 /\ new[i].role # "tool"
        <5> TAKE i \in 1..(p - c)
        <5>1. CASE i = 1
          BY <1>3, <5>1
        <5>2. CASE i # 1
          <6>1. i + c \in 1..p /\ new[i] = msgs[i + c]
            BY <1>3, <3>1, <4>1, <5>2
          <6> QED
            BY <1>2, <6>1 DEF Form
        <5> QED
          BY <5>1, <5>2
      <4>3. \A i \in DOMAIN new : i > p - c => new[i].calls > 0 \/ new[i].role = "tool"
        <5> SUFFICES ASSUME NEW i \in DOMAIN new, i > p - c
                     PROVE  new[i].calls > 0 \/ new[i].role = "tool"
          OBVIOUS
        <5>1. i # 1
          BY <1>3, <3>1
        <5>2. i + c \in DOMAIN msgs /\ new[i] = msgs[i + c] /\ i + c > p
          BY <4>1, <5>1
        <5> QED
          BY <1>2, <5>2 DEF Form
      <4>4. new[p - c] = UserMsg
        BY <1>2, <1>3, <3>1 DEF Form
      <4> QED
        BY <1>3, <3>1, <4>2, <4>3, <4>4 DEF Form
    <3> QED
      BY <1>3, <3>1, <3>2
  <2>2. CASE c + 1 >= p
    <3>1. Form(new, 1)
      <4>1. ASSUME NEW i \in DOMAIN new, i > 1
            PROVE  new[i].calls > 0 \/ new[i].role = "tool"
        <5>1. i + c \in DOMAIN msgs /\ i + c > p /\ new[i] = msgs[i + c]
          BY <1>3, <2>2, <4>1
        <5> QED
          BY <1>2, <5>1 DEF Form
      <4> QED
        BY <1>3, <4>1 DEF Form
    <3> QED
      BY <1>3, <3>1
  <2> QED
    BY <1>3, <2>1, <2>2
<1>5. Answered(new, 0)
  <2>1. ASSUME NEW i \in DOMAIN new, new[i].calls > 0
        PROVE  /\ \A j \in Answers(new, i) : j \in DOMAIN new => new[j].role = "tool"
               /\ i + new[i].calls <= Len(new) + 0
    <3>1. i \in 2..Len(new) /\ i + c \in DOMAIN msgs /\ new[i] = msgs[i + c]
      BY <1>3, <2>1
    <3>2. new[i].calls \in Nat
      BY <1>1, <3>1, MessageFacts
    <3>3. (i + c) + new[i].calls <= Len(msgs)
      BY <1>1, <1>3, <2>1, <3>1 DEF Answered
    <3>4. ASSUME NEW j \in Answers(new, i), j \in DOMAIN new PROVE new[j].role = "tool"
      <4>1. j \in 1..Len(new) /\ i + 1 <= j /\ j <= i + new[i].calls
        BY <1>3, <3>1, <3>2, <3>4 DEF Answers
      <4>2. j \in 2..Len(new) /\ new[j] = msgs[j + c] /\ j + c \in DOMAIN msgs
        BY <1>3, <3>1, <4>1
      <4>3. j + c \in (i + c + 1)..(i + c + new[i].calls)
        <5>1. PICK n \in Nat : n = new[i].calls
          BY <3>2
        <5>2. i \in Nat /\ j \in Nat /\ c \in Nat
          BY <1>3, <3>1, <4>1
        <5>3. i + 1 <= j /\ j <= i + n
          BY <4>1, <5>1
        <5>4. j + c \in (i + c + 1)..(i + c + n)
          BY <5>2, <5>3, SMTT(30)
        <5> QED
          BY <5>1, <5>4
      <4>4. j + c \in Answers(msgs, i + c)
        BY <3>1, <4>3 DEF Answers
      <4> QED
        BY <1>1, <2>1, <3>1, <4>2, <4>4 DEF Answered
    <3> QED
      BY <1>3, <3>1, <3>2, <3>3, <3>4, SMTT(30)
  <2>2. ASSUME NEW j \in DOMAIN new, new[j].role = "tool"
        PROVE  \E i \in DOMAIN new : new[i].calls > 0 /\ j \in Answers(new, i)
    <3>1. j \in 2..Len(new) /\ j + c \in DOMAIN msgs /\ msgs[j + c].role = "tool"
      BY <1>3, <2>2
    <3>2. PICK k \in DOMAIN msgs : msgs[k].calls > 0 /\ j + c \in Answers(msgs, k)
      BY <1>1, <3>1 DEF Answered
    <3>3. msgs[k].calls \in Nat
      BY <1>1, <3>2, MessageFacts
    <3>4. k >= c + 2
      <4> SUFFICES ASSUME k < c + 2 PROVE FALSE
        BY <1>3, <3>2
      <4>1. c + 2 \in DOMAIN msgs /\ c + 2 \in Answers(msgs, k)
        BY <1>3, <3>1, <3>2, <3>3, SMTT(30) DEF Answers
      <4>2. msgs[c + 2].role = "tool"
        BY <1>1, <3>2, <4>1 DEF Answered
      <4> QED
        BY <1>3, <4>1, <4>2
    <3>5. /\ k - c \in 2..Len(new) /\ (k - c) + c = k
          /\ new[k - c] = msgs[k]
      BY <1>3, <3>4
    <3>6. k - c \in DOMAIN new /\ new[k - c].calls > 0 /\ j \in Answers(new, k - c)
      <4>1. k + 1 <= j + c /\ j + c <= k + msgs[k].calls /\ k \in Nat
        BY <1>3, <3>1, <3>2, <3>3 DEF Answers
      <4>2. j \in ((k - c) + 1)..((k - c) + msgs[k].calls)
        <5>1. PICK n \in Nat : n = msgs[k].calls
          BY <3>3
        <5>2. j \in Nat /\ c \in Nat /\ k \in Nat
          BY <1>3, <3>1, <4>1
        <5>3. k + 1 <= j + c /\ j + c <= k + n
          BY <4>1, <5>1
        <5>4. j \in ((k - c) + 1)..((k - c) + n)
          BY <5>2, <5>3, SMTT(30)
        <5> QED
          BY <5>1, <5>4
      <4> QED
        BY <1>3, <3>2, <3>5, <4>2 DEF Answers
    <3> QED
      BY <3>6
  <2> QED
    BY <2>1, <2>2 DEF Answered
<1>6. ASSUME NEW s \in (c + 1)..Len(msgs)
      PROVE  Cardinality(TurnsAfter(msgs, s)) <= Cardinality(Turns(new))
  <2> DEFINE f == [k \in TurnsAfter(msgs, s) |-> k - c]
  <2>1. ASSUME NEW k \in TurnsAfter(msgs, s) PROVE k \in Nat /\ k - c \in Turns(new)
    <3>1. k \in DOMAIN msgs /\ k > s /\ msgs[k].calls > 0
      BY DEF TurnsAfter, Turns
    <3>2. k - c \in 2..Len(new) /\ (k - c) + c = k
      BY <1>3, <3>1
    <3> QED
      BY <1>3, <3>1, <3>2 DEF Turns
  <2>2. f \in Injection(TurnsAfter(msgs, s), Turns(new))
    BY <2>1 DEF Injection, IsInjective
  <2> QED
    BY <2>2, TurnsFinite, FS_Injection
<1> QED
  BY <1>4, <1>5, <1>6 DEF History

\* _safe_compress_cut never cuts in front of a tool message of the slice.
LEMMA CutEffect ==
    ASSUME NEW slice \in Seq(Message), SafeCompressCut(slice) # 0
    PROVE  /\ SafeCompressCut(slice) \in 1..Len(slice)
           /\ SafeCompressCut(slice) < Len(slice) =>
                 slice[SafeCompressCut(slice) + 1].role # "tool"
<1> DEFINE cuts == {j \in 1..Len(slice) :
                       /\ \E i \in 0..(j - 1) :
                             /\ RoleAt(slice, i) = "assistant"
                             /\ \A k \in (i + 1)..(j - 1) : RoleAt(slice, k) = "tool"
                       /\ j < Len(slice) => RoleAt(slice, j) # "tool"}
<1> DEFINE cut == CHOOSE j \in cuts : \A i \in cuts : i <= j
<1>1. SafeCompressCut(slice) = IF cuts = {} THEN 0 ELSE cut
  BY DEF SafeCompressCut
<1>2. \A j \in cuts : j \in 1..Len(slice) /\ (j < Len(slice) => slice[j + 1].role # "tool")
  BY DEF RoleAt
<1>3. cuts # {} => cut \in cuts
  <2>1. cuts \subseteq 0..Len(slice) /\ Len(slice) \in Nat
    BY <1>2
  <2> HIDE DEF cuts
  <2> QED
    BY <2>1, GreatestNumber
<1> HIDE DEF cuts, cut
<1> QED
  BY <1>1, <1>2, <1>3

\* Compression leaves a list the provider accepts, with the most recent turns.
LEMMA CompressedKeeps ==
    ASSUME NEW msgs, History(msgs, 0), NEW rounds \in Nat, Holds(msgs, rounds)
    PROVE  History(Compressed(msgs), 0) /\ Holds(Compressed(msgs), rounds)
<1> DEFINE s == SafeTailStart(msgs, KeepTurns)
           slice == SubSeq(msgs, 2, s)
           tail == SubSeq(msgs, s + 1, Len(msgs))
           c == SafeCompressCut(slice)
           kept == SubSeq(slice, c + 1, Len(slice))
           new == <<UserMsg>> \o kept \o tail
<1>1. msgs \in Seq(Message) /\ Answered(msgs, 0) /\ Len(msgs) \in Nat /\ KeepTurns \in Nat
  BY LoopAssumption DEF History
<1>2. PICK p \in DOMAIN msgs : Form(msgs, p)
  BY DEF History
<1>3. /\ s \in 1..Len(msgs)
      /\ s = Len(msgs) \/ msgs[s + 1].calls > 0
      /\ \/ Cardinality(TurnsAfter(msgs, s)) >= KeepTurns
         \/ TurnsAfter(msgs, s) = Turns(msgs)
  <2>1. p \in 1..Len(msgs) /\ p..Len(msgs) \subseteq 1..Len(msgs)
    BY <1>1, <1>2
  <2>2. SafeTailStart(msgs, KeepTurns) \in p..Len(msgs)
    BY <1>1, <1>2, TailStartEffect
  <2>3. s = Len(msgs) \/ msgs[s + 1].calls > 0
    BY <1>1, <1>2, TailStartEffect
  <2>4. \/ Cardinality(TurnsAfter(msgs, s)) >= KeepTurns
        \/ TurnsAfter(msgs, s) = Turns(msgs)
    BY <1>1, <1>2, TailStartEffect
  <2> QED
    BY <2>1, <2>2, <2>3, <2>4
<1>4. Compressed(msgs) = IF Len(msgs) <= 2 \/ s <= 1 \/ c = 0 THEN msgs ELSE new
  BY DEF Compressed
<1> HIDE DEF s
<1>5. CASE Len(msgs) <= 2 \/ s <= 1 \/ c = 0
  BY <1>4, <1>5
<1>6. CASE ~(Len(msgs) <= 2 \/ s <= 1 \/ c = 0)
  <2>1. /\ slice \in Seq(Message) /\ Len(slice) = s - 1
        /\ \A i \in 1..(s - 1) : slice[i] = msgs[i + 1]
    BY <1>1, <1>3, <1>6, SubSeqProperties
  <2>2. /\ tail \in Seq(Message) /\ Len(tail) = Len(msgs) - s
        /\ \A i \in 1..(Len(msgs) - s) : tail[i] = msgs[i + s]
    BY <1>1, <1>3, <1>6, SubSeqProperties
  <2> HIDE DEF slice, tail
  <2>3. c \in 1..(s - 1) /\ (c < s - 1 => slice[c + 1].role # "tool")
    BY <1>6, <2>1, CutEffect
  <2> HIDE DEF c
  <2>4. /\ kept \in Seq(Message) /\ Len(kept) = (s - 1) - c
        /\ \A i \in 1..((s - 1) - c) : kept[i] = msgs[i + c + 1]
    BY <1>1, <1>3, <2>1, <2>3, SubSeqProperties
  <2> HIDE DEF kept
  <2>5. UserMsg \in Message
    BY DEF Message
  <2>6. /\ new \in Seq(Message) /\ Len(new) = Len(msgs) - c /\ new[1] = UserMsg
        /\ \A i \in 2..Len(new) : new[i] = msgs[i + c]
    <3> DEFINE head == <<UserMsg>> \o kept
    <3>1. /\ head \in Seq(Message) /\ Len(head) = s - c /\ head[1] = UserMsg
          /\ \A i \in 2..(s - c) : head[i] = kept[i - 1]
      <4>1. <<UserMsg>> \in Seq(Message) /\ Len(<<UserMsg>>) = 1 /\ <<UserMsg>>[1] = UserMsg
        BY <2>5
      <4>2. /\ head \in Seq(Message) /\ Len(head) = Len(<<UserMsg>>) + Len(kept)
            /\ \A i \in 1..(Len(<<UserMsg>>) + Len(kept)) :
                  head[i] = IF i <= Len(<<UserMsg>>) THEN <<UserMsg>>[i]
                            ELSE kept[i - Len(<<UserMsg>>)]
        BY <2>4, <4>1, ConcatProperties
      <4> HIDE DEF head
      <4> QED
        BY <1>1, <1>3, <2>3, <2>4, <4>1, <4>2, SMTT(30)
    <3> HIDE DEF head
    <3>2. /\ new = head \o tail /\ new \in Seq(Message) /\ Len(new) = Len(msgs) - c
          /\ \A i \in 1..(s - c) : new[i] = head[i]
          /\ \A i \in (s - c + 1)..(Len(msgs) - c) : new[i] = tail[i - (s - c)]
      <4>1. new = head \o tail
        BY DEF head
      <4>2. /\ head \o tail \in Seq(Message) /\ Len(head \o tail) = Len(head) + Len(tail)
            /\ \A i \in 1..(Len(head) + Len(tail)) :
                  (head \o tail)[i] = IF i <= Len(head) THEN head[i] ELSE tail[i - Len(head)]
        BY <2>2, <3>1, ConcatProperties
      <4> HIDE DEF new
      <4>3. /\ s \in Nat /\ c \in Nat /\ c < s /\ s <= Len(msgs) /\ Len(msgs) \in Nat
            /\ Len(head) = s - c /\ Len(tail) = Len(msgs) - s
        BY <1>1, <1>3, <2>2, <2>3, <3>1
      <4>4. Len(new) = Len(msgs) - c
        BY <4>1, <4>2, <4>3
      <4>5. ASSUME NEW i \in 1..(s - c) PROVE new[i] = head[i]
        <5>1. i \in 1..(Len(head) + Len(tail)) /\ i <= Len(head)
          BY <4>3
        <5> QED
          BY <4>1, <4>2, <5>1
      <4>6. ASSUME NEW i \in (s - c + 1)..(Len(msgs) - c)
            PROVE  new[i] = tail[i - (s - c)]
        <5>1. i \in 1..(Len(head) + Len(tail)) /\ ~(i <= Len(head))
          BY <4>3
        <5> QED
          BY <4>1, <4>2, <4>3, <5>1
      <4> QED
        BY <4>1, <4>2, <4>4, <4>5, <4>6
    <3> HIDE DEF new
    <3>3. ASSUME NEW i \in 2..Len(new) PROVE new[i] = msgs[i + c]
      <4>1. CASE i <= s - c
        <5>1. i \in 2..(s - c) /\ i - 1 \in 1..((s - 1) - c) /\ (i - 1) + c + 1 = i + c
          BY <1>3, <2>3, <4>1
        <5> QED
          <6>1. i \in 1..(s - c)
            BY <5>1
          <6>2. new[i] = head[i] /\ head[i] = kept[i - 1]
            BY <3>1, <3>2, <5>1, <6>1
          <6>3. kept[i - 1] = msgs[(i - 1) + c + 1]
            BY <2>4, <5>1
          <6> QED
            BY <5>1, <6>2, <6>3
      <4>2. CASE i > s - c
        <5>1. /\ i \in (s - c + 1)..(Len(msgs) - c) /\ i - (s - c) \in 1..(Len(msgs) - s)
              /\ (i - (s - c)) + s = i + c
          BY <1>1, <1>3, <2>3, <3>2, <4>2
        <5> QED
          BY <2>2, <3>2, <5>1
      <4> QED
        BY <1>3, <2>3, <4>1, <4>2
    <3>4. new[1] = UserMsg
      BY <1>3, <2>3, <3>1, <3>2
    <3> QED
      BY <3>2, <3>3, <3>4
  <2> HIDE DEF new
  <2>7. c \in 1..(Len(msgs) - 1) /\ (c + 2 <= Len(msgs) => msgs[c + 2].role # "tool")
    <3>1. CASE c < s - 1
      BY <1>1, <1>3, <2>1, <2>3, <3>1
    <3>2. CASE c = s - 1
      BY <1>1, <1>3, <1>6, <2>3, <3>2, MessageFacts
    <3> QED
      BY <1>3, <2>3, <3>1, <3>2
  <2>8. /\ History(new, 0)
        /\ Cardinality(TurnsAfter(msgs, s)) <= Cardinality(Turns(new))
    <3>1. s \in (c + 1)..Len(msgs)
      BY <1>1, <1>3, <2>3
    <3>2. /\ History(new, 0)
          /\ \A k \in (c + 1)..Len(msgs) :
                Cardinality(TurnsAfter(msgs, k)) <= Cardinality(Turns(new))
      BY <2>6, <2>7, DroppedKeeps
    <3> QED
      BY <3>1, <3>2
  <2>9. Holds(new, rounds)
    BY <1>1, <1>3, <2>6, <2>8, TurnsFinite DEF Holds, Due
  <2> QED
    BY <1>4, <1>6, <2>8, <2>9
<1> QED
  BY <1>5, <1>6

-----------------------------------------------------------------------------
\* What the orchestrator starts an agent with: no turns yet.
LEMMA StartKeeps ==
    ASSUME NEW msgs \in Seq(Message), Len(msgs) > 0, msgs[Len(msgs)] = UserMsg,
           \A i \in DOMAIN msgs : msgs[i].calls = 0 /\ msgs[i].role # "tool"
    PROVE  History(msgs, 0) /\ Holds(msgs, 0)
<1>1. Len(msgs) \in DOMAIN msgs /\ Form(msgs, Len(msgs))
  BY DEF Form
<1>2. Answered(msgs, 0)
  BY DEF Answered
<1>3. Holds(msgs, 0)
  BY TurnsFinite, LoopAssumption DEF Holds, Due
<1> QED
  BY <1>1, <1>2, <1>3 DEF History

\* The model's answer with n tool calls: n results are to follow, and there is one turn more.
LEMMA AskedKeeps ==
    ASSUME NEW msgs, History(msgs, 0), NEW n \in 1..MaxCalls, NEW rounds \in Nat,
           Holds(msgs, rounds)
    PROVE  /\ History(Append(msgs, AssistantMsg(n)), n)
           /\ Holds(Append(msgs, AssistantMsg(n)), rounds + 1)
<1> DEFINE new == Append(msgs, AssistantMsg(n))
<1>1. msgs \in Seq(Message) /\ Answered(msgs, 0) /\ Len(msgs) \in Nat /\ n \in Nat /\ n > 0
  BY LoopAssumption DEF History
<1>2. AssistantMsg(n) \in Message /\ AssistantMsg(n).calls = n /\ AssistantMsg(n).role # "tool"
  BY LoopAssumption DEF Message, AssistantMsg
<1>3. /\ new \in Seq(Message) /\ Len(new) = Len(msgs) + 1
      /\ \A i \in 1..Len(msgs) : new[i] = msgs[i]
      /\ new[Len(msgs) + 1] = AssistantMsg(n)
  BY <1>1, <1>2
<1> HIDE DEF new
<1>4. PICK p \in DOMAIN msgs : Form(msgs, p)
  BY DEF History
<1>5. p \in DOMAIN new /\ Form(new, p)
  <2>1. p \in 1..Len(msgs) /\ p \in DOMAIN new
    BY <1>1, <1>3, <1>4
  <2>2. ASSUME NEW i \in DOMAIN new, i > p PROVE new[i].calls > 0 \/ new[i].role = "tool"
    <3>1. CASE i = Len(msgs) + 1
      BY <1>1, <1>2, <1>3, <3>1
    <3>2. CASE i # Len(msgs) + 1
      <4>1. i \in DOMAIN msgs /\ new[i] = msgs[i]
        BY <1>1, <1>3, <3>2
      <4> QED
        BY <1>4, <2>2, <4>1 DEF Form
    <3> QED
      BY <3>1, <3>2
  <2> QED
    BY <1>1, <1>3, <1>4, <2>1, <2>2 DEF Form
<1>6. Answered(new, n)
  <2>1. ASSUME NEW i \in DOMAIN new, new[i].calls > 0
        PROVE  /\ \A j \in Answers(new, i) : j \in DOMAIN new => new[j].role = "tool"
               /\ i + new[i].calls <= Len(new) + n
    <3>1. CASE i = Len(msgs) + 1
      <4>1. new[i].calls = n /\ Answers(new, i) \intersect DOMAIN new = {}
        BY <1>1, <1>2, <1>3, <3>1 DEF Answers
      <4> QED
        BY <1>1, <1>3, <3>1, <4>1
    <3>2. CASE i # Len(msgs) + 1
      <4>1. i \in DOMAIN msgs /\ new[i] = msgs[i] /\ msgs[i].calls \in Nat
        BY <1>1, <1>3, <3>2, MessageFacts, SMTT(30)
      <4>2. i + msgs[i].calls <= Len(msgs)
        BY <1>1, <2>1, <4>1 DEF Answered
      <4>3. ASSUME NEW j \in Answers(new, i), j \in DOMAIN new PROVE new[j].role = "tool"
        <5>1. j \in Answers(msgs, i) /\ j \in DOMAIN msgs /\ new[j] = msgs[j]
          <6>1. j \in (i + 1)..(i + msgs[i].calls) /\ j \in 1..(Len(msgs) + 1)
            BY <1>3, <4>1, <4>3 DEF Answers
          <6>2. j \in 1..Len(msgs)
            <7>1. PICK k \in Nat : k = msgs[i].calls
              BY <4>1
            <7> QED
              BY <1>1, <4>1, <4>2, <6>1, <7>1
          <6> QED
            BY <1>1, <1>3, <6>1, <6>2 DEF Answers
        <5> QED
          BY <1>1, <2>1, <4>1, <5>1 DEF Answered
      <4> QED
        BY <1>1, <1>3, <4>1, <4>2, <4>3
    <3> QED
      BY <3>1, <3>2
  <2>2. ASSUME NEW j \in DOMAIN new, new[j].role = "tool"
        PROVE  \E i \in DOMAIN new : new[i].calls > 0 /\ j \in Answers(new, i)
    <3>1. j \in DOMAIN msgs /\ new[j] = msgs[j]
      BY <1>1, <1>2, <1>3, <2>2
    <3>2. PICK i \in DOMAIN msgs : msgs[i].calls > 0 /\ j \in Answers(msgs, i)
      BY <1>1, <2>2, <3>1 DEF Answered
    <3>3. i \in DOMAIN new /\ new[i] = msgs[i]
      BY <1>1, <1>3, <3>2
    <3> QED
      BY <3>2, <3>3 DEF Answers
  <2>3. /\ Len(msgs) + 1 \in DOMAIN new
        /\ new[Len(msgs) + 1].calls > 0 /\ (Len(msgs) + 1) + new[Len(msgs) + 1].calls = Len(new) + n
    BY <1>1, <1>2, <1>3
  <2> QED
    BY <2>1, <2>2, <2>3 DEF Answered
<1>7. Holds(new, rounds + 1)
  <2>1. Turns(new) = Turns(msgs) \union {Len(msgs) + 1} /\ Len(msgs) + 1 \notin Turns(msgs)
    BY <1>1, <1>2, <1>3 DEF Turns
  <2>2. Cardinality(Turns(new)) = Cardinality(Turns(msgs)) + 1
    BY <1>1, <2>1, TurnsFinite, FS_AddElement
  <2> QED
    BY <1>1, <2>2, TurnsFinite, LoopAssumption DEF Holds, Due
<1> QED
  BY <1>3, <1>5, <1>6, <1>7 DEF History, new

\* A result is put right behind the results before it.
LEMMA ReturnedKeeps ==
    ASSUME NEW msgs, NEW todo \in Nat \ {0}, History(msgs, todo), NEW rounds \in Nat,
           Holds(msgs, rounds)
    PROVE  /\ History(Append(msgs, ToolMsg), todo - 1)
           /\ Holds(Append(msgs, ToolMsg), rounds)
<1> DEFINE new == Append(msgs, ToolMsg)
<1>1. msgs \in Seq(Message) /\ Answered(msgs, todo) /\ Len(msgs) \in Nat
  BY DEF History
<1>2. ToolMsg \in Message /\ ToolMsg.calls = 0 /\ ToolMsg.role = "tool"
  BY DEF Message, ToolMsg
<1>3. /\ new \in Seq(Message) /\ Len(new) = Len(msgs) + 1
      /\ \A i \in 1..Len(msgs) : new[i] = msgs[i]
      /\ new[Len(msgs) + 1] = ToolMsg
  BY <1>1, <1>2
<1> HIDE DEF new
<1>4. PICK p \in DOMAIN msgs : Form(msgs, p)
  BY DEF History
<1>5. p \in DOMAIN new /\ Form(new, p)
  <2>1. p \in 1..Len(msgs) /\ p \in DOMAIN new
    BY <1>1, <1>3, <1>4
  <2>2. ASSUME NEW i \in DOMAIN new, i > p PROVE new[i].calls > 0 \/ new[i].role = "tool"
    <3>1. CASE i = Len(msgs) + 1
      BY <1>2, <1>3, <3>1
    <3>2. CASE i # Len(msgs) + 1
      <4>1. i \in DOMAIN msgs /\ new[i] = msgs[i]
        BY <1>1, <1>3, <3>2
      <4> QED
        BY <1>4, <2>2, <4>1 DEF Form
    <3> QED
      BY <3>1, <3>2
  <2> QED
    BY <1>1, <1>3, <1>4, <2>1, <2>2 DEF Form
<1>6. PICK w \in DOMAIN msgs : msgs[w].calls > 0 /\ w + msgs[w].calls = Len(msgs) + todo
  BY <1>1 DEF Answered
<1>7. w \in DOMAIN new /\ new[w] = msgs[w] /\ w \in 1..Len(msgs) /\ msgs[w].calls \in Nat
  BY <1>1, <1>3, <1>6, MessageFacts
<1>8. Answered(new, todo - 1)
  <2>1. ASSUME NEW i \in DOMAIN new, new[i].calls > 0
        PROVE  /\ \A j \in Answers(new, i) : j \in DOMAIN new => new[j].role = "tool"
               /\ i + new[i].calls <= Len(new) + (todo - 1)
    <3>1. i \in DOMAIN msgs /\ new[i] = msgs[i] /\ msgs[i].calls \in Nat
      <4>1. i \in 1..(Len(msgs) + 1) /\ i # Len(msgs) + 1
        BY <1>1, <1>2, <1>3, <2>1
      <4>2. i \in 1..Len(msgs) /\ msgs[i] \in Message
        BY <1>1, <4>1
      <4> QED
        BY <1>1, <1>3, <4>2, MessageFacts
    <3>2. i + msgs[i].calls <= Len(msgs) + todo
      BY <1>1, <2>1, <3>1 DEF Answered
    <3>3. ASSUME NEW j \in Answers(new, i), j \in DOMAIN new PROVE new[j].role = "tool"
      <4>1. CASE j = Len(msgs) + 1
        BY <1>2, <1>3, <4>1
      <4>2. CASE j # Len(msgs) + 1
        <5>1. j \in Answers(msgs, i) /\ j \in DOMAIN msgs /\ new[j] = msgs[j]
          <6>1. j \in (i + 1)..(i + msgs[i].calls) /\ j \in 1..(Len(msgs) + 1)
            BY <1>3, <3>1, <3>3 DEF Answers
          <6>2. j \in 1..Len(msgs)
            BY <1>1, <4>2, <6>1
          <6> QED
            BY <1>1, <1>3, <3>1, <6>1, <6>2 DEF Answers
        <5> QED
          BY <1>1, <2>1, <3>1, <5>1 DEF Answered
      <4> QED
        BY <4>1, <4>2
    <3> QED
      BY <1>1, <1>3, <3>1, <3>2, <3>3
  <2>2. ASSUME NEW j \in DOMAIN new, new[j].role = "tool"
        PROVE  \E i \in DOMAIN new : new[i].calls > 0 /\ j \in Answers(new, i)
    <3>1. CASE j = Len(msgs) + 1
      <4>1. j \in (w + 1)..(w + msgs[w].calls)
        BY <1>1, <1>6, <1>7, <3>1
      <4> QED
        BY <1>6, <1>7, <4>1 DEF Answers
    <3>2. CASE j # Len(msgs) + 1
      <4>1. j \in DOMAIN msgs /\ new[j] = msgs[j]
        BY <1>1, <1>3, <3>2
      <4>2. PICK i \in DOMAIN msgs : msgs[i].calls > 0 /\ j \in Answers(msgs, i)
        BY <1>1, <2>2, <4>1 DEF Answered
      <4>3. i \in DOMAIN new /\ new[i] = msgs[i]
        BY <1>1, <1>3, <4>2
      <4> QED
        BY <4>2, <4>3 DEF Answers
    <3> QED
      BY <3>1, <3>2
  <2>3. w + new[w].calls = Len(new) + (todo - 1) /\ new[w].calls > 0
    BY <1>1, <1>3, <1>6, <1>7
  <2> QED
    BY <1>7, <2>1, <2>2, <2>3 DEF Answered
<1>9. Turns(new) = Turns(msgs)
  BY <1>1, <1>2, <1>3 DEF Turns
<1> QED
  BY <1>3, <1>5, <1>8, <1>9 DEF History, Holds, new

-----------------------------------------------------------------------------
LEMMA BecomesKeeps ==
    ASSUME LoopInv, NEW a \in Agent, NEW r \in AgentRun, RunOK(r), Becomes(a, r)
    PROVE  LoopInv'
<1>1. loop' \in [Agent -> AgentRun] /\ \A b \in Agent : loop'[b] = IF b = a THEN r ELSE loop[b]
  BY DEF LoopInv, Becomes
<1>2. \A b \in Agent : RunOK(loop'[b])
  BY <1>1 DEF LoopInv
<1>3. LoopInv' <=> loop' \in [Agent -> AgentRun] /\ \A b \in Agent : RunOK(loop'[b])
  BY DEF LoopInv, RunOK
<1> QED
  BY <1>1, <1>2, <1>3

LEMMA ThinkKeeps ==
    ASSUME LoopInv, NEW a \in Agent, NEW may \in BOOLEAN, Think(a, may)
    PROVE  LoopInv'
<1> DEFINE r == loop[a]
<1>1. /\ r \in AgentRun /\ RunOK(r) /\ r.round \in Nat /\ r.tools \in BOOLEAN
      /\ r.msgs \in Seq(Message) /\ 0 \in Nat /\ TRUE \in BOOLEAN
  BY DEF LoopInv, AgentRun
<1> DEFINE Stopped(pc) == Run(pc, r.round, r.msgs, 0, r.tools)
<1>2. ASSUME NEW pc \in {"final", "done"}, r.pc \in {"round", "call", "final"},
             Becomes(a, Stopped(pc))
      PROVE  LoopInv'
  <2>1. Stopped(pc) \in AgentRun /\ RunOK(Stopped(pc))
    BY <1>1, <1>2 DEF AgentRun, RunOK, Run
  <2> QED
    BY <1>2, <2>1, BecomesKeeps
<1>3. CASE BeginRound(a)
  <2>1. PICK msgs \in {r.msgs, Compressed(r.msgs)} :
           r.pc = "round" /\ Becomes(a, Run("call", r.round, msgs, 0, r.tools))
    BY <1>3 DEF BeginRound
  <2>2. History(msgs, 0) /\ Holds(msgs, r.round)
    BY <1>1, <2>1, CompressedKeeps DEF RunOK
  <2>3. Run("call", r.round, msgs, 0, r.tools) \in AgentRun
    BY <1>1, <2>2 DEF AgentRun, Run, History
  <2>4. RunOK(Run("call", r.round, msgs, 0, r.tools))
    BY <2>2 DEF RunOK, Run
  <2> QED
    BY <2>1, <2>3, <2>4, BecomesKeeps
<1>4. ASSUME NEW n \in 1..MaxCalls, AnswerTools(a, n) PROVE LoopInv'
  <2> DEFINE msgs == Append(r.msgs, AssistantMsg(n))
  <2>1. r.pc = "call" /\ Becomes(a, Run("tools", r.round, msgs, n, TRUE))
    BY <1>4 DEF AnswerTools
  <2>2. History(r.msgs, 0) /\ Holds(r.msgs, r.round) /\ n \in Nat /\ n > 0
    BY <1>1, <2>1, LoopAssumption DEF RunOK
  <2>3. History(msgs, n) /\ Holds(msgs, r.round + 1)
    BY <1>1, <2>2, AskedKeeps
  <2> HIDE DEF msgs
  <2>4. Run("tools", r.round, msgs, n, TRUE) \in AgentRun
    BY <1>1, <2>2, <2>3 DEF AgentRun, Run, History
  <2>5. RunOK(Run("tools", r.round, msgs, n, TRUE))
    BY <2>2, <2>3 DEF RunOK, Run
  <2> QED
    BY <2>1, <2>4, <2>5, BecomesKeeps
<1> QED
  BY <1>2, <1>3, <1>4 DEF Think, RoundsExhausted, AnswerText, AnswerEmpty, LlmFails, StreamFinal

LEMMA ToolReturnedKeeps ==
    ASSUME LoopInv, NEW a \in Agent, ToolReturned(a)
    PROVE  LoopInv'
<1> DEFINE r == loop[a]
           msgs == Append(r.msgs, ToolMsg)
           next == Run(IF r.todo = 1 THEN "round" ELSE "tools",
                       IF r.todo = 1 THEN r.round + 1 ELSE r.round, msgs, r.todo - 1, TRUE)
<1>1. r \in AgentRun /\ RunOK(r) /\ r.round \in Nat /\ r.todo \in Nat \ {0} /\ r.pc = "tools"
  BY DEF LoopInv, AgentRun, ToolReturned
<1>2. History(r.msgs, r.todo) /\ Holds(r.msgs, r.round + 1)
  BY <1>1 DEF RunOK
<1>3. History(msgs, r.todo - 1) /\ Holds(msgs, r.round + 1)
  BY <1>1, <1>2, ReturnedKeeps
<1>4. Becomes(a, next)
  BY DEF ToolReturned
<1> HIDE DEF msgs
<1>5. msgs \in Seq(Message) /\ r.todo - 1 \in Nat
  BY <1>1, <1>3 DEF History
<1>6. CASE r.todo = 1
  <2>1. next = Run("round", r.round + 1, msgs, 0, TRUE)
    BY <1>6
  <2>2. next \in AgentRun /\ RunOK(next)
    BY <1>1, <1>3, <1>5, <1>6, <2>1 DEF AgentRun, RunOK, Run
  <2> QED
    BY <1>4, <2>2, BecomesKeeps
<1>7. CASE r.todo # 1
  <2>1. next = Run("tools", r.round, msgs, r.todo - 1, TRUE) /\ r.todo - 1 > 0
    BY <1>1, <1>7
  <2>2. next \in AgentRun /\ RunOK(next)
    BY <1>1, <1>3, <1>5, <2>1 DEF AgentRun, RunOK, Run
  <2> QED
    BY <1>4, <2>2, BecomesKeeps
<1> QED
  BY <1>6, <1>7

LEMMA PlainAppend ==
    ASSUME NEW msgs, Plain(msgs), NEW m \in {UserMsg, AssistantMsg(0)}
    PROVE  /\ Plain(Append(msgs, m)) /\ Len(Append(msgs, m)) > 0
           /\ Append(msgs, m)[Len(Append(msgs, m))] = m
<1>1. m \in Message
  BY LoopAssumption DEF Message
<1>2. msgs \in Seq(Message) /\ Len(msgs) \in Nat
  BY DEF Plain
<1>3. /\ Append(msgs, m) \in Seq(Message) /\ Len(Append(msgs, m)) = Len(msgs) + 1
      /\ \A i \in 1..Len(msgs) : Append(msgs, m)[i] = msgs[i]
      /\ Append(msgs, m)[Len(msgs) + 1] = m
  BY <1>1, <1>2
<1>4. \A i \in DOMAIN Append(msgs, m) :
         i = Len(msgs) + 1 \/ (i \in DOMAIN msgs /\ Append(msgs, m)[i] = msgs[i])
  BY <1>2, <1>3
<1>5. \A i \in DOMAIN Append(msgs, m) : Append(msgs, m)[i] \in {UserMsg, AssistantMsg(0)}
  BY <1>3, <1>4 DEF Plain
<1> QED
  BY <1>2, <1>3, <1>5 DEF Plain

\* Every list an agent is started with: text, and a user's message at the end.
LEMMA StartedOK ==
    ASSUME NEW tools \in BOOLEAN, NEW msgs, Plain(msgs), Len(msgs) > 0,
           msgs[Len(msgs)] = UserMsg
    PROVE  StartedLoop(msgs, tools) \in AgentRun /\ RunOK(StartedLoop(msgs, tools))
<1>1. /\ UserMsg.calls = 0 /\ UserMsg.role # "tool"
      /\ AssistantMsg(0).calls = 0 /\ AssistantMsg(0).role # "tool"
  BY DEF UserMsg, AssistantMsg
<1>2. \A i \in DOMAIN msgs : msgs[i].calls = 0 /\ msgs[i].role # "tool"
  BY <1>1 DEF Plain
<1>3. msgs \in Seq(Message) /\ History(msgs, 0) /\ Holds(msgs, 0)
  BY <1>2, StartKeeps DEF Plain
<1> QED
  BY <1>3 DEF StartedLoop, Run, AgentRun, RunOK

\* A run that is not to go on.
LEMMA StoppedOK ==
    /\ NoLoop \in AgentRun /\ RunOK(NoLoop)
    /\ [NoLoop EXCEPT !.pc = "over"] \in AgentRun /\ RunOK([NoLoop EXCEPT !.pc = "over"])
<1>1. <<>> \in Seq(Message) /\ 0 \in Nat /\ FALSE \in BOOLEAN
  OBVIOUS
<1>2. NoLoop \in AgentRun /\ RunOK(NoLoop)
  BY <1>1 DEF NoLoop, Run, AgentRun, RunOK
<1>3. ASSUME NEW r \in AgentRun
      PROVE  [r EXCEPT !.pc = "over"] \in AgentRun /\ [r EXCEPT !.pc = "over"].pc = "over"
  BY DEF AgentRun
<1>4. \A r : r.pc = "over" => RunOK(r)
  BY DEF RunOK
<1> QED
  BY <1>2, <1>3, <1>4

LEMMA OrchestrateKeeps ==
    ASSUME LoopInv, CallerOK, Orchestrate
    PROVE  LoopInv'
<1>1. 0 \in Agent /\ UserMsg \in {UserMsg, AssistantMsg(0)}
      /\ AssistantMsg(0) \in {UserMsg, AssistantMsg(0)}
  BY OrchestratorAssumption
<1>2. CASE UNCHANGED loop
  BY <1>2 DEF LoopInv, RunOK
<1>3. ASSUME NEW msgs \in {messages, Append(messages, UserMsg)}, NEW tools \in BOOLEAN,
             loop' = [loop EXCEPT ![0] = StartedLoop(msgs, tools)]
      PROVE  LoopInv'
  <2>1. Plain(msgs) /\ Len(msgs) > 0 /\ msgs[Len(msgs)] = UserMsg
    BY <1>1, PlainAppend DEF CallerOK
  <2> QED
    BY <1>1, <1>3, <2>1, StartedOK, BecomesKeeps DEF Becomes
<1>4. CASE Dispatch
  <2>1. ASSUME NEW id
        PROVE  /\ StartedLoop(TaskMessages(id), TRUE) \in AgentRun
               /\ RunOK(StartedLoop(TaskMessages(id), TRUE))
    <3>1. PICK outputs : /\ Plain(outputs)
                         /\ TaskMessages(id) = Append(outputs, UserMsg)
      <4>1. Plain(messages) /\ Plain(Append(Append(messages, UserMsg), AssistantMsg(0)))
        BY <1>1, PlainAppend DEF CallerOK
      <4> QED
        BY <4>1 DEF TaskMessages
    <3> QED
      BY <1>1, <3>1, PlainAppend, StartedOK
  <2>2. loop' = [a \in Agent |-> IF \E id \in Ready : AgentFor(id) = a
                                 THEN StartedLoop(TaskMessages(plan[a].id), TRUE) ELSE loop[a]]
    BY <1>4 DEF Dispatch
  <2>3. \A a \in Agent : loop'[a] \in AgentRun /\ RunOK(loop'[a])
    BY <2>1, <2>2 DEF LoopInv
  <2>4. loop' \in [Agent -> AgentRun]
    BY <2>2, <2>3
  <2>5. LoopInv' <=> loop' \in [Agent -> AgentRun] /\ \A b \in Agent : RunOK(loop'[b])
    BY DEF LoopInv, RunOK
  <2> QED
    BY <2>3, <2>4, <2>5
<1> QED
  BY <1>2, <1>3, <1>4 DEF Orchestrate, ClassifyDirect, ClassifyMulti, Drain, QueueTimeout,
     AllDone, Gather, RunComplete, ProbeBegins, ProbeCleans

\* Nobody changes what the caller has given.
LEMMA CallerKept ==
    ASSUME IntentNext
    PROVE  UNCHANGED messages
<1>1. ASSUME NEW a \in Agent, AgentStep(a) PROVE UNCHANGED messages
  BY <1>1 DEF AgentStep, ThinkStep, PlainTool, SubEnds, SubDone, SubFailed, SubLost, orchVars
<1>2. CASE Orchestrate
  BY <1>2 DEF Orchestrate, ClassifyDirect, ClassifyMulti, Dispatch, Drain, QueueTimeout,
     AllDone, Gather, RunComplete, ProbeBegins, ProbeCleans
<1> QED
  BY <1>1, <1>2 DEF IntentNext, GuardedTool, BeginTool, EnforceStep, ToolStep, OwnerStep,
     ProbeLeaves, Ended, orchVars, intentVars

LEMMA CallerInit == IntentInit => CallerOK
<1> SUFFICES ASSUME IntentInit PROVE CallerOK
  OBVIOUS
<1>1. /\ UserMsg \in {UserMsg, AssistantMsg(0)} /\ {UserMsg, AssistantMsg(0)} \subseteq Message
      /\ UserMsg \in Message
  BY LoopAssumption DEF Message
<1>2. CASE messages \in Requests
  <2>1. PICK n \in 0..RecentN : messages \in {Append(stored, UserMsg) :
                                    stored \in [1..n -> {UserMsg, AssistantMsg(0)}]}
    BY <1>2 DEF Requests
  <2>2. PICK stored \in [1..n -> {UserMsg, AssistantMsg(0)}] : messages = Append(stored, UserMsg)
    BY <2>1
  <2>3. Plain(stored)
    <3>1. n \in Nat
      BY <2>1, OrchestratorAssumption
    <3>2. stored \in [1..n -> Message]
      BY <1>1, <2>2
    <3>3. stored \in Seq(Message)
      BY <3>1, <3>2
    <3> QED
      BY <2>2, <3>3 DEF Plain
  <2> QED
    BY <1>1, <2>2, <2>3, PlainAppend DEF CallerOK
<1>3. CASE messages = <<UserMsg>>
  <2> DEFINE U == UserMsg
  <2>1. U \in Message /\ U \in {UserMsg, AssistantMsg(0)} /\ messages = <<U>>
    BY <1>1, <1>3
  <2> HIDE DEF U
  <2>2. Plain(messages)
    BY <2>1 DEF Plain
  <2>3. messages[Len(messages)] = U /\ Len(messages) > 0
    BY <2>1
  <2> QED
    BY <2>2, <2>3 DEF CallerOK, U
<1> QED
  BY <1>2, <1>3 DEF IntentInit

LEMMA LoopStep ==
    ASSUME LoopInv, CallerOK, IntentNext
    PROVE  LoopInv'
<1>1. 0 \in Agent
  BY OrchestratorAssumption
<1>2. CASE UNCHANGED loop
  BY <1>2 DEF LoopInv, RunOK
<1>3. ASSUME NEW a \in Agent, AgentStep(a) PROVE LoopInv'
  <2>1. ASSUME Over(a) PROVE LoopInv'
    BY <2>1, StoppedOK, BecomesKeeps DEF Over, Becomes
  <2>2. ASSUME ThinkStep(a) PROVE LoopInv'
    <3>1. MayUseTools(a) \in BOOLEAN
      BY DEF MayUseTools
    <3> QED
      BY <2>2, <3>1, ThinkKeeps DEF ThinkStep
  <2> QED
    BY <1>3, <2>1, <2>2, ToolReturnedKeeps DEF AgentStep, PlainTool, SubEnds, SubDone,
       SubFailed, SubLost
<1>4. CASE GuardedTool
  BY <1>1, <1>2, <1>4, ToolReturnedKeeps DEF GuardedTool, BeginTool, EnforceStep
<1>5. CASE ProbeLeaves
  BY <1>1, <1>5, StoppedOK, BecomesKeeps DEF ProbeLeaves, Becomes
<1>6. CASE ToolStep \/ OwnerStep \/ Ended
  BY <1>2, <1>6 DEF ToolStep, OwnerStep, Ended, intentVars
<1> QED
  BY <1>3, <1>4, <1>5, <1>6, OrchestrateKeeps DEF IntentNext

\* Whatever an agent sends to the provider says what is asked, with nothing but turns behind
\* it, has every tool call answered right behind it and nothing else answered, and holds the
\* last KeepTurns turns of the run: compression cuts between turns only, for every list of
\* stored messages, every length of run and every limit.
THEOREM HistoryIsWellFormed == IntentSpec => []HistoryWellFormed
<1>1. IntentInit => LoopInv /\ CallerOK
  <2> SUFFICES ASSUME IntentInit PROVE LoopInv
    BY CallerInit
  <2>1. loop = [a \in Agent |-> NoLoop]
    BY DEF IntentInit
  <2> QED
    BY <2>1, StoppedOK DEF LoopInv
<1>2. LoopInv /\ CallerOK /\ [IntentNext]_intentVars => LoopInv' /\ CallerOK'
  <2>1. LoopInv /\ UNCHANGED intentVars => LoopInv'
    BY DEF LoopInv, RunOK, intentVars
  <2>2. CallerOK /\ [IntentNext]_intentVars => CallerOK'
    BY CallerKept DEF CallerOK, intentVars, orchVars
  <2> QED
    BY <2>1, <2>2, LoopStep
<1>3. LoopInv => HistoryWellFormed
  <2> SUFFICES ASSUME LoopInv, NEW a \in Agent, loop[a].pc \in {"call", "final"}
               PROVE  /\ Asked(loop[a].msgs)
                      /\ Paired(loop[a].msgs)
                      /\ Cardinality(Turns(loop[a].msgs)) >= Due(loop[a].round)
    BY DEF HistoryWellFormed, Due
  <2>1. History(loop[a].msgs, 0) /\ Holds(loop[a].msgs, loop[a].round)
    BY DEF LoopInv, RunOK
  <2>2. loop[a].msgs \in Seq(Message) /\ Answered(loop[a].msgs, 0) /\ Asked(loop[a].msgs)
    BY <2>1 DEF History, Form, Asked
  <2>3. Paired(loop[a].msgs)
    <3> DEFINE msgs == loop[a].msgs
    <3>1. ASSUME NEW i \in DOMAIN msgs, msgs[i].calls > 0, NEW j \in Answers(msgs, i)
          PROVE  j \in DOMAIN msgs /\ msgs[j].role = "tool"
      <4>1. i + msgs[i].calls <= Len(msgs) /\ msgs[i].calls \in Nat
        BY <2>2, <3>1, MessageFacts DEF Answered
      <4>2. j \in DOMAIN msgs
        BY <2>2, <4>1 DEF Answers
      <4> QED
        BY <2>2, <3>1, <4>2 DEF Answered
    <3> QED
      BY <2>2, <3>1 DEF Paired, Answered
  <2> QED
    BY <2>1, <2>2, <2>3 DEF Holds
<1> QED
  BY <1>1, <1>2, <1>3, PTL DEF IntentSpec
==============================================================================
