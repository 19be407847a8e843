------------------------------ MODULE AgentLoop ------------------------------
(***************************************************************************)
(* One agent's rounds of tool use (kernel/agent_loop.py) and the           *)
(* compression of its message list in the middle of a run.                 *)
(*                                                                         *)
(* A message is its role; an assistant's message carries the number of     *)
(* tool calls it makes.  The provider accepts a list only if every tool    *)
(* call is answered, right after the message that made it, and nothing     *)
(* else is.                                                                *)
(***************************************************************************)
EXTENDS Naturals, Sequences, FiniteSets

CONSTANTS
    Agent,              \* the agents that can run side by side
    MaxToolRounds,      \* MAX_TOOL_ROUNDS
    CompressThreshold,  \* AGENT_COMPRESS_THRESHOLD
    KeepTurns,          \* AGENT_COMPRESS_KEEP_TURNS
    MaxCalls            \* bound: tool calls in one answer of the model

ASSUME LoopAssumption ==
    /\ {MaxToolRounds, CompressThreshold, KeepTurns, MaxCalls} \subseteq Nat \ {0}

VARIABLE loop           \* each agent's run

UserMsg         == [role |-> "user", calls |-> 0]
ToolMsg         == [role |-> "tool", calls |-> 0]
AssistantMsg(n) == [role |-> "assistant", calls |-> n]

Message == {UserMsg, ToolMsg} \union {AssistantMsg(n) : n \in 0..MaxCalls}

\* The local variables of _run: round_num, working_messages, the calls still to execute, and
\* whether the agent has tools at all (synthesis has none).
Run(pc, round, msgs, todo, tools) ==
    [pc |-> pc, round |-> round, msgs |-> msgs, todo |-> todo, tools |-> tools]

NoLoop == Run("off", 0, <<>>, 0, FALSE)

StartedLoop(msgs, tools) == Run("round", 0, msgs, 0, tools)

-----------------------------------------------------------------------------
\* Indices are the code's: message i is messages[i], 0-based.
RoleAt(msgs, i) == msgs[i + 1].role

\* A run of tool messages is walked over backwards, then its assistant message.
TurnStart(msgs, idx) ==
    LET ends == {j \in 1..idx : \A k \in j..(idx - 1) : RoleAt(msgs, k) = "tool"}
        j == CHOOSE m \in ends : \A n \in ends : m <= n
    IN IF j > 1 /\ RoleAt(msgs, j - 1) = "assistant" THEN j - 1 ELSE j

\* Mutant of SafeTailStart: the walk stops in front of an assistant message's results.
SafeTailStartMidTurn(msgs, keep) == IF Len(msgs) > keep THEN Len(msgs) - keep ELSE 1

\* One round of the walk; it ends at message 1 or at a message that is no part of a turn.
OneTurnBack(msgs, prev) ==
    LET idx == IF prev.open /\ prev.idx > 1 THEN TurnStart(msgs, prev.idx) ELSE prev.idx
    IN [idx |-> idx, open |-> prev.open /\ idx < prev.idx /\ RoleAt(msgs, idx) = "assistant"]

\* _safe_tail_start: where the last `keep` complete turns begin.
SafeTailStart(msgs, keep) ==
    LET back[t \in 0..keep] == IF t = 0 THEN [idx |-> Len(msgs), open |-> TRUE]
                               ELSE OneTurnBack(msgs, back[t - 1])
    IN back[keep].idx

\* _safe_compress_cut: just behind the last turn of the slice, 0 when it has none.
SafeCompressCut(slice) ==
    LET cuts == {j \in 1..Len(slice) :
                    /\ \E i \in 0..(j - 1) :
                          /\ RoleAt(slice, i) = "assistant"
                          /\ \A k \in (i + 1)..(j - 1) : RoleAt(slice, k) = "tool"
                    /\ j < Len(slice) => RoleAt(slice, j) # "tool"}
    IN IF cuts = {} THEN 0 ELSE CHOOSE j \in cuts : \A i \in cuts : i <= j

\* _compress_working_messages when the summariser answers; the caller keeps the list as it is
\* when it does not, or when there is nothing to cut.
Compressed(msgs) ==
    LET tailStart == SafeTailStart(msgs, KeepTurns)
        slice == SubSeq(msgs, 2, tailStart)
        tail  == SubSeq(msgs, tailStart + 1, Len(msgs))
        cut   == SafeCompressCut(slice)
    IN IF Len(msgs) <= 2 \/ tailStart <= 1 \/ cut = 0 THEN msgs
       ELSE <<UserMsg>> \o SubSeq(slice, cut + 1, Len(slice)) \o tail

-----------------------------------------------------------------------------
Becomes(a, run) == loop' = [loop EXCEPT ![a] = run]

\* The head of the for loop: a list that has grown too long is compressed; llm_client.complete
\* may also raise, and the list is kept.
BeginRound(a) ==
    LET r == loop[a]
    IN /\ r.pc = "round" /\ r.round < MaxToolRounds
       /\ \/ Becomes(a, Run("call", r.round, r.msgs, 0, r.tools))
          \/ /\ Len(r.msgs) > CompressThreshold
             /\ Becomes(a, Run("call", r.round, Compressed(r.msgs), 0, r.tools))

\* for ... else: the rounds are used up, a last answer is streamed without tools.
RoundsExhausted(a) ==
    LET r == loop[a]
    IN /\ r.pc = "round" /\ r.round = MaxToolRounds
       /\ Becomes(a, Run("final", r.round, r.msgs, 0, r.tools))

\* llm_client.tool_call answers with tool calls.
AnswerTools(a, n) ==
    LET r == loop[a]
    IN /\ r.pc = "call" /\ r.tools
       /\ Becomes(a, Run("tools", r.round, Append(r.msgs, AssistantMsg(n)), n, TRUE))

\* The text of an answer without tool calls is the final one.
AnswerText(a) ==
    LET r == loop[a]
    IN /\ r.pc = "call"
       /\ Becomes(a, Run("done", r.round, r.msgs, 0, r.tools))

\* Neither calls nor text: the answer is asked for again, streamed.
AnswerEmpty(a) ==
    LET r == loop[a]
    IN /\ r.pc = "call"
       /\ Becomes(a, Run("final", r.round, r.msgs, 0, r.tools))

\* The provider refuses, also with the fallback model: an error event ends the run.
LlmFails(a) ==
    LET r == loop[a]
    IN /\ r.pc = "call"
       /\ Becomes(a, Run("done", r.round, r.msgs, 0, r.tools))

\* One tool call has returned; the last one of the answer ends the round.
ToolReturned(a) ==
    LET r == loop[a]
    IN /\ r.pc = "tools" /\ r.todo > 0
       /\ Becomes(a, Run(IF r.todo = 1 THEN "round" ELSE "tools",
                         IF r.todo = 1 THEN r.round + 1 ELSE r.round,
                         Append(r.msgs, ToolMsg), r.todo - 1, TRUE))

\* _llm_stream_final, whether it succeeds or is answered by an error event.
StreamFinal(a) ==
    LET r == loop[a]
    IN /\ r.pc = "final"
       /\ Becomes(a, Run("done", r.round, r.msgs, 0, r.tools))

\* Everything an agent does between two tool calls; `may` says whether its model uses tools.
Think(a, may) ==
    \/ BeginRound(a) \/ RoundsExhausted(a)
    \/ (may /\ \E n \in 1..MaxCalls : AnswerTools(a, n))
    \/ AnswerText(a) \/ AnswerEmpty(a) \/ LlmFails(a) \/ StreamFinal(a)

-----------------------------------------------------------------------------
\* The provider's rule, stated without walking: an assistant message with n calls is followed
\* by exactly n tool messages, and every tool message is one of these.
Answers(msgs, i) == (i + 1)..(i + msgs[i].calls)

Paired(msgs) ==
    /\ \A i \in DOMAIN msgs : msgs[i].calls > 0 => \A j \in Answers(msgs, i) :
          j \in DOMAIN msgs /\ msgs[j].role = "tool"
    /\ \A j \in DOMAIN msgs : msgs[j].role = "tool" =>
          \E i \in DOMAIN msgs : msgs[i].calls > 0 /\ j \in Answers(msgs, i)

Turns(msgs) == {i \in DOMAIN msgs : msgs[i].calls > 0}

\* A user's message with nothing but turns behind it: the goal, or the summary it went into.
Asked(msgs) ==
    \E p \in DOMAIN msgs : /\ msgs[p] = UserMsg
                          /\ \A i \in DOMAIN msgs : i > p =>
                                msgs[i].calls > 0 \/ msgs[i].role = "tool"

\* Every list sent to the provider says what is asked, with nothing but the turns of the run
\* behind it, pairs calls with results, and still holds the most recent turns, as many as
\* compression is told to keep; whatever stored messages the run has started from.
HistoryWellFormed ==
    \A a \in Agent : loop[a].pc \in {"call", "final"} =>
        LET msgs == loop[a].msgs
            due  == IF loop[a].round < KeepTurns THEN loop[a].round ELSE KeepTurns
        IN /\ Asked(msgs)
           /\ Paired(msgs)
           /\ Cardinality(Turns(msgs)) >= due
=============================================================================
