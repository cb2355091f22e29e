----------------------------- MODULE AgentLoop -----------------------------
(***************************************************************************)
(* The agent loop of one session: runAgentLoop on its serial path, with    *)
(* the provider call and its retries, the serial tool calls, compaction,   *)
(* overflow recovery, abort, and a crash with a later resume.              *)
(*                                                                         *)
(* The history leaves out messages[0], the system prompt no step moves.    *)
(* Token counts are not modelled: any compaction boundary, and any of the  *)
(* one-shot system notes that a count triggers, may be chosen.  A save is  *)
(* atomic with the push before it: a crash between the two leaves what a   *)
(* crash before the push leaves.  An I/O error in a save is left out.  One *)
(* kind of await stands for a run of awaits that nothing but an abort or a *)
(* crash can separate.  Escalation to another model is left out, it        *)
(* changes no history and no guard.                                        *)
(***************************************************************************)
EXTENDS Integers, Sequences, FiniteSets

CONSTANTS
    MaxTasks,       \* bound: user prompts submitted, one run each
    MaxTurns,       \* deps.maxTurns
    MaxCalls,       \* bound: tool calls of one assistant message
    MaxRetries,     \* getResponseWithRetry's maxRetries
    MaxOverflow,    \* deps.overflowRecoveryMaxAttempts, clamped to 0..2
    MaxCrashes,     \* bound: process crashes
    MaxNotes,       \* bound: system notes in the history at a time
    Signatures,     \* "name:arguments" of calls with invalid arguments
    None            \* no signature

ASSUME AgentAssumption ==
    /\ {MaxTasks, MaxTurns, MaxCalls, MaxRetries, MaxCrashes, MaxNotes} \subseteq Nat
    /\ MaxOverflow \in 0..2
    /\ None \notin Signatures

VARIABLES
    messages,       \* the session's history after the system prompt
    saved,          \* the history in the session file
    pc,             \* where the loop is
    task,           \* the prompts submitted so far
    turn,           \* the loop's turn
    attempt,        \* failed attempts of the current provider call
    overflows,      \* overflowAttempts
    queue,          \* the calls of the turn still to handle, in order
    issued,         \* ids given to calls so far: each is fresh
    aborted,        \* ctx.signal.aborted
    lastInvalid,    \* state.lastInvalidSignature
    nudged,         \* state.nudged
    reminded,       \* tokenReminded
    crashes,
    \* What an observer remembers; no step of the loop reads these.
    origin,         \* the first task of the session as the file knows it
    unsaved,        \* calls of this run that started and have no saved result
    lateStarts      \* tool bodies started after the abort

history  == <<messages, saved>>
counters == <<turn, attempt, overflows>>
flags    == <<aborted, lastInvalid, nudged, reminded>>
observed == <<unsaved, lateStarts>>
locals   == <<counters, queue, flags, observed>>
session  == <<task, issued, crashes, origin>>
vars     == <<history, pc, locals, session>>

(***************************************************************************)
(* Messages.  "summary" is the user message that compaction writes, "note" *)
(* a system message the loop pushes and "update" a [context-update].       *)
(***************************************************************************)
Message(role, t, calls, id) == [role |-> role, task |-> t, calls |-> calls, id |-> id]
User(t)       == Message("user", t, <<>>, 0)
Summary(t)    == Message("summary", t, <<>>, 0)
Assistant(cs) == Message("assistant", 0, cs, 0)
Result(c)     == Message("tool", 0, <<>>, c)
Note          == Message("note", 0, <<>>, 0)
Update        == Message("update", 0, <<>>, 0)

NoteFits(m) == Cardinality({i \in DOMAIN m : m[i].role \in {"note", "update"}}) < MaxNotes

Elements(s) == {s[i] : i \in DOMAIN s}
Positions(m, roles) == {i \in DOMAIN m : m[i].role \in roles}
First(S) == CHOOSE i \in S : \A j \in S : i <= j
Last(S)  == CHOOSE i \in S : \A j \in S : i >= j

(***************************************************************************)
(* What is sent: sanitizeForProvider keeps the calls that have a result    *)
(* somewhere, and the results of the calls it has kept so far.  A request  *)
(* is the set of positions kept, an assistant message with its KeptCalls.  *)
(***************************************************************************)
Answered(m) == {m[i].id : i \in Positions(m, {"tool"})}
KeptCalls(m, i) == Elements(m[i].calls) \cap Answered(m)

\* Mutated form of Kept: the history is sent as it is.
EverythingKept(m) == DOMAIN m
Kept(m) ==
    {i \in DOMAIN m :
        CASE m[i].role = "assistant" -> m[i].calls = <<>> \/ KeptCalls(m, i) # {}
          [] m[i].role = "tool" -> \E j \in 1 .. i - 1 : m[i].id \in KeptCalls(m, j)
          [] OTHER -> TRUE}

(***************************************************************************)
(* Compaction.  A tail start i keeps m[i] and what follows it; it is moved *)
(* back so that the tail does not start with a tool message.               *)
(***************************************************************************)
SnapBack(m, i) ==
    IF i > Len(m) THEN i ELSE Last({1} \cup {j \in 1 .. i : m[j].role # "tool"})
\* chooseTailMessages
TailStarts(m) == {SnapBack(m, i) : i \in 1 .. Len(m) + 1}

\* A run i..j of at least two assistant messages, each with all its results.
GroupAt(m, p, j) ==
    LET n == Len(m[p].calls)
    IN  /\ n > 0 /\ p + n <= j
        /\ \A k \in p + 1 .. p + n : m[k].role = "tool"
        /\ {m[k].id : k \in p + 1 .. p + n} = Elements(m[p].calls)
IsGroupRun(m, i, j) ==
    LET heads == Positions(m, {"assistant"}) \cap (i .. j)
    IN  /\ Cardinality(heads) >= 2
        /\ \A p \in heads : GroupAt(m, p, j)
        /\ i \in heads
        /\ \A q \in i .. j : q \in heads \/ \E p \in heads : q \in p + 1 .. p + Len(m[p].calls)
\* Trident's collapse before s: such a run becomes one user note.
Collapsed(m, s) ==
    {<<m, s>>} \cup
    {<<SubSeq(m, 1, r[1] - 1) \o <<User(0)>> \o SubSeq(m, r[2] + 1, Len(m)), s - (r[2] - r[1])>> :
        r \in {r \in Positions(m, {"assistant"}) \X (1 .. s - 1) : r[1] < r[2] /\ IsGroupRun(m, r[1], r[2])}}

\* Mutated form of TaskOf: a summary is wrapped again, its task is not read.
TaskOfFirstPrompt(older) ==
    LET users == Positions(older, {"user", "summary"})
    IN  IF users = {} \/ older[First(users)].role = "summary" THEN 0 ELSE older[First(users)].task

\* The task of a summary: the first user message's, or the task inside the
\* summary that stands first.
TaskOf(older) ==
    LET users == Positions(older, {"user", "summary"})
    IN  IF users = {} THEN 0 ELSE older[First(users)].task
Summarized(m, s) ==
    IF s < 3 THEN m ELSE <<Summary(TaskOf(SubSeq(m, 1, s - 1)))>> \o SubSeq(m, s, Len(m))
\* compactIfNeeded: Trident alone, or Trident and then the summary.
Compactions(m) ==
    UNION {{c[1], Summarized(c[1], c[2])} : c \in UNION {Collapsed(m, s) : s \in TailStarts(m)}}
\* The i-th smallest of S.
Nth(S, i) == CHOOSE p \in S : Cardinality({q \in S : q <= p}) = i
\* resetSessionContextEpoch folds the updates into the new system prompt.
FreshEpoch(m) ==
    LET kept == DOMAIN m \ Positions(m, {"update"})
    IN  [i \in 1 .. Cardinality(kept) |-> m[Nth(kept, i)]]

-----------------------------------------------------------------------------
Init ==
    /\ messages = <<>> /\ saved = <<>>
    /\ pc = "idle" /\ task = 0 /\ turn = 0 /\ attempt = 0 /\ overflows = 0
    /\ queue = <<>> /\ issued = 0 /\ crashes = 0
    /\ aborted = FALSE /\ lastInvalid = None /\ nudged = FALSE /\ reminded = FALSE
    /\ origin = 0 /\ unsaved = {} /\ lateStarts = 0

\* The run returns or throws: its variables and its signal are gone.
Ends ==
    /\ pc' = "idle" /\ turn' = 0 /\ attempt' = 0 /\ overflows' = 0 /\ queue' = <<>>
    /\ aborted' = FALSE /\ lastInvalid' = None /\ nudged' = FALSE /\ reminded' = FALSE
    /\ unsaved' = {} /\ lateStarts' = 0

\* The prompt is pushed and runTask starts a run.
Submit ==
    /\ pc = "idle" /\ task < MaxTasks
    /\ pc' = "turn" /\ task' = task + 1
    /\ messages' = Append(messages, User(task + 1))
    /\ origin' = IF messages = <<>> THEN task + 1 ELSE origin
    /\ UNCHANGED <<saved, locals, issued, crashes>>

\* Aborted between turns, or maxTurns reached.
StopsAtTurn ==
    /\ pc = "turn" /\ (aborted \/ turn = MaxTurns)
    /\ Ends
    /\ UNCHANGED <<history, session>>

\* The projection: history is compacted or a [context-update] appended, and
\* either is saved before the provider is called.
Project ==
    /\ pc = "turn" /\ ~aborted /\ turn < MaxTurns
    /\ \/ UNCHANGED history
       \/ \E m \in Compactions(messages) \ {messages} :
            messages' = FreshEpoch(m) /\ saved' = messages'
       \/ /\ NoteFits(messages)
          /\ messages' = Append(messages, Update) /\ saved' = messages'
    /\ pc' = "stream"
    /\ UNCHANGED <<locals, session>>

(***************************************************************************)
(* The provider call.  pc is "stream" while the stream is consumed, "chat" *)
(* during the non-streaming fallback and "sleep" during a backoff.         *)
(***************************************************************************)
\* The response is complete: the reminder (once), then the assistant message.
Responds(cs, reminds) ==
    /\ pc \in {"stream", "chat"}
    /\ reminds => ~reminded /\ NoteFits(messages)
    /\ messages' = messages \o (IF reminds THEN <<Note>> ELSE <<>>) \o <<Assistant(cs)>>
    /\ saved' = messages'
    /\ issued' = issued + Len(cs)
    /\ IF cs = <<>>
       THEN Ends
       ELSE /\ pc' = "calls" /\ queue' = cs /\ attempt' = 0 /\ overflows' = 0
            /\ reminded' = (reminded \/ reminds)
            /\ UNCHANGED <<turn, aborted, lastInvalid, nudged, observed>>
    /\ UNCHANGED <<task, crashes, origin>>
Response ==
    \E n \in 0 .. MaxCalls, reminds \in BOOLEAN : Responds([i \in 1 .. n |-> issued + i], reminds)

\* The stream failed before any content: the same request goes to chat().
FallsBack ==
    /\ pc = "stream" /\ ~aborted
    /\ pc' = "chat"
    /\ UNCHANGED <<history, locals, session>>

\* Mutated form of AttemptsLeft: one attempt too many.
OneMoreAttempt == attempt <= MaxRetries
AttemptsLeft == attempt < MaxRetries

\* Mutated form of Transient: the attempt is not counted.
TransientForever ==
    /\ pc = "chat" /\ ~aborted /\ AttemptsLeft
    /\ pc' = "sleep"
    /\ UNCHANGED <<history, locals, session>>
\* A rate limit or an unclassified error, with attempts left, is retried.
Transient ==
    /\ pc = "chat" /\ ~aborted /\ AttemptsLeft
    /\ pc' = "sleep" /\ attempt' = attempt + 1
    /\ UNCHANGED <<history, turn, overflows, queue, flags, observed, session>>
Wakes ==
    /\ pc = "sleep"
    /\ IF aborted THEN Ends ELSE pc' = "stream" /\ UNCHANGED locals
    /\ UNCHANGED <<history, session>>

\* The call fails for good: a stream that fails after content, a chat() with no
\* attempt left or an error that is not retried, or an abort.
Fails == pc \in {"stream", "chat"}

\* Any error, a retry too many or an abort: the run throws.
Throws ==
    /\ Fails /\ Ends
    /\ UNCHANGED <<history, session>>

\* The error says that the prompt is too long: an aggressive compaction is
\* forced, and when it shortens the history the call is made again.  The
\* projection that is rebuilt may compact again, which the choice of a later
\* tail covers.
Overflow ==
    /\ overflows < MaxOverflow
    /\ Fails
    /\ \E m \in Compactions(messages) :
         \/ /\ m # messages
            /\ messages' = FreshEpoch(m) /\ saved' = messages'
            /\ pc' = "stream" /\ overflows' = overflows + 1 /\ attempt' = 0
            /\ UNCHANGED <<turn, queue, flags, observed>>
         \/ messages' = m /\ UNCHANGED saved /\ Ends
    /\ UNCHANGED session

(***************************************************************************)
(* The serial tool calls.  pc is "calls" between two of them, "gate" while *)
(* the user and the hook decide and the write root is provisioned, "body"  *)
(* while the tool runs.                                                    *)
(***************************************************************************)
Call == Head(queue)

\* Aborted between two calls, or the same invalid call again.
StopsAtCall ==
    /\ pc = "calls" /\ queue # <<>>
    /\ aborted \/ lastInvalid # None
    /\ Ends
    /\ UNCHANGED <<history, session>>

\* tool.build throws what is not about its arguments, or the prompt for the
\* user's approval fails: the run throws.
AuthorizeThrows ==
    /\ pc \in {"calls", "gate"} /\ queue # <<>> /\ (pc = "calls" => ~aborted)
    /\ Ends
    /\ UNCHANGED <<history, session>>

\* The turn's calls are handled.
TurnEnds ==
    /\ pc = "calls" /\ queue = <<>>
    /\ pc' = "turn" /\ turn' = turn + 1
    /\ UNCHANGED <<history, attempt, overflows, queue, flags, observed, session>>

\* Mutated form of Records: the history is saved at the end of the turn only.
RecordsAndSavesLate(c, extra) ==
    /\ messages' = messages \o <<Result(c)>> \o extra
    /\ saved' = IF Len(queue) = 1 THEN messages' ELSE saved
    /\ unsaved' = IF Len(queue) = 1 THEN {} ELSE unsaved
    /\ queue' = Tail(queue)
    /\ pc' = "calls"

\* A result is pushed, in call order, and saved.
Records(c, extra) ==
    /\ messages' = messages \o <<Result(c)>> \o extra
    /\ saved' = messages'
    /\ unsaved' = unsaved \ {c}
    /\ queue' = Tail(queue)
    /\ pc' = "calls"
\* Mutated form of RecordsBlocked: the loop goes on without a result.
SkipsBlocked(c) ==
    /\ queue' = Tail(queue) /\ pc' = "calls"
    /\ UNCHANGED <<messages, saved, unsaved>>

\* recordBlocked.
RecordsBlocked(c) == Records(c, <<>>)
\* An unknown or deferred tool, or arguments invalid in a new way.
Unbuildable ==
    /\ pc = "calls" /\ queue # <<>> /\ ~aborted
    /\ lastInvalid' \in {lastInvalid} \cup (Signatures \ {lastInvalid})
    /\ RecordsBlocked(Call)
    /\ UNCHANGED <<counters, aborted, nudged, reminded, lateStarts, session>>

\* Mutated form of Built: the abort is not read between two calls.
BuiltUnlessDone ==
    /\ pc = "calls" /\ queue # <<>>
    /\ lastInvalid' = None
    /\ \/ pc' = "gate" /\ UNCHANGED <<history, queue, unsaved>>
       \/ RecordsBlocked(Call)
    /\ UNCHANGED <<counters, aborted, nudged, reminded, lateStarts, session>>

\* The call is built; the policy denies it or passes it on.
Built ==
    /\ pc = "calls" /\ queue # <<>> /\ ~aborted
    /\ lastInvalid' = None
    /\ \/ pc' = "gate" /\ UNCHANGED <<history, queue, unsaved>>
       \/ RecordsBlocked(Call)
    /\ UNCHANGED <<counters, aborted, nudged, reminded, lateStarts, session>>
\* Rejected by the user, denied by the hook, or no writable root.
GateCloses ==
    /\ pc = "gate"
    /\ RecordsBlocked(Call)
    /\ UNCHANGED <<counters, flags, lateStarts, session>>
GateOpens ==
    /\ pc = "gate"
    /\ pc' = "body"
    /\ unsaved' = unsaved \cup {Call}
    /\ lateStarts' = IF aborted THEN lateStarts + 1 ELSE lateStarts
    /\ UNCHANGED <<history, counters, queue, flags, session>>

\* recordRanResult, with the read-budget nudge once.
BodyReturns(nudges) ==
    /\ pc = "body"
    /\ nudges => ~nudged /\ NoteFits(messages)
    /\ Records(Call, IF nudges THEN <<Note>> ELSE <<>>)
    /\ nudged' = (nudged \/ nudges)
    /\ UNCHANGED <<counters, aborted, lastInvalid, reminded, lateStarts, session>>
\* The tool throws on an abort, its own or the run's: no result.
BodyAborts ==
    /\ pc = "body"
    /\ Ends
    /\ UNCHANGED <<history, session>>

-----------------------------------------------------------------------------
Abort ==
    /\ pc # "idle" /\ ~aborted
    /\ aborted' = TRUE
    /\ UNCHANGED <<history, pc, counters, queue, lastInvalid, nudged, reminded, observed, session>>

\* The process dies; the session is resumed from its file.
CrashAndResume ==
    /\ crashes < MaxCrashes
    /\ crashes' = crashes + 1
    /\ messages' = saved
    /\ Ends
    /\ UNCHANGED <<saved, task, issued, origin>>

\* Nobody submits anything any more.
Waiting == pc = "idle" /\ task = MaxTasks /\ UNCHANGED vars

Loop ==
    \/ StopsAtTurn \/ Project
    \/ Response \/ FallsBack \/ Transient \/ Wakes \/ Throws \/ Overflow
    \/ StopsAtCall \/ AuthorizeThrows \/ TurnEnds \/ Unbuildable \/ Built \/ GateCloses \/ GateOpens
    \/ \E nudges \in BOOLEAN : BodyReturns(nudges)
    \/ BodyAborts

Next == Submit \/ Loop \/ Abort \/ CrashAndResume \/ Waiting

\* Every await of a run ends: the provider answers or fails, the user decides,
\* tools return, and the event loop then runs what follows.
Fairness == WF_vars(Loop)
Spec == Init /\ [][Next]_vars /\ Fairness

-----------------------------------------------------------------------------
\* The loop's counters stay within the bounds of runAgentLoop and
\* getResponseWithRetry, and the history is made of the loop's messages.
TypeOK ==
    /\ \A m \in {messages, saved} : \A i \in DOMAIN m :
         /\ m[i].role \in {"user", "summary", "assistant", "tool", "note", "update"}
         /\ m[i].task \in 0 .. task
         /\ Elements(m[i].calls) \cup {m[i].id} \subseteq 0 .. issued
    /\ pc \in {"idle", "turn", "stream", "chat", "sleep", "calls", "gate", "body"}
    /\ task \in 0 .. MaxTasks /\ turn \in 0 .. MaxTurns
    /\ attempt \in 0 .. MaxRetries /\ overflows \in 0 .. MaxOverflow
    /\ Len(queue) <= MaxCalls /\ Elements(queue) \subseteq 1 .. issued
    /\ {aborted, nudged, reminded} \subseteq BOOLEAN
    /\ lastInvalid \in Signatures \cup {None}
    /\ crashes \in 0 .. MaxCrashes /\ origin \in 0 .. task
    /\ unsaved \subseteq 1 .. issued /\ lateStarts \in Nat

\* sanitizeForProvider's promise: in every request each tool result follows
\* the assistant message that called for it, and each call has exactly one
\* result, after it.  History itself breaks this after an abort, a stopped
\* run, a crash and a compaction boundary inside a group of results.
PairedRequest ==
    pc \in {"stream", "chat"} =>
        LET sent    == Kept(messages)
            results == sent \cap Positions(messages, {"tool"})
        IN  /\ \A i \in results :
                 \E j \in sent : j < i /\ messages[i].id \in KeptCalls(messages, j)
            /\ \A j \in sent : \A c \in KeptCalls(messages, j) :
                 \E i \in results :
                    /\ j < i /\ messages[i].id = c
                    /\ \A k \in results : messages[k].id = c => k = i

\* The model is never asked to go on in a run while a call of the turn before
\* has no result: a call that is unknown, denied, rejected, vetoed by a hook or
\* left without a writable root is answered like one that ran.
EveryCallAnswered ==
    pc = "turn" /\ turn > 0 =>
        LET asked == Positions(messages, {"assistant"})
        IN  asked # {} /\ Elements(messages[Last(asked)].calls) \subseteq Answered(messages)

\* What a crash can lose of the tools that acted: at any time at most one call
\* has started whose result is not yet in the session file.
CrashLosesOneResult == Cardinality(unsaved) <= 1

\* After Ctrl-C at most one more tool starts, the one that was being approved.
AbortStopsTools == lateStarts <= 1

\* Through repeated compactions, overflow recoveries and resumes the history
\* still opens with the session's first task: summaries of summaries carry it.
OriginalTaskKept ==
    LET users == Positions(messages, {"user", "summary"})
    IN  users # {} => messages[First(users)].task = origin

\* Every run ends: retries, recoveries, turns and calls are all bounded.
RunEnds == pc # "idle" ~> pc = "idle"

\* What the history in memory and the session file hold in every state: every
\* call answered, the original task, and all but one result of a crash; and that
\* what is sent of it is well formed.
HistorySound ==
    /\ TypeOK
    /\ PairedRequest
    /\ EveryCallAnswered
    /\ CrashLosesOneResult
    /\ OriginalTaskKept

\* That, and no tool after the one an abort found waiting for approval.
LoopSound == HistorySound /\ AbortStopsTools
=============================================================================
