------------------------- MODULE StreamingExecutor -------------------------
(***************************************************************************)
(* One assistant turn on the streaming tool path: the provider stream      *)
(* (agent/streamingConsume.ts) feeds complete tool calls to the executor   *)
(* (agent/streamingToolExecutor.ts), whose pump authorizes them in order   *)
(* and runs them in a read or an exclusive lane through the per-turn       *)
(* ToolCallProcessor (agent/toolExecution.ts); runStreamingToolTurn        *)
(* (agent/agentLoop.ts) then records the results into the history.         *)
(*                                                                         *)
(* Node runs one callback at a time, so a step of the model is the code    *)
(* between two awaits, and the interleavings are those of the awaits.      *)
(***************************************************************************)
EXTENDS Naturals, Sequences, FiniteSets

CONSTANTS
    MaxCalls,                     \* tool calls one assistant message can carry
    ReadConcurrency,              \* permits of the read semaphore
    AbortSiblingExecuteOnError    \* the executor option; the loop leaves it TRUE

ASSUME ExecutorAssumption ==
    /\ MaxCalls \in Nat
    /\ ReadConcurrency \in Nat \ {0}
    /\ AbortSiblingExecuteOnError \in BOOLEAN

VARIABLES
    turn,           \* where runStreamingToolTurn is
    entries,        \* entries.length: calls accepted so far
    finished,       \* assistantFinished
    hadContent,     \* the stream already delivered text or a call
    pump,           \* where runPump is, and the index it works on
    permits,        \* free permits of readSem
    kind,           \* kind[i]: the invocation's kind once call i is authorized
    body,           \* body[i]: how far execAndRecord of call i is
    outcome,        \* outcome[i]: what call i came to
    drainSet,       \* the reads drainReads took its snapshot of
    childAborted,   \* child.signal.aborted
    userAborted,    \* ctx.signal.aborted
    stopRequested,  \* a repeated invalid call asked the run to stop
    history         \* the tool messages pushed for this turn

consumerVars == <<turn, entries, finished, hadContent>>
bodyVars     == <<kind, body, outcome, drainSet>>
abortVars    == <<childAborted, userAborted>>
vars == <<turn, entries, finished, hadContent, pump, permits, kind, body,
          outcome, drainSet, childAborted, userAborted, stopRequested, history>>

Calls == 1 .. MaxCalls

\* "execute" tools take the same branch as "mutate" tools in all of this code;
\* "session" stands for enter_worktree and exit_worktree, which change the tree.
Kinds == {"read-only", "session", "mutate"}

\* laneFor: session tools share the read lane.
LaneFor(k) == IF k \in {"read-only", "session"} THEN "read" ELSE "exclusive"

Reads == {i \in Calls : kind[i] \in Kinds /\ LaneFor(kind[i]) = "read"}
Exclusives == {i \in Calls : kind[i] \in Kinds /\ LaneFor(kind[i]) = "exclusive"}

Running == {i \in Calls : body[i] = "running"}

\* The processor's inFlightReads set: entered and left inside executeForExecutor.
InFlightReads == Running \cap Reads

\* Mutated form of ReadsToDrain: the exclusive call waits for nothing.
NothingToDrain == {}

\* What drainReads awaits: a snapshot of the reads in flight.
ReadsToDrain == InFlightReads

\* resultsByIndex[i] is set.
Recorded == {i \in Calls : body[i] \in {"recorded", "settled"}}

\* Mutated form of IsExecuteError: only a tool's own error counts.
IsToolError(o) == o = "error"

\* Everything but a plain result carries isError.
IsExecuteError(o) == o # "ok"

TurnOver == {"returned", "failed", "next"}

Init ==
    /\ turn = "streaming"
    /\ entries = 0
    /\ finished = FALSE
    /\ hadContent = FALSE
    /\ pump = [pc |-> "waiting", i |-> 1]
    /\ permits = ReadConcurrency
    /\ kind = [i \in Calls |-> "unknown"]
    /\ body = [i \in Calls |-> "idle"]
    /\ outcome = [i \in Calls |-> "none"]
    /\ drainSet = {}
    /\ childAborted = FALSE
    /\ userAborted = FALSE
    /\ stopRequested = FALSE
    /\ history = <<>>

-----------------------------------------------------------------------------
(* The provider stream, read by consumeStreamWithToolExecution.            *)

TextDelta ==
    /\ turn = "streaming"
    /\ hadContent' = TRUE
    /\ UNCHANGED <<turn, entries, finished, pump, permits, bodyVars, abortVars,
                   stopRequested, history>>

\* A complete call arrives and is accepted at once, before the stream is over.
ToolCallComplete ==
    /\ turn = "streaming"
    /\ entries < MaxCalls
    /\ entries' = entries + 1
    /\ hadContent' = TRUE
    /\ UNCHANGED <<turn, finished, pump, permits, bodyVars, abortVars,
                   stopRequested, history>>

\* The stream ends well: the assistant message is pushed; with calls the loop
\* goes on to record their results, without it has its answer.
StreamDone ==
    /\ turn = "streaming"
    /\ finished' = TRUE
    /\ turn' = IF entries = 0 THEN "returned" ELSE "recording"
    /\ UNCHANGED <<entries, hadContent, pump, permits, bodyVars, abortVars,
                   stopRequested, history>>

\* The stream breaks. A user abort ends the turn; a failure after content
\* aborts the executor and throws; before content the loop asks again.
StreamFails ==
    /\ turn = "streaming"
    /\ finished' = TRUE
    /\ turn' = IF userAborted THEN "returned"
               ELSE IF hadContent THEN "failed" ELSE "fallback"
    /\ childAborted' = (childAborted \/ (~userAborted /\ hadContent))
    /\ UNCHANGED <<entries, hadContent, pump, permits, bodyVars, userAborted,
                   stopRequested, history>>

\* provider.chat answers: a fresh executor takes all n calls and is finished.
ChatResolves(n) ==
    /\ turn = "fallback"
    /\ entries' = n
    /\ finished' = TRUE
    /\ pump' = [pc |-> "waiting", i |-> 1]
    /\ permits' = ReadConcurrency
    /\ childAborted' = userAborted
    /\ turn' = IF n = 0 THEN "returned" ELSE "recording"
    /\ UNCHANGED <<hadContent, bodyVars, userAborted, stopRequested, history>>

ChatThrows ==
    /\ turn = "fallback"
    /\ turn' = "failed"
    /\ UNCHANGED <<entries, finished, hadContent, pump, permits, bodyVars,
                   abortVars, stopRequested, history>>

-----------------------------------------------------------------------------
(* runPump: one call at a time, in index order.                            *)

NextIndex == [pc |-> "waiting", i |-> pump.i + 1]

PumpEnds ==
    /\ pump.pc = "waiting"
    /\ entries < pump.i
    /\ finished
    /\ pump' = [pump EXCEPT !.pc = "ended"]
    /\ UNCHANGED <<consumerVars, permits, bodyVars, abortVars, stopRequested, history>>

\* record(): the first write of an index stands, later ones are dropped.
Record(i, o, b) ==
    /\ body' = [body EXCEPT ![i] = b]
    /\ outcome' = [outcome EXCEPT ![i] = IF i \in Recorded THEN @ ELSE o]

\* resolveDecision starts: an aborted executor records the call as blocked,
\* otherwise authorize is awaited.
TakeEntry ==
    /\ pump.pc = "waiting"
    /\ pump.i <= entries
    /\ IF childAborted
       THEN /\ Record(pump.i, "blocked", "settled")
            /\ pump' = NextIndex
       ELSE /\ pump' = [pump EXCEPT !.pc = "authorizing"]
            /\ UNCHANGED <<body, outcome>>
    /\ UNCHANGED <<consumerVars, permits, kind, drainSet, abortVars,
                   stopRequested, history>>

\* authorize answers no (denied, rejected, invalid, unknown), asks the run to
\* stop, or throws; the call is recorded as blocked and never executes.
AuthorizeBlocks(stop) ==
    /\ pump.pc = "authorizing"
    /\ Record(pump.i, "blocked", "settled")
    /\ stopRequested' = (stopRequested \/ stop)
    /\ pump' = NextIndex
    /\ UNCHANGED <<consumerVars, permits, kind, drainSet, abortVars, history>>

\* authorize lets a read through and the pump asks readSem for a permit.
AuthorizeRead(k) ==
    /\ pump.pc = "authorizing"
    /\ LaneFor(k) = "read"
    /\ kind' = [kind EXCEPT ![pump.i] = k]
    /\ IF permits > 0
       THEN permits' = permits - 1 /\ pump' = [pump EXCEPT !.pc = "granted"]
       ELSE pump' = [pump EXCEPT !.pc = "queued"] /\ UNCHANGED permits
    /\ UNCHANGED <<consumerVars, body, outcome, drainSet, abortVars,
                   stopRequested, history>>

\* authorize lets an exclusive call through: execAndRecord starts at once, and
\* executeForExecutor first awaits the reads that are in flight.
AuthorizeExclusive(k) ==
    /\ pump.pc = "authorizing"
    /\ LaneFor(k) = "exclusive"
    /\ kind' = [kind EXCEPT ![pump.i] = k]
    /\ IF childAborted
       THEN /\ Record(pump.i, "blocked", "settled")
            /\ pump' = NextIndex
            /\ UNCHANGED drainSet
       ELSE /\ body' = [body EXCEPT ![pump.i] = "draining"]
            /\ drainSet' = ReadsToDrain
            /\ pump' = [pump EXCEPT !.pc = "exclusive"]
            /\ UNCHANGED outcome
    /\ UNCHANGED <<consumerVars, permits, abortVars, stopRequested, history>>

\* Mutated form of LaunchRead: the return after the abort check is missing.
LaunchReadWithoutReturn ==
    /\ pump.pc = "granted"
    /\ body' = [body EXCEPT ![pump.i] = "running"]
    /\ outcome' = [outcome EXCEPT ![pump.i] = IF childAborted THEN "blocked" ELSE @]
    /\ pump' = NextIndex
    /\ UNCHANGED <<consumerVars, permits, kind, drainSet, abortVars,
                   stopRequested, history>>

\* The permit is there: the read is launched in the background and the pump
\* moves on; an aborted executor records it as blocked, still holding it.
LaunchRead ==
    /\ pump.pc = "granted"
    /\ IF childAborted
       THEN Record(pump.i, "blocked", "recorded")
       ELSE /\ body' = [body EXCEPT ![pump.i] = "running"]
            /\ UNCHANGED outcome
    /\ pump' = NextIndex
    /\ UNCHANGED <<consumerVars, permits, kind, drainSet, abortVars,
                   stopRequested, history>>

-----------------------------------------------------------------------------
(* The calls: executeForExecutor, then the rest of execAndRecord.          *)

\* Every read of the snapshot has settled: the exclusive call gets its
\* writable root and its invocation runs. Nothing looks at an abort again.
DrainedAndRun(i) ==
    /\ body[i] = "draining"
    /\ drainSet \cap InFlightReads = {}
    /\ body' = [body EXCEPT ![i] = "running"]
    /\ UNCHANGED <<consumerVars, pump, permits, kind, outcome, drainSet, abortVars,
                   stopRequested, history>>

\* ensureWritableRoot throws: a synthetic error, the invocation never runs.
DrainedButUnwritable(i) ==
    /\ body[i] = "draining"
    /\ drainSet \cap InFlightReads = {}
    /\ body' = [body EXCEPT ![i] = "returned"]
    /\ outcome' = [outcome EXCEPT ![i] = "unwritable"]
    /\ UNCHANGED <<consumerVars, pump, permits, kind, drainSet, abortVars,
                   stopRequested, history>>

\* The invocation settles; an abort result needs the user's abort.
BodyReturns(i, o) ==
    /\ body[i] = "running"
    /\ o = "aborted" => userAborted
    /\ body' = [body EXCEPT ![i] = "returned"]
    /\ outcome' = [outcome EXCEPT ![i] = o]
    /\ UNCHANGED <<consumerVars, pump, permits, kind, drainSet, abortVars,
                   stopRequested, history>>

\* execAndRecord goes on with a read's result and records it.
RecordRead(i) ==
    /\ body[i] = "returned"
    /\ i \in Reads
    /\ body' = [body EXCEPT ![i] = "recorded"]
    /\ UNCHANGED <<consumerVars, pump, permits, kind, outcome, drainSet, abortVars,
                   stopRequested, history>>

\* Mutated forms of ReleasePermit: the permit is handed over and freed as
\* well; the permit is freed and the queued pump is not woken.
ReleasePermitTwice ==
    /\ permits' = permits + 1
    /\ pump' = IF pump.pc = "queued" THEN [pump EXCEPT !.pc = "granted"] ELSE pump

ReleasePermitSilently == permits' = permits + 1 /\ UNCHANGED pump

\* release(): the permit goes straight to the pump if it is queued for one, and
\* back to the semaphore otherwise.
ReleasePermit ==
    IF pump.pc = "queued"
    THEN pump' = [pump EXCEPT !.pc = "granted"] /\ UNCHANGED permits
    ELSE permits' = permits + 1 /\ UNCHANGED pump

\* The finally of a launched read gives its permit back.
ReleaseRead(i) ==
    /\ body[i] = "recorded"
    /\ body' = [body EXCEPT ![i] = "settled"]
    /\ ReleasePermit
    /\ UNCHANGED <<consumerVars, kind, outcome, drainSet, abortVars, stopRequested, history>>

\* execAndRecord goes on with an exclusive result: an error aborts the
\* siblings, the result is recorded, and the pump passes the barrier.
RecordExclusive(i) ==
    /\ body[i] = "returned"
    /\ i \in Exclusives
    /\ childAborted' = (childAborted \/
                        (AbortSiblingExecuteOnError /\ IsExecuteError(outcome[i])))
    /\ body' = [body EXCEPT ![i] = "settled"]
    /\ pump' = NextIndex
    /\ UNCHANGED <<consumerVars, permits, kind, outcome, drainSet, userAborted,
                   stopRequested, history>>

-----------------------------------------------------------------------------
(* The recorder at the end of runStreamingToolTurn, and the user.          *)

\* updates() yields the next index once it is there; an aborted run drops it.
RecordUpdate ==
    LET i == Len(history) + 1 IN
    /\ turn = "recording"
    /\ i \in Recorded
    /\ IF userAborted
       THEN turn' = "returned" /\ UNCHANGED history
       ELSE history' = Append(history, [index |-> i, outcome |-> outcome[i]]) /\ UNCHANGED turn
    /\ UNCHANGED <<entries, finished, hadContent, pump, permits, bodyVars,
                   abortVars, stopRequested>>

\* Mutated form of UpdatesExhausted: the last result is not waited for.
UpdatesNearlyExhausted == finished /\ Len(history) + 1 >= entries

\* updates() returns: no more calls can come and all results were yielded.
UpdatesExhausted == finished /\ Len(history) >= entries

\* The recorder is through: stop on an abort or a requested stop, else go on.
TurnEnds ==
    /\ turn = "recording"
    /\ UpdatesExhausted
    /\ turn' = IF userAborted \/ stopRequested THEN "returned" ELSE "next"
    /\ UNCHANGED <<entries, finished, hadContent, pump, permits, bodyVars,
                   abortVars, stopRequested, history>>

\* Ctrl-C, at any time: the signal reaches the executor's child at once.
UserAbort ==
    /\ ~userAborted
    /\ turn \notin TurnOver
    /\ userAborted' = TRUE
    /\ childAborted' = TRUE
    /\ UNCHANGED <<consumerVars, pump, permits, bodyVars, stopRequested, history>>

\* Nothing is left to do once the turn is over and its calls have settled.
Idle ==
    /\ turn \in TurnOver
    /\ pump.pc = "ended"
    /\ \A i \in Calls : body[i] \in {"idle", "settled"}
    /\ UNCHANGED vars

Stream == \/ TextDelta \/ ToolCallComplete \/ StreamDone \/ StreamFails
          \/ (\E n \in 0 .. MaxCalls : ChatResolves(n)) \/ ChatThrows

Pump == \/ PumpEnds \/ TakeEntry
        \/ \E stop \in BOOLEAN : AuthorizeBlocks(stop)
        \/ \E k \in Kinds : AuthorizeRead(k) \/ AuthorizeExclusive(k)
        \/ LaunchRead

Execution(i) ==
    \/ DrainedAndRun(i) \/ DrainedButUnwritable(i)
    \/ \E o \in {"ok", "error", "aborted"} : BodyReturns(i, o)
    \/ RecordRead(i) \/ ReleaseRead(i) \/ RecordExclusive(i)

Recorder == RecordUpdate \/ TurnEnds

Next == \/ Stream \/ Pump \/ Recorder \/ UserAbort \/ Idle
        \/ \E i \in Calls : Execution(i)

Spec == Init /\ [][Next]_vars

\* The stream ends or breaks, an approval is answered, a tool settles, and
\* the event loop runs every callback that is ready.
StreamEnds == StreamDone \/ StreamFails \/ ChatThrows
                \/ \E n \in 0 .. MaxCalls : ChatResolves(n)

Fairness ==
    /\ WF_vars(StreamEnds)
    /\ WF_vars(Pump)
    /\ WF_vars(Recorder)
    /\ \A i \in Calls : WF_vars(Execution(i))

LiveSpec == Spec /\ Fairness

-----------------------------------------------------------------------------
(* Properties.                                                             *)

PumpStates == {"waiting", "authorizing", "queued", "granted", "exclusive", "ended"}
Outcomes == {"none", "blocked", "ok", "error", "aborted", "unwritable"}

\* The types of the turn's state; free permits never exceed the semaphore's.
TypeOK ==
    /\ turn \in {"streaming", "fallback", "recording"} \cup TurnOver
    /\ entries \in 0 .. MaxCalls
    /\ finished \in BOOLEAN
    /\ hadContent \in BOOLEAN
    /\ pump \in [pc : PumpStates, i : 1 .. (MaxCalls + 1)]
    /\ permits \in 0 .. ReadConcurrency
    /\ kind \in [Calls -> Kinds \cup {"unknown"}]
    /\ body \in [Calls -> {"idle", "draining", "running", "returned", "recorded", "settled"}]
    /\ outcome \in [Calls -> Outcomes]
    /\ drainSet \subseteq Calls
    /\ childAborted \in BOOLEAN
    /\ userAborted \in BOOLEAN
    /\ stopRequested \in BOOLEAN
    /\ history \in Seq([index : Calls, outcome : Outcomes \ {"none"}])
    /\ Len(history) <= MaxCalls

\* A mutating or executing call never runs while any other call runs: the
\* drain of the reads in flight and the pump's barrier work together.
ExclusiveAlone ==
    \A i \in Running \cap Exclusives : Running = {i}

\* The calls that hold a permit of readSem, the one the pump was just granted
\* included.
Holding ==
    {i \in Reads : body[i] \in {"running", "returned", "recorded"}}
        \cup (IF pump.pc = "granted" THEN {pump.i} ELSE {})

\* No permit is lost or made: free ones and held ones add up, and the pump
\* only queues when none is free.
PermitsConserved ==
    /\ permits + Cardinality(Holding) = ReadConcurrency
    /\ pump.pc = "queued" => permits = 0

\* Once an exclusive call came to an error, no later call of the message runs:
\* the abort is set before the pump passes the barrier.
FailureStopsLater ==
    AbortSiblingExecuteOnError =>
        \A i \in Exclusives : \A j \in Calls :
            (body[i] = "settled" /\ outcome[i] \in {"error", "aborted", "unwritable"} /\ i < j)
                => body[j] \in {"idle", "recorded", "settled"} /\ outcome[j] \in {"none", "blocked"}

\* A call that is reported as blocked never ran, and a call that ran is never
\* reported as blocked: what the model is told agrees with the effects.
BlockedNeverRan ==
    [][\A i \in Calls :
         /\ (body[i] = "running" => outcome'[i] # "blocked")
         /\ (outcome[i] = "blocked" => body'[i] # "running")]_vars

\* The next model call is made only when every call of this message is over,
\* with one result each, in call order, as it was recorded.
NextTurnQuiet ==
    turn = "next" =>
        /\ Running = {}
        /\ ~stopRequested
        /\ history = [i \in 1 .. entries |-> [index |-> i, outcome |-> outcome[i]]]
        /\ \A i \in 1 .. entries : i \in Recorded

\* Every accepted call gets a result, whatever fails or is aborted.
EveryCallSettles ==
    \A i \in Calls : (i <= entries) ~> (i \in Recorded)

\* The turn ends and leaves nothing running behind for good.
TurnTerminates == <>[](turn \in TurnOver /\ pump.pc = "ended" /\ Running = {})

\* The abstract schedule this turn implements.
SchedulePhase ==
    [i \in Calls |->
        CASE body[i] = "running" -> "running"
          [] body[i] \in {"returned", "recorded", "settled"} -> "settled"
          [] body[i] \in {"idle", "draining"} -> IF i <= entries THEN "pending" ELSE "absent"]

StartedExclusives ==
    {i \in Exclusives : body[i] \notin {"idle", "draining"}
                            /\ outcome[i] \notin {"blocked", "unwritable"}}

Schedule == INSTANCE ToolSchedule WITH
    phase <- SchedulePhase, exclusive <- StartedExclusives, emitted <- Len(history)

\* The executor implements the schedule its comments promise.
ImplementsSchedule == Schedule!SSpec

\* What every state of a streamed turn satisfies, whatever the order in which
\* the stream, the pump, the tools and the abort take their steps.
TurnSound ==
    /\ TypeOK
    /\ ExclusiveAlone
    /\ PermitsConserved
    /\ FailureStopsLater
    /\ NextTurnQuiet

\* What a turn reaches under the fairness of the event loop: a result for every
\* accepted call, and an end with nothing running.
TurnSettles == EveryCallSettles /\ TurnTerminates
=============================================================================
