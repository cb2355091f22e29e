---------------------------- MODULE StdioServer ----------------------------
(***************************************************************************)
(* The persistent server (deepcoder --serve): request lines on stdin, the  *)
(* JSON-RPC server, the SDK client's event stream, the queue between the   *)
(* agent loop and that stream, and the one session all requests share.     *)
(*                                                                         *)
(* A line is its number.  Each data event of stdin starts a push that      *)
(* handles its complete lines one after the other, and nothing awaits the  *)
(* push: the lines of the next data event are handled beside it.  A        *)
(* partial line only waits for its end and is left out, save the one end() *)
(* flushes.  An agent loop is the messages it appends and the events it    *)
(* emits; its own steps are in AgentLoop.                                  *)
(***************************************************************************)
EXTENDS Integers, Sequences, SequencesExt

CONSTANTS
    MaxLines,       \* bound: request lines
    MaxRounds       \* bound: tool rounds of one agent loop

Lines == 1 .. MaxLines

VARIABLES
    method,         \* line -> "runTask", "health", or "other" (unknown or not JSON)
    sent,           \* lines read so far
    eof,            \* stdin has ended
    pushes,         \* the pushes in progress: [next, last] lines
    run,            \* line -> state of its streamTask
    loop,           \* line -> state of its agent loop
    events,         \* line -> the EventQueue's items
    lastMessage,    \* the end of session.messages, which only grow here
    out,            \* line -> the messages written for it; stdout merges them
    rounds,         \* line -> tool rounds made
    emitted         \* observer, line -> events its run has emitted

vars == <<method, sent, eof, pushes, run, loop, events, lastMessage, out, rounds, emitted>>

Event(n, what) == [line |-> n, what |-> what]
Writes(n, what) == out' = [out EXCEPT ![n] = Append(@, what)]
Final           == {"result", "error"}
Answered(n)     == Final \cap Range(out[n]) # {}

TypeOK ==
    /\ method \in [Lines -> {"runTask", "health", "other"}]
    /\ sent \in 0 .. MaxLines /\ eof \in BOOLEAN
    /\ run \in [Lines -> {"no", "stream", "drained", "failed", "done"}]
    /\ loop \in [Lines -> {"no", "model", "tools", "ended", "threw"}]
    /\ \A p \in pushes : p.next \in Lines /\ p.last \in Lines /\ p.next <= p.last /\ p.last <= sent
    \* a line is handled by one push, and a stream has a loop behind it
    /\ \A p, q \in pushes : p # q => p.last < q.next \/ q.last < p.next
    /\ \A n \in Lines : loop[n] \in {"model", "tools"} => run[n] = "stream"
    /\ \A n \in Lines : run[n] \notin {"no", "done"} => \E p \in pushes : p.next = n

Init ==
    /\ method \in [Lines -> {"runTask", "health", "other"}]
    /\ sent = 0 /\ eof = FALSE /\ pushes = {}
    /\ run = [n \in Lines |-> "no"] /\ loop = [n \in Lines |-> "no"]
    /\ events = [n \in Lines |-> <<>>] /\ lastMessage = Event(0, "system") /\ out = [n \in Lines |-> <<>>]
    /\ rounds = [n \in Lines |-> 0] /\ emitted = [n \in Lines |-> <<>>]

-----------------------------------------------------------------------------
(* stdin *)

\* data: push(chunk) of a chunk with k complete lines.
Data(k) ==
    /\ ~eof /\ sent + k <= MaxLines
    /\ sent' = sent + k
    /\ pushes' = pushes \cup {[next |-> sent + 1, last |-> sent + k]}
    /\ UNCHANGED <<method, eof, run, loop, events, lastMessage, out, rounds, emitted>>

\* end: the trailing line without a newline, if there is one, is handled.
EndOfInput(tail) ==
    /\ ~eof /\ eof' = TRUE
    /\ tail => sent < MaxLines
    /\ sent' = IF tail THEN sent + 1 ELSE sent
    /\ pushes' = IF tail THEN pushes \cup {[next |-> sent', last |-> sent']} ELSE pushes
    /\ UNCHANGED <<method, run, loop, events, lastMessage, out, rounds, emitted>>

\* Mutated form of Advance: the line just handled stays with its push.
AdvanceKeeps(p) == pushes' = pushes \cup {q \in {[p EXCEPT !.next = @ + 1]} : q.next <= q.last}

\* handleLine returns: the push goes on to its next line.
Advance(p) == pushes' = (pushes \ {p}) \cup {q \in {[p EXCEPT !.next = @ + 1]} : q.next <= q.last}

-----------------------------------------------------------------------------
(* handleLine *)

\* health, an unknown method, a line that is not JSON: one response.
AnswersAtOnce(p) ==
    /\ method[p.next] # "runTask"
    /\ Writes(p.next, IF method[p.next] = "health" THEN "result" ELSE "error")
    /\ Advance(p)
    /\ UNCHANGED <<method, sent, eof, run, loop, events, lastMessage, rounds, emitted>>

\* runTask: streamTask yields run.started, then calls the runner, which
\* appends the prompt to the shared session and starts an agent loop.
StartsRun(p) ==
    LET n == p.next IN
    /\ method[n] = "runTask" /\ run[n] = "no"
    /\ Writes(n, "run.started")
    /\ run' = [run EXCEPT ![n] = "stream"]
    /\ lastMessage' = Event(n, "user")
    /\ loop' = [loop EXCEPT ![n] = "model"]
    /\ emitted' = [emitted EXCEPT ![n] = <<"run.started">>]
    /\ UNCHANGED <<method, sent, eof, pushes, events, rounds>>

-----------------------------------------------------------------------------
(* The agent loop behind the stream *)

\* ui.sink.emit: EventQueue.push; a waiting consumer takes the event at once.
Emits(n, what) ==
    /\ events' = [events EXCEPT ![n] = Append(@, what)]
    /\ emitted' = [emitted EXCEPT ![n] = Append(@, what)]

\* The model asks for a tool.
AsksTool(n) ==
    /\ loop[n] = "model" /\ rounds[n] < MaxRounds
    /\ rounds' = [rounds EXCEPT ![n] = @ + 1]
    /\ lastMessage' = Event(n, "call")
    /\ loop' = [loop EXCEPT ![n] = "tools"]
    /\ Emits(n, "tool.call")
    /\ UNCHANGED <<method, sent, eof, pushes, run, out>>

ToolAnswers(n) ==
    /\ loop[n] = "tools"
    /\ lastMessage' = Event(n, "tool")
    /\ loop' = [loop EXCEPT ![n] = "model"]
    /\ Emits(n, "tool.result")
    /\ UNCHANGED <<method, sent, eof, pushes, run, out, rounds>>

\* The last text: assistant_done pushes the accumulated message, runTask
\* returns and its finally closes the queue.
LoopEnds(n) ==
    /\ loop[n] = "model"
    /\ lastMessage' = Event(n, "text")
    /\ loop' = [loop EXCEPT ![n] = "ended"]
    /\ Emits(n, "assistant.message")
    /\ UNCHANGED <<method, sent, eof, pushes, run, out, rounds>>

\* The provider fails: the error is kept, and the queue is closed as well.
LoopThrows(n) ==
    /\ loop[n] = "model"
    /\ loop' = [loop EXCEPT ![n] = "threw"]
    /\ UNCHANGED <<method, sent, eof, pushes, run, events, lastMessage, out, rounds, emitted>>

-----------------------------------------------------------------------------
(* The stream *)

\* The consumer takes the queue's head and writes a notification.
Notifies(n) ==
    /\ run[n] = "stream" /\ events[n] # <<>>
    /\ events' = [events EXCEPT ![n] = Tail(@)]
    /\ Writes(n, Head(events[n]))
    /\ UNCHANGED <<method, sent, eof, pushes, run, loop, lastMessage, rounds, emitted>>

\* Mutated form of Drains: close ends the iteration over items still queued.
DrainsClosed(n) ==
    /\ run[n] = "stream" /\ loop[n] \in {"ended", "threw"}
    /\ run' = [run EXCEPT ![n] = IF loop[n] = "threw" THEN "failed" ELSE "drained"]
    /\ emitted' = [emitted EXCEPT ![n] = Append(@, "run.finished")]
    /\ Writes(n, "run.finished")
    /\ UNCHANGED <<method, sent, eof, pushes, loop, events, lastMessage, rounds>>

\* The queue is closed and empty: the runner ends or throws what the loop
\* threw, and the finally of streamTask yields run.finished either way.
Drains(n) ==
    /\ run[n] = "stream" /\ loop[n] \in {"ended", "threw"} /\ events[n] = <<>>
    /\ run' = [run EXCEPT ![n] = IF loop[n] = "threw" THEN "failed" ELSE "drained"]
    /\ emitted' = [emitted EXCEPT ![n] = Append(@, "run.finished")]
    /\ Writes(n, "run.finished")
    /\ UNCHANGED <<method, sent, eof, pushes, loop, events, lastMessage, rounds>>

\* Mutated form of Responds: a failed run writes no response.
RespondsResult(p) ==
    LET n == p.next IN
    /\ run[n] \in {"drained", "failed"}
    /\ run' = [run EXCEPT ![n] = "done"]
    /\ IF run[n] = "failed" THEN UNCHANGED out ELSE Writes(n, "result")
    /\ Advance(p)
    /\ UNCHANGED <<method, sent, eof, loop, events, lastMessage, rounds, emitted>>

\* The final response, after every notification, or the error.
Responds(p) ==
    LET n == p.next IN
    /\ run[n] \in {"drained", "failed"}
    /\ run' = [run EXCEPT ![n] = "done"]
    /\ Writes(n, IF run[n] = "failed" THEN "error" ELSE "result")
    /\ Advance(p)
    /\ UNCHANGED <<method, sent, eof, loop, events, lastMessage, rounds, emitted>>

Idle == UNCHANGED vars

Handles == \E p \in pushes : AnswersAtOnce(p) \/ StartsRun(p) \/ Responds(p)
Loops   == \E n \in Lines : AsksTool(n) \/ ToolAnswers(n) \/ LoopEnds(n) \/ LoopThrows(n)
Streams == \E n \in Lines : Notifies(n) \/ Drains(n)

Next == (\E k \in Lines : Data(k)) \/ (\E tail \in BOOLEAN : EndOfInput(tail))
            \/ Handles \/ Loops \/ Streams \/ Idle

\* The event loop runs what is ready, and every agent loop goes on: its model
\* calls and tools end.
Spec == Init /\ [][Next]_vars /\ WF_vars(Handles) /\ WF_vars(Loops) /\ WF_vars(Streams)

-----------------------------------------------------------------------------
(* Properties *)

\* A response closes its request: it is the only one, and the notifications
\* of its run are all before it, in the order the run emitted them, however
\* many runs write to the pipe (handleRunTask, EventQueue, streamTask).
ResponseClosesRun == \A n \in Lines : Answered(n) =>
    /\ Last(out[n]) \in Final
    /\ Front(out[n]) = emitted[n]

\* Every line read is answered in the end, even if another run fails or stdin
\* ends: an answer stays, so it is enough that no line waits again and again.
EveryLineAnswered == []<>(\A n \in Lines : n <= sent => Answered(n))

\* The requests are one continuous conversation: in the shared messages a
\* tool call is followed by its own result, as the provider demands
\* (agentRunner.ts:5, "multiple runTask calls form a continuous multi-turn
\* conversation").
OneConversation == [][lastMessage' # lastMessage /\ lastMessage.what = "call"
                        => lastMessage' = Event(lastMessage.line, "tool")]_vars

\* A response is the last message of its run.
StdioSound == TypeOK /\ ResponseClosesRun
=============================================================================
