----------------------------- MODULE TuiShell -----------------------------
(***************************************************************************)
(* The raw-mode terminal UI (runTuiRepl): one keyboard, one screen and one *)
(* busy flag between the prompt, the runs it starts, their approvals, the  *)
(* slash commands (inline: their output is captured; suspending: they have *)
(* the normal screen) and the signals.  A run registers one SIGINT handler *)
(* that works once; Ctrl+C at a busy prompt sends the process a SIGINT.    *)
(***************************************************************************)
EXTENDS Naturals, FiniteSets

CONSTANTS
    Jobs,       \* names for the inline slash commands at work
    MaxRuns,    \* bound on the runs started
    None

VARIABLES
    life,       \* "up", "done" (runTuiRepl returned), "killed"
    tty,        \* the terminal: alternate screen, raw mode, key listeners
    restored,   \* the flag of restore() and redraw()
    busy,
    runs,       \* the runs in progress
    ask,        \* what waits for approvalResolve
    suspended,  \* a suspending slash command has the normal screen
    inline,     \* inline slash command -> the stdout.write it found, or None
    writer,     \* stdout.write: the "screen", or a buffer
    disturbed,  \* a SIGTERM came, or the screen changed while output was captured
    started

tuiVars == <<life, tty, restored, busy, runs, ask, suspended, inline, writer, disturbed, started>>

Kinds == {"prompt", "side", "bang", "plan"}
Fresh(k) == [kind |-> k, ended |-> FALSE, handler |-> TRUE, aborted |-> FALSE]
Shown == [alt |-> TRUE, raw |-> TRUE, keys |-> 1]
Hidden == [alt |-> FALSE, raw |-> FALSE, keys |-> 0]

TypeOK ==
    /\ life \in {"up", "done", "killed"} /\ tty.keys \in 0 .. 2
    /\ {restored, busy, suspended, disturbed} \subseteq BOOLEAN
    /\ \A r \in runs : r.kind \in Kinds
    /\ ask \in {None, "tool", "bang", "plan"}
    /\ inline \in [Jobs -> {None, "screen", "buffer"}] /\ writer \in {"screen", "buffer"}
    /\ started \in 0 .. MaxRuns

\* enterAlt and leaveAlt write to stdout, whoever has it.
Screen(alt) == IF writer = "screen" THEN alt ELSE tty.alt

\* restore: once.
Restore ==
    /\ restored' = TRUE
    /\ tty' = IF restored THEN tty ELSE [Hidden EXCEPT !.alt = Screen(FALSE)]
    /\ disturbed' = (disturbed \/ writer # "screen")

Listening == life = "up" /\ tty.keys > 0
\* A key that no approval takes.
AtKeys == Listening /\ ask = None
Ready == AtKeys /\ ~busy
CanStart == started < MaxRuns
Start(k) == busy' = TRUE /\ runs' = runs \cup {Fresh(k)} /\ started' = started + 1
Working(r) == life = "up" /\ r \in runs /\ ~r.ended

-----------------------------------------------------------------------------

Init ==
    /\ life = "up" /\ tty = Shown /\ restored = FALSE /\ busy = FALSE /\ runs = {}
    /\ ask = None /\ suspended = FALSE /\ inline = [j \in Jobs |-> None] /\ writer = "screen"
    /\ disturbed = FALSE /\ started = 0

\* Mutated form of Submit: a line typed while a run is busy is run at once.
SubmitAnyway ==
    /\ AtKeys /\ CanStart
    /\ \E k \in {"prompt", "side", "bang"} : Start(k)
    /\ UNCHANGED <<life, tty, restored, ask, suspended, inline, writer, disturbed>>

\* Enter on a prompt, a line of the side thread, or a shell command: dropped
\* while a run is busy (the input queue has no way in).
Submit ==
    /\ Ready /\ CanStart
    /\ \E k \in {"prompt", "side", "bang"} : Start(k)
    /\ UNCHANGED <<life, tty, restored, ask, suspended, inline, writer, disturbed>>

\* A shell command that looks dangerous is confirmed first, with busy still off.
AskBang ==
    /\ Ready /\ CanStart
    /\ ask' = "bang"
    /\ UNCHANGED <<life, tty, restored, busy, runs, suspended, inline, writer, disturbed, started>>

\* Mutated form of AskTool: an interrupted run still asks.
AskInterrupted ==
    /\ \E r \in runs : Working(r) /\ r.kind # "bang"
    /\ ask = None
    /\ ask' = "tool"
    /\ UNCHANGED <<life, tty, restored, busy, runs, suspended, inline, writer, disturbed, started>>

\* A tool of a run asks; one of an interrupted run does not.
AskTool ==
    /\ \E r \in runs : Working(r) /\ r.kind # "bang" /\ ~r.aborted
    /\ ask = None
    /\ ask' = "tool"
    /\ UNCHANGED <<life, tty, restored, busy, runs, suspended, inline, writer, disturbed, started>>

\* y, n or Escape; every other key, Ctrl+C among them, is ignored.
Answer ==
    /\ Listening /\ ask # None
    /\ ask' = None
    /\ \/ ask \in {"bang", "plan"} /\ CanStart /\ Start(ask)
       \/ UNCHANGED <<busy, runs, started>>
    /\ UNCHANGED <<life, tty, restored, suspended, inline, writer, disturbed>>

\* runTask takes its handler away; the checkpoint and the memory proposal are
\* still to be written, and the prompt is still busy.
RunEnds ==
    /\ \E r \in runs :
        /\ Working(r) /\ ask # "tool"
        /\ runs' = (runs \ {r}) \cup {[r EXCEPT !.ended = TRUE, !.handler = FALSE]}
    /\ UNCHANGED <<life, tty, restored, busy, ask, suspended, inline, writer, disturbed, started>>

\* Back at the prompt; an investigating prompt asks about its plan at once.
BackAtPrompt ==
    /\ life = "up"
    /\ \E r \in runs :
        /\ r.ended
        /\ runs' = runs \ {r} /\ busy' = FALSE
        /\ \/ ask' = ask
           \/ r.kind = "prompt" /\ ask' = "plan"
    /\ UNCHANGED <<life, tty, restored, suspended, inline, writer, disturbed, started>>

\* A SIGINT: the handlers of the runs, or the end of the process.
SigInt ==
    IF \E r \in runs : r.handler
    THEN /\ runs' = {[r EXCEPT !.handler = FALSE, !.aborted = r.aborted \/ r.handler] : r \in runs}
         /\ life' = life
    ELSE life' = "killed" /\ runs' = runs

\* Ctrl+C: the run, or the UI.
Interrupt ==
    /\ AtKeys
    /\ IF busy THEN SigInt /\ UNCHANGED <<tty, restored, disturbed>>
       ELSE Restore /\ life' = "done" /\ runs' = runs
    /\ UNCHANGED <<busy, ask, suspended, inline, writer, started>>

\* /exit.
Exit ==
    /\ Ready /\ Restore /\ life' = "done"
    /\ UNCHANGED <<busy, runs, ask, suspended, inline, writer, started>>

\* A slash command that prints: its output is captured and the keys stay on.
InlineStarts ==
    /\ Ready
    /\ \E j \in Jobs : inline[j] = None /\ inline' = [inline EXCEPT ![j] = writer]
    /\ writer' = "buffer"
    /\ UNCHANGED <<life, tty, restored, busy, runs, ask, suspended, disturbed, started>>

InlineEnds ==
    /\ life = "up"
    /\ \E j \in Jobs :
        /\ inline[j] # None
        /\ writer' = inline[j] /\ inline' = [inline EXCEPT ![j] = None]
    /\ UNCHANGED <<life, tty, restored, busy, runs, ask, suspended, disturbed, started>>

\* A slash command that streams or asks: restore(), and the flag down again.
Suspend ==
    /\ Ready
    /\ suspended' = TRUE /\ restored' = FALSE
    /\ tty' = IF restored THEN tty ELSE [Hidden EXCEPT !.alt = Screen(FALSE)]
    /\ disturbed' = (disturbed \/ writer # "screen")
    /\ UNCHANGED <<life, busy, runs, ask, inline, writer, started>>

\* Mutated form of Reenter: the listeners are attached, raw mode is not set.
ReenterCooked ==
    /\ life = "up" /\ suspended
    /\ suspended' = FALSE
    /\ tty' = [alt |-> Screen(TRUE), raw |-> tty.raw, keys |-> tty.keys + 1]
    /\ disturbed' = (disturbed \/ writer # "screen")
    /\ UNCHANGED <<life, restored, busy, runs, ask, inline, writer, started>>

Reenter ==
    /\ life = "up" /\ suspended
    /\ suspended' = FALSE
    /\ tty' = [alt |-> Screen(TRUE), raw |-> TRUE, keys |-> tty.keys + 1]
    /\ disturbed' = (disturbed \/ writer # "screen")
    /\ UNCHANGED <<life, restored, busy, runs, ask, inline, writer, started>>

\* SIGTERM: its handler restores the terminal, and the process goes on.
Terminate ==
    /\ life = "up" /\ ~disturbed
    /\ restored' = TRUE /\ disturbed' = TRUE
    /\ tty' = IF restored THEN tty ELSE [Hidden EXCEPT !.alt = Screen(FALSE)]
    /\ UNCHANGED <<life, busy, runs, ask, suspended, inline, writer, started>>

\* Nothing listens and nothing runs: the event loop empties.
Drained ==
    /\ life = "up" /\ tty.keys = 0 /\ ~suspended
    /\ runs = {} \/ ask = "tool"
    /\ \A j \in Jobs : inline[j] = None
    /\ life' = "done" /\ Restore
    /\ UNCHANGED <<busy, runs, ask, suspended, inline, writer, started>>

Over == life # "up" /\ UNCHANGED tuiVars

Next ==
    \/ Submit \/ AskBang \/ AskTool \/ Answer \/ RunEnds \/ BackAtPrompt
    \/ Interrupt \/ Exit \/ InlineStarts \/ InlineEnds \/ Suspend \/ Reenter
    \/ Terminate \/ Drained \/ Over

\* A run that is not waiting for an answer ends, and gives the prompt back.
Fairness == WF_tuiVars(RunEnds) /\ WF_tuiVars(BackAtPrompt)
Spec == Init /\ [][Next]_tuiVars /\ Fairness

-----------------------------------------------------------------------------
(* Properties *)

\* The runs of the prompt, of the side thread, of a shell command and of a plan
\* share one conversation: never two at once, though the questions about a
\* shell command and about a plan are put with the busy flag off.
OneRun == Cardinality(runs) <= 1 /\ (busy <=> runs # {})

\* An approval belongs to the run that asked: no tool question outlives its run.
QuestionsAreAsked == ask = "tool" => \E r \in runs : ~r.ended /\ ~r.aborted

\* The terminal is what the keys are read for: alternate screen, raw mode and
\* one listener at the prompt, none of them while a slash command has it, and
\* none when the UI is left (SIGTERM and captured screen changes excepted).
TerminalFits ==
    ~disturbed =>
        /\ life = "up" => tty = IF suspended THEN Hidden ELSE Shown
        /\ life = "done" => tty = Hidden

TuiSound == TypeOK /\ OneRun /\ QuestionsAreAsked /\ TerminalFits

\* An interrupted run gives the prompt back without another key.
InterruptEnds == []<>(\A r \in runs : ~r.aborted \/ life # "up")

\* "The terminal is ALWAYS restored (raw off, main screen, cursor shown) on
\* every exit path - normal exit, error, signal, or process exit."
TerminalRestored == life # "up" => ~tty.alt /\ ~tty.raw
=============================================================================
