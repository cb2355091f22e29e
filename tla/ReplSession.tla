---------------------------- MODULE ReplSession ----------------------------
(***************************************************************************)
(* The plain REPL (runRepl): what the lines typed at its prompt do to the  *)
(* conversation, the approval mode, plan mode, a side thread and the files *)
(* of the workspace's sessions.  A conversation is what its system prompt  *)
(* and its last context update say of the approval mode, and the turns in  *)
(* it.  A file is what SessionStore.save writes.  The process may end at   *)
(* any step and resume any session that has a file.                        *)
(***************************************************************************)
EXTENDS Naturals, FiniteSets

CONSTANTS
    Modes,      \* approval modes, "readonly" among them
    MaxTyped, MaxSessions,
    MaxCrashes, \* bound on the ends of the process
    None

VARIABLES
    mem,        \* the session in memory
    phase,      \* plan mode
    side,       \* SideState: the main thread set aside, or None
    run,        \* the agent run in progress
    asking,     \* "Execute this plan?" waits for its answer
    files,      \* the session files
    up,         \* the process runs
    typed,      \* turns handed out so far
    prompted,   \* turns the user typed as prompts of the main thread
    severed,    \* a command cut the conversation from its context snapshot
    crashes

sessionVars == <<mem, phase, side, run, asking, files, up, typed, prompted, severed, crashes>>

Turns == 1 .. MaxTyped
Ids == 1 .. MaxSessions
Conv(b, u, t) == [base |-> b, update |-> u, turns |-> t]

\* What a conversation has last been told of the approval mode.
Told(c) == IF c.update # None THEN c.update ELSE c.base

\* The values of the variables: conversations, what a file holds, a side thread,
\* a run.
Convs == [base : Modes \cup {None}, update : Modes \cup {None}, turns : SUBSET Turns]
Files == [conv : Convs, mode : Modes \cup {None}, snap : Modes \cup {None}]
Sides == [main : Convs, conv : Convs]
Runs  == [thread : {"main", "side", "quick", "plan", "command"},
          mode : Modes \cup {"readonly", None}, called : BOOLEAN]

TypeOK ==
    /\ mem \in [id : Ids, conv : Convs, mode : Modes \cup {None}, snap : Modes \cup {None}]
    /\ phase \in {"off", "investigating", "awaiting-approval", "executing"}
    /\ side \in Sides \cup {None} /\ run \in Runs \cup {None}
    /\ files \in [Ids -> Files \cup {None}]
    /\ asking \in BOOLEAN /\ up \in BOOLEAN /\ severed \in BOOLEAN
    /\ typed \in 0 .. MaxTyped /\ prompted \subseteq Turns /\ crashes \in 0 .. MaxCrashes

\* snapshot and SessionStore.save.  Titles, goals, archived marks, reviews,
\* briefs and plans of a file are left out: no line depends on them.
Saved(m, fs) == [fs EXCEPT ![m.id] = [conv |-> m.conv, mode |-> m.mode, snap |-> m.snap]]

\* effectivePlanModeApproval.
Effective == IF phase \in {"investigating", "awaiting-approval"} THEN "readonly" ELSE mem.mode

\* resetSessionContextEpoch: the system prompt is rebuilt, the updates go.
FreshEpoch(m) == [m EXCEPT !.conv.base = m.mode, !.conv.update = None, !.snap = m.mode]

\* Mutated form of Reconciled: the snapshot advances, the update is lost.
QuietlyReconciled(m) == [m EXCEPT !.snap = m.mode]

\* reconcileSessionContext: one update when the mode is not the snapshot's.
Reconciled(m) ==
    IF m.snap = m.mode THEN m ELSE [m EXCEPT !.conv.update = m.mode, !.snap = m.mode]

\* A process that ends keeps nothing but the files.
Forgotten(stays) ==
    /\ up' = stays
    /\ IF stays THEN UNCHANGED <<mem, phase, side, run, asking, severed, crashes>>
       ELSE /\ crashes < MaxCrashes /\ crashes' = crashes + 1
            /\ mem' = [id |-> 1, conv |-> Conv(None, None, {}), mode |-> None, snap |-> None]
            /\ phase' = "off" /\ side' = None /\ run' = None /\ asking' = FALSE
            /\ severed' = FALSE

WithTurn(m, t) == [m EXCEPT !.conv.turns = @ \cup {t}]

AtPrompt == up /\ run = None /\ ~asking
OnMain == AtPrompt /\ side = None
NextTurn == typed + 1
CanType == typed < MaxTyped

Started(thread) == [thread |-> thread, mode |-> Effective, called |-> FALSE]

-----------------------------------------------------------------------------

Init ==
    /\ \E m \in Modes :
        mem = [id |-> 1, conv |-> Conv(m, None, {}), mode |-> m, snap |-> m]
    /\ phase = "off" /\ side = None /\ run = None /\ asking = FALSE
    /\ files = [i \in Ids |-> None]
    /\ up = TRUE /\ typed = 0 /\ prompted = {} /\ severed = FALSE /\ crashes = 0

\* A prompt: pushed, saved, and run.
Submit ==
    /\ OnMain /\ CanType
    /\ mem' = WithTurn(mem, NextTurn) /\ files' = Saved(mem', files)
    /\ run' = Started("main")
    /\ typed' = NextTurn /\ prompted' = prompted \cup {NextTurn}
    /\ UNCHANGED <<phase, side, asking, up, severed, crashes>>

\* /side and /btw without a question: the lines that follow are the side's.
OpenSide ==
    /\ AtPrompt
    /\ side' = [main |-> mem.conv, conv |-> mem.conv]
    /\ UNCHANGED <<mem, phase, run, asking, files, up, typed, prompted, severed, crashes>>

\* Mutated form of AskOnTheSide: the side thread starts without the main one.
AskAfresh ==
    /\ AtPrompt /\ CanType
    /\ side' = [main |-> mem.conv, conv |-> mem.conv]
    /\ mem' = [mem EXCEPT !.conv.turns = {NextTurn}] /\ run' = Started("quick")
    /\ typed' = NextTurn
    /\ UNCHANGED <<phase, asking, files, up, prompted, severed, crashes>>

\* /side <question>: one turn on a copy of the main thread.
AskOnTheSide ==
    /\ AtPrompt /\ CanType
    /\ side' = [main |-> mem.conv, conv |-> mem.conv]
    /\ mem' = WithTurn(mem, NextTurn) /\ run' = Started("quick")
    /\ typed' = NextTurn
    /\ UNCHANGED <<phase, asking, files, up, prompted, severed, crashes>>

\* Any other line while a side thread is open is a turn of it.
SubmitSide ==
    /\ AtPrompt /\ side # None /\ CanType
    /\ mem' = WithTurn([mem EXCEPT !.conv = side.conv], NextTurn)
    /\ run' = Started("side") /\ typed' = NextTurn
    /\ UNCHANGED <<phase, side, asking, files, up, prompted, severed, crashes>>

\* /main: the messages set aside at the fork.
ReturnToMain ==
    /\ AtPrompt /\ side # None
    /\ mem' = [mem EXCEPT !.conv = side.main] /\ side' = None
    /\ UNCHANGED <<phase, run, asking, files, up, typed, prompted, severed, crashes>>

\* The agent loop: perhaps it compacts, then it reconciles the context, calls
\* the model and persists session.messages, whichever thread that is.
CallModel ==
    /\ up /\ run # None
    /\ \E compacts \in BOOLEAN :
        /\ mem' = Reconciled(IF compacts THEN FreshEpoch(mem) ELSE mem)
        /\ severed' = IF run.thread \in {"side", "quick"} THEN severed \/ mem'.snap # mem.snap
                                                           ELSE severed /\ mem' = mem
    /\ run' = [run EXCEPT !.called = TRUE]
    /\ files' = Saved(mem', files)
    /\ UNCHANGED <<phase, side, asking, up, typed, prompted, crashes>>

\* runTask returns or throws, and the REPL puts the main thread back; an
\* investigating turn of the main thread proposes its plan.
RunEnds ==
    /\ up /\ run # None
    /\ run' = None
    /\ CASE run.thread = "side" ->
               /\ side' = [side EXCEPT !.conv = mem.conv]
               /\ mem' = [mem EXCEPT !.conv = side.main]
         [] run.thread = "quick" -> mem' = [mem EXCEPT !.conv = side.main] /\ side' = None
         [] OTHER -> UNCHANGED <<mem, side>>
    /\ asking' = (run.thread = "main" /\ phase = "investigating" /\ run.called)
    /\ phase' = CASE asking' -> "awaiting-approval"
                  [] run.thread = "plan" -> "off"
                  [] OTHER -> phase
    /\ UNCHANGED <<files, up, typed, prompted, severed, crashes>>

\* Yes: the plan becomes a turn, is saved, and runs in the session's own mode.
ApprovePlan ==
    /\ up /\ asking /\ CanType
    /\ asking' = FALSE /\ phase' = "executing"
    /\ mem' = WithTurn(mem, NextTurn) /\ files' = Saved(mem', files)
    /\ run' = [thread |-> "plan", mode |-> mem.mode, called |-> FALSE]
    /\ typed' = NextTurn /\ prompted' = prompted \cup {NextTurn}
    /\ UNCHANGED <<side, up, severed, crashes>>

RejectPlan ==
    /\ up /\ asking
    /\ asking' = FALSE /\ phase' = "investigating"
    /\ UNCHANGED <<mem, side, run, files, up, typed, prompted, severed, crashes>>

(* Slash commands: at the prompt of the main thread only *)

PlanModeCommand ==
    /\ OnMain
    /\ phase' = IF phase = "off" THEN "investigating" ELSE "off"
    /\ UNCHANGED <<mem, side, run, asking, files, up, typed, prompted, severed, crashes>>

ModeCommand ==
    /\ OnMain
    /\ \E m \in Modes \ {mem.mode} : mem' = [mem EXCEPT !.mode = m]
    /\ UNCHANGED <<phase, side, run, asking, files, up, typed, prompted, severed, crashes>>

\* messages.length = 1: the updates go and the snapshot stays.
ClearCommand ==
    /\ OnMain /\ mem.conv.base # None
    /\ mem' = [mem EXCEPT !.conv.update = None, !.conv.turns = {}]
    /\ severed' = (severed \/ mem.conv.update # None)
    /\ UNCHANGED <<phase, side, run, asking, files, up, typed, prompted, crashes>>

\* Mutated form of NewCommand: the session left behind is not saved.
NewUnsaved ==
    /\ OnMain
    /\ \E i \in Ids :
        /\ files[i] = None /\ i # mem.id
        /\ files' = files
        /\ mem' = [mem EXCEPT !.id = i, !.conv = Conv(None, None, {})]
    /\ severed' = TRUE
    /\ UNCHANGED <<phase, side, run, asking, up, typed, prompted, crashes>>

\* The session is saved and another begins: no system prompt, the same mode,
\* snapshot and title.
NewCommand ==
    /\ OnMain
    /\ \E i \in Ids :
        /\ files[i] = None /\ i # mem.id
        /\ files' = Saved(mem, files)
        /\ mem' = [mem EXCEPT !.id = i, !.conv = Conv(None, None, {})]
    /\ severed' = TRUE
    /\ UNCHANGED <<phase, side, run, asking, up, typed, prompted, crashes>>

\* A copy of the file, not of the session in memory.
ForkCommand ==
    /\ OnMain /\ files[mem.id] # None
    /\ \E i \in Ids :
        /\ files[i] = None /\ i # mem.id
        /\ files' = [files EXCEPT ![i] = [files[mem.id] EXCEPT !.snap = None]]
    /\ UNCHANGED <<mem, phase, side, run, asking, up, typed, prompted, severed, crashes>>

\* /save, /export, /title, /clear-title, and the commands that record a review,
\* a brief or a plan beside the conversation.
SaveCommand ==
    /\ OnMain
    /\ files' = Saved(mem, files)
    /\ UNCHANGED <<mem, phase, side, run, asking, up, typed, prompted, severed, crashes>>

CompactCommand ==
    /\ OnMain /\ mem.conv.turns # {}
    /\ mem' = FreshEpoch(mem) /\ files' = Saved(mem', files) /\ severed' = FALSE
    /\ UNCHANGED <<phase, side, run, asking, up, typed, prompted, crashes>>

\* persistGoal writes the goal into the file, or into a file with nothing else.
GoalCommand ==
    /\ OnMain
    /\ files' = [files EXCEPT ![mem.id] =
                    IF @ # None THEN @
                    ELSE [conv |-> Conv(None, None, {}), mode |-> None, snap |-> None]]
    /\ UNCHANGED <<mem, phase, side, run, asking, up, typed, prompted, severed, crashes>>

\* /plan: the request and the planner's answer, saved.
PlanCommand ==
    /\ OnMain /\ CanType /\ mem.conv.base # None
    /\ mem' = WithTurn(mem, NextTurn) /\ files' = Saved(mem', files)
    /\ typed' = NextTurn /\ prompted' = prompted \cup {NextTurn}
    /\ UNCHANGED <<phase, side, run, asking, up, severed, crashes>>

\* /solve, /refactor, /resolve, /simplify --fix: a turn is pushed and the agent
\* runs; what is saved is what the run persists.
AgentCommand ==
    /\ OnMain /\ CanType
    /\ mem' = WithTurn(mem, NextTurn) /\ run' = Started("command")
    /\ typed' = NextTurn
    /\ UNCHANGED <<phase, side, asking, files, up, prompted, severed, crashes>>

\* /archive and /delete of another session; of this one they end the process.
ArchiveCommand ==
    /\ OnMain
    /\ \E i \in Ids : files[i] # None /\ Forgotten(i # mem.id)
    /\ UNCHANGED <<files, typed, prompted>>

DeleteCommand ==
    /\ OnMain
    /\ \E i \in Ids : files' = [files EXCEPT ![i] = None] /\ Forgotten(i # mem.id)
    /\ UNCHANGED <<typed, prompted>>

\* /exit, an exception of a slash command (runRepl does not catch it), a crash.
Gone ==
    /\ up /\ Forgotten(FALSE)
    /\ UNCHANGED <<files, typed, prompted>>

\* --resume: the saved baseline is kept when it says what a fresh one would.
Resumed(i) ==
    LET f == files[i]
        m == [id |-> i, conv |-> f.conv, mode |-> f.mode, snap |-> f.snap]
    IN  IF f.snap # None /\ f.conv.base = f.mode THEN m
        ELSE [m EXCEPT !.conv.base = f.mode, !.snap = f.mode]

Resume ==
    /\ ~up
    /\ \E i \in Ids : files[i] # None /\ mem' = Resumed(i)
    /\ up' = TRUE /\ phase' = "off" /\ side' = None /\ run' = None /\ asking' = FALSE
    /\ severed' = (Told(mem'.conv) # mem'.snap)
    /\ UNCHANGED <<files, typed, prompted, crashes>>

Idle == ~up /\ UNCHANGED sessionVars

Next ==
    \/ Submit \/ OpenSide \/ AskOnTheSide \/ SubmitSide \/ ReturnToMain
    \/ CallModel \/ RunEnds \/ ApprovePlan \/ RejectPlan
    \/ PlanModeCommand \/ ModeCommand \/ ClearCommand \/ NewCommand \/ ForkCommand
    \/ SaveCommand \/ CompactCommand \/ GoalCommand \/ PlanCommand
    \/ AgentCommand \/ ArchiveCommand \/ DeleteCommand \/ Gone \/ Resume \/ Idle

Spec == Init /\ [][Next]_sessionVars

-----------------------------------------------------------------------------
(* Properties *)

Main == IF side = None THEN mem.conv ELSE side.main

\* A model in the middle of a run has last been told the approval mode the
\* session is in: by the system prompt, or by a context update after it
\* (reconcileSessionContext), through /mode, compaction, side threads and
\* resumption.  The commands that cut the conversation from its context
\* snapshot (/clear, /new, a side run that reconciles) are excepted.
ModeIsTold == run # None /\ run.called /\ ~severed => Told(mem.conv) = mem.mode

\* What the user typed as a prompt and is still in the main thread is in the
\* session's file, whatever was written there since: side threads, saves of
\* commands and runs, the goal.  A crash loses none of it.
PromptsAreSaved ==
    up /\ Main.turns \cap prompted # {} =>
        /\ files[mem.id] # None
        /\ Main.turns \cap prompted \subseteq files[mem.id].conv.turns

\* While plan mode investigates or waits for its answer, no run of any thread
\* may write; and the plan is executed by its own run only.
PlanGate ==
    up => /\ (run # None /\ phase \in {"investigating", "awaiting-approval"} =>
                  run.mode = "readonly")
          /\ (asking => phase = "awaiting-approval")
          /\ (phase = "executing" <=> run # None /\ run.thread = "plan")

SessionSound == TypeOK /\ ModeIsTold /\ PromptsAreSaved /\ PlanGate

\* A line typed into one session changes no other session's conversation, and
\* the one that /new leaves is whole in its file.
OthersUntouched ==
    /\ \A i \in Ids \ {mem.id} :
           files[i] # None /\ files'[i] # None => files'[i].conv = files[i].conv
    /\ up /\ up' /\ mem'.id # mem.id =>
           files'[mem.id] # None /\ files'[mem.id].conv = mem.conv

SessionSteps == [][OthersUntouched]_sessionVars
=============================================================================
