----------------------------- MODULE MCSession -----------------------------
(***************************************************************************)
(* What a session is made of, in one run: the initial state chooses the    *)
(* part whose steps the behaviour takes, and the others stay as they are.  *)
(***************************************************************************)
EXTENDS UndoRedo, SessionLog

CONSTANTS
    ApprovalModes, MaxTyped, MaxSessions, MaxCrashes, None,
    MaxTokens

VARIABLES
    part,
    mem, phase, side, run, asking, files, up, typed, prompted, severed, crashes,
    cmd

\* Two check commands are configured: `make`, and one that a rule denies.
ConfiguredChecks == {<<"make">>, <<"rm">>}

Repl    == INSTANCE ReplSession WITH Modes <- ApprovalModes
Command == INSTANCE Permissions WITH Checks <- ConfiguredChecks

\* None is no mode and nothing a session is made of, and one session can be open.
ASSUME ReplAssumption ==
    /\ {MaxTyped, MaxCrashes} \subseteq Nat /\ MaxSessions \in Nat \ {0}
    /\ None \notin ApprovalModes \cup Repl!Files \cup Repl!Sides \cup Repl!Runs

repl  == <<mem, phase, side, run, asking, files, up, typed, prompted, severed, crashes>>
parts == <<part, vars, logVars, repl, cmd>>

\* One of the two files exists at first; names and contents are alike.
ExistingPath == CHOOSE p \in Paths : TRUE

\* One state of the parts that do not move.
Still(name) ==
    /\ file = [p \in Paths |-> IF name = "undo" /\ p = ExistingPath THEN CHOOSE c \in Contents : TRUE ELSE Absent]
    /\ name # "log"  => live.field = CHOOSE v \in Values : TRUE
    /\ mem.mode = "ask"

PartsInit ==
    /\ part \in {"undo", "log", "repl", "command"}
    /\ Init /\ LogInit /\ Repl!Init /\ Command!Init
    /\ Still(part)

Takes(name) ==
    /\ UNCHANGED part
    /\ name # "undo"    => UNCHANGED vars
    /\ name # "log"     => UNCHANGED logVars
    /\ name # "repl"    => UNCHANGED repl
    /\ name # "command" => UNCHANGED cmd

PartsNext ==
    \/ part = "undo" /\ Next /\ Takes("undo")
    \/ part = "log" /\ LogNext /\ Takes("log")
    \/ part = "repl" /\ Repl!Next /\ Takes("repl")
    \/ part = "command" /\ Command!Next /\ Takes("command")

PartsSpec == PartsInit /\ [][PartsNext]_parts

\* The lines of the prompt: see ReplSession.
SessionSound == Repl!SessionSound

\* No step of an undo, of the event log or of the prompt takes back what an
\* earlier one promised: see UndoRedo, SessionLog and ReplSession.
SessionSteps == WholeMoveIsExact /\ LogOnlyGrows /\ Repl!SessionSteps

\* Commands and permissions: see Permissions.
PermissionsSound == Command!PermissionsSound
=============================================================================
