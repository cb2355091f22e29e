----------------------------- MODULE BoundedWork -----------------------------
(***************************************************************************)
(* Work that runs beside the loop under a timeout: background subagents    *)
(* and commands.                                                           *)
(*                                                                         *)
(* Background subagents (&research, &review): the manager's cap, a job's   *)
(* timeout, the read-only agent loop it runs, the export of its result and *)
(* the notice.  The loop swallows its own errors: a run that fails or is   *)
(* aborted still ends with a result, and only the code around the loop     *)
(* rejects.  Ids are the order of the spawns.                              *)
(*                                                                         *)
(* One command run under a timeout and an abort signal, as                 *)
(* runBoundedProcess and the run_bash tool do it: the child leads its own  *)
(* process group, the timer and the abort kill the group, and the promise  *)
(* resolves once, on 'error' or when the pipes have closed.  A helper the  *)
(* command starts may stay in the group or leave it (setsid), and holds    *)
(* the pipes open while it runs.  Output is a number of bytes; the         *)
(* redaction and the live line buffer are left out.                        *)
(***************************************************************************)
EXTENDS Integers, FiniteSets

CONSTANTS
    MaxJobs,        \* bound: spawns that succeed
    MaxConcurrent,  \* the cap on running jobs
    MaxCapture,     \* maxCaptureBytes
    MaxOutput       \* bound: bytes the command prints

\* No caller asks for a capture of nothing: with a cap of zero bytes append would
\* drop output and never mark the cut.
ASSUME WorkAssumption ==
    {MaxJobs, MaxConcurrent, MaxOutput} \subseteq Nat /\ MaxCapture \in Nat \ {0}

-----------------------------------------------------------------------------
(* Background subagents.                                                    *)

Jobs == 1 .. MaxJobs

VARIABLES
    spawned,        \* jobs so far
    active,         \* the manager's running jobs
    finished,       \* its done list, as a set of jobs
    jobStage,       \* job -> "none", "run", "persist" or "settled"
    jobStatus,      \* job -> status
    aborted,        \* jobs whose controller is aborted
    exports,        \* jobs whose export file is written
    notices         \* job -> notices given

jobVars == <<spawned, active, finished, jobStage, jobStatus, aborted, exports, notices>>

JobsTypeOK ==
    /\ spawned \in 0 .. MaxJobs
    /\ active \subseteq Jobs /\ finished \subseteq Jobs
    /\ jobStage \in [Jobs -> {"none", "run", "persist", "settled"}]
    /\ jobStatus \in [Jobs -> {"running", "completed", "failed"}]
    /\ aborted \subseteq Jobs /\ exports \subseteq Jobs
    /\ notices \in [Jobs -> 0 .. 2]

JobsInit ==
    /\ spawned = 0 /\ active = {} /\ finished = {}
    /\ jobStage = [j \in Jobs |-> "none"] /\ jobStatus = [j \in Jobs |-> "running"]
    /\ aborted = {} /\ exports = {} /\ notices = [j \in Jobs |-> 0]

\* spawn: refused at the cap.
Spawn ==
    /\ Cardinality(active) < MaxConcurrent /\ spawned < MaxJobs
    /\ spawned' = spawned + 1
    /\ active' = active \cup {spawned'}
    /\ jobStage' = [jobStage EXCEPT ![spawned'] = "run"]
    /\ UNCHANGED <<finished, jobStatus, aborted, exports, notices>>

\* The hard timeout aborts the controller; the timer runs until the job has
\* settled, the time its export takes included.
TimesOut(j) ==
    /\ jobStage[j] \in {"run", "persist"} /\ j \notin aborted
    /\ aborted' = aborted \cup {j}
    /\ UNCHANGED <<spawned, active, finished, jobStage, jobStatus, exports, notices>>

\* runSubagent returns, after an abort too: the job counts as completed, and
\* its export is written next.
RunReturns(j) ==
    /\ jobStage[j] = "run"
    /\ jobStage' = [jobStage EXCEPT ![j] = "persist"]
    /\ jobStatus' = [jobStatus EXCEPT ![j] = "completed"]
    /\ UNCHANGED <<spawned, active, finished, aborted, exports, notices>>

\* The finally of execute, whatever the outcome.
Settles(j) ==
    /\ active' = active \ {j}
    /\ finished' = finished \cup {j}
    /\ jobStage' = [jobStage EXCEPT ![j] = "settled"]
    /\ notices' = [notices EXCEPT ![j] = @ + 1]

\* Mutated form of RunRejects: a rejection skips the clean-up.
RunRejectsSilently(j) ==
    /\ jobStage[j] = "run"
    /\ jobStatus' = [jobStatus EXCEPT ![j] = "failed"]
    /\ jobStage' = [jobStage EXCEPT ![j] = "settled"]
    /\ UNCHANGED <<spawned, active, finished, aborted, exports, notices>>

RunRejects(j) ==
    /\ jobStage[j] = "run"
    /\ jobStatus' = [jobStatus EXCEPT ![j] = "failed"]
    /\ Settles(j)
    /\ UNCHANGED <<spawned, aborted, exports>>

Persists(j) ==
    /\ jobStage[j] = "persist"
    /\ exports' = exports \cup {j}
    /\ Settles(j)
    /\ UNCHANGED <<spawned, jobStatus, aborted>>

\* Mutated form of PersistFails: the failure leaves the status as it was.
PersistFailsQuietly(j) ==
    /\ jobStage[j] = "persist"
    /\ Settles(j)
    /\ UNCHANGED <<spawned, jobStatus, aborted, exports>>

\* The export cannot be written: the completed job becomes a failed one.
PersistFails(j) ==
    /\ jobStage[j] = "persist"
    /\ jobStatus' = [jobStatus EXCEPT ![j] = "failed"]
    /\ Settles(j)
    /\ UNCHANGED <<spawned, aborted, exports>>

JobsNext ==
    \/ Spawn
    \/ \E j \in Jobs : TimesOut(j) \/ RunReturns(j) \/ RunRejects(j) \/ Persists(j) \/ PersistFails(j)
    \/ UNCHANGED jobVars

\* A slot of the cap is held exactly by the jobs that are still at work: each
\* job frees its slot and is announced once, on every path (execute).
SlotsAreJobs ==
    /\ Cardinality(active) <= MaxConcurrent
    /\ \A j \in Jobs :
        /\ j \in active <=> jobStage[j] \in {"run", "persist"}
        /\ j \in finished <=> jobStage[j] = "settled"
        /\ notices[j] = IF jobStage[j] = "settled" THEN 1 ELSE 0

\* A job announced as completed has its export on disk, however its run, its
\* timeout and its write interleave.
CompletedIsExported == \A j \in finished : jobStatus[j] = "completed" => j \in exports

\* The slots count the jobs that run, and no job completes without its export.
JobsSound == JobsTypeOK /\ SlotsAreJobs /\ CompletedIsExported

-----------------------------------------------------------------------------
(* One command.                                                             *)

VARIABLES
    child,          \* "none", "up", "gone", or "failed" to spawn
    helper,         \* the helper: "none", "group", "escaped" or "gone"
    timer,          \* the timeout is armed
    listening,      \* the abort listener is registered
    signal,         \* input.signal.aborted
    timedOut,       \* the timer fired
    printed, captured, truncated,
    outcome,        \* the promise: "pending", "refused", "error", "closed" or "timeout"
    lateKill        \* observer: a group was signalled after the promise resolved

processVars == <<child, helper, timer, listening, signal, timedOut, printed, captured, truncated, outcome, lateKill>>

Pending == outcome = "pending"

ProcessTypeOK ==
    /\ child \in {"none", "up", "gone", "failed"}
    /\ helper \in {"none", "group", "escaped", "gone"}
    /\ timer \in BOOLEAN /\ listening \in BOOLEAN /\ signal \in BOOLEAN
    /\ timedOut \in BOOLEAN /\ truncated \in BOOLEAN /\ lateKill \in BOOLEAN
    /\ printed \in 0 .. MaxOutput /\ captured \in 0 .. MaxCapture
    /\ outcome \in {"pending", "refused", "error", "closed", "timeout"}
    \* what can still act on the child ends with the promise
    /\ ~Pending => ~timer /\ ~listening

ProcessInit ==
    /\ child = "none" /\ helper = "none"
    /\ timer = FALSE /\ listening = FALSE /\ signal \in BOOLEAN
    /\ timedOut = FALSE /\ printed = 0 /\ captured = 0 /\ truncated = FALSE
    /\ outcome = "pending" /\ lateKill = FALSE

Starts ==
    /\ child = "none" /\ Pending
    /\ IF signal
       THEN outcome' = "refused" /\ UNCHANGED <<child, timer, listening>>
       ELSE child' = "up" /\ timer' = TRUE /\ listening' = TRUE /\ UNCHANGED outcome
    /\ UNCHANGED <<helper, signal, timedOut, printed, captured, truncated, lateKill>>

\* Mutated form of Finish: the abort listener stays registered.
FinishKeepsListener(how) ==
    /\ outcome' = how
    /\ timer' = FALSE /\ UNCHANGED listening

Finish(how) ==
    /\ outcome' = how
    /\ timer' = FALSE /\ listening' = FALSE

\* 'error': the command cannot be spawned.
SpawnFails ==
    /\ child = "up" /\ Pending /\ printed = 0 /\ helper = "none"
    /\ child' = "failed"
    /\ Finish("error")
    /\ UNCHANGED <<helper, signal, timedOut, printed, captured, truncated, lateKill>>

Forks(h) ==
    /\ child = "up" /\ helper = "none"
    /\ helper' = h
    /\ UNCHANGED <<child, timer, listening, signal, timedOut, printed, captured, truncated, outcome, lateKill>>

\* The command or its helper ends by itself.
Ends ==
    /\ \/ child = "up" /\ child' = "gone" /\ UNCHANGED helper
       \/ helper \in {"group", "escaped"} /\ helper' = "gone" /\ UNCHANGED child
    /\ UNCHANGED <<timer, listening, signal, timedOut, printed, captured, truncated, outcome, lateKill>>

\* Mutated form of Captures: the cut is marked only beyond the cap.
CapturesPast(n) ==
    /\ captured' = IF captured < MaxCapture /\ captured + n > MaxCapture THEN MaxCapture
                   ELSE IF captured < MaxCapture THEN captured + n ELSE captured
    /\ truncated' = (truncated \/ (captured < MaxCapture /\ captured + n > MaxCapture))

\* append
Captures(n) ==
    IF captured < MaxCapture
    THEN /\ captured' = IF captured + n >= MaxCapture THEN MaxCapture ELSE captured + n
         /\ truncated' = (truncated \/ captured + n >= MaxCapture)
    ELSE UNCHANGED <<captured, truncated>>

Prints(n) ==
    /\ Pending /\ child # "none" /\ (child = "up" \/ helper \in {"group", "escaped"})
    /\ printed + n <= MaxOutput
    /\ printed' = printed + n
    /\ Captures(n)
    /\ UNCHANGED <<child, helper, timer, listening, signal, timedOut, outcome, lateKill>>

\* killGroup: SIGKILL to every process of the group.
KillGroup ==
    /\ child' = "gone"
    /\ helper' = IF helper = "group" THEN "gone" ELSE helper
    /\ lateKill' = (lateKill \/ ~Pending)

\* Mutated form of TimerFires: only the flag is set.
TimerMarks ==
    /\ timer /\ timer' = FALSE
    /\ timedOut' = TRUE
    /\ UNCHANGED <<child, helper, listening, signal, printed, captured, truncated, outcome, lateKill>>

TimerFires ==
    /\ timer /\ timer' = FALSE
    /\ timedOut' = TRUE
    /\ KillGroup
    /\ UNCHANGED <<listening, signal, printed, captured, truncated, outcome>>

\* The user cancels; the listener is registered once.
Aborts ==
    /\ ~signal /\ signal' = TRUE
    /\ IF listening THEN listening' = FALSE /\ KillGroup ELSE UNCHANGED <<listening, child, helper, lateKill>>
    /\ UNCHANGED <<timer, timedOut, printed, captured, truncated, outcome>>

\* 'close': the child is gone and nothing holds its pipes.
Closes ==
    /\ Pending /\ child = "gone" /\ helper \in {"none", "gone"}
    /\ Finish(IF timedOut THEN "timeout" ELSE "closed")
    /\ UNCHANGED <<child, helper, signal, timedOut, printed, captured, truncated, lateKill>>

ProcessNext ==
    \/ Starts \/ SpawnFails \/ (\E h \in {"group", "escaped"} : Forks(h)) \/ Ends
    \/ (\E n \in 1 .. MaxOutput : Prints(n)) \/ TimerFires \/ Aborts \/ Closes
    \/ UNCHANGED processVars

\* No group is signalled once the promise has resolved, when its number may
\* already belong to other processes: timer, abort and close in any order
\* (finish).
NoLateKill == ~lateKill

\* Output that is dropped is reported as truncated, at the cap's edge too
\* (append).
CutIsReported == captured < printed => truncated

\* A command that is started ends within its timeout, even when it has exited
\* and a helper holds its pipes, unless the helper left the group (killGroup).
CommandEnds == (child = "up") ~> (~Pending \/ helper = "escaped")

\* No signal reaches a group after its command settled, and what the capture
\* cut is reported as cut.
CommandSound == ProcessTypeOK /\ NoLateKill /\ CutIsReported

-----------------------------------------------------------------------------
(* Both kinds of work together: they share no state.                        *)

WorkInit == JobsInit /\ ProcessInit

WorkNext ==
    \/ JobsNext /\ UNCHANGED processVars
    \/ ProcessNext /\ UNCHANGED jobVars

WorkSpec == WorkInit /\ [][WorkNext]_<<jobVars, processVars>>

\* Background subagents and commands keep their books: the slots are the jobs
\* at work, a completed job has its export, no signal reaches a group after its
\* command settled, and cut output is reported as cut.
ProcessesSound == JobsSound /\ CommandSound
=============================================================================
