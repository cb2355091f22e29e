-------------------------- MODULE DelegationRounds --------------------------
(***************************************************************************)
(* The two drivers that run a plan in rounds: runCoordinator, which asks a *)
(* planner after every round what to integrate and what to add, and        *)
(* runAutopilot, which applies what validates.  Both keep the plan in      *)
(* memory while the orchestrator and applyWorker write plan.json.          *)
(*                                                                         *)
(* runRunnableConcurrent is one step here (Delegation has its steps), with *)
(* every outcome it can have; so are validation and applyWorker (the gates *)
(* are in WorkerGates), which may refuse for a reason of their own.        *)
(***************************************************************************)
EXTENDS Integers, Sequences, SequencesExt

CONSTANTS
    Seeds,          \* the workers of the plan at the start
    Extras,         \* the workers the planner may add
    Paths,          \* files a patch may change
    MaxRounds,
    Needs           \* worker -> the workers it depends on

Tasks == Seeds \cup Extras

VARIABLES
    driver,         \* "coordinator" or "autopilot"
    config,         \* autoApply and, for the autopilot, stopOnConflict
    memory, disk,   \* the plan in memory and in plan.json: worker -> status
    changed,        \* changedFiles of each worker's last run
    round, stage,
    ran,            \* the workers that ran this round: worker -> passed
    turn,           \* the workers still to validate and apply this round
    roundBlocked,   \* the workers blocked this round; at first those of its conflicts
    roundPaths,     \* the files of the workers applied this round
    reported,       \* allApplied
    blocked,        \* allBlocked
    landed,         \* workers whose patch is in the real tree
    unrecorded,     \* workers that landed in an apply that failed after git apply
    stopped,        \* the signal is aborted
    result

roundsVars == <<driver, config, memory, disk, changed, round, stage, ran, turn, roundBlocked,
                roundPaths, reported, blocked, landed, unrecorded, stopped, result>>

RoundStatus == {"absent", "planned", "passed", "failed", "conflict", "applied"}
Results     == {"none", "done", "failed", "blocked", "completed", "dry_run"}

TypeOK ==
    /\ driver \in {"coordinator", "autopilot"}
    /\ config \in [autoApply : BOOLEAN, stopOnConflict : BOOLEAN]
    /\ memory \in [Tasks -> RoundStatus] /\ disk \in [Tasks -> RoundStatus]
    /\ changed \in [Tasks -> SUBSET Paths]
    /\ round \in 0 .. MaxRounds
    /\ stage \in {"round", "turn", "integrate", "closing", "over"}
    /\ DOMAIN ran \subseteq Tasks /\ turn \in Seq(Tasks) /\ roundBlocked \subseteq Tasks
    /\ roundPaths \subseteq Paths
    /\ reported \subseteq Tasks /\ blocked \subseteq Tasks
    /\ landed \subseteq Tasks /\ unrecorded \subseteq landed
    /\ stopped \in BOOLEAN /\ result \in Results

Listed(plan) == {w \in Tasks : plan[w] # "absent"}

\* Mutated form of Ready: a dependency that has passed is enough.
ReadyOncePassed(plan, statuses) ==
    {w \in Tasks : plan[w] \in statuses /\ \A d \in Needs[w] : plan[d] \in {"passed", "applied"}}

Ready(plan, statuses) ==
    {w \in Tasks : plan[w] \in statuses /\ \A d \in Needs[w] : plan[d] = "applied"}

\* computeRunnable asks for planned workers only; the autopilot's filter and
\* the orchestrator's own take the failed ones too.
Eligible == Ready(memory, IF driver = "coordinator" THEN {"planned"} ELSE {"planned", "failed"})

Init ==
    /\ driver \in {"coordinator", "autopilot"}
    /\ config \in [autoApply : BOOLEAN, stopOnConflict : BOOLEAN]
    /\ driver = "coordinator" => config.stopOnConflict
    /\ memory = [w \in Tasks |-> IF w \in Seeds THEN "planned" ELSE "absent"]
    /\ disk = memory                        \* savePlan before the first round
    /\ changed = [w \in Tasks |-> {}]
    /\ round = 0 /\ stage = "round" /\ ran = <<>> /\ turn = <<>> /\ roundBlocked = {}
    /\ roundPaths = {} /\ reported = {} /\ blocked = {} /\ landed = {} /\ unrecorded = {}
    /\ stopped = FALSE /\ result = "none"

Returns(status) == result' = status /\ stage' = "over"

-----------------------------------------------------------------------------
(* One round *)

\* Mutated form of RoundsAreUsed: the loop's test is off by one.
RoundsAreExceeded == round > MaxRounds

RoundsAreUsed == round >= MaxRounds

\* The loop's test, the abort and an empty set of workers all end it.
LeavesTheLoop ==
    /\ stage = "round"
    /\ RoundsAreUsed \/ stopped \/ Eligible = {}
    /\ stage' = "closing"
    /\ UNCHANGED <<driver, config, memory, disk, changed, round, ran, turn, roundBlocked, roundPaths,
                   reported, blocked, landed, unrecorded, stopped, result>>

\* dry_run and the disabled autopilot return before the first round.
ReturnsAtOnce ==
    /\ stage = "round" /\ round = 0 /\ driver = "autopilot" /\ ~stopped
    /\ \E status \in {"dry_run", "blocked"} : Returns(status)
    /\ UNCHANGED <<driver, config, memory, disk, changed, round, ran, turn, roundBlocked, roundPaths,
                   reported, blocked, landed, unrecorded, stopped>>

\* Mutated form of NextRound: the counter of the loop does not advance.
SameRound == round

NextRound == round + 1

\* A worker that passed conflicts with every other passed one whose changed files
\* it shares, also one of an earlier round that was never applied.
Clash(passed, after) ==
    LET holders == passed \cup {w \in Tasks : memory[w] = "passed"}
    IN {w \in holders : \E v \in holders \ {w} :
            after[w] \cap after[v] # {} /\ (w \in passed \/ v \in passed)}

\* runRunnableConcurrent with stopOnFirstFailure: every runnable worker runs,
\* unless one failed or conflicts or the signal is aborted.
RoundOf(who, passed, files, abort) ==
    /\ passed \subseteq who
    /\ \A w \in Tasks \ passed : files[w] = Paths    \* the choice is not looked at
    /\ changed' = [w \in Tasks |-> IF w \in passed THEN files[w] ELSE changed[w]]
    /\ roundBlocked' = Clash(passed, changed')
    /\ (who = Ready(memory, {"planned", "failed"})) \/ passed # who \/ roundBlocked' # {} \/ abort
    /\ memory' = [w \in Tasks |-> IF w \in roundBlocked' THEN "conflict"
                                  ELSE IF w \in passed THEN "passed"
                                  ELSE IF w \in who THEN "failed" ELSE memory[w]]
    /\ ran' = [w \in who |-> w \in passed]
    /\ stopped' = abort

RunsWorkers ==
    /\ stage = "round" /\ ~RoundsAreUsed /\ ~stopped /\ Eligible # {}
    /\ round' = NextRound /\ roundPaths' = {}
    /\ \E who \in SUBSET Ready(memory, {"planned", "failed"}), passed \in SUBSET Tasks,
          files \in [Tasks -> (SUBSET Paths) \ {{}}], abort \in BOOLEAN :
          RoundOf(who, passed, files, abort)
    /\ \/ stage' = "turn" /\ disk' = memory' /\ UNCHANGED result
       \* the save of the conflicts fails: the call throws, with the workers' own saves on disk
       \/ /\ roundBlocked' # {} /\ Returns("failed")
          /\ disk' = [w \in Tasks |-> IF w \in roundBlocked' THEN "passed" ELSE memory'[w]]
    /\ UNCHANGED <<driver, config, turn, reported, blocked, landed, unrecorded>>

-----------------------------------------------------------------------------
(* What is done with the round *)

\* coordinatorTurn throws, says done, or picks any ids, any of them twice.
PlannerFails ==
    /\ stage = "turn" /\ driver = "coordinator" /\ Returns("failed")
    /\ UNCHANGED <<driver, config, memory, disk, changed, round, ran, turn, roundBlocked, roundPaths,
                   reported, blocked, landed, unrecorded, stopped>>

PlannerIsDone ==
    /\ stage = "turn" /\ driver = "coordinator" /\ Returns("done")
    /\ disk' = memory
    /\ UNCHANGED <<driver, config, memory, changed, round, ran, turn, roundBlocked, roundPaths,
                   reported, blocked, landed, unrecorded, stopped>>

PlannerPicks ==
    /\ stage = "turn" /\ driver = "coordinator"
    /\ \E n \in 0 .. 2 : turn' \in [1 .. n -> Tasks]
    /\ stage' = "integrate"
    /\ UNCHANGED <<driver, config, memory, disk, changed, round, ran, roundBlocked, roundPaths,
                   reported, blocked, landed, unrecorded, stopped, result>>

\* The autopilot goes through the workers in the order they finished; with
\* stopOnConflict it returns on a conflict.
AutopilotPicks ==
    /\ stage = "turn" /\ driver = "autopilot" /\ (roundBlocked = {} \/ ~config.stopOnConflict)
    /\ turn' \in SetToSeqs(DOMAIN ran) /\ stage' = "integrate" /\ roundBlocked' = {}
    /\ UNCHANGED <<driver, config, memory, disk, changed, round, ran, roundPaths,
                   reported, blocked, landed, unrecorded, stopped, result>>

AutopilotStops ==
    /\ stage = "turn" /\ driver = "autopilot" /\ roundBlocked # {} /\ config.stopOnConflict
    /\ blocked' = blocked \cup roundBlocked /\ Returns("blocked")
    /\ UNCHANGED <<driver, config, memory, disk, changed, round, ran, turn, roundBlocked, roundPaths,
                   reported, landed, unrecorded, stopped>>

\* The validation both drivers ask for, as far as this module can tell, and
\* applyWorker's own check of the status.
Validates(w) == disk[w] \in {"passed", "applied"} /\ changed[w] \cap roundPaths = {}
Applies(w)   == Validates(w) /\ disk[w] = "passed"

Offered(w) ==
    /\ stage = "integrate" /\ turn # <<>> /\ w = Head(turn)
    /\ turn' = Tail(turn)

\* Mutated form of MarkApplied: only plan.json learns of the apply.
MarkOnDisk(w) ==
    /\ disk' = [disk EXCEPT ![w] = "applied"]
    /\ UNCHANGED memory

\* applyWorker saves its own copy of the plan; the driver then marks its own.
MarkApplied(w) ==
    /\ disk' = [disk EXCEPT ![w] = "applied"]
    /\ memory' = [memory EXCEPT ![w] = "applied"]

\* With no confirm function applyWorker is called with isTTY false, and refuses:
\* an apply that happens had a user who said yes.
AppliesWorker(w) ==
    /\ Offered(w)
    /\ config.autoApply /\ w \in DOMAIN ran /\ ran[w] /\ w \notin roundBlocked /\ Applies(w)
    /\ landed' = landed \cup {w} /\ reported' = reported \cup {w}
    /\ roundPaths' = roundPaths \cup changed[w]
    /\ MarkApplied(w)
    /\ UNCHANGED <<driver, config, changed, round, stage, ran, roundBlocked, blocked, unrecorded,
                   stopped, result>>

\* The patch is in the tree, and the audit record or the plan cannot be written.
AppliesHalf(w) ==
    /\ Offered(w)
    /\ config.autoApply /\ w \in DOMAIN ran /\ ran[w] /\ w \notin roundBlocked /\ Applies(w)
    /\ landed' = landed \cup {w} /\ unrecorded' = unrecorded \cup {w}
    /\ roundBlocked' = roundBlocked \cup {w}
    /\ UNCHANGED <<driver, config, memory, disk, changed, round, stage, ran, roundPaths, reported,
                   blocked, stopped, result>>

\* Not run, not passed, not valid, declined, refused, or left to the user.
Blocks(w) ==
    /\ Offered(w)
    /\ roundBlocked' = roundBlocked \cup {w}
    /\ UNCHANGED <<driver, config, memory, disk, changed, round, stage, ran, roundPaths, reported,
                   blocked, landed, unrecorded, stopped, result>>

-----------------------------------------------------------------------------
(* The end of a round and of the run *)

\* appendWorkers: a proposal with an id the plan has, or with a cycle, throws.
CoordinatorEndsRound ==
    /\ stage = "integrate" /\ turn = <<>> /\ driver = "coordinator"
    /\ blocked' = blocked \cup roundBlocked
    /\ \/ \E new \in SUBSET (Extras \ Listed(memory)) :
            /\ result' = result
            /\ \A w \in new : Needs[w] \subseteq Listed(memory) \cup new
            /\ memory' = [w \in Tasks |-> IF w \in new THEN "planned" ELSE memory[w]]
            /\ disk' = memory'
            /\ stage' = IF new = {} /\ Eligible = {} THEN "closing" ELSE "round"
       \/ Returns("failed") /\ UNCHANGED <<memory, disk>>
    /\ UNCHANGED <<driver, config, changed, round, ran, turn, roundBlocked, roundPaths, reported,
                   landed, unrecorded, stopped>>

\* With autoApply off a blocked worker ends the run; a failed one ends the
\* loop when stopOnConflict is set.
AutopilotEndsRound ==
    /\ stage = "integrate" /\ turn = <<>> /\ driver = "autopilot"
    /\ blocked' = blocked \cup roundBlocked
    /\ IF roundBlocked # {} /\ ~config.autoApply
       THEN disk' = memory /\ Returns("blocked")
       ELSE /\ stage' = IF config.stopOnConflict /\ \E w \in DOMAIN ran : ~ran[w]
                        THEN "closing" ELSE "round"
            /\ UNCHANGED <<disk, result>>
    /\ UNCHANGED <<driver, config, memory, changed, round, ran, turn, roundBlocked, roundPaths,
                   reported, landed, unrecorded, stopped>>

Closes ==
    /\ stage = "closing"
    /\ disk' = memory
    /\ \/ /\ driver = "coordinator"
          /\ Returns(IF blocked # {} \/ \E w \in Tasks : memory[w] \in {"planned", "failed"}
                     THEN "blocked" ELSE "completed")
       \/ /\ driver = "autopilot"
          /\ \/ Returns(IF blocked # {} /\ reported = {} THEN "blocked" ELSE "completed")
             \/ reported # {} /\ Returns("failed")          \* the final check fails
    /\ UNCHANGED <<driver, config, memory, changed, round, ran, turn, roundBlocked, roundPaths,
                   reported, blocked, landed, unrecorded, stopped>>

Aborts ==
    /\ result = "none" /\ ~stopped /\ stopped' = TRUE
    /\ UNCHANGED <<driver, config, memory, disk, changed, round, stage, ran, turn, roundBlocked,
                   roundPaths, reported, blocked, landed, unrecorded, result>>

Ended == result # "none" /\ UNCHANGED roundsVars

DriverStep ==
    \/ LeavesTheLoop \/ ReturnsAtOnce \/ RunsWorkers
    \/ PlannerFails \/ PlannerIsDone \/ PlannerPicks \/ AutopilotPicks \/ AutopilotStops
    \/ \E w \in Tasks : AppliesWorker(w) \/ AppliesHalf(w) \/ Blocks(w)
    \/ CoordinatorEndsRound \/ AutopilotEndsRound \/ Closes

Next == DriverStep \/ Aborts \/ Ended

-----------------------------------------------------------------------------

\* When a driver has returned, the workers it reports as applied are in the
\* real tree and "applied" in plan.json, and no other worker is either, except
\* one whose apply failed after git apply: no save of the driver's own copy of
\* the plan takes an applied worker back.
ReportIsTheTree ==
    result # "none" =>
        /\ {w \in Tasks : disk[w] = "applied"} = reported
        /\ landed = reported \cup unrecorded

\* A worker's patch enters the tree after the patches of every worker it
\* depends on, whatever the planner adds and integrates and in which order.
DependenciesFirst ==
    [][\A w \in landed' \ landed : Needs[w] \subseteq landed]_roundsVars

\* A run ends, also one whose workers keep failing and are eligible again.
RunEnds == <>(result # "none")

\* What a driver reports is what the tree and plan.json hold.
DriverSound == TypeOK /\ ReportIsTheTree
=============================================================================
