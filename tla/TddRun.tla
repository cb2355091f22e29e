------------------------------- MODULE TddRun -------------------------------
(***************************************************************************)
(* runWorkerTdd for one worker whose plan requires TDD: author the failing *)
(* tests, see them fail on a baseline, fix, see them pass; its worktrees,  *)
(* the files it leaves for applyWorker, plain runs of the same worker by   *)
(* the headless `delegate run', and crashes.                               *)
(*                                                                         *)
(* A subprocess, a check and a probe are one step with any outcome.  Every *)
(* artefact is the number of the attempt that wrote it (0: none).          *)
(***************************************************************************)
EXTENDS Integers

CONSTANTS
    MaxAttempts,        \* bound: runs of the worker
    Deliverables        \* of a manifest, when the run has one

VARIABLES
    tddStage,       \* where the attempt is
    tddStatus,      \* the worker's status in plan.json
    attempt,        \* attempts so far
    plain,          \* the attempt is a plain runWorker
    viaPlan,        \* it was started by the orchestrator, which catches what it throws
    manifest,       \* the deliverables the run must cover; none: a single repro
    open,           \* worktrees of the last attempt that exist
    patchOf, fixOf, \* who wrote patch.diff; who wrote fix.patch
    runOf, proofOf, \* run.json and tdd.json: who wrote it, its verdict, and run.tdd's
    inRepo,         \* whose patch is in the real tree
    \* What an observer remembers.
    seen,           \* attempt -> what the checks really showed: red, green
    spilled         \* an exception or a crash the code has no cleanup for

tddVars == <<manifest, tddStage, tddStatus, attempt, plain, viaPlan, open, patchOf, fixOf, runOf, proofOf,
             inRepo, seen, spilled>>

Attempts == 1 .. MaxAttempts
Nothing  == [by |-> 0, good |-> FALSE]
NoRecord == [by |-> 0, good |-> FALSE, tdd |-> FALSE]

TypeOK ==
    /\ tddStage \in {"idle", "repro", "baseline", "red", "fix", "green", "record", "persist"}
    /\ tddStatus \in {"planned", "running", "passed", "failed", "applied"}
    /\ manifest \subseteq Deliverables
    /\ attempt \in 0 .. MaxAttempts /\ plain \in BOOLEAN /\ viaPlan \in BOOLEAN
    /\ open \subseteq {"repro", "baseline", "fix", "plain"}
    /\ patchOf \in 0 .. MaxAttempts /\ fixOf \in 0 .. MaxAttempts
    /\ runOf \in [by : 0 .. MaxAttempts, good : BOOLEAN, tdd : BOOLEAN]
    /\ proofOf \in [by : 0 .. MaxAttempts, good : BOOLEAN]
    /\ inRepo \in 0 .. MaxAttempts
    /\ seen \in [Attempts -> [red : BOOLEAN, green : BOOLEAN]]
    /\ spilled \in BOOLEAN

Init ==
    /\ tddStage = "idle" /\ tddStatus = "planned" /\ attempt = 0
    /\ manifest \in {{}, Deliverables} /\ plain = FALSE /\ viaPlan = FALSE /\ open = {}
    /\ patchOf = 0 /\ fixOf = 0 /\ runOf = NoRecord /\ proofOf = Nothing /\ inRepo = 0
    /\ seen = [a \in Attempts |-> [red |-> FALSE, green |-> FALSE]] /\ spilled = FALSE

\* The worker is marked running and saved before its worktree is made; a tree
\* with changes that are not committed makes createIsolatedWorkspace throw.
StartsWith(first, isPlain) ==
    /\ tddStage = "idle" /\ attempt < MaxAttempts /\ tddStatus \in {"planned", "failed"}
    /\ attempt' = attempt + 1 /\ plain' = isPlain /\ viaPlan' \in BOOLEAN
    /\ \/ tddStage' = first /\ open' = {IF isPlain THEN "plain" ELSE "repro"}
          /\ tddStatus' = "running"
       \/ tddStage' = "idle" /\ open' = {}
          /\ tddStatus' = IF viaPlan' THEN "failed" ELSE "running"
    /\ UNCHANGED <<manifest, patchOf, fixOf, runOf, proofOf, inRepo, seen, spilled>>

StartTdd   == StartsWith("repro", FALSE)
StartPlain == StartsWith("persist", TRUE)

\* An exception: the orchestrator marks the worker failed; a run by hand prints it.
Throws == tddStage' = "idle" /\ tddStatus' = IF viaPlan THEN "failed" ELSE tddStatus

-----------------------------------------------------------------------------
(* The phases *)

\* A spawn that rejects is cleaned up after and marked failed here.
SpawnThrows(phase, tree) ==
    /\ tddStage = phase /\ tddStage' = "idle" /\ tddStatus' = "failed"
    /\ open' = open \ {tree}
    /\ UNCHANGED <<manifest, attempt, plain, viaPlan, patchOf, fixOf, runOf, proofOf, inRepo, seen, spilled>>

\* Mutated form of FailsWith: the early return leaves its worktree behind.
FailsWithoutCleanup(tree) ==
    /\ tddStage' = "idle" /\ tddStatus' = "failed"
    /\ proofOf' = [by |-> attempt, good |-> FALSE]
    /\ open' = open

\* An early failure writes tdd.json and the plan, and neither run.json nor a patch.
FailsWith(tree) ==
    /\ tddStage' = "idle" /\ tddStatus' = "failed"
    /\ proofOf' = [by |-> attempt, good |-> FALSE]
    /\ open' = open \ {tree}

\* repro_missing: the patch leaves the test paths.
ReproIsInvalid ==
    /\ tddStage = "repro" /\ FailsWith("repro")
    /\ UNCHANGED <<manifest, attempt, plain, viaPlan, patchOf, fixOf, runOf, inRepo, seen, spilled>>

\* The repro worktree goes, and the baseline one is made or throws.
ReproIsKept ==
    /\ tddStage = "repro"
    /\ \/ tddStage' = "red" /\ open' = (open \ {"repro"}) \cup {"baseline"} /\ UNCHANGED tddStatus
       \/ Throws /\ open' = open \ {"repro"}
    /\ UNCHANGED <<manifest, attempt, plain, viaPlan, patchOf, fixOf, runOf, proofOf, inRepo, seen, spilled>>

\* The results of the tests tagged with each deliverable, skipped ones left out.
Taps == [manifest -> SUBSET {"ok", "not_ok"}]

\* Mutated form of CoveredAndRed: one failing test of a deliverable is enough.
SomeRed(tap) == \A d \in manifest : "not_ok" \in tap[d]

\* computeCoverage and deliverablesNotGreen.
CoveredAndRed(tap) == \A d \in manifest : tap[d] = {"not_ok"}
AllGreen(tap)      == \A d \in manifest : tap[d] = {"ok"}

\* A single repro is red when the check ends with a non-zero code; a manifest
\* when every deliverable has a tagged test and none of them passes.
RedConfirmed(exit, tap) ==
    IF manifest = {} THEN exit = "non-zero" ELSE exit # "refused" /\ CoveredAndRed(tap)

Exits == {"zero", "non-zero", "timeout", "refused"}

\* Whatever happens on the baseline, its worktree goes (finally).
BaselineRuns ==
    /\ tddStage = "red"
    /\ \/ \E exit \in Exits, tap \in Taps :
            /\ seen' = [seen EXCEPT ![attempt].red =
                            IF manifest = {} THEN exit = "non-zero"
                            ELSE \A d \in manifest : tap[d] # {} /\ "ok" \notin tap[d]]
            /\ IF RedConfirmed(exit, tap)
               THEN tddStage' = "fix" /\ open' = open \ {"baseline"} /\ UNCHANGED <<tddStatus, proofOf>>
               ELSE FailsWith("baseline")
       \/ Throws /\ open' = open \ {"baseline"} /\ UNCHANGED <<proofOf, seen>>
    /\ UNCHANGED <<manifest, attempt, plain, viaPlan, patchOf, fixOf, runOf, inRepo, spilled>>

FixStarts ==
    /\ tddStage = "fix" /\ "fix" \notin open
    /\ \/ open' = open \cup {"fix"} /\ UNCHANGED <<tddStage, tddStatus>>
       \/ Throws /\ UNCHANGED open
    /\ UNCHANGED <<manifest, attempt, plain, viaPlan, patchOf, fixOf, runOf, proofOf, inRepo, seen, spilled>>

FixIsInvalid ==
    /\ tddStage = "fix" /\ "fix" \in open /\ FailsWith("fix")
    /\ UNCHANGED <<manifest, attempt, plain, viaPlan, patchOf, fixOf, runOf, inRepo, seen, spilled>>

FixEnds ==
    /\ tddStage = "fix" /\ "fix" \in open
    /\ tddStage' = "green" /\ fixOf' = attempt
    /\ UNCHANGED <<manifest, tddStatus, attempt, plain, viaPlan, open, patchOf, runOf, proofOf, inRepo, seen, spilled>>

\* The manifest wants every deliverable green, exit zero, and the full check.
GreenRuns ==
    /\ tddStage = "green"
    /\ \E exit \in Exits, tap \in Taps, fullPasses \in BOOLEAN :
        LET green == IF manifest = {} THEN exit = "zero"
                     ELSE exit = "zero" /\ AllGreen(tap) /\ fullPasses
        IN  seen' = [seen EXCEPT ![attempt].green = green]
    /\ tddStage' = "record"
    /\ UNCHANGED <<manifest, tddStatus, attempt, plain, viaPlan, open, patchOf, fixOf, runOf, proofOf, inRepo, spilled>>

\* A probe, a diff or a write that throws from here on leaves the fix worktree.
GreenThrows ==
    /\ tddStage \in {"green", "record"} /\ Throws /\ spilled' = TRUE
    /\ UNCHANGED <<manifest, attempt, plain, viaPlan, open, patchOf, fixOf, runOf, proofOf, inRepo, seen>>

\* patch.diff when there is a patch, then tdd.json, then the worktree goes.
RecordsProof ==
    /\ tddStage = "record"
    /\ \E hasPatch \in BOOLEAN :
        /\ patchOf' = IF hasPatch THEN attempt ELSE patchOf
        /\ proofOf' = [by |-> attempt, good |-> seen[attempt].green /\ hasPatch]
    /\ open' = open \ {"fix"} /\ tddStage' = "persist"
    /\ UNCHANGED <<manifest, tddStatus, attempt, plain, viaPlan, fixOf, runOf, inRepo, seen, spilled>>

\* runWorker's subprocess: its exit code and patch, and no tdd.json.
PlainEnds ==
    /\ tddStage = "persist" /\ plain /\ "plain" \in open
    /\ open' = open \ {"plain"}
    /\ \/ \E hasPatch, passes \in BOOLEAN :
            /\ patchOf' = IF hasPatch THEN attempt ELSE patchOf
            /\ seen' = [seen EXCEPT ![attempt].green = passes /\ hasPatch]
            /\ UNCHANGED <<tddStage, tddStatus>>
       \/ tddStage' = "idle" /\ tddStatus' = "failed" /\ UNCHANGED <<patchOf, seen>>
    /\ UNCHANGED <<manifest, attempt, plain, viaPlan, fixOf, runOf, proofOf, inRepo, spilled>>

\* run.json; its tdd field is the proof of a TDD run and nothing of a plain one.
WritesRun ==
    /\ tddStage = "persist" /\ "plain" \notin open /\ runOf.by # attempt
    /\ runOf' = [by |-> attempt,
                 good |-> IF plain THEN seen[attempt].green ELSE proofOf.good,
                 tdd |-> ~plain /\ proofOf.good]
    /\ UNCHANGED <<manifest, tddStage, tddStatus, attempt, plain, viaPlan, open, patchOf, fixOf, proofOf, inRepo,
                   seen, spilled>>

\* Mutated form of MayFinish: the status may be saved before run.json is.
MayFinishEarly == tddStage = "persist" /\ "plain" \notin open

MayFinish == tddStage = "persist" /\ "plain" \notin open /\ runOf.by = attempt

Finishes ==
    /\ MayFinish
    /\ tddStatus' = IF (IF plain THEN seen[attempt].green ELSE proofOf.good) THEN "passed" ELSE "failed"
    /\ tddStage' = "idle"
    /\ UNCHANGED <<manifest, attempt, plain, viaPlan, open, patchOf, fixOf, runOf, proofOf, inRepo, seen, spilled>>

\* run.json cannot be written: by then tdd.json says what it says.
RunThrows ==
    /\ tddStage = "persist" /\ "plain" \notin open /\ Throws
    /\ UNCHANGED <<manifest, attempt, plain, viaPlan, open, patchOf, fixOf, runOf, proofOf, inRepo, seen, spilled>>

\* The process dies: its worktrees stay, and so does "running".
Crashes ==
    /\ tddStage # "idle" /\ tddStage' = "idle" /\ spilled' = TRUE
    /\ UNCHANGED <<manifest, tddStatus, attempt, plain, viaPlan, open, patchOf, fixOf, runOf, proofOf, inRepo, seen>>

\* Mutated form of RunIsProven: any proof in the worker's directory will do.
SomeProof == proofOf.good

\* requireValidatedTest: run.json itself carries a green_confirmed proof.
RunIsProven == runOf.tdd

\* /delegate apply: a plan whose workers require TDD makes the proof mandatory.
Applies ==
    /\ tddStage = "idle" /\ tddStatus = "passed" /\ runOf.good /\ patchOf # 0
    /\ proofOf.good /\ RunIsProven
    /\ inRepo' = patchOf /\ tddStatus' = "applied"
    /\ UNCHANGED <<manifest, tddStage, attempt, plain, viaPlan, open, patchOf, fixOf, runOf, proofOf, seen, spilled>>

Rests == tddStage = "idle" /\ UNCHANGED tddVars

Next ==
    \/ StartTdd \/ StartPlain
    \/ SpawnThrows("repro", "repro") \/ ReproIsInvalid \/ ReproIsKept \/ BaselineRuns
    \/ FixStarts \/ ("fix" \in open /\ SpawnThrows("fix", "fix")) \/ FixIsInvalid \/ FixEnds
    \/ GreenRuns \/ GreenThrows \/ RecordsProof \/ PlainEnds \/ WritesRun \/ Finishes
    \/ RunThrows \/ Crashes \/ Applies \/ Rests

Spec == Init /\ [][Next]_tddVars

-----------------------------------------------------------------------------

\* What the plan calls passed is backed by a patch and a run record of one and
\* the same attempt, through crashes, early failures that write neither, and
\* plain runs in between.
PassedIsBacked ==
    tddStatus \in {"passed", "applied"} => runOf.good /\ runOf.by = patchOf /\ seen[patchOf].green

\* A patch /delegate apply lands for a TDD-required worker is one whose tests
\* were seen to fail on the baseline and pass with it, in the same attempt.
LandedIsProven == inRepo # 0 => seen[inRepo].red /\ seen[inRepo].green

\* A run that ends on a path the code cleans up leaves no worktree open.
NoTreeIsLeft == tddStage = "idle" /\ ~spilled => open = {}

\* A worker passes, and lands, only with a red test that turned green, and no
\* worktree outlives the run but one whose own cleanup failed.
ProofSound == TypeOK /\ PassedIsBacked /\ LandedIsProven /\ NoTreeIsLeft
=============================================================================
