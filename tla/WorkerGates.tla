---------------------------- MODULE WorkerGates ----------------------------
(***************************************************************************)
(* What stands between a worker's patch and the real tree: the validation  *)
(* pipeline (validateWorkerResult with evaluateCompleteness and            *)
(* validatePatch), the loader that `delegate validate`, the autopilot and  *)
(* the coordinator use, and applyWorker with the surfaces that call it.    *)
(*                                                                         *)
(* The patch touches some of six files, each of one kind; a task makes one *)
(* demand of it; a run is good but for one field.  `module' is a module of *)
(* src/ the patch adds, and `caller' and `test' may be made to import it.  *)
(***************************************************************************)
EXTENDS Integers, FiniteSets

VARIABLES
    demand,         \* what the task packet asks for
    touches,        \* changedFiles of run.json, and the files of patch.diff
    wires,          \* files of the patch that gain an import of `module'
    run,            \* run.json: checkPassed, qualityGate and tdd
    proof,          \* status of tdd.json
    standing,       \* the worker's status in plan.json
    importers,      \* files of the real tree that import `module'
    moved,          \* another worker's patch changed `caller'
    inTree,         \* the patch is in the real tree
    verdict,        \* the last validation: "none", "valid" or the failed gates
    answer          \* the last apply: its surface and whether it landed

gateVars == <<demand, touches, wires, run, proof, standing, importers, moved, inTree, verdict, answer>>

Artifacts == {"module", "caller", "test", "lockfile", "secret", "outside"}
Allowed   == Artifacts \ {"outside"}
Generated == {"lockfile"}
Sensitive == {"secret"}
TestFiles == {"test"}
Demands   == {"nothing", "must_change", "must_not_change", "must_exist", "file_exists",
              "expectedTest", "manual_review", "production", "reachable", "mustBeTested", "tdd"}
GoodRun   == [check |-> TRUE, quality |-> "passed", tdd |-> "green_confirmed"]
Runs      == {GoodRun, [GoodRun EXCEPT !.check = FALSE]}
             \cup {[GoodRun EXCEPT !.quality = q] : q \in {"none", "blocked", "skipped"}}
             \cup {[GoodRun EXCEPT !.tdd = t] : t \in {"none", "green_failed", "partial"}}
Surfaces  == {"slash", "headless", "driver", "auto"}
Answers   == [surface : Surfaces \cup {"none"}, landed : BOOLEAN]

TypeOK ==
    /\ demand \in Demands /\ touches \subseteq Artifacts /\ wires \subseteq touches
    /\ run \in Runs /\ proof \in {"none", "red_failed", "green_confirmed", "waived"}
    /\ standing \in {"passed", "failed", "conflict", "applied"}
    /\ importers \subseteq {"caller", "test"} /\ moved \in BOOLEAN /\ inTree \in BOOLEAN
    /\ verdict \in {"none", "valid", "invalid", "orphaned"} /\ answer \in Answers

Init ==
    /\ demand \in Demands
    /\ touches \in {t \in SUBSET Artifacts : Cardinality(t) <= 1 \/ t \subseteq {"module", "caller", "test"}}
    /\ wires \in SUBSET IF "module" \in touches THEN touches \cap {"caller", "test"} ELSE {}
    /\ run \in IF demand \in {"nothing", "tdd"} THEN Runs ELSE {GoodRun}
    /\ proof \in IF demand = "tdd" THEN {"none", "red_failed", "green_confirmed", "waived"} ELSE {"none"}
    /\ standing \in IF run = GoodRun THEN {"passed", "conflict"} ELSE {IF run.check THEN "passed" ELSE "failed"}
    /\ importers = {} /\ moved = FALSE /\ inTree = FALSE
    /\ verdict = "none" /\ answer = [surface |-> "none", landed |-> FALSE]

-----------------------------------------------------------------------------
(* The gates *)

\* validatePatch: gate 3, gate 7 and gate 3 of applyWorker.
PatchIsClean(already) ==
    /\ touches # {} /\ touches \subseteq Allowed
    /\ touches \cap (Sensitive \cup Generated \cup already) = {}

\* The files the predicates of a caller see; applyWorker hands in none.
RealTree == {"caller", "test"} \cup IF inTree THEN touches ELSE {}
NoFiles  == [given |-> FALSE, files |-> {}, importers |-> {}]
RealRoot == [given |-> TRUE, files |-> RealTree, importers |-> importers]

\* deriveReachabilityFromPatch: the loader adds a rule for every new module.
Derived == "module" \in touches

\* The reachability gate fails closed when it is given no importers.
Orphaned(seen, ruled) == ruled /\ seen.importers \ TestFiles = {}

\* Mutated form of ProductionChanged: any file but a generated one counts.
ProductionOrTest == touches \ Generated # {}

ProductionChanged == touches \ (TestFiles \cup Generated) # {}

\* evaluateCompleteness, with the one demand of the task.  The demand for a file
\* is about `module'; a symbol's test must be in an added line of a test file.
Complete(seen, ruled) ==
    /\ ~Orphaned(seen, ruled)
    /\ CASE demand = "must_change"                 -> "caller" \in touches
         [] demand = "must_not_change"             -> "caller" \notin touches
         [] demand \in {"must_exist", "file_exists"} -> seen.given /\ "module" \in seen.files
         [] demand \in {"expectedTest", "mustBeTested"} -> touches \cap TestFiles # {}
         [] demand = "manual_review"               -> FALSE
         [] demand = "production"                  -> ProductionChanged
         [] OTHER                                  -> TRUE

\* validateWorkerResult.  `opts' are qualityGateRequired and requireValidatedTest.
Applyable(seen, ruled, already, opts) ==
    /\ touches # {}
    /\ run.check /\ standing \in {"passed", "applied"}
    /\ PatchIsClean(already)
    /\ Complete(seen, ruled)
    /\ run.quality # "blocked" /\ (opts.quality => run.quality # "none")
    /\ opts.tested => run.tdd = "green_confirmed"

-----------------------------------------------------------------------------
(* The surfaces *)

Quality(q) == [quality |-> q, tested |-> FALSE]

\* loadAndValidateWorker reads the real root, where the patch is not yet.
Validate ==
    /\ \E q \in BOOLEAN :
        LET ruled == Derived \/ demand = "reachable"
        IN  verdict' = IF Applyable(RealRoot, ruled, {}, Quality(q)) THEN "valid"
                       ELSE IF Orphaned(RealRoot, ruled) THEN "orphaned" ELSE "invalid"
    /\ UNCHANGED <<demand, touches, wires, run, proof, standing, importers, moved, inTree, answer>>

\* git apply --check: the module is new, and the context of `caller' is there.
GitApplies == ~inTree /\ ~(moved /\ "caller" \in touches)

\* Mutated form of TddProven: a record is enough, whatever its status.
TddRecorded == demand = "tdd" => proof # "none"

TddProven == demand = "tdd" => proof \in {"green_confirmed", "waived"}

\* Mutated form of ApplyGates: a quality gate object is always asked for.
ApplyGatesMandatory(already, opts) ==
    /\ Applyable(NoFiles, demand = "reachable", already, opts)
    /\ standing = "passed"
    /\ run.quality \in {"passed", "blocked"}
    /\ TddProven
    /\ GitApplies

\* applyWorker up to git apply: the pipeline again without the predicates and
\* without the derived rule, its own status, quality and TDD checks, then git.
ApplyGates(already, opts) ==
    /\ Applyable(NoFiles, demand = "reachable", already, opts)
    /\ standing = "passed"
    /\ opts.quality => run.quality \in {"passed", "blocked"}    \* an object
    /\ TddProven
    /\ GitApplies

\* Mutated form of PreviewEligible: the record of the test-first run is read from run.json.
PreviewByRun(git) ==
    /\ standing = "passed" /\ run.check /\ PatchIsClean({}) /\ run.quality # "blocked"
    /\ demand = "tdd" => run.tdd = "green_confirmed"
    /\ git => GitApplies

\* previewApplyGates, which /delegate browse, gates and review-ui show; only
\* gates asks git.  The demands of the task are not among its gates.
PreviewEligible(git) ==
    /\ standing = "passed" /\ run.check /\ PatchIsClean({}) /\ run.quality # "blocked"
    /\ TddProven
    /\ git => GitApplies

Lands(surface) ==
    /\ inTree' = TRUE /\ standing' = "applied"
    /\ importers' = importers \cup wires
    /\ answer' = [surface |-> surface, landed |-> TRUE]
    /\ UNCHANGED <<demand, touches, wires, run, proof, moved, verdict>>

Refuses(surface) ==
    /\ answer' = [surface |-> surface, landed |-> FALSE]
    /\ UNCHANGED <<demand, touches, wires, run, proof, standing, importers, moved, inTree, verdict>>

\* /delegate apply, with a user to confirm; requireValidatedTest by the environment.
SlashApply ==
    \E tested \in BOOLEAN :
        IF ApplyGates({}, [quality |-> FALSE, tested |-> tested])
        THEN Lands("slash") ELSE Refuses("slash")

\* `delegate apply': isTTY is false, so the gate after git's refuses.
HeadlessApply == Refuses("headless")

\* The autopilot and the coordinator validate first; applyWorker does not get
\* their alreadyChangedPaths, and is told of a terminal only with a user to ask.
DriverApply ==
    \E already \in {{}, IF moved THEN {"caller"} ELSE {}}, q, tty \in BOOLEAN :
        IF /\ Applyable(RealRoot, Derived \/ demand = "reachable", already, Quality(q))
           /\ ApplyGates({}, Quality(FALSE)) /\ tty
        THEN Lands("driver") ELSE Refuses("driver")

\* autoApplyIfEligible: a plan with this worker alone, its own patch checks first.
AutoApply ==
    \E tested, alone \in BOOLEAN :
        IF /\ alone /\ run.check /\ PatchIsClean({})
           /\ ApplyGates({}, [quality |-> FALSE, tested |-> tested])
        THEN Lands("auto") ELSE Refuses("auto")

\* Another worker's patch changes `caller', and may make it import the module.
PeerLands ==
    /\ ~moved /\ ~inTree /\ moved' = TRUE
    /\ importers' \in {importers, importers \cup {"caller"}}
    /\ UNCHANGED <<demand, touches, wires, run, proof, standing, inTree, verdict, answer>>

Next == Validate \/ SlashApply \/ HeadlessApply \/ DriverApply \/ AutoApply \/ PeerLands

Spec == Init /\ [][Next]_gateVars

-----------------------------------------------------------------------------

\* A patch in the real tree passed its check, keeps to its paths, holds no
\* sensitive or generated file, was not blocked by the reviewer, and does what
\* its task demands as the tree then shows it: it changed what must change and
\* not what must not, brought a test or a production change where one is asked
\* for, and has its red and green proof where TDD is required.
LandedMeetsItsTask ==
    inTree =>
        /\ run.check /\ run.quality # "blocked"
        /\ touches \subseteq {"module", "caller", "test"}
        /\ demand = "must_change" => "caller" \in touches
        /\ demand = "must_not_change" => "caller" \notin touches
        /\ demand \in {"expectedTest", "mustBeTested"} => "test" \in touches
        /\ demand = "production" => touches \cap {"module", "caller"} # {}
        /\ demand = "tdd" => proof \in {"green_confirmed", "waived"}
        /\ demand # "manual_review"

\* A user who is told by `delegate validate' that a worker is applyable, with no
\* demand applyWorker cannot judge, is not refused by /delegate apply as long as
\* the tree did not move and no test proof is asked for.
ValidIsApplyable ==
    [][(/\ verdict = "valid" /\ ~moved /\ ~inTree
        /\ demand = "tdd" => proof \notin {"none", "red_failed"}
        /\ run.tdd = "green_confirmed" /\ demand \notin {"must_exist", "file_exists", "reachable"}
        /\ answer' # answer /\ answer'.surface = "slash") => answer'.landed]_gateVars

\* docs/delegation-workflow.md:78: validate and apply auto-derive reachability
\* rules, so a patch whose new module nothing but tests imports is not applied.
NoOrphanLands == inTree /\ "module" \in touches => importers \ TestFiles # {}

\* docs/delegation-workflow.md:107: `delegate apply' re-validates and refuses
\* what is not applyable; a worker that passes every gate is not refused.
HeadlessRefusesForAReason ==
    answer = [surface |-> "headless", landed |-> FALSE] /\ ~inTree
        => ~ApplyGates({}, Quality(FALSE))

\* The preview and the apply agree but for the demands of the task, which only
\* the apply looks at (reviewBrowser.ts:65, apply.ts:157).
PreviewIsTheApply ==
    ApplyGates({}, Quality(FALSE))
        <=> (PreviewEligible(TRUE) /\ Complete(NoFiles, demand = "reachable"))

\* A worker that landed met what its task declares, at every gate, and the
\* preview told of it.
GatesSound == TypeOK /\ LandedMeetsItsTask /\ PreviewIsTheApply
=============================================================================
