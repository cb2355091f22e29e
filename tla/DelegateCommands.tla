--------------------------- MODULE DelegateCommands ---------------------------
(***************************************************************************)
(* The surface of delegation: the /delegate sub-commands of a session, the *)
(* `deepcoder delegate' commands of a script and the delegate tool, as     *)
(* what each may do with the plan they name.  A command is one step with   *)
(* every answer the user and every outcome its workers may give; the runs  *)
(* themselves are in Delegation and TddRun, the rounds of a driver in      *)
(* DelegationRounds, and the gates before a patch lands in WorkerGates.    *)
(* Commands that only read a plan (status, review, diff, log, ...) change  *)
(* nothing and are one step.                                               *)
(***************************************************************************)
EXTENDS Integers, FiniteSets, FiniteSetsExt

CONSTANTS
    Crew,       \* a sequence: the workers of a plan that splits the task
    NoPlan

VARIABLES
    session,    \* the process: a terminal, a delegated worker, its settings
    plan,       \* plan.json of the plan the commands name
    runs,       \* run.json of each worker
    proof,      \* workers whose tdd.json says green_confirmed
    tree,       \* workers whose patch is in the checkout
    deed        \* what the last command asked and did

commandVars == <<session, plan, runs, proof, tree, deed>>

Members == {Crew[i] : i \in DOMAIN Crew}
First   == Crew[1]
Status  == {"planned", "running", "passed", "failed", "applied", "discarded"}
Records == {"none", "failed", "passed", "proven"}
Shapes  == {{First}, Members}

\* What a command may ask, and the questions answered yes.
Questions == {"run", "apply"}
NoDeed == [cmd |-> "none", yes |-> {}, spawned |-> {}, landed |-> {}, opened |-> {}]

Plans == {NoPlan} \cup UNION {[status : [W -> Status], tdd : [W -> BOOLEAN]] : W \in Shapes}

TypeOK ==
    /\ session \in [tty : BOOLEAN, worker : BOOLEAN, acceptanceFirst : BOOLEAN, autopilot : BOOLEAN,
                    autoApply : BOOLEAN]
    /\ plan \in Plans
    /\ runs \in [Members -> Records] /\ proof \subseteq Members /\ tree \subseteq Members
    /\ deed.yes \subseteq Questions
    /\ deed.spawned \cup deed.landed \cup deed.opened \subseteq Members \cup {"other"}

Init ==
    /\ session \in [tty : BOOLEAN, worker : BOOLEAN, acceptanceFirst : BOOLEAN, autopilot : BOOLEAN,
                    autoApply : BOOLEAN]
    /\ plan = NoPlan
    /\ runs = [w \in Members |-> "none"] /\ proof = {} /\ tree = {}
    /\ deed = NoDeed

-----------------------------------------------------------------------------
(* The guards the commands share *)

Listed == IF plan = NoPlan THEN {} ELSE DOMAIN plan.status

\* The nested-delegation guard of the slash commands and of the tool.
NotAWorker == ~session.worker

\* confirm() answers no without a terminal.
Says(answer) == session.tty /\ answer

Runnable(w) == plan.status[w] \in {"planned", "failed"}

\* runnableWorkers: each worker depends on the one before it in the crew.
DependencyApplied(w) ==
    \A i \in DOMAIN Crew : w = Crew[i] /\ i > 1 /\ Crew[i - 1] \in Listed => plan.status[Crew[i - 1]] = "applied"

Ready == {w \in Listed : Runnable(w) /\ DependencyApplied(w)}

DemandsTdd == session.acceptanceFirst \/ \E w \in Listed : plan.tdd[w]

\* Mutated form of MayLand: only a worker the plan marks needs its proof.
MayLandOnDemand(w, validated) ==
    /\ runs[w] \in {"passed", "proven"} /\ plan.status[w] = "passed"
    /\ plan.tdd[w] => w \in proof

\* applyWorker: the gates a worker's own record decides.
MayLand(w, validated) ==
    /\ runs[w] \in {"passed", "proven"} /\ plan.status[w] = "passed"
    /\ validated => runs[w] = "proven"
    /\ plan.tdd[w] => w \in proof

Does(cmd, yes, spawned, landed) ==
    deed' = [cmd |-> cmd, yes |-> yes, spawned |-> spawned, landed |-> landed, opened |-> {}]

-----------------------------------------------------------------------------
(* Planning *)

NewPlan(W, tdd) == [status |-> [w \in W |-> "planned"], tdd |-> [w \in W |-> tdd]]

\* A new plan has a directory of its own: no run, no proof; the patches of the
\* plan before it are no longer followed.
Saves(p) ==
    /\ plan' = p
    /\ runs' = [w \in Members |-> "none"] /\ proof' = {} /\ tree' = {}

\* /delegate plan.  The slash commands give the planner no root, so it never
\* splits the task; preflight does not look at acceptance-first, and --smart
\* shows a decomposition and saves nothing.
PlanSlash ==
    \E kind \in {"plain", "tdd", "strict", "preflight", "smart"} :
        /\ IF kind = "smart" THEN UNCHANGED <<plan, runs, proof, tree>>
           ELSE Saves(NewPlan({First}, kind \in {"tdd", "strict"}
                                       \/ (kind = "plain" /\ session.acceptanceFirst)))
        /\ Does("plan", {}, {}, {})
        /\ UNCHANGED session

\* deepcoder delegate plan: the areas of the task that exist under the root.
PlanHeadless ==
    \E W \in Shapes, tdd \in BOOLEAN :
        /\ Saves(NewPlan(W, tdd))
        /\ Does("plan", {}, {}, {})
        /\ UNCHANGED session

-----------------------------------------------------------------------------
(* Running *)

Outcomes == {"passed", "failed"}

\* run.json and the status after the workers of W ran with these outcomes; a
\* test-first run that passes is proven red and then green.
AfterRuns(p, W, outcome, tddRun) ==
    /\ plan' = [p EXCEPT !.status = [w \in DOMAIN p.status |-> IF w \in W THEN outcome[w] ELSE p.status[w]]]
    /\ runs' = [w \in Members |-> IF w \notin W THEN runs[w]
                                  ELSE IF outcome[w] = "failed" THEN "failed"
                                  ELSE IF tddRun THEN "proven" ELSE "passed"]
    /\ proof' = IF tddRun THEN (proof \ W) \cup {w \in W : outcome[w] = "passed"} ELSE proof

\* Mutated form of RunGuards: a worker process may run workers.
RunGuardsAtAnyDepth == session.tty /\ plan # NoPlan

RunGuards == NotAWorker /\ session.tty /\ plan # NoPlan

\* Mutated form of MayRunAlone: only a worker that is in the tree is refused.
MayRunUnlessApplied(w) == plan.status[w] # "applied"

\* The status check of /delegate run with a worker: its dependencies do not count.
MayRunAlone(w) == Runnable(w)

\* DEEPCODER_DELEGATE_AUTO_APPLY: the only worker of a plan, passed, lands at
\* once, with no question of its own.
AutoApplies(w, p, record, proven, tddRun) ==
    /\ session.autoApply /\ DOMAIN p.status = {w} /\ record \in {"passed", "proven"}
    /\ session.acceptanceFirst \/ DemandsTdd => record = "proven"
    /\ p.tdd[w] => proven

\* /delegate run <plan> <worker>: refused, cancelled, or one live run.  A
\* manifest is saved with the plan by the run, so a cancelled one leaves nothing.
RunWorker ==
    \E w \in Listed, flag, manifest, fits \in BOOLEAN, outcome \in Outcomes :
        LET tddRun == flag \/ DemandsTdd
            asked  == IF manifest THEN [plan EXCEPT !.tdd[w] = TRUE] ELSE plan
            record == IF outcome = "failed" THEN "failed" ELSE IF tddRun THEN "proven" ELSE "passed"
            lands  == fits /\ AutoApplies(w, asked, record, (tddRun \/ w \in proof), tddRun)
        IN  /\ RunGuards /\ MayRunAlone(w) /\ (manifest => tddRun)
            /\ Says(TRUE)
            /\ IF lands
               THEN /\ plan' = [asked EXCEPT !.status[w] = "applied"]
                    /\ runs' = [runs EXCEPT ![w] = record]
                    /\ proof' = IF tddRun THEN proof \cup {w} ELSE proof
                    /\ tree' = tree \cup {w}
               ELSE AfterRuns(asked, {w}, [v \in {w} |-> outcome], tddRun) /\ UNCHANGED tree
            /\ Does("run", {"run"}, {w}, IF lands THEN {w} ELSE {})
            /\ UNCHANGED session

\* A run that dies with the process leaves the worker "running" for good.
RunDies ==
    \E w \in Listed :
        /\ RunGuards /\ MayRunAlone(w) /\ Says(TRUE)
        /\ plan' = [plan EXCEPT !.status[w] = "running"]
        /\ Does("run", {"run"}, {w}, {})
        /\ UNCHANGED <<session, runs, proof, tree>>

\* /delegate run <plan>: every ready worker, one after the other or at once.
RunAll ==
    \E flag \in BOOLEAN : \E outcome \in [Ready -> Outcomes] :
        /\ RunGuards /\ Says(TRUE)
        /\ AfterRuns(plan, Ready, outcome, (flag \/ DemandsTdd))
        /\ Does("run", {"run"}, Ready, {})
        /\ UNCHANGED <<session, tree>>

\* A guard refuses a command, or the user says no to it.
Refused == Does("refused", {}, {}, {}) /\ UNCHANGED <<session, plan, runs, proof, tree>>

\* deepcoder delegate run: no terminal is asked for and the depth is not looked
\* at.  One named worker runs in a plan of its own, which is then the plan on
\* disk; with a dependency that plan throws before anything runs.
RunHeadless ==
    \/ \E outcome \in [Ready -> Outcomes] :
        /\ plan # NoPlan
        /\ AfterRuns(plan, Ready, outcome, FALSE)
        /\ Does("delegate run", {}, Ready, {})
        /\ UNCHANGED <<session, tree>>
    \/ \E outcome \in Outcomes :
        /\ First \in Listed /\ Runnable(First)
        /\ AfterRuns([status |-> [w \in {First} |-> plan.status[w]], tdd |-> [w \in {First} |-> plan.tdd[w]]],
                     {First}, [w \in {First} |-> outcome], FALSE)
        /\ Does("delegate run", {}, {First}, {})
        /\ UNCHANGED <<session, tree>>

-----------------------------------------------------------------------------
(* Landing and discarding *)

\* /delegate apply.
ApplySlash ==
    \E w \in Listed :
        /\ session.tty
        /\ MayLand(w, session.acceptanceFirst \/ plan.tdd[w])
        /\ Says(TRUE)
        /\ plan' = [plan EXCEPT !.status[w] = "applied"] /\ tree' = tree \cup {w}
        /\ Does("apply", {"apply"}, {}, {w})
        /\ UNCHANGED <<session, runs, proof>>

\* deepcoder delegate apply tells applyWorker that there is no terminal, which
\* then always refuses, after every other gate.
ApplyHeadless == \E w \in Listed : MayLand(w, FALSE) /\ Refused

\* discardWorker: whatever the worker's status was.
Discard ==
    \E w \in Listed :
        /\ plan' = [plan EXCEPT !.status[w] = "discarded"]
        /\ Does("discard", {}, {}, {})
        /\ UNCHANGED <<session, runs, proof, tree>>

-----------------------------------------------------------------------------
(* The drivers *)

\* /delegate decompose run and /batch, after the decomposition is found valid:
\* both ask; only the batch is a plan, saved before the question.
DecomposeRun ==
    /\ NotAWorker /\ session.tty /\ Says(TRUE)
    /\ Does("decompose", {"run"}, {"other"}, {})
    /\ UNCHANGED <<session, plan, runs, proof, tree>>

\* Mutated form of Batch: the question is asked and the answer not looked at.
BatchAnyway ==
    \E tdd, answer \in BOOLEAN, outcome \in Outcomes :
        /\ NotAWorker /\ session.tty
        /\ Saves([NewPlan({First}, tdd) EXCEPT !.status[First] = outcome])
        /\ Does("batch", IF answer THEN {"run"} ELSE {}, {First}, {})
        /\ UNCHANGED session

Batch ==
    \E tdd, answer \in BOOLEAN, outcome \in Outcomes :
        /\ NotAWorker /\ session.tty
        /\ IF Says(answer)
           THEN /\ plan' = [NewPlan({First}, tdd) EXCEPT !.status[First] = outcome]
                /\ runs' = [w \in Members |-> IF w # First THEN "none"
                                              ELSE IF outcome = "failed" THEN "failed"
                                              ELSE IF tdd THEN "proven" ELSE "passed"]
                /\ proof' = (IF tdd /\ outcome = "passed" THEN {First} ELSE {})
                /\ tree' = {}
           ELSE Saves(NewPlan({First}, tdd))
        /\ Does("batch", IF answer THEN {"run"} ELSE {}, IF answer THEN {First} ELSE {}, {})
        /\ UNCHANGED session

\* Mutated form of AutopilotGuards: a dry run is not told from a real one.
AutopilotGuardsAnywhere(dry) == NotAWorker

AutopilotGuards(dry) == NotAWorker /\ (dry \/ (session.tty /\ session.autopilot))

\* /delegate autopilot, which nobody confirms as a whole.  A dry run saves its
\* plan too.  The workers run without the test-first lifecycle, so one that the
\* plan marks never lands; the others land with autoApply on, their gates passed and a yes.
Autopilot ==
    \E dry, tdd, agreed \in BOOLEAN, outcome \in Outcomes :
        LET lands == ~dry /\ outcome = "passed" /\ ~tdd /\ Says(agreed)
            status == IF dry THEN "planned" ELSE IF lands THEN "applied" ELSE outcome
        IN  /\ AutopilotGuards(dry)
            /\ plan' = [NewPlan({First}, tdd) EXCEPT !.status[First] = status]
            /\ runs' = [w \in Members |-> IF w = First /\ ~dry THEN outcome ELSE "none"]
            /\ proof' = {} /\ tree' = (IF lands THEN {First} ELSE {})
            /\ Does(IF dry THEN "autopilot --dry-run" ELSE "autopilot",
                    IF lands THEN {"apply"} ELSE {}, IF dry THEN {} ELSE {First}, tree')
            /\ UNCHANGED session

\* /delegate coordinate and /coordinate: no terminal and no yes is asked for.
\* Without a model turn nothing is integrated, so --auto-apply lands nothing.
Coordinate ==
    \E outcome \in Outcomes :
        /\ NotAWorker
        /\ plan' = [NewPlan({First}, FALSE) EXCEPT !.status[First] = outcome]
        /\ runs' = [w \in Members |-> IF w = First THEN outcome ELSE "none"]
        /\ proof' = {} /\ tree' = {}
        /\ Does("coordinate", {}, {First}, {})
        /\ UNCHANGED session

\* /delegate full of a task found to be research; any other is an Autopilot run.
Full == Does("research", {}, {}, {}) /\ UNCHANGED <<session, plan, runs, proof, tree>>

-----------------------------------------------------------------------------
(* From a plan to a pull request *)

\* Mutated form of OpensPr: the exit of the run is not looked at, nor the verdict.
OpensPrAnyway(w, record) == TRUE

\* loadAndValidateWorker, without the test-first gate.
OpensPr(w, record) == record \in {"passed", "proven"}

\* deepcoder delegate pr: the record as it is, whatever the status in the plan.
PrHeadless ==
    \E w \in Listed :
        /\ OpensPr(w, runs[w])
        /\ deed' = [NoDeed EXCEPT !.cmd = "delegate pr", !.opened = {w}]
        /\ UNCHANGED <<session, plan, runs, proof, tree>>

\* deepcoder delegate auto: a plan that demands tests, run without the
\* test-first lifecycle.
RunsAuto(cmd) ==
    \E outcome \in Outcomes, asked \in BOOLEAN :
        /\ plan' = [NewPlan({First}, TRUE) EXCEPT !.status[First] = outcome]
        /\ runs' = [w \in Members |-> IF w = First THEN outcome ELSE "none"]
        /\ proof' = {} /\ tree' = {}
        /\ deed' = [cmd |-> cmd, yes |-> {}, spawned |-> {First}, landed |-> {},
                    opened |-> {w \in {First} : asked /\ OpensPr(w, outcome)}]
        /\ UNCHANGED session

AutoHeadless == RunsAuto("delegate auto")

\* Mutated form of AutoTool: the tool has no guard of its own.
AutoToolAtAnyDepth == RunsAuto("tool")

\* The delegate tool with auto: true, called by the model.
AutoTool == NotAWorker /\ RunsAuto("tool")

\* status, tdd, review, browse, diff, gates, log, telemetry, validate.
Look == Does("look", {}, {}, {}) /\ UNCHANGED <<session, plan, runs, proof, tree>>

Next ==
    \/ PlanSlash \/ PlanHeadless \/ Look \/ Refused
    \/ RunWorker \/ RunDies \/ RunAll \/ RunHeadless
    \/ ApplySlash \/ ApplyHeadless \/ Discard
    \/ DecomposeRun \/ Batch \/ Autopilot \/ Coordinate \/ Full
    \/ PrHeadless \/ AutoHeadless \/ AutoTool

Spec == Init /\ [][Next]_commandVars
-----------------------------------------------------------------------------
(* Properties *)

\* The commands that ask before they spawn, and those a script gives.
Asking    == {"run", "decompose", "batch"}
Headless  == {"delegate run", "delegate auto", "delegate pr"}
Replacing == {"plan", "batch", "autopilot", "autopilot --dry-run", "coordinate", "delegate auto", "tool"}

\* No live worker starts from a session's command inside a delegated worker; the
\* commands that say they ask have a terminal and its yes; the autopilot has a
\* terminal and its setting.  `coordinate' is the command with neither
\* (slashCommands.ts:2376-2392, 2626-2636, 2890-2919, 3012-3068).
SpawnsAreAuthorised ==
    deed.spawned # {} =>
        /\ session.worker => deed.cmd \in Headless
        /\ deed.cmd \in Asking => session.tty /\ "run" \in deed.yes
        /\ deed.cmd = "autopilot" => session.tty /\ session.autopilot
        /\ deed.cmd \in Asking \cup Headless \cup {"autopilot", "coordinate", "tool"}

\* A patch reaches the checkout from a session with a terminal, after a yes to
\* that patch, or of the only worker of its plan whose run was agreed to; and
\* with acceptance-first on, only the autopilot lands one that was not seen to
\* fail and then pass (slashCommands.ts:2487-2503, 2592-2618).
LandingsAreAuthorised ==
    \A w \in deed.landed :
        /\ session.tty
        /\ "apply" \in deed.yes \/ (session.autoApply /\ "run" \in deed.yes /\ Listed = {w})
        /\ session.acceptanceFirst => runs[w] = "proven" \/ deed.cmd = "autopilot"

\* However the worker was planned, run by hand, by script or again, what is in
\* the checkout passed, and met the plan's demand for a test when there is one
\* (a worker that a run of another one dropped from the plan is not looked at)
\* (slashCommands.ts:2393-2396, 2427-2447; apply.ts:189-245).
TreeMeetsThePlan ==
    \A w \in tree \cap Listed :
        /\ plan.status[w] \in {"applied", "discarded"}
        /\ runs[w] \in {"passed", "proven"}
        /\ plan.tdd[w] => runs[w] = "proven" /\ w \in proof

\* A pull request is opened only for a run whose check passed
\* (delegateCli.ts:272-280, 368-377).
RequestsPassed == \A w \in deed.opened : runs[w] \in {"passed", "proven"}

CommandsSound ==
    TypeOK /\ SpawnsAreAuthorised /\ LandingsAreAuthorised /\ TreeMeetsThePlan /\ RequestsPassed

\* A worker that was applied, discarded or left running is never run again from
\* its plan, by whichever command (slashCommands.ts:2405-2408, orchestrator.ts:102).
SettledStays ==
    [][\A w \in Listed : plan.status[w] \in {"applied", "discarded", "running"} /\ deed'.cmd \notin Replacing
                            => w \notin deed'.spawned]_commandVars

\* What runWorker and the drivers say: a delegated worker runs no worker.
NoNestedWorkers == session.worker => deed.spawned = {}
=============================================================================
