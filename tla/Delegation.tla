----------------------------- MODULE Delegation -----------------------------
(***************************************************************************)
(* Delegated workers over one plan file: the process that runs workers     *)
(* (runRunnable, runRunnableConcurrent, or runWorker by hand), and another *)
(* process, with no lock between the two, that applies or discards one.    *)
(*                                                                         *)
(* A worker's solve run is one step with any outcome.  savePlan is two:    *)
(* the snapshot (JSON.stringify, after an await) and the rename.  The      *)
(* abort signal and stopOnFirstFailure are left out: no entry point        *)
(* modelled here uses them.  Patch contents are the set of changed files,  *)
(* and the gates of applyWorker other than its two status checks are a     *)
(* refusal that may always happen.                                         *)
(***************************************************************************)
EXTENDS Integers, Sequences, SequencesExt, FiniteSetsExt

CONSTANTS
    Workers,
    Files,
    Patches,            \* worker -> the sets of files its patch may change
    Main,               \* the driver itself, when it saves the conflicts
    Order,              \* a sequence of the workers: topoOrder of the plan
    DependsOn,          \* worker -> the workers it depends on
    LockPaths,          \* worker -> expectedFiles, or else allowedPaths
    MaxConcurrency,
    MaxRuns,            \* bound: runs started
    MaxOthers,          \* bound: apply and discard commands
    MaxFaults           \* bound: crashes of a process and failing saves

ASSUME DelegationAssumption ==
    /\ Main \notin Workers
    /\ Order \in Seq(Workers) /\ Len(Order) = Cardinality(Workers)
    /\ Range(Order) = Workers
    /\ DependsOn \in [Workers -> SUBSET Workers]
    /\ \A i, j \in DOMAIN Order : Order[j] \in DependsOn[Order[i]] => j < i
    /\ LockPaths \in [Workers -> SUBSET Files]
    /\ MaxConcurrency \in Nat \ {0}
    /\ Patches \in [Workers -> SUBSET ((SUBSET Files) \ {{}})]
    /\ {MaxRuns, MaxOthers, MaxFaults} \subseteq Nat

VARIABLES
    disk,       \* plan.json: the workers it lists and their status
    plan,       \* the plan in the running process's memory
    mode,       \* how the workers are run
    runner,     \* where the driver is
    batches,    \* the batches still to launch
    step,       \* where each worker's promise is, and the driver's own save
    snap,       \* the text of a savePlan call that is being written
    queue,      \* PlanSaveQueue: the writers whose save is not finished
    recorded,   \* workers of this run with a result in the driver's hands
    run,        \* run.json and patch.diff of each worker
    tree,       \* workers whose patch is in the real tree
    other,      \* the applying or discarding process
    runs, others, faults,
    \* What an observer remembers; no step of the program reads these.
    clean,      \* the last write of plan.json was the running process's own
    saveFailed  \* a save of this run failed

driver == <<plan, mode, runner, batches, step, snap, queue, recorded>>
bounds == <<runs, others, faults>>
vars   == <<disk, driver, run, tree, other, bounds, clean, saveFailed>>

Status  == {"planned", "running", "passed", "failed", "conflict", "applied", "discarded"}
Writers == Workers \cup {Main}
NoPlan  == <<>>
Plans   == UNION {[W -> Status] : W \in SUBSET Workers}
NoRun   == [passed |-> FALSE, files |-> {}]
NoOne   == [op |-> "none", worker |-> Main, plan |-> NoPlan]

Unqueued == {"opening", "opened", "closing", "closed"}
Queued   == {"queued", "caught", "writing", "rewriting"}
Steps    == {"off", "working", "done", "lost"} \cup Unqueued \cup Queued

TypeOK ==
    /\ disk \in Plans /\ plan \in Plans
    /\ mode \in {"sequential", "parallel", "byHand"}
    /\ runner \in {"idle", "between", "batch", "marking", "done"}
    /\ batches \in Seq(SUBSET Workers)
    /\ step \in [Writers -> Steps]
    /\ snap \in [Writers -> Plans]
    /\ queue \in Seq(Writers)
    /\ recorded \subseteq Workers
    /\ run \in [Workers -> [passed : BOOLEAN, files : SUBSET Files]]
    /\ tree \subseteq Workers
    /\ other \in [op : {"none", "apply", "applied", "discard"}, worker : Writers, plan : Plans]
    /\ clean \in BOOLEAN /\ saveFailed \in BOOLEAN
    \* each promise has at most one save in the queue
    /\ Len(queue) = Cardinality({w \in Writers : step[w] \in Queued})
    /\ Range(queue) = {w \in Writers : step[w] \in Queued}

-----------------------------------------------------------------------------
(* What may run, and in which batches *)

\* Mutated form of RunnableWorkers: a dependency that passed is enough.
RunnableOncePassed(p) ==
    {w \in DOMAIN p : p[w] \in {"planned", "failed"}
                      /\ \A d \in DependsOn[w] : p[d] \in {"applied", "passed"}}

RunnableWorkers(p) ==
    {w \in DOMAIN p : p[w] \in {"planned", "failed"}
                      /\ \A d \in DependsOn[w] : p[d] = "applied"}

WorkerLockSet(w) == IF LockPaths[w] = {} THEN Files ELSE LockPaths[w]

\* Mutated form of Fits: the size is checked, the locks are not.
FitsBySize(batch, w) == Cardinality(batch) < MaxConcurrency

Fits(batch, w) ==
    /\ Cardinality(batch) < MaxConcurrency
    /\ \A v \in batch : WorkerLockSet(v) \cap WorkerLockSet(w) = {}

Before(v, w) == \E i, j \in DOMAIN Order : i < j /\ Order[i] = v /\ Order[j] = w

\* What batch i holds when w is placed, each worker v in batch slot[v].
Beside(slot, i, w) == {v \in DOMAIN slot : slot[v] = i /\ Before(v, w)}

\* In topological order, each worker joins the first batch it fits in.
FirstFit(slot) ==
    \A w \in DOMAIN slot :
        /\ Fits(Beside(slot, slot[w], w), w)
        /\ \A i \in 1 .. slot[w] - 1 : ~Fits(Beside(slot, i, w), w)

\* The batches of the runnable workers: there is one first-fit placement.
BuildRunnableBatches(p) ==
    {[i \in 1 .. Cardinality(Range(slot)) |-> {w \in DOMAIN slot : slot[w] = i}] :
        slot \in {s \in [RunnableWorkers(p) -> DOMAIN Order] : FirstFit(s)}}

\* runRunnable: one worker at a time, past the ones that are not runnable.
OneByOne(p) == [i \in DOMAIN Order |-> {Order[i]} \cap RunnableWorkers(p)]

Init ==
    /\ disk = [w \in Workers |-> "planned"]
    /\ plan = NoPlan /\ mode = "sequential" /\ runner = "idle" /\ batches = <<>>
    /\ step = [w \in Writers |-> "off"] /\ snap = [w \in Writers |-> NoPlan]
    /\ queue = <<>> /\ recorded = {}
    /\ run = [w \in Workers |-> NoRun] /\ tree = {} /\ other = NoOne
    /\ runs = 0 /\ others = 0 /\ faults = 0
    /\ clean = FALSE /\ saveFailed = FALSE

Starts(m, p, bs) ==
    /\ runner = "idle" /\ runs < MaxRuns /\ \E i \in DOMAIN bs : bs[i] # {}
    /\ mode' = m /\ plan' = p /\ batches' = bs /\ runner' = "between"
    /\ runs' = runs + 1 /\ clean' = FALSE /\ saveFailed' = FALSE
    /\ UNCHANGED <<disk, step, snap, queue, recorded, run, tree, other, others, faults>>

\* Otherwise topoOrder throws and nothing starts.
Closed(p) == \A w \in DOMAIN p : DependsOn[w] \subseteq DOMAIN p

\* /delegate run <plan> and its headless twin.
RunAll ==
    /\ runner = "idle" /\ Closed(disk)
    /\ \/ Starts("sequential", disk, OneByOne(disk))
       \/ \E bs \in BuildRunnableBatches(disk) : Starts("parallel", disk, bs)

\* deepcoder delegate run <plan> <worker>: the driver gets a plan of one worker.
RunOneHeadless(w) ==
    /\ w \in DOMAIN disk
    /\ LET view == [v \in {w} |-> disk[w]]
       IN  Closed(view) /\ Starts("sequential", view, OneByOne(view))

\* /delegate run <plan> <worker> in the REPL: runWorker without the driver.
RunOneByHand(w) ==
    /\ w \in DOMAIN disk /\ disk[w] \in {"planned", "failed"}
    /\ Starts("byHand", disk, <<{w}>>)

-----------------------------------------------------------------------------
(* One batch: every worker's promise from runWorker to its queued save *)

LaunchBatch ==
    /\ runner = "between" /\ batches # <<>>
    /\ LET batch == Head(batches) \cap DOMAIN plan IN
       /\ plan' = [w \in DOMAIN plan |-> IF w \in batch THEN "running" ELSE plan[w]]
       /\ step' = [w \in Writers |-> IF w \in batch THEN "opening" ELSE "off"]
    /\ batches' = Tail(batches) /\ runner' = "batch"
    /\ UNCHANGED <<disk, mode, snap, queue, recorded, run, tree, other, bounds, clean, saveFailed>>

\* The promise of w ends in the driver, with a result or without one.
Ends(w, result) ==
    /\ step' = [step EXCEPT ![w] = result]
    /\ recorded' = IF result = "done" THEN recorded \cup {w} ELSE recorded
    /\ runner' = IF mode = "byHand" THEN "done" ELSE runner

\* runWorker returned: its status is in the plan, the driver saves it again.
Returns(w) ==
    IF mode = "byHand" THEN Ends(w, "done") /\ UNCHANGED <<plan, queue>>
    ELSE /\ step' = [step EXCEPT ![w] = "queued"]
         /\ queue' = Append(queue, w)
         /\ UNCHANGED <<plan, runner, recorded>>

\* runWorker threw.
Throws(w) ==
    IF mode = "byHand" THEN Ends(w, "lost") /\ UNCHANGED <<plan, queue>>
    ELSE /\ plan' = [plan EXCEPT ![w] = "failed"]
         /\ step' = [step EXCEPT ![w] = IF mode = "parallel" THEN "queued" ELSE "caught"]
         /\ queue' = Append(queue, w)
         /\ UNCHANGED <<runner, recorded>>

AfterSnap == [opening |-> "opened", closing |-> "closed", queued |-> "writing", caught |-> "rewriting"]

\* Mutated form of Turn: a queued save does not wait for the one before it.
TurnAtOnce(w) == step[w] \in DOMAIN AfterSnap

Turn(w) ==
    /\ step[w] \in DOMAIN AfterSnap
    /\ step[w] \in Queued => w = Head(queue)

\* JSON.stringify inside savePlan.
SaveSnaps(w) ==
    /\ Turn(w)
    /\ snap' = [snap EXCEPT ![w] = plan]
    /\ step' = [step EXCEPT ![w] = AfterSnap[@]]
    /\ UNCHANGED <<disk, plan, mode, runner, batches, queue, recorded, run, tree, other, bounds, clean, saveFailed>>

\* Mutated form of Dequeue: the finished save stays in the queue.
StaysQueued == queue' = queue

Dequeue == queue' = Tail(queue)

\* The rename inside savePlan, and what its caller does next.
SaveLands(w) ==
    /\ disk' = snap[w] /\ clean' = TRUE
    /\ snap' = [snap EXCEPT ![w] = NoPlan]
    /\ \/ /\ step[w] = "opened"
          /\ step' = [step EXCEPT ![w] = "working"]
          /\ UNCHANGED <<plan, runner, queue, recorded>>
       \/ step[w] = "closed" /\ Returns(w)
       \/ /\ step[w] \in {"writing", "rewriting"} /\ w # Main
          /\ Ends(w, "done") /\ Dequeue /\ UNCHANGED plan
       \/ /\ step[w] = "writing" /\ w = Main
          /\ step' = [step EXCEPT ![w] = "off"] /\ runner' = "between"
          /\ Dequeue /\ UNCHANGED <<plan, recorded>>
    /\ UNCHANGED <<mode, batches, run, tree, other, bounds, saveFailed>>

\* Mutated form of QueuedSaveFails: the chain of promises stops at a rejection.
QueuedSaveBlocks(w) ==
    /\ step' = [step EXCEPT ![w] = "lost"]
    /\ UNCHANGED <<plan, runner, queue, recorded>>

\* A queued save rejected: the promise is lost (parallel), the worker fails
\* and is saved once more (sequential), or the whole run throws.
QueuedSaveFails(w) ==
    \/ /\ step[w] = "writing" /\ mode = "parallel" /\ w # Main
       /\ Ends(w, "lost") /\ Dequeue /\ UNCHANGED plan
    \/ /\ step[w] = "writing" /\ mode = "sequential"
       /\ plan' = [plan EXCEPT ![w] = "failed"]
       /\ step' = [step EXCEPT ![w] = "caught"]
       /\ UNCHANGED <<runner, queue, recorded>>
    \/ /\ step[w] = "rewriting" \/ w = Main
       /\ step' = [step EXCEPT ![w] = "lost"] /\ runner' = "done"
       /\ Dequeue /\ UNCHANGED <<plan, recorded>>

SaveFails(w) ==
    /\ faults < MaxFaults /\ faults' = faults + 1
    /\ \/ step[w] \in {"opened", "closed"} /\ Throws(w)
       \/ step[w] \in {"writing", "rewriting"} /\ QueuedSaveFails(w)
    /\ snap' = [snap EXCEPT ![w] = NoPlan]
    /\ clean' = FALSE /\ saveFailed' = TRUE
    /\ UNCHANGED <<disk, mode, batches, run, tree, other, runs, others>>

WorktreeFails(w) ==
    /\ step[w] = "working"
    /\ Throws(w)
    /\ UNCHANGED <<disk, mode, batches, snap, run, tree, other, bounds, clean, saveFailed>>

\* The solve run ended: the artifacts are written, then the status is saved.
Solves(w, result) ==
    /\ step[w] = "working"
    /\ run' = [run EXCEPT ![w] = result]
    /\ plan' = [plan EXCEPT ![w] = IF result.passed THEN "passed" ELSE "failed"]
    /\ step' = [step EXCEPT ![w] = "closing"]
    /\ UNCHANGED <<disk, mode, runner, batches, snap, queue, recorded, tree, other, bounds, clean, saveFailed>>

Results(w) == [passed : {TRUE}, files : Patches[w]] \cup {NoRun}

-----------------------------------------------------------------------------
(* The end of a batch, and of a run *)

Batch == {w \in Workers : step[w] # "off"}
NewlyPassed == {w \in Batch \cap recorded : plan[w] = "passed"}
Passed == {w \in DOMAIN plan : plan[w] = "passed"}

\* Mutated form of Conflicting: the new results are compared with each other only.
ConflictingInBatch ==
    {w \in NewlyPassed : \E v \in NewlyPassed \ {w} : run[v].files \cap run[w].files # {}}

\* detectFileConflicts over every passed worker; a pair counts when one is new.
Conflicting ==
    {w \in Passed : \E v \in Passed \ {w} :
        /\ run[v].files \cap run[w].files # {}
        /\ {v, w} \cap NewlyPassed # {}}

SettleBatch ==
    /\ runner = "batch" /\ mode # "byHand"
    /\ \A w \in Workers : step[w] \in {"off", "done", "lost"}
    /\ IF mode = "parallel" /\ Conflicting # {}
       THEN /\ plan' = [w \in DOMAIN plan |-> IF w \in Conflicting THEN "conflict" ELSE plan[w]]
            /\ step' = [step EXCEPT ![Main] = "queued"]
            /\ queue' = Append(queue, Main)
            /\ runner' = "marking"
       ELSE runner' = "between" /\ UNCHANGED <<plan, step, queue>>
    /\ UNCHANGED <<disk, mode, batches, snap, recorded, run, tree, other, bounds, clean, saveFailed>>

RunEnds ==
    /\ runner = "between" /\ batches = <<>>
    /\ runner' = "done"
    /\ UNCHANGED <<disk, plan, mode, batches, step, snap, queue, recorded, run, tree, other, bounds, clean, saveFailed>>

Forgets ==
    /\ plan' = NoPlan /\ mode' = "sequential" /\ runner' = "idle" /\ batches' = <<>>
    /\ step' = [w \in Writers |-> "off"] /\ snap' = [w \in Writers |-> NoPlan]
    /\ queue' = <<>> /\ recorded' = {} /\ clean' = FALSE /\ saveFailed' = FALSE
    /\ UNCHANGED <<disk, run, tree, other, runs, others>>

Exits == runner = "done" /\ Forgets /\ UNCHANGED faults

Crash ==
    /\ runner \notin {"idle", "done"} /\ faults < MaxFaults
    /\ faults' = faults + 1
    /\ Forgets

-----------------------------------------------------------------------------
(* The other process *)

Loads(op, w) ==
    /\ other.op = "none" /\ others < MaxOthers /\ others' = others + 1
    /\ w \in DOMAIN disk
    /\ other' = [op |-> op, worker |-> w, plan |-> disk]
    /\ UNCHANGED <<disk, driver, run, tree, runs, faults, clean, saveFailed>>

\* applyWorker: gates 1 and 2.
ApplyLoads(w) ==
    /\ w \in DOMAIN disk /\ disk[w] = "passed" /\ run[w].passed
    /\ Loads("apply", w)

\* Gate 6.  External: git applies a patch that the tree does not hold yet.
GitApplies ==
    /\ other.op = "apply" /\ other.worker \notin tree
    /\ tree' = tree \cup {other.worker}
    /\ other' = [other EXCEPT !.op = "applied"]
    /\ UNCHANGED <<disk, driver, run, bounds, clean, saveFailed>>

\* Mutated form of ApplyRefused: a failed git apply goes on to the audit record.
ApplyGoesOn ==
    /\ other.op = "apply"
    /\ other' = [other EXCEPT !.op = "applied"]
    /\ UNCHANGED <<disk, driver, run, tree, bounds, clean, saveFailed>>

\* Any later gate refuses, the user says no, or git apply fails.
ApplyRefused ==
    /\ other.op = "apply"
    /\ other' = NoOne
    /\ UNCHANGED <<disk, driver, run, tree, bounds, clean, saveFailed>>

OtherSaves(op, status) ==
    /\ other.op = op
    /\ disk' = [other.plan EXCEPT ![other.worker] = status]
    /\ other' = NoOne /\ clean' = FALSE
    /\ UNCHANGED <<driver, run, tree, bounds, saveFailed>>

\* Gate 8, after any global checks.
ApplySaves == OtherSaves("applied", "applied")

DiscardLoads(w) == Loads("discard", w)
DiscardSaves == OtherSaves("discard", "discarded")

OtherDies ==
    /\ other.op # "none" /\ faults < MaxFaults
    /\ faults' = faults + 1 /\ other' = NoOne
    /\ UNCHANGED <<disk, driver, run, tree, runs, others, clean, saveFailed>>

\* Nobody runs, applies or discards a worker.
Idle == runner = "idle" /\ other.op = "none" /\ UNCHANGED vars

Progress ==
    \/ LaunchBatch \/ SettleBatch \/ RunEnds \/ Exits
    \/ \E w \in Writers : SaveSnaps(w) \/ SaveLands(w)
    \/ \E w \in Workers : \E r \in Results(w) : Solves(w, r)

Next ==
    \/ Progress
    \/ RunAll
    \/ \E w \in Workers : RunOneHeadless(w) \/ RunOneByHand(w)
    \/ \E w \in Writers : SaveFails(w)
    \/ \E w \in Workers : WorktreeFails(w)
    \/ Crash
    \/ \E w \in Workers : ApplyLoads(w) \/ DiscardLoads(w)
    \/ GitApplies \/ ApplyRefused \/ ApplySaves \/ DiscardSaves \/ OtherDies
    \/ Idle

Spec == Init /\ [][Next]_vars

\* A worker's process ends within WORKER_TIMEOUT_MS and writes complete, so
\* the run's own steps happen; nothing is assumed of the user or the other
\* process.
FairSpec == Spec /\ WF_vars(Progress)

-----------------------------------------------------------------------------
(* Safety *)

Active == {w \in Workers : step[w] \in {"opening", "opened", "working", "closing", "closed"}}

\* A worker the driver has started has every dependency's patch in the real
\* tree, whatever another process saved since the plan was loaded
\* (runnableWorkers: "passed" is not enough).
DependenciesInTree ==
    mode # "byHand" => \A w \in Active : DependsOn[w] \subseteq tree

\* No copy of the plan, on disk, in either process or on its way to the disk,
\* says a worker is applied whose patch is not in the real tree: applyWorker
\* marks it after git apply, and every lost update loses in that direction.
AppliedIsInTree ==
    \A p \in {disk, plan, other.plan} \cup Range(snap) :
        \A w \in DOMAIN p : p[w] = "applied" => w \in tree

\* Workers that run at the same time claim disjoint paths, and are at most
\* maxConcurrency (buildRunnableBatches).
ActiveAreDisjoint ==
    /\ Cardinality(Active) <= MaxConcurrency
    /\ \A v, w \in Active : v # w => WorkerLockSet(v) \cap WorkerLockSet(w) = {}

\* When a parallel run ends with every save done, no worker it passed is still
\* "passed" beside another whose patch changes the same file, not one of an
\* earlier batch or run either (runRunnableConcurrent's conflict marking).
ConflictsMarked ==
    runner = "done" /\ mode = "parallel" /\ ~saveFailed =>
        \A v \in recorded, w \in DOMAIN plan :
            v # w /\ plan[v] = "passed" /\ plan[w] = "passed"
                => run[v].files \cap run[w].files = {}

\* When a run ends and the last write of plan.json was its own, the file is
\* the plan in memory: the saves of runWorker, which bypass PlanSaveQueue, and
\* the queued ones never leave an older snapshot behind.
RunIsSaved == runner = "done" /\ clean => disk = plan

(* Liveness *)

\* Every run that does not crash ends, also when saves fail: one rejected save
\* does not hold up the saves queued behind it (PlanSaveQueue.enqueue).
EveryRunEnds == runner # "idle" ~> runner = "idle"

(* A claim of the source that the code does not keep *)

\* Running one worker leaves the plan's other workers in the plan file: the
\* headless command hands the driver "a plan view", and the driver saves it.
PlanKeepsWorkers == DOMAIN disk = Workers

\* What plan.json says, what the tree holds and what the driver knows agree in
\* every state.
PlanSound == TypeOK /\ DependenciesInTree /\ AppliedIsInTree /\ RunIsSaved

\* The workers that run beside one another, and those that finished with one
\* another's files.
ConflictsSound == ActiveAreDisjoint /\ ConflictsMarked
=============================================================================
