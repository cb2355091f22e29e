---------------------------- MODULE Decomposition ----------------------------
(***************************************************************************)
(* A task split by the model into sub-tasks, checked, run one after the    *)
(* other on the patches accepted so far, and assembled; or fanned out as a *)
(* plan of workers; or, when the split is no good, the planner's own.      *)
(*                                                                         *)
(* A patch is text: here, how many sections it has for each file.  Every   *)
(* accepted diff is one against HEAD of a tree the earlier text was        *)
(* applied to, so it repeats that text's files; git refuses a second       *)
(* section for a file that exists in HEAD.                                 *)
(***************************************************************************)
EXTENDS Integers, Sequences, SequencesExt

CONSTANTS
    Subtasks,   \* a sequence: the ids, all different, in the order the model declared them
    Own,        \* sub-task -> the file it is about
    Stranger    \* an id no sub-task has

VARIABLES
    proposal,   \* what the model answered
    stage, source,
    order,      \* the sub-tasks run so far
    accepted,   \* those whose verdict was ok
    text,       \* the cumulative patch: file -> sections
    wrote,      \* sub-task -> the files it itself changed
    refusal,    \* why the last one was not accepted
    assembled,  \* the verdict on the assembled patch
    workers     \* the plan saved for a fan-out, or by the planner

decompositionVars == <<proposal, stage, source, order, accepted, text, wrote, refusal, assembled, workers>>

Ids   == {Subtasks[i] : i \in DOMAIN Subtasks}
Files == {Own[t] : t \in Ids}
Flaws == {"none", "not json", "id", "paths", "check", "too many"}
Kinds == {"both", "test", "deliverables", "neither"}
Stages == {"proposed", "refused", "shown", "valid", "saved", "running", "stopped", "done"}

NoText == [f \in Files |-> 0]

TypeOK ==
    /\ stage \in Stages /\ source \in {"none", "model", "heuristic"}
    /\ order \in Seq(Ids) /\ accepted \subseteq Range(order)
    /\ text \in [Files -> Nat]
    /\ wrote \in [Ids -> SUBSET Files]
    /\ refusal \in {"none", "base", "scope", "red", "green"}
    /\ assembled \in {"none", "ok", "red"}

\* dependsOn of each sub-task; paths "own" or the whole tree; what makes it
\* verifiable; a flaw of any other kind; and whether HEAD has the first file.
Init ==
    /\ proposal \in [deps : [Ids -> SUBSET (Ids \cup {Stranger})], shared : BOOLEAN, kind : Kinds,
                     flaw : Flaws, existing : {{}, {Own[Subtasks[1]]}}]
    /\ \A t \in Ids : Stranger \in proposal.deps[t] => t = Subtasks[1]
    /\ \A t \in Ids : {t, Stranger} \cap proposal.deps[t] # {} => proposal.flaw = "none" /\ proposal.kind = "both"
    /\ proposal.flaw # "none" \/ proposal.kind = "neither" => \A t \in Ids : proposal.deps[t] = {}
    /\ stage = "proposed" /\ source = "none" /\ order = <<>> /\ accepted = {}
    /\ text = NoText /\ wrote = [t \in Ids |-> {}]
    /\ refusal = "none" /\ assembled = "none" /\ workers = <<>>

-----------------------------------------------------------------------------
(* validateDecomposition *)

Deps(t) == proposal.deps[t] \cap Ids

\* isDependent, without the sub-task itself: what is in every set that holds what
\* it depends on and, with a sub-task, what that depends on.
DependsOnAll(t) ==
    {d \in Ids : \A S \in SUBSET Ids : Deps(t) \subseteq S /\ (\A x \in S : Deps(x) \subseteq S) => d \in S}

Acyclic == \A t \in Ids : t \notin DependsOnAll(t)

Verifiable == proposal.kind # "neither"

\* Mutated form of Valid: what depends on what is not looked at.
ValidButForOrder == proposal.flaw = "none" /\ Verifiable

Valid ==
    /\ proposal.flaw = "none" /\ Verifiable
    /\ \A t \in Ids : Stranger \notin proposal.deps[t]
    /\ Acyclic

Allowed(t) == IF proposal.shared THEN Files ELSE {Own[t]}

\* Pairs of independent sub-tasks that name the same paths: only a warning.
Overlaps == {p \in Ids \X Ids : /\ p[1] # p[2] /\ Allowed(p[1]) \cap Allowed(p[2]) # {}
                                /\ p[1] \notin DependsOnAll(p[2]) /\ p[2] \notin DependsOnAll(p[1])}

-----------------------------------------------------------------------------
(* The planner's own split *)

\* buildPlan: one worker for each area of the task that exists, in a chain, when
\* the root is known and they are two or more and not too many; otherwise one
\* worker for all of src and the tests.  Only that one may write under test/.
BuildPlan(areas, root, max, tdd) ==
    LET n == IF root /\ Len(areas) >= 2 /\ Len(areas) <= max THEN Len(areas) ELSE 1
    IN  [i \in 1..n |->
            [paths |-> IF n = 1 THEN {"src", "test"} ELSE {areas[i]},
             after |-> IF i > 1 THEN {i - 1} ELSE {},
             tdd   |-> tdd, review |-> FALSE]]

\* Mutated form of FallbackToHeuristic: the planner's worker is taken as verifiable.
FallbackTaken ==
    /\ source' = "heuristic" /\ workers' = BuildPlan(<<>>, FALSE, 5, FALSE)
    /\ stage' = "valid"

\* One worker without deliverables and without a test command, which the
\* second validation then finds non-verifiable: a split that was no good ends
\* the command.
FallbackToHeuristic ==
    /\ source' = "heuristic" /\ workers' = BuildPlan(<<>>, FALSE, 5, FALSE)
    /\ stage' = "refused"

\* proposeDecomposition and the validation of its answer by the command.
Propose ==
    /\ stage = "proposed"
    /\ IF Valid THEN stage' = "valid" /\ source' = "model" /\ UNCHANGED workers
       ELSE FallbackToHeuristic
    /\ UNCHANGED <<proposal, order, accepted, text, wrote, refusal, assembled>>

\* /delegate plan --smart shows whichever plan there is.
PlanSmart ==
    /\ stage = "proposed"
    /\ stage' = "shown" /\ source' = IF Valid THEN "model" ELSE "heuristic"
    /\ UNCHANGED <<proposal, order, accepted, text, wrote, refusal, assembled, workers>>

\* buildPlan as the plan commands call it.
PlanHeuristic ==
    \E n \in 0..3, root, tdd \in BOOLEAN, max \in 1..3 :
        /\ stage = "proposed"
        /\ stage' = "saved" /\ source' = "heuristic"
        /\ workers' = BuildPlan([i \in 1..n |-> i], root, max, tdd)
        /\ UNCHANGED <<proposal, order, accepted, text, wrote, refusal, assembled>>

-----------------------------------------------------------------------------
(* runDecomposition *)

\* visit, of those of a set that are not out yet, in the declared order: first what
\* each depends on, by the function below, then it.
VisitEach(below, out, S) ==
    LET upTo[i \in 0 .. Len(Subtasks)] ==
            IF i = 0 THEN out
            ELSE LET before == upTo[i - 1]
                     t == Subtasks[i]
                 IN  IF t \in S /\ t \notin Range(before) THEN Append(below[before][Deps(t)], t) ELSE before
    IN  upTo[Len(Subtasks)]

\* Along chains of n sub-tasks: none is longer than there are sub-tasks.
Visit[n \in 0 .. Len(Subtasks)] ==
    [out \in Seq(Ids) |-> [S \in SUBSET Ids |-> IF n = 0 THEN out ELSE VisitEach(Visit[n - 1], out, S)]]

\* Mutated form of TopoOrder: the order in which the model declared them.
DeclaredOrder == Subtasks

\* topoOrder: each after what it depends on, the declared order otherwise.
TopoOrder == Visit[Len(Subtasks)][<<>>][Ids]

\* git apply of the text to HEAD.
GitApplies(p) == \A f \in proposal.existing : p[f] <= 1

\* git diff --cached of a tree with the text applied and these files changed.
DiffAfter(p, files) == [f \in Files |-> IF p[f] > 0 \/ f \in files THEN 1 ELSE 0]

AppendPatch(p, q) == [f \in Files |-> p[f] + q[f]]

Touched(p) == {f \in Files : p[f] > 0}

\* evaluateVerify.  Without deliverables nothing has to be red; without a test
\* command nothing is run, and no deliverable is covered.
RedComplete(red)     == proposal.kind = "test" \/ (proposal.kind = "both" /\ red)
GreenComplete(green) == proposal.kind # "deliverables" /\ green

\* Mutated form of Refusal: the scope of the patch is not part of the verdict.
RefusalOfTests(t, patch, red, green) ==
    IF ~RedComplete(red) THEN "red"
    ELSE IF ~GreenComplete(green) THEN "green"
    ELSE "none"

\* verifyManifestCoverage: the whole patch against this sub-task's paths, its
\* tests on HEAD alone, then the whole patch on HEAD.
Refusal(t, patch, red, green) ==
    IF ~(Touched(patch) # {} /\ Touched(patch) \subseteq Allowed(t)) THEN "scope"
    ELSE IF ~RedComplete(red) THEN "red"
    ELSE IF ~GreenComplete(green) THEN "green"
    ELSE "none"

\* The user agrees, and the first sub-task is next.
StartRun ==
    /\ stage = "valid"
    /\ stage' = "running"
    /\ UNCHANGED <<proposal, source, order, accepted, text, wrote, refusal, assembled, workers>>

Cancel ==
    /\ stage = "valid"
    /\ stage' = "refused"
    /\ UNCHANGED <<proposal, source, order, accepted, text, wrote, refusal, assembled, workers>>

\* Mutated form of AfterVerdict: a refused sub-task does not stop the run.
AfterVerdictGoOn(why) == UNCHANGED stage

AfterVerdict(why) == IF why = "none" THEN UNCHANGED stage ELSE stage' = "stopped"

\* One sub-task: a worker in a tree of its own with the text applied, then the
\* verdict on what that tree differs from HEAD by.
RunSubTask ==
    \E files \in SUBSET Files, red, green \in BOOLEAN :
        /\ stage = "running" /\ Len(order) < Len(Subtasks)
        /\ LET t == TopoOrder[Len(order) + 1]
               patch == DiffAfter(text, files)
               why == IF ~GitApplies(text) THEN "base" ELSE Refusal(t, patch, red, green)
           IN  /\ order' = Append(order, t)
               /\ wrote' = [wrote EXCEPT ![t] = files]
               /\ refusal' = why
               /\ IF why = "none"
                  THEN accepted' = accepted \cup {t} /\ text' = AppendPatch(text, patch)
                  ELSE UNCHANGED <<accepted, text>>
               /\ AfterVerdict(why)
        /\ UNCHANGED <<proposal, source, assembled, workers>>

\* Mutated form of Assemble: the text is not applied before the check.
AssembleUnapplied ==
    /\ stage = "running" /\ Len(order) = Len(Subtasks)
    /\ stage' = "done" /\ assembled' \in {"ok", "red"}
    /\ UNCHANGED <<proposal, source, order, accepted, text, wrote, refusal, workers>>

\* All were accepted: the full check on HEAD with the text applied.
Assemble ==
    /\ stage = "running" /\ Len(order) = Len(Subtasks)
    /\ stage' = "done"
    /\ assembled' \in IF GitApplies(text) THEN {"ok", "red"} ELSE {"red"}
    /\ UNCHANGED <<proposal, source, order, accepted, text, wrote, refusal, workers>>

-----------------------------------------------------------------------------
(* /batch *)

Position(t) == CHOOSE i \in DOMAIN Subtasks : Subtasks[i] = t

\* Mutated form of PlanFromDecomposition: every worker may start at once.
PlanWithoutOrder ==
    [i \in DOMAIN Subtasks |->
        [paths |-> Allowed(Subtasks[i]), after |-> {},
         tdd |-> proposal.kind \in {"both", "test"}, review |-> proposal.kind \in {"both", "deliverables"}]]

\* planFromDecomposition: a test command makes the worker a test-first one, and
\* deliverables become evidence that a person must review.
PlanFromDecomposition ==
    [i \in DOMAIN Subtasks |->
        [paths |-> Allowed(Subtasks[i]), after |-> {Position(d) : d \in Deps(Subtasks[i])},
         tdd |-> proposal.kind \in {"both", "test"}, review |-> proposal.kind \in {"both", "deliverables"}]]

\* Saved before the question; the workers then run as in Delegation.
Batch ==
    /\ stage = "valid"
    /\ workers' = PlanFromDecomposition
    /\ stage' = "saved"
    /\ UNCHANGED <<proposal, source, order, accepted, text, wrote, refusal, assembled>>

Over == stage \in {"refused", "shown", "saved", "stopped", "done"} /\ UNCHANGED decompositionVars

Next ==
    \/ Propose \/ PlanSmart \/ PlanHeuristic
    \/ StartRun \/ Cancel \/ RunSubTask \/ Assemble \/ Batch
    \/ Over

Spec == Init /\ [][Next]_decompositionVars

-----------------------------------------------------------------------------
(* Properties *)

\* A sub-task runs after everything it depends on was accepted, and nothing runs
\* after one that was not (decompose.ts:303-319, 355-368).
DependenciesAccepted ==
    \A i \in DOMAIN order :
        /\ DependsOnAll(order[i]) \subseteq accepted
        /\ \A j \in 1..(i - 1) : order[j] \in accepted

\* What is accepted keeps to its paths, together with everything it was built
\* on, and only what can be verified ever runs (verify.ts:140-186).
AcceptedIsVerified ==
    /\ order # <<>> => source = "model" /\ proposal.kind # "neither"
    /\ \A i \in DOMAIN order : order[i] \in accepted =>
        /\ wrote[order[i]] \subseteq Allowed(order[i])
        /\ \A j \in 1..i : wrote[order[j]] \subseteq Allowed(order[i])
        /\ proposal.kind # "deliverables"

\* A decomposition that ended well holds every sub-task's files, and no file of
\* HEAD was edited twice on the way (decompose.ts:370-388, 456-470).
AssembledIsWhole ==
    assembled = "ok" =>
        /\ accepted = Ids
        /\ \A t \in Ids : wrote[t] \subseteq Touched(text)
        /\ \A f \in proposal.existing : text[f] <= 1

\* A saved plan keeps the order of the split, and its workers never wait on one
\* another in a circle (batchPlan.ts, planner.ts:75-140).
PlanKeepsOrder ==
    stage = "saved" =>
        /\ \A i \in DOMAIN workers : workers[i].after \subseteq DOMAIN workers \ {i}
        /\ source = "model" => \A i, j \in DOMAIN workers :
               Subtasks[j] \in Deps(Subtasks[i]) <=> j \in workers[i].after
        /\ source = "heuristic" => \A i, j \in DOMAIN workers :
               i < j => workers[i].paths \cap workers[j].paths = {} /\ (i = j - 1 <=> i \in workers[j].after)

DecompositionSound ==
    TypeOK /\ DependenciesAccepted /\ AcceptedIsVerified /\ AssembledIsWhole /\ PlanKeepsOrder

\* What subtaskPrompt asks of a worker is enough for the scope of its patch: only
\* a sub-task that itself left its paths, or changed nothing, is refused for it.
OnlyStraysAreRefused ==
    refusal = "scope" => LET t == Last(order) IN wrote[t] = {} \/ ~(wrote[t] \subseteq Allowed(t))
=============================================================================
