--------------------------- MODULE Pipeline_proofs ---------------------------
(***************************************************************************)
(* What lands in the repository has earned it, for every number of runs of *)
(* a worker, of attempts of a solve and of sweeps, and for every set of    *)
(* deliverables and of findings; what is proposed is backed and ranked;    *)
(* and the terminal tells the truth at every size of its window, its       *)
(* transcript and its line.  The parts of the composition share no state:  *)
(* it implements the specification of each (Components), and each has an   *)
(* inductive invariant of its own.                                         *)
(***************************************************************************)
EXTENDS MCPipeline, NaturalsInduction, FiniteSetTheorems, SequenceTheorems, TLAPS

\* What the composition does is, for each part, what the part may do.
LEMMA Components == PartsSpec => Gates!Spec /\ Tdd!Spec /\ Solve!Spec /\ Pulls!Spec
<1>1. PartsInit => Gates!Init /\ Tdd!Init /\ Solve!Init /\ Pulls!Init
  BY DEF PartsInit
<1>2. [PartsNext]_parts =>
        /\ [Gates!Next]_(Gates!gateVars) /\ [Tdd!Next]_(Tdd!tddVars)
        /\ [Solve!Next]_(Solve!solveVars) /\ [Pulls!Next]_(Pulls!loopVars)
  <2>1. CASE PartsNext
    BY <2>1, Zenon DEF PartsNext, Takes, gates, tdd, solver, pulls,
                       Gates!gateVars, Tdd!tddVars, Solve!solveVars, Pulls!loopVars
  <2>2. CASE UNCHANGED parts
    BY <2>2 DEF parts, gates, tdd, solver, pulls, Gates!gateVars, Tdd!tddVars, Solve!solveVars, Pulls!loopVars
  <2> QED
    BY <2>1, <2>2
<1> QED
  BY <1>1, <1>2, PTL DEF PartsSpec, Gates!Spec, Tdd!Spec, Solve!Spec, Pulls!Spec

-----------------------------------------------------------------------------
(* The gates of a worker's patch (WorkerGates)                             *)

\* The preview and the apply differ by the demands of the task and by nothing
\* else: that a patch is not empty and the worker passed follows from what both ask.
LEMMA PreviewAgrees ==
    ASSUME Gates!TypeOK
    PROVE  Gates!PreviewIsTheApply
  BY DEF Gates!TypeOK, Gates!PreviewIsTheApply, Gates!ApplyGates, Gates!PreviewEligible, Gates!Applyable,
         Gates!PatchIsClean, Gates!Complete, Gates!Orphaned, Gates!NoFiles, Gates!Quality, Gates!TddProven,
         Gates!GitApplies

\* What every surface that lands a patch has asked for.
LEMMA LandedWasGated ==
    ASSUME Gates!TypeOK, NEW opts, Gates!ApplyGates({}, opts)
    PROVE  /\ run.check /\ run.quality # "blocked"
           /\ touches \subseteq {"module", "caller", "test"}
           /\ demand = "must_change" => "caller" \in touches
           /\ demand = "must_not_change" => "caller" \notin touches
           /\ demand \in {"expectedTest", "mustBeTested"} => "test" \in touches
           /\ demand = "production" => touches \cap {"module", "caller"} # {}
           /\ demand = "tdd" => proof \in {"green_confirmed", "waived"}
           /\ demand # "manual_review"
  BY DEF Gates!TypeOK, Gates!ApplyGates, Gates!Applyable, Gates!PatchIsClean, Gates!Complete, Gates!Orphaned,
         Gates!NoFiles, Gates!TddProven, Gates!Artifacts, Gates!Allowed, Gates!Generated, Gates!Sensitive,
         Gates!TestFiles, Gates!ProductionChanged

\* What a validation that called the worker valid saw stays true until the tree
\* moves: nothing but a landing writes what it read.
Judged ==
    verdict = "valid" /\ ~inTree /\ ~moved =>
        /\ touches # {} /\ run.check /\ run.quality # "blocked" /\ standing = "passed"
        /\ Gates!PatchIsClean({})
        /\ demand \notin {"must_exist", "file_exists"} => Gates!Complete(Gates!NoFiles, FALSE)

GateInv ==
    /\ Gates!TypeOK
    /\ wires \subseteq {"caller", "test"}
    /\ standing = "applied" => inTree
    /\ Gates!LandedMeetsItsTask
    /\ Judged

LEMMA GatesStart == Gates!Init => GateInv
<1> SUFFICES ASSUME Gates!Init PROVE GateInv
  OBVIOUS
<1>1. touches \subseteq Gates!Artifacts /\ wires \subseteq touches /\ wires \subseteq {"caller", "test"}
  BY DEF Gates!Init
<1>2. Gates!GoodRun \in Gates!Runs
  BY DEF Gates!Runs
<1>3. run \in Gates!Runs /\ proof \in {"none", "red_failed", "green_confirmed", "waived"}
  BY <1>2 DEF Gates!Init
<1>4. standing \in {"passed", "failed", "conflict"}
  BY DEF Gates!Init
<1>5. answer \in Gates!Answers
  BY DEF Gates!Init, Gates!Answers
<1>6. Gates!TypeOK
  BY <1>1, <1>3, <1>4, <1>5 DEF Gates!Init, Gates!TypeOK
<1> QED
  BY <1>1, <1>4, <1>6 DEF Gates!Init, GateInv, Gates!LandedMeetsItsTask, Judged

LEMMA LandingKeepsGates ==
    ASSUME GateInv, NEW surface \in Gates!Surfaces, NEW opts, Gates!ApplyGates({}, opts), Gates!Lands(surface)
    PROVE  GateInv'
<1>1. Gates!TypeOK' /\ (wires \subseteq {"caller", "test"})' /\ (standing = "applied" => inTree)'
  BY DEF GateInv, Gates!TypeOK, Gates!Lands, Gates!Answers
<1>2. Gates!LandedMeetsItsTask'
  BY LandedWasGated DEF GateInv, Gates!Lands, Gates!LandedMeetsItsTask
<1>3. Judged'
  BY DEF Gates!Lands, Judged
<1> QED
  BY <1>1, <1>2, <1>3 DEF GateInv

LEMMA RefusalKeepsGates ==
    ASSUME GateInv, NEW surface \in Gates!Surfaces, Gates!Refuses(surface)
    PROVE  GateInv'
  BY DEF GateInv, Gates!TypeOK, Gates!Refuses, Gates!Answers, Gates!LandedMeetsItsTask, Judged,
         Gates!PatchIsClean, Gates!Complete, Gates!Orphaned, Gates!NoFiles, Gates!ProductionChanged

LEMMA ValidationKeepsGates ==
    ASSUME GateInv, Gates!Validate
    PROVE  GateInv'
<1>1. PICK q \in BOOLEAN :
        verdict' = IF Gates!Applyable(Gates!RealRoot, Gates!Derived \/ demand = "reachable", {}, Gates!Quality(q))
                   THEN "valid"
                   ELSE IF Gates!Orphaned(Gates!RealRoot, Gates!Derived \/ demand = "reachable")
                        THEN "orphaned" ELSE "invalid"
  BY DEF Gates!Validate
<1>2. UNCHANGED <<demand, touches, wires, run, proof, standing, importers, moved, inTree, answer>>
  BY DEF Gates!Validate
<1>3. ASSUME verdict' = "valid", ~inTree
      PROVE  /\ touches # {} /\ run.check /\ run.quality # "blocked" /\ standing = "passed"
             /\ Gates!PatchIsClean({})
             /\ demand \notin {"must_exist", "file_exists"} => Gates!Complete(Gates!NoFiles, FALSE)
  <2>1. Gates!Applyable(Gates!RealRoot, Gates!Derived \/ demand = "reachable", {}, Gates!Quality(q))
    BY <1>1, <1>3
  <2>2. Gates!Complete(Gates!RealRoot, Gates!Derived \/ demand = "reachable")
    BY <2>1 DEF Gates!Applyable
  <2>3. demand \notin {"must_exist", "file_exists"} => Gates!Complete(Gates!NoFiles, FALSE)
    BY <2>2 DEF Gates!Complete, Gates!Orphaned
  <2> QED
    BY <2>1, <2>3, <1>3 DEF Gates!Applyable, GateInv
<1>4. Judged'
  BY <1>2, <1>3 DEF Judged, Gates!PatchIsClean, Gates!Complete, Gates!Orphaned, Gates!NoFiles,
                    Gates!ProductionChanged
<1> QED
  BY <1>1, <1>2, <1>4 DEF GateInv, Gates!TypeOK, Gates!LandedMeetsItsTask

LEMMA GatesStep == GateInv /\ [Gates!Next]_(Gates!gateVars) => GateInv'
<1> SUFFICES ASSUME GateInv, [Gates!Next]_(Gates!gateVars)
             PROVE  GateInv'
  OBVIOUS
<1>1. CASE Gates!Validate
  BY <1>1, ValidationKeepsGates
<1>2. CASE Gates!SlashApply
  <2>1. PICK tested \in BOOLEAN :
          IF Gates!ApplyGates({}, [quality |-> FALSE, tested |-> tested])
          THEN Gates!Lands("slash") ELSE Gates!Refuses("slash")
    BY <1>2 DEF Gates!SlashApply
  <2> QED
    BY <2>1, LandingKeepsGates, RefusalKeepsGates DEF Gates!Surfaces
<1>3. CASE Gates!HeadlessApply
  BY <1>3, RefusalKeepsGates DEF Gates!HeadlessApply, Gates!Surfaces
<1>4. CASE Gates!DriverApply
  <2>1. Gates!Refuses("driver") \/ (Gates!ApplyGates({}, Gates!Quality(FALSE)) /\ Gates!Lands("driver"))
    BY <1>4 DEF Gates!DriverApply
  <2> QED
    BY <2>1, LandingKeepsGates, RefusalKeepsGates DEF Gates!Surfaces
<1>5. CASE Gates!AutoApply
  <2>1. PICK tested \in BOOLEAN :
            \/ Gates!Refuses("auto")
            \/ Gates!ApplyGates({}, [quality |-> FALSE, tested |-> tested]) /\ Gates!Lands("auto")
    BY <1>5 DEF Gates!AutoApply
  <2> QED
    BY <2>1, LandingKeepsGates, RefusalKeepsGates DEF Gates!Surfaces
<1>6. CASE Gates!PeerLands
  BY <1>6 DEF GateInv, Gates!TypeOK, Gates!PeerLands, Gates!LandedMeetsItsTask, Judged
<1>7. CASE UNCHANGED Gates!gateVars
  BY <1>7 DEF GateInv, Gates!TypeOK, Gates!gateVars, Gates!LandedMeetsItsTask, Judged,
              Gates!PatchIsClean, Gates!Complete, Gates!Orphaned, Gates!NoFiles, Gates!ProductionChanged
<1> QED
  BY <1>1, <1>2, <1>3, <1>4, <1>5, <1>6, <1>7 DEF Gates!Next

LEMMA GatesAlways == Gates!Spec => []GateInv
  BY GatesStart, GatesStep, PTL DEF Gates!Spec

\* A refusal of the slash command to apply is no surprise to the user who
\* validated: what Judged remembers is all that apply asks for.
LEMMA ValidLands ==
    ASSUME GateInv, Gates!Next, verdict = "valid", ~moved, ~inTree,
           demand = "tdd" => proof \notin {"none", "red_failed"},
           run.tdd = "green_confirmed", demand \notin {"must_exist", "file_exists", "reachable"},
           answer' # answer, answer'.surface = "slash"
    PROVE  answer'.landed
<1>1. Gates!SlashApply
  <2>1. ~Gates!Validate /\ ~Gates!PeerLands
    BY DEF Gates!Validate, Gates!PeerLands
  <2>2. ASSUME NEW surface, Gates!Lands(surface) \/ Gates!Refuses(surface)
        PROVE  surface = "slash"
    BY <2>2 DEF Gates!Lands, Gates!Refuses
  <2>3. ~Gates!HeadlessApply
    BY <2>2 DEF Gates!HeadlessApply
  <2>4. ~Gates!DriverApply
    BY <2>2 DEF Gates!DriverApply
  <2>5. ~Gates!AutoApply
    BY <2>2 DEF Gates!AutoApply
  <2> QED
    BY <2>1, <2>3, <2>4, <2>5 DEF Gates!Next
<1>2. PICK tested \in BOOLEAN :
        IF Gates!ApplyGates({}, [quality |-> FALSE, tested |-> tested])
        THEN Gates!Lands("slash") ELSE Gates!Refuses("slash")
  BY <1>1 DEF Gates!SlashApply
<1>3. Gates!ApplyGates({}, [quality |-> FALSE, tested |-> tested])
  BY DEF GateInv, Judged, Gates!TypeOK, Gates!ApplyGates, Gates!Applyable, Gates!TddProven, Gates!GitApplies
<1> QED
  BY <1>2, <1>3 DEF Gates!Lands

\* A user who is told that a worker is applyable is not refused by /delegate
\* apply while the tree stays as it was (loadAndValidateWorker, applyWorker).
LEMMA ValidIsKept == Gates!Spec => Gates!ValidIsApplyable
<1>1. GateInv /\ [Gates!Next]_(Gates!gateVars) =>
        [(/\ verdict = "valid" /\ ~moved /\ ~inTree
          /\ demand = "tdd" => proof \notin {"none", "red_failed"}
          /\ run.tdd = "green_confirmed" /\ demand \notin {"must_exist", "file_exists", "reachable"}
          /\ answer' # answer /\ answer'.surface = "slash") => answer'.landed]_(Gates!gateVars)
  BY ValidLands
<1> QED
  BY <1>1, GatesAlways, PTL DEF Gates!Spec, Gates!ValidIsApplyable

-----------------------------------------------------------------------------
(* The test-first run (TddRun)                                             *)

\* Which worktrees of the attempt exist at which stage of it.
TreesOfStage ==
    /\ tddStage = "repro" => open = {"repro"}
    /\ tddStage = "red" => open = {"baseline"}
    /\ tddStage = "fix" => open \subseteq {"fix"}
    /\ tddStage \in {"green", "record"} => open = {"fix"}
    /\ tddStage = "persist" => open \subseteq IF plain THEN {"plain"} ELSE {}
    /\ tddStage = "idle" /\ ~spilled => open = {}

\* A worker at work is running, and its artefacts are of no attempt to come.
Numbered ==
    /\ tddStage # "idle" => attempt # 0 /\ tddStatus = "running"
    /\ plain /\ tddStage # "idle" => tddStage = "persist"
    /\ patchOf <= attempt /\ proofOf.by <= attempt /\ runOf.by <= attempt
    /\ inRepo # 0 => tddStatus = "applied"

\* The attempt has not written its run.json yet.
Unwritten == tddStage \notin {"idle", "persist"} \/ (tddStage = "persist" /\ plain /\ "plain" \in open)

\* What the attempt at work, and what its run.json, rest on.
Grounded ==
    /\ Unwritten => runOf.by # attempt
    /\ tddStage \in {"fix", "green", "record", "persist"} /\ ~plain => spec[attempt].red
    /\ tddStage = "persist" /\ ~plain =>
        proofOf.by = attempt /\ (proofOf.good => spec[attempt].green /\ patchOf = attempt)
    /\ tddStage = "persist" /\ plain /\ "plain" \notin open /\ spec[attempt].green => patchOf = attempt
    /\ tddStage = "persist" /\ runOf.by = attempt =>
        /\ runOf.good = (IF plain THEN spec[attempt].green ELSE proofOf.good)
    /\ runOf.tdd => runOf.by # 0 /\ spec[runOf.by].red

TddInv == Tdd!TypeOK /\ TreesOfStage /\ Numbered /\ Grounded /\ Tdd!PassedIsBacked /\ Tdd!LandedIsProven

LEMMA TddStart == Tdd!Init => TddInv
<1> SUFFICES ASSUME Tdd!Init PROVE TddInv
  OBVIOUS
<1>1. Tdd!TypeOK
  <2>1. spec \in [Tdd!Attempts -> [red : BOOLEAN, green : BOOLEAN]]
    BY DEF Tdd!Init
  <2>2. runOf \in [by : 0 .. MaxAttempts, good : BOOLEAN, tdd : BOOLEAN] /\ proofOf \in [by : 0 .. MaxAttempts, good : BOOLEAN]
    BY LandingAssumption DEF Tdd!Init, Tdd!NoRecord, Tdd!Nothing
  <2>3. attempt \in 0 .. MaxAttempts /\ patchOf \in 0 .. MaxAttempts /\ fixOf \in 0 .. MaxAttempts
        /\ inRepo \in 0 .. MaxAttempts
    BY LandingAssumption DEF Tdd!Init
  <2>4. manifest \subseteq Deliverables /\ open \subseteq {"repro", "baseline", "fix", "plain"}
    BY DEF Tdd!Init
  <2> QED
    BY <2>1, <2>2, <2>3, <2>4 DEF Tdd!Init, Tdd!TypeOK
<1>2. TreesOfStage /\ Numbered
  BY DEF Tdd!Init, TreesOfStage, Numbered, Tdd!NoRecord, Tdd!Nothing
<1>3. Grounded
  BY DEF Tdd!Init, Grounded, Unwritten, Tdd!NoRecord, Tdd!Nothing
<1>4. Tdd!PassedIsBacked /\ Tdd!LandedIsProven
  BY DEF Tdd!Init, Tdd!PassedIsBacked, Tdd!LandedIsProven
<1> QED
  BY <1>1, <1>2, <1>3, <1>4 DEF TddInv

LEMMA TddSound == TddInv => Tdd!ProofSound
  BY DEF TddInv, TreesOfStage, Tdd!ProofSound, Tdd!NoTreeIsLeft

LEMMA StartKeepsTdd ==
    ASSUME TddInv, NEW first, NEW isPlain, Tdd!StartsWith(first, isPlain),
           (first = "repro" /\ isPlain = FALSE) \/ (first = "persist" /\ isPlain = TRUE)
    PROVE  TddInv'
<1> USE LandingAssumption DEF TddInv, Tdd!StartsWith
<1>1. attempt \in Nat /\ attempt' = attempt + 1 /\ attempt' \in 0 .. MaxAttempts
  BY DEF Tdd!TypeOK
<1>2. Tdd!TypeOK'
  BY <1>1 DEF Tdd!TypeOK, Tdd!Attempts
<1>3. TreesOfStage'
  BY DEF TreesOfStage
<1>4. Numbered'
  BY <1>1 DEF Numbered, Tdd!TypeOK, Tdd!PassedIsBacked
<1>5. Grounded'
  BY <1>1 DEF Grounded, Unwritten, Numbered, Tdd!TypeOK
<1>6. Tdd!PassedIsBacked' /\ Tdd!LandedIsProven'
  BY DEF Tdd!PassedIsBacked, Tdd!LandedIsProven, Numbered
<1> QED
  BY <1>2, <1>3, <1>4, <1>5, <1>6

\* The stages of an attempt: its worker is running, so nothing is said of what
\* passed or landed, and nothing it writes belongs to what passed before.
LEMMA AtWork ==
    ASSUME TddInv, tddStage # "idle"
    PROVE  /\ attempt \in Tdd!Attempts /\ tddStatus = "running" /\ inRepo = 0
           /\ attempt \in 0 .. MaxAttempts
  BY LandingAssumption DEF TddInv, Tdd!TypeOK, Numbered, Tdd!Attempts

LEMMA SpawnKeepsTdd ==
    ASSUME TddInv, \/ Tdd!SpawnThrows("repro", "repro")
                   \/ "fix" \in open /\ Tdd!SpawnThrows("fix", "fix")
                   \/ Tdd!ReproIsInvalid \/ Tdd!ReproIsKept \/ Tdd!FixIsInvalid \/ Tdd!FixStarts
    PROVE  TddInv'
<1>1. tddStage # "idle"
  BY DEF Tdd!SpawnThrows, Tdd!ReproIsInvalid, Tdd!ReproIsKept, Tdd!FixIsInvalid, Tdd!FixStarts
<1>0. attempt \in 0 .. MaxAttempts /\ proofOf' \in {proofOf, [by |-> attempt, good |-> FALSE]}
  BY <1>1, AtWork DEF Tdd!SpawnThrows, Tdd!ReproIsInvalid, Tdd!ReproIsKept, Tdd!FixIsInvalid, Tdd!FixStarts,
                      Tdd!FailsWith, Tdd!Throws
<1>a. proofOf' \in [by : 0 .. MaxAttempts, good : BOOLEAN]
  <2>1. proofOf \in [by : 0 .. MaxAttempts, good : BOOLEAN]
    BY DEF TddInv, Tdd!TypeOK
  <2>2. [by |-> attempt, good |-> FALSE] \in [by : 0 .. MaxAttempts, good : BOOLEAN]
    BY <1>0
  <2> QED
    BY <1>0, <2>1, <2>2
<1> USE AtWork, <1>1
    DEF Tdd!SpawnThrows, Tdd!ReproIsInvalid, Tdd!ReproIsKept, Tdd!FixIsInvalid, Tdd!FixStarts,
        Tdd!FailsWith, Tdd!Throws
<1>2. Tdd!TypeOK'
  <2>1. proofOf' \in [by : 0 .. MaxAttempts, good : BOOLEAN]
    BY <1>a
  <2>2. tddStage' \in {"idle", "red", "fix"} /\ tddStatus' \in {"running", "failed"}
    OBVIOUS
  <2>3. open' \subseteq {"repro", "baseline", "fix", "plain"}
    BY DEF TddInv, Tdd!TypeOK
  <2>4. UNCHANGED <<manifest, attempt, plain, viaPlan, patchOf, fixOf, runOf, inRepo, spec, spilled>>
    OBVIOUS
  <2> QED
    BY <2>1, <2>2, <2>3, <2>4 DEF TddInv, Tdd!TypeOK
<1>3. TreesOfStage'
  BY DEF TddInv, TreesOfStage
<1>4. Numbered'
  BY DEF TddInv, Numbered, Tdd!TypeOK
<1>5. Grounded'
  BY DEF TddInv, Grounded, Unwritten, Numbered
<1>6. Tdd!PassedIsBacked' /\ Tdd!LandedIsProven'
  BY DEF Tdd!PassedIsBacked, Tdd!LandedIsProven
<1> QED
  BY <1>2, <1>3, <1>4, <1>5, <1>6 DEF TddInv

\* What CoveredAndRed asks of the tagged tests is that each deliverable has one
\* and none passes.
LEMMA RedIsRed ==
    ASSUME NEW exit, NEW tap \in Tdd!Taps, Tdd!RedConfirmed(exit, tap)
    PROVE  IF manifest = {} THEN exit = "non-zero" ELSE \A d \in manifest : tap[d] # {} /\ "ok" \notin tap[d]
<1>1. CASE manifest = {}
  BY <1>1 DEF Tdd!RedConfirmed
<1>2. CASE manifest # {}
  <2>1. \A d \in manifest : tap[d] = {"not_ok"}
    BY <1>2 DEF Tdd!RedConfirmed, Tdd!CoveredAndRed
  <2>2. ASSUME NEW d \in manifest PROVE tap[d] # {} /\ "ok" \notin tap[d]
    BY <2>1
  <2> QED
    BY <1>2, <2>2
<1> QED
  BY <1>1, <1>2

\* What the checks showed of one attempt, noted beside what they showed of others.
LEMMA Noting ==
    ASSUME NEW S, NEW f \in [S -> [red : BOOLEAN, green : BOOLEAN]], NEW a \in S, NEW b \in BOOLEAN
    PROVE  /\ [f EXCEPT ![a].red = b] \in [S -> [red : BOOLEAN, green : BOOLEAN]]
           /\ [f EXCEPT ![a].red = b][a].red = b
           /\ [f EXCEPT ![a].green = b] \in [S -> [red : BOOLEAN, green : BOOLEAN]]
           /\ [f EXCEPT ![a].green = b][a].green = b /\ [f EXCEPT ![a].green = b][a].red = f[a].red
           /\ \A c \in S \ {a} : [f EXCEPT ![a].red = b][c] = f[c] /\ [f EXCEPT ![a].green = b][c] = f[c]
<1> DEFINE Reds == [f[a] EXCEPT !.red = b]
           Greens == [f[a] EXCEPT !.green = b]
<1>1. Reds \in [red : BOOLEAN, green : BOOLEAN] /\ Reds.red = b
  OBVIOUS
<1>2. Greens \in [red : BOOLEAN, green : BOOLEAN] /\ Greens.green = b /\ Greens.red = f[a].red
  OBVIOUS
<1>3. [f EXCEPT ![a].red = b] = [f EXCEPT ![a] = Reds] /\ [f EXCEPT ![a].green = b] = [f EXCEPT ![a] = Greens]
  BY Zenon
<1> HIDE DEF Reds, Greens
<1> QED
  BY <1>1, <1>2, <1>3

LEMMA BaselineKeepsTdd ==
    ASSUME TddInv, Tdd!BaselineRuns
    PROVE  TddInv'
<1> DEFINE Red(exit, tap) == IF manifest = {} THEN exit = "non-zero"
                             ELSE \A d \in manifest : tap[d] # {} /\ "ok" \notin tap[d]
<1>1. tddStage = "red" /\ UNCHANGED <<manifest, attempt, plain, viaPlan, patchOf, fixOf, runOf, inRepo, spilled>>
  BY DEF Tdd!BaselineRuns
<1>2. \A exit, tap : Red(exit, tap) \in BOOLEAN
  OBVIOUS
<1>3. \/ \E red \in BOOLEAN :
            /\ spec' = [spec EXCEPT ![attempt].red = red]
            /\ \/ red /\ tddStage' = "fix" /\ open' = {} /\ UNCHANGED <<tddStatus, proofOf>>
               \/ /\ tddStage' = "idle" /\ tddStatus' = "failed" /\ open' = {}
                  /\ proofOf' = [by |-> attempt, good |-> FALSE]
      \/ tddStage' = "idle" /\ open' = {} /\ tddStatus' \in {"failed", tddStatus} /\ UNCHANGED <<proofOf, spec>>
  <2>1. open = {"baseline"}
    BY <1>1 DEF TddInv, TreesOfStage
  <2>2. CASE \E exit \in Tdd!Exits, tap \in Tdd!Taps :
                /\ spec' = [spec EXCEPT ![attempt].red = Red(exit, tap)]
                /\ IF Tdd!RedConfirmed(exit, tap)
                   THEN tddStage' = "fix" /\ open' = open \ {"baseline"} /\ UNCHANGED <<tddStatus, proofOf>>
                   ELSE Tdd!FailsWith("baseline")
    <3>1. PICK exit \in Tdd!Exits, tap \in Tdd!Taps :
                /\ spec' = [spec EXCEPT ![attempt].red = Red(exit, tap)]
                /\ IF Tdd!RedConfirmed(exit, tap)
                   THEN tddStage' = "fix" /\ open' = open \ {"baseline"} /\ UNCHANGED <<tddStatus, proofOf>>
                   ELSE Tdd!FailsWith("baseline")
      BY <2>2
    <3>2. Red(exit, tap) \in BOOLEAN
      BY <1>2
    <3>3. Tdd!RedConfirmed(exit, tap) => Red(exit, tap)
      BY RedIsRed
    <3> HIDE DEF Red
    <3> QED
      BY <2>1, <3>1, <3>2, <3>3 DEF Tdd!FailsWith
  <2>3. CASE Tdd!Throws /\ open' = open \ {"baseline"} /\ UNCHANGED <<proofOf, spec>>
    BY <2>1, <2>3 DEF Tdd!Throws
  <2> QED
    BY <2>2, <2>3 DEF Tdd!BaselineRuns
<1> HIDE DEF Red
<1>b. attempt \in Tdd!Attempts /\ attempt \in 0 .. MaxAttempts
  BY <1>1, AtWork
<1>c. proofOf' \in [by : 0 .. MaxAttempts, good : BOOLEAN]
  <2>1. proofOf' \in {proofOf, [by |-> attempt, good |-> FALSE]}
    BY <1>3
  <2>2. proofOf \in [by : 0 .. MaxAttempts, good : BOOLEAN]
    BY DEF TddInv, Tdd!TypeOK
  <2>3. [by |-> attempt, good |-> FALSE] \in [by : 0 .. MaxAttempts, good : BOOLEAN]
    BY <1>b
  <2> QED
    BY <2>1, <2>2, <2>3
<1>d. spec' \in [Tdd!Attempts -> [red : BOOLEAN, green : BOOLEAN]]
  <2>1. spec' = spec \/ \E red \in BOOLEAN : spec' = [spec EXCEPT ![attempt].red = red]
    BY <1>3
  <2>2. spec \in [Tdd!Attempts -> [red : BOOLEAN, green : BOOLEAN]]
    BY DEF TddInv, Tdd!TypeOK
  <2> QED
    BY <1>b, <2>1, <2>2, Noting
<1> USE AtWork, <1>1, <1>3, Noting
<1>4. Tdd!TypeOK'
  <2>1. spec' \in [Tdd!Attempts -> [red : BOOLEAN, green : BOOLEAN]]
    BY <1>d
  <2>2. proofOf' \in [by : 0 .. MaxAttempts, good : BOOLEAN]
    BY <1>c
  <2> QED
    BY <2>1, <2>2 DEF TddInv, Tdd!TypeOK
<1>5. TreesOfStage'
  BY DEF TreesOfStage
<1>6. Numbered'
  BY DEF TddInv, Numbered, Tdd!TypeOK
<1>7. Grounded'
  <2>1. runOf.by # attempt /\ (runOf.tdd => runOf.by # 0 /\ spec[runOf.by].red)
    BY DEF TddInv, Grounded, Unwritten
  <2>2. ~plain
    BY DEF TddInv, Numbered
  <2>3. runOf.by \in 0 .. MaxAttempts /\ (runOf.by # 0 => spec'[runOf.by].red = spec[runOf.by].red)
    <3>1. runOf.by \in 0 .. MaxAttempts /\ spec \in [Tdd!Attempts -> [red : BOOLEAN, green : BOOLEAN]]
      BY DEF TddInv, Tdd!TypeOK
    <3>2. runOf.by # 0 => runOf.by \in Tdd!Attempts
      BY <3>1, LandingAssumption DEF Tdd!Attempts
    <3> QED
      BY <2>1, <3>1, <3>2
  <2>4. tddStage' = "fix" => spec'[attempt].red
    BY DEF TddInv, Tdd!TypeOK
  <2> QED
    BY <2>1, <2>2, <2>3, <2>4 DEF Grounded, Unwritten
<1>8. Tdd!PassedIsBacked' /\ Tdd!LandedIsProven'
  BY DEF Tdd!PassedIsBacked, Tdd!LandedIsProven
<1> QED
  BY <1>4, <1>5, <1>6, <1>7, <1>8 DEF TddInv

\* Steps that write no check's result and no verdict: the fix patch is taken, a
\* write throws, the process dies.
LEMMA PassingKeepsTdd ==
    ASSUME TddInv, Tdd!FixEnds \/ Tdd!GreenThrows \/ Tdd!RunThrows \/ Tdd!Crashes
    PROVE  TddInv'
<1>1. tddStage # "idle"
  BY DEF Tdd!FixEnds, Tdd!GreenThrows, Tdd!RunThrows, Tdd!Crashes
<1>2. /\ UNCHANGED <<manifest, attempt, plain, viaPlan, open, patchOf, runOf, proofOf, inRepo, spec>>
      /\ tddStatus' \in {tddStatus, "failed"} /\ fixOf' \in {fixOf, attempt} /\ spilled' \in {spilled, TRUE}
      /\ \/ tddStage = "fix" /\ "fix" \in open /\ tddStage' = "green" /\ UNCHANGED <<tddStatus, spilled>>
         \/ tddStage' = "idle" /\ (spilled' \/ (tddStage = "persist" /\ "plain" \notin open))
  BY DEF Tdd!FixEnds, Tdd!GreenThrows, Tdd!RunThrows, Tdd!Crashes, Tdd!Throws
<1> USE AtWork, <1>1, <1>2
<1>3. Tdd!TypeOK'
  BY DEF TddInv, Tdd!TypeOK
<1>4. TreesOfStage'
  BY DEF TddInv, TreesOfStage
<1>5. Numbered'
  BY DEF TddInv, Numbered
<1>6. Grounded'
  BY DEF TddInv, Grounded, Unwritten, Numbered
<1>7. Tdd!PassedIsBacked' /\ Tdd!LandedIsProven'
  BY DEF Tdd!PassedIsBacked, Tdd!LandedIsProven
<1> QED
  BY <1>3, <1>4, <1>5, <1>6, <1>7 DEF TddInv

LEMMA GreenKeepsTdd ==
    ASSUME TddInv, Tdd!GreenRuns
    PROVE  TddInv'
<1>1. /\ tddStage = "green" /\ tddStage' = "record"
      /\ UNCHANGED <<manifest, tddStatus, attempt, plain, viaPlan, open, patchOf, fixOf, runOf, proofOf, inRepo,
                     spilled>>
  BY DEF Tdd!GreenRuns
<1>2. PICK green \in BOOLEAN : spec' = [spec EXCEPT ![attempt].green = green]
  <2> DEFINE Green(exit, tap, fullPasses) == IF manifest = {} THEN exit = "zero"
                                             ELSE exit = "zero" /\ Tdd!AllGreen(tap) /\ fullPasses
  <2>1. PICK exit \in Tdd!Exits, tap \in Tdd!Taps, fullPasses \in BOOLEAN :
            spec' = [spec EXCEPT ![attempt].green = Green(exit, tap, fullPasses)]
    BY DEF Tdd!GreenRuns
  <2>2. Green(exit, tap, fullPasses) \in BOOLEAN
    OBVIOUS
  <2> HIDE DEF Green
  <2> QED
    BY <2>1, <2>2
<1>3. attempt \in Tdd!Attempts /\ attempt \in 0 .. MaxAttempts /\ tddStatus = "running" /\ inRepo = 0 /\ ~plain
  BY <1>1, AtWork DEF TddInv, Numbered
<1>4. spec \in [Tdd!Attempts -> [red : BOOLEAN, green : BOOLEAN]]
  BY DEF TddInv, Tdd!TypeOK
<1>5. /\ spec' \in [Tdd!Attempts -> [red : BOOLEAN, green : BOOLEAN]]
      /\ \A a \in Tdd!Attempts : spec'[a].red = spec[a].red
  BY <1>2, <1>3, <1>4, Noting
<1>6. Tdd!TypeOK'
  BY <1>1, <1>5 DEF TddInv, Tdd!TypeOK
<1>7. TreesOfStage' /\ Numbered'
  BY <1>1, <1>3 DEF TddInv, TreesOfStage, Numbered
<1>8. Grounded'
  <2>1. spec[attempt].red /\ spec'[attempt].red
    BY <1>1, <1>3, <1>5 DEF TddInv, Grounded
  <2>2. runOf.by \in 0 .. MaxAttempts /\ (runOf.by # 0 => runOf.by \in Tdd!Attempts)
    BY LandingAssumption DEF TddInv, Tdd!TypeOK, Tdd!Attempts
  <2>3. runOf.tdd => runOf.by # 0 /\ spec'[runOf.by].red
    BY <1>5, <2>2 DEF TddInv, Grounded
  <2>4. runOf.by # attempt
    BY <1>1 DEF TddInv, Grounded, Unwritten
  <2> QED
    BY <1>1, <1>3, <2>1, <2>3, <2>4 DEF Grounded, Unwritten
<1>9. Tdd!PassedIsBacked' /\ Tdd!LandedIsProven'
  BY <1>1, <1>3 DEF Tdd!PassedIsBacked, Tdd!LandedIsProven
<1> QED
  BY <1>6, <1>7, <1>8, <1>9 DEF TddInv

LEMMA RecordKeepsTdd ==
    ASSUME TddInv, Tdd!RecordsProof
    PROVE  TddInv'
<1>1. /\ tddStage = "record" /\ tddStage' = "persist" /\ open' = open \ {"fix"}
      /\ UNCHANGED <<manifest, tddStatus, attempt, plain, viaPlan, fixOf, runOf, inRepo, spec, spilled>>
  BY DEF Tdd!RecordsProof
<1>2. attempt \in Tdd!Attempts /\ attempt \in 0 .. MaxAttempts /\ tddStatus = "running" /\ inRepo = 0 /\ ~plain
  BY <1>1, AtWork DEF TddInv, Numbered
<1>3. spec[attempt].green \in BOOLEAN
  BY <1>2 DEF TddInv, Tdd!TypeOK
<1>4. PICK hasPatch \in BOOLEAN :
        /\ patchOf' = IF hasPatch THEN attempt ELSE patchOf
        /\ proofOf' = [by |-> attempt, good |-> spec[attempt].green /\ hasPatch]
  BY DEF Tdd!RecordsProof
<1>5. /\ proofOf' \in [by : 0 .. MaxAttempts, good : BOOLEAN] /\ proofOf'.by = attempt
      /\ proofOf'.good => spec[attempt].green /\ patchOf' = attempt
  BY <1>2, <1>3, <1>4
<1>6. patchOf' \in 0 .. MaxAttempts /\ patchOf' <= attempt
  BY <1>2, <1>4 DEF TddInv, Tdd!TypeOK, Numbered
<1>7. Tdd!TypeOK'
  BY <1>1, <1>5, <1>6 DEF TddInv, Tdd!TypeOK
<1>8. TreesOfStage'
  BY <1>1, <1>2 DEF TddInv, TreesOfStage
<1>9. Numbered'
  BY <1>1, <1>2, <1>5, <1>6 DEF TddInv, Numbered
<1>10. Grounded'
  BY <1>1, <1>2, <1>5 DEF TddInv, Grounded, Unwritten
<1>11. Tdd!PassedIsBacked' /\ Tdd!LandedIsProven'
  BY <1>1, <1>2 DEF Tdd!PassedIsBacked, Tdd!LandedIsProven
<1> QED
  BY <1>7, <1>8, <1>9, <1>10, <1>11 DEF TddInv

LEMMA PlainEndKeepsTdd ==
    ASSUME TddInv, Tdd!PlainEnds
    PROVE  TddInv'
<1>1. /\ tddStage = "persist" /\ plain /\ "plain" \in open /\ open' = open \ {"plain"}
      /\ UNCHANGED <<manifest, attempt, plain, viaPlan, fixOf, runOf, proofOf, inRepo, spilled>>
  BY DEF Tdd!PlainEnds
<1>2. /\ attempt \in Tdd!Attempts /\ attempt \in 0 .. MaxAttempts /\ tddStatus = "running" /\ inRepo = 0
      /\ open = {"plain"}
  BY <1>1, AtWork DEF TddInv, TreesOfStage
<1>3. \/ \E hasPatch, passes \in BOOLEAN :
            /\ patchOf' = IF hasPatch THEN attempt ELSE patchOf
            /\ spec' = [spec EXCEPT ![attempt].green = passes /\ hasPatch]
            /\ UNCHANGED <<tddStage, tddStatus>>
      \/ tddStage' = "idle" /\ tddStatus' = "failed" /\ UNCHANGED <<patchOf, spec>>
  BY DEF Tdd!PlainEnds
<1>4. spec \in [Tdd!Attempts -> [red : BOOLEAN, green : BOOLEAN]]
  BY DEF TddInv, Tdd!TypeOK
<1>5. /\ spec' \in [Tdd!Attempts -> [red : BOOLEAN, green : BOOLEAN]]
      /\ \A a \in Tdd!Attempts : spec'[a].red = spec[a].red
      /\ tddStage' = "persist" /\ spec'[attempt].green => patchOf' = attempt
      /\ patchOf' \in {patchOf, attempt}
  <2>1. CASE tddStage' = "idle" /\ tddStatus' = "failed" /\ UNCHANGED <<patchOf, spec>>
    BY <1>4, <2>1
  <2>2. CASE \E hasPatch, passes \in BOOLEAN :
                /\ patchOf' = IF hasPatch THEN attempt ELSE patchOf
                /\ spec' = [spec EXCEPT ![attempt].green = passes /\ hasPatch]
                /\ UNCHANGED <<tddStage, tddStatus>>
    <3>1. PICK hasPatch, passes \in BOOLEAN :
                /\ patchOf' = IF hasPatch THEN attempt ELSE patchOf
                /\ spec' = [spec EXCEPT ![attempt].green = passes /\ hasPatch]
      BY <2>2
    <3> DEFINE green == passes /\ hasPatch
    <3>2. green \in BOOLEAN /\ spec' = [spec EXCEPT ![attempt].green = green] /\ (green => hasPatch)
      BY <3>1
    <3> HIDE DEF green
    <3>3. spec'[attempt].green = green /\ \A a \in Tdd!Attempts : spec'[a].red = spec[a].red
      BY <1>2, <1>4, <3>2, Noting
    <3>4. spec' \in [Tdd!Attempts -> [red : BOOLEAN, green : BOOLEAN]]
      BY <1>2, <1>4, <3>2, Noting
    <3> QED
      BY <3>1, <3>2, <3>3, <3>4
  <2> QED
    BY <1>3, <2>1, <2>2
<1>6. patchOf' \in 0 .. MaxAttempts /\ patchOf' <= attempt
  BY <1>2, <1>5 DEF TddInv, Tdd!TypeOK, Numbered
<1>7. \/ tddStage' = "persist" /\ tddStatus' = "running"
      \/ tddStage' = "idle" /\ tddStatus' = "failed"
  BY <1>1, <1>2, <1>3
<1>8. Tdd!TypeOK'
  BY <1>1, <1>5, <1>6, <1>7 DEF TddInv, Tdd!TypeOK
<1>9. TreesOfStage'
  BY <1>1, <1>2, <1>7 DEF TddInv, TreesOfStage
<1>10. Numbered'
  BY <1>1, <1>2, <1>6, <1>7 DEF TddInv, Numbered
<1>11. Grounded'
  <2>1. runOf.by # attempt
    BY <1>1 DEF TddInv, Grounded, Unwritten
  <2>2. runOf.by \in 0 .. MaxAttempts /\ (runOf.by # 0 => runOf.by \in Tdd!Attempts)
    BY LandingAssumption DEF TddInv, Tdd!TypeOK, Tdd!Attempts
  <2>3. runOf.tdd => runOf.by # 0 /\ spec'[runOf.by].red
    BY <1>5, <2>2 DEF TddInv, Grounded
  <2> QED
    BY <1>1, <1>5, <1>7, <2>1, <2>3 DEF Grounded, Unwritten
<1>12. Tdd!PassedIsBacked' /\ Tdd!LandedIsProven'
  BY <1>1, <1>2, <1>7 DEF Tdd!PassedIsBacked, Tdd!LandedIsProven
<1> QED
  BY <1>8, <1>9, <1>10, <1>11, <1>12 DEF TddInv

LEMMA WriteKeepsTdd ==
    ASSUME TddInv, Tdd!WritesRun
    PROVE  TddInv'
<1>1. /\ tddStage = "persist" /\ "plain" \notin open /\ runOf.by # attempt
      /\ runOf' = [by |-> attempt, good |-> IF plain THEN spec[attempt].green ELSE proofOf.good,
                   tdd |-> ~plain /\ proofOf.good]
      /\ UNCHANGED <<manifest, tddStage, tddStatus, attempt, plain, viaPlan, open, patchOf, fixOf, proofOf,
                     inRepo, spec, spilled>>
  BY DEF Tdd!WritesRun
<1>2. attempt \in Tdd!Attempts /\ attempt \in 0 .. MaxAttempts /\ tddStatus = "running" /\ inRepo = 0
  BY <1>1, AtWork
<1>3. spec[attempt].green \in BOOLEAN /\ proofOf.good \in BOOLEAN /\ plain \in BOOLEAN
  BY <1>2 DEF TddInv, Tdd!TypeOK
<1>4. /\ runOf' \in [by : 0 .. MaxAttempts, good : BOOLEAN, tdd : BOOLEAN]
      /\ runOf'.by = attempt /\ runOf'.good = (IF plain THEN spec[attempt].green ELSE proofOf.good)
      /\ runOf'.tdd => ~plain
  BY <1>1, <1>2, <1>3
<1>5. Tdd!TypeOK'
  BY <1>1, <1>4 DEF TddInv, Tdd!TypeOK
<1>6. TreesOfStage' /\ Numbered'
  BY <1>1, <1>2, <1>4 DEF TddInv, TreesOfStage, Numbered
<1>7. Grounded'
  <2>1. attempt # 0
    BY <1>1 DEF TddInv, Numbered
  <2> QED
    BY <1>1, <1>4, <2>1 DEF TddInv, Grounded, Unwritten
<1>8. Tdd!PassedIsBacked' /\ Tdd!LandedIsProven'
  BY <1>1, <1>2 DEF Tdd!PassedIsBacked, Tdd!LandedIsProven
<1> QED
  BY <1>5, <1>6, <1>7, <1>8 DEF TddInv

LEMMA FinishKeepsTdd ==
    ASSUME TddInv, Tdd!Finishes
    PROVE  TddInv'
<1> DEFINE good == IF plain THEN spec[attempt].green ELSE proofOf.good
<1>1. /\ tddStage = "persist" /\ "plain" \notin open /\ runOf.by = attempt /\ tddStage' = "idle"
      /\ tddStatus' = IF good THEN "passed" ELSE "failed"
      /\ UNCHANGED <<manifest, attempt, plain, viaPlan, open, patchOf, fixOf, runOf, proofOf, inRepo, spec, spilled>>
  BY DEF Tdd!Finishes, Tdd!MayFinish
<1>2. attempt \in Tdd!Attempts /\ inRepo = 0 /\ attempt # 0 /\ plain \in BOOLEAN
  BY <1>1, AtWork DEF TddInv, Numbered, Tdd!TypeOK
<1>3. runOf.good = good /\ (good => spec[attempt].green /\ patchOf = attempt)
  BY <1>1, <1>2 DEF TddInv, Grounded
<1> HIDE DEF good
<1>4. Tdd!TypeOK'
  BY <1>1 DEF TddInv, Tdd!TypeOK
<1>5. TreesOfStage'
  BY <1>1, <1>2 DEF TddInv, TreesOfStage
<1>6. Numbered'
  BY <1>1, <1>2 DEF TddInv, Numbered
<1>7. Grounded'
  BY <1>1 DEF TddInv, Grounded, Unwritten
<1>8. Tdd!PassedIsBacked'
  BY <1>1, <1>3 DEF Tdd!PassedIsBacked
<1>9. Tdd!LandedIsProven'
  BY <1>1, <1>2 DEF Tdd!LandedIsProven
<1> QED
  BY <1>4, <1>5, <1>6, <1>7, <1>8, <1>9 DEF TddInv

LEMMA ApplyKeepsTdd ==
    ASSUME TddInv, Tdd!Applies
    PROVE  TddInv'
<1>1. /\ tddStage = "idle" /\ tddStatus = "passed" /\ runOf.tdd /\ inRepo' = patchOf /\ tddStatus' = "applied"
      /\ UNCHANGED <<manifest, tddStage, attempt, plain, viaPlan, open, patchOf, fixOf, runOf, proofOf, spec,
                     spilled>>
  BY DEF Tdd!Applies, Tdd!RunIsProven
<1>2. runOf.good /\ runOf.by = patchOf /\ spec[patchOf].green /\ spec[patchOf].red
  BY <1>1 DEF TddInv, Tdd!PassedIsBacked, Grounded
<1>3. Tdd!TypeOK'
  BY <1>1 DEF TddInv, Tdd!TypeOK
<1>4. TreesOfStage' /\ Numbered' /\ Grounded'
  BY <1>1 DEF TddInv, TreesOfStage, Numbered, Grounded, Unwritten
<1>5. Tdd!PassedIsBacked' /\ Tdd!LandedIsProven'
  BY <1>1, <1>2 DEF Tdd!PassedIsBacked, Tdd!LandedIsProven
<1> QED
  BY <1>3, <1>4, <1>5 DEF TddInv

LEMMA TddStep == TddInv /\ [Tdd!Next]_(Tdd!tddVars) => TddInv'
<1> SUFFICES ASSUME TddInv, [Tdd!Next]_(Tdd!tddVars)
             PROVE  TddInv'
  OBVIOUS
<1>1. CASE Tdd!StartTdd \/ Tdd!StartPlain
  BY <1>1, StartKeepsTdd DEF Tdd!StartTdd, Tdd!StartPlain
<1>2. CASE \/ Tdd!SpawnThrows("repro", "repro") \/ ("fix" \in open /\ Tdd!SpawnThrows("fix", "fix"))
           \/ Tdd!ReproIsInvalid \/ Tdd!ReproIsKept \/ Tdd!FixIsInvalid \/ Tdd!FixStarts
  BY <1>2, SpawnKeepsTdd
<1>3. CASE Tdd!BaselineRuns
  BY <1>3, BaselineKeepsTdd
<1>4. CASE Tdd!FixEnds \/ Tdd!GreenThrows \/ Tdd!RunThrows \/ Tdd!Crashes
  BY <1>4, PassingKeepsTdd
<1>5. CASE Tdd!GreenRuns
  BY <1>5, GreenKeepsTdd
<1>6. CASE Tdd!RecordsProof
  BY <1>6, RecordKeepsTdd
<1>7. CASE Tdd!PlainEnds
  BY <1>7, PlainEndKeepsTdd
<1>8. CASE Tdd!WritesRun
  BY <1>8, WriteKeepsTdd
<1>9. CASE Tdd!Finishes
  BY <1>9, FinishKeepsTdd
<1>10. CASE Tdd!Applies
  BY <1>10, ApplyKeepsTdd
<1>11. CASE UNCHANGED Tdd!tddVars
  BY <1>11 DEF TddInv, Tdd!TypeOK, Tdd!tddVars, TreesOfStage, Numbered, Grounded, Unwritten, Tdd!PassedIsBacked,
               Tdd!LandedIsProven
<1> QED
  BY <1>1, <1>2, <1>3, <1>4, <1>5, <1>6, <1>7, <1>8, <1>9, <1>10, <1>11 DEF Tdd!Next, Tdd!Rests

\* A patch in the repository passed every gate that applyWorker states and its
\* task's demands, a worker that passes or lands with TDD has a red test that
\* turned green in the same attempt, and no worktree outlives a run that ended on
\* a path the code cleans up (applyWorker, runWorkerTdd).
THEOREM LandedIsSound == PartsSpec => []GatesSound
<1>1. GateInv => Gates!GatesSound
  BY PreviewAgrees DEF GateInv, Gates!GatesSound
<1>2. GateInv /\ TddInv => GatesSound
  BY <1>1, TddSound DEF GatesSound
<1>3. Tdd!Spec => []TddInv
  BY TddStart, TddStep, PTL DEF Tdd!Spec
<1> QED
  BY <1>2, <1>3, Components, GatesAlways, PTL

-----------------------------------------------------------------------------
(* The solve loop (Solver)                                                 *)

InLoop == solve \in {"attempts", "edited", "verify"}

SolveInv ==
    /\ Solve!TypeOK
    /\ answerOf # "none" => solve = "over"
    /\ InLoop /\ ~options.check => sawRed
    /\ InLoop /\ options.repro => repro # "none"
    /\ Solve!SolvedIsVerified /\ Solve!OracleWasRed /\ Solve!NoScratchTestLeft

LEMMA SolveStart == Solve!Init => SolveInv
<1> SUFFICES ASSUME Solve!Init PROVE SolveInv
  OBVIOUS
<1>1. Solve!TypeOK
  <2>1. tries \in 0 .. MaxAttempts
    BY LandingAssumption DEF Solve!Init
  <2>2. test \in Solve!Tests
    BY DEF Solve!Init, Solve!Tests
  <2> QED
    BY <2>1, <2>2 DEF Solve!Init, Solve!TypeOK
<1> QED
  BY <1>1 DEF Solve!Init, SolveInv, InLoop, Solve!SolvedIsVerified, Solve!OracleWasRed, Solve!NoScratchTestLeft

LEMMA SolveIsSound == SolveInv => Solve!SolveSound
  BY DEF SolveInv, Solve!SolveSound

\* Before the loop nothing is answered but a refusal; the loop without a check is
\* entered only past a test that was red.
LEMMA EnteringKeepsSolve ==
    ASSUME SolveInv, Solve!Refuses \/ Solve!SkipsRepro \/ Solve!ReproTurnThrows \/ Solve!ReproTurn
                     \/ Solve!ValidatesRepro
    PROVE  SolveInv'
<1>1. solve \in {"called", "generated"} /\ answerOf = "none"
  BY DEF SolveInv, Solve!Refuses, Solve!SkipsRepro, Solve!ReproTurnThrows, Solve!ReproTurn, Solve!ValidatesRepro
<1>2. /\ UNCHANGED <<options, deps, tries, signalled>> /\ right' \in BOOLEAN /\ test' \in Solve!Tests
      /\ checked' \in {"none", "before", "now"}
  BY DEF SolveInv, Solve!TypeOK, Solve!Tests, Solve!Refuses, Solve!SkipsRepro, Solve!ReproTurnThrows,
         Solve!ReproTurn, Solve!ValidatesRepro, Solve!TurnChanges
<1>3. /\ repro' \in {"none", "invalid", "valid"} /\ sawRed' \in BOOLEAN
      /\ \/ solve' = "generated" /\ answerOf' = "none"
         \/ solve' = "over" /\ answerOf' = "refused"
         \/ /\ solve' = "attempts" /\ answerOf' = "none"
            /\ ~options.check => sawRed'
            /\ options.repro => repro' # "none"
  <2>1. CASE Solve!Refuses \/ Solve!SkipsRepro \/ Solve!ReproTurnThrows \/ Solve!ReproTurn
    BY <1>1, <2>1 DEF SolveInv, Solve!TypeOK, Solve!Refuses, Solve!SkipsRepro, Solve!ReproTurnThrows,
                      Solve!ReproTurn, Solve!Answers
  <2>2. CASE Solve!ValidatesRepro
    BY <1>1, <2>2 DEF SolveInv, Solve!TypeOK, Solve!ValidatesRepro, Solve!Answers, Solve!EstablishesRed
  <2> QED
    BY <2>1, <2>2
<1>4. Solve!TypeOK'
  BY <1>2, <1>3 DEF SolveInv, Solve!TypeOK
<1> QED
  BY <1>2, <1>3, <1>4 DEF SolveInv, InLoop, Solve!SolvedIsVerified, Solve!OracleWasRed, Solve!NoScratchTestLeft

\* The steps of the loop that answer nothing of the check: a turn, the targeted
\* tests, giving up, a check that throws.
LEMMA LoopKeepsSolve ==
    ASSUME SolveInv, Solve!GivesUp \/ Solve!Attempts \/ Solve!Edited \/ Solve!CheckThrows
    PROVE  SolveInv'
<1>1. InLoop /\ answerOf = "none"
  BY DEF SolveInv, InLoop, Solve!GivesUp, Solve!Attempts, Solve!Edited, Solve!CheckThrows
<1>2. /\ UNCHANGED <<options, deps, repro, sawRed, signalled>> /\ right' \in BOOLEAN
      /\ checked' \in {"none", "before", "now"} /\ tries' \in 0 .. MaxAttempts
  BY LandingAssumption DEF SolveInv, Solve!TypeOK, Solve!GivesUp, Solve!Attempts, Solve!Edited,
                           Solve!CheckThrows, Solve!TurnChanges
<1>3. test' \in Solve!Tests
  BY DEF SolveInv, Solve!TypeOK, Solve!Tests, Solve!GivesUp, Solve!Attempts, Solve!Edited, Solve!CheckThrows,
         Solve!TurnChanges, Solve!Finish, Solve!Answers
<1>4. \/ solve' \in {"edited", "verify", "attempts"} /\ answerOf' = "none"
      \/ solve' = "over" /\ answerOf' \in {"refused", "thrown"}
      \/ /\ solve' = "over" /\ answerOf' = "unsolved"
         /\ test' = IF repro = "none" \/ (repro = "valid" /\ ~options.scratch) THEN test ELSE "none"
  BY <1>1 DEF Solve!GivesUp, Solve!Attempts, Solve!Edited, Solve!CheckThrows, Solve!Finish, Solve!Answers
<1>5. Solve!TypeOK'
  BY <1>2, <1>3, <1>4 DEF SolveInv, Solve!TypeOK
<1> QED
  BY <1>1, <1>2, <1>4, <1>5 DEF SolveInv, InLoop, Solve!SolvedIsVerified, Solve!OracleWasRed,
                                Solve!NoScratchTestLeft

LEMMA VerdictKeepsSolve ==
    ASSUME SolveInv, Solve!Verifies
    PROVE  SolveInv'
<1>1. /\ solve = "verify" /\ InLoop /\ answerOf = "none"
      /\ UNCHANGED <<options, right, repro, sawRed, tries, signalled>>
  BY DEF SolveInv, InLoop, Solve!Verifies
<1>2. PICK run0 \in IF signalled THEN {"killed"} ELSE Solve!RunOf(Solve!Authority, right, deps),
           repairs \in IF options.healing /\ ~deps THEN BOOLEAN ELSE {FALSE} :
        LET repaired == repairs /\ run0 \in {"fail", "killed"} /\ ~signalled
        IN  /\ deps' = (deps \/ repaired)
            /\ \/ "pass" \in Solve!Healed(run0, repaired) /\ Solve!Finish("solved") /\ checked' = "now"
               \/ /\ Solve!Healed(run0, repaired) # {"pass"} /\ solve' = "attempts"
                  /\ UNCHANGED <<answerOf, checked, test>>
  BY DEF Solve!Verifies
<1> DEFINE repaired == repairs /\ run0 \in {"fail", "killed"} /\ ~signalled
<1>3. deps' \in BOOLEAN
  BY <1>2 DEF SolveInv, Solve!TypeOK
<1>4. \/ "pass" \in Solve!Healed(run0, repaired) /\ Solve!Finish("solved") /\ checked' = "now"
      \/ solve' = "attempts" /\ UNCHANGED <<answerOf, checked, test>>
  BY <1>2
<1>5. CASE "pass" \in Solve!Healed(run0, repaired) /\ Solve!Finish("solved") /\ checked' = "now"
  <2>1. options.check => right
    <3>1. ASSUME options.check PROVE "pass" \in Solve!RunOf("check", right, deps) \/ "pass" \in Solve!RunOf("check", right, TRUE)
      BY <1>2, <1>5, <3>1 DEF Solve!Healed, Solve!Authority
    <3> QED
      BY <3>1 DEF Solve!RunOf
  <2>2. solve' = "over" /\ answerOf' = "solved"
        /\ test' = IF repro = "none" \/ (repro = "valid" /\ ~options.scratch) THEN test ELSE "none"
    BY <1>5 DEF Solve!Finish, Solve!Answers
  <2>3. Solve!TypeOK'
    BY <1>1, <1>3, <1>5, <2>2 DEF SolveInv, Solve!TypeOK, Solve!Tests
  <2>4. Solve!SolvedIsVerified' /\ Solve!OracleWasRed'
    BY <1>1, <1>5, <2>1 DEF SolveInv, Solve!SolvedIsVerified, Solve!OracleWasRed
  <2>5. Solve!NoScratchTestLeft'
    BY <1>1, <2>2 DEF SolveInv, Solve!NoScratchTestLeft
  <2> QED
    BY <2>2, <2>3, <2>4, <2>5 DEF SolveInv, InLoop
<1>6. CASE solve' = "attempts" /\ UNCHANGED <<answerOf, checked, test>>
  BY <1>1, <1>3, <1>6 DEF SolveInv, InLoop, Solve!TypeOK, Solve!SolvedIsVerified, Solve!OracleWasRed,
                          Solve!NoScratchTestLeft
<1> QED
  BY <1>4, <1>5, <1>6

LEMMA SolveStep == SolveInv /\ [Solve!Next]_(Solve!solveVars) => SolveInv'
<1> SUFFICES ASSUME SolveInv, [Solve!Next]_(Solve!solveVars)
             PROVE  SolveInv'
  OBVIOUS
<1>1. CASE Solve!Refuses \/ Solve!SkipsRepro \/ Solve!ReproTurnThrows \/ Solve!ReproTurn \/ Solve!ValidatesRepro
  BY <1>1, EnteringKeepsSolve
<1>2. CASE Solve!GivesUp \/ Solve!Attempts \/ Solve!Edited \/ Solve!CheckThrows
  BY <1>2, LoopKeepsSolve
<1>3. CASE Solve!Verifies
  BY <1>3, VerdictKeepsSolve
<1>4. CASE Solve!Interrupt
  BY <1>4 DEF Solve!Interrupt, SolveInv, InLoop, Solve!TypeOK, Solve!SolvedIsVerified, Solve!OracleWasRed,
              Solve!NoScratchTestLeft
<1>5. CASE UNCHANGED Solve!solveVars
  BY <1>5 DEF Solve!solveVars, SolveInv, InLoop, Solve!TypeOK, Solve!SolvedIsVerified, Solve!OracleWasRed,
              Solve!NoScratchTestLeft
<1> QED
  BY <1>1, <1>2, <1>3, <1>4, <1>5 DEF Solve!Next, Solve!SolverStep, Solve!SolveOver

-----------------------------------------------------------------------------
(* The audit sweep (PrLoop)                                                *)

\* The order in which the findings of a set are gone through is a sequence of them.
LEMMA OrderOfSet ==
    ASSUME NEW S \in SUBSET Findings
    PROVE  Pulls!SetToSeq(S) \in Seq(Findings) /\ \A i \in 1 .. Len(Pulls!SetToSeq(S)) : Pulls!SetToSeq(S)[i] \in S
<1>1. IsFiniteSet(S)
  BY LandingAssumption, FS_Subset
<1>2. Cardinality(S) \in Nat /\ ExistsBijection(1 .. Cardinality(S), S)
  BY <1>1, FS_CardinalityType
<1>3. \E f \in [1 .. Cardinality(S) -> S] : Pulls!IsInjective(f)
  BY <1>2 DEF ExistsBijection, Bijection, Injection, IsInjective, Pulls!IsInjective
<1>4. Pulls!SetToSeq(S) = CHOOSE f \in [1 .. Cardinality(S) -> S] : Pulls!IsInjective(f)
  BY Zenon DEF Pulls!SetToSeq, Pulls!Cardinality, Cardinality
<1>5. Pulls!SetToSeq(S) \in [1 .. Cardinality(S) -> S]
  BY <1>3, <1>4
<1> HIDE DEF Pulls!SetToSeq
<1> QED
  BY <1>2, <1>5

\* While a sweep runs, the ledger is the one it read, and whatever it has to do
\* with is not in it; a merge is called only past a gate that was asked last.
SweepInv ==
    /\ Pulls!TypeOK
    /\ at = "merge" => queue # <<>>
    /\ at = "fix" => gate = "unasked"
    /\ at = "merge" /\ gate = "rechecked" => Pulls!Applyable(Pulls!Pr) \/ shifted
    /\ \A f \in Findings : ledger[f] = "fixed" \/ outcome[f] = "merged" => f \in asked
    /\ at # "idle" => findings = ledger /\ \A f \in Findings : outcome[f] # "skipped" => ledger[f] = "none"
    /\ at \in {"fix", "merge"} => \A i \in 1 .. Len(queue) : ledger[queue[i]] = "none"

LEMMA SweepStart == Pulls!Init => SweepInv
<1> SUFFICES ASSUME Pulls!Init PROVE SweepInv
  OBVIOUS
<1>1. queue \in Seq(Findings) /\ sweeps \in 0 .. MaxSweeps /\ asked \subseteq Findings
  BY LandingAssumption DEF Pulls!Init
<1>2. Pulls!TypeOK
  BY <1>1 DEF Pulls!Init, Pulls!TypeOK, Pulls!Modes, Pulls!PrStates, Pulls!Outcomes
<1> QED
  BY <1>2 DEF Pulls!Init, SweepInv

\* The findings the sweep is at, one after another.
LEMMA TakingNext ==
    ASSUME NEW q \in Seq(Findings), q # <<>>
    PROVE  /\ Head(q) \in Findings /\ Head(q) = q[1] /\ Len(q) \in Nat \ {0}
           /\ Tail(q) \in Seq(Findings) /\ Len(Tail(q)) = Len(q) - 1
           /\ \A i \in 1 .. Len(Tail(q)) : Tail(q)[i] = q[i + 1] /\ i + 1 \in 1 .. Len(q)
           /\ Len(q) # 1 => Tail(q) # <<>>
<1>1. Len(q) \in Nat \ {0} /\ Head(q) = q[1] /\ Head(q) \in Findings
  OBVIOUS
<1>2. /\ Tail(q) \in Seq(Findings) /\ Len(Tail(q)) = Len(q) - 1
      /\ \A i \in 1 .. Len(Tail(q)) : Tail(q)[i] = q[i + 1]
  BY HeadTailProperties
<1>3. \A i \in 1 .. Len(Tail(q)) : i + 1 \in 1 .. Len(q)
  BY <1>1, <1>2
<1>4. Len(q) # 1 => Tail(q) # <<>>
  <2>1. Len(q) # 1 => Len(Tail(q)) # 0
    BY <1>1, <1>2
  <2> QED
    BY <2>1
<1> QED
  BY <1>1, <1>2, <1>3, <1>4

LEMMA BeginKeepsSweep ==
    ASSUME SweepInv, Pulls!Sweeps
    PROVE  SweepInv'
<1>1. PICK serious \in SUBSET Findings :
        /\ queue' = IF mode' \in {"dryRun", "noFix"} THEN <<>>
                    ELSE Pulls!SetToSeq(Pulls!Triage(ledger, serious))
        /\ outcome' = [f \in Findings |-> IF f \in Pulls!Triage(ledger, serious) THEN "triaged" ELSE "skipped"]
  BY DEF Pulls!Sweeps
<1>2. /\ at = "idle" /\ sweeps < MaxSweeps /\ sweeps' = sweeps + 1
      /\ findings' = ledger /\ mode' \in Pulls!Modes /\ gate' = "unasked"
      /\ at' = IF mode' = "dryRun" THEN "idle" ELSE IF queue' = <<>> THEN "save" ELSE "fix"
      /\ UNCHANGED <<ledger, github, shifted, asked>>
  BY DEF Pulls!Sweeps
<1> DEFINE todo == Pulls!Triage(ledger, serious)
<1>3. todo \in SUBSET Findings /\ \A f \in todo : ledger[f] = "none"
  BY DEF Pulls!Triage
<1>4. queue' \in Seq(Findings) /\ \A i \in 1 .. Len(queue') : ledger[queue'[i]] = "none"
  <2>1. CASE queue' = <<>>
    BY <2>1
  <2>2. CASE queue' = Pulls!SetToSeq(todo)
    <3> HIDE DEF todo
    <3> QED
      BY <1>3, <2>2, OrderOfSet
  <2> QED
    BY <1>1, <2>1, <2>2
<1>5. \A f \in Findings : outcome'[f] \in {"triaged", "skipped"} /\ (outcome'[f] # "skipped" => ledger[f] = "none")
  BY <1>1, <1>3
<1>6. Pulls!TypeOK'
  <2>1. outcome' \in [Findings -> Pulls!Outcomes]
    BY <1>1 DEF Pulls!Outcomes
  <2>2. sweeps' \in 0 .. MaxSweeps
    BY <1>2, LandingAssumption DEF SweepInv, Pulls!TypeOK
  <2> QED
    BY <1>2, <1>4, <2>1, <2>2 DEF SweepInv, Pulls!TypeOK
<1> QED
  BY <1>2, <1>4, <1>5, <1>6 DEF SweepInv

LEMMA FixKeepsSweep ==
    ASSUME SweepInv, Pulls!Fixes
    PROVE  SweepInv'
<1>1. /\ at = "fix" /\ queue # <<>> /\ queue' = Tail(queue)
      /\ UNCHANGED <<ledger, findings, mode, sweeps, at, gate, shifted, asked>>
      /\ \/ outcome' = [outcome EXCEPT ![Head(queue)] = "no_pr"] /\ UNCHANGED github
         \/ /\ outcome' = [outcome EXCEPT ![Head(queue)] = "opened"]
            /\ github' = [github EXCEPT ![Head(queue)] = "unknown"]
  BY DEF Pulls!Fixes
<1>2. queue \in Seq(Findings) /\ outcome \in [Findings -> Pulls!Outcomes] /\ github \in [Findings -> Pulls!PrStates]
  BY DEF SweepInv, Pulls!TypeOK
<1>3. /\ Head(queue) \in Findings /\ ledger[Head(queue)] = "none" /\ queue' \in Seq(Findings)
      /\ \A i \in 1 .. Len(queue') : ledger[queue'[i]] = "none"
  <2>1. \A i \in 1 .. Len(queue) : ledger[queue[i]] = "none"
    BY <1>1 DEF SweepInv
  <2>2. 1 \in 1 .. Len(queue)
    BY <1>1, <1>2, TakingNext
  <2> QED
    BY <1>1, <1>2, <2>1, <2>2, TakingNext
<1>4. /\ outcome' \in [Findings -> Pulls!Outcomes] /\ github' \in [Findings -> Pulls!PrStates]
      /\ \A f \in Findings : \/ outcome'[f] = outcome[f]
                             \/ f = Head(queue) /\ outcome'[f] \in {"no_pr", "opened"}
  BY <1>1, <1>2, <1>3 DEF Pulls!Outcomes, Pulls!PrStates
<1>5. Pulls!TypeOK'
  BY <1>1, <1>3, <1>4 DEF SweepInv, Pulls!TypeOK
<1> QED
  BY <1>1, <1>3, <1>4, <1>5 DEF SweepInv

LEMMA TurnKeepsSweep ==
    ASSUME SweepInv, Pulls!StartsMerging
    PROVE  SweepInv'
<1>1. /\ at = "fix" /\ queue' \in {<<>>, Pulls!Opened} /\ at' = IF queue' = <<>> THEN "save" ELSE "merge"
      /\ UNCHANGED <<ledger, findings, mode, sweeps, outcome, github, gate, shifted, asked>>
  BY DEF Pulls!StartsMerging
<1> DEFINE opened == {f \in Findings : outcome[f] = "opened"}
<1>2. opened \in SUBSET Findings /\ \A f \in opened : ledger[f] = "none"
  BY <1>1 DEF SweepInv
<1>3. queue' \in Seq(Findings) /\ \A i \in 1 .. Len(queue') : ledger[queue'[i]] = "none"
  <2>1. CASE queue' = <<>>
    BY <2>1
  <2>2. CASE queue' = Pulls!Opened
    <3>1. queue' = Pulls!SetToSeq(opened)
      BY <2>2 DEF Pulls!Opened
    <3> HIDE DEF opened
    <3> QED
      BY <1>2, <3>1, OrderOfSet
  <2> QED
    BY <1>1, <2>1, <2>2
<1>4. Pulls!TypeOK'
  BY <1>1, <1>3 DEF SweepInv, Pulls!TypeOK
<1> QED
  BY <1>1, <1>3, <1>4 DEF SweepInv

\* The steps of mergePr that decide the pull request at hand and go on to the next.
LEMMA NextPrKeepsSweep ==
    ASSUME SweepInv, at = "merge", NEW result \in {"merged", "not_merged"}, Pulls!NextPr(result),
           UNCHANGED <<ledger, findings, mode, sweeps>>,
           github' \in [Findings -> Pulls!PrStates], asked' \subseteq Findings, asked \subseteq asked',
           result = "merged" => Pulls!Pr \in asked'
    PROVE  SweepInv'
<1>1. /\ queue # <<>> /\ queue \in Seq(Findings) /\ outcome \in [Findings -> Pulls!Outcomes]
      /\ \A i \in 1 .. Len(queue) : ledger[queue[i]] = "none"
  BY DEF SweepInv, Pulls!TypeOK
<1>2. /\ outcome' = [outcome EXCEPT ![Head(queue)] = result] /\ queue' = Tail(queue) /\ gate' = "unasked"
      /\ shifted' = FALSE /\ at' = IF Len(queue) = 1 THEN "save" ELSE "merge"
  BY DEF Pulls!NextPr, Pulls!Pr
<1>3. /\ Head(queue) \in Findings /\ ledger[Head(queue)] = "none" /\ queue' \in Seq(Findings)
      /\ \A i \in 1 .. Len(queue') : ledger[queue'[i]] = "none"
      /\ at' = "merge" => queue' # <<>>
  <2>1. 1 \in 1 .. Len(queue)
    BY <1>1, TakingNext
  <2> QED
    BY <1>1, <1>2, <2>1, TakingNext
<1>4. /\ outcome' \in [Findings -> Pulls!Outcomes]
      /\ \A f \in Findings : outcome'[f] = outcome[f] \/ (f = Head(queue) /\ outcome'[f] = result)
  BY <1>1, <1>2, <1>3 DEF Pulls!Outcomes
<1>5. Pulls!TypeOK'
  BY <1>2, <1>3, <1>4 DEF SweepInv, Pulls!TypeOK
<1>6. \A f \in Findings : ledger'[f] = "fixed" \/ outcome'[f] = "merged" => f \in asked'
  BY <1>4 DEF SweepInv, Pulls!Pr
<1>7. findings' = ledger' /\ \A f \in Findings : outcome'[f] # "skipped" => ledger'[f] = "none"
  BY <1>3, <1>4 DEF SweepInv
<1> QED
  BY <1>2, <1>3, <1>5, <1>6, <1>7 DEF SweepInv

LEMMA AskingKeepsSweep ==
    ASSUME SweepInv, Pulls!UpdatesBranch \/ Pulls!Validates \/ Pulls!Revalidates
                     \/ (Pulls!LooksForConflicts /\ gate' = "conflict_free" /\ UNCHANGED <<outcome, queue, at, shifted>>)
    PROVE  SweepInv'
<1>1. /\ at = "merge" /\ UNCHANGED <<ledger, findings, mode, sweeps, at, queue, outcome, shifted, asked>>
      /\ \/ gate' \in {"passed", "conflict_free"} /\ UNCHANGED github
         \/ gate' = "rechecked" /\ Pulls!Applyable(Pulls!Pr) /\ UNCHANGED github
         \/ gate = "unasked" /\ UNCHANGED gate /\ github' = [github EXCEPT ![Pulls!Pr] = "unknown"]
  BY DEF Pulls!UpdatesBranch, Pulls!Validates, Pulls!Revalidates, Pulls!LooksForConflicts
<1>2. github' \in [Findings -> Pulls!PrStates]
  BY <1>1 DEF SweepInv, Pulls!TypeOK, Pulls!PrStates
<1>3. Pulls!TypeOK'
  BY <1>1, <1>2 DEF SweepInv, Pulls!TypeOK
<1>4. gate' = "rechecked" => Pulls!Applyable(Pulls!Pr)' \/ shifted'
  BY <1>1 DEF Pulls!Applyable, Pulls!Pr
<1> QED
  BY <1>1, <1>3, <1>4 DEF SweepInv

LEMMA MovingKeepsSweep ==
    ASSUME SweepInv, Pulls!GitHubMoves
    PROVE  SweepInv'
<1>1. /\ at = "merge" /\ UNCHANGED <<ledger, findings, mode, sweeps, at, queue, outcome, gate, asked>>
      /\ \E f \in Findings, s \in {"clean", "behind", "conflicting", "failing", "unknown"} :
            /\ github[f] \notin {"none", "merged", s} /\ github' = [github EXCEPT ![f] = s]
            /\ shifted' = (shifted \/ (f = Pulls!Pr /\ gate = "rechecked"))
  BY DEF Pulls!GitHubMoves
<1>2. PICK f \in Findings, s \in {"clean", "behind", "conflicting", "failing", "unknown"} :
            /\ github' = [github EXCEPT ![f] = s]
            /\ shifted' = (shifted \/ (f = Pulls!Pr /\ gate = "rechecked"))
  BY <1>1
<1>3. github' \in [Findings -> Pulls!PrStates] /\ shifted' \in BOOLEAN
  BY <1>2 DEF SweepInv, Pulls!TypeOK, Pulls!PrStates
<1>4. Pulls!TypeOK'
  BY <1>1, <1>3 DEF SweepInv, Pulls!TypeOK
<1>5. gate' = "rechecked" => Pulls!Applyable(Pulls!Pr)' \/ shifted'
  <2>1. CASE f = Pulls!Pr
    BY <1>1, <1>2, <2>1
  <2>2. CASE f # Pulls!Pr
    <3>1. github'[Pulls!Pr] = github[Pulls!Pr]
      BY <1>2, <2>2 DEF SweepInv, Pulls!TypeOK
    <3> QED
      BY <1>1, <1>2, <3>1 DEF SweepInv, Pulls!Applyable, Pulls!Pr
  <2> QED
    BY <2>1, <2>2
<1> QED
  BY <1>1, <1>4, <1>5 DEF SweepInv

LEMMA EndKeepsSweep ==
    ASSUME SweepInv, Pulls!Saves \/ Pulls!SweepCrashes
    PROVE  SweepInv'
<1>1. CASE Pulls!Saves
  <2>1. /\ at = "save" /\ at' = "idle" /\ ledger' = [f \in Findings |-> Pulls!Folded(f)]
        /\ UNCHANGED <<findings, mode, sweeps, queue, outcome, github, gate, shifted, asked>>
    BY <1>1 DEF Pulls!Saves
  <2>2. \A f \in Findings : Pulls!Folded(f) \in {"none", "attempted", "fixed"}
    BY DEF SweepInv, Pulls!TypeOK, Pulls!Folded
  <2>3. Pulls!TypeOK'
    BY <2>1, <2>2 DEF SweepInv, Pulls!TypeOK
  <2>4. \A f \in Findings : ledger'[f] = "fixed" => f \in asked
    BY <2>1 DEF SweepInv, Pulls!Folded
  <2> QED
    BY <2>1, <2>3, <2>4 DEF SweepInv
<1>2. CASE Pulls!SweepCrashes
  <2>1. /\ at' = "idle" /\ queue' = <<>> /\ gate' = "unasked" /\ shifted' = FALSE
        /\ UNCHANGED <<ledger, findings, mode, sweeps, outcome, github, asked>>
    BY <1>2 DEF Pulls!SweepCrashes
  <2>2. queue' \in Seq(Findings)
    BY <2>1
  <2> QED
    BY <2>1, <2>2 DEF SweepInv, Pulls!TypeOK
<1> QED
  BY <1>1, <1>2

LEMMA DecidingKeepsSweep ==
    ASSUME SweepInv, Pulls!Refused \/ Pulls!Merges
                     \/ (Pulls!LooksForConflicts /\ Pulls!NextPr("not_merged"))
    PROVE  SweepInv'
<1>1. at = "merge" /\ UNCHANGED <<ledger, findings, mode, sweeps>> /\ Pulls!Pr \in Findings
  <2>1. queue \in Seq(Findings) /\ (at = "merge" => queue # <<>>)
    BY DEF SweepInv, Pulls!TypeOK
  <2> QED
    BY <2>1, TakingNext DEF Pulls!Refused, Pulls!Merges, Pulls!LooksForConflicts, Pulls!Pr
<1>2. CASE Pulls!NextPr("not_merged") /\ UNCHANGED <<github, asked>>
  BY <1>1, <1>2, NextPrKeepsSweep DEF SweepInv, Pulls!TypeOK
<1>3. CASE Pulls!Merges
  <2>1. github' \in [Findings -> Pulls!PrStates]
    BY <1>3 DEF SweepInv, Pulls!TypeOK, Pulls!PrStates, Pulls!Merges
  <2>2. asked' = asked \cup {Pulls!Pr} /\ asked' \subseteq Findings /\ Pulls!NextPr("merged")
    BY <1>1, <1>3 DEF SweepInv, Pulls!TypeOK, Pulls!Merges
  <2> QED
    BY <1>1, <2>1, <2>2, NextPrKeepsSweep
<1> QED
  BY <1>2, <1>3 DEF Pulls!Refused, Pulls!LooksForConflicts

LEMMA SweepStep == SweepInv /\ [Pulls!Next]_(Pulls!loopVars) => SweepInv'
<1> SUFFICES ASSUME SweepInv, [Pulls!Next]_(Pulls!loopVars)
             PROVE  SweepInv'
  OBVIOUS
<1>1. CASE Pulls!Sweeps
  BY <1>1, BeginKeepsSweep
<1>2. CASE Pulls!Fixes
  BY <1>2, FixKeepsSweep
<1>3. CASE Pulls!StartsMerging
  BY <1>3, TurnKeepsSweep
<1>4. CASE Pulls!UpdatesBranch \/ Pulls!Validates \/ Pulls!Revalidates
  BY <1>4, AskingKeepsSweep
<1>5. CASE Pulls!LooksForConflicts
  <2>1. \/ gate' = "conflict_free" /\ UNCHANGED <<outcome, queue, at, shifted>>
        \/ Pulls!NextPr("not_merged")
    BY <1>5 DEF Pulls!LooksForConflicts
  <2> QED
    BY <1>5, <2>1, AskingKeepsSweep, DecidingKeepsSweep
<1>6. CASE Pulls!Refused \/ Pulls!Merges
  BY <1>6, DecidingKeepsSweep
<1>7. CASE Pulls!Saves \/ Pulls!SweepCrashes
  BY <1>7, EndKeepsSweep
<1>8. CASE Pulls!GitHubMoves
  BY <1>8, MovingKeepsSweep
<1>9. CASE UNCHANGED Pulls!loopVars
  BY <1>9 DEF SweepInv, Pulls!TypeOK, Pulls!loopVars, Pulls!Applyable, Pulls!Pr
<1> QED
  BY <1>1, <1>2, <1>3, <1>4, <1>5, <1>6, <1>7, <1>8, <1>9 DEF Pulls!Next, Pulls!SweepOver

LEMMA SweepAlways == Pulls!Spec => []SweepInv
  BY SweepStart, SweepStep, PTL DEF Pulls!Spec

\* A solve says solved only when its authority passed on the tree as it is, with
\* a test that was red when there was nothing else to judge by, and the sweep's
\* ledger calls fixed only what a merge was asked for, through crashes and later
\* sweeps (runSolveLoop, runSelfMaintain).
THEOREM LoopsAreSound == PartsSpec => []LoopsSound
<1>1. Solve!Spec => []SolveInv
  BY SolveStart, SolveStep, PTL DEF Solve!Spec
<1>2. SweepInv => Pulls!SweepSound
  BY DEF SweepInv, Pulls!SweepSound, Pulls!FixedWasMergedFor
<1>3. SolveInv /\ SweepInv => LoopsSound
  BY <1>2, SolveIsSound DEF LoopsSound
<1> QED
  BY <1>1, <1>3, Components, SweepAlways, PTL

\* gh pr merge is called only past the last answer of the gate.
LEMMA MergeWasGated ==
    ASSUME SweepInv, Pulls!Next, NEW f \in asked' \ asked
    PROVE  Pulls!Applyable(f) \/ shifted
<1>1. Pulls!Merges
  BY DEF Pulls!Next, Pulls!Sweeps, Pulls!Fixes, Pulls!StartsMerging, Pulls!Refused, Pulls!UpdatesBranch,
         Pulls!Validates, Pulls!LooksForConflicts, Pulls!Revalidates, Pulls!Saves, Pulls!SweepCrashes,
         Pulls!GitHubMoves, Pulls!SweepOver, Pulls!loopVars
<1>2. f = Pulls!Pr /\ at = "merge" /\ gate = "rechecked"
  BY <1>1 DEF Pulls!Merges
<1> QED
  BY <1>2 DEF SweepInv

\* What the ledger holds no step of a later sweep touches.
LEMMA HeldIsKept ==
    ASSUME SweepInv, Pulls!Next, NEW f \in Findings, ledger[f] # "none"
    PROVE  /\ ledger'[f] = ledger[f]
           /\ github[f] = "merged" => github'[f] = "merged"
           /\ ~(outcome[f] = "triaged" /\ outcome'[f] \in {"no_pr", "opened"})
<1>1. CASE Pulls!Saves
  BY <1>1 DEF Pulls!Saves, SweepInv, Pulls!Folded
<1>2. CASE Pulls!Fixes
  <2>1. f # Head(queue)
    <3>1. queue \in Seq(Findings) /\ queue # <<>> /\ \A i \in 1 .. Len(queue) : ledger[queue[i]] = "none"
      BY <1>2 DEF Pulls!Fixes, SweepInv, Pulls!TypeOK
    <3>2. ledger[Head(queue)] = "none"
      BY <3>1, TakingNext
    <3> QED
      BY <3>2
  <2> QED
    BY <1>2, <2>1 DEF Pulls!Fixes, SweepInv, Pulls!TypeOK
<1>3. CASE Pulls!Sweeps
  <2>1. outcome'[f] \in {"triaged", "skipped"}
    BY <1>3 DEF Pulls!Sweeps
  <2> QED
    BY <1>3, <2>1 DEF Pulls!Sweeps
<1>4. CASE Pulls!UpdatesBranch
  BY <1>4 DEF Pulls!UpdatesBranch, SweepInv, Pulls!TypeOK
<1>5. CASE Pulls!GitHubMoves
  BY <1>5 DEF Pulls!GitHubMoves, SweepInv, Pulls!TypeOK
<1>6. CASE Pulls!Refused \/ Pulls!LooksForConflicts \/ Pulls!Merges
  <2>1. UNCHANGED ledger /\ (github[f] = "merged" => github'[f] = "merged")
    BY <1>6 DEF Pulls!Refused, Pulls!LooksForConflicts, Pulls!Merges, SweepInv, Pulls!TypeOK
  <2>2. outcome'[f] \in {outcome[f], "merged", "not_merged"}
    BY <1>6 DEF Pulls!Refused, Pulls!LooksForConflicts, Pulls!Merges, Pulls!NextPr, SweepInv, Pulls!TypeOK
  <2> QED
    BY <2>1, <2>2
<1>7. CASE Pulls!StartsMerging \/ Pulls!Validates \/ Pulls!Revalidates \/ Pulls!SweepCrashes \/ Pulls!SweepOver
  BY <1>7 DEF Pulls!StartsMerging, Pulls!Validates, Pulls!Revalidates, Pulls!SweepCrashes, Pulls!SweepOver,
              Pulls!loopVars
<1> QED
  BY <1>1, <1>2, <1>3, <1>4, <1>5, <1>6, <1>7 DEF Pulls!Next

\* A verdict that was given is kept: a worker called applyable is not refused,
\* and the sweep merges nothing past its gate and takes back nothing it recorded
\* (applyWorker, mergePr, mergeLedger).
THEOREM VerdictsAreKept == PartsSpec => VerdictsHold
<1>1. SweepInv /\ [Pulls!Next]_(Pulls!loopVars)
        => [\A f \in asked' \ asked : Pulls!Applyable(f) \/ shifted]_(Pulls!loopVars)
  BY MergeWasGated
<1>2. SweepInv /\ [Pulls!Next]_(Pulls!loopVars)
        => [\A f \in Findings :
              ledger[f] # "none" => /\ ledger'[f] = ledger[f]
                                    /\ github[f] = "merged" => github'[f] = "merged"
                                    /\ ~(outcome[f] = "triaged" /\ outcome'[f] \in {"no_pr", "opened"})]_(Pulls!loopVars)
  BY HeldIsKept
<1>3. Pulls!Spec => Pulls!GateIsLookedAtTwice
  BY <1>1, SweepAlways, PTL DEF Pulls!Spec, Pulls!GateIsLookedAtTwice
<1>4. Pulls!Spec => Pulls!LedgerIsFinal
  BY <1>2, SweepAlways, PTL DEF Pulls!Spec, Pulls!LedgerIsFinal
<1> QED
  BY <1>3, <1>4, Components, ValidIsKept DEF VerdictsHold, Pulls!SweepSteps

-----------------------------------------------------------------------------
(* The proposals (Proposals)                                               *)

\* R orders the finite set S, and Under(R, S, x) is what comes before x.
Orders(R, S) ==
    /\ IsFiniteSet(S)
    /\ \A x \in S : <<x, x>> \notin R
    /\ \A x, y, z \in S : <<x, y>> \in R /\ <<y, z>> \in R => <<x, z>> \in R
    /\ \A x, y \in S : x # y => <<x, y>> \in R \/ <<y, x>> \in R

Under(R, S, x) == {y \in S : <<y, x>> \in R}

\* The number of elements before one is its rank: it grows along the order.
LEMMA RankGrows ==
    ASSUME NEW R, NEW S, Orders(R, S), NEW x \in S, NEW y \in S, <<x, y>> \in R
    PROVE  Cardinality(Under(R, S, x)) < Cardinality(Under(R, S, y))
<1>1. Under(R, S, x) \subseteq Under(R, S, y) /\ x \in Under(R, S, y) /\ x \notin Under(R, S, x)
  BY Zenon DEF Orders, Under
<1>2. IsFiniteSet(Under(R, S, y)) /\ IsFiniteSet(Under(R, S, x))
  BY FS_Subset, Zenon DEF Orders, Under
<1>3. Cardinality(Under(R, S, y)) \in Nat /\ Cardinality(Under(R, S, x)) \in Nat
  BY <1>2, FS_CardinalityType, Zenon
<1>4. Cardinality(Under(R, S, x)) <= Cardinality(Under(R, S, y))
  BY <1>1, <1>2, FS_Subset, Zenon
<1>5. Cardinality(Under(R, S, y)) # Cardinality(Under(R, S, x))
  BY <1>1, <1>2, FS_Subset, Zenon
<1> QED
  BY <1>3, <1>4, <1>5

\* Every rank is below the number of elements.
LEMMA RankIsBelow ==
    ASSUME NEW R, NEW S, Orders(R, S), NEW x \in S
    PROVE  Cardinality(Under(R, S, x)) \in 0 .. Cardinality(S) - 1
<1>1. Under(R, S, x) \subseteq S /\ x \notin Under(R, S, x)
  BY Zenon DEF Orders, Under
<1>2. IsFiniteSet(S) /\ IsFiniteSet(Under(R, S, x))
  BY FS_Subset, <1>1, Zenon DEF Orders
<1>3. Cardinality(S) \in Nat /\ Cardinality(Under(R, S, x)) \in Nat
  BY <1>2, FS_CardinalityType, Zenon
<1>4. Cardinality(Under(R, S, x)) <= Cardinality(S) /\ Cardinality(S) # Cardinality(Under(R, S, x))
  BY <1>1, <1>2, FS_Subset, Zenon
<1> QED
  BY <1>3, <1>4

\* Ranks are a one-to-one numbering of the elements.
LEMMA RanksNumber ==
    ASSUME NEW R, NEW S, Orders(R, S)
    PROVE  /\ Cardinality(S) \in Nat
           /\ \A x, y \in S : Cardinality(Under(R, S, x)) = Cardinality(Under(R, S, y)) => x = y
           /\ \A n \in 0 .. Cardinality(S) - 1 : \E x \in S : Cardinality(Under(R, S, x)) = n
<1>1. Cardinality(S) \in Nat /\ IsFiniteSet(S)
  BY FS_CardinalityType, Zenon DEF Orders
<1>2. ASSUME NEW x \in S, NEW y \in S, Cardinality(Under(R, S, x)) = Cardinality(Under(R, S, y))
      PROVE  x = y
  <2>1. CASE x # y
    <3>1. Cardinality(Under(R, S, x)) \in Int /\ Cardinality(Under(R, S, y)) \in Int
      BY RankIsBelow
    <3>2. \/ Cardinality(Under(R, S, x)) < Cardinality(Under(R, S, y))
          \/ Cardinality(Under(R, S, y)) < Cardinality(Under(R, S, x))
      BY <2>1, RankGrows, Zenon DEF Orders
    <3> QED
      BY <1>2, <3>1, <3>2
  <2> QED
    BY <2>1
<1>3. \A n \in 0 .. Cardinality(S) - 1 : \E x \in S : Cardinality(Under(R, S, x)) = n
  <2> DEFINE T == 0 .. Cardinality(S) - 1
             f == [x \in S |-> Cardinality(Under(R, S, x))]
  <2>1. f \in [S -> T]
    BY RankIsBelow
  <2>2. f \in Injection(S, T)
    BY <2>1, <1>2 DEF Injection, IsInjective
  <2>3. IsFiniteSet(T) /\ Cardinality(T) = Cardinality(S)
    BY <1>1, FS_Interval
  <2> HIDE DEF T
  <2>4. f \in Surjection(S, T)
    BY <2>2, <2>3, FS_Injection
  <2> QED
    BY <2>4 DEF Surjection, T
<1> QED
  BY <1>1, <1>2, <1>3

\* At most as many elements as a bound have a rank below it.
LEMMA FirstAreFew ==
    ASSUME NEW R, NEW S, Orders(R, S), NEW most \in Nat
    PROVE  LET first == {x \in S : Cardinality(Under(R, S, x)) < most}
           IN  IsFiniteSet(first) /\ Cardinality(first) <= most
<1> DEFINE first == {x \in S : Cardinality(Under(R, S, x)) < most}
           T == 0 .. most - 1
           f == [x \in first |-> Cardinality(Under(R, S, x))]
<1>1. f \in [first -> T]
  BY RankIsBelow
<1>2. f \in Injection(first, T)
  BY <1>1, RanksNumber DEF Injection, IsInjective
<1>3. IsFiniteSet(T) /\ Cardinality(T) = most
  BY FS_Interval
<1> HIDE DEF T, f, first
<1>4. IsFiniteSet(first) /\ Cardinality(first) <= most
  BY <1>2, <1>3, FS_Injection
<1> QED
  BY <1>4 DEF first
\* The library's Cardinality, under the name the instance gives it.
LEMMA SameCount == \A S : Propose!Cardinality(S) = Cardinality(S)
  BY Zenon DEF Propose!Cardinality, Cardinality

\* Evidence is a place in a plan or, with plan 0, in the roadmap.
Places == (0 .. Len(PlanScopes)) \X Nat
Earlier(S) == {p \in S \X S : p[1][1] < p[2][1] \/ (p[1][1] = p[2][1] /\ p[1][2] < p[2][2])}

LEMMA EarlierOrders ==
    ASSUME NEW S \in SUBSET Places, IsFiniteSet(S)
    PROVE  Orders(Earlier(S), S)
<1>1. \A x, y \in S : <<x, y>> \in Earlier(S) <=> x[1] < y[1] \/ (x[1] = y[1] /\ x[2] < y[2])
  BY DEF Earlier
<1>2. \A x \in S : x[1] \in Int /\ x[2] \in Int /\ x = <<x[1], x[2]>>
  BY DEF Places
<1> HIDE DEF Earlier
<1>3. \A x \in S : <<x, x>> \notin Earlier(S)
  BY <1>1, <1>2
<1>4. \A x, y, z \in S : <<x, y>> \in Earlier(S) /\ <<y, z>> \in Earlier(S) => <<x, z>> \in Earlier(S)
  BY <1>1, <1>2
<1>5. \A x, y \in S : x # y => <<x, y>> \in Earlier(S) \/ <<y, x>> \in Earlier(S)
  BY <1>1, <1>2
<1> QED
  BY <1>3, <1>4, <1>5, Zenon DEF Orders

\* What is cut off at a bound is a part of the evidence, and within the bound.
LEMMA FirstOfIsBounded ==
    ASSUME NEW S \in SUBSET Places, IsFiniteSet(S), NEW most \in Nat
    PROVE  /\ Propose!FirstOf(S, most) \subseteq S
           /\ IsFiniteSet(Propose!FirstOf(S, most)) /\ Cardinality(Propose!FirstOf(S, most)) <= most
<1>1. \A e \in S : {d \in S : d[1] < e[1] \/ (d[1] = e[1] /\ d[2] < e[2])} = Under(Earlier(S), S, e)
  BY DEF Under, Earlier
<1>2. Propose!FirstOf(S, most) = {e \in S : Cardinality(Under(Earlier(S), S, e)) < most}
  BY <1>1, SameCount, Zenon DEF Propose!FirstOf
<1>3. IsFiniteSet(Propose!FirstOf(S, most)) /\ Cardinality(Propose!FirstOf(S, most)) <= most
  BY <1>2, EarlierOrders, FirstAreFew
<1> QED
  BY <1>2, <1>3

ProposalConstants == PlanScopes \in Seq(STRING) /\ MaxEvidence \in Nat \ {0} /\ MaxProposals \in Nat

\* What the roadmap and a plan can be cited for.
Cited(p, words) == Propose!RoadmapEvidence \cup Propose!PlanEvidence(p, words)

LEMMA CitedPlaces ==
    ASSUME ProposalConstants, roadmap \in Nat, NEW p \in 1 .. Len(PlanScopes), NEW words
    PROVE  /\ Cited(p, words) \subseteq Places /\ IsFiniteSet(Cited(p, words))
           /\ \A e \in Cited(p, words) : e[1] \in {0, p} /\ e[2] # 0
<1>1. Cited(p, words) \subseteq Places /\ \A e \in Cited(p, words) : e[1] \in {0, p} /\ e[2] # 0
  BY DEF Cited, Places, Propose!RoadmapEvidence, Propose!PlanEvidence
<1>2. Cited(p, words) \subseteq (0 .. Len(PlanScopes)) \X (0 .. roadmap + 2)
  BY DEF Cited, Propose!RoadmapEvidence, Propose!PlanEvidence, ProposalConstants
<1>3. IsFiniteSet((0 .. Len(PlanScopes)) \X (0 .. roadmap + 2))
  <2>1. IsFiniteSet(0 .. Len(PlanScopes)) /\ IsFiniteSet(0 .. roadmap + 2)
    <3>1. 0 \in Int /\ Len(PlanScopes) \in Int /\ roadmap + 2 \in Int
      BY DEF ProposalConstants
    <3> QED
      BY <3>1, FS_Interval, Zenon
  <2> QED
    BY <2>1, FS_Product, Zenon
<1> QED
  BY <1>1, <1>2, <1>3, FS_Subset, Zenon

\* The evidence of a proposal is new, or the plan alone, and fits.
Backing(p, words, seen) == Propose!Cites(p, Propose!Evidence(p, words, seen))

LEMMA BackingIsNew ==
    ASSUME ProposalConstants, roadmap \in Nat, NEW p \in 1 .. Len(PlanScopes), NEW words, NEW seen
    PROVE  /\ Backing(p, words, seen) \subseteq Places /\ Backing(p, words, seen) # {}
           /\ IsFiniteSet(Backing(p, words, seen)) /\ Cardinality(Backing(p, words, seen)) <= MaxEvidence
           /\ \A e \in Backing(p, words, seen) :
                /\ e[1] \in {0, p}
                /\ e[2] # 0 => e \in Cited(p, words) \ seen
<1> DEFINE left == Cited(p, words) \ seen
           ev   == Propose!FirstOf(left, MaxEvidence)
<1>1. left \subseteq Places /\ IsFiniteSet(left) /\ \A e \in left : e[1] \in {0, p} /\ e[2] # 0
  BY CitedPlaces, FS_Subset, Zenon
<1>2. MaxEvidence \in Nat /\ 1 <= MaxEvidence
  BY DEF ProposalConstants
<1>3. ev \subseteq left /\ IsFiniteSet(ev) /\ Cardinality(ev) <= MaxEvidence
  <2> HIDE DEF left
  <2> QED
    BY <1>1, <1>2, FirstOfIsBounded, Zenon
<1>4. Backing(p, words, seen) = IF ev = {} THEN {<<p, 0>>} ELSE ev
  BY Zenon DEF Backing, Propose!Cites, Propose!Evidence, Cited
<1> HIDE DEF ev, left
<1>5. CASE ev = {}
  <2>1. IsFiniteSet({<<p, 0>>}) /\ Cardinality({<<p, 0>>}) = 1
    BY FS_Singleton, Zenon
  <2>2. <<p, 0>> \in Places
    BY DEF Places
  <2> QED
    BY <1>2, <1>4, <1>5, <2>1, <2>2
<1>6. CASE ev # {}
  <2>1. Backing(p, words, seen) = ev
    BY <1>4, <1>6
  <2>2. ev \subseteq Places
    BY <1>1, <1>3, Zenon
  <2>3. \A e \in ev : e[1] \in {0, p} /\ (e[2] # 0 => e \in left)
    BY <1>1, <1>3, Zenon
  <2> QED
    BY <1>3, <1>6, <2>1, <2>2, <2>3, Zenon DEF left
<1> QED
  BY <1>5, <1>6

\* What is marked is not cited again: such a proposal has the plan alone.
LEMMA BackingIsThePlan ==
    ASSUME ProposalConstants, roadmap \in Nat, NEW p \in 1 .. Len(PlanScopes), NEW words, NEW seen,
           Cited(p, words) \subseteq seen
    PROVE  \A e \in Backing(p, words, seen) : e[2] = 0
  BY BackingIsNew
\* A signal of a plan, and a proposal made of one.
Kinds == {"complete", "implement", "wire", "follow", "create", "test"}
SignalsOf(p) == [plan : {p}, kind : Kinds, roi : 2 .. 3, areas : Nat]
SignalsMade == [plan : 1 .. Len(PlanScopes), kind : Kinds, roi : 2 .. 3, areas : Nat]
ProposalsMade == [id : Nat, signal : SignalsMade, evidence : SUBSET Places]

LEMMA SignalsTyped ==
    ASSUME NEW p \in 1 .. Len(PlanScopes), NEW words
    PROVE  Propose!detectPlanSignals(p, words) \in Seq(SignalsOf(p))
<1> DEFINE missing  == Propose!Cardinality(Propose!detectMissingImplementation(words))
           inferred == Propose!inferExpectedAreas(PlanScopes[p])
           signal(is, kind, roi, areas) ==
               IF is THEN <<[plan |-> p, kind |-> kind, roi |-> roi, areas |-> areas]>> ELSE <<>>
<1>1. missing \in Nat
  <2>1. Propose!detectMissingImplementation(words) \subseteq {"refers", "refersAway"}
    BY DEF Propose!detectMissingImplementation
  <2>2. IsFiniteSet({"refers", "refersAway"})
    <3>1. {"refers", "refersAway"} = {"refers"} \cup {"refersAway"}
      OBVIOUS
    <3>2. IsFiniteSet({"refers"})
      BY FS_Singleton, Zenon
    <3>3. IsFiniteSet({"refers"} \cup {"refersAway"})
      BY <3>2, FS_AddElement, Zenon
    <3> QED
      BY <3>1, <3>3, Zenon
  <2> QED
    BY <2>1, <2>2, FS_Subset, FS_CardinalityType, SameCount, Zenon
<1>2. inferred \in Nat
  BY DEF Propose!inferExpectedAreas
<1>3. ASSUME NEW is \in BOOLEAN, NEW kind \in Kinds, NEW roi \in 2 .. 3, NEW areas \in Nat
      PROVE  signal(is, kind, roi, areas) \in Seq(SignalsOf(p))
  <2>1. [plan |-> p, kind |-> kind, roi |-> roi, areas |-> areas] \in SignalsOf(p)
    BY DEF SignalsOf
  <2> QED
    BY <2>1
<1> DEFINE first  == signal(words \cap {"deferred", "listed"} # {}, "complete", 3, IF missing > 0 THEN missing ELSE inferred)
           second == signal("placeholder" \in words, "implement", 3, inferred)
           third  == signal("defaultOff" \in words, "wire", 2, inferred)
           fourth == signal("hint" \in words, "follow", 2, inferred)
           fifth  == signal(missing > 0 /\ "deferred" \notin words, "create", 3, missing)
           sixth  == signal("tests" \in words /\ missing > 0, "test", 3, missing)
<1>4. Propose!detectPlanSignals(p, words) = first \o second \o third \o fourth \o fifth \o sixth
  BY Zenon DEF Propose!detectPlanSignals
<1> HIDE DEF signal, missing, inferred
<1>5. /\ first \in Seq(SignalsOf(p)) /\ second \in Seq(SignalsOf(p)) /\ third \in Seq(SignalsOf(p))
      /\ fourth \in Seq(SignalsOf(p)) /\ fifth \in Seq(SignalsOf(p)) /\ sixth \in Seq(SignalsOf(p))
  <2>1. (IF missing > 0 THEN missing ELSE inferred) \in Nat
    BY <1>1, <1>2
  <2>2. \A is \in BOOLEAN, kind \in Kinds, roi \in 2 .. 3, areas \in Nat :
          signal(is, kind, roi, areas) \in Seq(SignalsOf(p))
    BY <1>3
  <2>4. /\ (words \cap {"deferred", "listed"} # {}) \in BOOLEAN /\ ("placeholder" \in words) \in BOOLEAN
        /\ ("defaultOff" \in words) \in BOOLEAN /\ ("hint" \in words) \in BOOLEAN
        /\ (missing > 0 /\ "deferred" \notin words) \in BOOLEAN /\ ("tests" \in words /\ missing > 0) \in BOOLEAN
    OBVIOUS
  <2> HIDE DEF signal
  <2>5. /\ "complete" \in Kinds /\ "implement" \in Kinds /\ "wire" \in Kinds
        /\ "follow" \in Kinds /\ "create" \in Kinds /\ "test" \in Kinds
        /\ 2 \in 2 .. 3 /\ 3 \in 2 .. 3
    BY DEF Kinds
  <2> QED
    BY <1>1, <1>2, <2>1, <2>2, <2>4, <2>5, Zenon
<1> HIDE DEF first, second, third, fourth, fifth, sixth
<1>6. first \o second \in Seq(SignalsOf(p))
  BY <1>5, ConcatProperties, Zenon
<1>7. first \o second \o third \in Seq(SignalsOf(p))
  BY <1>5, <1>6, ConcatProperties, Zenon
<1>8. first \o second \o third \o fourth \in Seq(SignalsOf(p))
  BY <1>5, <1>7, ConcatProperties, Zenon
<1>9. first \o second \o third \o fourth \o fifth \in Seq(SignalsOf(p))
  BY <1>5, <1>8, ConcatProperties, Zenon
<1>10. first \o second \o third \o fourth \o fifth \o sixth \in Seq(SignalsOf(p))
  BY <1>5, <1>9, ConcatProperties, Zenon
<1> QED
  BY <1>4, <1>10, Zenon

\* What a plan adds to the proposals.
Fits(p, words) ==
    IF Len(all) + Len(Propose!detectPlanSignals(p, words)) <= MaxProposals
    THEN Len(Propose!detectPlanSignals(p, words)) ELSE MaxProposals - Len(all)

SeenAt(n, p, words) == IF n = 1 THEN cited ELSE cited \cup Cited(p, words)

Added(p, words) ==
    [n \in 1 .. Fits(p, words) |->
        [id |-> Len(all) + n, signal |-> Propose!detectPlanSignals(p, words)[n],
         evidence |-> Backing(p, words, SeenAt(n, p, words))]]

LEMMA ProposeAdds ==
    ASSUME NEW p, NEW words
    PROVE  Propose!Propose(p, words, Propose!detectPlanSignals(p, words), all, cited) = all \o Added(p, words)
<1>1. cited \cup Cited(p, words) = cited \cup Propose!RoadmapEvidence \cup Propose!PlanEvidence(p, words)
  BY Zenon DEF Cited
<1> QED
  BY <1>1 DEF Propose!Propose, Added, Fits, SeenAt, Backing

LEMMA FitsSignals ==
    ASSUME ProposalConstants, NEW p \in 1 .. Len(PlanScopes), NEW words,
           all \in Seq(ProposalsMade), Len(all) <= MaxProposals
    PROVE  /\ Fits(p, words) \in Nat /\ Len(all) + Fits(p, words) <= MaxProposals
           /\ Fits(p, words) <= Len(Propose!detectPlanSignals(p, words))
<1>1. Len(Propose!detectPlanSignals(p, words)) \in Nat /\ Len(all) \in Nat /\ MaxProposals \in Nat
  BY SignalsTyped DEF ProposalConstants
<1> QED
  BY <1>1 DEF Fits

LEMMA AddedTyped ==
    ASSUME ProposalConstants, roadmap \in Nat, NEW p \in 1 .. Len(PlanScopes), NEW words,
           all \in Seq(ProposalsMade), Len(all) <= MaxProposals
    PROVE  /\ Added(p, words) \in Seq(ProposalsMade) /\ Len(Added(p, words)) = Fits(p, words)
           /\ \A n \in 1 .. Fits(p, words) : Added(p, words)[n].signal.plan = p
<1>1. Fits(p, words) \in Nat
  BY FitsSignals
<1>2. ASSUME NEW n \in 1 .. Fits(p, words)
      PROVE  /\ Added(p, words)[n] \in ProposalsMade
             /\ Added(p, words)[n].signal.plan = p
  <2>1. Propose!detectPlanSignals(p, words)[n] \in SignalsOf(p)
    <3>1. n \in 1 .. Len(Propose!detectPlanSignals(p, words))
      BY FitsSignals, SignalsTyped, <1>1
    <3> QED
      BY <3>1, SignalsTyped
  <2>2. Backing(p, words, SeenAt(n, p, words)) \in SUBSET Places
    BY BackingIsNew, Zenon
  <2>3. Len(all) + n \in Nat
    BY <1>1
  <2>4. Added(p, words)[n] = [id |-> Len(all) + n, signal |-> Propose!detectPlanSignals(p, words)[n],
                             evidence |-> Backing(p, words, SeenAt(n, p, words))]
    BY Zenon DEF Added
  <2>5. Propose!detectPlanSignals(p, words)[n] \in SignalsMade
    BY <2>1 DEF SignalsOf, SignalsMade
  <2>6. Propose!detectPlanSignals(p, words)[n].plan = p
    BY <2>1 DEF SignalsOf
  <2> QED
    BY <2>2, <2>3, <2>4, <2>5, <2>6 DEF ProposalsMade
<1> QED
  BY <1>1, <1>2 DEF Added
\* The keys the order compares, one after the other.
Keys(x) == <<-Propose!computeScore(x), -Propose!assessTestability(Propose!Scope(x)),
             Propose!assessRisk(Propose!Scope(x)), x.signal.areas>>

KeysBefore(k, l, last) ==
    \/ k[1] < l[1]
    \/ k[1] = l[1] /\ k[2] < l[2]
    \/ k[1] = l[1] /\ k[2] = l[2] /\ k[3] < l[3]
    \/ k[1] = l[1] /\ k[2] = l[2] /\ k[3] = l[3] /\ k[4] < l[4]
    \/ k[1] = l[1] /\ k[2] = l[2] /\ k[3] = l[3] /\ k[4] = l[4] /\ last

\* Looking for the first key that differs is the lexicographic order.
LEMMA FirstKeyDecides ==
    ASSUME NEW k \in Int \X Int \X Int \X Int, NEW l \in Int \X Int \X Int \X Int, NEW last \in BOOLEAN
    PROVE  LET differ == {i \in 1 .. 4 : k[i] # l[i]}
           IN  (IF differ = {} THEN last
                ELSE LET i == CHOOSE m \in differ : \A j \in differ : m <= j IN k[i] < l[i]) <=> KeysBefore(k, l, last)
<1> DEFINE differ == {i \in 1 .. 4 : k[i] # l[i]}
           i == CHOOSE m \in differ : \A j \in differ : m <= j
<1>0. k[1] \in Int /\ k[2] \in Int /\ k[3] \in Int /\ k[4] \in Int
      /\ l[1] \in Int /\ l[2] \in Int /\ l[3] \in Int /\ l[4] \in Int
  OBVIOUS
<1>1. CASE differ = {}
  <2>1. k[1] = l[1] /\ k[2] = l[2] /\ k[3] = l[3] /\ k[4] = l[4]
    BY <1>1
  <2> QED
    BY <1>0, <1>1, <2>1 DEF KeysBefore
<1>2. ASSUME NEW n \in differ, \A j \in differ : n <= j
      PROVE  i = n
  <2>1. differ \subseteq Int
    OBVIOUS
  <2>2. i \in differ /\ \A j \in differ : i <= j
    BY <1>2, Zenon
  <2> HIDE DEF differ, i
  <2> QED
    BY <1>2, <2>1, <2>2
<1>3. CASE k[1] # l[1]
  <2>1. i = 1
    <3>1. 1 \in differ /\ \A j \in differ : 1 <= j
      BY <1>3
    <3> QED
      BY <1>2, <3>1, Zenon
  <2> HIDE DEF i
  <2>2. (k[i] < l[i]) <=> KeysBefore(k, l, last)
    BY <1>0, <1>3, <2>1 DEF KeysBefore
  <2> QED
    BY <1>3, <2>2 DEF i
<1>4. CASE k[1] = l[1] /\ k[2] # l[2]
  <2>1. i = 2
    <3>1. 2 \in differ /\ \A j \in differ : 2 <= j
      BY <1>4
    <3> QED
      BY <1>2, <3>1, Zenon
  <2> HIDE DEF i
  <2>2. (k[i] < l[i]) <=> KeysBefore(k, l, last)
    BY <1>0, <1>4, <2>1 DEF KeysBefore
  <2> QED
    BY <1>4, <2>2 DEF i
<1>5. CASE k[1] = l[1] /\ k[2] = l[2] /\ k[3] # l[3]
  <2>1. i = 3
    <3>1. 3 \in differ /\ \A j \in differ : 3 <= j
      BY <1>5
    <3> QED
      BY <1>2, <3>1, Zenon
  <2> HIDE DEF i
  <2>2. (k[i] < l[i]) <=> KeysBefore(k, l, last)
    BY <1>0, <1>5, <2>1 DEF KeysBefore
  <2> QED
    BY <1>5, <2>2 DEF i
<1>6. CASE k[1] = l[1] /\ k[2] = l[2] /\ k[3] = l[3] /\ k[4] # l[4]
  <2>1. i = 4
    <3>1. 4 \in differ /\ \A j \in differ : 4 <= j
      BY <1>6
    <3> QED
      BY <1>2, <3>1, Zenon
  <2> HIDE DEF i
  <2>2. (k[i] < l[i]) <=> KeysBefore(k, l, last)
    BY <1>0, <1>6, <2>1 DEF KeysBefore
  <2> QED
    BY <1>6, <2>2 DEF i
<1>7. differ = {} \/ k[1] # l[1] \/ k[2] # l[2] \/ k[3] # l[3] \/ k[4] # l[4]
  OBVIOUS
<1> QED
  BY <1>1, <1>3, <1>4, <1>5, <1>6, <1>7, Zenon

\* The proposals of a set that differ in their numbers, which follow the plans.
ToldApart(S) ==
    /\ IsFiniteSet(S) /\ S \subseteq ProposalsMade
    /\ \A x, y \in S : (x.id = y.id => x = y) /\ (x.signal.plan < y.signal.plan => x.id < y.id)
    /\ \A x \in S : IsFiniteSet(x.evidence)

LEMMA KeysTyped ==
    ASSUME NEW x \in ProposalsMade, IsFiniteSet(x.evidence)
    PROVE  Keys(x) \in Int \X Int \X Int \X Int
<1>1. Propose!Cardinality(x.evidence) \in Nat
  BY FS_CardinalityType, SameCount, Zenon
<1>2. x.signal.roi \in Int /\ x.signal.areas \in Int
  BY DEF ProposalsMade, SignalsMade
<1>3. Propose!assessTestability(Propose!Scope(x)) \in Int /\ Propose!assessRisk(Propose!Scope(x)) \in Int
  BY DEF Propose!assessTestability, Propose!assessRisk
<1>4. Propose!computeScore(x) \in Int
  BY <1>1, <1>2, <1>3 DEF Propose!computeScore
<1> QED
  BY <1>2, <1>3, <1>4 DEF Keys

LEMMA ComparesKeys ==
    ASSUME NEW x \in ProposalsMade, IsFiniteSet(x.evidence), NEW y \in ProposalsMade, IsFiniteSet(y.evidence)
    PROVE  Propose!proposalComparator(x, y) <=> KeysBefore(Keys(x), Keys(y), Propose!IdBefore(x, y))
<1>1. Propose!IdBefore(x, y) \in BOOLEAN
  <2>1. (x.id < y.id) \in BOOLEAN /\ (x.signal.plan < y.signal.plan) \in BOOLEAN
    BY DEF ProposalsMade, SignalsMade
  <2> QED
    BY <2>1, Zenon DEF Propose!IdBefore
<1>2. Keys(x) \in Int \X Int \X Int \X Int /\ Keys(y) \in Int \X Int \X Int \X Int
  BY KeysTyped
<1> DEFINE k == Keys(x)
           l == Keys(y)
           differ == {i \in 1 .. 4 : k[i] # l[i]}
<1>3. (IF differ = {} THEN Propose!IdBefore(x, y)
       ELSE LET i == CHOOSE m \in differ : \A j \in differ : m <= j IN k[i] < l[i])
        <=> KeysBefore(k, l, Propose!IdBefore(x, y))
  BY <1>1, <1>2, FirstKeyDecides, Zenon
<1> QED
  BY <1>3, Zenon DEF Propose!proposalComparator, Keys
\* The pairs of a set in the order of the comparison.
Ranking(S) == {p \in S \X S : Propose!proposalComparator(p[1], p[2])}

\* Ids order the proposals that every key leaves equal by their numbers: the
\* scopes' letters differ only between plans, and the numbers follow the plans.
LEMMA IdsOrder ==
    ASSUME NEW S, ToldApart(S), NEW x \in S, NEW y \in S
    PROVE  Propose!IdBefore(x, y) <=> x.id < y.id
<1>1. x.signal.plan \in Int /\ y.signal.plan \in Int /\ x.id \in Int /\ y.id \in Int
  BY DEF ToldApart, ProposalsMade, SignalsMade
<1>2. x.signal.plan = y.signal.plan => Propose!Scope(x) = Propose!Scope(y)
  BY Zenon DEF Propose!Scope
<1>3. /\ x.signal.plan < y.signal.plan => x.id < y.id
      /\ y.signal.plan < x.signal.plan => y.id < x.id
  BY Zenon DEF ToldApart
<1> QED
  BY <1>1, <1>2, <1>3 DEF Propose!IdBefore

\* What a proposal is compared by, with its number.
Compared(x) == Keys(x) \in Int \X Int \X Int \X Int /\ x.id \in Int

LEMMA RankingOrders ==
    ASSUME NEW S, ToldApart(S)
    PROVE  Orders(Ranking(S), S)
<1>1. \A x \in S : Compared(x)
  <2>1. \A x \in S : x.id \in Int
    BY DEF ToldApart, ProposalsMade, SignalsMade
  <2> QED
    BY <2>1, KeysTyped, Zenon DEF ToldApart, Compared
<1>2. \A x, y \in S : <<x, y>> \in Ranking(S) <=>
        KeysBefore(Keys(x), Keys(y), x.id < y.id)
  <2>1. ASSUME NEW x \in S, NEW y \in S
        PROVE  Propose!proposalComparator(x, y) <=>
                 KeysBefore(Keys(x), Keys(y), x.id < y.id)
    <3>1. x \in ProposalsMade /\ y \in ProposalsMade /\ IsFiniteSet(x.evidence) /\ IsFiniteSet(y.evidence)
      BY Zenon DEF ToldApart
    <3>2. Propose!proposalComparator(x, y) <=> KeysBefore(Keys(x), Keys(y), Propose!IdBefore(x, y))
      BY <3>1, ComparesKeys, Zenon
    <3> QED
      BY <3>1, <3>2, IdsOrder, Zenon DEF KeysBefore
  <2>2. \A x, y \in S : <<x, y>> \in Ranking(S) <=> Propose!proposalComparator(x, y)
    BY DEF Ranking
  <2> QED
    BY <2>1, <2>2, Zenon
<1>3. \A x \in S : <<x, x>> \notin Ranking(S)
  BY <1>1, <1>2 DEF KeysBefore, Compared
<1>4. ASSUME NEW x \in S, NEW y \in S, NEW z \in S, <<x, y>> \in Ranking(S), <<y, z>> \in Ranking(S)
      PROVE  <<x, z>> \in Ranking(S)
  <2> DEFINE a == Keys(x)
             b == Keys(y)
             c == Keys(z)
  <2>1. a \in Int \X Int \X Int \X Int /\ b \in Int \X Int \X Int \X Int /\ c \in Int \X Int \X Int \X Int
    BY <1>1, Zenon DEF Compared
  <2>2. x.id \in Int /\ y.id \in Int /\ z.id \in Int
    BY <1>1, Zenon DEF Compared
  <2>3. /\ KeysBefore(a, b, x.id < y.id)
        /\ KeysBefore(b, c, y.id < z.id)
    BY <1>2, <1>4, Zenon
  <2> HIDE DEF a, b, c
  <2>4. KeysBefore(a, c, x.id < z.id)
    BY <2>1, <2>2, <2>3 DEF KeysBefore
  <2> QED
    BY <1>2, <2>4, Zenon DEF a, c
<1>5. ASSUME NEW x \in S, NEW y \in S, x # y
      PROVE  <<x, y>> \in Ranking(S) \/ <<y, x>> \in Ranking(S)
  <2> DEFINE a == Keys(x)
             b == Keys(y)
  <2>1. a \in Int \X Int \X Int \X Int /\ b \in Int \X Int \X Int \X Int
    BY <1>1, Zenon DEF Compared
  <2>2. x.id \in Int /\ y.id \in Int /\ x.id # y.id
    BY <1>1, <1>5, Zenon DEF Compared, ToldApart
  <2> HIDE DEF a, b
  <2>3. \/ KeysBefore(a, b, x.id < y.id)
        \/ KeysBefore(b, a, y.id < x.id)
    BY <2>1, <2>2 DEF KeysBefore
  <2> QED
    BY <1>2, <2>3, Zenon DEF a, b
<1> QED
  BY <1>3, <1>4, <1>5, Zenon DEF Orders, ToldApart

\* Sorting by rank lists every proposal once, each before those it goes before.
LEMMA SortedRanks ==
    ASSUME NEW S, ToldApart(S)
    PROVE  /\ Cardinality(S) \in Nat
           /\ Propose!Sorted(S) \in [1 .. Cardinality(S) -> S]
           /\ \A i, j \in 1 .. Cardinality(S) :
                i < j => Propose!proposalComparator(Propose!Sorted(S)[i], Propose!Sorted(S)[j])
           /\ \A x \in S : \E i \in 1 .. Cardinality(S) : Propose!Sorted(S)[i] = x
<1> DEFINE R == Ranking(S)
           rank(x) == Cardinality(Under(R, S, x))
           sorted == Propose!Sorted(S)
<1>1. Orders(R, S)
  BY RankingOrders, Zenon
<1>2. \A x \in S : {y \in S \ {x} : Propose!proposalComparator(y, x)} = Under(R, S, x)
  <2>1. \A x \in S : <<x, x>> \notin R
    BY <1>1, Zenon DEF Orders
  <2> QED
    BY <2>1 DEF Under, Ranking
<1>3. Cardinality(S) \in Nat /\ \A m \in 0 .. Cardinality(S) - 1 : \E x \in S : rank(x) = m
  BY <1>1, RanksNumber, Zenon
<1>4. sorted = [n \in 1 .. Cardinality(S) |-> CHOOSE x \in S : rank(x) = n - 1]
  <2> DEFINE byRank(n) == CHOOSE x \in S : rank(x) = n - 1
             count(x) == Propose!Cardinality({y \in S \ {x} : Propose!proposalComparator(y, x)})
             counted(n) == CHOOSE x \in S : count(x) = n - 1
  <2>1. sorted = [n \in 1 .. Cardinality(S) |-> CHOOSE x \in S : count(x) = n - 1]
    <3>1. Propose!Cardinality(S) = Cardinality(S)
      BY SameCount, Zenon
    <3> QED
      BY <3>1, Zenon DEF Propose!Sorted
  <2>2. \A x \in S : count(x) = rank(x)
    BY <1>2, SameCount, Zenon
  <2> HIDE DEF count, rank, sorted
  <2>3. ASSUME NEW n
        PROVE  counted(n) = byRank(n)
    BY <2>2, Zenon
  <2>4. /\ sorted = [n \in 1 .. Cardinality(S) |-> counted(n)]
        /\ [n \in 1 .. Cardinality(S) |-> counted(n)] = [n \in 1 .. Cardinality(S) |-> byRank(n)]
    <3>1. sorted = [n \in 1 .. Cardinality(S) |-> counted(n)]
      BY <2>1, Zenon
    <3> HIDE DEF counted, byRank
    <3> QED
      BY <2>3, <3>1
  <2> QED
    BY <2>4, Zenon
<1>5. ASSUME NEW n \in 1 .. Cardinality(S)
      PROVE  sorted[n] \in S /\ rank(sorted[n]) = n - 1
  <2>1. n - 1 \in 0 .. Cardinality(S) - 1
    BY <1>3
  <2>2. \E x \in S : rank(x) = n - 1
    BY <1>3, <2>1, Zenon
  <2>3. sorted[n] = CHOOSE x \in S : rank(x) = n - 1
    BY <1>4, Zenon
  <2> QED
    BY <2>2, <2>3, Zenon
<1>6. sorted \in [1 .. Cardinality(S) -> S]
  <2> HIDE DEF sorted, rank
  <2>1. DOMAIN sorted = 1 .. Cardinality(S) /\ sorted = [n \in 1 .. Cardinality(S) |-> sorted[n]]
    BY <1>4
  <2> QED
    BY <1>5, <2>1
<1>7. ASSUME NEW i \in 1 .. Cardinality(S), NEW j \in 1 .. Cardinality(S), i < j
      PROVE  Propose!proposalComparator(sorted[i], sorted[j])
  <2>1. /\ sorted[i] \in S /\ sorted[j] \in S
        /\ rank(sorted[i]) = i - 1 /\ rank(sorted[j]) = j - 1
    BY <1>5, Zenon
  <2>2. i \in Int /\ j \in Int
    BY <1>3
  <2> HIDE DEF sorted, R
  <2>3. sorted[i] # sorted[j]
    BY <1>7, <2>1, <2>2
  <2>4. ~(<<sorted[j], sorted[i]>> \in R)
    <3>1. ~(rank(sorted[j]) < rank(sorted[i]))
      BY <1>7, <2>1, <2>2
    <3> QED
      BY <1>1, <2>1, <3>1, RankGrows, Zenon
  <2>5. <<sorted[i], sorted[j]>> \in R
    BY <1>1, <2>1, <2>3, <2>4, Zenon DEF Orders
  <2> QED
    BY <2>5 DEF R, Ranking
<1>8. ASSUME NEW x \in S
      PROVE  \E i \in 1 .. Cardinality(S) : sorted[i] = x
  <2>1. rank(x) \in 0 .. Cardinality(S) - 1
    BY <1>1, RankIsBelow, Zenon
  <2> DEFINE i == rank(x) + 1
  <2>2. i \in 1 .. Cardinality(S) /\ i - 1 = rank(x)
    BY <1>3, <2>1
  <2> HIDE DEF i
  <2>3. sorted[i] \in S /\ rank(sorted[i]) = rank(x)
    BY <1>5, <2>2, Zenon
  <2>4. sorted[i] = x
    BY <1>1, <2>3, RanksNumber, Zenon
  <2> QED
    BY <2>2, <2>4, Zenon
<1> QED
  BY <1>3, <1>6, <1>7, <1>8, Zenon
-----------------------------------------------------------------------------
\* The invariant: proposals are numbered, are of plans already read and of the
\* scope asked for, and every evidence they have was marked.
ProposalsTyped ==
    /\ wanted \in {"all"} \cup Propose!Scopes /\ roadmap \in Nat /\ plans \in 1 .. Len(PlanScopes) + 1
    /\ Len(texts) = plans - 1 /\ texts \in Seq(SUBSET Propose!Marks)
    /\ all \in Seq(ProposalsMade) /\ Len(all) <= MaxProposals

Backed(x) ==
    /\ wanted \in {"all", Propose!Scope(x)}
    /\ x.evidence # {} /\ IsFiniteSet(x.evidence) /\ Cardinality(x.evidence) <= MaxEvidence
    /\ \A e \in x.evidence : e[1] \in {0, x.signal.plan} /\ (e[2] # 0 => e \in cited)

\* Proposals follow the plans, and are of plans that are read.
InPlanOrder(list, next) ==
    \A i, j \in 1 .. Len(list) :
        list[i].signal.plan < next /\ (i <= j => list[i].signal.plan <= list[j].signal.plan)

ProposalsInv ==
    /\ ProposalConstants /\ ProposalsTyped
    /\ \A i \in 1 .. Len(all) : all[i].id = i /\ Backed(all[i])
    /\ InPlanOrder(all, plans) /\ Propose!EvidenceCountsOnce
    /\ Len(ranked) <= Len(all) /\ Propose!BestAreShown
    /\ ranked # <<>> => plans = Len(PlanScopes) + 1

LEMMA ProposalsSuffice == ProposalsInv => ProposalsSound
<1> SUFFICES ASSUME ProposalsInv PROVE ProposalsSound
  OBVIOUS
<1>1. Propose!TypeOK
  BY DEF ProposalsInv, ProposalsTyped, Propose!TypeOK
<1>2. Propose!ProposalsAreBacked
  BY SameCount, Zenon DEF ProposalsInv, Backed, Propose!ProposalsAreBacked
<1> QED
  BY <1>1, <1>2, Zenon DEF ProposalsInv, ProposalsSound, Propose!ProposalsSound

LEMMA ProposalsBegin ==
    ASSUME ProposalConstants, Propose!Init
    PROVE  ProposalsInv
<1>1. roadmap \in Nat
  BY DEF ProposalConstants, Propose!Init
<1>2. ProposalsTyped
  BY <1>1 DEF ProposalConstants, Propose!Init, ProposalsTyped
<1>3. Len(all) = 0 /\ Len(ranked) = 0 /\ ranked = <<>>
  BY DEF Propose!Init
<1> QED
  BY <1>2, <1>3 DEF ProposalsInv, InPlanOrder, Propose!EvidenceCountsOnce, Propose!BestAreShown

\* Reading a plan of the scope asked for.
Adds(words) ==
    /\ plans \in 1 .. Len(PlanScopes) /\ wanted \in {"all", PlanScopes[plans]} /\ UNCHANGED wanted
    /\ all' = all \o Added(plans, words)
    /\ cited' = IF all' = all THEN cited ELSE cited \cup Cited(plans, words)

\* What reading a plan of the wanted scope leaves of the proposals before, and adds.
LEMMA AddedSound ==
    ASSUME ProposalsInv, NEW words, Adds(words)
    PROVE  /\ all' \in Seq(ProposalsMade) /\ Len(all') <= MaxProposals /\ Len(all) <= Len(all')
           /\ \A i \in 1 .. Len(all') : all'[i].id = i /\ Backed(all[i])'
           /\ InPlanOrder(all', plans + 1) /\ Propose!EvidenceCountsOnce'
<1> DEFINE new == Added(plans, words)
           n == Len(all)
           m == Fits(plans, words)
<1>b. plans \in 1 .. Len(PlanScopes) /\ wanted \in {"all", PlanScopes[plans]}
  BY Zenon DEF Adds
<1>a. /\ wanted' = wanted /\ all' = all \o Added(plans, words)
      /\ cited' = IF all' = all THEN cited ELSE cited \cup Cited(plans, words)
  BY Zenon DEF Adds
<1>0. /\ all \in Seq(ProposalsMade) /\ n \in Nat /\ n <= MaxProposals /\ MaxProposals \in Nat
      /\ ProposalConstants /\ roadmap \in Nat
  BY DEF ProposalsInv, ProposalsTyped, ProposalConstants
<1>1. /\ new \in Seq(ProposalsMade) /\ Len(new) = m /\ m \in Nat /\ n + m <= MaxProposals
      /\ \A k \in 1 .. m : new[k].signal.plan = plans
  BY <1>0, <1>b, AddedTyped, FitsSignals
<1>2. /\ all' \in Seq(ProposalsMade) /\ Len(all') = n + m
      /\ \A i \in 1 .. n + m : all'[i] = IF i <= n THEN all[i] ELSE new[i - n]
  BY <1>a, <1>0, <1>1, ConcatProperties
<1>3. cited \subseteq cited' /\ (m > 0 => cited' = cited \cup Cited(plans, words))
  <2>1. m > 0 => all' # all
    BY <1>0, <1>1, <1>2
  <2> QED
    BY <1>a, <2>1
<1>4. \A k \in 1 .. m : new[k].id = n + k /\ new[k].evidence = Backing(plans, words, SeenAt(k, plans, words))
  BY DEF Added
<1> HIDE DEF new, n, m
<1>5. ASSUME NEW k \in 1 .. m
      PROVE  /\ new[k].id = n + k
             /\ new[k].evidence # {} /\ IsFiniteSet(new[k].evidence) /\ Cardinality(new[k].evidence) <= MaxEvidence
             /\ \A e \in new[k].evidence :
                  /\ e[1] \in {0, new[k].signal.plan}
                  /\ e[2] # 0 => e \in cited' /\ e \notin cited /\ k = 1
             /\ wanted' \in {"all", Propose!Scope(new[k])}
  <2>1. /\ new[k].evidence # {} /\ IsFiniteSet(new[k].evidence) /\ Cardinality(new[k].evidence) <= MaxEvidence
        /\ \A e \in new[k].evidence :
             /\ e[1] \in {0, plans}
             /\ e[2] # 0 => e \in Cited(plans, words) \ SeenAt(k, plans, words)
    <3>1. new[k].evidence = Backing(plans, words, SeenAt(k, plans, words))
      BY <1>4
    <3> QED
      BY <1>0, <1>b, <3>1, BackingIsNew
  <2>2. cited' = cited \cup Cited(plans, words)
    BY <1>1, <1>3
  <2>3. \A e \in Cited(plans, words) \ SeenAt(k, plans, words) : e \notin cited /\ k = 1
    BY Zenon DEF SeenAt
  <2>4. new[k].signal.plan = plans
    BY <1>1
  <2>5. wanted' \in {"all", Propose!Scope(new[k])}
    BY <1>a, <1>b, <2>4 DEF Propose!Scope
  <2> QED
    BY <1>4, <2>1, <2>2, <2>3, <2>4, <2>5, Zenon
<1>6. ASSUME NEW i \in 1 .. n
      PROVE  /\ all[i].id = i /\ Backed(all[i])
  BY DEF ProposalsInv, n
<1>7. ASSUME NEW i \in 1 .. n + m
      PROVE  all'[i].id = i /\ Backed(all[i])'
  <2>1. CASE i <= n
    <3>1. i \in 1 .. n /\ all'[i] = all[i]
      BY <1>0, <1>2, <2>1 DEF n
    <3> QED
      BY <1>a, <1>3, <1>6, <3>1, Zenon DEF Backed, Propose!Scope
  <2>2. CASE ~(i <= n)
    <3>1. i - n \in 1 .. m /\ all'[i] = new[i - n] /\ n + (i - n) = i
      BY <1>0, <1>1, <1>2, <2>2
    <3>2. Backed(all[i])'
      BY <1>5, <3>1, Zenon DEF Backed, Propose!Scope
    <3> QED
      BY <1>5, <3>1, <3>2
  <2> QED
    BY <2>1, <2>2
<1>8. ASSUME NEW i \in 1 .. n + m, NEW j \in 1 .. n + m, i # j, NEW e \in all'[i].evidence \cap all'[j].evidence
      PROVE  e[2] = 0
  <2>1. CASE i <= n /\ j <= n
    <3>1. i \in 1 .. n /\ j \in 1 .. n /\ all'[i] = all[i] /\ all'[j] = all[j]
      BY <1>0, <1>2, <2>1
    <3> QED
      BY <1>8, <3>1, Zenon DEF ProposalsInv, Propose!EvidenceCountsOnce, n
  <2>2. CASE i <= n /\ ~(j <= n)
    <3>1. i \in 1 .. n /\ all'[i] = all[i] /\ j - n \in 1 .. m /\ all'[j] = new[j - n]
      BY <1>0, <1>1, <1>2, <2>2
    <3>2. e \in all[i].evidence /\ e \in new[j - n].evidence
      BY <1>8, <3>1, Zenon
    <3>3. e[2] # 0 => e \in cited
      BY <1>6, <3>1, <3>2, Zenon DEF Backed
    <3>4. e[2] # 0 => e \notin cited
      BY <1>5, <3>1, <3>2, Zenon
    <3> QED
      BY <3>3, <3>4
  <2>3. CASE ~(i <= n) /\ j <= n
    <3>1. j \in 1 .. n /\ all'[j] = all[j] /\ i - n \in 1 .. m /\ all'[i] = new[i - n]
      BY <1>0, <1>1, <1>2, <2>3
    <3>2. e \in all[j].evidence /\ e \in new[i - n].evidence
      BY <1>8, <3>1, Zenon
    <3>3. e[2] # 0 => e \in cited
      BY <1>6, <3>1, <3>2, Zenon DEF Backed
    <3>4. e[2] # 0 => e \notin cited
      BY <1>5, <3>1, <3>2, Zenon
    <3> QED
      BY <3>3, <3>4
  <2>4. CASE ~(i <= n) /\ ~(j <= n)
    <3>1. /\ i - n \in 1 .. m /\ all'[i] = new[i - n] /\ j - n \in 1 .. m /\ all'[j] = new[j - n]
          /\ ~(i - n = 1 /\ j - n = 1)
      BY <1>0, <1>1, <1>2, <1>8, <2>4
    <3> QED
      BY <1>5, <1>8, <3>1, Zenon
  <2> QED
    BY <2>1, <2>2, <2>3, <2>4
<1>9. Propose!EvidenceCountsOnce'
  BY <1>2, <1>8, Zenon DEF Propose!EvidenceCountsOnce
<1>10. InPlanOrder(all', plans + 1)
  <2>1. plans \in Int /\ InPlanOrder(all, plans) /\ \A i \in 1 .. n : all[i].signal.plan \in Int
    <3>1. \A i \in 1 .. n : all[i] \in ProposalsMade
      BY <1>0 DEF n
    <3>2. \A i \in 1 .. n : all[i].signal.plan \in Int
      BY <3>1 DEF ProposalsMade, SignalsMade
    <3> QED
      BY <3>2 DEF ProposalsInv, ProposalsTyped
  <2>2. \A i \in 1 .. n + m : all'[i].signal.plan = IF i <= n THEN all[i].signal.plan ELSE plans
    <3>1. \A i \in 1 .. n + m : ~(i <= n) => i - n \in 1 .. m
      BY <1>0, <1>1
    <3> QED
      BY <1>1, <1>2, <3>1, Zenon
  <2>3. \A i, j \in 1 .. n :
          all[i].signal.plan < plans /\ (i <= j => all[i].signal.plan <= all[j].signal.plan)
    BY <2>1, Zenon DEF InPlanOrder, n
  <2>4. ASSUME NEW i \in 1 .. n + m, NEW j \in 1 .. n + m
        PROVE  all'[i].signal.plan < plans + 1 /\ (i <= j => all'[i].signal.plan <= all'[j].signal.plan)
    <3>1. /\ all'[i].signal.plan = IF i <= n THEN all[i].signal.plan ELSE plans
          /\ all'[j].signal.plan = IF j <= n THEN all[j].signal.plan ELSE plans
      BY <2>2, <2>4, Zenon
    <3>2. /\ i \in Int /\ j \in Int /\ n \in Int /\ (i <= n => i \in 1 .. n) /\ (j <= n => j \in 1 .. n)
      BY <1>0, <1>1, <2>4
    <3> QED
      BY <2>1, <2>3, <3>1, <3>2
  <2> QED
    BY <1>2, <2>4, Zenon DEF InPlanOrder
<1> QED
  BY <1>0, <1>1, <1>2, <1>7, <1>9, <1>10 DEF n
\* Reading the next plan.
LEMMA ReadKeeps ==
    ASSUME ProposalsInv, Propose!ReadPlan
    PROVE  ProposalsInv'
<1>1. plans \in 1 .. Len(PlanScopes) /\ plans' = plans + 1 /\ UNCHANGED <<wanted, roadmap, ranked>>
  BY DEF ProposalsInv, ProposalsTyped, Propose!ReadPlan
<1>2. PICK words \in SUBSET Propose!Marks :
        /\ texts' = Append(texts, words)
        /\ IF wanted \in {"all", PlanScopes[plans]}
           THEN /\ all' = Propose!Propose(plans, words, Propose!detectPlanSignals(plans, words), all, cited)
                /\ cited' = IF all' = all THEN cited
                            ELSE cited \cup Propose!RoadmapEvidence \cup Propose!PlanEvidence(plans, words)
           ELSE UNCHANGED <<all, cited>>
  BY Zenon DEF Propose!ReadPlan
<1>3. ranked = <<>> /\ ranked' = <<>>
  BY <1>1 DEF ProposalsInv
<1>4. ASSUME all' \in Seq(ProposalsMade), Len(all') <= MaxProposals, Len(all) <= Len(all'),
             \A i \in 1 .. Len(all') : all'[i].id = i /\ Backed(all[i])',
             InPlanOrder(all', plans + 1), Propose!EvidenceCountsOnce'
      PROVE  ProposalsInv'
  <2>1. ProposalsTyped'
    <3>1. texts' \in Seq(SUBSET Propose!Marks) /\ Len(texts') = plans' - 1
      BY <1>1, <1>2 DEF ProposalsInv, ProposalsTyped
    <3>2. wanted' \in {"all"} \cup Propose!Scopes /\ roadmap' \in Nat
      BY <1>1 DEF ProposalsInv, ProposalsTyped
    <3>3. plans' \in 1 .. Len(PlanScopes) + 1
      BY <1>1 DEF ProposalsInv, ProposalConstants
    <3> QED
      BY <1>4, <3>1, <3>2, <3>3, Zenon DEF ProposalsTyped, Propose!Scopes, Propose!Marks
  <2>2. Len(ranked') = 0 /\ Len(all') \in Nat
    BY <1>3, <1>4
  <2>3. Propose!BestAreShown'
    BY <1>3, <2>2 DEF Propose!BestAreShown
  <2>4. ProposalConstants'
    BY DEF ProposalsInv, ProposalConstants
  <2>5. \A i \in 1 .. Len(all') : (all[i].id = i /\ Backed(all[i]))'
    BY <1>4
  <2> QED
    BY <1>1, <1>3, <1>4, <2>1, <2>2, <2>3, <2>4, <2>5 DEF ProposalsInv
<1>5. CASE wanted \in {"all", PlanScopes[plans]}
  <2>1. all' = all \o Added(plans, words)
    BY <1>2, <1>5, ProposeAdds, Zenon
  <2>2. cited' = IF all' = all THEN cited ELSE cited \cup Cited(plans, words)
    <3>1. cited \cup Propose!RoadmapEvidence \cup Propose!PlanEvidence(plans, words) = cited \cup Cited(plans, words)
      BY Zenon DEF Cited
    <3> QED
      BY <1>2, <1>5, <3>1, Zenon
  <2>3. UNCHANGED wanted
    BY <1>1
  <2>4. /\ all' \in Seq(ProposalsMade) /\ Len(all') <= MaxProposals /\ Len(all) <= Len(all')
        /\ \A i \in 1 .. Len(all') : all'[i].id = i /\ Backed(all[i])'
        /\ InPlanOrder(all', plans + 1) /\ Propose!EvidenceCountsOnce'
    <3>1. plans \in 1 .. Len(PlanScopes)
      BY <1>1
    <3>2. Adds(words)
      BY <1>5, <2>1, <2>2, <2>3, <3>1, Zenon DEF Adds
    <3> QED
      BY <3>2, AddedSound, Zenon
  <2> QED
    BY <1>4, <2>4, Zenon
<1>6. CASE wanted \notin {"all", PlanScopes[plans]}
  <2>1. UNCHANGED <<wanted, all, cited>>
    BY <1>1, <1>2, <1>6
  <2>2. /\ all' \in Seq(ProposalsMade) /\ Len(all') <= MaxProposals /\ Len(all) <= Len(all')
        /\ \A i \in 1 .. Len(all') : all'[i].id = i /\ Backed(all[i])'
        /\ Propose!EvidenceCountsOnce'
    BY <2>1 DEF ProposalsInv, ProposalsTyped, Backed, Propose!Scope, Propose!EvidenceCountsOnce
  <2>3. InPlanOrder(all', plans + 1)
    <3>1. \A i \in 1 .. Len(all) : all[i].signal.plan \in Int
      <4>1. \A i \in 1 .. Len(all) : all[i] \in ProposalsMade
        BY DEF ProposalsInv, ProposalsTyped
      <4> QED
        BY <4>1 DEF ProposalsMade, SignalsMade
    <3>2. plans \in Int /\ InPlanOrder(all, plans)
      BY DEF ProposalsInv, ProposalsTyped
    <3> QED
      BY <2>1, <3>1, <3>2 DEF InPlanOrder
  <2> QED
    BY <1>4, <2>2, <2>3, Zenon
<1> QED
  BY <1>5, <1>6

\* The proposals made so far.
Made == {all[i] : i \in 1 .. Len(all)}

LEMMA MadeAreTold ==
    ASSUME ProposalsInv
    PROVE  ToldApart(Made) /\ Cardinality(Made) = Len(all)
<1>1. Len(all) \in Nat /\ \A i \in 1 .. Len(all) : all[i] \in ProposalsMade
  BY DEF ProposalsInv, ProposalsTyped
<1>2. \A i \in 1 .. Len(all) : all[i].id = i
  BY DEF ProposalsInv
<1> DEFINE N == 1 .. Len(all)
           f == [i \in N |-> all[i]]
<1>3. f \in Bijection(N, Made)
  <2>1. f \in [N -> Made]
    BY DEF Made
  <2>2. f \in Injection(N, Made)
    BY <1>2, <2>1 DEF Injection, IsInjective
  <2>3. f \in Surjection(N, Made)
    BY <2>1 DEF Surjection, Made
  <2> QED
    BY <2>2, <2>3 DEF Bijection
<1>4. IsFiniteSet(N) /\ Cardinality(N) = Len(all)
  BY <1>1, FS_Interval
<1>5. IsFiniteSet(Made) /\ Cardinality(Made) = Len(all)
  <2>1. ExistsBijection(N, Made)
    BY <1>3, Zenon DEF ExistsBijection
  <2> HIDE DEF N
  <2> QED
    BY <1>4, <2>1, FS_Bijection
<1>6. \A x \in Made : IsFiniteSet(x.evidence)
  BY DEF ProposalsInv, Backed, Made
<1>7. Made \subseteq ProposalsMade /\ \A x, y \in Made : x.id = y.id => x = y
  BY <1>1, <1>2 DEF Made
<1>8. ASSUME NEW x \in Made, NEW y \in Made, x.signal.plan < y.signal.plan
      PROVE  x.id < y.id
  <2>1. PICK i \in N, j \in N : x = all[i] /\ y = all[j]
    BY DEF Made
  <2>2. i <= j \/ j <= i
    BY <1>1
  <2>3. x.signal.plan \in Int /\ y.signal.plan \in Int
    BY <1>7 DEF ProposalsMade, SignalsMade
  <2>4. ~(j <= i)
    <3>1. j <= i => y.signal.plan <= x.signal.plan
      BY <2>1, Zenon DEF ProposalsInv, InPlanOrder
    <3> QED
      BY <1>8, <2>3, <3>1
  <2> QED
    BY <1>1, <1>2, <2>1, <2>2, <2>4
<1> QED
  BY <1>5, <1>6, <1>7, <1>8, Zenon DEF ToldApart

\* Ranking and cutting what was proposed.
LEMMA ShowKeeps ==
    ASSUME ProposalsInv, Propose!Show
    PROVE  ProposalsInv'
<1> DEFINE sorted == Propose!Sorted(Made)
           n == Len(all)
<1>1. plans = Len(PlanScopes) + 1 /\ UNCHANGED <<wanted, roadmap, plans, texts, all, cited>>
  BY DEF ProposalsInv, ProposalsTyped, Propose!Show
<1>2. PICK limit \in 1 .. MaxProposals : ranked' = SubSeq(sorted, 1, IF limit < n THEN limit ELSE n)
  BY Zenon DEF Propose!Show, Made
<1> DEFINE m == IF limit < n THEN limit ELSE n
<1>3. n \in Nat /\ m \in 0 .. n
  <2>1. n \in Nat /\ MaxProposals \in Nat
    BY DEF ProposalsInv, ProposalsTyped, ProposalConstants
  <2> QED
    BY <2>1
<1>4. /\ sorted \in [1 .. n -> Made]
      /\ \A i, j \in 1 .. n : i < j => Propose!proposalComparator(sorted[i], sorted[j])
      /\ \A x \in Made : \E i \in 1 .. n : sorted[i] = x
  BY MadeAreTold, SortedRanks, Zenon
<1> HIDE DEF m, sorted, n
<1>5. Len(ranked') = m /\ \A i \in 1 .. m : ranked'[i] = sorted[i]
  <2>1. \A i \in 1 .. m : sorted[i] \in Made
    BY <1>3, <1>4
  <2>2. /\ Len(SubSeq(sorted, 1, m)) = IF 1 <= m THEN m - 1 + 1 ELSE 0
        /\ \A i \in 1 .. m - 1 + 1 : SubSeq(sorted, 1, m)[i] = sorted[1 + i - 1]
    BY <1>3, <2>1, SubSeqProperties
  <2>3. ranked' = SubSeq(sorted, 1, m)
    BY <1>2, Zenon DEF m
  <2>4. \A i \in 1 .. m : i \in 1 .. m - 1 + 1 /\ 1 + i - 1 = i
    BY <1>3
  <2>5. \A i \in 1 .. m : ranked'[i] = sorted[i]
    BY <2>2, <2>3, <2>4, Zenon
  <2>6. Len(ranked') = m
    BY <1>3, <2>2, <2>3
  <2> QED
    BY <2>5, <2>6
<1>6. \A i, j \in 1 .. m : i < j => Propose!proposalComparator(ranked'[i], ranked'[j])
  BY <1>3, <1>4, <1>5
<1>7. ASSUME NEW x \in {ranked'[i] : i \in 1 .. m}, NEW k \in 1 .. n
      PROVE  all[k] \in {ranked'[i] : i \in 1 .. m} \/ Propose!proposalComparator(x, all[k])
  <2>1. PICK i \in 1 .. m : x = ranked'[i]
    BY <1>7
  <2>2. all[k] \in Made
    BY DEF Made, n
  <2>3. PICK j \in 1 .. n : sorted[j] = all[k]
    BY <1>4, <2>2, Zenon
  <2>4. CASE j <= m
    BY <1>3, <1>5, <2>3, <2>4
  <2>5. CASE ~(j <= m)
    <3>1. i \in 1 .. n /\ i < j
      BY <1>3, <2>5
    <3> QED
      BY <1>4, <1>5, <2>1, <2>3, <3>1, Zenon
  <2> QED
    BY <2>4, <2>5
<1>8. Propose!BestAreShown'
  BY <1>1, <1>5, <1>6, <1>7, Zenon DEF Propose!BestAreShown, n
<1>9. Len(ranked') <= Len(all')
  BY <1>1, <1>3, <1>5 DEF n
<1>10. ProposalsTyped' /\ ProposalConstants'
  BY <1>1, Zenon DEF ProposalsInv, ProposalsTyped, ProposalConstants
<1>11. \A i \in 1 .. Len(all') : (all[i].id = i /\ Backed(all[i]))'
  BY <1>1 DEF ProposalsInv, Backed, Propose!Scope
<1>12. Propose!EvidenceCountsOnce' /\ InPlanOrder(all, plans)'
  BY <1>1, Zenon DEF ProposalsInv, Propose!EvidenceCountsOnce, InPlanOrder
<1> QED
  BY <1>1, <1>8, <1>9, <1>10, <1>11, <1>12 DEF ProposalsInv
LEMMA ProposalsAlways == PartsSpec => []ProposalsInv
<1>1. PartsInit => ProposalsInv
  <2>1. ProposalConstants
    BY ProposalAssumption, Zenon DEF ProposalAssumption, ProposalConstants
  <2> QED
    BY <2>1, ProposalsBegin DEF PartsInit
<1>2. ProposalsInv /\ [PartsNext]_parts => ProposalsInv'
  <2> SUFFICES ASSUME ProposalsInv, [PartsNext]_parts
               PROVE  ProposalsInv'
    OBVIOUS
  <2>1. Propose!ReadPlan \/ Propose!Show \/ UNCHANGED proposals
    <3>1. CASE PartsNext
      BY <3>1, Zenon DEF PartsNext, Takes, Propose!Next, Propose!vars, proposals
    <3>2. CASE UNCHANGED parts
      BY <3>2 DEF parts
    <3> QED
      BY <3>1, <3>2
  <2>2. CASE UNCHANGED proposals
    <3>1. UNCHANGED <<wanted, roadmap, plans, texts, all, cited, ranked>>
      BY <2>2 DEF proposals
    <3>2. ProposalsTyped' /\ ProposalConstants'
      BY <3>1, Zenon DEF ProposalsInv, ProposalsTyped, ProposalConstants
    <3>3. \A i \in 1 .. Len(all') : (all[i].id = i /\ Backed(all[i]))'
      BY <3>1 DEF ProposalsInv, Backed, Propose!Scope
    <3>4. Propose!EvidenceCountsOnce'
      BY <3>1, Zenon DEF ProposalsInv, Propose!EvidenceCountsOnce
    <3>5. Propose!BestAreShown' /\ InPlanOrder(all, plans)'
      BY <3>1 DEF ProposalsInv, Propose!BestAreShown, InPlanOrder
    <3> QED
      BY <3>1, <3>2, <3>3, <3>4, <3>5 DEF ProposalsInv
  <2> QED
    BY <2>1, <2>2, ReadKeeps, ShowKeeps
<1> QED
  BY <1>1, <1>2, PTL DEF PartsSpec

\* What is proposed has evidence of the roadmap or of its own plan that no other
\* proposal counts, and what is shown ranks above all that follows and all that
\* the limit left out (proposeFeatures), for any plans, bounds and texts.
THEOREM ProposalsAreSound == PartsSpec => []ProposalsSound
  BY ProposalsAlways, ProposalsSuffice, PTL

-----------------------------------------------------------------------------
(* The viewer of a patch (ReviewViewer)                                    *)

ReviewConstants == MaxRuns \in Nat \ {0} /\ MaxRows \in Nat

LEMMA LeastOfTwo == \A a, b \in Int : Review!Min({a, b}) = IF a <= b THEN a ELSE b
<1> SUFFICES ASSUME NEW a \in Int, NEW b \in Int PROVE Review!Min({a, b}) = IF a <= b THEN a ELSE b
  OBVIOUS
<1>1. Review!Min({a, b}) = CHOOSE x \in {a, b} : \A y \in {a, b} : x <= y
  BY DEF Review!Min
<1>2. \E x \in {a, b} : \A y \in {a, b} : x <= y
  OBVIOUS
<1>3. Review!Min({a, b}) \in {a, b} /\ \A y \in {a, b} : Review!Min({a, b}) <= y
  BY <1>1, <1>2, Zenon
<1> QED
  BY <1>3

LEMMA GreatestOfTwo == \A a, b \in Int : Review!Max({a, b}) = IF a <= b THEN b ELSE a
<1> SUFFICES ASSUME NEW a \in Int, NEW b \in Int PROVE Review!Max({a, b}) = IF a <= b THEN b ELSE a
  OBVIOUS
<1>1. Review!Max({a, b}) = CHOOSE x \in {a, b} : \A y \in {a, b} : x >= y
  BY DEF Review!Max
<1>2. \E x \in {a, b} : \A y \in {a, b} : x >= y
  OBVIOUS
<1>3. Review!Max({a, b}) \in {a, b} /\ \A y \in {a, b} : Review!Max({a, b}) >= y
  BY <1>1, <1>2, Zenon
<1> QED
  BY <1>3

Banners  == [up : BOOLEAN, of : 0 .. MaxRuns]
Views    == [run : 0 .. MaxRuns, files : 0 .. 2, selected : -1 .. 1, scroll : Nat, busy : BOOLEAN,
             banner : Banners, empty : BOOLEAN]
Verifies == [stage : {"idle", "validating", "loading"}, of : 0 .. MaxRuns]

ReviewTyped ==
    /\ screen \in {"none", "picker", "opening", "viewer", "left", "signalled"}
    /\ terminal \in [raw : BOOLEAN, alt : BOOLEAN, keys : BOOLEAN] /\ height \in Review!Heights
    /\ disk \in [run : 1 .. MaxRuns, files : 0 .. 2, plan : BOOLEAN]
    /\ view \in Views /\ verifies \in [Review!Slots -> Verifies]
    /\ stray \in BOOLEAN

\* The rows of the file at a place of the list, none where there is no file.
RowsAt(files, selected) == IF selected \in 0 .. (files - 1) THEN Review!Rows(selected) ELSE 0

\* A view whose reader is in its patch.
InPatch(st) ==
    /\ st.selected <= Review!Max({0, st.files - 1})
    /\ st.selected < 0 => st.empty
    /\ RowsAt(st.files, st.selected) > 0 => st.scroll < RowsAt(st.files, st.selected)

ReviewInv ==
    /\ ReviewConstants /\ ReviewTyped
    /\ screen \notin {"picker", "viewer"} => terminal = Review!Normal
    /\ screen \in {"picker", "viewer"} => terminal = Review!Owned
    /\ ~stray
    /\ Review!VerdictNotNewer /\ Review!BusyIsPending
    /\ InPatch(view) /\ (screen = "viewer" /\ view.files = 0 => view.empty)
    \* what a verification was told, and what is shown, was on the disk
    /\ view.run <= disk.run /\ \A v \in Review!Slots : verifies[v].of <= disk.run

LEMMA RowsTyped == ReviewConstants => \A files \in 0 .. 2, selected \in -1 .. 1 : RowsAt(files, selected) \in Nat
<1> SUFFICES ASSUME ReviewConstants, NEW files \in 0 .. 2, NEW selected \in -1 .. 1 PROVE RowsAt(files, selected) \in Nat
  OBVIOUS
<1>1. Review!Min({selected + 2, MaxRows}) = IF selected + 2 <= MaxRows THEN selected + 2 ELSE MaxRows
  BY LeastOfTwo DEF ReviewConstants
<1> QED
  BY <1>1 DEF ReviewConstants, RowsAt, Review!Rows

LEMMA ReviewSuffices == ReviewInv => Review!ReviewSound
<1> SUFFICES ASSUME ReviewInv PROVE Review!ReviewSound
  OBVIOUS
<1>1. Review!Shown = RowsAt(view.files, view.selected)
  BY DEF Review!Shown, RowsAt
<1>2. Review!TypeOK
  BY DEF ReviewInv, ReviewTyped, Views, Banners, Verifies, Review!TypeOK
<1>3. Review!TerminalIsBack
  BY DEF ReviewInv, Review!TerminalIsBack
<1>4. Review!ReaderIsInPatch
  BY <1>1, Zenon DEF ReviewInv, InPatch, Review!ReaderIsInPatch
<1> QED
  BY <1>2, <1>3, <1>4, Zenon DEF ReviewInv, Review!ReviewSound

LEMMA ReviewBegins ==
    ASSUME ReviewConstants, Review!Init
    PROVE  ReviewInv
<1>1. ReviewTyped
  <2>0. 0 \in 0 .. MaxRuns /\ 1 \in 1 .. MaxRuns
    BY DEF ReviewConstants
  <2>1. view \in Views
    BY <2>0 DEF Review!Init, Views, Banners, Review!NoView, Review!NoBanner
  <2>2. verifies \in [Review!Slots -> Verifies]
    BY <2>0 DEF Review!Init, Verifies, Review!Idle
  <2>3. disk \in [run : 1 .. MaxRuns, files : 0 .. 2, plan : BOOLEAN]
    BY <2>0 DEF Review!Init
  <2> QED
    BY <2>1, <2>2, <2>3 DEF Review!Init, ReviewTyped, Review!Normal
<1>2. InPatch(view)
  <2>1. Review!Max({0, 0 - 1}) = 0
    BY GreatestOfTwo
  <2>2. view.selected = 0 /\ view.files = 0
    BY DEF Review!Init, Review!NoView
  <2> QED
    BY <2>1, <2>2 DEF InPatch, RowsAt
<1> QED
  BY <1>1, <1>2 DEF ReviewConstants, Review!Init, ReviewInv, Review!NoView, Review!NoBanner, Review!Idle, Review!VerdictNotNewer,
                    Review!BusyIsPending

\* No result draws on a screen that was given back.
LEMMA NoStray ==
    ASSUME ReviewInv, UNCHANGED terminal, Review!Redraw
    PROVE  ~stray'
  BY DEF ReviewInv, ReviewTyped, Review!Redraw, Review!Restored, Review!Normal, Review!Owned

\* The moves of the reader: a place in the patch stays one.
LEMMA ClampIsPlace ==
    ASSUME ReviewInv, NEW n \in Int
    PROVE  /\ Review!Clamp(n) \in Nat /\ Review!MaxScroll \in Nat
           /\ Review!Shown > 0 => Review!Clamp(n) < Review!Shown /\ Review!MaxScroll < Review!Shown
<1>1. Review!Shown \in Nat
  <2>1. view.files \in 0 .. 2 /\ view.selected \in -1 .. 1
    BY DEF ReviewInv, ReviewTyped, Views
  <2>2. Review!Shown = RowsAt(view.files, view.selected)
    BY DEF Review!Shown, RowsAt
  <2> QED
    BY <2>1, <2>2, RowsTyped, Zenon DEF ReviewInv
<1>2. height \in {1, 2}
  BY DEF ReviewInv, ReviewTyped, Review!Heights
<1>3. Review!MaxScroll = IF 0 <= Review!Shown - height THEN Review!Shown - height ELSE 0
  <2>1. Review!Shown - height \in Int
    BY <1>1, <1>2
  <2> QED
    BY <2>1, GreatestOfTwo DEF Review!MaxScroll
<1>4. Review!MaxScroll \in Nat /\ (Review!Shown > 0 => Review!MaxScroll < Review!Shown)
  BY <1>1, <1>2, <1>3
<1> DEFINE least == IF Review!MaxScroll <= n THEN Review!MaxScroll ELSE n
<1>5. Review!Min({Review!MaxScroll, n}) = least
  BY <1>4, LeastOfTwo
<1>6. Review!Clamp(n) = IF 0 <= least THEN least ELSE 0
  <2>1. least \in Int
    BY <1>4
  <2>2. Review!Max({0, least}) = IF 0 <= least THEN least ELSE 0
    BY <2>1, GreatestOfTwo
  <2> QED
    BY <1>5, <2>2, Zenon DEF Review!Clamp
<1> QED
  BY <1>1, <1>4, <1>6

LEMMA ReduceInPatch ==
    ASSUME ReviewInv, view.empty \/ view.files # 0, NEW move \in Review!Moves
    PROVE  /\ Review!Reduce(move) \in Views /\ InPatch(Review!Reduce(move))
           /\ Review!Reduce(move).run = view.run /\ Review!Reduce(move).banner = view.banner
           /\ Review!Reduce(move).busy = view.busy /\ Review!Reduce(move).files = view.files
           /\ Review!Reduce(move).empty = view.empty
<1>0. /\ view \in Views /\ InPatch(view) /\ view.files \in 0 .. 2 /\ view.selected \in -1 .. 1 /\ view.scroll \in Nat
      /\ ReviewConstants
  BY DEF ReviewInv, ReviewTyped, Views
<1>1. Review!Shown = RowsAt(view.files, view.selected)
  BY DEF Review!Shown, RowsAt
<1>2. ASSUME NEW to \in Nat, Review!Shown > 0 => to < Review!Shown
      PROVE  LET st == [view EXCEPT !.scroll = to]
             IN  /\ st \in Views /\ InPatch(st) /\ st.run = view.run /\ st.banner = view.banner /\ st.busy = view.busy
                 /\ st.files = view.files /\ st.empty = view.empty
  <2> DEFINE st == [view EXCEPT !.scroll = to]
  <2>1. /\ st \in Views /\ st.scroll = to /\ st.selected = view.selected
        /\ st.run = view.run /\ st.banner = view.banner /\ st.busy = view.busy
        /\ st.files = view.files /\ st.empty = view.empty
    BY <1>0 DEF Views
  <2> HIDE DEF st
  <2>2. InPatch(st)
    BY <1>0, <1>1, <1>2, <2>1, Zenon DEF InPatch
  <2> QED
    BY <2>1, <2>2 DEF st
<1>3. ASSUME NEW place \in -1 .. 1, place <= Review!Max({0, view.files - 1}), place < 0 => view.empty
      PROVE  LET st == [view EXCEPT !.selected = place, !.scroll = 0]
             IN  /\ st \in Views /\ InPatch(st) /\ st.run = view.run /\ st.banner = view.banner /\ st.busy = view.busy
                 /\ st.files = view.files /\ st.empty = view.empty
  <2> DEFINE st == [view EXCEPT !.selected = place, !.scroll = 0]
  <2>1. /\ st \in Views /\ st.scroll = 0 /\ st.selected = place
        /\ st.run = view.run /\ st.banner = view.banner /\ st.busy = view.busy
        /\ st.files = view.files /\ st.empty = view.empty
    BY <1>0 DEF Views
  <2> HIDE DEF st
  <2>2. RowsAt(st.files, st.selected) \in Nat
    BY <1>0, <2>1, RowsTyped
  <2>3. InPatch(st)
    BY <1>3, <2>1, <2>2 DEF InPatch
  <2> QED
    BY <2>1, <2>3 DEF st
<1>4. Review!Clamp(view.scroll - 1) \in Nat /\ (Review!Shown > 0 => Review!Clamp(view.scroll - 1) < Review!Shown)
  BY <1>0, ClampIsPlace
<1>5. Review!Clamp(view.scroll + 1) \in Nat /\ (Review!Shown > 0 => Review!Clamp(view.scroll + 1) < Review!Shown)
  BY <1>0, ClampIsPlace
<1>6. Review!MaxScroll \in Nat /\ (Review!Shown > 0 => Review!MaxScroll < Review!Shown)
  BY <1>0, ClampIsPlace
<1>7. Review!Max({0, view.files - 1}) = IF 0 <= view.files - 1 THEN view.files - 1 ELSE 0
  BY <1>0, GreatestOfTwo
<1> DEFINE next == Review!Min({view.files - 1, view.selected + 1})
           prev == Review!Max({0, view.selected - 1})
<1>8. next \in -1 .. 1 /\ next <= Review!Max({0, view.files - 1}) /\ (next < 0 => view.empty)
  <2>1. next = IF view.files - 1 <= view.selected + 1 THEN view.files - 1 ELSE view.selected + 1
    BY <1>0, LeastOfTwo
  <2>2. next < 0 => view.files = 0 /\ view.empty
    BY <1>0, <2>1
  <2> QED
    BY <1>0, <1>7, <2>1, <2>2
<1>9. prev \in -1 .. 1 /\ prev <= Review!Max({0, view.files - 1}) /\ (prev < 0 => view.empty)
  <2>1. prev = IF 0 <= view.selected - 1 THEN view.selected - 1 ELSE 0
    BY <1>0, GreatestOfTwo
  <2>2. view.selected <= IF 0 <= view.files - 1 THEN view.files - 1 ELSE 0
    BY <1>0, <1>7 DEF InPatch
  <2> QED
    BY <1>0, <1>7, <2>1, <2>2
<1> HIDE DEF next, prev
<1>10. CASE move = "up"
  <2>1. Review!Reduce(move) = [view EXCEPT !.scroll = Review!Clamp(view.scroll - 1)]
    BY <1>10 DEF Review!Reduce
  <2> QED
    BY <1>2, <1>4, <2>1
<1>11. CASE move = "down"
  <2>1. Review!Reduce(move) = [view EXCEPT !.scroll = Review!Clamp(view.scroll + 1)]
    BY <1>11 DEF Review!Reduce
  <2> QED
    BY <1>2, <1>5, <2>1
<1>12. CASE move = "top"
  <2>1. Review!Reduce(move) = [view EXCEPT !.scroll = 0]
    BY <1>12 DEF Review!Reduce
  <2>2. 0 \in Nat /\ (Review!Shown > 0 => 0 < Review!Shown)
    OBVIOUS
  <2> QED
    BY <1>2, <2>1, <2>2
<1>13. CASE move = "bottom"
  <2>1. Review!Reduce(move) = [view EXCEPT !.scroll = Review!MaxScroll]
    BY <1>13 DEF Review!Reduce
  <2> QED
    BY <1>2, <1>6, <2>1
<1>14. CASE move = "next"
  <2>1. Review!Reduce(move) = [view EXCEPT !.selected = next, !.scroll = 0]
    BY <1>14 DEF Review!Reduce, next
  <2> QED
    BY <1>3, <1>8, <2>1
<1>15. CASE move = "prev"
  <2>1. Review!Reduce(move) = [view EXCEPT !.selected = prev, !.scroll = 0]
    BY <1>15 DEF Review!Reduce, prev
  <2> QED
    BY <1>3, <1>9, <2>1
<1> QED
  BY <1>10, <1>11, <1>12, <1>13, <1>14, <1>15, Zenon DEF Review!Moves
\* A view with another banner.
Bannered(st, up, of, waits) == [st EXCEPT !.banner = [up |-> up, of |-> of], !.busy = waits]

IsBannered(new, st, of, waits) ==
    /\ new \in Views /\ new.run = st.run /\ new.files = st.files
    /\ new.selected = st.selected /\ new.scroll = st.scroll
    /\ new.empty = st.empty /\ new.busy = waits /\ new.banner.of = of

LEMMA BanneredIs ==
    \A st \in Views, up \in BOOLEAN, of \in 0 .. MaxRuns, waits \in BOOLEAN :
        IsBannered(Bannered(st, up, of, waits), st, of, waits)
<1> SUFFICES ASSUME NEW st \in Views, NEW up \in BOOLEAN, NEW of \in 0 .. MaxRuns, NEW waits \in BOOLEAN
             PROVE  IsBannered(Bannered(st, up, of, waits), st, of, waits)
  OBVIOUS
<1>1. [up |-> up, of |-> of] \in Banners
  BY DEF Banners
<1> DEFINE b == [up |-> up, of |-> of]
<1>2. b.of = of
  OBVIOUS
<1> HIDE DEF b
<1>3. Bannered(st, up, of, waits) = [st EXCEPT !.banner = b, !.busy = waits]
  BY DEF Bannered, b
<1>4. /\ [st EXCEPT !.banner = b, !.busy = waits].run = st.run
      /\ [st EXCEPT !.banner = b, !.busy = waits].files = st.files
      /\ [st EXCEPT !.banner = b, !.busy = waits].selected = st.selected
      /\ [st EXCEPT !.banner = b, !.busy = waits].scroll = st.scroll
      /\ [st EXCEPT !.banner = b, !.busy = waits].banner = b
  BY DEF Views
<1>5. DOMAIN st = {"run", "files", "selected", "scroll", "busy", "banner", "empty"}
  BY DEF Views
<1>6. /\ [st EXCEPT !.banner = b, !.busy = waits].empty = st.empty
      /\ [st EXCEPT !.banner = b, !.busy = waits].busy = waits
  BY <1>5, Zenon
<1>7. [st EXCEPT !.banner = b, !.busy = waits] \in Views
  BY <1>1 DEF Views, b
<1> QED
  BY <1>2, <1>3, <1>4, <1>6, <1>7 DEF IsBannered

\* What a step does to the view that is left as it is, or changed by the reader.
LEMMA ReaderKeeps ==
    ASSUME ReviewInv, screen = "viewer", UNCHANGED <<screen, terminal, height, disk, verifies>>, Review!Redraw,
           view' \in Views, InPatch(view'), view'.run = view.run, view'.files = view.files, view'.empty = view.empty,
           \/ view'.banner = view.banner
           \/ view'.banner.of = 0,
           view'.busy => view.busy
    PROVE  ReviewInv'
<1>1. ~stray' /\ stray' \in BOOLEAN
  BY NoStray DEF ReviewInv, ReviewTyped, Review!Redraw
<1>2. ReviewTyped'
  BY <1>1 DEF ReviewInv, ReviewTyped, Views, Banners, Verifies, Review!Heights, Review!Slots
<1>3. Review!VerdictNotNewer'
  BY DEF ReviewInv, ReviewTyped, Views, Review!VerdictNotNewer
<1>4. Review!BusyIsPending'
  BY DEF ReviewInv, Review!BusyIsPending, Review!Idle, Review!Slots
<1>5. InPatch(view)'
  OBVIOUS
<1> QED
  BY <1>1, <1>2, <1>3, <1>4, <1>5 DEF ReviewInv, ReviewConstants, Review!Normal, Review!Owned

LEMMA KeyKeeps ==
    ASSUME ReviewInv, Review!ViewerKey
    PROVE  ReviewInv'
<1>0. /\ screen = "viewer" /\ UNCHANGED <<screen, terminal, height, disk, verifies>> /\ Review!Redraw
      /\ view \in Views /\ InPatch(view) /\ (view.files = 0 => view.empty) /\ ReviewConstants
  BY DEF ReviewInv, ReviewTyped, Review!ViewerKey
<1>1. CASE view' = [view EXCEPT !.banner = Review!NoBanner]
  <2>1. /\ view' \in Views /\ view'.run = view.run /\ view'.files = view.files /\ view'.empty = view.empty
        /\ view'.banner.of = 0 /\ view'.busy = view.busy /\ view'.selected = view.selected /\ view'.scroll = view.scroll
    <3>1. view' = [view EXCEPT !.banner = [up |-> FALSE, of |-> 0]]
      BY <1>1 DEF Review!NoBanner
    <3>2. view.busy \in BOOLEAN /\ 0 \in 0 .. MaxRuns /\ FALSE \in BOOLEAN
      BY <1>0 DEF Views, ReviewConstants
    <3>3. view' = Bannered(view, FALSE, 0, view.busy)
      BY <1>0, <3>1 DEF Views, Bannered
    <3>6. view \in Views
      BY <1>0
    <3>4. IsBannered(Bannered(view, FALSE, 0, view.busy), view, 0, view.busy)
      BY ONLY <3>2, <3>6, BanneredIs, Zenon
    <3>5. IsBannered(view', view, 0, view.busy)
      BY ONLY <3>3, <3>4, Zenon
    <3> QED
      BY ONLY <3>5, Zenon DEF IsBannered
  <2>2. InPatch(view')
    BY <1>0, <2>1, Zenon DEF InPatch
  <2> QED
    BY <1>0, <2>1, <2>2, ReaderKeeps
<1>2. ASSUME NEW move \in Review!Moves, view' = Review!Reduce(move)
      PROVE  ReviewInv'
  <2>1. /\ view' \in Views /\ InPatch(view') /\ view'.run = view.run /\ view'.banner = view.banner
        /\ view'.busy = view.busy /\ view'.files = view.files /\ view'.empty = view.empty
    BY <1>0, <1>2, ReduceInPatch
  <2> QED
    BY <1>0, <2>1, ReaderKeeps
<1>3. CASE view' = [view EXCEPT !.banner = [up |-> TRUE, of |-> 0], !.busy = FALSE]
  <2>1. /\ view' \in Views /\ view'.run = view.run /\ view'.files = view.files /\ view'.empty = view.empty
        /\ view'.banner.of = 0 /\ ~view'.busy /\ view'.selected = view.selected /\ view'.scroll = view.scroll
    <3>1. view' = Bannered(view, TRUE, 0, FALSE)
      BY <1>3, Zenon DEF Bannered
    <3>2. 0 \in 0 .. MaxRuns /\ FALSE \in BOOLEAN /\ TRUE \in BOOLEAN
      BY <1>0 DEF ReviewConstants
    <3>3. view \in Views
      BY <1>0
    <3>4. IsBannered(Bannered(view, TRUE, 0, FALSE), view, 0, FALSE)
      BY ONLY <3>2, <3>3, BanneredIs, Zenon
    <3>5. IsBannered(view', view, 0, FALSE)
      BY ONLY <3>1, <3>4, Zenon
    <3> QED
      BY ONLY <3>5, Zenon DEF IsBannered
  <2>2. InPatch(view')
    BY <1>0, <2>1, Zenon DEF InPatch
  <2> QED
    BY <1>0, <2>1, <2>2, ReaderKeeps
<1> QED
  BY <1>1, <1>2, <1>3, Zenon DEF Review!ViewerKey

\* The screens open and close.
LEMMA ScreensKeep ==
    ASSUME ReviewInv, Review!Open \/ Review!OpenPicker \/ Review!PickerKey \/ Review!Leave \/ Review!Terminated
    PROVE  ReviewInv'
<1>0. ReviewConstants /\ ReviewTyped /\ UNCHANGED <<height, disk, verifies, stray>>
  BY DEF ReviewInv, Review!Open, Review!OpenPicker, Review!PickerKey, Review!Leave, Review!Terminated
<1>1. CASE Review!Open /\ disk.plan
  <2>1. /\ screen' = "viewer" /\ terminal' = Review!Owned /\ view' = Review!InitReviewState
    BY <1>1 DEF Review!Open
  <2>2. /\ view' \in Views /\ view'.run = disk.run /\ view'.files = disk.files /\ view'.selected = 0 /\ view'.scroll = 0
        /\ ~view'.busy /\ view'.banner.of = 0 /\ view'.empty = (disk.files = 0)
    <3>1. view' = [run |-> disk.run, files |-> disk.files, selected |-> 0, scroll |-> 0, busy |-> FALSE,
                   banner |-> [up |-> FALSE, of |-> 0], empty |-> disk.files = 0]
      BY <2>1 DEF Review!InitReviewState, Review!NoView, Review!NoBanner
    <3>2. disk.run \in 0 .. MaxRuns /\ disk.files \in 0 .. 2 /\ 0 \in 0 .. MaxRuns
      BY <1>0 DEF ReviewTyped, ReviewConstants
    <3>3. (disk.files = 0) \in BOOLEAN /\ [up |-> FALSE, of |-> 0] \in Banners /\ [up |-> FALSE, of |-> 0].of = 0
      BY <3>2 DEF Banners
    <3>4. view' \in Views
      <4>1. 0 \in -1 .. 1 /\ 0 \in Nat /\ FALSE \in BOOLEAN
        OBVIOUS
      <4> QED
        BY <3>1, <3>2, <3>3, <4>1, Zenon DEF Views
    <3>5. view'.empty = (disk.files = 0) /\ ~view'.busy
      BY <3>1, Zenon
    <3> QED
      BY <3>1, <3>3, <3>4, <3>5
  <2>3. InPatch(view)'
    <3>1. disk.files \in 0 .. 2
      BY <1>0 DEF ReviewTyped
    <3>2. Review!Max({0, disk.files - 1}) = IF 0 <= disk.files - 1 THEN disk.files - 1 ELSE 0
      BY <3>1, GreatestOfTwo
    <3>3. RowsAt(disk.files, 0) \in Nat
      BY <1>0, <3>1, RowsTyped
    <3>4. InPatch(view')
      BY <2>2, <3>1, <3>2, <3>3 DEF InPatch
    <3> QED
      BY <3>4
  <2>4. ReviewTyped'
    BY <1>0, <2>1, <2>2 DEF ReviewTyped, Review!Owned
  <2>5. view'.run <= disk'.run
    BY <1>0, <2>2 DEF ReviewTyped
  <2> QED
    BY <1>0, <2>1, <2>2, <2>3, <2>4, <2>5 DEF ReviewInv, ReviewTyped, Views, ReviewConstants, Review!VerdictNotNewer, Review!BusyIsPending
<1>2. CASE ~(Review!Open /\ disk.plan)
  <2>0. UNCHANGED view
    BY <1>2 DEF Review!Open, Review!OpenPicker, Review!PickerKey, Review!Leave, Review!Terminated
  <2>1. screen' \in {"picker", "opening", "left", "signalled"} /\ terminal' = IF screen' = "picker" THEN Review!Owned ELSE Review!Normal
    BY <1>2 DEF ReviewInv, Review!Open, Review!OpenPicker, Review!PickerKey, Review!Leave, Review!Terminated
  <2>2. ReviewTyped'
    BY <1>0, <2>0, <2>1 DEF ReviewTyped, Review!Owned, Review!Normal
  <2>3. InPatch(view)'
    BY <2>0 DEF ReviewInv
  <2> QED
    BY <1>0, <2>0, <2>1, <2>2, <2>3 DEF ReviewInv, ReviewConstants, Review!VerdictNotNewer, Review!BusyIsPending
<1> QED
  BY <1>1, <1>2 DEF Review!Open, Review!OpenPicker, Review!PickerKey, Review!Leave, Review!Terminated

\* A verification comes to its end, with the detail as it is read again.
LEMMA VerifyEnds ==
    ASSUME ReviewInv, NEW v \in Review!Slots, verifies' = [verifies EXCEPT ![v] = Review!Idle],
           UNCHANGED <<screen, terminal, height, disk>>, Review!Redraw,
           view' \in Views, InPatch(view'), ~view'.busy,
           view'.run \in {view.run, disk.run}, view'.files = 0 => view'.empty \/ screen # "viewer",
           view'.banner.of <= view'.run \/ ~disk.plan
    PROVE  ReviewInv'
<1>1. ~stray' /\ stray' \in BOOLEAN
  BY NoStray DEF ReviewInv, ReviewTyped, Review!Redraw
<1>2. verifies' \in [Review!Slots -> Verifies] /\ \A w \in Review!Slots : verifies'[w].of <= disk'.run
  BY DEF ReviewInv, ReviewTyped, ReviewConstants, Verifies, Review!Idle
<1>3. ReviewTyped'
  BY <1>1, <1>2 DEF ReviewInv, ReviewTyped
<1>4. view'.run <= disk'.run
  BY DEF ReviewInv, ReviewTyped
<1>5. Review!VerdictNotNewer'
  BY DEF ReviewInv, ReviewTyped, Views, Banners, Review!VerdictNotNewer
<1>6. InPatch(view)'
  OBVIOUS
<1> QED
  BY <1>1, <1>2, <1>3, <1>4, <1>5, <1>6 DEF ReviewInv, ReviewConstants, Review!BusyIsPending, Review!Normal, Review!Owned

LEMMA LoadedKeeps ==
    ASSUME ReviewInv, NEW v \in Review!Slots, verifies[v].stage = "loading",
           verifies' = [verifies EXCEPT ![v] = Review!Idle],
           view' = [(IF disk.plan THEN Review!RefreshDetail(view) ELSE view)
                        EXCEPT !.banner = [up |-> TRUE, of |-> verifies[v].of], !.busy = FALSE],
           UNCHANGED <<screen, terminal, height, disk>>, Review!Redraw
    PROVE  ReviewInv'
<1>0. /\ ReviewConstants /\ view \in Views /\ InPatch(view) /\ view.run <= disk.run
      /\ disk.run \in 1 .. MaxRuns /\ disk.files \in 0 .. 2 /\ disk.plan \in BOOLEAN
      /\ verifies[v].of \in 0 .. MaxRuns /\ verifies[v].of <= disk.run
      /\ view.files \in 0 .. 2 /\ view.selected \in -1 .. 1
  BY DEF ReviewInv, ReviewTyped, Views, Verifies
<1>1. CASE ~disk.plan
  <2>1. /\ view' \in Views /\ view'.run = view.run /\ view'.files = view.files /\ view'.empty = view.empty
        /\ ~view'.busy /\ view'.selected = view.selected /\ view'.scroll = view.scroll
    <3>1. view' = Bannered(view, TRUE, verifies[v].of, FALSE)
      BY <1>1, Zenon DEF Bannered
    <3>2. TRUE \in BOOLEAN /\ FALSE \in BOOLEAN
      OBVIOUS
    <3>5. view \in Views /\ verifies[v].of \in 0 .. MaxRuns
      BY <1>0
    <3>3. IsBannered(Bannered(view, TRUE, verifies[v].of, FALSE), view, verifies[v].of, FALSE)
      BY ONLY <3>2, <3>5, BanneredIs, Zenon
    <3>4. IsBannered(view', view, verifies[v].of, FALSE)
      BY ONLY <3>1, <3>3, Zenon
    <3> QED
      BY ONLY <3>4, Zenon DEF IsBannered
  <2>2. InPatch(view')
    BY <1>0, <2>1, Zenon DEF InPatch
  <2>3. view'.files = 0 => view'.empty \/ screen # "viewer"
    BY <2>1 DEF ReviewInv
  <2> QED
    BY <1>1, <2>1, <2>2, <2>3, VerifyEnds
<1>2. CASE disk.plan
  <2> DEFINE last == Review!Max({0, disk.files - 1})
             here == Review!Min({view.selected, last})
  <2>1. last = IF 0 <= disk.files - 1 THEN disk.files - 1 ELSE 0
    BY <1>0, GreatestOfTwo
  <2>2. here = IF view.selected <= last THEN view.selected ELSE last
    <3>1. view.selected \in Int /\ last \in Int
      BY <1>0, <2>1
    <3> HIDE DEF last
    <3> QED
      BY <3>1, LeastOfTwo
  <2>3. here \in -1 .. 1 /\ here <= last /\ (here < 0 => view.selected < 0)
    BY <1>0, <2>1, <2>2
  <2> HIDE DEF here, last
  <2>4. Review!RefreshDetail(view) = [view EXCEPT !.run = disk.run, !.files = disk.files, !.selected = here,
                                                  !.scroll = 0, !.empty = @ \/ disk.files = 0]
    BY DEF Review!RefreshDetail, here, last
  <2>5. /\ view' \in Views /\ view'.run = disk.run /\ view'.files = disk.files
        /\ view'.empty = (view.empty \/ disk.files = 0)
        /\ ~view'.busy /\ view'.selected = here /\ view'.scroll = 0 /\ view'.banner.of = verifies[v].of
    <3> DEFINE st == [view EXCEPT !.run = disk.run, !.files = disk.files, !.selected = here,
                              !.scroll = 0, !.empty = @ \/ disk.files = 0]
    <3>1. view' = Bannered(st, TRUE, verifies[v].of, FALSE)
      BY <1>2, <2>4, Zenon DEF Bannered
    <3>2. DOMAIN view = {"run", "files", "selected", "scroll", "busy", "banner", "empty"}
      BY <1>0 DEF Views
    <3>3. (view.empty \/ disk.files = 0) \in BOOLEAN /\ disk.run \in 0 .. MaxRuns
      BY <1>0
    <3>4. st.empty = (view.empty \/ disk.files = 0)
      BY <3>2, Zenon
    <3>5. st \in Views
      BY <1>0, <2>3, <3>3 DEF Views
    <3>6. st.run = disk.run /\ st.files = disk.files /\ st.selected = here /\ st.scroll = 0
      BY <3>2
    <3> HIDE DEF st
    <3>7. TRUE \in BOOLEAN /\ FALSE \in BOOLEAN
      OBVIOUS
    <3>8. /\ view' \in Views /\ view'.run = st.run /\ view'.files = st.files /\ view'.empty = st.empty
          /\ view'.busy = FALSE /\ view'.selected = st.selected /\ view'.scroll = st.scroll /\ view'.banner.of = verifies[v].of
      <4>3. verifies[v].of \in 0 .. MaxRuns
        BY <1>0
      <4>1. IsBannered(Bannered(st, TRUE, verifies[v].of, FALSE), st, verifies[v].of, FALSE)
        BY ONLY <3>5, <3>7, <4>3, BanneredIs, Zenon
      <4>2. IsBannered(view', st, verifies[v].of, FALSE)
        BY ONLY <3>1, <4>1, Zenon
      <4> QED
        BY ONLY <4>2, Zenon DEF IsBannered
    <3> QED
      BY <3>4, <3>6, <3>8, Zenon
  <2>6. RowsAt(disk.files, here) \in Nat
    BY <1>0, <2>3, RowsTyped
  <2>7. here < 0 => view.empty
    BY <1>0, <2>3 DEF InPatch
  <2>8. InPatch(view')
    BY <2>3, <2>5, <2>6, <2>7 DEF InPatch, last
  <2> QED
    BY <1>0, <2>5, <2>8, VerifyEnds
<1> QED
  BY <1>0, <1>1, <1>2

LEMMA FailsKeeps ==
    ASSUME ReviewInv, Review!VerifyFails
    PROVE  ReviewInv'
<1>1. PICK v \in Review!Slots :
        /\ verifies' = [verifies EXCEPT ![v] = Review!Idle]
        /\ view' = [view EXCEPT !.banner = [up |-> TRUE, of |-> 0], !.busy = FALSE]
        /\ UNCHANGED <<screen, terminal, height, disk>> /\ Review!Redraw
  BY Zenon DEF Review!VerifyFails
<1>2. /\ ReviewConstants /\ view \in Views /\ InPatch(view)
  BY DEF ReviewInv, ReviewTyped
<1>3. /\ view' \in Views /\ view'.run = view.run /\ view'.files = view.files /\ view'.empty = view.empty
      /\ ~view'.busy /\ view'.selected = view.selected /\ view'.scroll = view.scroll /\ view'.banner.of = 0
      /\ view.run \in Nat
  <2>1. view' = Bannered(view, TRUE, 0, FALSE)
    BY <1>1, Zenon DEF Bannered
  <2>2. 0 \in 0 .. MaxRuns /\ view.run \in Nat /\ TRUE \in BOOLEAN /\ FALSE \in BOOLEAN
    BY <1>2 DEF Views, ReviewConstants
  <2>3. view \in Views
    BY <1>2
  <2>4. IsBannered(Bannered(view, TRUE, 0, FALSE), view, 0, FALSE)
    BY ONLY <2>2, <2>3, BanneredIs, Zenon
  <2>5. IsBannered(view', view, 0, FALSE)
    BY ONLY <2>1, <2>4, Zenon
  <2> QED
    BY ONLY <2>2, <2>5, Zenon DEF IsBannered
<1>4. InPatch(view')
  BY <1>2, <1>3, Zenon DEF InPatch
<1>5. view'.files = 0 => view'.empty \/ screen # "viewer"
  BY <1>3 DEF ReviewInv
<1>6. view'.banner.of <= view'.run
  BY <1>3
<1> QED
  BY <1>1, <1>3, <1>4, <1>5, <1>6, VerifyEnds

LEMMA ReviewStep ==
    ASSUME ReviewInv, [Review!Next]_(Review!reviewVars)
    PROVE  ReviewInv'
<1>0. ReviewConstants /\ ReviewTyped
  BY DEF ReviewInv
<1>1. CASE Review!Resize
  <2>1. ~stray' /\ stray' \in BOOLEAN
    BY <1>1, NoStray DEF Review!Resize, ReviewInv, ReviewTyped, Review!Redraw
  <2>2. ReviewTyped'
    BY <1>0, <1>1, <2>1 DEF Review!Resize, ReviewTyped
  <2>3. InPatch(view)'
    BY <1>1 DEF ReviewInv, Review!Resize
  <2> QED
    BY <1>1, <2>1, <2>2, <2>3 DEF Review!Resize, ReviewInv, ReviewConstants, Review!VerdictNotNewer, Review!BusyIsPending
<1>2. CASE Review!StartVerify
  <2>1. PICK v \in Review!Slots :
          /\ screen = "viewer" /\ verifies' = [verifies EXCEPT ![v] = [stage |-> "validating", of |-> 0]]
          /\ view' = [view EXCEPT !.busy = TRUE]
          /\ UNCHANGED <<screen, terminal, height, disk>> /\ Review!Redraw
    BY <1>2, Zenon DEF Review!StartVerify
  <2>2. ~stray' /\ stray' \in BOOLEAN
    BY <2>1, NoStray DEF ReviewInv, ReviewTyped, Review!Redraw
  <2>3. /\ view' \in Views /\ view'.run = view.run /\ view'.files = view.files /\ view'.empty = view.empty
        /\ view'.selected = view.selected /\ view'.scroll = view.scroll /\ view'.banner = view.banner
    BY <1>0, <2>1 DEF ReviewTyped, Views
  <2>4. verifies' \in [Review!Slots -> Verifies] /\ verifies'[v] # Review!Idle /\ \A w \in Review!Slots : verifies'[w].of <= disk'.run
    BY <1>0, <2>1 DEF ReviewInv, ReviewTyped, ReviewConstants, Verifies, Review!Idle
  <2>5. InPatch(view)'
    BY <2>3, Zenon DEF ReviewInv, InPatch
  <2>6. ReviewTyped'
    BY <1>0, <2>1, <2>2, <2>3, <2>4 DEF ReviewTyped
  <2> QED
    BY <2>1, <2>2, <2>3, <2>4, <2>5, <2>6 DEF ReviewInv, ReviewConstants, Review!VerdictNotNewer, Review!BusyIsPending,
                                               Review!Owned, Review!Normal
<1>3. CASE Review!Validated
  <2>1. PICK v \in Review!Slots :
          /\ verifies' = [verifies EXCEPT ![v] = [stage |-> "loading", of |-> disk.run]]
          /\ UNCHANGED <<screen, terminal, height, disk, view, stray>>
    BY <1>3, Zenon DEF Review!Validated
  <2>2. verifies' \in [Review!Slots -> Verifies] /\ verifies'[v] # Review!Idle /\ \A w \in Review!Slots : verifies'[w].of <= disk'.run
    BY <1>0, <2>1 DEF ReviewInv, ReviewTyped, ReviewConstants, Verifies, Review!Idle
  <2>3. ReviewTyped'
    BY <1>0, <2>1, <2>2 DEF ReviewTyped
  <2>4. InPatch(view)'
    BY <2>1 DEF ReviewInv
  <2> QED
    BY <2>1, <2>2, <2>3, <2>4 DEF ReviewInv, ReviewConstants, Review!VerdictNotNewer, Review!BusyIsPending
<1>4. CASE Review!Loaded
  BY <1>4, LoadedKeeps, Zenon DEF Review!Loaded
<1>5. CASE Review!DiskChanges
  <2>1. /\ UNCHANGED <<screen, terminal, height, view, verifies, stray>>
        /\ disk' \in [run : 1 .. MaxRuns, files : 0 .. 2, plan : BOOLEAN]
        /\ disk'.run >= disk.run /\ (disk'.plan => disk.plan)
    <3>1. UNCHANGED <<screen, terminal, height, view, verifies, stray>> /\ disk.plan
      BY <1>5 DEF Review!DiskChanges
    <3>2. disk.run \in 1 .. MaxRuns /\ disk.files \in 0 .. 2 /\ MaxRuns \in Nat
      BY <1>0 DEF ReviewTyped, ReviewConstants
    <3>3. ASSUME disk.run < MaxRuns, NEW n \in 0 .. 2, disk' = [disk EXCEPT !.run = @ + 1, !.files = n]
          PROVE  disk' \in [run : 1 .. MaxRuns, files : 0 .. 2, plan : BOOLEAN] /\ disk'.run >= disk.run
      <4>1. disk' = [run |-> disk.run + 1, files |-> n, plan |-> disk.plan] /\ disk.plan \in BOOLEAN
        BY <1>0, <3>3 DEF ReviewTyped
      <4>2. disk.run + 1 \in 1 .. MaxRuns /\ disk.run + 1 >= disk.run
        BY <3>2, <3>3
      <4>3. disk'.run = disk.run + 1
        BY <4>1
      <4>4. disk' \in [run : 1 .. MaxRuns, files : 0 .. 2, plan : BOOLEAN]
        BY <4>1, <4>2, Zenon
      <4> QED
        BY <4>2, <4>3, <4>4
    <3>4. ASSUME disk' = [disk EXCEPT !.plan = FALSE]
          PROVE  disk' \in [run : 1 .. MaxRuns, files : 0 .. 2, plan : BOOLEAN] /\ disk'.run >= disk.run
      <4>1. disk' = [run |-> disk.run, files |-> disk.files, plan |-> FALSE]
        BY <1>0, <3>4 DEF ReviewTyped
      <4>2. FALSE \in BOOLEAN
        OBVIOUS
      <4>3. disk' \in [run : 1 .. MaxRuns, files : 0 .. 2, plan : BOOLEAN]
        BY <3>2, <4>1, <4>2, Zenon
      <4>4. disk'.run = disk.run
        BY <4>1
      <4> QED
        BY <3>2, <4>3, <4>4
    <3>5. disk' \in [run : 1 .. MaxRuns, files : 0 .. 2, plan : BOOLEAN] /\ disk'.run >= disk.run
      BY <1>5, <3>3, <3>4, Zenon DEF Review!DiskChanges
    <3> QED
      BY <3>1, <3>5
  <2>2. ReviewTyped'
    BY <1>0, <2>1 DEF ReviewTyped
  <2>3. InPatch(view)'
    BY <2>1 DEF ReviewInv
  <2>4. view'.run <= disk'.run /\ \A v \in Review!Slots : verifies'[v].of <= disk'.run
    BY <1>0, <2>1 DEF ReviewInv, ReviewTyped, Views, Verifies
  <2> QED
    BY <2>1, <2>2, <2>3, <2>4 DEF ReviewInv, ReviewConstants, Review!VerdictNotNewer, Review!BusyIsPending
<1>6. CASE UNCHANGED Review!reviewVars
  <2>1. InPatch(view)'
    BY <1>6 DEF ReviewInv, Review!reviewVars
  <2> QED
    BY <1>6, <2>1 DEF ReviewInv, ReviewTyped, ReviewConstants, Review!reviewVars, Review!VerdictNotNewer, Review!BusyIsPending
<1> QED
  BY <1>1, <1>2, <1>3, <1>4, <1>5, <1>6, KeyKeeps, ScreensKeep, FailsKeeps, Zenon DEF Review!Next, Review!Gone

-----------------------------------------------------------------------------
(* The input line (TuiComposer)                                            *)

\* A set of numbers has a least one.
LEMMA LeastNumber ==
    ASSUME NEW S \in SUBSET Nat, S # {}
    PROVE  \E i \in S : \A j \in S : i <= j
<1> DEFINE R == {ss \in Nat \X Nat : ss[1] < ss[2]}
<1>1. IsWellFoundedOn(R, Nat)
  BY NatLessThanWellFounded, Zenon DEF OpToRel
<1> HIDE DEF R
<1>2. PICK i \in S : \A j \in S : ~(<<j, i>> \in R)
  BY <1>1, WFMin
<1>3. \A j \in S : ~(j < i)
  BY <1>2 DEF R
<1> QED
  BY <1>3

Chars == {"/", "@", "a", "b", "space"}

LEMMA NamesAre == \A n \in Names : n \in Seq(Chars) /\ Len(n) \in {1, 2}
<1>1. <<"a">> \in Seq(Chars) /\ <<"b">> \in Seq(Chars) /\ <<"a", "b">> \in Seq(Chars)
  <2>1. "a" \in Chars /\ "b" \in Chars
    BY DEF Chars
  <2> QED
    BY <2>1
<1>2. Len(<<"a">>) = 1 /\ Len(<<"b">>) = 1 /\ Len(<<"a", "b">>) = 2
  OBVIOUS
<1>3. \A n \in Names : n = <<"a">> \/ n = <<"b">> \/ n = <<"a", "b">>
  BY DEF Names
<1> QED
  BY <1>1, <1>2, <1>3

\* The listing of the names in a set: the recursion has a solution, because a
\* set of three names is empty after three.
ListStep(g) ==
    [S \in SUBSET Names |-> IF S = {} THEN <<>> ELSE <<Line!Shortest(S)>> \o g[S \ {Line!Shortest(S)}]]

LEMMA ShortestIn ==
    ASSUME NEW S \in SUBSET Names, S # {}
    PROVE  Line!Shortest(S) \in S
<1>1. \E x \in S : \A y \in S : Len(x) <= Len(y)
  <2>1. \A x \in S : Len(x) \in {1, 2}
    BY NamesAre
  <2> HIDE DEF Names
  <2>2. CASE \E x \in S : Len(x) = 1
    BY <2>1, <2>2
  <2>3. CASE ~\E x \in S : Len(x) = 1
    BY <2>1, <2>3
  <2> QED
    BY <2>2, <2>3
<1> QED
  BY <1>1, Zenon DEF Line!Shortest

LEMMA NamesShrink ==
    ASSUME NEW S \in SUBSET Names, S # {}
    PROVE  /\ S \ {Line!Shortest(S)} \in SUBSET Names
           /\ IsFiniteSet(S) /\ Cardinality(S) \in 1 .. 3
           /\ Cardinality(S \ {Line!Shortest(S)}) = Cardinality(S) - 1
<1>1. IsFiniteSet(Names) /\ Cardinality(Names) \in Nat /\ Cardinality(Names) <= 3
  <2> DEFINE f == [i \in 1 .. 3 |-> IF i = 1 THEN <<"a">> ELSE IF i = 2 THEN <<"b">> ELSE <<"a", "b">>]
  <2>1. f \in Surjection(1 .. 3, Names)
    <3>1. f \in [1 .. 3 -> Names]
      BY DEF Names
    <3>2. \A n \in Names : \E i \in 1 .. 3 : f[i] = n
      <4>1. f[1] = <<"a">> /\ f[2] = <<"b">> /\ f[3] = <<"a", "b">>
        OBVIOUS
      <4> HIDE DEF f
      <4> QED
        BY <4>1 DEF Names
    <3> HIDE DEF f
    <3> QED
      BY <3>1, <3>2 DEF Surjection
  <2>2. IsFiniteSet(1 .. 3) /\ Cardinality(1 .. 3) = 3
    <3>1. 1 \in Int /\ 3 \in Int
      OBVIOUS
    <3>2. IsFiniteSet(1 .. 3) /\ Cardinality(1 .. 3) = IF 1 > 3 THEN 0 ELSE 3 - 1 + 1
      BY <3>1, FS_Interval, Zenon
    <3> QED
      BY <3>2
  <2>3. IsFiniteSet(Names) /\ Cardinality(Names) <= Cardinality(1 .. 3)
    BY <2>1, <2>2, FS_Surjection, Zenon
  <2> QED
    BY <2>2, <2>3, FS_CardinalityType
<1>2. IsFiniteSet(S) /\ Cardinality(S) <= Cardinality(Names) /\ Cardinality(S) \in Nat
  BY <1>1, FS_Subset, FS_CardinalityType
<1>3. Cardinality(S) # 0
  BY <1>2, FS_EmptySet
<1>4. Cardinality(S \ {Line!Shortest(S)}) = Cardinality(S) - 1
  BY <1>2, ShortestIn, FS_RemoveElement
<1> QED
  BY <1>1, <1>2, <1>3, <1>4

LEMMA ListingExists == \E g : g = ListStep(g)
<1> DEFINE g0 == [S \in SUBSET Names |-> <<>>]
           g1 == ListStep(g0)
           g2 == ListStep(g1)
           g3 == ListStep(g2)
           g4 == ListStep(g3)
           left(S) == S \ {Line!Shortest(S)}
<1>1. ASSUME NEW g, NEW h, NEW k \in Nat,
             \A S \in SUBSET Names : Cardinality(S) <= k => g[S] = h[S]
      PROVE  \A S \in SUBSET Names : Cardinality(S) <= k + 1 => ListStep(g)[S] = ListStep(h)[S]
  <2> SUFFICES ASSUME NEW S \in SUBSET Names, Cardinality(S) <= k + 1 PROVE ListStep(g)[S] = ListStep(h)[S]
    OBVIOUS
  <2>1. CASE S = {}
    BY <2>1, Zenon DEF ListStep
  <2>2. CASE S # {}
    <3>1. left(S) \in SUBSET Names /\ Cardinality(left(S)) <= k
      BY <2>2, NamesShrink
    <3>2. g[left(S)] = h[left(S)]
      BY <1>1, <3>1
    <3> QED
      BY <2>2, <3>2, Zenon DEF ListStep
  <2> QED
    BY <2>1, <2>2
<1> HIDE DEF left
<1>2. \A S \in SUBSET Names : Cardinality(S) <= 0 => g0[S] = g1[S]
  <2> SUFFICES ASSUME NEW S \in SUBSET Names, Cardinality(S) <= 0 PROVE g0[S] = g1[S]
    OBVIOUS
  <2>1. S = {}
    <3>1. S # {} => Cardinality(S) \in 1 .. 3
      BY NamesShrink, Zenon
    <3> QED
      BY <3>1
  <2> QED
    BY <2>1, Zenon DEF ListStep
<1> HIDE DEF g0
<1>3. \A S \in SUBSET Names : Cardinality(S) <= 0 + 1 => g1[S] = g2[S]
  BY <1>1, <1>2
<1> HIDE DEF g1
<1>4. \A S \in SUBSET Names : Cardinality(S) <= 1 + 1 => g2[S] = g3[S]
  <2>1. \A S \in SUBSET Names : Cardinality(S) <= 1 => g1[S] = g2[S]
    BY <1>3
  <2> QED
    BY <1>1, <2>1
<1> HIDE DEF g2
<1>5. \A S \in SUBSET Names : Cardinality(S) <= 2 + 1 => g3[S] = g4[S]
  <2>1. \A S \in SUBSET Names : Cardinality(S) <= 2 => g2[S] = g3[S]
    BY <1>4
  <2> QED
    BY <1>1, <2>1
<1>6. \A S \in SUBSET Names : Cardinality(S) <= 3
  <2> SUFFICES ASSUME NEW S \in SUBSET Names PROVE Cardinality(S) <= 3
    OBVIOUS
  <2>1. CASE S = {}
    BY <2>1, FS_EmptySet
  <2>2. CASE S # {}
    <3>1. Cardinality(S) \in 1 .. 3
      BY <2>2, NamesShrink, Zenon
    <3> QED
      BY <3>1
  <2> QED
    BY <2>1, <2>2
<1>7. \A S \in SUBSET Names : g3[S] = g4[S]
  BY <1>5, <1>6
<1>8. g3 = [S \in SUBSET Names |-> g3[S]] /\ g4 = [S \in SUBSET Names |-> g4[S]]
  BY Zenon DEF ListStep
<1> HIDE DEF g3
<1>9. g4 = ListStep(g3)
  BY Zenon
<1> HIDE DEF g4
<1>10. g3 = g4
  BY <1>7, <1>8
<1> QED
  BY <1>9, <1>10, Zenon

LEMMA ListingIs == Line!Listing = ListStep(Line!Listing)
<1>1. Line!Listing = CHOOSE g : g = ListStep(g)
  BY Zenon DEF Line!Listing, ListStep
<1> QED
  BY <1>1, ListingExists, Zenon

\* A listing lists names of its set.
LEMMA ListedTyped ==
    ASSUME NEW S \in SUBSET Names
    PROVE  Line!Listed(S) \in Seq(S)
<1> DEFINE L == Line!Listing
<1>1. ASSUME NEW T \in SUBSET Names, T # {}, L[T \ {Line!Shortest(T)}] \in Seq(T \ {Line!Shortest(T)})
      PROVE  L[T] \in Seq(T)
  <2>1. L[T] = <<Line!Shortest(T)>> \o L[T \ {Line!Shortest(T)}]
    BY <1>1, ListingIs, Zenon DEF ListStep
  <2>2. Line!Shortest(T) \in T
    BY <1>1, ShortestIn
  <2> HIDE DEF L
  <2>3. L[T \ {Line!Shortest(T)}] \in Seq(T)
    BY <1>1
  <2> QED
    BY <2>1, <2>2, <2>3
<1>2. L[{}] \in Seq({})
  <2>1. L[{}] = <<>>
    BY ListingIs, Zenon DEF ListStep
  <2> QED
    BY <2>1
<1>3. ASSUME NEW k \in Nat, \A T \in SUBSET Names : Cardinality(T) <= k => L[T] \in Seq(T)
      PROVE  \A T \in SUBSET Names : Cardinality(T) <= k + 1 => L[T] \in Seq(T)
  <2> SUFFICES ASSUME NEW T \in SUBSET Names, Cardinality(T) <= k + 1 PROVE L[T] \in Seq(T)
    OBVIOUS
  <2>1. CASE T # {}
    <3>1. T \ {Line!Shortest(T)} \in SUBSET Names /\ Cardinality(T \ {Line!Shortest(T)}) = Cardinality(T) - 1
          /\ Cardinality(T) \in 1 .. 3
      BY <2>1, NamesShrink, Zenon
    <3>2. Cardinality(T \ {Line!Shortest(T)}) <= k
      BY <3>1
    <3> QED
      BY <1>1, <1>3, <2>1, <3>1, <3>2, Zenon
  <2> QED
    BY <1>2, <2>1, Zenon
<1>4. \A T \in SUBSET Names : Cardinality(T) <= 0 => L[T] \in Seq(T)
  <2> SUFFICES ASSUME NEW T \in SUBSET Names, Cardinality(T) <= 0 PROVE L[T] \in Seq(T)
    OBVIOUS
  <2>1. T # {} => Cardinality(T) \in 1 .. 3
    BY NamesShrink, Zenon
  <2>2. T = {}
    BY <2>1
  <2> QED
    BY <1>2, <2>2, Zenon
<1> HIDE DEF L
<1>5. \A T \in SUBSET Names : Cardinality(T) <= 1 => L[T] \in Seq(T)
  BY <1>3, <1>4
<1>6. \A T \in SUBSET Names : Cardinality(T) <= 2 => L[T] \in Seq(T)
  BY <1>3, <1>5
<1>7. \A T \in SUBSET Names : Cardinality(T) <= 3 => L[T] \in Seq(T)
  BY <1>3, <1>6
<1>8. Cardinality(S) <= 3
  <2>1. S # {} => Cardinality(S) \in 1 .. 3
    BY NamesShrink, Zenon
  <2>2. S = {} => Cardinality(S) = 0
    BY FS_EmptySet, Zenon
  <2> QED
    BY <2>1, <2>2
<1> QED
  BY <1>7, <1>8, Zenon DEF L, Line!Listed

-----------------------------------------------------------------------------
\* The dropdowns: the list fits the line, and the selection the list.
MenuFits(s, m) ==
    /\ m.list \in Seq(Names) /\ m.sel \in Nat
    /\ m.list = <<>> => m.sel = 0
    /\ m.list # <<>> =>
         /\ m.sel < Len(m.list)
         /\ s # <<>> /\ s[1] = "/" /\ ~Line!HasSpace(s)
         /\ \A i \in 1 .. Len(m.list) : Line!StartsWith(m.list[i], Tail(s))

CompleterFits(m) ==
    /\ m.list \in Seq(Names) /\ m.sel \in Int /\ m.sel >= -1
    /\ m.list = <<>> => m.sel <= 0
    /\ m.list # <<>> => m.sel < Len(m.list)

LEMMA ClosedFits == \A s : MenuFits(s, Line!Closed) /\ CompleterFits(Line!Closed)
  BY DEF MenuFits, CompleterFits, Line!Closed

LEMMA MenuForFits ==
    ASSUME NEW s \in Seq(Chars), NEW pick \in Nat
    PROVE  MenuFits(s, Line!MenuFor(s, pick))
<1> DEFINE S == {n \in Names : Line!StartsWith(n, Tail(s))}
           list == Line!Listed(S)
<1>1. CASE s = <<>> \/ s[1] # "/" \/ Line!HasSpace(s)
  BY <1>1, ClosedFits, Zenon DEF Line!MenuFor
<1>2. CASE ~(s = <<>> \/ s[1] # "/" \/ Line!HasSpace(s))
  <2>1. list \in Seq(S)
    BY ListedTyped
  <2>2. Line!MenuFor(s, pick) = [list |-> list, sel |-> IF list = <<>> THEN 0 ELSE Line!Least(pick, Len(list) - 1)]
    BY <1>2, Zenon DEF Line!MenuFor
  <2> HIDE DEF list
  <2>3. Len(list) \in Nat /\ (list # <<>> => Len(list) > 0) /\ \A i \in 1 .. Len(list) : list[i] \in S
    BY <2>1
  <2>4. list # <<>> => Line!Least(pick, Len(list) - 1) \in Nat /\ Line!Least(pick, Len(list) - 1) < Len(list)
    BY <2>3 DEF Line!Least
  <2>5. list \in Seq(Names)
    BY <2>1
  <2> DEFINE m == Line!MenuFor(s, pick)
  <2>6. m.list = list /\ m.sel = IF list = <<>> THEN 0 ELSE Line!Least(pick, Len(list) - 1)
    BY <2>2
  <2> HIDE DEF m
  <2>7. \A i \in 1 .. Len(list) : Line!StartsWith(list[i], Tail(s))
    BY <2>3
  <2> HIDE DEF S
  <2>8. m.sel \in Nat /\ (list = <<>> => m.sel = 0) /\ (list # <<>> => m.sel < Len(list))
    BY <2>4, <2>6
  <2>9. MenuFits(s, m)
    BY <1>2, <2>5, <2>6, <2>7, <2>8, Zenon DEF MenuFits
  <2> QED
    BY <2>9 DEF m
<1> QED
  BY <1>1, <1>2

LEMMA CompleterForFits ==
    ASSUME NEW s, NEW c, NEW pick \in Int, pick >= -1
    PROVE  CompleterFits(Line!CompleterFor(s, c, pick))
<1> DEFINE word == SubSeq(s, Line!TokenStart(s, c) + 1, c)
           S == {n \in Names : Line!Contains(n, word)}
           list == IF word = <<>> THEN <<>> ELSE Line!Listed(S)
<1>1. CASE Line!TokenStart(s, c) = 0
  BY <1>1, ClosedFits, Zenon DEF Line!CompleterFor
<1>2. CASE Line!TokenStart(s, c) # 0
  <2>1. list \in Seq(Names)
    <3>1. Line!Listed(S) \in Seq(S)
      BY ListedTyped
    <3>2. Line!Listed(S) \in Seq(Names)
      BY <3>1
    <3>3. <<>> \in Seq(Names)
      OBVIOUS
    <3> QED
      BY <3>2, <3>3, Zenon
  <2>2. Line!CompleterFor(s, c, pick) = [list |-> list, sel |-> Line!Least(pick, Len(list) - 1)]
    BY <1>2, Zenon DEF Line!CompleterFor
  <2> HIDE DEF list
  <2>3. Len(list) \in Nat /\ (list = <<>> => Len(list) = 0) /\ (list # <<>> => Len(list) > 0)
    BY <2>1
  <2> QED
    BY <2>1, <2>2, <2>3 DEF CompleterFits, Line!Least
<1> QED
  BY <1>1, <1>2

\* The word at the cursor starts within the line.
LEMMA TokenInLine ==
    ASSUME NEW s, NEW c \in Nat
    PROVE  Line!TokenStart(s, c) \in 0 .. c
<1> DEFINE S == {k \in 0 .. c : c - k = 0 \/ s[c - k] = Line!Space}
<1>1. \E i \in 0 .. c : (i = 0 \/ s[i] = Line!Space) /\ \A j \in i + 1 .. c : s[j] # Line!Space
  <2>1. S \in SUBSET Nat /\ c \in S
    OBVIOUS
  <2>2. PICK k \in S : \A j \in S : k <= j
    BY <2>1, LeastNumber
  <2>3. c - k \in 0 .. c /\ (c - k = 0 \/ s[c - k] = Line!Space)
    BY <2>1, <2>2
  <2>4. ASSUME NEW j \in c - k + 1 .. c, s[j] = Line!Space
        PROVE  FALSE
    <3>1. c - j \in 0 .. c /\ c - (c - j) = j /\ ~(k <= c - j)
      BY <2>1, <2>4
    <3>2. c - j \in S
      BY <2>4, <3>1
    <3> QED
      BY <2>2, <3>1, <3>2
  <2> QED
    BY <2>3, <2>4
<1> DEFINE start == CHOOSE i \in 0 .. c : (i = 0 \/ s[i] = Line!Space) /\ \A j \in i + 1 .. c : s[j] # Line!Space
<1>2. start \in 0 .. c
  BY <1>1, Zenon
<1>3. Line!TokenStart(s, c) = IF start < c /\ s[start + 1] = "@" THEN start + 1 ELSE 0
  BY Zenon DEF Line!TokenStart
<1> HIDE DEF start
<1> QED
  BY <1>2, <1>3

\* A line on which the menu is open has no word that starts with @.
LEMMA NoTokenInCommand ==
    ASSUME NEW s, NEW c \in Nat, s[1] = "/", \A j \in 1 .. c : s[j] # Line!Space
    PROVE  Line!TokenStart(s, c) = 0
<1> DEFINE P(i) == (i = 0 \/ s[i] = Line!Space) /\ \A j \in i + 1 .. c : s[j] # Line!Space
           start == CHOOSE i \in 0 .. c : P(i)
<1>1. P(0) /\ 0 \in 0 .. c
  OBVIOUS
<1>2. start \in 0 .. c /\ P(start)
  BY <1>1, Zenon
<1>3. Line!TokenStart(s, c) = IF start < c /\ s[start + 1] = "@" THEN start + 1 ELSE 0
  BY Zenon DEF Line!TokenStart
<1> HIDE DEF start
<1>4. start = 0
  BY <1>2
<1>5. s[start + 1] # "@"
  BY <1>4
<1> QED
  BY <1>3, <1>5

\* The invariant: the line the user made is shown while he is not in the history,
\* and is the draft while he is.
LineTyped ==
    /\ text \in Seq(Chars) /\ cursor \in 0 .. Len(text)
    /\ history \in Seq(Seq(Chars)) /\ histPos \in 0 .. Len(history)
    /\ draft \in Seq(Chars) /\ typed \in Seq(Chars)
    /\ search.hits \in 0 .. MaxHits /\ running \in BOOLEAN

Remembered == typed = IF histPos = Len(history) THEN text ELSE draft

LineInv ==
    /\ MaxHits \in Nat /\ LineTyped /\ MenuFits(text, menu) /\ CompleterFits(completer) /\ Remembered

LEMMA LineSuffices == LineInv => Line!ComposerSound
<1> SUFFICES ASSUME LineInv PROVE Line!ComposerSound
  OBVIOUS
<1>1. menu.sel \in 0 .. Len(menu.list)
  BY DEF LineInv, MenuFits
<1>2. completer.sel \in -1 .. Len(completer.list)
  BY DEF LineInv, CompleterFits
<1>3. Line!TypeOK
  BY <1>1, <1>2 DEF LineInv, LineTyped, Line!TypeOK
<1>4. Line!MenuFollowsLine
  <2> SUFFICES ASSUME menu.list # <<>>
               PROVE  /\ text # <<>> /\ text[1] = "/" /\ ~Line!HasSpace(text)
                      /\ menu.sel < Len(menu.list) /\ Line!StartsWith(menu.list[menu.sel + 1], Tail(text))
    BY Zenon DEF Line!MenuFollowsLine, Line!MenuOpen
  <2>1. menu.sel + 1 \in 1 .. Len(menu.list)
    BY DEF LineInv, MenuFits
  <2> QED
    BY <2>1, Zenon DEF LineInv, MenuFits
<1>5. Line!TypedIsKept
  BY DEF LineInv, Remembered, Line!TypedIsKept
<1> QED
  BY <1>3, <1>4, <1>5, Zenon DEF Line!ComposerSound

LEMMA LineBegins ==
    ASSUME MaxHits \in Nat, Line!Init
    PROVE  LineInv
<1>1. history \in Seq(Seq(Chars))
  <2>1. \A n \in Names : <<"/">> \o n \in Seq(Chars)
    <3>1. <<"/">> \in Seq(Chars)
      <4>1. "/" \in Chars
        BY DEF Chars
      <4> QED
        BY <4>1
    <3> QED
      BY <3>1, NamesAre, ConcatProperties, Zenon
  <2> HIDE DEF Chars
  <2>2. \A n \in Names : <<(<<"/">> \o n)>> \in Seq(Seq(Chars))
    BY <2>1
  <2>3. <<>> \in Seq(Seq(Chars))
    OBVIOUS
  <2> QED
    BY <2>2, <2>3, Zenon DEF Line!Init
<1>2. LineTyped
  <2>1. /\ text = <<>> /\ cursor = 0 /\ draft = <<>> /\ typed = <<>> /\ histPos = Len(history)
        /\ search.hits = 0 /\ running = FALSE
    BY DEF Line!Init, Line!NoSearch
  <2>2. <<>> \in Seq(Chars) /\ Len(<<>>) = 0
    OBVIOUS
  <2>3. Len(history) \in Nat
    BY <1>1
  <2>4. /\ text \in Seq(Chars) /\ draft \in Seq(Chars) /\ typed \in Seq(Chars)
        /\ cursor \in 0 .. Len(text)
    <3>1. 0 \in 0 .. 0
      OBVIOUS
    <3> QED
      BY <2>1, <2>2, <3>1, Zenon
  <2>6. running \in BOOLEAN
    BY <2>1, Zenon
  <2>5. histPos \in 0 .. Len(history) /\ search.hits \in 0 .. MaxHits
    BY <2>1, <2>3
  <2> QED
    BY <1>1, <2>4, <2>5, <2>6, Zenon DEF LineTyped
<1>3. MenuFits(text, menu) /\ CompleterFits(completer)
  BY ClosedFits, Zenon DEF Line!Init
<1>4. Remembered
  BY DEF Line!Init, Remembered
<1> QED
  BY <1>2, <1>3, <1>4 DEF LineInv

\* A step that leaves the search and the run, and syncs the menu.
LEMMA LineSynced ==
    ASSUME LineInv, text' \in Seq(Chars), cursor' \in 0 .. Len(text'),
           history' \in Seq(Seq(Chars)), histPos' \in 0 .. Len(history'), draft' \in Seq(Chars), typed' \in Seq(Chars),
           Remembered', Line!SyncMenu, UNCHANGED <<search, running>>,
           completer' = completer \/ Line!SyncCompleter
    PROVE  LineInv'
<1>1. MenuFits(text', menu')
  <2>1. menu.sel \in Nat
    BY DEF LineInv, MenuFits
  <2> QED
    BY <2>1, MenuForFits, Zenon DEF Line!SyncMenu
<1>2. CompleterFits(completer')
  <2>1. completer.sel \in Int /\ completer.sel >= -1
    BY DEF LineInv, CompleterFits
  <2> QED
    BY <2>1, CompleterForFits, Zenon DEF LineInv, Line!SyncCompleter
<1>3. LineTyped'
  BY DEF LineInv, LineTyped
<1> QED
  BY <1>1, <1>2, <1>3 DEF LineInv

\* Characters put into, and taken out of, a line.
LEMMA Spliced ==
    ASSUME NEW s \in Seq(Chars), NEW i \in 0 .. Len(s), NEW j \in 1 .. Len(s) + 1, NEW mid \in Seq(Chars)
    PROVE  /\ SubSeq(s, 1, i) \o mid \o SubSeq(s, j, Len(s)) \in Seq(Chars)
           /\ Len(SubSeq(s, 1, i) \o mid \o SubSeq(s, j, Len(s))) = i + Len(mid) + (Len(s) - j + 1)
<1> HIDE DEF Chars
<1>1. SubSeq(s, 1, i) \in Seq(Chars) /\ Len(SubSeq(s, 1, i)) = i
  BY SubSeqProperties
<1>2. SubSeq(s, j, Len(s)) \in Seq(Chars) /\ Len(SubSeq(s, j, Len(s))) = Len(s) - j + 1
  BY SubSeqProperties
<1>3. SubSeq(s, 1, i) \o mid \in Seq(Chars) /\ Len(SubSeq(s, 1, i) \o mid) = i + Len(mid)
  BY <1>1, ConcatProperties
<1> QED
  BY <1>2, <1>3, ConcatProperties

LEMMA EditKeeps ==
    ASSUME LineInv, Line!Insert \/ Line!Backspace
    PROVE  LineInv'
<1>0. /\ text \in Seq(Chars) /\ cursor \in 0 .. Len(text) /\ history \in Seq(Seq(Chars)) /\ Len(history) \in Nat
      /\ draft \in Seq(Chars)
  BY DEF LineInv, LineTyped
<1>1. ASSUME NEW s \in Seq(Chars), NEW c \in 0 .. Len(s), Line!Edits(s, c), Line!SyncMenu, Line!SyncCompleter, Line!Rest
      PROVE  LineInv'
  <2>1. /\ text' = s /\ cursor' = c /\ histPos' = Len(history) /\ typed' = s /\ history' = history /\ draft' = draft
    BY <1>1 DEF Line!Edits
  <2>2. Remembered'
    BY <2>1 DEF Remembered
  <2>3. UNCHANGED <<search, running>>
    BY <1>1, Zenon DEF Line!Rest
  <2>4. histPos' \in 0 .. Len(history')
    BY <1>0, <2>1
  <2> QED
    BY <1>0, <1>1, <2>1, <2>2, <2>3, <2>4, LineSynced
<1>2. CASE Line!Insert
  <2>1. PICK ch \in Typed :
          Line!Edits(SubSeq(text, 1, cursor) \o <<ch>> \o SubSeq(text, cursor + 1, Len(text)), cursor + 1)
    BY <1>2, Zenon DEF Line!Insert
  <2>2. Line!SyncMenu /\ Line!SyncCompleter /\ Line!Rest
    BY <1>2, Zenon DEF Line!Insert
  <2>3. <<ch>> \in Seq(Chars) /\ Len(<<ch>>) = 1
    <3>1. ch \in Chars
      BY DEF Typed, Chars
    <3> QED
      BY <3>1
  <2> DEFINE s == SubSeq(text, 1, cursor) \o <<ch>> \o SubSeq(text, cursor + 1, Len(text))
  <2>4. cursor + 1 \in 1 .. Len(text) + 1 /\ Len(text) \in Nat
    BY <1>0
  <2>5. s \in Seq(Chars) /\ Len(s) = cursor + Len(<<ch>>) + (Len(text) - (cursor + 1) + 1)
    BY <1>0, <2>3, <2>4, Spliced
  <2> HIDE DEF s
  <2>6. cursor + 1 \in 0 .. Len(s)
    BY <1>0, <2>3, <2>4, <2>5
  <2> QED
    BY <1>1, <2>1, <2>2, <2>5, <2>6 DEF s
<1>3. CASE Line!Backspace
  <2>1. /\ cursor > 0
        /\ Line!Edits(SubSeq(text, 1, cursor - 1) \o SubSeq(text, cursor + 1, Len(text)), cursor - 1)
        /\ Line!SyncMenu /\ Line!SyncCompleter /\ Line!Rest
    BY <1>3, Zenon DEF Line!Backspace
  <2> DEFINE s == SubSeq(text, 1, cursor - 1) \o SubSeq(text, cursor + 1, Len(text))
  <2>2. s \in Seq(Chars) /\ Len(s) = Len(text) - 1
    <3> HIDE DEF Chars
    <3>1. SubSeq(text, 1, cursor - 1) \in Seq(Chars) /\ Len(SubSeq(text, 1, cursor - 1)) = cursor - 1
      BY <1>0, <2>1, SubSeqProperties
    <3>2. SubSeq(text, cursor + 1, Len(text)) \in Seq(Chars) /\ Len(SubSeq(text, cursor + 1, Len(text))) = Len(text) - cursor
      BY <1>0, <2>1, SubSeqProperties
    <3>3. Len(text) \in Nat
      BY <1>0
    <3> QED
      BY <1>0, <3>1, <3>2, <3>3, ConcatProperties
  <2> HIDE DEF s
  <2>3. cursor - 1 \in 0 .. Len(s)
    BY <1>0, <2>1, <2>2
  <2> QED
    BY <1>1, <2>1, <2>2, <2>3 DEF s
<1> QED
  BY <1>2, <1>3

LEMMA HistoryKeeps ==
    ASSUME LineInv, Line!HistoryPrev \/ Line!HistoryNext
    PROVE  LineInv'
<1>0. /\ text \in Seq(Chars) /\ history \in Seq(Seq(Chars)) /\ Len(history) \in Nat /\ histPos \in 0 .. Len(history)
      /\ draft \in Seq(Chars) /\ typed \in Seq(Chars) /\ Remembered
  BY DEF LineInv, LineTyped
<1>1. Line!SyncMenu /\ UNCHANGED <<history, typed, completer, search, running>>
  BY DEF Line!HistoryPrev, Line!HistoryNext, Line!Rest
<1>2. ASSUME NEW s \in Seq(Chars), text' = s, cursor' = Len(s), histPos' \in 0 .. Len(history), draft' \in Seq(Chars), Remembered'
      PROVE  LineInv'
  <2>1. Len(s) \in Nat
    BY <1>2
  <2>2. cursor' \in 0 .. Len(text')
    BY <1>2, <2>1
  <2> QED
    BY <1>0, <1>1, <1>2, <2>2, LineSynced
<1>3. CASE Line!HistoryPrev
  <2> DEFINE pos == IF histPos = 0 THEN 0 ELSE histPos - 1
  <2>1. /\ history # <<>> /\ draft' = IF histPos = Len(history) THEN text ELSE draft
        /\ histPos' = pos /\ text' = history[pos + 1] /\ cursor' = Len(history[pos + 1])
    BY <1>3, Zenon DEF Line!HistoryPrev
  <2>2. Len(history) > 0
    BY <1>0, <2>1
  <2>3. pos + 1 \in 1 .. Len(history) /\ pos \in 0 .. Len(history) /\ pos # Len(history)
    BY <1>0, <2>2
  <2> HIDE DEF pos
  <2>4. history[pos + 1] \in Seq(Chars)
    BY <1>0, <2>3
  <2>5. draft' \in Seq(Chars) /\ draft' = typed
    BY <1>0, <2>1 DEF Remembered
  <2>6. Remembered'
    BY <1>1, <2>1, <2>3, <2>5 DEF Remembered
  <2> QED
    BY <1>2, <2>1, <2>3, <2>4, <2>5, <2>6
<1>4. CASE Line!HistoryNext
  <2> DEFINE line == IF histPos + 1 = Len(history) THEN draft ELSE history[histPos + 2]
  <2>1. /\ histPos < Len(history) /\ histPos' = histPos + 1 /\ text' = line /\ cursor' = Len(line) /\ draft' = draft
    BY <1>4 DEF Line!HistoryNext
  <2>2. line \in Seq(Chars)
    <3>1. histPos + 1 # Len(history) => histPos + 2 \in 1 .. Len(history)
      BY <1>0, <2>1
    <3> QED
      BY <1>0, <3>1
  <2>3. typed = draft
    BY <1>0, <2>1 DEF Remembered
  <2>4. Remembered'
    BY <1>1, <2>1, <2>3 DEF Remembered
  <2>5. histPos' \in 0 .. Len(history)
    BY <1>0, <2>1
  <2> HIDE DEF line
  <2> QED
    BY <1>0, <1>2, <2>1, <2>2, <2>4, <2>5
<1> QED
  BY <1>3, <1>4

\* The command that the menu highlights.
LEMMA CompletesTyped ==
    ASSUME LineInv, Line!MenuOpen
    PROVE  /\ Line!CompleteSelected \in Seq(Chars) /\ Line!HasSpace(Line!CompleteSelected)
           /\ Len(Line!CompleteSelected) \in Nat
<1> DEFINE name == menu.list[menu.sel + 1]
<1>1. name \in Names
  <2>1. menu.list \in Seq(Names) /\ menu.sel + 1 \in 1 .. Len(menu.list)
    BY DEF LineInv, MenuFits, Line!MenuOpen
  <2> HIDE DEF Names
  <2> QED
    BY <2>1
<1>2. name \in Seq(Chars) /\ Len(name) \in Nat
  BY <1>1, NamesAre
<1> HIDE DEF name
<1>3. <<"/">> \in Seq(Chars) /\ <<Line!Space>> \in Seq(Chars)
  <2>1. "/" \in Chars /\ Line!Space \in Chars
    BY DEF Chars, Line!Space
  <2> QED
    BY <2>1
<1>4. Line!CompleteSelected = <<"/">> \o name \o <<Line!Space>>
  BY Zenon DEF Line!CompleteSelected, name
<1> HIDE DEF Chars
<1>5. <<"/">> \o name \in Seq(Chars) /\ Len(<<"/">> \o name) = 1 + Len(name)
  BY <1>2, <1>3
<1> DEFINE s == <<"/">> \o name
<1> HIDE DEF s
<1>6. s \in Seq(Chars) /\ Len(s) \in Nat /\ Line!CompleteSelected = s \o <<Line!Space>>
  BY <1>2, <1>4, <1>5 DEF s
<1>7. Line!CompleteSelected \in Seq(Chars) /\ Len(Line!CompleteSelected) = Len(s) + 1
      /\ Line!CompleteSelected[Len(s) + 1] = Line!Space
  BY <1>3, <1>6
<1>8. Line!HasSpace(Line!CompleteSelected)
  <2>1. Len(s) + 1 \in 1 .. Len(Line!CompleteSelected)
    BY <1>6, <1>7
  <2> QED
    BY <1>7, <2>1, Zenon DEF Line!HasSpace
<1> QED
  BY <1>6, <1>7, <1>8

LEMMA CompleteKeeps ==
    ASSUME LineInv, Line!MenuOpen, Line!Complete, completer' = completer \/ Line!SyncCompleter
    PROVE  LineInv'
<1>0. /\ history \in Seq(Seq(Chars)) /\ histPos \in 0 .. Len(history) /\ draft \in Seq(Chars) /\ typed \in Seq(Chars) /\ Remembered
  BY DEF LineInv, LineTyped
<1>1. /\ text' = Line!CompleteSelected /\ cursor' = Len(Line!CompleteSelected)
      /\ UNCHANGED <<history, histPos, draft>> /\ typed' = IF histPos = Len(history) THEN text' ELSE typed
      /\ Line!SyncMenu /\ UNCHANGED <<search, running>>
  BY DEF Line!Complete, Line!Completes, Line!Rest
<1>2. text' \in Seq(Chars) /\ cursor' \in 0 .. Len(text')
  BY <1>1, CompletesTyped
<1>3. Remembered' /\ typed' \in Seq(Chars)
  BY <1>0, <1>1, <1>2 DEF Remembered
<1> QED
  BY <1>0, <1>1, <1>2, <1>3, LineSynced

\* A step of the dropdowns only.
LEMMA LineStands ==
    ASSUME LineInv, UNCHANGED <<text, history, histPos, draft, typed>>, cursor' \in 0 .. Len(text),
           MenuFits(text, menu'), CompleterFits(completer'), search'.hits \in 0 .. MaxHits, running' \in BOOLEAN
    PROVE  LineInv'
<1>1. LineTyped' /\ Remembered'
  BY DEF LineInv, LineTyped, Remembered
<1>2. MenuFits(text, menu)' /\ CompleterFits(completer)'
  BY Zenon
<1> QED
  BY <1>1, <1>2 DEF LineInv

\* The keys that move in the line and in the dropdowns.
LEMMA MovesKeep ==
    ASSUME LineInv, Line!MoveCursor \/ Line!MenuMove \/ Line!EscapeKey
    PROVE  LineInv'
<1>0. /\ text \in Seq(Chars) /\ cursor \in 0 .. Len(text) /\ MenuFits(text, menu) /\ CompleterFits(completer)
      /\ search.hits \in 0 .. MaxHits /\ running \in BOOLEAN
  BY DEF LineInv, LineTyped
<1>1. UNCHANGED <<text, history, histPos, draft, typed, search, running>>
  BY DEF Line!MoveCursor, Line!MenuMove, Line!EscapeKey, Line!Reads, Line!Rest
<1>2. CASE Line!MoveCursor
  <2>1. cursor' \in 0 .. Len(text) /\ UNCHANGED <<menu, completer>>
    BY <1>2 DEF Line!MoveCursor
  <2> QED
    BY <1>0, <1>1, <2>1, LineStands
<1>3. CASE Line!MenuMove
  <2>1. PICK to \in {menu.sel - 1, menu.sel + 1} \cap (0 .. Len(menu.list) - 1) : menu' = [menu EXCEPT !.sel = to]
    BY <1>3 DEF Line!MenuMove
  <2>2. menu.list # <<>> /\ cursor' = cursor /\ completer' = completer
    BY <1>3 DEF Line!MenuMove, Line!MenuOpen
  <2>3. menu.list \in Seq(Names) /\ Len(menu.list) \in Nat
    BY <1>0 DEF MenuFits
  <2>5. to \in Nat /\ to < Len(menu.list)
    BY <2>1, <2>3
  <2>6. DOMAIN menu' = DOMAIN menu /\ menu'.list = menu.list
    BY <2>1
  <2>7. menu'.sel = to \/ menu'.sel = menu.sel
    BY <2>1
  <2>8. menu.sel \in Nat /\ menu.sel < Len(menu.list)
    BY <1>0, <2>2 DEF MenuFits
  <2>9. menu'.sel \in Nat /\ menu'.sel < Len(menu'.list)
    BY <2>5, <2>6, <2>7, <2>8
  <2>10. MenuFits(text, menu')
    BY <1>0, <2>2, <2>6, <2>9, Zenon DEF MenuFits
  <2> QED
    BY <1>0, <1>1, <2>2, <2>10, LineStands
<1>4. CASE Line!EscapeKey
  <2>1. cursor' = cursor /\ (menu' = menu \/ menu' = Line!Closed) /\ (completer' = completer \/ completer' = Line!Closed)
    BY <1>4, Zenon DEF Line!EscapeKey
  <2>2. MenuFits(text, menu') /\ CompleterFits(completer')
    BY <1>0, <2>1, ClosedFits, Zenon
  <2> QED
    BY <1>0, <1>1, <2>1, <2>2, LineStands
<1> QED
  BY <1>2, <1>3, <1>4

LEMMA TabKeeps ==
    ASSUME LineInv, Line!TabKey
    PROVE  LineInv'
<1>0. /\ text \in Seq(Chars) /\ cursor \in 0 .. Len(text) /\ MenuFits(text, menu) /\ CompleterFits(completer)
      /\ search.hits \in 0 .. MaxHits /\ running \in BOOLEAN
  BY DEF LineInv, LineTyped
<1>1. CASE ~Line!Completing /\ Line!MenuOpen /\ Line!Complete /\ Line!SyncCompleter
  BY <1>1, CompleteKeeps
<1>2. CASE /\ Line!Completing
           /\ \E d \in {-1, 1} :
                completer' = [completer EXCEPT !.sel = (@ + d + Len(completer.list)) % Len(completer.list)]
           /\ Line!Reads /\ UNCHANGED <<text, cursor, menu>> /\ Line!Rest
  <2>1. PICK d \in {-1, 1} :
          completer' = [completer EXCEPT !.sel = (completer.sel + d + Len(completer.list)) % Len(completer.list)]
    BY <1>2
  <2>2. completer.list # <<>> /\ completer.list \in Seq(Names) /\ completer.sel \in Int
    BY <1>0, <1>2 DEF Line!Completing, CompleterFits
  <2>3. Len(completer.list) \in Nat /\ Len(completer.list) > 0
    BY <2>2
  <2> DEFINE n == Len(completer.list)
             to == (completer.sel + d + n) % n
  <2>4. to \in 0 .. n - 1
    <3>1. completer.sel + d + n \in Int /\ n \in Nat \ {0}
      BY <2>2, <2>3
    <3>2. \A x \in Int, k \in Nat \ {0} : x % k \in 0 .. k - 1
      OBVIOUS
    <3> QED
      BY <3>1, <3>2, Zenon
  <2>5. completer'.list = completer.list
    BY <2>1
  <2>6. completer'.sel = to \/ completer'.sel = completer.sel
    BY <2>1
  <2>7. completer.sel >= -1 /\ completer.sel < n
    BY <1>0, <2>2 DEF CompleterFits
  <2> HIDE DEF to
  <2>8. completer'.sel \in Int /\ completer'.sel >= -1 /\ completer'.sel < Len(completer'.list)
    BY <2>2, <2>3, <2>4, <2>5, <2>6, <2>7
  <2>9. CompleterFits(completer')
    BY <2>2, <2>5, <2>8, Zenon DEF CompleterFits
  <2>10. UNCHANGED <<text, cursor, menu, history, histPos, draft, typed, search, running>>
    BY <1>2 DEF Line!Reads, Line!Rest
  <2> QED
    BY <1>0, <2>9, <2>10, LineStands
<1> QED
  BY <1>1, <1>2, Zenon DEF Line!TabKey

\* Enter on the file dropdown: what the menu shows still belongs to the line,
\* because a command line that is being written has no word that starts with @.
LEMMA AcceptKeeps ==
    ASSUME LineInv, Line!Accept
    PROVE  LineInv'
<1>0. /\ text \in Seq(Chars) /\ cursor \in 0 .. Len(text) /\ MenuFits(text, menu) /\ CompleterFits(completer)
      /\ Len(text) \in Nat /\ cursor \in Nat
  BY DEF LineInv, LineTyped
<1> DEFINE start == Line!TokenStart(text, cursor)
           path == completer.list[completer.sel + 1]
           spliced == SubSeq(text, 1, start) \o path \o SubSeq(text, cursor + 1, Len(text))
<1>1. /\ completer' = Line!Closed
      /\ IF start > 0 /\ completer.sel >= 0 THEN text' = spliced /\ cursor' = start + Len(path) ELSE UNCHANGED <<text, cursor>>
      /\ Line!Completes /\ menu' = menu /\ Line!Rest
  BY Zenon DEF Line!Accept
<1>2. start \in 0 .. cursor
  BY <1>0, TokenInLine
<1> HIDE DEF start
<1>3. ASSUME start > 0, completer.sel >= 0
      PROVE  spliced \in Seq(Chars) /\ start + Len(path) \in 0 .. Len(spliced)
  <2>1. completer.list \in Seq(Names) /\ completer.sel + 1 \in 1 .. Len(completer.list)
    <3>1. completer.list # <<>> /\ completer.list \in Seq(Names) /\ completer.sel \in Int /\ completer.sel < Len(completer.list)
      BY <1>0, Zenon DEF Line!Accept, Line!Completing, CompleterFits
    <3>2. Len(completer.list) \in Nat
      BY <3>1
    <3> QED
      BY <1>3, <3>1, <3>2
  <2>2. path \in Names
    <3> HIDE DEF Names
    <3> QED
      BY <2>1
  <2> HIDE DEF path
  <2>3. path \in Seq(Chars) /\ Len(path) \in Nat
    BY <2>2, NamesAre
  <2>4. start \in 0 .. Len(text) /\ cursor + 1 \in 1 .. Len(text) + 1
    BY <1>0, <1>2
  <2>5. spliced \in Seq(Chars) /\ Len(spliced) = start + Len(path) + (Len(text) - (cursor + 1) + 1)
    BY <1>0, <2>3, <2>4, Spliced
  <2> HIDE DEF spliced
  <2> QED
    BY <1>0, <1>2, <2>3, <2>5
<1> HIDE DEF spliced
<1>4. text' \in Seq(Chars) /\ cursor' \in 0 .. Len(text')
  <2>1. CASE start > 0 /\ completer.sel >= 0
    BY <1>1, <1>3, <2>1
  <2>2. CASE ~(start > 0 /\ completer.sel >= 0)
    BY <1>0, <1>1, <2>2
  <2> QED
    BY <2>1, <2>2, Zenon
<1>5. MenuFits(text', menu)
  <2>1. CASE menu.list = <<>>
    BY <1>0, <2>1 DEF MenuFits
  <2>2. CASE menu.list # <<>>
    <3>1. text[1] = "/" /\ ~Line!HasSpace(text)
      BY <1>0, <2>2, Zenon DEF MenuFits
    <3>2. \A j \in 1 .. cursor : text[j] # Line!Space
      <4>1. \A j \in 1 .. Len(text) : text[j] # Line!Space
        BY <3>1, Zenon DEF Line!HasSpace
      <4> QED
        BY <1>0, <4>1
    <3>3. start = 0
      BY <1>0, <3>1, <3>2, NoTokenInCommand, Zenon DEF start
    <3>4. text' = text
      BY <1>1, <3>3
    <3> QED
      BY <1>0, <3>4
  <2> QED
    BY <2>1, <2>2
<1>6. /\ UNCHANGED <<history, histPos, draft, search, running>> /\ typed' = IF histPos = Len(history) THEN text' ELSE typed
  BY <1>1 DEF Line!Completes, Line!Rest
<1>7. LineTyped'
  BY <1>4, <1>6 DEF LineInv, LineTyped
<1>8. Remembered'
  BY <1>6 DEF LineInv, Remembered
<1>9. MenuFits(text', menu') /\ CompleterFits(completer')
  BY <1>1, <1>5, ClosedFits, Zenon
<1> QED
  BY <1>7, <1>8, <1>9 DEF LineInv

LEMMA EnterKeeps ==
    ASSUME LineInv, Line!EnterKey
    PROVE  LineInv'
<1>0. text \in Seq(Chars) /\ history \in Seq(Seq(Chars)) /\ search.hits \in 0 .. MaxHits
  BY DEF LineInv, LineTyped
<1>1. CASE Line!Accept
  BY <1>1, AcceptKeeps
<1>2. CASE Line!Takes /\ Line!Complete /\ UNCHANGED completer
  BY <1>2, CompleteKeeps DEF Line!Takes
<1>3. CASE Line!Submits
  <2>1. /\ text' = <<>> /\ cursor' = 0 /\ draft' = <<>> /\ typed' = <<>>
        /\ history' = IF Line!Blank(text) THEN history ELSE Append(history, text)
        /\ histPos' = Len(history') /\ menu' = Line!Closed /\ UNCHANGED <<completer, search>>
    BY <1>3, Zenon DEF Line!Submits
  <2>2. running' \in BOOLEAN
    BY <1>3, Zenon DEF Line!Submits
  <2>3. history' \in Seq(Seq(Chars))
    BY <1>0, <2>1
  <2>4. Len(history') \in Nat
    BY <2>3
  <2>5. <<>> \in Seq(Chars) /\ Len(<<>>) = 0
    OBVIOUS
  <2>6. text' \in Seq(Chars) /\ draft' \in Seq(Chars) /\ typed' \in Seq(Chars) /\ cursor' \in 0 .. Len(text')
    BY <2>1, <2>5
  <2>7. histPos' \in 0 .. Len(history') /\ search'.hits \in 0 .. MaxHits
    BY <1>0, <2>1, <2>4
  <2>8. LineTyped'
    BY <2>2, <2>3, <2>6, <2>7, Zenon DEF LineTyped
  <2>9. Remembered'
    BY <2>1 DEF Remembered
  <2>10. MenuFits(text', menu') /\ CompleterFits(completer')
    BY <2>1, ClosedFits, Zenon DEF LineInv
  <2> QED
    BY <2>8, <2>9, <2>10 DEF LineInv
<1> QED
  BY <1>1, <1>2, <1>3, Zenon DEF Line!EnterKey

\* The search, and the end of a run.
LEMMA SearchKeeps ==
    ASSUME LineInv, Line!RunEnds \/ Line!SearchToggles \/ Line!SearchEdits \/ Line!SearchMoves \/ Line!SearchEnds
    PROVE  LineInv'
<1>0. /\ cursor \in 0 .. Len(text) /\ MenuFits(text, menu) /\ CompleterFits(completer)
      /\ search.hits \in 0 .. MaxHits /\ running \in BOOLEAN /\ MaxHits \in Nat
  BY DEF LineInv, LineTyped
<1>1. UNCHANGED <<text, cursor, history, histPos, draft, menu, completer, typed>>
  BY DEF Line!RunEnds, Line!SearchToggles, Line!SearchEdits, Line!SearchMoves, Line!SearchEnds, Line!Line
<1>2. running' \in BOOLEAN
  BY <1>0 DEF Line!RunEnds, Line!SearchToggles, Line!SearchEdits, Line!SearchMoves, Line!SearchEnds, Line!Line
<1>3. search'.hits \in 0 .. MaxHits
  <2>1. CASE Line!RunEnds
    BY <1>0, <2>1 DEF Line!RunEnds
  <2>2. CASE Line!SearchToggles \/ Line!SearchEnds
    BY <1>0, <2>2 DEF Line!SearchToggles, Line!SearchEnds, Line!NoSearch
  <2>3. CASE Line!SearchEdits
    <3>1. PICK q \in {search.query - 1, search.query + 1} \cap (0 .. 2), hits \in 0 .. MaxHits :
            search' = [active |-> TRUE, query |-> q, hits |-> hits, sel |-> IF hits > 0 THEN search.sel ELSE 0]
      BY <2>3, Zenon DEF Line!SearchEdits
    <3> QED
      BY <3>1
  <2>4. CASE Line!SearchMoves
    BY <1>0, <2>4 DEF Line!SearchMoves
  <2> QED
    BY <2>1, <2>2, <2>3, <2>4
<1> QED
  BY <1>0, <1>1, <1>2, <1>3, LineStands

LEMMA LineStep ==
    ASSUME LineInv, [Line!Next]_(Line!vars)
    PROVE  LineInv'
<1>1. CASE UNCHANGED Line!vars
  <2>1. UNCHANGED <<text, cursor, history, histPos, draft, menu, completer, search, running, typed>>
    BY <1>1 DEF Line!vars
  <2> QED
    BY <2>1 DEF LineInv, LineTyped, Remembered
<1>2. CASE Line!Next
  BY <1>2, EditKeeps, HistoryKeeps, MovesKeep, TabKeeps, EnterKeeps, SearchKeeps, Zenon DEF Line!Next
<1> QED
  BY <1>1, <1>2

\* Enter submits the line or closes a dropdown.
LEMMA EnterCloses ==
    ASSUME LineInv, Line!EnterKey
    PROVE  text' = <<>> \/ Line!Dropdowns' < Line!Dropdowns
<1>1. CASE Line!Accept
  <2>1. Line!Completing /\ menu' = menu /\ completer' = Line!Closed
    BY <1>1, Zenon DEF Line!Accept
  <2>2. ~(Line!Completing') /\ (Line!MenuOpen' <=> Line!MenuOpen)
    BY <2>1 DEF Line!Completing, Line!MenuOpen, Line!Closed
  <2> QED
    BY <2>1, <2>2 DEF Line!Dropdowns
<1>2. CASE ~Line!Completing /\ Line!Takes /\ Line!Complete /\ UNCHANGED completer
  <2>1. Line!MenuOpen /\ text' = Line!CompleteSelected /\ menu' = Line!MenuFor(text', menu.sel) /\ completer' = completer
    BY <1>2, Zenon DEF Line!Takes, Line!Complete, Line!SyncMenu
  <2>2. Line!HasSpace(text')
    BY <2>1, CompletesTyped, Zenon
  <2>3. menu' = Line!Closed
    BY <2>1, <2>2, Zenon DEF Line!MenuFor
  <2>4. ~(Line!MenuOpen') /\ ~(Line!Completing')
    BY <1>2, <2>1, <2>3 DEF Line!Completing, Line!MenuOpen, Line!Closed
  <2> QED
    BY <1>2, <2>1, <2>4 DEF Line!Dropdowns
<1>3. CASE Line!Submits
  BY <1>3, Zenon DEF Line!Submits
<1> QED
  BY <1>1, <1>2, <1>3, Zenon DEF Line!EnterKey

-----------------------------------------------------------------------------
(* The screen (TuiScreen)                                                  *)

\* A function that is computed from one number to the next.
Steps(z, F, n, f) == f = [i \in 0 .. n |-> IF i = 0 THEN z ELSE F[i][f[i - 1]]]

Advances(X, z, F, n) == z \in X /\ n \in Nat /\ F \in [1 .. n -> [X -> X]]

Advanced(X, z, F, n, f) == f \in [0 .. n -> X] /\ f[0] = z /\ \A i \in 1 .. n : f[i] = F[i][f[i - 1]]

LEMMA StepsTyped ==
    ASSUME NEW X, NEW z, NEW n, NEW F, NEW f, Advances(X, z, F, n), Steps(z, F, n, f)
    PROVE  Advanced(X, z, F, n, f)
<1>0. z \in X /\ n \in Nat /\ F \in [1 .. n -> [X -> X]]
  BY DEF Advances
<1>1. \A i \in 0 .. n : f[i] = IF i = 0 THEN z ELSE F[i][f[i - 1]]
  BY Zenon DEF Steps
<1>2. f[0] = z
  <2>1. 0 \in 0 .. n
    BY <1>0
  <2> QED
    BY <1>1, <2>1, Zenon
<1>3. \A i \in 1 .. n : f[i] = F[i][f[i - 1]] /\ i - 1 \in 0 .. n
  <2>1. \A i \in 1 .. n : i \in 0 .. n /\ i # 0 /\ i - 1 \in 0 .. n
    BY <1>0
  <2> QED
    BY <1>1, <2>1, Zenon
<1>4. \A i \in 0 .. n : f[i] \in X
  <2> SUFFICES ASSUME NEW i \in 0 .. n, f[i] \notin X PROVE FALSE
    OBVIOUS
  <2> DEFINE S == {j \in 0 .. n : f[j] \notin X}
  <2>1. S \in SUBSET Nat /\ i \in S
    BY <1>0
  <2>2. PICK k \in S : \A j \in S : k <= j
    BY <2>1, LeastNumber
  <2>3. k \in 1 .. n /\ ~(k <= k - 1) /\ k - 1 \in 0 .. n
    BY <1>0, <1>2, <2>2
  <2>4. f[k - 1] \in X
    BY <2>2, <2>3
  <2>5. f[k] \in X
    BY <1>0, <1>3, <2>3, <2>4
  <2> QED
    BY <2>2, <2>5
<1>5. f = [i \in 0 .. n |-> f[i]]
  BY Zenon DEF Steps
<1>6. f \in [0 .. n -> X]
  BY <1>4, <1>5
<1> QED
  BY <1>2, <1>3, <1>6, Zenon DEF Advanced

LEMMA StepsExist ==
    ASSUME NEW X, NEW z \in X, NEW n \in Nat, NEW F \in [1 .. n -> [X -> X]]
    PROVE  \E f : Steps(z, F, n, f)
<1> SUFFICES ASSUME ~\E f : Steps(z, F, n, f) PROVE FALSE
  OBVIOUS
<1> DEFINE S == {m \in 0 .. n : ~\E f : Steps(z, F, m, f)}
<1>1. S \in SUBSET Nat /\ n \in S
  OBVIOUS
<1>2. PICK m \in S : \A j \in S : m <= j
  BY <1>1, LeastNumber
<1>3. CASE m = 0
  <2> DEFINE f == [i \in 0 .. 0 |-> z]
  <2>1. \A i \in 0 .. 0 : i = 0
    OBVIOUS
  <2>2. [i \in 0 .. 0 |-> IF i = 0 THEN z ELSE F[i][f[i - 1]]] = [i \in 0 .. 0 |-> z]
    BY <2>1
  <2>3. Steps(z, F, 0, f)
    BY <2>2, Zenon DEF Steps
  <2> QED
    BY <1>2, <1>3, <2>3, Zenon
<1>4. CASE m # 0
  <2>1. m \in 1 .. n /\ m - 1 \in 0 .. n /\ ~(m <= m - 1) /\ m - 1 \in Nat
    BY <1>2, <1>4
  <2>2. PICK f : Steps(z, F, m - 1, f)
    BY <1>2, <2>1
  <2> DEFINE g == [i \in 0 .. m |-> IF i = m THEN F[m][f[m - 1]] ELSE f[i]]
             h == [i \in 0 .. m |-> IF i = 0 THEN z ELSE F[i][g[i - 1]]]
  <2>3. \A i \in 0 .. m - 1 : f[i] = IF i = 0 THEN z ELSE F[i][f[i - 1]]
    BY <2>2, Zenon DEF Steps
  <2>4. \A i \in 0 .. m : (i # m => i \in 0 .. m - 1) /\ (i # 0 => i - 1 \in 0 .. m /\ i - 1 # m)
    BY <2>1
  <2>5. \A i \in 0 .. m : g[i] = h[i]
    <3> SUFFICES ASSUME NEW i \in 0 .. m PROVE g[i] = h[i]
      OBVIOUS
    <3>1. CASE i = m
      BY <2>1, <2>4, <3>1
    <3>2. CASE i # m
      <4>1. g[i] = f[i] /\ f[i] = IF i = 0 THEN z ELSE F[i][f[i - 1]]
        BY <2>3, <2>4, <3>2
      <4>2. CASE i = 0
        BY <4>1, <4>2
      <4>3. CASE i # 0
        <5>1. g[i - 1] = f[i - 1]
          BY <2>4, <4>3
        <5>2. h[i] = F[i][g[i - 1]]
          BY <4>3
        <5> HIDE DEF g, h
        <5> QED
          BY <4>1, <4>3, <5>1, <5>2
      <4> QED
        BY <4>2, <4>3
    <3> QED
      BY <3>1, <3>2
  <2>6. g = [i \in 0 .. m |-> g[i]] /\ h = [i \in 0 .. m |-> h[i]]
    OBVIOUS
  <2>7. Steps(z, F, m, g)
    <3>1. h = [i \in 0 .. m |-> IF i = 0 THEN z ELSE F[i][g[i - 1]]]
      BY Zenon
    <3> HIDE DEF g, h
    <3>2. g = h
      BY <2>5, <2>6
    <3> QED
      BY <3>1, <3>2, Zenon DEF Steps
  <2> HIDE DEF g, h
  <2> QED
    BY <1>2, <2>7, Zenon
<1> QED
  BY <1>3, <1>4

\* Sequences put together one after the other, and numbers added up.
Joins(R, n, f) == f = [i \in 0 .. n |-> IF i = 0 THEN <<>> ELSE f[i - 1] \o R[i]]
Joined(T, R, n, f) == f \in [0 .. n -> Seq(T)] /\ f[0] = <<>> /\ \A i \in 1 .. n : f[i] = f[i - 1] \o R[i]

LEMMA JoinsAreJoined ==
    ASSUME NEW T, NEW n \in Nat, NEW R \in [1 .. n -> Seq(T)], NEW f, Joins(R, n, f)
    PROVE  Joined(T, R, n, f)
<1> DEFINE F == [i \in 1 .. n |-> [x \in Seq(T) |-> x \o R[i]]]
<1>1. \A i \in 0 .. n : f[i] = IF i = 0 THEN <<>> ELSE f[i - 1] \o R[i]
  BY Zenon DEF Joins
<1>2. f[0] = <<>> /\ \A i \in 1 .. n : f[i] = f[i - 1] \o R[i]
  <2>1. 0 \in 0 .. n /\ \A i \in 1 .. n : i \in 0 .. n /\ i # 0
    OBVIOUS
  <2> QED
    BY <1>1, <2>1, Zenon
<1>3. \A i \in 0 .. n : f[i] \in Seq(T)
  <2> SUFFICES ASSUME NEW i \in 0 .. n, f[i] \notin Seq(T) PROVE FALSE
    OBVIOUS
  <2> DEFINE S == {j \in 0 .. n : f[j] \notin Seq(T)}
  <2>1. S \in SUBSET Nat /\ i \in S
    OBVIOUS
  <2>2. PICK k \in S : \A j \in S : k <= j
    BY <2>1, LeastNumber
  <2>3. k # 0
    <3>1. <<>> \in Seq(T)
      OBVIOUS
    <3> QED
      BY <1>2, <2>2, <3>1, Zenon
  <2>4. k \in 1 .. n /\ ~(k <= k - 1) /\ k - 1 \in 0 .. n
    BY <2>2, <2>3
  <2>5. f[k - 1] \in Seq(T)
    BY <2>2, <2>4
  <2>6. f[k] = f[k - 1] \o R[k] /\ R[k] \in Seq(T)
    BY <1>2, <2>4
  <2>7. f[k] \in Seq(T)
    BY <2>5, <2>6, ConcatProperties, Zenon
  <2> QED
    BY <2>2, <2>7
<1>4. f = [i \in 0 .. n |-> f[i]]
  BY Zenon DEF Joins
<1>5. f \in [0 .. n -> Seq(T)]
  BY <1>3, <1>4
<1> QED
  BY <1>2, <1>5, Zenon DEF Joined

LEMMA JoinsExist ==
    ASSUME NEW T, NEW n \in Nat, NEW R \in [1 .. n -> Seq(T)]
    PROVE  \E f : Joins(R, n, f)
<1> DEFINE X == Seq(T)
           F == [i \in 1 .. n |-> [x \in X |-> x \o R[i]]]
<1>1. F \in [1 .. n -> [X -> X]]
  <2>1. \A i \in 1 .. n : \A x \in X : x \o R[i] \in X
    BY ConcatProperties
  <2> HIDE DEF X
  <2> QED
    BY <2>1
<1>2. <<>> \in X
  OBVIOUS
<1>3. \A i \in 1 .. n : \A x \in X : F[i][x] = x \o R[i]
  BY Zenon
<1> HIDE DEF F, X
<1>4. PICK f : Steps(<<>>, F, n, f)
  BY <1>1, <1>2, StepsExist
<1>5. f \in [0 .. n -> X] /\ f[0] = <<>> /\ \A i \in 1 .. n : f[i] = F[i][f[i - 1]]
  <2>1. Advances(X, <<>>, F, n)
    BY <1>1, <1>2, Zenon DEF Advances
  <2>2. Advanced(X, <<>>, F, n, f)
    BY <1>4, <2>1, StepsTyped
  <2> QED
    BY <2>2, Zenon DEF Advanced
<1>6. \A i \in 1 .. n : f[i] = f[i - 1] \o R[i]
  <2>1. \A i \in 1 .. n : f[i - 1] \in X
    BY <1>5
  <2> QED
    BY <1>3, <1>5, <2>1, Zenon
<1>7. \A i \in 0 .. n : f[i] = IF i = 0 THEN <<>> ELSE f[i - 1] \o R[i]
  <2>1. \A i \in 0 .. n : i = 0 \/ i \in 1 .. n
    OBVIOUS
  <2> QED
    BY <1>5, <1>6, <2>1, Zenon
<1>8. f = [i \in 0 .. n |-> f[i]]
  BY <1>5
<1> QED
  BY <1>7, <1>8 DEF Joins

Sums(R, n, f) == f = [i \in 0 .. n |-> IF i = 0 THEN 0 ELSE f[i - 1] + R[i]]
Summed(R, n, f) == f \in [0 .. n -> Nat] /\ f[0] = 0 /\ \A i \in 1 .. n : f[i] = f[i - 1] + R[i]

LEMMA SumsAreSummed ==
    ASSUME NEW n \in Nat, NEW R \in [1 .. n -> Nat], NEW f, Sums(R, n, f)
    PROVE  Summed(R, n, f)
<1>1. \A i \in 0 .. n : f[i] = IF i = 0 THEN 0 ELSE f[i - 1] + R[i]
  BY Zenon DEF Sums
<1>2. f[0] = 0 /\ \A i \in 1 .. n : f[i] = f[i - 1] + R[i]
  <2>1. 0 \in 0 .. n /\ \A i \in 1 .. n : i \in 0 .. n /\ i # 0
    OBVIOUS
  <2> QED
    BY <1>1, <2>1, Zenon
<1>3. \A i \in 0 .. n : f[i] \in Nat
  <2> SUFFICES ASSUME NEW i \in 0 .. n, f[i] \notin Nat PROVE FALSE
    OBVIOUS
  <2> DEFINE S == {j \in 0 .. n : f[j] \notin Nat}
  <2>1. S \in SUBSET Nat /\ i \in S
    OBVIOUS
  <2>2. PICK k \in S : \A j \in S : k <= j
    BY <2>1, LeastNumber
  <2>3. k \in 1 .. n /\ ~(k <= k - 1) /\ k - 1 \in 0 .. n
    BY <1>2, <2>2
  <2>4. f[k - 1] \in Nat
    BY <2>2, <2>3
  <2>5. f[k] = f[k - 1] + R[k] /\ R[k] \in Nat
    BY <1>2, <2>3
  <2> QED
    BY <2>2, <2>4, <2>5
<1>4. f = [i \in 0 .. n |-> f[i]]
  BY Zenon DEF Sums
<1>5. f \in [0 .. n -> Nat]
  BY <1>3, <1>4
<1> QED
  BY <1>2, <1>5, Zenon DEF Summed

LEMMA SumsExist ==
    ASSUME NEW n \in Nat, NEW R \in [1 .. n -> Nat]
    PROVE  \E f : Sums(R, n, f)
<1> DEFINE F == [i \in 1 .. n |-> [x \in Nat |-> x + R[i]]]
<1>1. F \in [1 .. n -> [Nat -> Nat]]
  OBVIOUS
<1>2. 0 \in Nat
  OBVIOUS
<1>3. \A i \in 1 .. n : \A x \in Nat : F[i][x] = x + R[i]
  BY Zenon
<1> HIDE DEF F
<1>4. PICK f : Steps(0, F, n, f)
  BY <1>1, <1>2, StepsExist
<1>5. f \in [0 .. n -> Nat] /\ f[0] = 0 /\ \A i \in 1 .. n : f[i] = F[i][f[i - 1]]
  <2>1. Advances(Nat, 0, F, n)
    BY <1>1, <1>2, Zenon DEF Advances
  <2>2. Advanced(Nat, 0, F, n, f)
    BY <1>4, <2>1, StepsTyped
  <2> QED
    BY <2>2, Zenon DEF Advanced
<1>6. \A i \in 1 .. n : f[i] = f[i - 1] + R[i]
  <2>1. \A i \in 1 .. n : f[i - 1] \in Nat
    BY <1>5
  <2> QED
    BY <1>3, <1>5, <2>1, Zenon
<1>7. \A i \in 0 .. n : f[i] = IF i = 0 THEN 0 ELSE f[i - 1] + R[i]
  <2>1. \A i \in 0 .. n : i = 0 \/ i \in 1 .. n
    OBVIOUS
  <2> QED
    BY <1>5, <1>6, <2>1, Zenon
<1>8. f = [i \in 0 .. n |-> f[i]]
  BY <1>5
<1> QED
  BY <1>7, <1>8 DEF Sums

\* Both agree as long as what they are made of does.
LEMMA JoinedAgree ==
    ASSUME NEW T, NEW U, NEW R, NEW Q, NEW n \in Nat, NEW m \in Nat, NEW f, NEW g,
           Joined(T, R, n, f), Joined(U, Q, m, g), NEW k \in Nat, k <= n, k <= m, \A i \in 1 .. k : R[i] = Q[i]
    PROVE  f[k] = g[k]
<1> SUFFICES ASSUME f[k] # g[k] PROVE FALSE
  OBVIOUS
<1> DEFINE S == {i \in 0 .. k : f[i] # g[i]}
<1>1. S \in SUBSET Nat /\ k \in S
  OBVIOUS
<1>2. PICK i \in S : \A j \in S : i <= j
  BY <1>1, LeastNumber
<1>3. i \in 1 .. k /\ ~(i <= i - 1) /\ i - 1 \in 0 .. k
  BY <1>2 DEF Joined
<1>4. f[i - 1] = g[i - 1]
  BY <1>2, <1>3
<1>5. f[i] = f[i - 1] \o R[i] /\ g[i] = g[i - 1] \o Q[i] /\ R[i] = Q[i]
  <2>1. i \in 1 .. n /\ i \in 1 .. m
    BY <1>3
  <2> QED
    BY <1>3, <2>1, Zenon DEF Joined
<1> QED
  BY <1>2, <1>4, <1>5

LEMMA SummedMore ==
    ASSUME NEW R, NEW Q, NEW n \in Nat, NEW f, NEW g, Summed(R, n, f), Summed(Q, n, g),
           \A i \in 1 .. n : R[i] \in Nat /\ Q[i] \in Nat /\ R[i] <= Q[i]
    PROVE  f[n] <= g[n]
<1> SUFFICES ASSUME ~(f[n] <= g[n]) PROVE FALSE
  OBVIOUS
<1> DEFINE S == {i \in 0 .. n : ~(f[i] <= g[i])}
<1>1. S \in SUBSET Nat /\ n \in S
  OBVIOUS
<1>2. PICK i \in S : \A j \in S : i <= j
  BY <1>1, LeastNumber
<1>3. i \in 1 .. n /\ ~(i <= i - 1) /\ i - 1 \in 0 .. n
  BY <1>2 DEF Summed
<1>4. f[i - 1] <= g[i - 1] /\ f[i - 1] \in Nat /\ g[i - 1] \in Nat
  BY <1>2, <1>3 DEF Summed
<1>5. f[i] = f[i - 1] + R[i] /\ g[i] = g[i - 1] + Q[i] /\ R[i] <= Q[i] /\ R[i] \in Nat /\ Q[i] \in Nat
  BY <1>3 DEF Summed
<1> QED
  BY <1>2, <1>4, <1>5

\* The transcript: blocks are in the order they were made in, and each has an
\* identity of its own.
Blocks ==
    [id : Nat, kind : Screen!Kinds, expanded : BOOLEAN, lines : 1 .. MaxLines, open : BOOLEAN]

InOrder(B, m) ==
    /\ B \in Seq(Blocks)
    /\ \A i \in 1 .. Len(B) : B[i].id \in 1 .. m
    /\ \A i, j \in 1 .. Len(B) : i < j => B[i].id < B[j].id

RowSet(B, s, w) == UNION {{Screen!RowsOf(B[i], s, w)[k] : k \in 1 .. Screen!RowCount(B[i], s, w)} : i \in 1 .. Len(B)}

LEMMA CountsAre ==
    ASSUME NEW b \in Blocks, NEW s, NEW w
    PROVE  Screen!RowCount(b, s, w) \in Nat /\ Screen!RowCount(b, s, w) >= 1
<1>1. b.lines \in Nat /\ b.lines >= 1
  BY TerminalAssumption DEF Blocks, TerminalAssumption
<1> QED
  BY <1>1 DEF Screen!RowCount

LEMMA RowsAre ==
    ASSUME NEW b \in Blocks, NEW s, NEW w
    PROVE  /\ DOMAIN Screen!RowsOf(b, s, w) = 1 .. Screen!RowCount(b, s, w)
           /\ Screen!RowsOf(b, s, w) \in Seq({Screen!RowsOf(b, s, w)[k] : k \in 1 .. Screen!RowCount(b, s, w)})
           /\ Len(Screen!RowsOf(b, s, w)) = Screen!RowCount(b, s, w)
<1> DEFINE r == Screen!RowsOf(b, s, w)
           n == Screen!RowCount(b, s, w)
<1>1. r = [k \in 1 .. n |-> r[k]] /\ DOMAIN r = 1 .. n
  BY Zenon DEF Screen!RowsOf
<1>2. n \in Nat
  BY CountsAre
<1> HIDE DEF r, n
<1>3. r \in [1 .. n -> {r[k] : k \in 1 .. n}]
  BY <1>1
<1>4. r \in Seq({r[k] : k \in 1 .. n}) /\ Len(r) = n
  BY <1>2, <1>3
<1> QED
  BY <1>1, <1>4, Zenon DEF r, n

\* The lines that come before block i, for every i.
IsLines(B, s, w, f) ==
    /\ f \in [0 .. Len(B) -> Seq(RowSet(B, s, w))] /\ f[0] = <<>>
    /\ \A i \in 1 .. Len(B) : f[i] = f[i - 1] \o Screen!RowsOf(B[i], s, w)

RowsOfAll(B, s, w) == [i \in 1 .. Len(B) |-> Screen!RowsOf(B[i], s, w)]
CountsOfAll(B, s, w) == [i \in 1 .. Len(B) |-> Screen!RowCount(B[i], s, w)]

LEMMA AllTyped ==
    ASSUME NEW B \in Seq(Blocks), NEW s, NEW w
    PROVE  /\ Len(B) \in Nat
           /\ RowsOfAll(B, s, w) \in [1 .. Len(B) -> Seq(RowSet(B, s, w))]
           /\ CountsOfAll(B, s, w) \in [1 .. Len(B) -> Nat]
<1> HIDE DEF Blocks
<1>1. Len(B) \in Nat /\ \A i \in 1 .. Len(B) : B[i] \in Blocks
  OBVIOUS
<1>2. ASSUME NEW i \in 1 .. Len(B) PROVE Screen!RowsOf(B[i], s, w) \in Seq(RowSet(B, s, w))
  <2> DEFINE U == {Screen!RowsOf(B[i], s, w)[k] : k \in 1 .. Screen!RowCount(B[i], s, w)}
             r == Screen!RowsOf(B[i], s, w)
             T == RowSet(B, s, w)
  <2>1. B[i] \in Blocks
    BY <1>1
  <2>2. r \in Seq(U)
    BY <2>1, RowsAre
  <2>3. U \subseteq T
    BY Zenon DEF RowSet
  <2> HIDE DEF U, T, r
  <2>4. r \in Seq(T)
    BY <2>2, <2>3
  <2> QED
    BY <2>4 DEF r, T
<1>3. \A i \in 1 .. Len(B) : Screen!RowCount(B[i], s, w) \in Nat
  BY <1>1, CountsAre
<1> QED
  BY <1>1, <1>2, <1>3 DEF RowsOfAll, CountsOfAll

LEMMA LinesAre ==
    ASSUME NEW B \in Seq(Blocks), NEW s, NEW w
    PROVE  \E f : /\ Joined(RowSet(B, s, w), RowsOfAll(B, s, w), Len(B), f)
                  /\ Screen!Lines(B, s, w) = f[Len(B)]
<1> DEFINE n == Len(B)
           R == RowsOfAll(B, s, w)
           IsIt(f) == f = [i \in 0 .. Len(B) |-> IF i = 0 THEN <<>> ELSE f[i - 1] \o Screen!RowsOf(B[i], s, w)]
           c == CHOOSE f : IsIt(f)
<1>1. ASSUME NEW f PROVE IsIt(f) <=> Joins(R, n, f)
  <2>1. \A i \in 0 .. n : i # 0 => R[i] = Screen!RowsOf(B[i], s, w)
    <3>1. \A i \in 0 .. n : i # 0 => i \in 1 .. n
      OBVIOUS
    <3> QED
      BY <3>1, Zenon DEF RowsOfAll
  <2> HIDE DEF R
  <2>2. [i \in 0 .. n |-> IF i = 0 THEN <<>> ELSE f[i - 1] \o R[i]]
          = [i \in 0 .. n |-> IF i = 0 THEN <<>> ELSE f[i - 1] \o Screen!RowsOf(B[i], s, w)]
    BY <2>1
  <2> QED
    BY <2>2, Zenon DEF Joins
<1>2. \E f : IsIt(f)
  <2>1. \E f : Joins(R, n, f)
    BY AllTyped, JoinsExist
  <2> HIDE DEF R, n, IsIt
  <2> QED
    BY <1>1, <2>1, Zenon
<1>3. IsIt(c)
  BY <1>2, Zenon
<1>4. Screen!Lines(B, s, w) = c[n]
  BY Zenon DEF Screen!Lines
<1> HIDE DEF c
<1>5. Joins(R, n, c)
  BY <1>1, <1>3
<1>6. Joined(RowSet(B, s, w), R, n, c)
  BY <1>5, AllTyped, JoinsAreJoined
<1> QED
  BY <1>4, <1>6, Zenon

LEMMA TotalIs ==
    ASSUME NEW B \in Seq(Blocks), NEW s, NEW w
    PROVE  \E f : Summed(CountsOfAll(B, s, w), Len(B), f) /\ Screen!Total(B, s, w) = f[Len(B)]
<1> DEFINE n == Len(B)
           R == CountsOfAll(B, s, w)
           IsIt(f) == f = [i \in 0 .. Len(B) |-> IF i = 0 THEN 0 ELSE f[i - 1] + Screen!RowCount(B[i], s, w)]
           c == CHOOSE f : IsIt(f)
<1>1. ASSUME NEW f PROVE IsIt(f) <=> Sums(R, n, f)
  <2>1. \A i \in 0 .. n : i # 0 => R[i] = Screen!RowCount(B[i], s, w)
    <3>1. \A i \in 0 .. n : i # 0 => i \in 1 .. n
      OBVIOUS
    <3> QED
      BY <3>1, Zenon DEF CountsOfAll
  <2> HIDE DEF R
  <2>2. [i \in 0 .. n |-> IF i = 0 THEN 0 ELSE f[i - 1] + R[i]]
          = [i \in 0 .. n |-> IF i = 0 THEN 0 ELSE f[i - 1] + Screen!RowCount(B[i], s, w)]
    BY <2>1
  <2> QED
    BY <2>2, Zenon DEF Sums
<1>2. \E f : IsIt(f)
  <2>1. \E f : Sums(R, n, f)
    BY AllTyped, SumsExist
  <2> HIDE DEF R, n, IsIt
  <2> QED
    BY <1>1, <2>1, Zenon
<1>3. IsIt(c)
  BY <1>2, Zenon
<1>4. Screen!Total(B, s, w) = c[n]
  BY Zenon DEF Screen!Total
<1> HIDE DEF c
<1>5. Sums(R, n, c)
  BY <1>1, <1>3
<1>6. Summed(R, n, c)
  BY <1>5, AllTyped, SumsAreSummed
<1> QED
  BY <1>4, <1>6, Zenon

\* The lines are rows of the blocks, as many as they are counted; every block has one.
LEMMA LinesCount ==
    ASSUME NEW B \in Seq(Blocks), NEW s, NEW w
    PROVE  /\ Screen!Lines(B, s, w) \in Seq(RowSet(B, s, w))
           /\ Len(Screen!Lines(B, s, w)) = Screen!Total(B, s, w)
           /\ Screen!Total(B, s, w) \in Nat
           /\ B # <<>> => Screen!Total(B, s, w) > 0
<1> DEFINE n == Len(B)
           T == RowSet(B, s, w)
           R == RowsOfAll(B, s, w)
           C == CountsOfAll(B, s, w)
<1>0. /\ n \in Nat /\ (B # <<>> => n > 0)
      /\ \A i \in 1 .. n : R[i] \in Seq(T) /\ C[i] \in Nat /\ Len(R[i]) = C[i] /\ C[i] >= 1
  <2> HIDE DEF Blocks
  <2>1. \A i \in 1 .. n : B[i] \in Blocks
    OBVIOUS
  <2>2. \A i \in 1 .. n : R[i] = Screen!RowsOf(B[i], s, w) /\ C[i] = Screen!RowCount(B[i], s, w)
    BY Zenon DEF RowsOfAll, CountsOfAll
  <2>3. \A i \in 1 .. n : Len(R[i]) = C[i] /\ C[i] >= 1
    BY <2>1, <2>2, RowsAre, CountsAre
  <2>4. n \in Nat /\ (B # <<>> => n > 0)
    OBVIOUS
  <2>5. R \in [1 .. n -> Seq(T)] /\ C \in [1 .. n -> Nat]
    BY AllTyped
  <2> HIDE DEF R, C, T, n
  <2> QED
    BY <2>3, <2>4, <2>5
<1>1. PICK f : Joined(T, R, n, f) /\ Screen!Lines(B, s, w) = f[n]
  BY LinesAre
<1>2. PICK g : Summed(C, n, g) /\ Screen!Total(B, s, w) = g[n]
  BY TotalIs
<1> HIDE DEF R, C, T, n
<1>3. \A i \in 0 .. n : Len(f[i]) = g[i] /\ g[i] >= i
  <2> SUFFICES ASSUME NEW i \in 0 .. n, ~(Len(f[i]) = g[i] /\ g[i] >= i) PROVE FALSE
    OBVIOUS
  <2> DEFINE S == {j \in 0 .. n : ~(Len(f[j]) = g[j] /\ g[j] >= j)}
  <2>1. S \in SUBSET Nat /\ i \in S
    BY <1>0
  <2>2. PICK k \in S : \A j \in S : k <= j
    BY <2>1, LeastNumber
  <2>3. k # 0
    <3>1. f[0] = <<>> /\ g[0] = 0 /\ Len(<<>>) = 0
      BY <1>1, <1>2 DEF Joined, Summed
    <3> QED
      BY <2>2, <3>1
  <2>4. k \in 1 .. n /\ ~(k <= k - 1) /\ k - 1 \in 0 .. n
    BY <1>0, <2>2, <2>3
  <2>5. Len(f[k - 1]) = g[k - 1] /\ g[k - 1] >= k - 1
    BY <2>2, <2>4
  <2>6. f[k] = f[k - 1] \o R[k] /\ g[k] = g[k - 1] + C[k] /\ f[k - 1] \in Seq(T) /\ g[k - 1] \in Nat
    BY <1>1, <1>2, <2>4 DEF Joined, Summed
  <2>7. R[k] \in Seq(T) /\ C[k] \in Nat /\ Len(R[k]) = C[k] /\ C[k] >= 1
    BY <1>0, <2>4
  <2>8. Len(f[k]) = Len(f[k - 1]) + Len(R[k])
    <3>1. \A x, y \in Seq(T) : Len(x \o y) = Len(x) + Len(y)
      OBVIOUS
    <3> QED
      BY <2>6, <2>7, <3>1, Zenon
  <2>9. Len(f[k]) = g[k] /\ g[k] >= k
    BY <2>4, <2>5, <2>6, <2>7, <2>8
  <2> QED
    BY <2>2, <2>9, Zenon
<1>4. n \in 0 .. n
  BY <1>0
<1>5. f[n] \in Seq(T) /\ g[n] \in Nat
  BY <1>1, <1>2, <1>4 DEF Joined, Summed
<1>6. Len(f[n]) = g[n] /\ g[n] >= n
  BY <1>3, <1>4
<1> QED
  BY <1>0, <1>1, <1>2, <1>5, <1>6 DEF T

\* A row is one of a block, and tells whether the block folds.
LEMMA RowIs ==
    ASSUME NEW B, NEW s, NEW w, NEW r \in RowSet(B, s, w)
    PROVE  \E i \in 1 .. Len(B) : /\ r.id = B[i].id
                                  /\ r.look # "text" => Screen!Collapsible(B[i])
                                  /\ r.look # "none"
<1>1. PICK i \in 1 .. Len(B) : r \in {Screen!RowsOf(B[i], s, w)[k] : k \in 1 .. Screen!RowCount(B[i], s, w)}
  BY Zenon DEF RowSet
<1>2. PICK k \in 1 .. Screen!RowCount(B[i], s, w) : r = Screen!RowsOf(B[i], s, w)[k]
  BY <1>1, Zenon
<1> DEFINE b == B[i]
           look == IF ~Screen!Collapsible(b) THEN "text"
                   ELSE IF k > 1 THEN IF Screen!Shows(b, s) THEN "body" ELSE "card"
                   ELSE IF b.id = s THEN "focused" ELSE IF b.expanded THEN "expanded" ELSE "folded"
<1>3. r = [id |-> b.id, part |-> k, wide |-> w, look |-> look]
  BY <1>2, Zenon DEF Screen!RowsOf
<1>4. (look # "text" => Screen!Collapsible(b)) /\ look # "none"
  OBVIOUS
<1> HIDE DEF look, b
<1>5. r.id = b.id /\ r.look = look
  BY <1>3
<1> QED
  BY <1>4, <1>5 DEF b

LEMMA JoinedLast ==
    ASSUME NEW T, NEW R, NEW n \in Nat, NEW m, m = n + 1, NEW f, Joined(T, R, m, f)
    PROVE  f[m] = f[n] \o R[m] /\ f[n] \in Seq(T)
<1>1. m \in 1 .. m /\ n \in 0 .. m /\ m - 1 = n
  OBVIOUS
<1>2. f[m] = f[m - 1] \o R[m]
  BY <1>1, Zenon DEF Joined
<1>3. f[n] \in Seq(T)
  BY <1>1, Zenon DEF Joined
<1> QED
  BY <1>1, <1>2, <1>3

\* One block more leaves the lines above it.
LEMMA LinesGrow ==
    ASSUME NEW B \in Seq(Blocks), NEW x \in Blocks, NEW s, NEW w
    PROVE  /\ Append(B, x) \in Seq(Blocks)
           /\ Screen!Total(B, s, w) <= Screen!Total(Append(B, x), s, w)
           /\ \A j \in 1 .. Screen!Total(B, s, w) : Screen!Lines(Append(B, x), s, w)[j] = Screen!Lines(B, s, w)[j]
<1> DEFINE A == Append(B, x)
           n == Len(B)
           T == RowSet(A, s, w)
           r == Screen!RowsOf(x, s, w)
           more == Screen!Lines(A, s, w)
           some == Screen!Lines(B, s, w)
<1>1. A \in Seq(Blocks) /\ Len(A) = n + 1 /\ n \in Nat /\ A[n + 1] = x /\ \A i \in 1 .. n : A[i] = B[i]
  <2> HIDE DEF Blocks
  <2> QED
    OBVIOUS
<1> HIDE DEF A
<1>2. PICK f : Joined(RowSet(B, s, w), RowsOfAll(B, s, w), Len(B), f) /\ some = f[n]
  BY LinesAre, Zenon
<1>3. PICK g : Joined(T, RowsOfAll(A, s, w), Len(A), g) /\ more = g[Len(A)]
  BY <1>1, LinesAre, Zenon
<1>4. \A i \in 1 .. n : RowsOfAll(B, s, w)[i] = RowsOfAll(A, s, w)[i]
  BY <1>1 DEF RowsOfAll
<1>5. RowsOfAll(A, s, w)[n + 1] = r
  BY <1>1 DEF RowsOfAll
<1>6. f[n] = g[n]
  <2>1. n <= Len(B) /\ n <= Len(A) /\ Len(A) \in Nat
    BY <1>1
  <2> QED
    BY <1>1, <1>2, <1>3, <1>4, <2>1, JoinedAgree
<1>7. g[n + 1] = g[n] \o r /\ g[n] \in Seq(T) /\ r \in Seq(T)
  <2>1. n + 1 \in 1 .. Len(A) /\ n + 1 - 1 = n /\ n \in 0 .. Len(A)
    BY <1>1
  <2>2. RowsOfAll(A, s, w)[n + 1] \in Seq(T)
    BY <1>1, <2>1, AllTyped
  <2>3. g[Len(A)] = g[n] \o RowsOfAll(A, s, w)[Len(A)] /\ g[n] \in Seq(T)
    BY <1>1, <1>3, JoinedLast
  <2> QED
    BY <1>1, <1>5, <2>2, <2>3
<1> HIDE DEF r, T, some, more
<1>8. more = some \o r /\ some \in Seq(T) /\ r \in Seq(T)
  BY <1>1, <1>2, <1>3, <1>6, <1>7
<1>9. Len(some) \in Nat /\ Len(r) \in Nat /\ Len(more) = Len(some) + Len(r) /\ \A j \in 1 .. Len(some) : more[j] = some[j]
  BY <1>8
<1>10. Len(some) = Screen!Total(B, s, w) /\ Len(more) = Screen!Total(A, s, w)
  BY <1>1, LinesCount, Zenon DEF some, more
<1> QED
  BY <1>1, <1>9, <1>10 DEF A, some, more

\* Longer blocks, more lines.
LEMMA TotalMore ==
    ASSUME NEW B \in Seq(Blocks), NEW C \in Seq(Blocks), NEW s, NEW w, Len(B) = Len(C),
           \A i \in 1 .. Len(B) : Screen!RowCount(B[i], s, w) <= Screen!RowCount(C[i], s, w)
    PROVE  Screen!Total(B, s, w) <= Screen!Total(C, s, w)
<1>1. PICK f : Summed(CountsOfAll(B, s, w), Len(B), f) /\ Screen!Total(B, s, w) = f[Len(B)]
  BY TotalIs
<1>2. PICK g : Summed(CountsOfAll(C, s, w), Len(B), g) /\ Screen!Total(C, s, w) = g[Len(B)]
  <2>1. PICK g : Summed(CountsOfAll(C, s, w), Len(C), g) /\ Screen!Total(C, s, w) = g[Len(C)]
    BY TotalIs
  <2> QED
    BY <2>1
<1>3. \A i \in 1 .. Len(B) : /\ CountsOfAll(B, s, w)[i] \in Nat /\ CountsOfAll(C, s, w)[i] \in Nat
                             /\ CountsOfAll(B, s, w)[i] <= CountsOfAll(C, s, w)[i]
  <2>1. \A i \in 1 .. Len(B) : /\ CountsOfAll(B, s, w)[i] = Screen!RowCount(B[i], s, w)
                               /\ CountsOfAll(C, s, w)[i] = Screen!RowCount(C[i], s, w)
    BY DEF CountsOfAll
  <2>2. CountsOfAll(B, s, w) \in [1 .. Len(B) -> Nat] /\ CountsOfAll(C, s, w) \in [1 .. Len(B) -> Nat]
    BY AllTyped
  <2> QED
    BY <2>1, <2>2
<1>4. Len(B) \in Nat
  BY AllTyped
<1> QED
  BY <1>1, <1>2, <1>3, <1>4, SummedMore

-----------------------------------------------------------------------------
(* The frame                                                               *)
ChatViews == [top : Nat, bottom : BOOLEAN]
TopOf(B, s, c, w, b, p) == Screen!Top(Screen!Total(B, s, w), Screen!Height(b, p), c)

LEMMA HeightIs ==
    ASSUME NEW b, NEW p
    PROVE  /\ Screen!Height(b, p) \in Nat /\ Screen!Height(b, p) >= 1 /\ Screen!Height(b, p) <= Window
           /\ ~(b /\ p = "none") => Screen!Height(b, p) = Window
  BY TerminalAssumption DEF Screen!Height, TerminalAssumption

LEMMA TopIs ==
    ASSUME NEW n \in Nat, NEW h \in Nat, NEW c \in ChatViews
    PROVE  /\ Screen!MaxTop(n, h) \in Nat /\ (n > h => Screen!MaxTop(n, h) = n - h) /\ (n <= h => Screen!MaxTop(n, h) = 0)
           /\ Screen!Top(n, h, c) \in Nat /\ Screen!Top(n, h, c) <= Screen!MaxTop(n, h)
           /\ c.bottom => Screen!Top(n, h, c) = Screen!MaxTop(n, h)
           /\ ~c.bottom /\ c.top <= Screen!MaxTop(n, h) => Screen!Top(n, h, c) = c.top
<1>1. c.top \in Nat /\ c.bottom \in BOOLEAN
  BY DEF ChatViews
<1>2. Screen!MaxTop(n, h) \in Nat /\ (n > h => Screen!MaxTop(n, h) = n - h) /\ (n <= h => Screen!MaxTop(n, h) = 0)
  BY DEF Screen!MaxTop, Screen!AtLeast
<1>3. c.bottom => Screen!Top(n, h, c) = Screen!MaxTop(n, h)
  BY Zenon DEF Screen!Top
<1>4. ~c.bottom => Screen!Top(n, h, c) = Screen!AtMost(c.top, Screen!MaxTop(n, h))
  BY Zenon DEF Screen!Top
<1> QED
  BY <1>1, <1>2, <1>3, <1>4 DEF Screen!AtMost

RowShown(B, s, c, w, b, p, i) ==
    IF Screen!Covered(B, p) THEN Screen!Text(IF p = "none" THEN "welcome" ELSE p)
    ELSE IF TopOf(B, s, c, w, b, p) + i <= Screen!Total(B, s, w)
         THEN Screen!Lines(B, s, w)[TopOf(B, s, c, w, b, p) + i] ELSE Screen!Blank

LEMMA PutTogether ==
    ASSUME NEW S, NEW u \in Seq(S), NEW v \in Seq(S)
    PROVE  /\ u \o v \in Seq(S) /\ Len(u \o v) = Len(u) + Len(v) /\ Len(u) \in Nat /\ Len(v) \in Nat
           /\ \A i \in 1 .. Len(u) : (u \o v)[i] = u[i]
  OBVIOUS

LEMMA FrameIs ==
    ASSUME NEW B \in Seq(Blocks), NEW s, NEW c, NEW w, NEW b, NEW p
    PROVE  /\ Len(Screen!FrameOf(B, s, c, w, b, p)) \in Nat
           /\ Len(Screen!FrameOf(B, s, c, w, b, p)) >= Screen!Height(b, p)
           /\ \A i \in 1 .. Screen!Height(b, p) : Screen!FrameOf(B, s, c, w, b, p)[i] = RowShown(B, s, c, w, b, p, i)
<1> DEFINE h     == Screen!Height(b, p)
           rows  == Screen!Lines(B, s, w)
           n     == Len(rows)
           top   == Screen!Top(n, h, c)
           view1 == IF Screen!Covered(B, p)
                    THEN [i \in 1 .. h |-> Screen!Text(IF p = "none" THEN "welcome" ELSE p)]
                    ELSE [i \in 1 .. h |-> IF top + i <= n THEN rows[top + i] ELSE Screen!Blank]
           below == IF p = "none" /\ ~c.bottom /\ ~Screen!Covered(B, p) /\ top < Screen!MaxTop(n, h)
                    THEN <<Screen!Text("below")>> ELSE <<>>
           active == IF b /\ p = "none" THEN <<Screen!Text("activity")>> ELSE <<>>
           last == <<Screen!Text("composer")>>
<1>1. Screen!FrameOf(B, s, c, w, b, p) = view1 \o below \o active \o last
  BY Zenon DEF Screen!FrameOf
<1>2. h \in Nat
  BY HeightIs
<1>3. n = Screen!Total(B, s, w)
  BY LinesCount
<1>4. DOMAIN view1 = 1 .. h /\ view1 = [i \in 1 .. h |-> view1[i]]
  BY Zenon
<1>5. \A i \in 1 .. h : view1[i] = RowShown(B, s, c, w, b, p, i)
  BY <1>3, Zenon DEF RowShown, TopOf
<1> DEFINE U == {view1[i] : i \in 1 .. h} \cup {Screen!Text("below"), Screen!Text("activity"), Screen!Text("composer")}
<1>6. below \in Seq(U) /\ active \in Seq(U) /\ last \in Seq(U)
  <2>1. Screen!Text("below") \in U /\ Screen!Text("activity") \in U /\ Screen!Text("composer") \in U
    BY Zenon
  <2> HIDE DEF U
  <2>2. <<Screen!Text("below")>> \in Seq(U) /\ <<Screen!Text("activity")>> \in Seq(U) /\ <<Screen!Text("composer")>> \in Seq(U)
        /\ <<>> \in Seq(U)
    BY <2>1
  <2> QED
    BY <2>2, Zenon
<1>7. view1 \in Seq(U) /\ Len(view1) = h
  <2>1. \A i \in 1 .. h : view1[i] \in U
    OBVIOUS
  <2> HIDE DEF U, view1, h
  <2> QED
    BY <1>2, <1>4, <2>1
<1> HIDE DEF view1, below, active, last, U, h
<1> DEFINE whole == view1 \o below \o active \o last
<1>8. whole \in Seq(U) /\ Len(whole) \in Nat /\ Len(whole) >= h /\ \A i \in 1 .. h : whole[i] = view1[i]
  <2> DEFINE a == view1 \o below
             d == a \o active
  <2>1. a \in Seq(U) /\ Len(a) = h + Len(below) /\ Len(below) \in Nat /\ \A i \in 1 .. h : a[i] = view1[i]
    <3>1. \A i \in 1 .. Len(view1) : a[i] = view1[i]
      BY <1>6, <1>7, PutTogether, Zenon
    <3>2. a \in Seq(U) /\ Len(a) = Len(view1) + Len(below) /\ Len(below) \in Nat
      BY <1>6, <1>7, PutTogether, Zenon
    <3> QED
      BY <1>7, <3>1, <3>2, Zenon
  <2> HIDE DEF a
  <2>2. d \in Seq(U) /\ Len(d) = Len(a) + Len(active) /\ Len(active) \in Nat /\ \A i \in 1 .. Len(a) : d[i] = a[i]
    BY <1>6, <2>1, PutTogether, Zenon
  <2> HIDE DEF d
  <2>3. whole = d \o last
    BY DEF a, d
  <2> HIDE DEF whole
  <2>4. whole \in Seq(U) /\ Len(whole) = Len(d) + Len(last) /\ Len(last) \in Nat /\ \A i \in 1 .. Len(d) : whole[i] = d[i]
    BY <1>6, <2>2, <2>3, PutTogether, Zenon
  <2>5. \A i \in 1 .. h : i \in 1 .. Len(a) /\ i \in 1 .. Len(d)
    BY <1>2, <2>1, <2>2
  <2>6. \A i \in 1 .. h : whole[i] = view1[i]
    BY <2>1, <2>2, <2>4, <2>5
  <2> QED
    BY <1>2, <2>1, <2>2, <2>4, <2>6
<1> HIDE DEF whole
<1>9. Screen!FrameOf(B, s, c, w, b, p) = whole
  BY <1>1 DEF whole
<1> QED
  BY <1>5, <1>8, <1>9, Zenon DEF h

-----------------------------------------------------------------------------
(* The screen's invariant                                                  *)
Panels == {"none", "help", "tool", "plan"}
Folding(B, s) == \A i \in 1 .. Len(B) : B[i].id = s => Screen!Collapsible(B[i])

\* Where the reader is allowed to be while a run goes on: at the end, or not below
\* the last line, or in a transcript that loses a block with each it gets.
Reached(B, s, w, c) == c.bottom \/ c.top <= Screen!ScrollMax(B, s, w) \/ Len(B) >= MaxBlocks

Asks == asking => panel \in {"tool", "plan"}
Follows == busy \/ asking => Reached(blocks, sel, wide, chat)
Framed == frame = Screen!FrameOf(blocks, sel, chat, wide, busy, panel)
OnScreen == DOMAIN shown = 1 .. Screen!TermRows /\ Screen!ScreenIsTheFrame

ScreenInv ==
    /\ InOrder(blocks, made) /\ made \in 0 .. MaxMade /\ sel \in 0 .. made /\ chat \in ChatViews /\ panel \in Panels
    /\ Folding(blocks, sel) /\ Asks /\ Follows /\ Framed /\ OnScreen

LEMMA ScreenSuffices == ScreenInv => Screen!ScreenSound
<1> SUFFICES ASSUME ScreenInv PROVE Screen!ScreenSound
  OBVIOUS
<1>0. blocks \in Seq(Blocks) /\ InOrder(blocks, made)
  BY DEF ScreenInv, InOrder
<1> DEFINE h == Screen!Height(busy, panel)
           n == Screen!Total(blocks, sel, wide)
           top == TopOf(blocks, sel, chat, wide, busy, panel)
<1>1. /\ Len(frame) \in Nat /\ Len(frame) >= h
      /\ \A i \in 1 .. h : frame[i] = RowShown(blocks, sel, chat, wide, busy, panel, i)
  BY <1>0, FrameIs, Zenon DEF ScreenInv, Framed
<1>2. h \in Nat /\ h >= 1
  BY HeightIs
<1>3. Screen!TypeOK
  <2>1. \A i \in 1 .. Len(blocks) : blocks[i].kind \in Screen!Kinds /\ blocks[i].lines \in 1 .. MaxLines
    <3>1. \A i \in 1 .. Len(blocks) : blocks[i] \in Blocks
      <4> HIDE DEF Blocks
      <4> QED
        BY <1>0
    <3> QED
      BY <3>1, Zenon DEF Blocks
  <2>2. chat.top >= 0
    BY DEF ScreenInv, ChatViews
  <2> QED
    BY <2>1, <2>2, Zenon DEF ScreenInv, Panels, OnScreen, Screen!TypeOK
<1>4. Screen!FollowsTheEnd
  <2> SUFFICES ASSUME chat.bottom, ~Screen!Covered(blocks, panel), Len(Screen!Lines(blocks, sel, wide)) > 0
               PROVE  \E i \in 1 .. Len(frame) :
                         frame[i] = Screen!Lines(blocks, sel, wide)[Len(Screen!Lines(blocks, sel, wide))]
    BY Zenon DEF Screen!FollowsTheEnd
  <2>1. Len(Screen!Lines(blocks, sel, wide)) = n /\ n \in Nat
    BY <1>0, LinesCount
  <2>2. top \in Nat /\ (n > h => top = n - h) /\ (n <= h => top = 0)
    BY <1>2, <2>1, TopIs DEF ScreenInv, TopOf
  <2> HIDE DEF top, n, h
  <2>3. n - top \in 1 .. h /\ top + (n - top) = n /\ n - top \in 1 .. Len(frame)
    BY <1>1, <1>2, <2>1, <2>2
  <2>4. frame[n - top] = IF top + (n - top) <= n THEN Screen!Lines(blocks, sel, wide)[top + (n - top)] ELSE Screen!Blank
    <3> DEFINE i == n - top
    <3>1. i \in 1 .. h
      BY <2>3
    <3> HIDE DEF i
    <3>2. frame[i] = IF top + i <= n THEN Screen!Lines(blocks, sel, wide)[top + i] ELSE Screen!Blank
      BY <1>1, <3>1, Zenon DEF RowShown, top, n
    <3> QED
      BY <3>2 DEF i
  <2>5. frame[n - top] = Screen!Lines(blocks, sel, wide)[n]
    BY <2>1, <2>2, <2>3, <2>4
  <2> QED
    BY <2>1, <2>3, <2>5
<1>5. Screen!CursorFolds
  <2> SUFFICES ASSUME sel \in Screen!Ids(blocks) PROVE Screen!Collapsible(blocks[Screen!At(blocks, sel)])
    BY Zenon DEF Screen!CursorFolds
  <2>1. \E i \in 1 .. Len(blocks) : blocks[i].id = sel
    BY Zenon DEF Screen!Ids
  <2>2. Screen!At(blocks, sel) \in 1 .. Len(blocks) /\ blocks[Screen!At(blocks, sel)].id = sel
    BY <2>1, Zenon DEF Screen!At
  <2> QED
    BY <2>2, Zenon DEF ScreenInv, Folding
<1>6. Screen!ApprovalIsShown
  <2> SUFFICES ASSUME asking PROVE panel \in {"tool", "plan"} /\ frame[1] = Screen!Text(panel)
    BY Zenon DEF Screen!ApprovalIsShown
  <2>1. panel \in {"tool", "plan"}
    BY Zenon DEF ScreenInv, Asks
  <2>2. panel # "none"
    BY <2>1
  <2>3. frame[1] = RowShown(blocks, sel, chat, wide, busy, panel, 1)
    <3>1. 1 \in 1 .. h
      BY <1>2
    <3> QED
      BY <1>1, <3>1, Zenon
  <2>4. RowShown(blocks, sel, chat, wide, busy, panel, 1) = Screen!Text(panel)
    BY <2>2, Zenon DEF RowShown, Screen!Covered
  <2> QED
    BY <2>1, <2>3, <2>4
<1> QED
  BY <1>3, <1>4, <1>5, <1>6, Zenon DEF ScreenInv, OnScreen, Screen!ScreenSound

-----------------------------------------------------------------------------
\* What is drawn: the terminal shows the new frame where it showed the old one.
RowOf(f, i) == IF Screen!Cell(f, i) = Screen!NoRow THEN Screen!Blank ELSE Screen!Cell(f, i)

LEMMA PaintedShows ==
    ASSUME NEW scr, NEW prev, NEW next, NEW i \in 1 .. Screen!TermRows, scr[i] = RowOf(prev, i)
    PROVE  Screen!Painted(scr, prev, next)[i] = RowOf(next, i)
<1>1. Screen!Painted(scr, prev, next)[i] =
        IF Screen!Cell(prev, i) = Screen!Cell(next, i) THEN scr[i]
        ELSE IF Screen!Cell(next, i) = Screen!NoRow THEN Screen!Blank ELSE Screen!Cell(next, i)
  BY Zenon DEF Screen!Painted
<1> QED
  BY <1>1, Zenon DEF RowOf

Redraws == Screen!Drawn \/ Screen!DrawnAnew \/ Screen!Redraw(frame, shown, lost, FALSE)

LEMMA DrawnIsShown ==
    ASSUME OnScreen, Redraws
    PROVE  Framed' /\ OnScreen'
<1>1. Framed'
  BY Zenon DEF Redraws, Screen!Drawn, Screen!DrawnAnew, Screen!Redraw, Framed
<1>2. ASSUME shown' = Screen!Painted(shown, frame, frame'), lost' = (lost \/ (captured /\ frame # frame')) \/ lost' = (lost \/ (FALSE /\ frame # frame'))
      PROVE  OnScreen'
  <2>1. DOMAIN shown' = 1 .. Screen!TermRows
    BY <1>2, Zenon DEF Screen!Painted
  <2>2. ASSUME ~lost', NEW i \in 1 .. Screen!TermRows PROVE shown'[i] = RowOf(frame', i)
    <3>1. ~lost
      BY <1>2, <2>2, Zenon
    <3>2. shown[i] = RowOf(frame, i)
      BY <3>1, Zenon DEF OnScreen, Screen!ScreenIsTheFrame, RowOf
    <3> QED
      BY <1>2, <3>2, PaintedShows, Zenon
  <2>3. Screen!ScreenIsTheFrame'
    BY <2>2, Zenon DEF Screen!ScreenIsTheFrame, RowOf, Screen!Cell, Screen!TermRows
  <2> QED
    BY <2>1, <2>3, Zenon DEF OnScreen, Screen!TermRows
<1>3. ASSUME shown' = Screen!Painted(Screen!Cleared, <<>>, frame')
      PROVE  OnScreen'
  <2>1. DOMAIN shown' = 1 .. Screen!TermRows
    BY <1>3, Zenon DEF Screen!Painted
  <2>2. ASSUME NEW i \in 1 .. Screen!TermRows PROVE shown'[i] = RowOf(frame', i)
    <3>1. Screen!Cell(<<>>, i) = Screen!NoRow
      <4>1. Len(<<>>) = 0 /\ ~(i <= 0)
        BY <2>2 DEF Screen!TermRows
      <4> QED
        BY <4>1 DEF Screen!Cell
    <3>2. Screen!Cleared[i] = Screen!Blank
      BY Zenon DEF Screen!Cleared
    <3>3. Screen!Cleared[i] = RowOf(<<>>, i)
      BY <3>1, <3>2, Zenon DEF RowOf
    <3> QED
      BY <1>3, <3>3, PaintedShows, Zenon
  <2>3. Screen!ScreenIsTheFrame'
    BY <2>2, Zenon DEF Screen!ScreenIsTheFrame, RowOf, Screen!Cell, Screen!TermRows
  <2> QED
    BY <2>1, <2>3, Zenon DEF OnScreen, Screen!TermRows
<1>4. ASSUME shown' = shown, lost' = (lost \/ (captured /\ frame # frame')) \/ lost' = (TRUE \/ (TRUE /\ <<>> # frame')), captured
      PROVE  OnScreen'
  <2>1. DOMAIN shown' = 1 .. Screen!TermRows
    BY <1>4, Zenon DEF OnScreen
  <2>2. ASSUME ~lost', NEW i \in 1 .. Screen!TermRows PROVE shown'[i] = RowOf(frame', i)
    <3>1. ~lost /\ frame' = frame
      BY <1>4, <2>2, Zenon
    <3>2. shown[i] = RowOf(frame, i)
      BY <3>1, Zenon DEF OnScreen, Screen!ScreenIsTheFrame, RowOf
    <3> QED
      BY <1>4, <3>1, <3>2
  <2>3. Screen!ScreenIsTheFrame'
    BY <2>2, Zenon DEF Screen!ScreenIsTheFrame, RowOf, Screen!Cell, Screen!TermRows
  <2> QED
    BY <2>1, <2>3, Zenon DEF OnScreen, Screen!TermRows
<1>5. CASE Screen!Drawn
  <2>1. /\ shown' = IF captured THEN shown ELSE Screen!Painted(shown, frame, frame')
        /\ lost' = (lost \/ (captured /\ frame # frame'))
    BY <1>5, Zenon DEF Screen!Drawn, Screen!Redraw
  <2> QED
    BY <1>1, <1>2, <1>4, <2>1, Zenon
<1>6. CASE Screen!DrawnAnew
  <2>1. CASE captured
    <3>1. shown' = shown /\ lost' = (TRUE \/ (TRUE /\ <<>> # frame'))
      BY <1>6, <2>1, Zenon DEF Screen!DrawnAnew, Screen!Redraw
    <3> QED
      BY <1>1, <1>4, <2>1, <3>1, Zenon
  <2>2. CASE ~captured
    <3>1. shown' = Screen!Painted(Screen!Cleared, <<>>, frame')
      BY <1>6, <2>2, Zenon DEF Screen!DrawnAnew, Screen!Redraw
    <3> QED
      BY <1>1, <1>3, <3>1, Zenon
  <2> QED
    BY <2>1, <2>2
<1>7. CASE Screen!Redraw(frame, shown, lost, FALSE)
  <2>1. shown' = Screen!Painted(shown, frame, frame') /\ lost' = (lost \/ (FALSE /\ frame # frame'))
    BY <1>7, Zenon DEF Screen!Redraw
  <2> QED
    BY <1>1, <1>2, <2>1, Zenon
<1> QED
  BY <1>5, <1>6, <1>7, Zenon DEF Redraws

-----------------------------------------------------------------------------
\* The blocks that a step leaves are the ones that were there, as they were.
Inherits(B, A, m) ==
    \A i \in 1 .. Len(B) : B[i].id <= m =>
        \E j \in 1 .. Len(A) : B[i].id = A[j].id /\ B[i].kind = A[j].kind /\ B[i].expanded = A[j].expanded

\* An append, and the cut that follows it.
LEMMA AppendedIs ==
    ASSUME NEW m \in Nat, NEW B, InOrder(B, m), NEW x \in Blocks, x.id = m + 1
    PROVE  InOrder(Append(B, x), m + 1) /\ Inherits(Append(B, x), B, m)
           /\ Len(Append(B, x)) = Len(B) + 1 /\ Len(B) \in Nat /\ Append(B, x)[Len(B) + 1] = x
           /\ \A i \in 1 .. Len(B) : Append(B, x)[i] = B[i]
<1> DEFINE A == Append(B, x)
           n == Len(B)
<1>1. A \in Seq(Blocks) /\ Len(A) = n + 1 /\ n \in Nat /\ A[n + 1] = x /\ \A i \in 1 .. n : A[i] = B[i]
  <2>1. B \in Seq(Blocks)
    BY DEF InOrder
  <2> HIDE DEF Blocks
  <2> QED
    BY <2>1
<1> HIDE DEF A
<1>2. \A i \in 1 .. Len(A) : A[i].id \in 1 .. m + 1
  <2>1. \A i \in 1 .. n : B[i].id \in 1 .. m
    BY DEF InOrder
  <2>2. \A i \in 1 .. Len(A) : i = n + 1 \/ i \in 1 .. n
    BY <1>1
  <2> QED
    BY <1>1, <2>1, <2>2
<1>3. ASSUME NEW i \in 1 .. Len(A), NEW j \in 1 .. Len(A), i < j PROVE A[i].id < A[j].id
  <2>1. i \in 1 .. n /\ A[i] = B[i] /\ B[i].id \in 1 .. m
    BY <1>1, <1>3 DEF InOrder
  <2>2. CASE j = n + 1
    BY <1>1, <2>1, <2>2
  <2>3. CASE j # n + 1
    <3>1. j \in 1 .. n
      BY <1>1, <2>3
    <3> QED
      BY <1>1, <1>3, <2>1, <3>1 DEF InOrder
  <2> QED
    BY <2>2, <2>3
<1>4. Inherits(A, B, m)
  <2> SUFFICES ASSUME NEW i \in 1 .. Len(A), A[i].id <= m
               PROVE  \E j \in 1 .. Len(B) : A[i].id = B[j].id /\ A[i].kind = B[j].kind /\ A[i].expanded = B[j].expanded
    BY Zenon DEF Inherits
  <2>1. i # n + 1
    BY <1>1
  <2>2. i \in 1 .. n
    BY <1>1, <2>1
  <2> QED
    BY <1>1, <2>2, Zenon
<1> QED
  BY <1>1, <1>2, <1>3, <1>4 DEF A, InOrder

LEMMA CutIs ==
    ASSUME NEW m \in Nat, NEW A, InOrder(A, m), Len(A) > 0
    PROVE  \E d \in Nat : /\ Len(Screen!Capped(A)) = Len(A) - d /\ d < Len(A)
                          /\ \A i \in 1 .. Len(A) - d : Screen!Capped(A)[i] = A[i + d]
                          /\ (d > 0 => Len(Screen!Capped(A)) = MaxBlocks)
                          /\ (d = 0 => Screen!Capped(A) = A /\ Len(A) <= MaxBlocks)
                          /\ Screen!Capped(A) \in Seq(Blocks)
<1> DEFINE n == Len(A)
           from == Screen!AtLeast(1, n - MaxBlocks + 1)
           C == Screen!Capped(A)
<1>1. A \in Seq(Blocks) /\ n \in Nat /\ MaxBlocks \in Nat /\ MaxBlocks > 0
  <2> HIDE DEF Blocks
  <2> QED
    BY TerminalAssumption DEF InOrder, TerminalAssumption
<1>2. from \in 1 .. n /\ (from > 1 => n - from + 1 = MaxBlocks) /\ (from = 1 => n <= MaxBlocks)
  BY <1>1 DEF Screen!AtLeast
<1>3. C = SubSeq(A, from, n)
  BY Zenon DEF Screen!Capped
<1> HIDE DEF C, from, n
<1>4. C \in Seq(Blocks) /\ Len(C) = n - from + 1 /\ \A i \in 1 .. n - from + 1 : C[i] = A[from + i - 1]
  <2>1. n = Len(A)
    BY DEF n
  <2> HIDE DEF Blocks
  <2> QED
    BY <1>1, <1>2, <1>3, <2>1, SubSeqProperties
<1>5. from = 1 => C = A
  <2>1. from = 1 => C = SubSeq(A, 1, Len(A))
    BY <1>3 DEF n
  <2> HIDE DEF Blocks
  <2>2. SubSeq(A, 1, Len(A)) = A
    BY <1>1
  <2> QED
    BY <2>1, <2>2
<1>6. \A i \in 1 .. n - (from - 1) : C[i] = A[i + (from - 1)]
  <2>1. \A i \in 1 .. n - (from - 1) : i \in 1 .. n - from + 1 /\ from + i - 1 = i + (from - 1)
    BY <1>1, <1>2
  <2> QED
    BY <1>4, <2>1
<1>7. from - 1 \in Nat /\ from - 1 < n /\ Len(C) = n - (from - 1)
      /\ (from - 1 > 0 => Len(C) = MaxBlocks) /\ (from - 1 = 0 => C = A /\ n <= MaxBlocks)
  BY <1>1, <1>2, <1>4, <1>5
<1> QED
  BY <1>4, <1>6, <1>7 DEF C, n

LEMMA CutInherits ==
    ASSUME NEW m \in Nat, NEW k \in Nat, NEW B, NEW A, InOrder(A, m), Len(A) > 0, Inherits(A, B, k)
    PROVE  InOrder(Screen!Capped(A), m) /\ Inherits(Screen!Capped(A), B, k)
<1> DEFINE C == Screen!Capped(A)
<1>1. PICK d \in Nat : /\ Len(C) = Len(A) - d /\ d < Len(A)
                       /\ \A i \in 1 .. Len(A) - d : C[i] = A[i + d]
                       /\ C \in Seq(Blocks)
  BY CutIs, Zenon
<1>0. Len(A) \in Nat /\ \A i \in 1 .. Len(A) : A[i].id \in 1 .. m
  <2> HIDE DEF Blocks
  <2> QED
    BY DEF InOrder
<1>2. \A i \in 1 .. Len(C) : i + d \in 1 .. Len(A) /\ C[i] = A[i + d]
  BY <1>0, <1>1
<1> HIDE DEF C
<1>3. \A i \in 1 .. Len(C) : C[i].id \in 1 .. m
  BY <1>0, <1>2
<1>4. ASSUME NEW i \in 1 .. Len(C), NEW j \in 1 .. Len(C), i < j PROVE C[i].id < C[j].id
  <2>1. i + d \in 1 .. Len(A) /\ j + d \in 1 .. Len(A) /\ i + d < j + d
    BY <1>1, <1>2, <1>4
  <2>2. A[i + d].id < A[j + d].id
    BY <2>1 DEF InOrder
  <2> QED
    BY <1>2, <2>2
<1>5. Inherits(C, B, k)
  <2> SUFFICES ASSUME NEW i \in 1 .. Len(C), C[i].id <= k
               PROVE  \E j \in 1 .. Len(B) : C[i].id = B[j].id /\ C[i].kind = B[j].kind /\ C[i].expanded = B[j].expanded
    BY Zenon DEF Inherits
  <2> DEFINE place == i + d
  <2>1. place \in 1 .. Len(A) /\ C[i] = A[place]
    BY <1>2, Zenon
  <2> HIDE DEF place
  <2>2. A[place].id <= k
    BY <2>1, Zenon
  <2> QED
    BY <2>1, <2>2, Zenon DEF Inherits
<1> QED
  BY <1>1, <1>3, <1>4, <1>5 DEF C, InOrder

BlocksMove ==
    /\ InOrder(blocks', made') /\ made' \in 0 .. MaxMade /\ made <= made' /\ Inherits(blocks', blocks, made)

LEMMA MadeIs ==
    ASSUME ScreenInv, NEW k \in Screen!Kinds
    PROVE  Screen!Made(k) \in Blocks /\ Screen!Made(k).id = made + 1 /\ Screen!Made(k).kind = k
<1>1. made + 1 \in Nat /\ 1 \in 1 .. MaxLines
  BY TerminalAssumption DEF ScreenInv, TerminalAssumption
<1>2. (k = "assistant") \in BOOLEAN
  BY Zenon
<1>3. Screen!Made(k) = [id |-> made + 1, kind |-> k, expanded |-> FALSE, lines |-> 1, open |-> k = "assistant"]
  BY Zenon DEF Screen!Made
<1> DEFINE o == k = "assistant"
<1>4. o \in BOOLEAN
  BY <1>2
<1> HIDE DEF o
<1>5. [id |-> made + 1, kind |-> k, expanded |-> FALSE, lines |-> 1, open |-> o] \in Blocks
  BY <1>1, <1>4 DEF Blocks
<1> QED
  BY <1>3, <1>5 DEF o

\* A block is made, with and without the cut: the one that is cut off is the oldest.
LEMMA BlockAdded ==
    ASSUME ScreenInv, NEW k \in Screen!Kinds, Screen!CanMake(1), made' = made + 1,
           blocks' = Append(blocks, Screen!Made(k)) \/ blocks' = Screen!Capped(Append(blocks, Screen!Made(k)))
    PROVE  /\ BlocksMove
           /\ Len(blocks') \in Nat /\ Len(blocks') > 0 /\ blocks'[Len(blocks')].kind = k
           /\ blocks' = Append(blocks, Screen!Made(k)) \/ Len(blocks') >= MaxBlocks
           /\ blocks # <<>> /\ blocks'[1].id = blocks[1].id => blocks' = Append(blocks, Screen!Made(k))
<1> DEFINE x == Screen!Made(k)
           A == Append(blocks, x)
           n == Len(blocks)
<1>1. x \in Blocks /\ x.id = made + 1 /\ x.kind = k
  BY MadeIs
<1>2. made \in Nat /\ made' \in Nat /\ made' \in 0 .. MaxMade /\ InOrder(blocks, made) /\ made <= made'
  BY TerminalAssumption DEF ScreenInv, Screen!CanMake, TerminalAssumption
<1>3. /\ InOrder(A, made + 1) /\ Inherits(A, blocks, made) /\ Len(A) = n + 1 /\ n \in Nat /\ A[n + 1] = x
      /\ \A i \in 1 .. n : A[i] = blocks[i]
  BY <1>1, <1>2, AppendedIs
<1> HIDE DEF A, x, n
<1>4. CASE blocks' = A
  <2>1. BlocksMove
    BY <1>2, <1>3, <1>4 DEF BlocksMove
  <2> QED
    BY <1>1, <1>3, <1>4, <2>1 DEF A, x
<1>5. CASE blocks' = Screen!Capped(A)
  <2>1. InOrder(blocks', made') /\ Inherits(blocks', blocks, made)
    <3>1. InOrder(A, made') /\ Len(A) > 0
      BY <1>3
    <3> QED
      BY <1>2, <1>3, <1>5, <3>1, CutInherits
  <2>2. PICK d \in Nat : /\ Len(blocks') = Len(A) - d /\ d < Len(A)
                         /\ \A i \in 1 .. Len(A) - d : blocks'[i] = A[i + d]
                         /\ (d > 0 => Len(blocks') = MaxBlocks)
                         /\ (d = 0 => blocks' = A /\ Len(A) <= MaxBlocks)
    <3>1. InOrder(A, made') /\ Len(A) > 0
      BY <1>3
    <3> QED
      BY <1>2, <1>5, <3>1, CutIs, Zenon
  <2>3. Len(blocks') \in Nat /\ Len(blocks') > 0 /\ blocks'[Len(blocks')] = x
    <3>1. Len(blocks') \in 1 .. Len(A) - d /\ Len(blocks') + d = n + 1
      BY <1>3, <2>2
    <3>2. blocks'[Len(blocks')] = A[Len(blocks') + d]
      BY <2>2, <3>1
    <3> QED
      BY <1>3, <3>1, <3>2
  <2>4. d = 0 \/ Len(blocks') >= MaxBlocks
    BY <2>2, TerminalAssumption DEF TerminalAssumption
  <2>5. ASSUME blocks # <<>>, d > 0 PROVE blocks'[1].id # blocks[1].id
    <3>1. n > 0
      <4>1. blocks \in Seq(Blocks)
        BY <1>2 DEF InOrder
      <4> HIDE DEF Blocks
      <4> QED
        BY <2>5, <4>1 DEF n
    <3>2. 1 \in 1 .. n /\ 1 \in 1 .. Len(A) - d /\ 1 + d \in 1 .. Len(A) /\ 1 \in 1 .. Len(A) /\ 1 < 1 + d
      BY <1>3, <2>2, <2>5, <3>1
    <3>3. blocks'[1] = A[1 + d] /\ blocks[1] = A[1]
      BY <1>3, <2>2, <3>2
    <3>4. A[1].id < A[1 + d].id /\ A[1].id \in Nat /\ A[1 + d].id \in Nat
      BY <1>3, <3>2 DEF InOrder
    <3> QED
      BY <3>3, <3>4
  <2>6. d = 0 => blocks' = A
    BY <2>2
  <2>7. BlocksMove
    BY <1>2, <2>1 DEF BlocksMove
  <2>8. d = 0 \/ d > 0
    OBVIOUS
  <2> QED
    BY <1>1, <2>3, <2>4, <2>5, <2>6, <2>7, <2>8 DEF A, x
<1> QED
  BY <1>4, <1>5 DEF A, x

\* The last block goes on: it has the lines it had and perhaps one more.
LEMMA CountsMore ==
    ASSUME NEW b \in Blocks, NEW c \in Blocks, NEW s, NEW w,
           b.id = c.id, b.kind = c.kind, b.expanded = c.expanded, b.lines <= c.lines
    PROVE  Screen!RowCount(b, s, w) <= Screen!RowCount(c, s, w)
<1>1. Screen!Shows(b, s) <=> Screen!Shows(c, s)
  BY Zenon DEF Screen!Shows
<1>2. Screen!Collapsible(b) <=> Screen!Collapsible(c)
  BY Zenon DEF Screen!Collapsible
<1>3. b.lines \in Nat /\ c.lines \in Nat
  BY DEF Blocks
<1> QED
  BY <1>1, <1>2, <1>3 DEF Screen!RowCount

GoesOn(b) ==
    LET old == blocks[Len(blocks)]
    IN /\ b \in Blocks /\ b.id = old.id /\ b.kind = old.kind /\ b.expanded = old.expanded /\ old.lines <= b.lines
       /\ Len(blocks) > 0 /\ blocks' = [blocks EXCEPT ![Len(blocks)] = b] /\ made' = made

LEMMA BlockGoesOn ==
    ASSUME ScreenInv, NEW b, GoesOn(b)
    PROVE  /\ BlocksMove /\ Len(blocks') = Len(blocks)
           /\ \A s, w : Screen!Total(blocks, s, w) <= Screen!Total(blocks', s, w)
<1> DEFINE n == Len(blocks)
           old == blocks[n]
<1>1. InOrder(blocks, made) /\ made \in Nat /\ made \in 0 .. MaxMade
  BY TerminalAssumption DEF ScreenInv, TerminalAssumption
<1>2. /\ b \in Blocks /\ b.id = old.id /\ b.kind = old.kind /\ b.expanded = old.expanded /\ old.lines <= b.lines
      /\ n > 0 /\ blocks' = [blocks EXCEPT ![n] = b] /\ made' = made
  BY Zenon DEF GoesOn
<1>3. blocks \in Seq(Blocks) /\ n \in Nat /\ n \in 1 .. n
  <2>1. blocks \in Seq(Blocks)
    BY <1>1 DEF InOrder
  <2> HIDE DEF Blocks
  <2> QED
    BY <1>2, <2>1
<1> HIDE DEF n
<1>4. blocks' \in Seq(Blocks) /\ Len(blocks') = n /\ blocks'[n] = b /\ \A i \in 1 .. n : i # n => blocks'[i] = blocks[i]
  <2> HIDE DEF Blocks
  <2>1. n = Len(blocks)
    BY DEF n
  <2> QED
    BY <1>2, <1>3, <2>1
<1>5. \A i \in 1 .. n : /\ blocks'[i].id = blocks[i].id /\ blocks'[i].kind = blocks[i].kind
                        /\ blocks'[i].expanded = blocks[i].expanded
  <2> SUFFICES ASSUME NEW i \in 1 .. n
               PROVE  /\ blocks'[i].id = blocks[i].id /\ blocks'[i].kind = blocks[i].kind
                      /\ blocks'[i].expanded = blocks[i].expanded
    OBVIOUS
  <2>1. CASE i = n
    BY <1>2, <1>4, <2>1, Zenon
  <2>2. CASE i # n
    BY <1>4, <2>2, Zenon
  <2> QED
    BY <2>1, <2>2
<1>6. Inherits(blocks', blocks, made)
  BY <1>4, <1>5, Zenon DEF Inherits, n
<1>7. InOrder(blocks', made')
  <2>1. \A i \in 1 .. n : blocks[i].id \in 1 .. made
    BY <1>1 DEF InOrder, n
  <2>2. \A i, j \in 1 .. n : i < j => blocks[i].id < blocks[j].id
    BY <1>1, Zenon DEF InOrder, n
  <2>3. \A i, j \in 1 .. n : i < j => blocks'[i].id < blocks'[j].id
    BY <1>5, <2>2
  <2>4. \A i \in 1 .. n : blocks'[i].id \in 1 .. made
    BY <1>5, <2>1
  <2> QED
    BY <1>2, <1>4, <2>3, <2>4, Zenon DEF InOrder
<1>8. \A s, w : Screen!Total(blocks, s, w) <= Screen!Total(blocks', s, w)
  <2> SUFFICES ASSUME NEW s, NEW w PROVE Screen!Total(blocks, s, w) <= Screen!Total(blocks', s, w)
    OBVIOUS
  <2>1. ASSUME NEW i \in 1 .. n PROVE Screen!RowCount(blocks[i], s, w) <= Screen!RowCount(blocks'[i], s, w)
    <3>1. blocks[i] \in Blocks /\ blocks'[i] \in Blocks
      <4> HIDE DEF Blocks
      <4> QED
        BY <1>3, <1>4 DEF n
    <3>2. blocks[i].lines \in Nat
      BY <3>1 DEF Blocks
    <3>3. blocks[i].lines <= blocks'[i].lines
      <4>1. CASE i = n
        BY <1>2, <1>4, <4>1
      <4>2. CASE i # n
        BY <1>4, <3>2, <4>2
      <4> QED
        BY <4>1, <4>2
    <3> QED
      BY <1>5, <3>1, <3>3, CountsMore
  <2>2. Len(blocks) = Len(blocks')
    BY <1>4 DEF n
  <2> QED
    BY <1>3, <1>4, <2>1, <2>2, TotalMore DEF n
<1>9. made' \in 0 .. MaxMade /\ made <= made'
  BY <1>1, <1>2
<1>10. BlocksMove
  BY <1>6, <1>7, <1>9, Zenon DEF BlocksMove
<1> QED
  BY <1>4, <1>8, <1>10, Zenon DEF n

LEMMA BlocksStand ==
    ASSUME ScreenInv, blocks' = blocks, made' = made
    PROVE  BlocksMove
<1>1. InOrder(blocks', made') /\ made' \in 0 .. MaxMade /\ made <= made'
  BY TerminalAssumption DEF ScreenInv, TerminalAssumption
<1>2. Inherits(blocks', blocks, made)
  BY Zenon DEF Inherits
<1> QED
  BY <1>1, <1>2 DEF BlocksMove

\* What a run reports.
LEMMA DeltaIs ==
    ASSUME ScreenInv, Screen!AssistantDelta
    PROVE  (\E b : GoesOn(b)) \/ (Screen!CanMake(1) /\ Screen!Adds("assistant"))
<1> DEFINE n == Len(blocks)
           old == blocks[n]
<1>1. CASE ~(n > 0 /\ blocks[n].open)
  BY <1>1, Zenon DEF Screen!AssistantDelta
<1>2. CASE n > 0 /\ blocks[n].open
  <2>1. /\ old.lines < MaxLines /\ blocks' = [blocks EXCEPT ![n].lines = @ + 1] /\ made' = made
    BY <1>2, Zenon DEF Screen!AssistantDelta
  <2> DEFINE b == [old EXCEPT !.lines = old.lines + 1]
  <2>2. old \in Blocks
    <3>1. blocks \in Seq(Blocks) /\ n \in 1 .. n
      BY <1>2 DEF ScreenInv, InOrder
    <3> HIDE DEF Blocks
    <3> QED
      BY <3>1
  <2>3. blocks' = [blocks EXCEPT ![n] = b]
    BY <2>1, Zenon
  <2>4. old.lines \in Nat /\ old.lines + 1 \in 1 .. MaxLines
    BY <2>1, <2>2, TerminalAssumption DEF Blocks, TerminalAssumption
  <2>5. b \in Blocks /\ b.id = old.id /\ b.kind = old.kind /\ b.expanded = old.expanded /\ b.lines = old.lines + 1
    <3> HIDE DEF old
    <3>1. DOMAIN old = {"id", "kind", "expanded", "lines", "open"}
      BY <2>2 DEF Blocks
    <3>2. b.id = old.id /\ b.kind = old.kind /\ b.lines = old.lines + 1
      BY <3>1
    <3>3. b.expanded = old.expanded
      BY <3>1, Zenon
    <3>4. b \in Blocks
      BY <2>2, <2>4 DEF Blocks
    <3> QED
      BY <3>2, <3>3, <3>4
  <2> HIDE DEF b
  <2>6. old.lines <= b.lines
    BY <2>4, <2>5
  <2>7. GoesOn(b)
    BY <1>2, <2>1, <2>3, <2>5, <2>6, Zenon DEF GoesOn
  <2> QED
    BY <2>7, Zenon
<1> QED
  BY <1>1, <1>2

LEMMA DoneIs ==
    ASSUME ScreenInv, Screen!AssistantDone
    PROVE  \E b : GoesOn(b)
<1> DEFINE n == Len(blocks)
           old == blocks[n]
           b == [old EXCEPT !.open = FALSE]
<1>1. n > 0 /\ blocks' = [blocks EXCEPT ![n].open = FALSE] /\ made' = made
  BY Zenon DEF Screen!AssistantDone
<1>2. old \in Blocks
  <2>1. blocks \in Seq(Blocks) /\ n \in 1 .. n
    BY <1>1 DEF ScreenInv, InOrder
  <2> HIDE DEF Blocks
  <2> QED
    BY <2>1
<1>3. blocks' = [blocks EXCEPT ![n] = b]
  BY <1>1, Zenon
<1>4. b \in Blocks /\ b.id = old.id /\ b.kind = old.kind /\ b.expanded = old.expanded /\ b.lines = old.lines
  <2> HIDE DEF old
  <2>1. DOMAIN old = {"id", "kind", "expanded", "lines", "open"}
    BY <1>2 DEF Blocks
  <2>2. b.id = old.id /\ b.kind = old.kind /\ b.lines = old.lines
    BY <2>1
  <2>3. b.expanded = old.expanded
    BY <2>1, Zenon
  <2>4. b \in Blocks
    BY <1>2 DEF Blocks
  <2> QED
    BY <2>2, <2>3, <2>4
<1>5. old.lines <= b.lines
  <2>1. old.lines \in Nat
    BY <1>2 DEF Blocks
  <2> QED
    BY <1>4, <2>1
<1> HIDE DEF b
<1>6. GoesOn(b)
  BY <1>1, <1>3, <1>4, <1>5, Zenon DEF GoesOn
<1> QED
  BY <1>6, Zenon

-----------------------------------------------------------------------------
LEMMA ScrollMaxIs ==
    ASSUME NEW B \in Seq(Blocks), NEW s, NEW w
    PROVE  Screen!ScrollMax(B, s, w) \in Nat
<1>1. Screen!Total(B, s, w) \in Nat
  BY LinesCount
<1> QED
  BY <1>1, TerminalAssumption DEF TerminalAssumption, Screen!ScrollMax, Screen!MaxTop, Screen!AtLeast

LEMMA ScreenKept ==
    ASSUME ScreenInv, BlocksMove, sel' \in 0 .. made', chat' \in ChatViews, panel' \in Panels,
           Folding(blocks', sel'), Asks', Follows', Redraws
    PROVE  ScreenInv'
<1>1. Framed' /\ OnScreen'
  BY DrawnIsShown DEF ScreenInv
<1>2. InOrder(blocks, made)' /\ Folding(blocks, sel)'
  BY Zenon DEF BlocksMove
<1> QED
  BY <1>1, <1>2, Zenon DEF BlocksMove, ScreenInv, Panels, ChatViews

LEMMA CursorKept ==
    ASSUME ScreenInv, BlocksMove, sel' = sel
    PROVE  sel' \in 0 .. made' /\ Folding(blocks', sel')
<1>1. sel \in 0 .. made /\ made \in Nat /\ made' \in Nat /\ made <= made' /\ Folding(blocks, sel)
  BY TerminalAssumption DEF ScreenInv, BlocksMove, TerminalAssumption
<1>2. sel' \in 0 .. made' /\ sel <= made
  BY <1>1
<1>3. Folding(blocks', sel')
  <2> SUFFICES ASSUME NEW i \in 1 .. Len(blocks'), blocks'[i].id = sel PROVE Screen!Collapsible(blocks'[i])
    BY Zenon DEF Folding
  <2>1. blocks'[i].id <= made
    BY <1>2
  <2>2. PICK j \in 1 .. Len(blocks) : blocks'[i].id = blocks[j].id /\ blocks'[i].kind = blocks[j].kind
    BY <2>1, Zenon DEF BlocksMove, Inherits
  <2> QED
    BY <1>1, <2>2, Zenon DEF Folding, Screen!Collapsible
<1> QED
  BY <1>2, <1>3

\* A step that pins the view to the bottom.
LEMMA PinnedKeeps ==
    ASSUME ScreenInv, BlocksMove, Screen!ScrollBottom, Redraws,
           sel' \in 0 .. made', Folding(blocks', sel'), panel' \in Panels, Asks'
    PROVE  ScreenInv'
<1>1. blocks' \in Seq(Blocks)
  BY DEF BlocksMove, InOrder
<1>2. chat' = [top |-> Screen!ScrollMax(blocks', sel', wide'), bottom |-> TRUE]
  BY Zenon DEF Screen!ScrollBottom
<1>3. chat' \in ChatViews /\ chat'.bottom
  BY <1>1, <1>2, ScrollMaxIs DEF ChatViews
<1>4. Follows'
  BY <1>3, Zenon DEF Follows, Reached
<1> QED
  BY <1>3, <1>4, ScreenKept

LEMMA NoticesKeep ==
    ASSUME ScreenInv, Screen!Notice \/ Screen!Submit \/ Screen!CaptureBegins \/ Screen!CaptureEnds \/ Screen!Suspended
    PROVE  ScreenInv'
<1>1. /\ Screen!CanMake(1) /\ (Screen!Adds("note") \/ Screen!PushUser) /\ UNCHANGED <<sel, panel, asking>>
      /\ Screen!ScrollBottom /\ Redraws
  BY Zenon DEF Screen!Notice, Screen!Submit, Screen!CaptureBegins, Screen!CaptureEnds, Screen!Suspended, Redraws
<1>2. BlocksMove
  <2>1. "note" \in Screen!Kinds /\ "user" \in Screen!Kinds
    BY DEF Screen!Kinds
  <2>2. CASE Screen!Adds("note")
    BY <1>1, <2>1, <2>2, BlockAdded DEF Screen!Adds
  <2>3. CASE Screen!PushUser
    BY <1>1, <2>1, <2>3, BlockAdded DEF Screen!PushUser
  <2> QED
    BY <1>1, <2>2, <2>3
<1>3. panel' \in Panels /\ Asks'
  BY <1>1, Zenon DEF ScreenInv, Asks
<1> QED
  BY <1>1, <1>2, <1>3, CursorKept, PinnedKeeps

LEMMA TurnsKeep ==
    ASSUME ScreenInv, Screen!TurnEnds \/ Screen!AskTool
    PROVE  ScreenInv'
<1>1. UNCHANGED <<blocks, made, sel>> /\ Screen!ScrollBottom /\ Redraws
  BY Zenon DEF Screen!TurnEnds, Screen!AskTool, Redraws
<1>2. panel' \in Panels /\ Asks'
  <2>1. CASE Screen!TurnEnds
    <3>1. UNCHANGED <<panel, asking>> \/ (panel' = "plan" /\ asking' = TRUE)
      BY <2>1, Zenon DEF Screen!TurnEnds
    <3> QED
      BY <3>1 DEF ScreenInv, Asks, Panels
  <2>2. CASE Screen!AskTool
    <3>1. panel' = "tool" /\ asking' = TRUE
      BY <2>2, Zenon DEF Screen!AskTool
    <3> QED
      BY <3>1 DEF Asks, Panels
  <2> QED
    BY <2>1, <2>2
<1>3. BlocksMove
  BY <1>1, BlocksStand
<1> QED
  BY <1>1, <1>2, <1>3, CursorKept, PinnedKeeps

LEMMA IdsTell ==
    ASSUME NEW m \in Nat, NEW B, InOrder(B, m), NEW i \in 1 .. Len(B), NEW j \in 1 .. Len(B), B[j].id = B[i].id
    PROVE  j = i
<1> SUFFICES ASSUME j # i PROVE FALSE
  OBVIOUS
<1>1. B[i].id \in 1 .. m /\ B[j].id \in 1 .. m
  BY DEF InOrder
<1>2. i < j \/ j < i
  OBVIOUS
<1>3. B[i].id < B[j].id \/ B[j].id < B[i].id
  BY <1>2 DEF InOrder
<1> QED
  BY <1>1, <1>3

LEMMA CursorMovesKeep ==
    ASSUME ScreenInv, Screen!MoveSelection \/ Screen!ClearSelection
    PROVE  ScreenInv'
<1>1. UNCHANGED <<blocks, made, panel, asking>> /\ Screen!ScrollBottom /\ Redraws
  BY Zenon DEF Screen!MoveSelection, Screen!ClearSelection, Redraws
<1>2. panel' \in Panels /\ Asks'
  BY <1>1, Zenon DEF ScreenInv, Asks
<1>3. BlocksMove
  BY <1>1, BlocksStand
<1>4. InOrder(blocks, made) /\ made \in Nat
  BY TerminalAssumption DEF ScreenInv, TerminalAssumption
<1>5. CASE Screen!ClearSelection
  <2>1. sel' = 0
    BY <1>5, Zenon DEF Screen!ClearSelection
  <2>2. sel' \in 0 .. made'
    BY <1>1, <1>4, <2>1
  <2>3. \A i \in 1 .. Len(blocks) : blocks[i].id # 0
    <3>1. \A i \in 1 .. Len(blocks) : blocks[i].id \in 1 .. made
      BY <1>4 DEF InOrder
    <3> QED
      BY <3>1
  <2>4. Folding(blocks', sel')
    BY <1>1, <2>1, <2>3, Zenon DEF Folding
  <2> QED
    BY <1>1, <1>2, <1>3, <2>2, <2>4, PinnedKeeps
<1>6. CASE Screen!MoveSelection
  <2> DEFINE stops == {i \in 1 .. Len(blocks) : Screen!Collapsible(blocks[i])}
             here  == IF sel \in Screen!Ids(blocks) THEN Screen!At(blocks, sel) ELSE 0
             next  == {i \in stops : i > here}
             prev  == {i \in stops : here = 0 \/ i < here}
  <2>1. \/ next # {} /\ sel' = blocks[CHOOSE i \in next : \A j \in next : i <= j].id
        \/ prev # {} /\ sel' = blocks[CHOOSE i \in prev : \A j \in prev : i >= j].id
    BY <1>6, Zenon DEF Screen!MoveSelection
  <2>0. Len(blocks) \in Nat
    <3>1. blocks \in Seq(Blocks)
      BY <1>4 DEF InOrder
    <3> HIDE DEF Blocks
    <3> QED
      BY <3>1
  <2>2. next # {} => (CHOOSE i \in next : \A j \in next : i <= j) \in next
    <3>1. next \in SUBSET Nat
      BY <2>0
    <3>2. next # {} => \E i \in next : \A j \in next : i <= j
      BY <3>1, LeastNumber
    <3> HIDE DEF next
    <3> QED
      BY <3>2, Zenon
  <2>3. prev # {} => (CHOOSE i \in prev : \A j \in prev : i >= j) \in prev
    <3> DEFINE down == {k \in 0 .. Len(blocks) : Len(blocks) - k \in prev}
    <3>1. down \in SUBSET Nat /\ \A i \in prev : i \in 1 .. Len(blocks) /\ Len(blocks) - i \in 0 .. Len(blocks)
          /\ Len(blocks) - (Len(blocks) - i) = i
      BY <2>0
    <3> HIDE DEF prev
    <3>2. ASSUME prev # {} PROVE \E i \in prev : \A j \in prev : i >= j
      <4>1. down # {}
        BY <3>1, <3>2
      <4>2. PICK k \in down : \A l \in down : k <= l
        BY <3>1, <4>1, LeastNumber
      <4>3. \A j \in prev : Len(blocks) - j \in down
        BY <3>1
      <4>4. \A j \in prev : Len(blocks) - k >= j
        BY <2>0, <3>1, <4>2, <4>3
      <4>5. Len(blocks) - k \in prev
        BY <4>2
      <4> QED
        BY <4>4, <4>5
    <3> QED
      BY <3>2, Zenon
  <2>4. \E i \in stops : sel' = blocks[i].id
    BY <2>1, <2>2, <2>3, Zenon
  <2>5. PICK i \in 1 .. Len(blocks) : sel' = blocks[i].id /\ Screen!Collapsible(blocks[i])
    BY <2>4, Zenon
  <2>6. sel' \in 0 .. made'
    <3>1. blocks[i].id \in 1 .. made
      BY <1>4 DEF InOrder
    <3> QED
      BY <1>1, <1>4, <2>5, <3>1
  <2>7. \A j \in 1 .. Len(blocks) : blocks[j].id = blocks[i].id => j = i
    BY <1>4, IdsTell
  <2>8. Folding(blocks', sel')
    BY <1>1, <2>5, <2>7, Zenon DEF Folding
  <2> QED
    BY <1>1, <1>2, <1>3, <2>6, <2>8, PinnedKeeps
<1> QED
  BY <1>5, <1>6

LEMMA AnswersKeep ==
    ASSUME ScreenInv, Screen!AnswerTool \/ Screen!AnswerPlan
    PROVE  ScreenInv'
<1>1. UNCHANGED <<sel, wide>> /\ asking' = FALSE /\ (panel' = "none" \/ panel' = panel) /\ Redraws
  BY Zenon DEF Screen!AnswerTool, Screen!AnswerPlan, Redraws
<1>2. panel' \in Panels /\ Asks'
  BY <1>1, Zenon DEF ScreenInv, Asks, Panels
<1>3. CASE UNCHANGED <<blocks, made, chat>> /\ (busy' = busy \/ asking)
  <2>1. BlocksMove
    BY <1>3, BlocksStand
  <2>2. Follows'
    BY <1>1, <1>3, Zenon DEF ScreenInv, Follows, Reached
  <2>3. chat' \in ChatViews
    BY <1>3, Zenon DEF ScreenInv
  <2> QED
    BY <1>1, <1>2, <2>1, <2>2, <2>3, CursorKept, ScreenKept
<1>4. CASE Screen!CanMake(1) /\ Screen!Adds("note") /\ chat' = [top |-> Screen!ScrollMax(blocks', sel, wide), bottom |-> TRUE]
  <2>1. "note" \in Screen!Kinds
    BY DEF Screen!Kinds
  <2>2. BlocksMove
    BY <1>4, <2>1, BlockAdded DEF Screen!Adds
  <2>3. Screen!ScrollBottom
    BY <1>1, <1>4, Zenon DEF Screen!ScrollBottom
  <2> QED
    BY <1>1, <1>2, <2>2, <2>3, CursorKept, PinnedKeeps
<1>5. CASE Screen!AnswerTool
  BY <1>3, <1>5, Zenon DEF Screen!AnswerTool
<1>6. CASE Screen!AnswerPlan
  BY <1>3, <1>4, <1>6, Zenon DEF Screen!AnswerPlan
<1> QED
  BY <1>5, <1>6

LEMMA HelpKeeps ==
    ASSUME ScreenInv, Screen!Help
    PROVE  ScreenInv'
<1>1. UNCHANGED <<blocks, made, sel, chat, wide, busy, asking>> /\ ~asking /\ (panel' = "help" \/ panel' = "none") /\ Redraws
  BY Zenon DEF Screen!Help, Redraws
<1>2. panel' \in Panels /\ Asks'
  BY <1>1, Zenon DEF Asks, Panels
<1>3. BlocksMove
  BY <1>1, BlocksStand
<1>4. Follows' /\ chat' \in ChatViews
  BY <1>1, Zenon DEF ScreenInv, Follows, Reached
<1> QED
  BY <1>1, <1>2, <1>3, <1>4, CursorKept, ScreenKept

LEMMA ScrollKeeps ==
    ASSUME ScreenInv, Screen!Scroll
    PROVE  ScreenInv'
<1> DEFINE most == Screen!ScrollMax(blocks, sel, wide)
           down == Screen!AtMost(chat.top + WheelRows, most)
           up   == Screen!AtMost(Screen!AtLeast(0, chat.top - WheelRows), most)
<1>1. UNCHANGED <<blocks, made, sel, wide, busy, panel, asking>> /\ Redraws
  BY Zenon DEF Screen!Scroll, Redraws
<1>2. \/ chat' = [top |-> up, bottom |-> FALSE]
      \/ chat' = [top |-> down, bottom |-> (down >= most)]
      \/ chat' = [top |-> 0, bottom |-> FALSE]
      \/ chat' = [top |-> most, bottom |-> TRUE]
  BY Zenon DEF Screen!Scroll
<1>3. most \in Nat
  <2>1. blocks \in Seq(Blocks)
    BY DEF ScreenInv, InOrder
  <2> QED
    BY <2>1, ScrollMaxIs
<1>4. chat.top \in Nat /\ WheelRows \in Nat
  BY TerminalAssumption DEF ScreenInv, ChatViews, TerminalAssumption
<1> HIDE DEF most
<1>5. up \in Nat /\ up <= most /\ down \in Nat /\ down <= most
  BY <1>3, <1>4 DEF Screen!AtMost, Screen!AtLeast
<1> HIDE DEF up, down
<1> DEFINE o == down >= most
<1>6. o \in BOOLEAN
  BY <1>3, <1>5
<1> HIDE DEF o
<1>7. chat' \in ChatViews /\ chat'.top <= most
  <2>1. CASE chat' = [top |-> down, bottom |-> o]
    BY <1>5, <1>6, <2>1 DEF ChatViews
  <2>2. CASE chat' = [top |-> up, bottom |-> FALSE]
    BY <1>5, <2>2 DEF ChatViews
  <2>3. CASE chat' = [top |-> 0, bottom |-> FALSE]
    BY <1>3, <2>3 DEF ChatViews
  <2>4. CASE chat' = [top |-> most, bottom |-> TRUE]
    BY <1>3, <2>4 DEF ChatViews
  <2> QED
    BY <1>2, <2>1, <2>2, <2>3, <2>4, Zenon DEF o
<1>8. Follows'
  BY <1>1, <1>7, Zenon DEF Follows, Reached, most
<1>9. panel' \in Panels /\ Asks'
  BY <1>1, Zenon DEF ScreenInv, Asks
<1>10. BlocksMove
  BY <1>1, BlocksStand
<1> QED
  BY <1>1, <1>7, <1>8, <1>9, <1>10, CursorKept, ScreenKept

LEMMA ResizeKeeps ==
    ASSUME ScreenInv, Screen!Resize
    PROVE  ScreenInv'
<1> DEFINE most == Screen!ScrollMax(blocks, sel, wide')
           t == IF chat.bottom THEN most ELSE Screen!AtMost(chat.top, most)
<1>1. UNCHANGED <<blocks, made, sel, busy, panel, asking>> /\ Redraws /\ chat' = [chat EXCEPT !.top = t]
  BY Zenon DEF Screen!Resize, Redraws
<1>2. most \in Nat
  <2>1. blocks \in Seq(Blocks)
    BY DEF ScreenInv, InOrder
  <2> QED
    BY <2>1, ScrollMaxIs
<1>3. chat.top \in Nat /\ chat \in ChatViews
  BY DEF ScreenInv, ChatViews
<1> HIDE DEF most
<1>4. t \in Nat /\ t <= most
  BY <1>2, <1>3 DEF Screen!AtMost
<1> HIDE DEF t
<1>5. chat' \in ChatViews /\ chat'.top <= most
  BY <1>1, <1>3, <1>4 DEF ChatViews
<1>6. Follows'
  BY <1>1, <1>5, Zenon DEF Follows, Reached, most
<1>7. panel' \in Panels /\ Asks'
  BY <1>1, Zenon DEF ScreenInv, Asks
<1>8. BlocksMove
  BY <1>1, BlocksStand
<1> QED
  BY <1>1, <1>5, <1>6, <1>7, <1>8, CursorKept, ScreenKept

\* What a run reports leaves the reader where he is.
LEMMA EmitMoves ==
    ASSUME ScreenInv, Screen!Emit
    PROVE  /\ BlocksMove /\ UNCHANGED <<sel, chat, wide, busy, panel, asking>> /\ Redraws
           /\ Screen!Total(blocks, sel, wide) <= Screen!Total(blocks', sel, wide) \/ Len(blocks') >= MaxBlocks
           /\ Len(blocks) >= MaxBlocks => Len(blocks') >= MaxBlocks
<1>1. UNCHANGED <<sel, chat, wide, busy, panel, asking>> /\ Redraws
  BY Zenon DEF Screen!Emit, Redraws
<1>2. ASSUME NEW b, GoesOn(b)
      PROVE  /\ BlocksMove /\ Len(blocks') = Len(blocks)
             /\ Screen!Total(blocks, sel, wide) <= Screen!Total(blocks', sel, wide)
  BY <1>2, BlockGoesOn
<1>3. ASSUME NEW k \in Screen!Kinds, Screen!CanMake(1), Screen!Adds(k)
      PROVE  /\ BlocksMove
             /\ Screen!Total(blocks, sel, wide) <= Screen!Total(blocks', sel, wide) \/ Len(blocks') >= MaxBlocks
             /\ Len(blocks) >= MaxBlocks => Len(blocks') >= MaxBlocks
  <2>0. blocks \in Seq(Blocks) /\ Len(blocks) \in Nat
    <3>1. blocks \in Seq(Blocks)
      BY DEF ScreenInv, InOrder
    <3> HIDE DEF Blocks
    <3> QED
      BY <3>1
  <2>1. BlocksMove /\ (blocks' = Append(blocks, Screen!Made(k)) \/ Len(blocks') >= MaxBlocks)
    BY <1>3, BlockAdded DEF Screen!Adds
  <2>2. Screen!Made(k) \in Blocks
    BY MadeIs
  <2>3. ASSUME blocks' = Append(blocks, Screen!Made(k))
        PROVE  Screen!Total(blocks, sel, wide) <= Screen!Total(blocks', sel, wide)
    BY <2>0, <2>2, <2>3, LinesGrow, Zenon
  <2>4. blocks' = Append(blocks, Screen!Made(k)) => Len(blocks') = Len(blocks) + 1
    <3> DEFINE x == Screen!Made(k)
    <3>1. x \in Blocks
      BY <2>2
    <3> HIDE DEF Blocks, x
    <3>2. Len(Append(blocks, x)) = Len(blocks) + 1
      BY <2>0, <3>1
    <3> QED
      BY <3>2 DEF x
  <2>5. Len(blocks) >= MaxBlocks => Len(blocks') >= MaxBlocks
    BY <2>0, <2>1, <2>4, TerminalAssumption DEF TerminalAssumption
  <2> QED
    BY <2>1, <2>3, <2>5
<1>4. "assistant" \in Screen!Kinds /\ {"start", "result", "note"} \subseteq Screen!Kinds
  BY DEF Screen!Kinds
<1>5. \/ Screen!AssistantDelta \/ Screen!AssistantDone
      \/ \E k \in {"start", "result", "note"} : Screen!CanMake(1) /\ Screen!Adds(k)
  BY Zenon DEF Screen!Emit
<1>6. (\E b : GoesOn(b)) \/ \E k \in Screen!Kinds : Screen!CanMake(1) /\ Screen!Adds(k)
  BY <1>4, <1>5, DeltaIs, DoneIs, Zenon
<1>7. CASE \E b : GoesOn(b)
  <2>1. /\ BlocksMove /\ Len(blocks') = Len(blocks)
        /\ Screen!Total(blocks, sel, wide) <= Screen!Total(blocks', sel, wide)
    BY <1>2, <1>7, Zenon
  <2> QED
    BY <1>1, <2>1
<1>8. CASE \E k \in Screen!Kinds : Screen!CanMake(1) /\ Screen!Adds(k)
  <2>1. PICK k \in Screen!Kinds : Screen!CanMake(1) /\ Screen!Adds(k)
    BY <1>8
  <2> QED
    BY <1>1, <1>3, <2>1
<1> QED
  BY <1>6, <1>7, <1>8

LEMMA EmitKeeps ==
    ASSUME ScreenInv, Screen!Emit
    PROVE  ScreenInv'
<1>1. /\ BlocksMove /\ UNCHANGED <<sel, chat, wide, busy, panel, asking>> /\ Redraws
      /\ Screen!Total(blocks, sel, wide) <= Screen!Total(blocks', sel, wide) \/ Len(blocks') >= MaxBlocks
      /\ Len(blocks) >= MaxBlocks => Len(blocks') >= MaxBlocks
  BY EmitMoves, Zenon
<1>2. ASSUME chat.top <= Screen!ScrollMax(blocks, sel, wide),
             Screen!Total(blocks, sel, wide) <= Screen!Total(blocks', sel, wide)
      PROVE  chat.top <= Screen!ScrollMax(blocks', sel, wide)
  <2>1. Screen!Total(blocks, sel, wide) \in Nat /\ Screen!Total(blocks', sel, wide) \in Nat
    <3>1. blocks \in Seq(Blocks) /\ blocks' \in Seq(Blocks)
      BY <1>1, Zenon DEF ScreenInv, InOrder, BlocksMove
    <3> QED
      BY <3>1, LinesCount
  <2>2. chat.top \in Nat
    BY DEF ScreenInv, ChatViews
  <2> QED
    BY <1>2, <2>1, <2>2, TerminalAssumption DEF TerminalAssumption, Screen!ScrollMax, Screen!MaxTop, Screen!AtLeast
<1>3. Follows'
  <2> SUFFICES ASSUME busy' \/ asking' PROVE Reached(blocks, sel, wide, chat)'
    BY Zenon DEF Follows
  <2>1. Reached(blocks, sel, wide, chat)
    BY <1>1, Zenon DEF ScreenInv, Follows
  <2>2. chat'.bottom \/ chat'.top <= Screen!ScrollMax(blocks', sel', wide') \/ Len(blocks') >= MaxBlocks
    BY <1>1, <1>2, <2>1, Zenon DEF Reached
  <2> QED
    BY <2>2, Zenon DEF Reached
<1>4. panel' \in Panels /\ Asks' /\ chat' \in ChatViews
  BY <1>1, Zenon DEF ScreenInv, Asks
<1> QED
  BY <1>1, <1>3, <1>4, CursorKept, ScreenKept

-----------------------------------------------------------------------------
\* A click: the row it is on is one that is shown, and is a tool's.
LEMMA HitIs ==
    ASSUME ScreenInv, NEW r \in 1 .. Window, Screen!HitTest(r) # 0
    PROVE  /\ ~Screen!Covered(blocks, panel)
           /\ \E i \in 1 .. Len(blocks) : /\ Screen!At(blocks, Screen!HitTest(r)) = i
                                          /\ blocks[i].id = Screen!HitTest(r) /\ Screen!Collapsible(blocks[i])
           /\ \E row : /\ row.id = Screen!HitTest(r) /\ row.part = 1 /\ row.look # "none"
                       /\ ~busy => RowShown(blocks, sel, chat, wide, busy, panel, r) = row
<1> DEFINE rows == Screen!Lines(blocks, sel, wide)
           n == Screen!Total(blocks, sel, wide)
           top == TopOf(blocks, sel, chat, wide, busy, panel)
           spot == top + r
           row == rows[spot]
<1>0. InOrder(blocks, made) /\ blocks \in Seq(Blocks) /\ made \in Nat
  BY TerminalAssumption DEF ScreenInv, InOrder, TerminalAssumption
<1>1. rows \in Seq(RowSet(blocks, sel, wide)) /\ Len(rows) = n /\ n \in Nat
  BY <1>0, LinesCount, Zenon
<1>2. top \in Nat
  BY <1>0, <1>1, HeightIs, TopIs DEF ScreenInv, TopOf
<1>3. Screen!HitTest(r) =
        IF ~Screen!Covered(blocks, panel) /\ spot <= Len(rows) /\ rows[spot].part = 1 /\ rows[spot].look # "text"
        THEN rows[spot].id ELSE 0
  BY <1>1, Zenon DEF Screen!HitTest, TopOf
<1>4. ~Screen!Covered(blocks, panel) /\ spot <= Len(rows) /\ row.part = 1 /\ row.look # "text" /\ Screen!HitTest(r) = row.id
  BY <1>3, Zenon
<1> HIDE DEF rows, n, top
<1>5. spot \in 1 .. Len(rows)
  BY <1>1, <1>2, <1>4
<1>6. row \in RowSet(blocks, sel, wide)
  BY <1>1, <1>5
<1> HIDE DEF row
<1>7. PICK i \in 1 .. Len(blocks) : row.id = blocks[i].id /\ (row.look # "text" => Screen!Collapsible(blocks[i])) /\ row.look # "none"
  BY <1>6, RowIs
<1>8. Screen!At(blocks, row.id) = i
  <2>1. Screen!At(blocks, row.id) \in 1 .. Len(blocks) /\ blocks[Screen!At(blocks, row.id)].id = row.id
    BY <1>7, Zenon DEF Screen!At
  <2> QED
    BY <1>0, <1>7, <2>1, IdsTell
<1>9. ~busy => RowShown(blocks, sel, chat, wide, busy, panel, r) = row
  BY <1>1, <1>4, Zenon DEF RowShown, rows, n, top, row
<1> QED
  BY <1>4, <1>7, <1>8, <1>9, Zenon

\* What a click changes.
LEMMA ClickIs ==
    ASSUME ScreenInv, Screen!Click
    PROVE  \E r \in 1 .. Window, a \in 1 .. Len(blocks) :
             /\ Screen!HitTest(r) # 0 /\ sel' = Screen!HitTest(r) /\ blocks[a].id = sel' /\ Screen!Collapsible(blocks[a])
             /\ blocks' = [blocks EXCEPT ![a].expanded = ~@]
             /\ UNCHANGED <<made, chat, wide, busy, panel, asking, captured>> /\ Redraws
             /\ panel \in {"none", "help"} /\ ~busy
<1>1. PICK r \in 1 .. Window : /\ Screen!HitTest(r) # 0 /\ sel' = Screen!HitTest(r)
                               /\ blocks' = [blocks EXCEPT ![Screen!At(blocks, Screen!HitTest(r))].expanded = ~@]
  BY Zenon DEF Screen!Click
<1>2. PICK a \in 1 .. Len(blocks) : /\ Screen!At(blocks, Screen!HitTest(r)) = a
                                    /\ blocks[a].id = Screen!HitTest(r) /\ Screen!Collapsible(blocks[a])
  BY <1>1, HitIs, Zenon
<1>3. /\ UNCHANGED <<made, chat, wide, busy, panel, asking, captured>> /\ Redraws
      /\ panel \in {"none", "help"} /\ ~busy
  BY Zenon DEF Screen!Click, Redraws
<1>4. blocks' = [blocks EXCEPT ![a].expanded = ~@]
  BY <1>1, <1>2, Zenon
<1> QED
  BY <1>1, <1>2, <1>3, <1>4, Zenon

LEMMA ClickKeeps ==
    ASSUME ScreenInv, Screen!Click
    PROVE  ScreenInv'
<1>1. PICK r \in 1 .. Window, a \in 1 .. Len(blocks) :
             /\ sel' = Screen!HitTest(r) /\ blocks[a].id = sel' /\ Screen!Collapsible(blocks[a])
             /\ blocks' = [blocks EXCEPT ![a].expanded = ~@]
             /\ UNCHANGED <<made, chat, wide, busy, panel, asking, captured>> /\ Redraws
             /\ panel \in {"none", "help"} /\ ~busy
  BY ClickIs, Zenon
<1>2. InOrder(blocks, made) /\ made \in Nat /\ blocks \in Seq(Blocks) /\ Len(blocks) \in Nat
      /\ \A i \in 1 .. Len(blocks) : blocks[i] \in Blocks
  <2>1. InOrder(blocks, made) /\ made \in Nat /\ blocks \in Seq(Blocks)
    BY TerminalAssumption DEF ScreenInv, InOrder, TerminalAssumption
  <2> HIDE DEF Blocks
  <2> QED
    BY <2>1
<1> DEFINE flip == ~blocks[a].expanded
           b == [blocks[a] EXCEPT !.expanded = flip]
<1>3. flip \in BOOLEAN
  BY Zenon
<1>4. blocks' = [blocks EXCEPT ![a] = b]
  BY <1>1, Zenon
<1> HIDE DEF flip
<1>5. b \in Blocks /\ b.id = blocks[a].id /\ b.kind = blocks[a].kind
  <2>1. blocks[a] \in Blocks
    BY <1>2
  <2> QED
    BY <1>3, <2>1 DEF Blocks
<1> HIDE DEF b
<1>6. /\ blocks' \in Seq(Blocks) /\ Len(blocks') = Len(blocks)
      /\ \A i \in 1 .. Len(blocks) : blocks'[i].id = blocks[i].id /\ blocks'[i].kind = blocks[i].kind
  <2> HIDE DEF Blocks
  <2>1. blocks' \in Seq(Blocks) /\ Len(blocks') = Len(blocks)
        /\ \A i \in 1 .. Len(blocks) : blocks'[i] = IF i = a THEN b ELSE blocks[i]
    BY <1>2, <1>4, <1>5
  <2> QED
    BY <1>5, <2>1
<1>7. InOrder(blocks', made')
  <2>1. made' = made
    BY <1>1
  <2> QED
    BY <1>2, <1>6, <2>1 DEF InOrder
<1>8. sel' \in 0 .. made' /\ made' \in 0 .. MaxMade
  <2>1. blocks[a].id \in 1 .. made
    BY <1>2 DEF InOrder
  <2> QED
    BY <1>1, <1>2, <2>1 DEF ScreenInv
<1>9. Folding(blocks', sel')
  <2> SUFFICES ASSUME NEW i \in 1 .. Len(blocks'), blocks'[i].id = sel' PROVE Screen!Collapsible(blocks'[i])
    BY Zenon DEF Folding
  <2>1. i \in 1 .. Len(blocks) /\ blocks[i].id = blocks[a].id
    BY <1>1, <1>6
  <2>2. i = a
    BY <1>2, <2>1, IdsTell
  <2> QED
    BY <1>1, <1>6, <2>1, <2>2, Zenon DEF Screen!Collapsible
<1>10. Framed' /\ OnScreen'
  BY <1>1, DrawnIsShown DEF ScreenInv
<1>11. Asks' /\ ~asking'
  <2>1. ~asking
    <3>1. asking => panel \in {"tool", "plan"}
      BY DEF ScreenInv, Asks
    <3> QED
      BY <1>1, <3>1
  <2> QED
    BY <1>1, <2>1, Zenon DEF Asks
<1>12. Follows'
  BY <1>1, <1>11, Zenon DEF Follows
<1>13. chat' \in ChatViews /\ panel' \in Panels
  BY <1>1, Zenon DEF ScreenInv
<1> QED
  BY <1>7, <1>8, <1>9, <1>10, <1>11, <1>12, <1>13, Zenon DEF ScreenInv, InOrder, Folding, ChatViews, Panels

LEMMA ScreenBegins ==
    ASSUME Screen!Init
    PROVE  ScreenInv
<1>1. /\ sel = 0 /\ chat = [top |-> 0, bottom |-> TRUE] /\ panel = "none" /\ asking = FALSE /\ busy = FALSE
      /\ frame = Screen!FrameOf(blocks, sel, chat, wide, busy, panel)
      /\ shown = Screen!Painted(Screen!Cleared, <<>>, frame)
  BY Zenon DEF Screen!Init
<1>2. InOrder(blocks, made) /\ made \in 0 .. MaxMade /\ made \in Nat
  <2>0. MaxMade \in Nat /\ 2 <= MaxMade /\ 1 \in 1 .. MaxLines
    BY TerminalAssumption DEF TerminalAssumption
  <2>1. CASE blocks = <<>> /\ made = 0
    <3>1. <<>> \in Seq(Blocks) /\ Len(<<>>) = 0
      OBVIOUS
    <3>2. InOrder(<<>>, 0)
      BY <3>1 DEF InOrder
    <3> QED
      BY <2>0, <2>1, <3>2
  <2>2. CASE /\ blocks = [i \in 1 .. 2 |-> [id |-> i, kind |-> IF i = 1 THEN "user" ELSE "assistant", expanded |-> FALSE,
                                            lines |-> 1, open |-> FALSE]]
             /\ made = 2
    <3> DEFINE b(i) == [id |-> i, kind |-> IF i = 1 THEN "user" ELSE "assistant", expanded |-> FALSE,
                        lines |-> 1, open |-> FALSE]
    <3>1. \A i \in 1 .. 2 : b(i) \in Blocks /\ b(i).id = i
      BY <2>0 DEF Blocks, Screen!Kinds
    <3> HIDE DEF b
    <3>2. blocks = [i \in 1 .. 2 |-> b(i)]
      BY <2>2, Zenon DEF b
    <3>3. blocks \in Seq(Blocks) /\ Len(blocks) = 2
      <4> HIDE DEF Blocks
      <4>1. [i \in 1 .. 2 |-> b(i)] \in [1 .. 2 -> Blocks]
        BY <3>1
      <4> QED
        BY <3>2, <4>1
    <3>4. \A i \in 1 .. 2 : blocks[i].id = i
      BY <3>1, <3>2
    <3>5. InOrder(blocks, made)
      BY <2>2, <3>3, <3>4 DEF InOrder
    <3> QED
      BY <2>0, <2>2, <3>5
  <2> QED
    BY <2>1, <2>2, Zenon DEF Screen!Init
<1>3. sel \in 0 .. made /\ chat \in ChatViews /\ panel \in Panels
  BY <1>1, <1>2 DEF ChatViews, Panels
<1>4. Folding(blocks, sel)
  <2>1. \A i \in 1 .. Len(blocks) : blocks[i].id # 0
    <3>1. \A i \in 1 .. Len(blocks) : blocks[i].id \in 1 .. made
      BY <1>2 DEF InOrder
    <3> QED
      BY <3>1
  <2> QED
    BY <1>1, <2>1, Zenon DEF Folding
<1>5. Asks /\ Follows /\ Framed
  BY <1>1, Zenon DEF Asks, Follows, Framed
<1>6. OnScreen
  <2>1. DOMAIN shown = 1 .. Screen!TermRows
    BY <1>1, Zenon DEF Screen!Painted
  <2>2. ASSUME NEW i \in 1 .. Screen!TermRows PROVE shown[i] = RowOf(frame, i)
    <3>1. Screen!Cell(<<>>, i) = Screen!NoRow
      <4>1. Len(<<>>) = 0 /\ ~(i <= 0)
        BY <2>2 DEF Screen!TermRows
      <4> QED
        BY <4>1 DEF Screen!Cell
    <3>2. Screen!Cleared[i] = Screen!Blank
      BY Zenon DEF Screen!Cleared
    <3>3. Screen!Cleared[i] = RowOf(<<>>, i)
      BY <3>1, <3>2, Zenon DEF RowOf
    <3>4. Screen!Painted(Screen!Cleared, <<>>, frame)[i] = RowOf(frame, i)
      BY <3>3, PaintedShows, Zenon
    <3>5. shown = Screen!Painted(Screen!Cleared, <<>>, frame)
      BY <1>1
    <3> QED
      BY <3>4, <3>5
  <2> QED
    BY <2>1, <2>2, Zenon DEF OnScreen, Screen!ScreenIsTheFrame, RowOf
<1> QED
  BY <1>2, <1>3, <1>4, <1>5, <1>6, Zenon DEF ScreenInv

LEMMA ScreenStep ==
    ASSUME ScreenInv, [Screen!Next]_(Screen!vars)
    PROVE  ScreenInv'
<1>1. CASE UNCHANGED Screen!vars
  <2>1. UNCHANGED <<blocks, made, sel, chat, wide, busy, panel, asking, captured, frame, shown, lost>>
    BY <1>1 DEF Screen!vars
  <2>2. InOrder(blocks, made)' /\ Folding(blocks, sel)' /\ Asks' /\ Follows' /\ Framed'
    BY <2>1, Zenon DEF ScreenInv, Asks, Follows, Framed, Reached
  <2>3. OnScreen'
    BY <2>1 DEF ScreenInv, OnScreen, Screen!ScreenIsTheFrame, Screen!Cell, Screen!TermRows
  <2> QED
    BY <2>1, <2>2, <2>3, Zenon DEF ScreenInv, Panels, ChatViews
<1>2. CASE Screen!Next
  BY <1>2, EmitKeeps, NoticesKeep, TurnsKeep, AnswersKeep, CursorMovesKeep, HelpKeeps, ScrollKeeps, ClickKeeps,
     ResizeKeeps, Zenon DEF Screen!Next
<1> QED
  BY <1>1, <1>2

-----------------------------------------------------------------------------
\* Which steps make a block, and which change one.
LEMMA WhatIsMade ==
    ASSUME ScreenInv, Screen!Next
    PROVE  \/ Screen!Emit \/ Screen!Click \/ UNCHANGED <<blocks, made>>
           \/ Screen!CanMake(1) /\ (Screen!Adds("note") \/ Screen!PushUser)
<1>1. CASE Screen!Notice \/ Screen!Submit \/ Screen!CaptureBegins \/ Screen!CaptureEnds \/ Screen!Suspended
  BY <1>1, Zenon DEF Screen!Notice, Screen!Submit, Screen!CaptureBegins, Screen!CaptureEnds, Screen!Suspended
<1>2. CASE Screen!TurnEnds \/ Screen!AskTool \/ Screen!AnswerTool \/ Screen!AnswerPlan
  BY <1>2, Zenon DEF Screen!TurnEnds, Screen!AskTool, Screen!AnswerTool, Screen!AnswerPlan
<1>3. CASE Screen!MoveSelection \/ Screen!ClearSelection \/ Screen!Help \/ Screen!Scroll \/ Screen!Resize
  BY <1>3, Zenon DEF Screen!MoveSelection, Screen!ClearSelection, Screen!Help, Screen!Scroll, Screen!Resize
<1> QED
  BY <1>1, <1>2, <1>3, Zenon DEF Screen!Next

LEMMA NoteAdded ==
    ASSUME ScreenInv, Screen!CanMake(1), Screen!Adds("note") \/ Screen!PushUser
    PROVE  BlocksMove /\ blocks'[Len(blocks')].kind \in {"note", "user"}
<1>1. "note" \in Screen!Kinds /\ "user" \in Screen!Kinds
  BY DEF Screen!Kinds
<1>2. CASE Screen!Adds("note")
  <2>1. BlocksMove /\ blocks'[Len(blocks')].kind = "note"
    BY <1>1, <1>2, BlockAdded DEF Screen!Adds
  <2> QED
    BY <2>1
<1>3. CASE Screen!PushUser
  <2>1. BlocksMove /\ blocks'[Len(blocks')].kind = "user"
    BY <1>1, <1>3, BlockAdded DEF Screen!PushUser
  <2> QED
    BY <2>1
<1> QED
  BY <1>2, <1>3

LEMMA FirstRow ==
    ASSUME NEW B \in Seq(Blocks), NEW s, NEW c, NEW w, NEW b, NEW p
    PROVE  Screen!FrameOf(B, s, c, w, b, p)[1] = RowShown(B, s, c, w, b, p, 1)
<1>1. \A i \in 1 .. Screen!Height(b, p) : Screen!FrameOf(B, s, c, w, b, p)[i] = RowShown(B, s, c, w, b, p, i)
  BY FrameIs
<1>2. 1 \in 1 .. Screen!Height(b, p)
  BY HeightIs
<1> QED
  BY <1>1, <1>2, Zenon

\* The row a reader who scrolled up has at the top, before and after one block more.
LEMMA ReaderIsLeft ==
    ASSUME ScreenInv, Screen!Next, made' = made + 1, blocks'[Len(blocks')].kind \in {"assistant", "start", "result"},
           ~chat.bottom, ~Screen!Covered(blocks, panel), Len(blocks) > 0, blocks'[1].id = blocks[1].id
    PROVE  frame'[1] = frame[1]
<1>0. InOrder(blocks, made) /\ blocks \in Seq(Blocks) /\ made \in Nat /\ Len(blocks) \in Nat /\ blocks # <<>>
  <2>1. InOrder(blocks, made) /\ made \in Nat /\ blocks \in Seq(Blocks)
    BY TerminalAssumption DEF ScreenInv, InOrder, TerminalAssumption
  <2> HIDE DEF Blocks
  <2> QED
    BY <2>1
<1>1. made' # made
  BY <1>0
<1>2. Screen!Emit
  <2>1. ~(UNCHANGED <<blocks, made>>)
    BY <1>1
  <2>2. ~Screen!Click
    BY <1>1, Zenon DEF Screen!Click
  <2>3. ~(Screen!CanMake(1) /\ (Screen!Adds("note") \/ Screen!PushUser))
    <3>1. blocks'[Len(blocks')].kind \notin {"note", "user"}
      OBVIOUS
    <3> QED
      BY <3>1, NoteAdded, Zenon
  <2> QED
    BY <2>1, <2>2, <2>3, WhatIsMade, Zenon
<1>3. UNCHANGED <<sel, chat, wide, busy, panel>> /\ busy /\ Framed' /\ Framed
  <2>1. UNCHANGED <<sel, chat, wide, busy, panel>> /\ busy /\ Redraws
    BY <1>2, Zenon DEF Screen!Emit, Redraws
  <2> QED
    BY <2>1, DrawnIsShown DEF ScreenInv
<1>4. PICK k \in Screen!Kinds : Screen!CanMake(1) /\ Screen!Adds(k)
  <2>1. "assistant" \in Screen!Kinds /\ {"start", "result", "note"} \subseteq Screen!Kinds
    BY DEF Screen!Kinds
  <2>2. ~\E b : GoesOn(b)
    BY <1>1, Zenon DEF GoesOn
  <2> QED
    BY <1>2, <2>1, <2>2, DeltaIs, DoneIs, Zenon DEF Screen!Emit
<1> DEFINE x == Screen!Made(k)
           A == Append(blocks, x)
<1>5. blocks' = A
  BY <1>0, <1>4, BlockAdded DEF Screen!Adds
<1>6. x \in Blocks /\ x.id = made + 1
  BY MadeIs
<1>7. /\ InOrder(A, made + 1) /\ Len(A) = Len(blocks) + 1
      /\ \A i \in 1 .. Len(blocks) : A[i] = blocks[i]
  BY <1>0, <1>6, AppendedIs
<1>8. Len(blocks) < MaxBlocks
  <2>1. blocks' = Screen!Capped(A)
    BY <1>4, Zenon DEF Screen!Adds
  <2>2. made + 1 \in Nat /\ Len(A) > 0
    BY <1>0, <1>7
  <2>3. PICK d \in Nat : Len(Screen!Capped(A)) = Len(A) - d /\ (d = 0 => Len(A) <= MaxBlocks)
    BY <1>7, <2>2, CutIs, Zenon
  <2>4. Len(A) = Len(A) - d
    BY <1>5, <2>1, <2>3
  <2> HIDE DEF A
  <2> QED
    BY <1>0, <1>7, <2>3, <2>4, TerminalAssumption DEF TerminalAssumption
<1> HIDE DEF x, A
<1> DEFINE n == Screen!Total(blocks, sel, wide)
           m == Screen!Total(A, sel, wide)
           h == Screen!Height(busy, panel)
           rows == Screen!Lines(blocks, sel, wide)
           more == Screen!Lines(A, sel, wide)
<1>9. A \in Seq(Blocks) /\ n <= m /\ \A j \in 1 .. n : more[j] = rows[j]
  BY <1>0, <1>6, LinesGrow DEF A
<1>10. n \in Nat /\ m \in Nat /\ n > 0
  BY <1>0, <1>9, LinesCount
<1>11. h \in Nat /\ h >= 1 /\ h <= Window /\ Window \in Nat
  BY HeightIs, TerminalAssumption DEF TerminalAssumption
<1>12. chat \in ChatViews /\ chat.top \in Nat
  BY DEF ScreenInv, ChatViews
<1>13. chat.top <= Screen!MaxTop(n, Window)
  <2>1. Reached(blocks, sel, wide, chat)
    BY <1>3, Zenon DEF ScreenInv, Follows
  <2>2. chat.top <= Screen!ScrollMax(blocks, sel, wide) \/ Len(blocks) >= MaxBlocks
    BY <2>1, Zenon DEF Reached
  <2> QED
    BY <1>0, <1>8, <2>2, TerminalAssumption DEF Screen!ScrollMax, TerminalAssumption
<1>14. ~Screen!Covered(A, panel)
  <2>1. panel = "none" /\ \E i \in 1 .. Len(blocks) : blocks[i].kind # "note"
    BY Zenon DEF Screen!Covered
  <2>2. PICK i \in 1 .. Len(blocks) : blocks[i].kind # "note"
    BY <2>1
  <2>3. i \in 1 .. Len(A) /\ A[i] = blocks[i]
    BY <1>0, <1>7
  <2> QED
    BY <2>1, <2>2, <2>3, Zenon DEF Screen!Covered
<1> HIDE DEF n, m, h, rows, more
<1>15. /\ Screen!Top(n, h, chat) = chat.top /\ Screen!Top(m, h, chat) = chat.top
       /\ chat.top + 1 \in 1 .. n /\ chat.top + 1 <= m
  <2>1. /\ Screen!MaxTop(n, h) \in Nat /\ (n > h => Screen!MaxTop(n, h) = n - h) /\ (n <= h => Screen!MaxTop(n, h) = 0)
        /\ (~chat.bottom /\ chat.top <= Screen!MaxTop(n, h) => Screen!Top(n, h, chat) = chat.top)
    BY <1>10, <1>11, <1>12, TopIs
  <2>2. /\ Screen!MaxTop(m, h) \in Nat /\ (m > h => Screen!MaxTop(m, h) = m - h) /\ (m <= h => Screen!MaxTop(m, h) = 0)
        /\ (~chat.bottom /\ chat.top <= Screen!MaxTop(m, h) => Screen!Top(m, h, chat) = chat.top)
    BY <1>10, <1>11, <1>12, TopIs
  <2>3. (n > Window => chat.top <= n - Window) /\ (n <= Window => chat.top <= 0)
    BY <1>10, <1>11, <1>12, <1>13, TopIs
  <2>4. chat.top <= Screen!MaxTop(n, h) /\ chat.top <= Screen!MaxTop(m, h)
    BY <1>9, <1>10, <1>11, <1>12, <2>1, <2>2, <2>3 DEF n, m
  <2>5. chat.top + 1 <= n
    BY <1>10, <1>11, <1>12, <2>3
  <2> QED
    BY <1>9, <1>10, <1>12, <2>1, <2>2, <2>4, <2>5 DEF n, m
<1>16. frame[1] = rows[chat.top + 1]
  <2>3. frame[1] = RowShown(blocks, sel, chat, wide, busy, panel, 1)
    <3>1. Screen!FrameOf(blocks, sel, chat, wide, busy, panel)[1] = RowShown(blocks, sel, chat, wide, busy, panel, 1)
      BY <1>0, FirstRow
    <3> QED
      BY <1>3, <3>1, Zenon DEF Framed
  <2>4. TopOf(blocks, sel, chat, wide, busy, panel) = chat.top
    BY <1>15, Zenon DEF TopOf, n, h
  <2>5. TopOf(blocks, sel, chat, wide, busy, panel) + 1 <= Screen!Total(blocks, sel, wide)
    BY <1>10, <1>12, <1>15, <2>4 DEF n
  <2>6. RowShown(blocks, sel, chat, wide, busy, panel, 1) = Screen!Lines(blocks, sel, wide)[TopOf(blocks, sel, chat, wide, busy, panel) + 1]
    BY <2>5, Zenon DEF RowShown
  <2> QED
    BY <2>3, <2>4, <2>6, Zenon DEF rows
<1>17. frame'[1] = more[chat.top + 1]
  <2>1. Screen!FrameOf(A, sel, chat, wide, busy, panel)[1] = RowShown(A, sel, chat, wide, busy, panel, 1)
    BY <1>9, FirstRow
  <2>3. frame' = Screen!FrameOf(A, sel, chat, wide, busy, panel)
    BY <1>3, <1>5, Zenon DEF Framed
  <2>4. frame'[1] = RowShown(A, sel, chat, wide, busy, panel, 1)
    BY <2>1, <2>3, Zenon
  <2>5. TopOf(A, sel, chat, wide, busy, panel) = chat.top
    BY <1>15, Zenon DEF TopOf, m, h
  <2>6. TopOf(A, sel, chat, wide, busy, panel) + 1 <= Screen!Total(A, sel, wide)
    BY <1>15, <2>5 DEF m
  <2>7. RowShown(A, sel, chat, wide, busy, panel, 1) = Screen!Lines(A, sel, wide)[TopOf(A, sel, chat, wide, busy, panel) + 1]
    BY <1>14, <2>6, Zenon DEF RowShown
  <2> QED
    BY <2>4, <2>5, <2>7, Zenon DEF more
<1>18. more[chat.top + 1] = rows[chat.top + 1]
  BY <1>9, <1>15 DEF n, rows, more
<1> QED
  BY <1>16, <1>17, <1>18

\* The block that a step folds or unfolds has its header on the screen.
LEMMA ToggledIsShown ==
    ASSUME ScreenInv, Screen!Next, NEW i \in 1 .. Len(blocks), i <= Len(blocks'), blocks'[i].id = blocks[i].id,
           blocks'[i].expanded # blocks[i].expanded, ~lost
    PROVE  \E r \in 1 .. Screen!TermRows : shown[r].id = blocks[i].id /\ shown[r].part = 1
<1>0. InOrder(blocks, made) /\ blocks \in Seq(Blocks) /\ made \in Nat /\ Len(blocks) \in Nat
  <2>1. InOrder(blocks, made) /\ made \in Nat /\ blocks \in Seq(Blocks)
    BY TerminalAssumption DEF ScreenInv, InOrder, TerminalAssumption
  <2> HIDE DEF Blocks
  <2> QED
    BY <2>1
<1>1. ~BlocksMove
  <2> SUFFICES ASSUME BlocksMove PROVE FALSE
    OBVIOUS
  <2>1. Len(blocks') \in Nat
    <3>1. blocks' \in Seq(Blocks)
      BY DEF BlocksMove, InOrder
    <3> HIDE DEF Blocks
    <3> QED
      BY <3>1
  <2>2. i \in 1 .. Len(blocks') /\ blocks'[i].id <= made
    <3>1. blocks[i].id \in 1 .. made
      BY <1>0 DEF InOrder
    <3> QED
      BY <1>0, <2>1, <3>1
  <2>3. PICK j \in 1 .. Len(blocks) : blocks'[i].id = blocks[j].id /\ blocks'[i].expanded = blocks[j].expanded
    BY <2>2, Zenon DEF BlocksMove, Inherits
  <2>4. j = i
    BY <1>0, <2>3, IdsTell
  <2> QED
    BY <2>3, <2>4, Zenon
<1>2. Screen!Click
  BY <1>1, WhatIsMade, NoteAdded, BlocksStand, EmitMoves, Zenon
<1>3. PICK r \in 1 .. Window, a \in 1 .. Len(blocks) :
             /\ Screen!HitTest(r) # 0 /\ sel' = Screen!HitTest(r) /\ blocks[a].id = sel'
             /\ blocks' = [blocks EXCEPT ![a].expanded = ~@] /\ ~busy
  BY <1>2, ClickIs, Zenon
<1>4. i = a
  <2>1. i # a => blocks'[i] = blocks[i]
    <3>1. i \in DOMAIN blocks
      <4> HIDE DEF Blocks
      <4> QED
        BY <1>0
    <3> QED
      BY <1>3, <3>1, Zenon
  <2> QED
    BY <2>1, Zenon
<1>5. PICK row : /\ row.id = Screen!HitTest(r) /\ row.part = 1 /\ row.look # "none"
                 /\ RowShown(blocks, sel, chat, wide, busy, panel, r) = row
  BY <1>3, HitIs, Zenon
<1>6. Screen!Height(busy, panel) = Window /\ Window \in Nat
  BY <1>3, HeightIs, TerminalAssumption DEF TerminalAssumption
<1>7. frame[r] = row /\ r <= Len(frame)
  <2>1. /\ Len(frame) \in Nat /\ Len(frame) >= Screen!Height(busy, panel)
        /\ \A j \in 1 .. Screen!Height(busy, panel) : frame[j] = RowShown(blocks, sel, chat, wide, busy, panel, j)
    BY <1>0, FrameIs, Zenon DEF ScreenInv, Framed
  <2>2. r \in 1 .. Screen!Height(busy, panel)
    BY <1>6
  <2>3. frame[r] = row
    BY <1>5, <2>1, <2>2, Zenon
  <2> QED
    BY <1>6, <2>1, <2>3
<1>8. r \in 1 .. Screen!TermRows
  BY <1>6 DEF Screen!TermRows
<1>9. shown[r] = row
  <2>1. shown[r] = RowOf(frame, r)
    BY <1>8, Zenon DEF ScreenInv, OnScreen, Screen!ScreenIsTheFrame, RowOf
  <2>2. Screen!Cell(frame, r) = row
    BY <1>7, Zenon DEF Screen!Cell
  <2>3. row # Screen!NoRow
    BY <1>5 DEF Screen!NoRow, Screen!Text
  <2> QED
    BY <2>1, <2>2, <2>3, Zenon DEF RowOf
<1> QED
  BY <1>3, <1>4, <1>5, <1>8, <1>9, Zenon

-----------------------------------------------------------------------------
(* The terminal in the composition                                         *)

\* What the composition does is what the viewer, the screen or the line may do.
LEMMA TerminalParts ==
    ASSUME [PartsNext]_parts
    PROVE  [Review!Next]_(Review!reviewVars) /\ [Screen!Next]_(Screen!vars) /\ [Line!Next]_(Line!vars)
<1>1. Review!reviewVars = reviews /\ Screen!vars = screens /\ Line!vars = lines
  BY Zenon DEF Review!reviewVars, reviews, Screen!vars, screens, Line!vars, lines
<1>2. Review!reviewVars' = reviews' /\ Screen!vars' = screens' /\ Line!vars' = lines'
  BY Zenon DEF Review!reviewVars, reviews, Screen!vars, screens, Line!vars, lines
<1>3. /\ Review!Next \/ UNCHANGED reviews
      /\ Screen!Next \/ UNCHANGED screens
      /\ Line!Next \/ UNCHANGED lines
  <2>1. CASE PartsNext
    BY <2>1, Zenon DEF PartsNext, Takes
  <2>2. CASE UNCHANGED parts
    BY <2>2 DEF parts
  <2> QED
    BY <2>1, <2>2
<1> QED
  BY <1>1, <1>2, <1>3, Zenon

TerminalInv == ReviewInv /\ ScreenInv /\ LineInv

LEMMA TerminalAlways == PartsSpec => []TerminalInv
<1>1. PartsInit => TerminalInv
  <2> SUFFICES ASSUME PartsInit PROVE TerminalInv
    OBVIOUS
  <2>1. Review!Init /\ Screen!Init /\ Line!Init
    BY DEF PartsInit
  <2>2. ReviewConstants /\ MaxHits \in Nat
    BY TerminalAssumption DEF TerminalAssumption, ReviewConstants
  <2>3. ReviewInv
    BY <2>1, <2>2, ReviewBegins
  <2>4. LineInv
    BY <2>1, <2>2, LineBegins
  <2>5. ScreenInv
    BY <2>1, ScreenBegins
  <2> QED
    BY <2>3, <2>4, <2>5 DEF TerminalInv
<1>2. TerminalInv /\ [PartsNext]_parts => TerminalInv'
  <2> SUFFICES ASSUME TerminalInv, [PartsNext]_parts
               PROVE  TerminalInv'
    OBVIOUS
  <2>1. [Review!Next]_(Review!reviewVars) /\ [Screen!Next]_(Screen!vars) /\ [Line!Next]_(Line!vars)
    BY TerminalParts
  <2>2. ReviewInv /\ ScreenInv /\ LineInv
    BY DEF TerminalInv
  <2>3. ReviewInv'
    BY <2>1, <2>2, ReviewStep
  <2>4. ScreenInv'
    BY <2>1, <2>2, ScreenStep
  <2>5. LineInv'
    BY <2>1, <2>2, LineStep
  <2> QED
    BY <2>3, <2>4, <2>5 DEF TerminalInv
<1> QED
  BY <1>1, <1>2, PTL DEF PartsSpec

\* What the terminal shows is the frame, row by row; a view that follows the output
\* shows its end; the cursor is on a block that folds; an approval has the window
\* (tuiApp's redraw); a dropdown is of the line it is under and what was typed is
\* kept (the composer's keys); and the viewer of a patch gives the terminal back and
\* shows no verdict of a later run than the patch (reviewUi), for any bounds.
THEOREM TerminalIsTrue == PartsSpec => []TerminalSound
<1>1. TerminalInv => TerminalSound
  <2> SUFFICES ASSUME TerminalInv PROVE TerminalSound
    OBVIOUS
  <2>1. Review!ReviewSound
    BY ReviewSuffices DEF TerminalInv
  <2>2. Screen!ScreenSound
    BY ScreenSuffices DEF TerminalInv
  <2>3. Line!ComposerSound
    BY LineSuffices DEF TerminalInv
  <2> QED
    BY <2>1, <2>2, <2>3 DEF TerminalSound
<1> QED
  BY <1>1, TerminalAlways, PTL

\* A run's output does not move what a reader who scrolled up looks at, a block is
\* folded only when its header was on the screen (hitTestBlock), and an Enter
\* submits the line or closes a dropdown.
THEOREM TerminalStepsHold == PartsSpec => TerminalSteps
<1>1. TerminalInv /\ [PartsNext]_parts
        => [made' = made + 1 /\ blocks'[Len(blocks')].kind \in {"assistant", "start", "result"}
            /\ ~chat.bottom /\ ~Screen!Covered(blocks, panel) /\ Len(blocks) > 0 /\ blocks'[1].id = blocks[1].id
            => frame'[1] = frame[1]]_(Screen!vars)
  <2> SUFFICES ASSUME TerminalInv, [PartsNext]_parts, Screen!vars' # Screen!vars,
                      made' = made + 1, blocks'[Len(blocks')].kind \in {"assistant", "start", "result"},
                      ~chat.bottom, ~Screen!Covered(blocks, panel), Len(blocks) > 0, blocks'[1].id = blocks[1].id
               PROVE  frame'[1] = frame[1]
    BY Zenon
  <2>1. Screen!Next
    BY TerminalParts
  <2>2. ScreenInv
    BY DEF TerminalInv
  <2> QED
    BY <2>1, <2>2, ReaderIsLeft
<1>2. TerminalInv /\ [PartsNext]_parts
        => [\A i \in 1 .. Len(blocks) :
              i <= Len(blocks') /\ blocks'[i].id = blocks[i].id /\ blocks'[i].expanded # blocks[i].expanded /\ ~lost
              => \E r \in 1 .. Screen!TermRows : shown[r].id = blocks[i].id /\ shown[r].part = 1]_(Screen!vars)
  <2> SUFFICES ASSUME TerminalInv, [PartsNext]_parts, Screen!vars' # Screen!vars, NEW i \in 1 .. Len(blocks),
                      i <= Len(blocks'), blocks'[i].id = blocks[i].id, blocks'[i].expanded # blocks[i].expanded, ~lost
               PROVE  \E r \in 1 .. Screen!TermRows : shown[r].id = blocks[i].id /\ shown[r].part = 1
    BY Zenon
  <2>1. Screen!Next
    BY TerminalParts
  <2>2. ScreenInv
    BY DEF TerminalInv
  <2> QED
    BY <2>1, <2>2, ToggledIsShown
<1>3. TerminalInv /\ [PartsNext]_parts
        => [Line!EnterKey => text' = <<>> \/ Line!Dropdowns' < Line!Dropdowns]_(Line!vars)
  BY EnterCloses, Zenon DEF TerminalInv
<1>4. PartsSpec => Screen!ReaderStays
  BY <1>1, TerminalAlways, PTL DEF PartsSpec, Screen!ReaderStays
<1>5. PartsSpec => Screen!ClickTogglesWhatIsShown
  BY <1>2, TerminalAlways, PTL DEF PartsSpec, Screen!ClickTogglesWhatIsShown
<1>6. PartsSpec => Line!EnterProceeds
  BY <1>3, TerminalAlways, PTL DEF PartsSpec, Line!EnterProceeds
<1> QED
  BY <1>4, <1>5, <1>6 DEF TerminalSteps, Screen!ScreenSteps
=============================================================================
