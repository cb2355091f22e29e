------------------------------- MODULE Solver -------------------------------
(***************************************************************************)
(* runSolveLoop: an agent turn, a check, a retry with the failure, up to   *)
(* MaxAttempts, and before it the repro phase, in which the model writes a *)
(* failing test that is the check when none is configured.                 *)
(*                                                                         *)
(* What a test does is abstracted to what it tells apart: a "good" one     *)
(* passes when the product is right, a "weak" one always, a "broken" one   *)
(* never, and an "empty" one is what isTautologicalRepro recognises.       *)
(***************************************************************************)
EXTENDS Integers

CONSTANTS MaxAttempts

VARIABLES
    options,        \* what the solve was called with
    right, deps,    \* the product meets the check; its dependencies are installed
    test,           \* the file at the repro path
    repro,          \* ReproResult.valid, "none" before the phase
    sawRed,         \* the test of the repro phase ran, and failed
    solve, tries, signalled, checked, answerOf

solveVars == <<options, right, deps, test, repro, sawRed, solve, tries, signalled, checked, answerOf>>

Tests    == {"none", "users", "good", "weak", "broken", "empty"}
Outcomes == {"pass", "fail", "timeout", "killed"}

TypeOK ==
    /\ options \in [check : BOOLEAN, repro : BOOLEAN, scratch : BOOLEAN, targeting : BOOLEAN, healing : BOOLEAN]
    /\ right \in BOOLEAN /\ deps \in BOOLEAN /\ test \in Tests
    /\ repro \in {"none", "invalid", "valid"} /\ sawRed \in BOOLEAN
    /\ solve \in {"called", "generated", "attempts", "edited", "verify", "over"}
    /\ tries \in 0 .. MaxAttempts /\ signalled \in BOOLEAN
    /\ checked \in {"none", "before", "now"}
    /\ answerOf \in {"none", "refused", "solved", "unsolved", "thrown"}

Init ==
    /\ options \in [check : BOOLEAN, repro : BOOLEAN, scratch : BOOLEAN, targeting : BOOLEAN, healing : BOOLEAN]
    /\ right \in BOOLEAN /\ deps \in BOOLEAN
    /\ test \in IF options.scratch THEN {"none"} ELSE {"none", "users"}
    /\ repro = "none" /\ sawRed = FALSE /\ solve = "called" /\ tries = 0 /\ signalled = FALSE
    /\ checked = "none"             \* the authority's last pass: of this tree, or of an earlier one
    /\ answerOf = "none"

\* The runs of a command on the tree; any may time out or be killed.
RunOf(kind, ok, installed) ==
    {"timeout", "killed"}
    \cup (IF installed /\ (kind \in {"weak", "users"} \/ (kind \in {"good", "check"} /\ ok)) THEN {"pass"} ELSE {})
    \cup (IF installed /\ (kind = "weak" \/ (kind \in {"good", "check"} /\ ok)) THEN {} ELSE {"fail"})

\* An agent turn may change every file of the tree, the test at the repro path too.
TurnChanges ==
    /\ right' \in BOOLEAN
    /\ test' \in IF options.repro THEN (Tests \ {"users"}) \cup {test} ELSE {test}
    /\ checked' = IF checked = "now" THEN "before" ELSE checked

Answers(result) == answerOf' = result /\ solve' = "over"

-----------------------------------------------------------------------------
(* Before the loop *)

\* No task, an unknown or a denied check, nothing to verify against; or the
\* test cannot be run from its path and there is no check.
Refuses ==
    /\ solve = "called" /\ Answers("refused")
    /\ UNCHANGED <<options, right, deps, test, repro, sawRed, tries, signalled, checked>>

SkipsRepro ==
    /\ solve = "called" /\ options.check /\ ~options.repro /\ solve' = "attempts"
    /\ UNCHANGED <<options, right, deps, test, repro, sawRed, tries, signalled, checked, answerOf>>

\* The turn that writes the test.  With no check, one that throws ends the
\* solve and leaves what it wrote; with a check the loop goes on.
ReproTurnThrows ==
    /\ solve = "called" /\ options.repro
    /\ TurnChanges /\ repro' = "invalid"
    /\ IF options.check THEN solve' = "attempts" /\ UNCHANGED answerOf ELSE Answers("refused")
    /\ UNCHANGED <<options, deps, sawRed, tries, signalled>>

ReproTurn ==
    /\ solve = "called" /\ options.repro
    /\ TurnChanges /\ solve' = "generated"
    /\ UNCHANGED <<options, deps, repro, sawRed, tries, signalled, answerOf>>

\* Mutated form of EstablishesRed: whatever is not a pass counts as red.
EstablishesNotGreen(run) == run # "pass"

EstablishesRed(run) == run = "fail"

\* The test is run once, unhealed, on the tree before the fix, and removed when
\* it is absent of assertions or does not fail.  A run that cannot start is "killed".
ValidatesRepro ==
    /\ solve = "generated"
    /\ \E run \in IF signalled THEN {"killed"} ELSE RunOf(test, right, deps) :
        LET valid == test # "none" /\ test # "empty" /\ EstablishesRed(run)
        IN  /\ repro' = IF valid THEN "valid" ELSE "invalid"
            /\ test' = IF valid THEN test ELSE "none"
            /\ sawRed' = (run = "fail")
            /\ IF valid \/ options.check THEN solve' = "attempts" /\ UNCHANGED answerOf ELSE Answers("refused")
    /\ UNCHANGED <<options, right, deps, tries, signalled, checked>>

-----------------------------------------------------------------------------
(* The loop *)

\* Mutated form of Finish: an invalid or scratch test is left where it is.
FinishKeeping(result) == Answers(result) /\ UNCHANGED test

\* A valid test outside .deepcoder is kept as a regression test, any other is
\* unlinked - also a file that was there before the solve.
Finish(result) ==
    /\ Answers(result)
    /\ test' = IF repro = "none" \/ (repro = "valid" /\ ~options.scratch) THEN test ELSE "none"

GivesUp ==
    /\ solve = "attempts" /\ (tries = MaxAttempts \/ signalled)
    /\ Finish("unsolved")
    /\ UNCHANGED <<options, right, deps, repro, sawRed, tries, signalled, checked>>

Attempts ==
    /\ solve = "attempts" /\ tries < MaxAttempts /\ ~signalled
    /\ tries' = tries + 1 /\ TurnChanges
    /\ \/ solve' = "edited" /\ UNCHANGED answerOf
       \/ Answers("thrown")
    /\ UNCHANGED <<options, deps, repro, sawRed, signalled>>

\* Mutated form of Edited: a targeted pass ends the solve.
EditedAndSolved ==
    /\ solve = "edited"
    /\ \/ signalled /\ Finish("unsolved")
       \/ ~signalled /\ ~options.targeting /\ solve' = "verify" /\ UNCHANGED <<answerOf, test>>
       \/ ~signalled /\ options.targeting /\ Finish("solved")
    /\ UNCHANGED <<options, right, deps, repro, sawRed, tries, signalled, checked>>

\* After the turn: the abort is looked at, then the targeted tests of the
\* changed files run.  A failure of one fails the tries without the check;
\* a pass, an insufficient plan or an error leaves it to the check.
Edited ==
    /\ solve = "edited"
    /\ \/ signalled /\ Finish("unsolved")
       \/ ~signalled /\ solve' = "verify" /\ UNCHANGED <<answerOf, test>>
       \/ ~signalled /\ options.targeting /\ solve' = "attempts" /\ UNCHANGED <<answerOf, test>>
    /\ UNCHANGED <<options, right, deps, repro, sawRed, tries, signalled, checked>>

Authority == IF options.check THEN "check" ELSE test

\* Mutated form of Healed: a repair that succeeded stands for the run it repaired.
HealedUnrun(run, ok) == IF ok THEN {"pass"} ELSE {run}

\* runCheck: a failure (no timeout) that a missing dependency explains is
\* repaired once, and the check run once more.
Healed(run, ok) == IF ok THEN RunOf(Authority, right, TRUE) ELSE {run}

Verifies ==
    /\ solve = "verify"
    /\ \E run \in IF signalled THEN {"killed"} ELSE RunOf(Authority, right, deps),
          repairs \in IF options.healing /\ ~deps THEN BOOLEAN ELSE {FALSE} :
        LET repaired == repairs /\ run \in {"fail", "killed"} /\ ~signalled
        IN  /\ deps' = (deps \/ repaired)
            /\ \/ "pass" \in Healed(run, repaired) /\ Finish("solved") /\ checked' = "now"
               \/ Healed(run, repaired) # {"pass"} /\ solve' = "attempts" /\ UNCHANGED <<answerOf, checked, test>>
    /\ UNCHANGED <<options, right, repro, sawRed, tries, signalled>>

\* The check is refused, or cannot be contained: only a refusal runs finish.
CheckThrows ==
    /\ solve = "verify"
    /\ \/ Finish("refused")
       \/ Answers("thrown") /\ UNCHANGED test
    /\ UNCHANGED <<options, right, deps, repro, sawRed, tries, signalled, checked>>

Interrupt ==
    /\ solve # "over" /\ ~signalled /\ signalled' = TRUE
    /\ UNCHANGED <<options, right, deps, test, repro, sawRed, solve, tries, checked, answerOf>>

SolveOver == solve = "over" /\ UNCHANGED solveVars

SolverStep ==
    \/ Refuses \/ SkipsRepro \/ ReproTurnThrows \/ ReproTurn \/ ValidatesRepro
    \/ GivesUp \/ Attempts \/ Edited \/ Verifies \/ CheckThrows

Next == SolverStep \/ Interrupt \/ SolveOver

Spec == Init /\ [][Next]_solveVars

-----------------------------------------------------------------------------

\* A solve is reported solved only when its authority passed on the tree as it
\* is at the end: no targeted test and no repair stands for it (runSolveLoop,
\* runCheck).
SolvedIsVerified == answerOf = "solved" => checked = "now" /\ (options.check => right)

\* A solve graded by the generated test has seen that test fail on the tree
\* before the fix: a timeout or a test that could not run is not red
\* (validateReproIsRed, runReproPhase).
OracleWasRed == answerOf = "solved" /\ ~options.check => sawRed

\* A loop that returned leaves a test at the repro path only as a regression
\* test that was red; a scratch or an invalid one is gone (finish).
NoScratchTestLeft ==
    answerOf \in {"solved", "unsolved"} /\ options.repro => test = "none" \/ (repro = "valid" /\ ~options.scratch)

\* "solved" is backed by the checks of the tree it is said of, a red oracle
\* among them, and the scratch test is gone.
SolveSound == TypeOK /\ SolvedIsVerified /\ OracleWasRed /\ NoScratchTestLeft
=============================================================================
