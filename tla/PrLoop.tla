------------------------------- MODULE PrLoop -------------------------------
(***************************************************************************)
(* The self-maintenance loop: runAuditSweep triages the findings against   *)
(* its ledger, runs delegate auto on each, merges the pull requests with   *)
(* mergePr, which asks GitHub again before it merges, and saves the        *)
(* ledger.  GitHub changes at any time; the sweep may crash and be started *)
(* again, and gh may fail.                                                 *)
(*                                                                         *)
(* A finding has at most one pull request that the sweep looks at: the     *)
(* first of those delegate auto opens.                                     *)
(***************************************************************************)
EXTENDS Integers, Sequences, SequencesExt

CONSTANTS Findings, MaxSweeps

VARIABLES
    ledger,         \* the file: finding -> "none", "attempted", "fixed"
    read,           \* the ledger this sweep loaded
    mode,           \* the options of this sweep
    sweeps, at, queue,
    outcome,        \* finding -> what this sweep did
    github,         \* finding -> the state of its pull request
    gate,           \* what mergePr knows of the pull request it is at
    shifted,        \* GitHub moved that pull request after the last look
    asked           \* findings for which gh pr merge was ever called

loopVars == <<ledger, read, mode, sweeps, at, queue, outcome, github, gate, shifted, asked>>

Modes      == {"all", "noFix", "noMerge", "dryRun"}
PrStates   == {"none", "clean", "behind", "conflicting", "failing", "unknown", "merged"}
Outcomes   == {"triaged", "skipped", "no_pr", "opened", "merged", "not_merged"}

TypeOK ==
    /\ ledger \in [Findings -> {"none", "attempted", "fixed"}]
    /\ read \in [Findings -> {"none", "attempted", "fixed"}]
    /\ mode \in Modes /\ sweeps \in 0 .. MaxSweeps
    /\ at \in {"idle", "fix", "merge", "save"}
    /\ queue \in Seq(Findings)
    /\ outcome \in [Findings -> Outcomes]
    /\ github \in [Findings -> PrStates]
    /\ gate \in {"unasked", "passed", "conflict_free", "rechecked"}
    /\ shifted \in BOOLEAN /\ asked \subseteq Findings

Init ==
    /\ ledger = [f \in Findings |-> "none"] /\ read = ledger
    /\ mode = "all" /\ sweeps = 0 /\ at = "idle" /\ queue = <<>>
    /\ outcome = [f \in Findings |-> "skipped"]
    /\ github = [f \in Findings |-> "none"]
    /\ gate = "unasked" /\ shifted = FALSE /\ asked = {}

\* HIGH and MED findings that the ledger does not hold; LOW ones are skipped.
\* Mutated form of Triage: only what is fixed is skipped.
TriageUnfixed(entries, serious) == {f \in serious : entries[f] # "fixed"}

Triage(entries, serious) == {f \in serious : entries[f] = "none"}

\* A sweep with nothing to do, a dry run and --no-fix go to the end at once.
Sweeps ==
    /\ at = "idle" /\ sweeps < MaxSweeps /\ sweeps' = sweeps + 1
    /\ read' = ledger /\ mode' \in Modes /\ gate' = "unasked"
    /\ \E serious \in SUBSET Findings :
        /\ queue' = IF mode' \in {"dryRun", "noFix"} THEN <<>> ELSE SetToSeq(Triage(ledger, serious))
        /\ outcome' = [f \in Findings |-> IF f \in Triage(ledger, serious) THEN "triaged" ELSE "skipped"]
    /\ at' = IF mode' = "dryRun" THEN "idle" ELSE IF queue' = <<>> THEN "save" ELSE "fix"
    /\ UNCHANGED <<ledger, github, shifted, asked>>

\* runDelegateAuto plans, runs, validates, and opens a pull request for every
\* applyable worker.
Fixes ==
    /\ at = "fix" /\ queue # <<>>
    /\ LET f == Head(queue) IN
        \/ outcome' = [outcome EXCEPT ![f] = "no_pr"] /\ UNCHANGED github
        \/ outcome' = [outcome EXCEPT ![f] = "opened"] /\ github' = [github EXCEPT ![f] = "unknown"]
    /\ queue' = Tail(queue)
    /\ UNCHANGED <<ledger, read, mode, sweeps, at, gate, shifted, asked>>

Opened == SetToSeq({f \in Findings : outcome[f] = "opened"})

StartsMerging ==
    /\ at = "fix" /\ queue = <<>>
    /\ queue' = IF mode = "noMerge" THEN <<>> ELSE Opened
    /\ at' = IF queue' = <<>> THEN "save" ELSE "merge"
    /\ UNCHANGED <<ledger, read, mode, sweeps, outcome, github, gate, shifted, asked>>

-----------------------------------------------------------------------------
(* mergePr, and before it the update of a branch that is behind *)

Pr == Head(queue)

NextPr(result) ==
    /\ outcome' = [outcome EXCEPT ![Pr] = result]
    /\ queue' = Tail(queue) /\ gate' = "unasked" /\ shifted' = FALSE
    /\ at' = IF Len(queue) = 1 THEN "save" ELSE "merge"

\* The validate seam: gh pr view, polled while GitHub says UNKNOWN; open,
\* mergeable and no failed check.  gh itself may fail.
Applyable(f) == github[f] \in {"clean", "behind"}

Refused ==
    /\ at = "merge" /\ gate \in {"unasked", "conflict_free"}
    /\ NextPr("not_merged")
    /\ UNCHANGED <<ledger, read, mode, sweeps, github, asked>>

UpdatesBranch ==
    /\ at = "merge" /\ gate = "unasked" /\ github[Pr] = "behind"
    /\ github' = [github EXCEPT ![Pr] = "unknown"]
    /\ UNCHANGED <<ledger, read, mode, sweeps, at, queue, outcome, gate, shifted, asked>>

Validates ==
    /\ at = "merge" /\ gate = "unasked" /\ Applyable(Pr) /\ gate' = "passed"
    /\ UNCHANGED <<ledger, read, mode, sweeps, at, queue, outcome, github, shifted, asked>>

\* git merge-tree; a failure of git reads as no conflict, and no resolver is given.
LooksForConflicts ==
    /\ at = "merge" /\ gate = "passed"
    /\ \/ gate' = "conflict_free" /\ UNCHANGED <<outcome, queue, at, shifted>>
       \/ NextPr("not_merged")
    /\ UNCHANGED <<ledger, read, mode, sweeps, github, asked>>

\* Mutated form of Revalidates: the first answer of the gate is used again.
RevalidatesNot ==
    /\ at = "merge" /\ gate = "conflict_free" /\ gate' = "rechecked"
    /\ UNCHANGED <<ledger, read, mode, sweeps, at, queue, outcome, github, shifted, asked>>

Revalidates ==
    /\ at = "merge" /\ gate = "conflict_free" /\ Applyable(Pr) /\ gate' = "rechecked"
    /\ UNCHANGED <<ledger, read, mode, sweeps, at, queue, outcome, github, shifted, asked>>

\* gh pr merge: its exit status is not looked at, GitHub may have refused; then
\* the local branch and worktree of the pull request are removed.
Merges ==
    /\ at = "merge" /\ gate = "rechecked"
    /\ asked' = asked \cup {Pr}
    /\ github' \in {github, IF Applyable(Pr) THEN [github EXCEPT ![Pr] = "merged"] ELSE github}
    /\ NextPr("merged")
    /\ UNCHANGED <<ledger, read, mode, sweeps>>

-----------------------------------------------------------------------------

\* Mutated form of Folded: what this sweep says replaces what the ledger said.
FoldedOver(f) ==
    IF outcome[f] = "merged" THEN "fixed" ELSE IF outcome[f] = "skipped" THEN "none" ELSE "attempted"

\* mergeLedger: every finding that had a task, whatever became of it; fixed stays.
Folded(f) ==
    IF read[f] = "fixed" \/ outcome[f] = "skipped" THEN read[f]
    ELSE IF outcome[f] = "merged" THEN "fixed" ELSE "attempted"

\* Mutated form of Saves: a pull request that was opened counts as fixed.
SavesOpened ==
    /\ at = "save" /\ at' = "idle"
    /\ ledger' = [f \in Findings |-> IF outcome[f] = "opened" THEN "fixed" ELSE Folded(f)]
    /\ UNCHANGED <<read, mode, sweeps, queue, outcome, github, gate, shifted, asked>>

Saves ==
    /\ at = "save" /\ at' = "idle"
    /\ ledger' = [f \in Findings |-> Folded(f)]
    /\ UNCHANGED <<read, mode, sweeps, queue, outcome, github, gate, shifted, asked>>

\* The process ends, or a git or gh call of delegate auto throws: nothing of this
\* sweep is in the ledger.
SweepCrashes ==
    /\ at # "idle" /\ at' = "idle" /\ queue' = <<>> /\ gate' = "unasked" /\ shifted' = FALSE
    /\ UNCHANGED <<ledger, read, mode, sweeps, outcome, github, asked>>

\* Pushes, checks and merges of others move a pull request that is open.
GitHubMoves ==
    /\ at = "merge"
    /\ \E f \in Findings, s \in {"clean", "behind", "conflicting", "failing", "unknown"} :
        /\ github[f] \notin {"none", "merged", s}
        /\ github' = [github EXCEPT ![f] = s]
        /\ shifted' = (shifted \/ (f = Pr /\ gate = "rechecked"))
    /\ UNCHANGED <<ledger, read, mode, sweeps, at, queue, outcome, gate, asked>>

SweepOver == at = "idle" /\ UNCHANGED loopVars

Next ==
    \/ Sweeps \/ Fixes \/ StartsMerging \/ Refused \/ UpdatesBranch \/ Validates
    \/ LooksForConflicts \/ Revalidates \/ Merges \/ Saves \/ SweepCrashes \/ GitHubMoves \/ SweepOver

Spec == Init /\ [][Next]_loopVars

-----------------------------------------------------------------------------

\* A finding is recorded as fixed only if a merge of its pull request was asked
\* for, also across crashes and later sweeps (mergeLedger, runSelfMaintain).
FixedWasMergedFor == \A f \in Findings : ledger[f] = "fixed" => f \in asked

\* gh pr merge is called on a pull request that fails its gate only when GitHub
\* moved it after the second validate: what the first one said, before the
\* conflict check and the update of the branch, is not relied on (mergePr).
GateIsLookedAtTwice ==
    [][\A f \in asked' \ asked : Applyable(f) \/ shifted]_loopVars

\* What a finished sweep attempted or fixed no later sweep touches: no second
\* delegate auto, and fixed never becomes less (triage, mergeLedger).
LedgerIsFinal ==
    [][\A f \in Findings :
        ledger[f] # "none" => /\ ledger'[f] = ledger[f]
                              /\ github[f] = "merged" => github'[f] = "merged"
                              /\ ~(outcome[f] = "triaged" /\ outcome'[f] \in {"no_pr", "opened"})]_loopVars

\* A finding recorded as fixed has a merged pull request ("A merged PR records
\* the finding as `fixed`", sweepState.ts): the answer of `gh pr merge' counts.
FixedIsMerged == \A f \in Findings : ledger[f] = "fixed" => github[f] = "merged"

\* The ledger across sweeps and crashes records only what was asked for.
SweepSound == TypeOK /\ FixedWasMergedFor

\* What no step of a sweep does: merge past its gate, or redo what is recorded.
SweepSteps == GateIsLookedAtTwice /\ LedgerIsFinal
=============================================================================
