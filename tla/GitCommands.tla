---------------------------- MODULE GitCommands ----------------------------
(***************************************************************************)
(* The git commands of a session (gitSlashCommands.ts over workspace/      *)
(* git.ts) and /resolve.  Each is decided by the prompt its danger calls   *)
(* for and is refused while the session's edits are isolated; git itself   *)
(* is external, and so are the user's editor, the user's own git, and the  *)
(* others who push.                                                        *)
(*                                                                         *)
(* A file's content is the set of changes that it holds, with Marks while  *)
(* the markers of a conflict are in it.  One branch is checked out; what   *)
(* git's branch, tag and worktree commands do, and the commands that only  *)
(* print, leave this state alone.                                          *)
(***************************************************************************)
EXTENDS Integers, Sequences, FiniteSets

CONSTANTS
    Files,      \* the tracked files
    Marks,      \* the markers of a conflict, a change of their own
    Theirs,     \* the change of others, in another branch, a patch, or pushed by them
    MaxEdits,   \* bound on the user's edits
    MaxTrees,   \* bound on the trees that git keeps, commits and stash together
    MaxSent     \* bound on the commits of a push

ASSUME GitAssumption ==
    /\ {MaxEdits, MaxSent} \subseteq Nat /\ MaxTrees \in Nat \ {0}
    /\ Files # {}
    /\ {Marks, Theirs} \cap (1 .. MaxEdits) = {} /\ Marks # Theirs

VARIABLES
    commits,  \* the commits of the branch, a tree each
    index, work, stash,
    unmerged, \* files with an unresolved conflict
    gone,     \* those of them that one side deleted: two stages, no markers
    busy,     \* git is in the middle of a merge, rebase or pick
    upstream, \* the branch at the remote; <<>> for none
    seen,     \* the repository has seen all that is there
    isolated, \* session.isolation
    told,     \* what the last command told of a merge, a resolution or a push
    edits, recorded, dropped \* edits made, ever committed, and given up with a yes

checkout == <<index, work, stash, unmerged, gone, busy>>
remote   == <<upstream, seen>>
gitVars  == <<commits, checkout, remote, isolated, told, edits, recorded, dropped>>

Nothing == [f \in Files |-> {}]
\* The file that all of them change.
Shared == CHOOSE f \in Files : TRUE
With(tree, change) == [tree EXCEPT ![Shared] = @ \cup {change}]

Head_ == commits[Len(commits)]
ChangesOf(tree) == UNION {tree[f] : f \in Files}
EditsOf(tree)   == ChangesOf(tree) \cap (1 .. MaxEdits)
Room   == Len(commits) + Len(stash) < MaxTrees
Clean  == index = Head_ /\ work = Head_ /\ unmerged = {}
IsPrefix_(s, t) == Len(s) <= Len(t) /\ \A i \in 1 .. Len(s) : s[i] = t[i]

(***************************************************************************)
(* Prompts.                                                                *)
(***************************************************************************)
\* Mutated form of Level: a hard reset is like another.
LevelOfName(cmd, flag) ==
    IF cmd = "commit" THEN "safe"
    ELSE IF cmd = "restore" \/ (cmd = "push" /\ flag = "force") \/ cmd = "drop" THEN "dangerous" ELSE "normal"

Level(cmd, flag) ==
    IF cmd = "commit" THEN "safe"
    ELSE IF <<cmd, flag>> \in {<<"reset", "hard">>, <<"restore", "work">>, <<"push", "force">>} \/ cmd = "drop"
         THEN "dangerous" ELSE "normal"

\* The answers that are not a no.
Answers == {"y", "yes"}
confirmGitAction(level, answer) ==
    \/ level = "safe"
    \/ level = "normal" /\ answer \in Answers
    \/ level = "dangerous" /\ answer = "yes"

\* Mutated form of Mutating: what does not touch a file is let through.
MutatingFiles == {"commit", "commit-msg", "revert", "reset", "amend", "pull", "rebase", "merge",
                  "cherry-pick", "restore", "apply"}

\* What is refused under isolation; /stash, /branch and /resolve are not.
Mutating == {"commit", "commit-msg", "revert", "reset", "amend", "push", "pull", "rebase", "merge",
             "cherry-pick", "stage", "restore", "apply"}

\* isolationBlocked.  What a command shows at its prompt was read before it; what
\* it does, git reads after it, so that a command is one step.
Typed(cmd) == ~(isolated /\ cmd \in Mutating)

\* What a command that was answered so gives up: the edits that are nowhere then.
StillThere == recorded \cup EditsOf(work) \cup UNION {EditsOf(stash[i]) : i \in 1 .. Len(stash)}
GivesUp(answer) == dropped' = IF answer = "yes" THEN dropped \cup ((1 .. edits) \ StillThere') ELSE dropped

Leaves(told_) == told' = told_ /\ UNCHANGED <<isolated, edits>>

(***************************************************************************)
(* Local work.                                                             *)
(***************************************************************************)
\* commit: add -u stages every tracked file, a conflicted one included.  It ends a
\* merge or a pick and not a rebase.
Commit(cmd, answer) ==
    /\ Typed(cmd) /\ confirmGitAction(Level(cmd, "none"), answer)
    /\ (work # Head_ \/ busy) /\ Room
    /\ commits' = Append(commits, work)
    /\ index' = work /\ unmerged' = {} /\ gone' = {} /\ busy' \in {FALSE, busy}
    /\ recorded' = recorded \cup EditsOf(work)
    /\ Leaves("none") /\ UNCHANGED <<work, stash, remote, dropped>>

\* With a message; without one the empty message is refused by git.
Amend(answer) ==
    /\ Typed("amend") /\ confirmGitAction(Level("amend", "none"), answer)
    /\ ~busy /\ unmerged = {}
    /\ commits' = [commits EXCEPT ![Len(commits)] = index]
    /\ recorded' = recorded \cup EditsOf(index)
    /\ Leaves("none") /\ UNCHANGED <<checkout, remote, dropped>>

\* git add, git restore, and what a reset leaves of the index and the tree.
add(tree, S) == [f \in Files |-> IF f \in S THEN tree[f] ELSE index[f]]
restore(f, staged) ==
    /\ index' = IF staged THEN [index EXCEPT ![f] = Head_[f]] ELSE index
    /\ work' = IF staged THEN work ELSE [work EXCEPT ![f] = index[f]]
reset(mode, tree) ==
    /\ index' = IF mode = "soft" THEN index ELSE tree
    /\ work' = IF mode = "hard" THEN tree ELSE work

\* To HEAD or the commit before it.  A soft one is refused in the middle of a merge.
Reset(mode, back, answer) ==
    LET tip == Len(commits) - back
    IN /\ Typed("reset") /\ confirmGitAction(Level("reset", mode), answer)
       /\ tip >= 1 /\ (mode = "soft" => ~busy /\ unmerged = {})
       /\ commits' = SubSeq(commits, 1, tip)
       /\ reset(mode, commits[tip])
       /\ unmerged' = {} /\ gone' = {}
       /\ busy' \in {FALSE, busy}
       /\ UNCHANGED <<stash, remote, recorded>>
       /\ GivesUp(answer) /\ Leaves("none")

Restore(f, staged, answer) ==
    /\ Typed("restore") /\ confirmGitAction(Level("restore", IF staged THEN "staged" ELSE "work"), answer)
    /\ staged \/ f \notin unmerged
    /\ restore(f, staged)
    /\ unmerged' = unmerged \ {f} /\ gone' = gone \ {f}
    /\ UNCHANGED <<commits, stash, busy, remote, recorded>>
    /\ GivesUp(answer) /\ Leaves("none")

Stage(S) ==
    /\ Typed("stage") /\ S # {}
    /\ index' = add(work, S)
    /\ unmerged' = unmerged \ S /\ gone' = gone \ S
    /\ Leaves("none") /\ UNCHANGED <<commits, work, stash, busy, remote, recorded, dropped>>

StashSave ==
    /\ Typed("stash") /\ unmerged = {} /\ ~Clean /\ Room
    /\ stash' = <<work>> \o stash
    /\ index' = Head_ /\ work' = Head_
    /\ Leaves("none") /\ UNCHANGED <<commits, unmerged, gone, busy, remote, recorded, dropped>>

\* Git keeps the entry when it does not apply cleanly, and refuses when it would
\* write over a file that was changed.
StashPop(answer) ==
    /\ Typed("stash") /\ confirmGitAction(Level("pop", "none"), answer)
    /\ stash # <<>> /\ unmerged = {} /\ index = Head_
    /\ \A f \in Files : stash[1][f] \subseteq Head_[f] \/ work[f] = Head_[f]
    /\ \E marked \in SUBSET {f \in Files : ~(stash[1][f] \subseteq Head_[f]) /\ ~(Head_[f] \subseteq stash[1][f])} :
        /\ work' = [f \in Files |-> (work[f] \cup stash[1][f]) \cup IF f \in marked THEN {Marks} ELSE {}]
        /\ unmerged' = marked
        /\ stash' = IF marked = {} THEN Tail(stash) ELSE stash
    /\ Leaves("none") /\ UNCHANGED <<commits, index, gone, busy, remote, recorded, dropped>>

StashDrop(answer) ==
    /\ Typed("stash") /\ confirmGitAction(Level("drop", "none"), answer) /\ stash # <<>>
    /\ stash' = Tail(stash)
    /\ UNCHANGED <<commits, index, work, unmerged, gone, busy, remote, recorded>>
    /\ GivesUp(answer) /\ Leaves("none")

(***************************************************************************)
(* Taking the work of others.                                              *)
(***************************************************************************)
\* git merge and its like: theirs come in, and where both changed a file git may
\* need the user.  It refuses over edits, and over an earlier conflict.
Takes(theirs, name) ==
    LET touched == {f \in Files : ~(theirs[f] \subseteq Head_[f])}
        both    == {f \in touched : ~(Head_[f] \subseteq theirs[f])}
        merged  == [f \in Files |-> Head_[f] \cup theirs[f]]
    IN /\ unmerged = {} /\ ~busy /\ index = Head_ /\ touched # {}
       /\ \A f \in (IF name = "rebase" THEN Files ELSE touched) : work[f] = Head_[f]
       /\ Room
       /\ \E marked \in SUBSET both : \E deleted \in SUBSET marked :
            /\ work' = [f \in Files |-> IF f \in deleted THEN Head_[f]
                                        ELSE IF f \in marked THEN merged[f] \cup {Marks}
                                        ELSE IF f \in touched THEN merged[f] ELSE work[f]]
            /\ index' = merged
            /\ unmerged' = marked /\ gone' = deleted
            /\ busy' = (marked # {})
            /\ commits' = IF marked = {} THEN Append(commits, merged) ELSE commits
       /\ UNCHANGED <<stash, recorded, dropped, isolated, edits>>

\* Mutated form of Conflicted: that nothing is unmerged is not asked.
ConflictedAlways == TRUE

\* A non-zero exit is a conflict when files are unmerged, those of this merge or
\* of an earlier one; otherwise it is an error.
Conflicted == unmerged # {}

Merge(cmd, answer) ==
    /\ Typed(cmd) /\ confirmGitAction(Level(cmd, "none"), answer)
    /\ UNCHANGED remote
    /\ \/ Takes(With(Nothing, Theirs), cmd) /\ told' = IF unmerged' = {} THEN "merged" ELSE "conflicts"
       \/ /\ unmerged # {} \/ busy \/ ~Clean
          /\ UNCHANGED <<commits, checkout, recorded, dropped>>
          /\ Leaves(IF Conflicted THEN "conflicts" ELSE "none")

\* A cherry-pick's and a pull's conflict is an error, and git stays in it.
Pick(answer) ==
    /\ Typed("cherry-pick") /\ confirmGitAction(Level("cherry-pick", "none"), answer)
    /\ Takes(With(Nothing, Theirs), "pick") /\ UNCHANGED remote
    /\ told' = "none"

Pull(rebase, answer) ==
    /\ Typed("pull") /\ confirmGitAction(Level("pull", "none"), answer) /\ upstream # <<>>
    /\ Takes(upstream[Len(upstream)], IF rebase THEN "rebase" ELSE "merge")
    /\ seen' = TRUE /\ UNCHANGED upstream
    /\ told' = "none"

\* The last commit's changes are taken out of what follows from it.
Revert(answer) ==
    LET n == Len(commits)
        without == [f \in Files |-> IF n > 1 THEN Head_[f] \ (Head_[f] \ commits[n - 1][f]) ELSE Head_[f]]
    IN /\ Typed("revert") /\ confirmGitAction(Level("revert", "none"), answer)
       /\ Clean /\ ~busy /\ without # Head_ /\ Room
       /\ commits' = Append(commits, without) /\ index' = without /\ work' = without
       /\ Leaves("none") /\ UNCHANGED <<stash, unmerged, gone, busy, remote, recorded, dropped>>

\* A patch with the topic's change; with --3way it may leave markers and an error.
Apply(answer) ==
    /\ Typed("apply") /\ confirmGitAction(Level("apply", "none"), answer)
    /\ unmerged = {} /\ Theirs \notin work[Shared]
    /\ \/ work' = With(work, Theirs) /\ UNCHANGED <<index, unmerged>> /\ Leaves("none")
       \/ /\ index[Shared] = work[Shared]
          /\ work' = [With(work, Theirs) EXCEPT ![Shared] = @ \cup {Marks}]
          /\ unmerged' = {Shared} /\ UNCHANGED index /\ Leaves("none")
    /\ UNCHANGED <<commits, stash, gone, busy, remote, recorded, dropped>>

(***************************************************************************)
(* /resolve.                                                               *)
(***************************************************************************)
\* readConflict: all three are read, and a missing stage makes it null.
Readable == unmerged \ gone

\* Mutated form of filesStillConflicted: git's list is asked again.
UnmergedStill(tree) == {}

filesStillConflicted(tree) == {f \in unmerged : Marks \in tree[f]}

\* The agent edits what it was shown, in the isolated tree when there is one; then
\* every conflicted file without markers is staged, whether it was shown or not.
Resolve ==
    /\ Typed("resolve") /\ Readable # {}
    /\ \E cleared \in SUBSET (IF isolated THEN {} ELSE Readable) :
        work' = [f \in Files |-> IF f \in cleared THEN work[f] \ {Marks} ELSE work[f]]
    /\ LET still == filesStillConflicted(work')
           resolved == unmerged \ still
       IN /\ index' = add(work', resolved)
          /\ unmerged' = still /\ gone' = gone \ resolved
          /\ Leaves(IF still = {} THEN "resolved" ELSE "none")
    /\ UNCHANGED <<commits, stash, busy, remote, recorded, dropped>>

(***************************************************************************)
(* /push.                                                                  *)
(***************************************************************************)
\* Mutated form of Accepted: --force.
AcceptedForced(force) == force \/ IsPrefix_(upstream, commits)

\* The remote takes a fast-forward; with a lease, what replaces what was seen.
Accepted(force) == IF force THEN seen ELSE IsPrefix_(upstream, commits)

\* A review of the outgoing diff that finds something has a prompt of its own, whose
\* "no" is a "no" here.
Push(force, answer) ==
    /\ Typed("push") /\ confirmGitAction(Level("push", IF force THEN "force" ELSE "none"), answer)
    /\ Accepted(force)
    /\ Len(commits) <= MaxSent
    /\ upstream' = commits /\ seen' = TRUE
    /\ Leaves("none") /\ UNCHANGED <<commits, checkout, recorded, dropped>>

(***************************************************************************)
(* Meanwhile.                                                              *)
(***************************************************************************)
EditByHand(f) ==
    /\ edits < MaxEdits /\ edits' = edits + 1
    /\ work' = [work EXCEPT ![f] = @ \cup {edits + 1}]
    /\ told' = "none" /\ UNCHANGED <<commits, index, stash, unmerged, gone, busy, remote, isolated, recorded, dropped>>

\* git commit -a in another terminal, at a prompt as well.
CommitByHand ==
    /\ unmerged = {} /\ ~busy /\ work # Head_ /\ Room
    /\ commits' = Append(commits, work) /\ index' = work
    /\ recorded' = recorded \cup EditsOf(work)
    /\ told' = "none" /\ UNCHANGED <<work, stash, unmerged, gone, busy, remote, isolated, edits, dropped>>

\* --abort, with the edits it takes along.
AbortByHand ==
    /\ busy
    /\ index' = Head_ /\ work' = Head_ /\ unmerged' = {} /\ gone' = {} /\ busy' = FALSE
    /\ UNCHANGED <<commits, stash, remote, recorded>>
    /\ dropped' = dropped \cup ((1 .. edits) \ StillThere')
    /\ Leaves("none")

OthersPush ==
    /\ upstream # <<>> /\ Theirs \notin ChangesOf(upstream[Len(upstream)]) /\ Len(upstream) < MaxTrees
    /\ upstream' = Append(upstream, With(upstream[Len(upstream)], Theirs))
    /\ seen' = FALSE
    /\ told' = "none" /\ UNCHANGED <<commits, checkout, isolated, edits, recorded, dropped>>

ByHand == (\E f \in Files : EditByHand(f)) \/ CommitByHand \/ AbortByHand \/ OthersPush

GitInit ==
    /\ commits = <<Nothing>> /\ index = Nothing /\ work = Nothing /\ stash = <<>>
    /\ unmerged = {} /\ gone = {} /\ busy = FALSE
    /\ upstream \in {<<>>, commits} /\ seen = TRUE
    /\ isolated \in BOOLEAN /\ told = "none"
    /\ edits = 0 /\ recorded = {} /\ dropped = {}

handleGit ==
    \/ \E answer \in Answers :
        \/ \E cmd \in {"commit", "commit-msg"} : Commit(cmd, answer)
        \/ Amend(answer) \/ Revert(answer) \/ Apply(answer) \/ StashPop(answer) \/ StashDrop(answer)
        \/ \E mode \in {"soft", "mixed", "hard"}, back \in 0 .. 1 : Reset(mode, back, answer)
        \/ \E f \in Files, staged \in BOOLEAN : Restore(f, staged, answer)
        \/ Pick(answer) \/ \E cmd \in {"merge", "rebase"} : Merge(cmd, answer)
        \/ \E rebase \in BOOLEAN : Pull(rebase, answer)
        \/ \E force \in BOOLEAN : Push(force, answer)
    \/ \E S \in SUBSET Files : Stage(S)
    \/ StashSave

\* Nothing is typed.
Waits == UNCHANGED gitVars

GitNext == handleGit \/ Resolve \/ ByHand \/ Waits
GitSpec == GitInit /\ [][GitNext]_gitVars

GitTypeOK ==
    /\ unmerged \subseteq Files /\ gone \subseteq unmerged
    /\ busy \in BOOLEAN
    /\ commits # <<>> /\ Len(commits) + Len(stash) <= MaxTrees
    /\ recorded \cup dropped \subseteq 1 .. edits

\* An edit is in the working tree, in the stash or in a commit that was made, unless
\* the whole word was typed to give it up, or git was told so by hand: no sequence
\* of commands that a "y" or no prompt at all decides can lose it.
EditsAreKept == 1 .. edits \subseteq StillThere \cup dropped

\* "All conflicts resolved and staged" is told when no file is unmerged, "Merged"
\* of a branch that has the change, and "conflicts in" when there are some.
ToldIsTrue ==
    /\ told = "resolved" => unmerged = {}
    /\ told = "merged" => Theirs \in ChangesOf(Head_)
    /\ told = "conflicts" => unmerged # {}

GitSound == GitTypeOK /\ EditsAreKept /\ ToldIsTrue

\* A push never takes away what others pushed and this repository has not seen.
LeaseHolds ==
    [][~seen => \A i \in 1 .. Len(upstream) : \E j \in 1 .. Len(upstream') : upstream'[j] = upstream[i]]_gitVars

\* While the edits are isolated no command moves a branch, here or at the remote.
IsolationHolds == [][isolated /\ ~ByHand => UNCHANGED <<commits, upstream>>]_gitVars

\* What /resolve stages of a file that was in conflict has no markers, whether it
\* tells of all files or stops at some.
ResolvedIsClean ==
    [][Resolve => \A f \in unmerged \ unmerged' : Marks \notin index'[f]]_gitVars

GitSteps == LeaseHolds /\ IsolationHolds /\ ResolvedIsClean

\* What the comments say and the code does not do.  "Mutating commands ... are
\* refused under active workspace isolation": a stash, a branch and a resolution
\* change the checkout.
CheckoutIsIsolated == [][isolated /\ ~ByHand => UNCHANGED <<index, work>>]_gitVars

\* "Refusing to auto-stage is far safer than committing a stray marker": /commit
\* stages a conflicted file as it is.
NoMarksAreCommitted == Marks \notin ChangesOf(Head_)
=============================================================================
