------------------------------ MODULE Worktree ------------------------------
(***************************************************************************)
(* Where an agent's edits go: one session's disposable worktrees, its tool *)
(* context, the real checkout and the session's branch.  A worktree is set *)
(* up at startup (workspace isolation), by the first write (copy-on-write) *)
(* or by the enter_worktree tool; it ends by exit_worktree, /isolation, or *)
(* at the end of the process.                                              *)
(*                                                                         *)
(* An edit is a number; the places that hold it are sets of edits.  The    *)
(* executionRoot of the session is the worktree of session.isolation, or   *)
(* else the real root: every assignment sets the two together.  A worktree *)
(* that cannot be created (not a repository, git fails, a setup command    *)
(* fails) changes nothing and is left out, as is the push of the branch.   *)
(***************************************************************************)
EXTENDS Integers, FiniteSets

CONSTANTS
    MaxTrees,       \* bound: worktrees created
    MaxEdits,       \* bound: writes of the agent
    MaxUser         \* bound: edits and commits of the user in the checkout

ASSUME WorktreeAssumption == MaxTrees \in Nat /\ MaxEdits \in Nat /\ MaxUser \in Nat

Trees == 1 .. MaxTrees
Edits == 1 .. MaxEdits
Real  == 0          \* the root of the real checkout
Roots == {Real} \cup Trees

VARIABLES
    mode,           \* config.workspaceIsolation.mode
    copyOnWrite,    \* config.copyOnWrite
    process,        \* "down", "prompt" between runs, or "run"
    isolation,      \* session.isolation: its worktree, or Real for none
    ctxRoot,        \* ctx.workspaceRoot of the run
    writable,       \* the run has an ensureWritableRoot
    capture,        \* ctx.capturePreImage and ctx.recordPostWrite are set
    live,           \* worktrees git has
    inTree,         \* worktree -> the edits in its directory, beyond its base
    inReal,         \* the agent's edits in the real checkout
    dirty,          \* the real checkout has uncommitted changes
    drifted,        \* the checkout changed since the worktree was created
    branch,         \* the branch of the session's id exists
    onBranch,       \* edits committed on a branch of some session
    trees, edits, user,     \* counters of the bounds
    \* What an observer remembers; no step of the program reads these.
    direct,         \* edits written straight into the real checkout
    entered,        \* enter_worktree succeeded in this run
    lost            \* edits finalizeIsolation removed that are nowhere else

config   == <<mode, copyOnWrite>>
context  == <<ctxRoot, writable, capture>>
checkout == <<inReal, dirty, drifted>>
worktree == <<live, inTree, trees>>
branches == <<branch, onBranch>>
seen     == <<direct, entered, lost>>
vars == <<config, process, isolation, context, worktree, checkout, branches, edits, user, seen>>

TypeOK ==
    /\ mode \in {"off", "patch", "keep"}
    /\ process \in {"down", "prompt", "run"}
    /\ isolation \in Roots /\ ctxRoot \in Roots
    /\ copyOnWrite \in BOOLEAN /\ writable \in BOOLEAN /\ capture \in BOOLEAN
    /\ dirty \in BOOLEAN /\ drifted \in BOOLEAN
    /\ branch \in BOOLEAN /\ entered \in BOOLEAN
    /\ live \subseteq Trees
    /\ inTree \in [Trees -> SUBSET Edits]
    /\ inReal \subseteq Edits /\ onBranch \subseteq Edits
    /\ direct \subseteq Edits /\ lost \subseteq Edits
    \* the session's worktree is one git has, and a context needs a run
    /\ isolation # Real => isolation \in live
    /\ process # "run" => ctxRoot = Real /\ ~writable /\ ~capture

Init ==
    /\ mode \in {"off", "patch", "keep"} /\ copyOnWrite \in BOOLEAN
    /\ process = "down" /\ isolation = Real
    /\ ctxRoot = Real /\ writable = FALSE /\ capture = FALSE
    /\ live = {} /\ inTree = [t \in Trees |-> {}] /\ inReal = {}
    /\ dirty = FALSE /\ drifted = FALSE /\ branch = FALSE /\ onBranch = {}
    /\ trees = 0 /\ edits = 0 /\ user = 0
    /\ direct = {} /\ entered = FALSE /\ lost = {}

-----------------------------------------------------------------------------
(* git *)

\* createGitWorktree: a worktree of HEAD, refused over uncommitted changes.
Creates ==
    /\ ~dirty
    /\ trees < MaxTrees /\ trees' = trees + 1
    /\ live' = live \cup {trees'}
    /\ isolation' = trees'
    /\ drifted' = FALSE
    /\ UNCHANGED <<inTree, inReal, dirty>>

\* External: a patch applies to what it was taken from, and may not to a
\* checkout that has changed since.
Applies(fits) == drifted \/ fits

\* ws.cleanup
Removes(t) ==
    /\ live' = live \ {t}
    /\ inTree' = [inTree EXCEPT ![t] = {}]
    /\ UNCHANGED trees

Delivers(t) ==
    /\ inReal' = inReal \cup inTree[t]
    /\ dirty' = (dirty \/ inTree[t] # {})
    /\ drifted' = (drifted \/ inTree[t] # {})

-----------------------------------------------------------------------------
(* The process: startup, runs, end *)

Boots(resumed) ==
    /\ process = "down"
    /\ process' = "prompt"
    /\ branch' = (branch /\ resumed)
    /\ IF mode = "off" THEN UNCHANGED <<isolation, worktree, checkout>> ELSE Creates
    /\ UNCHANGED <<config, context, onBranch, edits, user, seen>>

\* Mutated form of RunRoot: the context starts at config.workspaceRoot.
RunAtWorkspace == Real
RunRoot == isolation

\* runTask: the context starts at the execution root.
StartRun ==
    /\ process = "prompt" /\ edits < MaxEdits
    /\ process' = "run"
    /\ ctxRoot' = RunRoot
    /\ capture' = (isolation = Real)
    /\ writable' = (copyOnWrite /\ isolation = Real)
    /\ entered' = FALSE
    /\ UNCHANGED <<config, isolation, worktree, checkout, branches, edits, user, direct, lost>>

ContextEnds == ctxRoot' = Real /\ writable' = FALSE /\ capture' = FALSE

EndRun ==
    /\ process = "run"
    /\ process' = "prompt" /\ ContextEnds
    /\ UNCHANGED <<config, isolation, worktree, checkout, branches, edits, user, seen>>

\* The write itself.  The directory of a worktree that was removed comes back
\* as a plain one (write_file makes the parents).
Writes(root) ==
    /\ edits' = edits + 1
    /\ IF root = Real
       THEN /\ inReal' = inReal \cup {edits'} /\ direct' = direct \cup {edits'}
            /\ dirty' = TRUE /\ drifted' = TRUE
            /\ UNCHANGED inTree
       ELSE /\ inTree' = [inTree EXCEPT ![root] = @ \cup {edits'}]
            /\ UNCHANGED <<inReal, direct, dirty, drifted>>

\* A write where the context points: copy-on-write is off, or the session is
\* isolated already.
WriteInPlace ==
    /\ process = "run" /\ edits < MaxEdits
    /\ ~writable \/ isolation # Real
    /\ Writes(ctxRoot)
    /\ UNCHANGED <<config, process, isolation, context, live, trees, branches, user, entered, lost>>

\* Mutated form of Switches: pre-images are still captured after the switch.
SwitchesRoot == ctxRoot' = isolation' /\ UNCHANGED capture
\* The context moves to the new worktree; its undo is the worktree itself.
Switches == ctxRoot' = isolation' /\ capture' = FALSE

\* The first write of a copy-on-write run (ensureWritableRoot).
WriteInNewTree ==
    /\ process = "run" /\ edits < MaxEdits
    /\ writable /\ isolation = Real /\ ~dirty
    /\ trees < MaxTrees /\ trees' = trees + 1
    /\ live' = live \cup {trees'} /\ isolation' = trees' /\ drifted' = FALSE
    /\ edits' = edits + 1
    /\ inTree' = [inTree EXCEPT ![trees'] = {edits'}]
    /\ Switches
    /\ UNCHANGED <<config, process, writable, inReal, dirty, branches, user, seen>>

-----------------------------------------------------------------------------
(* The worktree tools and /isolation *)

EnterTool ==
    /\ process = "run" /\ isolation = Real
    /\ Creates
    /\ entered' = TRUE
    /\ UNCHANGED <<config, process, context, branches, edits, user, direct, lost>>

\* exit("apply"): a patch that does not apply is not an error, and the
\* worktree is removed all the same.
ExitToolApply(fits) ==
    /\ process = "run" /\ isolation # Real
    /\ Applies(fits)
    /\ IF fits THEN Delivers(isolation) ELSE UNCHANGED checkout
    /\ Removes(isolation)
    /\ isolation' = Real
    /\ UNCHANGED <<config, process, context, branches, edits, user, seen>>

\* Mutated form of ExitToolDiscard: the session keeps its isolation.
ExitToolForgets ==
    /\ process = "run" /\ isolation # Real
    /\ Removes(isolation)
    /\ UNCHANGED <<config, process, isolation, context, checkout, branches, edits, user, seen>>

ExitToolDiscard ==
    /\ process = "run" /\ isolation # Real
    /\ Removes(isolation) /\ isolation' = Real
    /\ UNCHANGED <<config, process, context, checkout, branches, edits, user, seen>>

\* Mutated form of IsolationApply: the session stays isolated.
IsolationApplyOnly ==
    /\ process = "prompt" /\ isolation # Real
    /\ Delivers(isolation)
    /\ UNCHANGED <<config, process, isolation, context, worktree, branches, edits, user, seen>>

\* /isolation apply.  One that does not apply leaves all as it was.  The
\* worktree is left behind.
IsolationApply ==
    /\ process = "prompt" /\ isolation # Real
    /\ Delivers(isolation)
    /\ isolation' = Real
    /\ UNCHANGED <<config, process, context, worktree, branches, edits, user, seen>>

IsolationDiscard ==
    /\ process = "prompt" /\ isolation # Real
    /\ Removes(isolation) /\ isolation' = Real
    /\ UNCHANGED <<config, process, context, checkout, branches, edits, user, seen>>

-----------------------------------------------------------------------------
(* The end of the process *)

\* finalizeToBranch: nothing to commit; or the branch is new and the patch fits
\* its base; or the branch is there from an earlier process of the session, or
\* is made and the patch does not fit.
Committed(ok) ==
    \/ ok /\ inTree[isolation] = {} /\ UNCHANGED branches
    \/ ok /\ inTree[isolation] # {} /\ ~branch
          /\ branch' = TRUE /\ onBranch' = onBranch \cup inTree[isolation]
    \/ ~ok /\ inTree[isolation] # {} /\ (branch \/ drifted)
           /\ branch' = TRUE /\ UNCHANGED onBranch

\* Mutated form of Keeps: the worktree of a failed branch is removed as well.
KeepsByMode(ok) == mode = "keep"
\* keepOnSuccess is FALSE and keepOnFailure TRUE by default.
Keeps(ok) == mode = "keep" \/ ~ok

\* finalizeIsolation, in main's finally.
Quits ==
    /\ process = "prompt"
    /\ process' = "down" /\ isolation' = Real
    /\ IF isolation = Real THEN UNCHANGED <<branches, worktree, lost>>
       ELSE \E ok \in BOOLEAN :
            /\ Committed(ok)
            /\ IF Keeps(ok) THEN UNCHANGED <<worktree, lost>>
               ELSE /\ Removes(isolation)
                    /\ lost' = lost \cup (inTree[isolation] \ (onBranch' \cup inReal))
    /\ UNCHANGED <<config, context, checkout, edits, user, direct, entered>>

Crashes ==
    /\ process # "down"
    /\ process' = "down" /\ isolation' = Real /\ ContextEnds
    /\ UNCHANGED <<config, worktree, checkout, branches, edits, user, seen>>

-----------------------------------------------------------------------------
(* The user, in the checkout *)

UserEdits ==
    /\ user < MaxUser /\ user' = user + 1
    /\ dirty' = TRUE /\ drifted' = TRUE
    /\ UNCHANGED <<config, process, isolation, context, worktree, inReal, branches, edits, seen>>

UserCommits ==
    /\ dirty /\ user < MaxUser /\ user' = user + 1
    /\ dirty' = FALSE
    /\ UNCHANGED <<config, process, isolation, context, worktree, inReal, drifted, branches, edits, seen>>

\* Nobody needs to start a process or a run.
Idle == process # "run" /\ UNCHANGED vars

Tools ==
    \/ WriteInPlace \/ WriteInNewTree
    \/ EnterTool \/ ExitToolDiscard
    \/ \E fits \in BOOLEAN : ExitToolApply(fits)

Next ==
    \/ \E resumed \in BOOLEAN : Boots(resumed)
    \/ StartRun \/ EndRun \/ Tools
    \/ IsolationApply \/ IsolationDiscard
    \/ Quits \/ Crashes
    \/ UserEdits \/ UserCommits \/ Idle

Spec == Init /\ [][Next]_vars
-----------------------------------------------------------------------------
(* Safety *)

\* An edit reaches the real checkout or a branch, never both: what was applied
\* is not committed again at the end of the process ("so finalizeIsolation
\* doesn't re-apply this same diff").
OneDestination == inReal \cap onBranch = {}

\* Pre-images are captured exactly while the tools write in the real checkout:
\* no write there without an undo, and no undo that would touch the checkout
\* for a write that went elsewhere.
CaptureFollowsRoot == process = "run" => (capture <=> ctxRoot = Real)

\* With copy-on-write on, no write lands in the checkout in a run that did not
\* call enter_worktree, through every order of exits, applies and later runs.
CheckoutUntouched ==
    [][copyOnWrite /\ ~entered => direct' = direct]_vars

\* The end of the process never destroys the only copy of an edit: when the
\* branch cannot be made the worktree stays.
FinalizeLosesNothing == lost = {}

\* Where the edits of a session are, in every state of its worktrees.
WorktreeSound ==
    /\ TypeOK
    /\ OneDestination
    /\ CaptureFollowsRoot
    /\ FinalizeLosesNothing
=============================================================================
