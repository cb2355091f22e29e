---------------------------- MODULE Workspace_proofs ---------------------------
(***************************************************************************)
(* The safety properties of Worktree for every number of worktrees, edits  *)
(* and moves of the user; then those of the parts that MCWorkspace runs    *)
(* beside it: the routing of an escalated run, the settings and their      *)
(* repair, the /delegate commands, a task split by the model, the action   *)
(* properties of all of them in the composition, and a conversation of any *)
(* length that the stages shorten.                                         *)
(*                                                                         *)
(* Worktree's inductive invariant adds to the properties: edits and        *)
(* worktrees are handed out in order (Fresh), no edit of the open worktree *)
(* has reached the checkout or a branch (OpenTree), and a copy-on-write    *)
(* run that still points at the checkout can still switch (CowRun).  The   *)
(* other parts' invariants stand before their lemmas.                      *)
(***************************************************************************)
EXTENDS MCWorkspace, NaturalsInduction, FiniteSetTheorems, SequenceTheorems, TLAPS

Fresh ==
    /\ trees \in 0 .. MaxTrees /\ edits \in 0 .. MaxEdits
    /\ isolation <= trees /\ ctxRoot <= trees
    /\ \A t \in Trees : t > trees => inTree[t] = {}
    /\ \A e \in Edits : e > edits =>
          e \notin inReal \cup onBranch /\ \A t \in Trees : e \notin inTree[t]

OpenTree == isolation # Real => inTree[isolation] \cap (inReal \cup onBranch) = {}

CowRun ==
    process = "run" /\ copyOnWrite /\ ~entered /\ ctxRoot = Real
        => writable /\ isolation = Real

IInv ==
    /\ TypeOK /\ Fresh
    /\ OneDestination /\ OpenTree
    /\ CaptureFollowsRoot /\ CowRun
    /\ FinalizeLosesNothing

USE WorktreeAssumption
-----------------------------------------------------------------------------
\* Nothing is open, written or lost at the start.
LEMMA InitHolds == Init => IInv
<1> SUFFICES ASSUME Init PROVE IInv
  OBVIOUS
<1> USE DEF Init
<1>1. TypeOK
  BY DEF TypeOK, Trees, Edits, Real, Roots
<1>2. Fresh
  BY DEF Fresh, Trees, Edits, Real
<1>3. OneDestination /\ OpenTree /\ CaptureFollowsRoot /\ CowRun /\ FinalizeLosesNothing
  BY DEF OneDestination, OpenTree, CaptureFollowsRoot, CowRun, FinalizeLosesNothing, Real
<1> QED
  BY <1>1, <1>2, <1>3 DEF IInv

\* A new worktree is one of Trees that no place has named before, and empty.
LEMMA NewTree ==
  ASSUME IInv, Creates
  PROVE  /\ trees' \in Trees /\ trees' = trees + 1
         /\ live' \subseteq Trees /\ trees' \in live'
         /\ isolation' = trees' /\ inTree'[trees'] = {}
<1>1. trees \in Int /\ trees + 1 \in Trees
  BY DEF IInv, Fresh, Creates, Trees
<1>2. inTree[trees + 1] = {}
  BY <1>1 DEF IInv, Fresh
<1> QED
  BY <1>1, <1>2 DEF Creates, IInv, TypeOK

\* A write changes one place, by an edit no place held.
LEMMA NewEdit ==
  ASSUME IInv, edits < MaxEdits, Writes(ctxRoot)
  PROVE  /\ edits' \in Edits /\ edits' = edits + 1
         /\ edits' \notin inReal \cup onBranch
         /\ \A t \in Trees : edits' \notin inTree[t]
<1>1. edits \in Int /\ edits + 1 \in Edits
  BY DEF IInv, Fresh, Edits
<1> QED
  BY <1>1 DEF IInv, Fresh, Writes

\* Every step keeps the invariant, one case per action.
LEMMA StepHolds == IInv /\ [Next]_vars => IInv'
<1> SUFFICES ASSUME IInv, [Next]_vars PROVE IInv'
  OBVIOUS
<1> USE DEF IInv, vars, config, context, checkout, worktree, branches, seen, Real, Roots
<1>1. ASSUME NEW again \in BOOLEAN, Boots(again) PROVE IInv'
  <2>1. TypeOK'
    <3>1. CASE mode = "off"
      BY <1>1, <3>1 DEF TypeOK, Boots
    <3>2. CASE mode # "off"
      BY <1>1, <3>2, NewTree DEF TypeOK, Boots, Creates, Trees
    <3> QED
      BY <3>1, <3>2
  <2>2. Fresh'
    BY <1>1 DEF TypeOK, Fresh, Trees, Edits, Boots, Creates
  <2>3. OneDestination' /\ OpenTree'
    <3>1. CASE mode = "off"
      BY <1>1, <3>1 DEF TypeOK, OneDestination, OpenTree, Boots
    <3>2. CASE mode # "off"
      BY <1>1, <3>2, NewTree DEF TypeOK, OneDestination, OpenTree, Boots, Creates
    <3> QED
      BY <3>1, <3>2
  <2>4. CaptureFollowsRoot' /\ CowRun'
    BY <1>1 DEF TypeOK, Fresh, CaptureFollowsRoot, CowRun, Trees, Boots, Creates
  <2>5. FinalizeLosesNothing'
    BY <1>1 DEF TypeOK, FinalizeLosesNothing, Boots, Creates
  <2> QED
    BY <2>1, <2>2, <2>3, <2>4, <2>5
<1>2. ASSUME StartRun PROVE IInv'
  <2>1. TypeOK'
    BY <1>2 DEF TypeOK, Fresh, Trees, Edits, StartRun, RunRoot
  <2>2. Fresh'
    BY <1>2 DEF TypeOK, Fresh, Trees, Edits, StartRun, RunRoot
  <2>3. OneDestination' /\ OpenTree'
    BY <1>2 DEF TypeOK, Fresh, OneDestination, OpenTree, Trees, Edits, StartRun, RunRoot
  <2>4. CaptureFollowsRoot' /\ CowRun'
    BY <1>2 DEF TypeOK, Fresh, CaptureFollowsRoot, CowRun, Trees, StartRun, RunRoot
  <2>5. FinalizeLosesNothing'
    BY <1>2 DEF TypeOK, FinalizeLosesNothing, StartRun, RunRoot
  <2> QED
    BY <2>1, <2>2, <2>3, <2>4, <2>5
<1>3. ASSUME EndRun PROVE IInv'
  <2>1. TypeOK'
    BY <1>3 DEF TypeOK, Fresh, Trees, Edits, EndRun, ContextEnds
  <2>2. Fresh'
    BY <1>3 DEF TypeOK, Fresh, Trees, Edits, EndRun, ContextEnds
  <2>3. OneDestination' /\ OpenTree'
    BY <1>3 DEF TypeOK, Fresh, OneDestination, OpenTree, Trees, Edits, EndRun, ContextEnds
  <2>4. CaptureFollowsRoot' /\ CowRun'
    BY <1>3 DEF TypeOK, Fresh, CaptureFollowsRoot, CowRun, Trees, EndRun, ContextEnds
  <2>5. FinalizeLosesNothing'
    BY <1>3 DEF TypeOK, FinalizeLosesNothing, EndRun, ContextEnds
  <2> QED
    BY <2>1, <2>2, <2>3, <2>4, <2>5
<1>4. ASSUME WriteInPlace PROVE IInv'
  <2>1. TypeOK'
    <3>1. CASE ctxRoot = Real
      BY <1>4, <3>1, NewEdit DEF TypeOK, WriteInPlace, Writes
    <3>2. CASE ctxRoot # Real
      BY <1>4, <3>2, NewEdit DEF TypeOK, WriteInPlace, Writes
    <3> QED
      BY <3>1, <3>2
  <2>2. Fresh'
    BY <1>4 DEF TypeOK, Fresh, Trees, Edits, WriteInPlace, Writes
  <2>3. OneDestination' /\ OpenTree'
    <3>1. CASE ctxRoot = Real
      BY <1>4, <3>1, NewEdit DEF TypeOK, OneDestination, OpenTree, WriteInPlace, Writes, Trees
    <3>2. CASE ctxRoot # Real
      BY <1>4, <3>2, NewEdit DEF TypeOK, OneDestination, OpenTree, WriteInPlace, Writes, Trees
    <3> QED
      BY <3>1, <3>2
  <2>4. CaptureFollowsRoot' /\ CowRun'
    BY <1>4 DEF TypeOK, Fresh, CaptureFollowsRoot, CowRun, Trees, WriteInPlace, Writes
  <2>5. FinalizeLosesNothing'
    BY <1>4 DEF TypeOK, FinalizeLosesNothing, WriteInPlace, Writes
  <2> QED
    BY <2>1, <2>2, <2>3, <2>4, <2>5
<1>5. ASSUME WriteInNewTree PROVE IInv'
  <2>1. TypeOK'
    <3>1. trees + 1 \in Trees /\ edits + 1 \in Edits
      BY <1>5 DEF Fresh, WriteInNewTree, Trees, Edits
    <3> QED
      BY <1>5, <3>1 DEF TypeOK, WriteInNewTree, Switches, Trees
  <2>2. Fresh'
    BY <1>5 DEF TypeOK, Fresh, Trees, Edits, WriteInNewTree, Switches
  <2>3. OneDestination' /\ OpenTree'
    BY <1>5 DEF TypeOK, Fresh, OneDestination, OpenTree, Trees, Edits, WriteInNewTree, Switches
  <2>4. CaptureFollowsRoot' /\ CowRun'
    BY <1>5 DEF TypeOK, Fresh, CaptureFollowsRoot, CowRun, Trees, WriteInNewTree, Switches
  <2>5. FinalizeLosesNothing'
    BY <1>5 DEF TypeOK, FinalizeLosesNothing, WriteInNewTree, Switches
  <2> QED
    BY <2>1, <2>2, <2>3, <2>4, <2>5
<1>6. ASSUME EnterTool PROVE IInv'
  <2>1. TypeOK'
    BY <1>6, NewTree DEF TypeOK, EnterTool, Creates, Trees
  <2>2. Fresh'
    BY <1>6 DEF TypeOK, Fresh, Trees, Edits, EnterTool, Creates
  <2>3. OneDestination' /\ OpenTree'
    BY <1>6 DEF TypeOK, Fresh, OneDestination, OpenTree, Trees, Edits, EnterTool, Creates
  <2>4. CaptureFollowsRoot' /\ CowRun'
    BY <1>6 DEF TypeOK, Fresh, CaptureFollowsRoot, CowRun, Trees, EnterTool, Creates
  <2>5. FinalizeLosesNothing'
    BY <1>6 DEF TypeOK, FinalizeLosesNothing, EnterTool, Creates
  <2> QED
    BY <2>1, <2>2, <2>3, <2>4, <2>5
<1>7. ASSUME NEW fits \in BOOLEAN, ExitToolApply(fits) PROVE IInv'
  <2>1. TypeOK'
    BY <1>7 DEF TypeOK, Fresh, Trees, Edits, ExitToolApply, Applies, Delivers, Removes
  <2>2. Fresh'
    BY <1>7 DEF TypeOK, Fresh, Trees, Edits, ExitToolApply, Applies, Delivers, Removes
  <2>3. OneDestination' /\ OpenTree'
    BY <1>7 DEF TypeOK, Fresh, OneDestination, OpenTree, Trees, Edits, ExitToolApply, Applies, Delivers, Removes
  <2>4. CaptureFollowsRoot' /\ CowRun'
    BY <1>7 DEF TypeOK, Fresh, CaptureFollowsRoot, CowRun, Trees, ExitToolApply, Applies, Delivers, Removes
  <2>5. FinalizeLosesNothing'
    BY <1>7 DEF TypeOK, FinalizeLosesNothing, ExitToolApply, Applies, Delivers, Removes
  <2> QED
    BY <2>1, <2>2, <2>3, <2>4, <2>5
<1>8. ASSUME ExitToolDiscard PROVE IInv'
  <2>1. TypeOK'
    BY <1>8 DEF TypeOK, Fresh, Trees, Edits, ExitToolDiscard, Removes
  <2>2. Fresh'
    BY <1>8 DEF TypeOK, Fresh, Trees, Edits, ExitToolDiscard, Removes
  <2>3. OneDestination' /\ OpenTree'
    BY <1>8 DEF TypeOK, Fresh, OneDestination, OpenTree, Trees, Edits, ExitToolDiscard, Removes
  <2>4. CaptureFollowsRoot' /\ CowRun'
    BY <1>8 DEF TypeOK, Fresh, CaptureFollowsRoot, CowRun, Trees, ExitToolDiscard, Removes
  <2>5. FinalizeLosesNothing'
    BY <1>8 DEF TypeOK, FinalizeLosesNothing, ExitToolDiscard, Removes
  <2> QED
    BY <2>1, <2>2, <2>3, <2>4, <2>5
<1>9. ASSUME IsolationApply PROVE IInv'
  <2>1. TypeOK'
    BY <1>9 DEF TypeOK, Fresh, Trees, Edits, IsolationApply, Delivers
  <2>2. Fresh'
    BY <1>9 DEF TypeOK, Fresh, Trees, Edits, IsolationApply, Delivers
  <2>3. OneDestination' /\ OpenTree'
    BY <1>9 DEF TypeOK, Fresh, OneDestination, OpenTree, Trees, Edits, IsolationApply, Delivers
  <2>4. CaptureFollowsRoot' /\ CowRun'
    BY <1>9 DEF TypeOK, Fresh, CaptureFollowsRoot, CowRun, Trees, IsolationApply, Delivers
  <2>5. FinalizeLosesNothing'
    BY <1>9 DEF TypeOK, FinalizeLosesNothing, IsolationApply, Delivers
  <2> QED
    BY <2>1, <2>2, <2>3, <2>4, <2>5
<1>10. ASSUME IsolationDiscard PROVE IInv'
  <2>1. TypeOK'
    BY <1>10 DEF TypeOK, Fresh, Trees, Edits, IsolationDiscard, Removes
  <2>2. Fresh'
    BY <1>10 DEF TypeOK, Fresh, Trees, Edits, IsolationDiscard, Removes
  <2>3. OneDestination' /\ OpenTree'
    BY <1>10 DEF TypeOK, Fresh, OneDestination, OpenTree, Trees, Edits, IsolationDiscard, Removes
  <2>4. CaptureFollowsRoot' /\ CowRun'
    BY <1>10 DEF TypeOK, Fresh, CaptureFollowsRoot, CowRun, Trees, IsolationDiscard, Removes
  <2>5. FinalizeLosesNothing'
    BY <1>10 DEF TypeOK, FinalizeLosesNothing, IsolationDiscard, Removes
  <2> QED
    BY <2>1, <2>2, <2>3, <2>4, <2>5
<1>11. ASSUME Quits PROVE IInv'
  <2>1. TypeOK'
    BY <1>11 DEF TypeOK, Fresh, Trees, Edits, Quits, Committed, Keeps, Removes
  <2>2. Fresh'
    BY <1>11 DEF TypeOK, Fresh, Trees, Edits, Quits, Committed, Keeps, Removes
  <2>3. OneDestination' /\ OpenTree'
    BY <1>11 DEF TypeOK, Fresh, OneDestination, OpenTree, Trees, Edits, Quits, Committed, Keeps, Removes
  <2>4. CaptureFollowsRoot' /\ CowRun'
    BY <1>11 DEF TypeOK, Fresh, CaptureFollowsRoot, CowRun, Trees, Quits, Committed, Keeps, Removes
  <2>5. FinalizeLosesNothing'
    BY <1>11 DEF TypeOK, FinalizeLosesNothing, Quits, Committed, Keeps, Removes
  <2> QED
    BY <2>1, <2>2, <2>3, <2>4, <2>5
<1>12. ASSUME Crashes PROVE IInv'
  <2>1. TypeOK'
    BY <1>12 DEF TypeOK, Fresh, Trees, Edits, Crashes, ContextEnds
  <2>2. Fresh'
    BY <1>12 DEF TypeOK, Fresh, Trees, Edits, Crashes, ContextEnds
  <2>3. OneDestination' /\ OpenTree'
    BY <1>12 DEF TypeOK, Fresh, OneDestination, OpenTree, Trees, Edits, Crashes, ContextEnds
  <2>4. CaptureFollowsRoot' /\ CowRun'
    BY <1>12 DEF TypeOK, Fresh, CaptureFollowsRoot, CowRun, Trees, Crashes, ContextEnds
  <2>5. FinalizeLosesNothing'
    BY <1>12 DEF TypeOK, FinalizeLosesNothing, Crashes, ContextEnds
  <2> QED
    BY <2>1, <2>2, <2>3, <2>4, <2>5
<1>13. ASSUME UserEdits PROVE IInv'
  <2>1. TypeOK'
    BY <1>13 DEF TypeOK, Fresh, Trees, Edits, UserEdits
  <2>2. Fresh'
    BY <1>13 DEF TypeOK, Fresh, Trees, Edits, UserEdits
  <2>3. OneDestination' /\ OpenTree'
    BY <1>13 DEF TypeOK, Fresh, OneDestination, OpenTree, Trees, Edits, UserEdits
  <2>4. CaptureFollowsRoot' /\ CowRun'
    BY <1>13 DEF TypeOK, Fresh, CaptureFollowsRoot, CowRun, Trees, UserEdits
  <2>5. FinalizeLosesNothing'
    BY <1>13 DEF TypeOK, FinalizeLosesNothing, UserEdits
  <2> QED
    BY <2>1, <2>2, <2>3, <2>4, <2>5
<1>14. ASSUME UserCommits PROVE IInv'
  <2>1. TypeOK'
    BY <1>14 DEF TypeOK, Fresh, Trees, Edits, UserCommits
  <2>2. Fresh'
    BY <1>14 DEF TypeOK, Fresh, Trees, Edits, UserCommits
  <2>3. OneDestination' /\ OpenTree'
    BY <1>14 DEF TypeOK, Fresh, OneDestination, OpenTree, Trees, Edits, UserCommits
  <2>4. CaptureFollowsRoot' /\ CowRun'
    BY <1>14 DEF TypeOK, Fresh, CaptureFollowsRoot, CowRun, Trees, UserCommits
  <2>5. FinalizeLosesNothing'
    BY <1>14 DEF TypeOK, FinalizeLosesNothing, UserCommits
  <2> QED
    BY <2>1, <2>2, <2>3, <2>4, <2>5
<1>15. ASSUME UNCHANGED vars PROVE IInv'
  <2>1. TypeOK'
    BY <1>15 DEF TypeOK, Fresh, Trees, Edits
  <2>2. Fresh'
    BY <1>15 DEF TypeOK, Fresh, Trees, Edits
  <2>3. OneDestination' /\ OpenTree'
    BY <1>15 DEF TypeOK, Fresh, OneDestination, OpenTree, Trees, Edits
  <2>4. CaptureFollowsRoot' /\ CowRun'
    BY <1>15 DEF TypeOK, Fresh, CaptureFollowsRoot, CowRun, Trees
  <2>5. FinalizeLosesNothing'
    BY <1>15 DEF TypeOK, FinalizeLosesNothing
  <2> QED
    BY <2>1, <2>2, <2>3, <2>4, <2>5
<1> QED
  BY <1>1, <1>2, <1>3, <1>4, <1>5, <1>6, <1>7, <1>8, <1>9, <1>10, <1>11, <1>12, <1>13, <1>14, <1>15 DEF Next, Tools, Idle

-----------------------------------------------------------------------------
\* What the composition does is, for the worktrees, what Worktree may do.
LEMMA WorktreeMoves == [PartsNext]_parts => [Next]_vars
<1>1. CASE PartsNext
  BY <1>1, Zenon DEF PartsNext, Takes, worktrees, vars
<1>2. CASE UNCHANGED parts
  BY <1>2 DEF parts, worktrees, vars
<1> QED
  BY <1>1, <1>2

LEMMA Invariance == PartsSpec => []IInv
<1>1. PartsInit => IInv
  BY InitHolds DEF PartsInit
<1>2. IInv /\ [PartsNext]_parts => IInv'
  BY WorktreeMoves, StepHolds
<1> QED
  BY <1>1, <1>2, PTL DEF PartsSpec

\* A session's isolation is always a worktree git has, and between runs no
\* tool context is left behind.
THEOREM TypeCorrect == PartsSpec => []TypeOK
<1>1. IInv => TypeOK
  BY DEF IInv
<1> QED
  BY Invariance, <1>1, PTL

\* No edit reaches both the checkout and a branch: a worktree applied by hand
\* is never committed again when the session ends.
THEOREM AppliedOnce == PartsSpec => []OneDestination
<1>1. IInv => OneDestination
  BY DEF IInv
<1> QED
  BY Invariance, <1>1, PTL

\* Undo records pre-images exactly while the tools write in the checkout.
THEOREM UndoFollowsRoot == PartsSpec => []CaptureFollowsRoot
<1>1. IInv => CaptureFollowsRoot
  BY DEF IInv
<1> QED
  BY Invariance, <1>1, PTL

\* Ending the process destroys no edit that is nowhere else.
THEOREM FinalizeKeepsEdits == PartsSpec => []FinalizeLosesNothing
<1>1. IInv => FinalizeLosesNothing
  BY DEF IInv
<1> QED
  BY Invariance, <1>1, PTL

\* A copy-on-write run that did not call enter_worktree writes nothing into
\* the checkout.
THEOREM CopyOnWriteHolds == PartsSpec => CheckoutUntouched
<1>1. IInv /\ [Next]_vars => [copyOnWrite /\ ~entered => direct' = direct]_vars
  <2> SUFFICES ASSUME IInv, Next, copyOnWrite, ~entered PROVE direct' = direct
    BY DEF vars
  <2>1. CASE WriteInPlace
    \* Such a run still able to switch is not in this action; any other one
    \* points at a worktree.
    <3>1. ctxRoot # Real
      BY <2>1 DEF IInv, CowRun, WriteInPlace
    <3> QED
      BY <2>1, <3>1 DEF WriteInPlace, Writes
  <2>2. CASE ~WriteInPlace
    BY <2>2 DEF Next, Tools, Boots, StartRun, EndRun, WriteInNewTree, EnterTool, ExitToolApply,
                ExitToolDiscard, IsolationApply, IsolationDiscard, Quits, Crashes, UserEdits,
                UserCommits, Idle, vars, seen
  <2> QED
    BY <2>1, <2>2
<1> QED
  BY Invariance, WorktreeMoves, <1>1, PTL DEF PartsSpec, CheckoutUntouched

\* The edits of a session are where its worktrees and its undo stack say, and
\* none is lost, in every state.
THEOREM EditsAreKept == PartsSpec => []WorktreeSound
<1>1. WorktreeSound <=> TypeOK /\ OneDestination /\ CaptureFollowsRoot /\ FinalizeLosesNothing
  BY DEF WorktreeSound
<1> QED
  BY <1>1, TypeCorrect, AppliedOnce, UndoFollowsRoot, FinalizeKeepsEdits, PTL

-----------------------------------------------------------------------------
(* Model routes.                                                            *)

\* What the lemmas need of RoutingAssumption.
RouteUnset ==
    Unset \notin Routing!Efforts \cup Routing!Providers
                 \cup {"custom", "other", "pro", "flash", "high-complexity", "repeated-error"}

Overrides == [provider : {Unset, "compatible", "unknown"}, model : {Unset, "custom"}, effort : {Unset, "high"}]
RouteSet  == {Unset} \cup [provider : {Routing!Home, "compatible"}, model : {"other"}, effort : {Unset, "high"}]
Requests  == [provider : Routing!Providers \cup {Unset}, model : {Unset, "custom", "other", "pro", "flash"},
              effort : Routing!Efforts \cup {Unset}]

RoutingData ==
    /\ routes \in [Routing!Roles -> RouteSet] /\ overrides \in [Routing!Roles -> Overrides]
    /\ baseUrl \in BOOLEAN /\ effort \in {Unset, "high"}
    /\ pool \in [Routing!Providers -> Routing!Efforts \cup {Unset}]
    /\ turn \in {"idle", "running"} /\ streak \in BOOLEAN /\ failed \in BOOLEAN
    /\ escalation \in {Unset, "high-complexity", "repeated-error"}
    /\ request \in Requests

\* The provider a run uses has its adapter.
AdapterMade == turn = "running" /\ request.provider # Routing!Home => pool[request.provider] # Unset

RoutingInv ==
    RoutingData /\ AdapterMade /\ Routing!ManualWins /\ Routing!RouteHonoured /\ Routing!EffortIsTheAdapters

\* A route names a provider, a model and an effort, whatever was said.
LEMMA RouteTyped ==
    ASSUME RouteUnset, RoutingData, NEW role \in Routing!Roles
    PROVE  /\ Routing!Resolve(role) \in [provider : Routing!Providers, model : {"custom", "other", "pro", "flash"},
                                         effort : Routing!Efforts \cup {Unset}]
           /\ overrides[role].model # Unset => Routing!Resolve(role).model = overrides[role].model
           /\ overrides[role].provider # Unset => Routing!Resolve(role).provider = overrides[role].provider
<1> DEFINE o == overrides[role] b == Routing!Base(role)
<1>1. o \in Overrides
  BY DEF RoutingData
<1>2. b \in [provider : {Routing!Home, "compatible"}, model : {"other", "pro", "flash"}, effort : {Unset, "high", "medium"}]
  BY DEF RoutingData, RouteSet, Routing!Base, Routing!Default
<1> HIDE DEF b, o
<1>3. Routing!Resolve(role) = [provider |-> Routing!Or(o.provider, b.provider), model |-> Routing!Or(o.model, b.model),
                               effort |-> Routing!Or(Routing!Or(o.effort, effort), b.effort)]
  BY DEF Routing!Resolve, o, b
<1>4. Routing!Or(o.provider, b.provider) \in Routing!Providers
  BY <1>1, <1>2 DEF Overrides, Routing!Or, Routing!Providers, Routing!Home
<1>5. Routing!Or(o.model, b.model) \in {"custom", "other", "pro", "flash"}
  BY <1>1, <1>2 DEF Overrides, Routing!Or
<1>6. Routing!Or(Routing!Or(o.effort, effort), b.effort) \in Routing!Efforts \cup {Unset}
  BY <1>1, <1>2 DEF Overrides, Routing!Or, Routing!Efforts, RoutingData
<1>7. /\ o.model # Unset => Routing!Or(o.model, b.model) = o.model
      /\ o.provider # Unset => Routing!Or(o.provider, b.provider) = o.provider
  BY DEF Routing!Or
<1> HIDE DEF Routing!Or
<1> QED
  BY <1>3, <1>4, <1>5, <1>6, <1>7 DEF o

\* A run that starts goes where its role's route says.
LEMMA PooledTyped ==
    ASSUME RouteUnset, RoutingData, NEW role \in Routing!Roles
    PROVE  LET p == Routing!Pooled(Routing!Resolve(role)) IN
           /\ p \in [Routing!Providers -> Routing!Efforts \cup {Unset}]
           /\ p[Routing!Resolve(role).provider] # Unset
           /\ \A q \in Routing!Providers : pool[q] # Unset => p[q] = pool[q]
<1> DEFINE route == Routing!Resolve(role)
<1>1. route.provider \in Routing!Providers /\ route.effort \in Routing!Efforts \cup {Unset}
  BY RouteTyped
<1> HIDE DEF route
<1>2. Routing!Or(route.effort, "medium") \in Routing!Efforts
  BY <1>1 DEF Routing!Or, Routing!Efforts
<1>3. Unset \notin Routing!Efforts
  BY DEF RouteUnset
<1> HIDE DEF Routing!Or
<1>4. CASE pool[route.provider] # Unset
  BY <1>1, <1>3, <1>4 DEF Routing!Pooled, RoutingData, route
<1>5. CASE pool[route.provider] = Unset
  BY <1>1, <1>2, <1>3, <1>5 DEF Routing!Pooled, RoutingData, route
<1> QED
  BY <1>4, <1>5

LEMMA RoutingBegins ==
    ASSUME RouteUnset, Routing!Init
    PROVE  RoutingInv
<1> USE DEF Routing!Init
<1>1. RoutingData
  BY DEF RoutingData, RouteSet, Overrides, Requests, Routing!NoOverride, Routing!NoRequest, Routing!Roles
<1> QED
  BY <1>1 DEF RoutingInv, AdapterMade, Routing!ManualWins, Routing!RouteHonoured, Routing!EffortIsTheAdapters

\* A command between runs.
LEMMA CommandRoutes ==
    ASSUME RouteUnset, RoutingInv, Routing!Command, overrides' \in [Routing!Roles -> Overrides],
           effort' \in {Unset, "high"}
    PROVE  RoutingInv'
<1>1. RoutingData'
  BY DEF RoutingInv, RoutingData, Routing!Command
<1> QED
  BY <1>1 DEF RoutingInv, AdapterMade, Routing!ManualWins, Routing!RouteHonoured, Routing!EffortIsTheAdapters,
       Routing!Command

LEMMA CommandsOverride ==
    ASSUME RouteUnset, RoutingInv,
           \/ \E role \in {"edit", "plan"}, p \in {Unset, "compatible", "unknown"} : Routing!ModelSet(role, p)
           \/ \E cleared \in {{"edit"}, {"plan"}, Routing!Roles} : Routing!ModelReset(cleared) \/ Routing!EffortReset(cleared)
           \/ \E role \in {Unset, "edit", "plan"} : Routing!EffortSet(role)
    PROVE  RoutingInv' /\ pool' = pool /\ turn = "idle"
<1>1. overrides \in [Routing!Roles -> Overrides] /\ effort \in {Unset, "high"}
  BY DEF RoutingInv, RoutingData
<1>2. {"edit", "plan"} \subseteq Routing!Roles
  BY DEF Routing!Roles
<1>3. ASSUME NEW role \in {"edit", "plan"}, NEW p \in {Unset, "compatible", "unknown"}, Routing!ModelSet(role, p)
      PROVE  RoutingInv'
  <2>1. Routing!Or(p, overrides[role].provider) \in {Unset, "compatible", "unknown"}
    BY <1>1, <1>2 DEF Overrides, Routing!Or
  <2>2. overrides' = [overrides EXCEPT ![role].provider = Routing!Or(p, @), ![role].model = "custom"]
    BY <1>3 DEF Routing!ModelSet
  <2> HIDE DEF Routing!Or
  <2>3. overrides' \in [Routing!Roles -> Overrides]
    BY <1>1, <1>2, <2>1, <2>2 DEF Overrides
  <2> QED
    BY <1>1, <1>3, <2>3, CommandRoutes DEF Routing!ModelSet
<1>4. ASSUME NEW cleared \in {{"edit"}, {"plan"}, Routing!Roles}, Routing!ModelReset(cleared)
      PROVE  RoutingInv'
  <2>1. overrides' \in [Routing!Roles -> Overrides]
    BY <1>1, <1>4 DEF Routing!ModelReset, Overrides, Routing!NoOverride
  <2> QED
    BY <1>1, <1>4, <2>1, CommandRoutes DEF Routing!ModelReset
<1>5. ASSUME NEW cleared \in {{"edit"}, {"plan"}, Routing!Roles}, Routing!EffortReset(cleared)
      PROVE  RoutingInv'
  <2>1. overrides' \in [Routing!Roles -> Overrides]
    BY <1>1, <1>5 DEF Routing!EffortReset, Overrides
  <2>2. effort' \in {Unset, "high"}
    BY <1>1, <1>5 DEF Routing!EffortReset
  <2> QED
    BY <1>5, <2>1, <2>2, CommandRoutes DEF Routing!EffortReset
<1>6. ASSUME NEW role \in {Unset, "edit", "plan"}, Routing!EffortSet(role)
      PROVE  RoutingInv'
  <2>1. effort' \in {Unset, "high"}
    BY <1>1, <1>6 DEF Routing!EffortSet
  <2>2. CASE role = Unset
    BY <1>1, <1>6, <2>1, <2>2, CommandRoutes DEF Routing!EffortSet
  <2>3. CASE role # Unset
    <3>1. overrides' = [overrides EXCEPT ![role].effort = "high"] /\ role \in Routing!Roles
      BY <1>2, <1>6, <2>3 DEF Routing!EffortSet
    <3>2. overrides' \in [Routing!Roles -> Overrides]
      BY <1>1, <3>1 DEF Overrides
    <3> QED
      BY <1>6, <2>1, <3>2, CommandRoutes DEF Routing!EffortSet
  <2> QED
    BY <2>2, <2>3
<1> QED
  BY <1>3, <1>4, <1>5, <1>6 DEF Routing!ModelSet, Routing!ModelReset, Routing!EffortReset, Routing!EffortSet, Routing!Command

LEMMA StartRoutes ==
    ASSUME RouteUnset, RoutingInv, NEW hard \in BOOLEAN, Routing!StartRun(hard)
    PROVE  RoutingInv' /\ \A q \in Routing!Providers : pool[q] # Unset => pool'[q] = pool[q]
<1> DEFINE role == IF escalation' = Unset THEN "edit" ELSE "plan"
           route == Routing!Resolve(role)
           away == route.provider # Routing!Home
<1>1. /\ RoutingData /\ turn = "idle" /\ escalation' = Routing!StartEscalation(hard) /\ streak' = FALSE
      /\ UNCHANGED <<routes, baseUrl, overrides, effort>>
  BY Zenon DEF RoutingInv, Routing!StartRun
<1>2. \/ /\ away /\ ~Routing!Makes(route.provider) /\ failed' = TRUE /\ UNCHANGED <<turn, pool, request>>
      \/ /\ ~(away /\ ~Routing!Makes(route.provider)) /\ failed' = FALSE /\ turn' = "running"
         /\ pool' = IF away THEN Routing!Pooled(route) ELSE pool
         /\ request' = [provider |-> route.provider, model |-> route.model,
                        effort |-> IF away THEN pool'[route.provider] ELSE "medium"]
  BY Zenon DEF Routing!StartRun
<1>3. escalation' \in {Unset, "high-complexity"} /\ (Routing!ManualEdit => escalation' = Unset)
  BY <1>1 DEF Routing!StartEscalation
<1>4. /\ role \in Routing!Roles /\ (escalation' = "high-complexity" => role = "plan")
      /\ (escalation' # "high-complexity" => role = "edit")
  BY <1>3 DEF Routing!Roles, RouteUnset
<1>5. /\ route \in [provider : Routing!Providers, model : {"custom", "other", "pro", "flash"},
                    effort : Routing!Efforts \cup {Unset}]
      /\ overrides[role].model # Unset => route.model = overrides[role].model
      /\ overrides[role].provider # Unset => route.provider = overrides[role].provider
  BY <1>1, <1>4, RouteTyped
<1>6. /\ Routing!Pooled(route) \in [Routing!Providers -> Routing!Efforts \cup {Unset}]
      /\ Routing!Pooled(route)[route.provider] # Unset
      /\ \A q \in Routing!Providers : pool[q] # Unset => Routing!Pooled(route)[q] = pool[q]
  BY <1>1, <1>4, PooledTyped
<1>7. \A r \in Routing!Roles : Routing!Resolve(r)' = Routing!Resolve(r)
  BY <1>1 DEF Routing!Resolve, Routing!Base, Routing!Default
<1>8. \/ route = Routing!Resolve("edit") /\ escalation' = Unset
      \/ route = Routing!Resolve("plan") /\ escalation' = "high-complexity"
  BY <1>3, <1>4 DEF RouteUnset
<1> HIDE DEF role, route
<1>9. CASE turn' = "idle"
  <2>1. UNCHANGED <<turn, pool, request>> /\ failed' = TRUE
    BY <1>2, <1>9
  <2>2. RoutingData'
    BY <1>1, <1>3, <2>1 DEF RoutingData
  <2> QED
    BY <1>9, <2>1, <2>2 DEF RoutingInv, AdapterMade, Routing!ManualWins, Routing!RouteHonoured, Routing!EffortIsTheAdapters
<1>10. CASE turn' = "running"
  <2>1. /\ ~(away /\ ~Routing!Makes(route.provider)) /\ failed' = FALSE
        /\ pool' = IF away THEN Routing!Pooled(route) ELSE pool
        /\ request' = [provider |-> route.provider, model |-> route.model,
                       effort |-> IF away THEN pool'[route.provider] ELSE "medium"]
    BY <1>1, <1>2, <1>10
  <2>2. /\ pool' \in [Routing!Providers -> Routing!Efforts \cup {Unset}]
        /\ away => pool'[route.provider] # Unset
        /\ \A q \in Routing!Providers : pool[q] # Unset => pool'[q] = pool[q]
    BY <1>1, <1>6, <2>1 DEF RoutingData
  <2>3. request' \in Requests
    BY <1>5, <2>1, <2>2 DEF Requests, Routing!Efforts
  <2>4. RoutingData'
    BY <1>1, <1>3, <1>10, <2>1, <2>2, <2>3 DEF RoutingData
  <2>5. request'.provider = route.provider /\ request'.model = route.model
        /\ request'.effort = IF away THEN pool'[route.provider] ELSE "medium"
    BY <2>1
  <2>6. AdapterMade' /\ Routing!EffortIsTheAdapters'
    BY <2>2, <2>5 DEF AdapterMade, Routing!EffortIsTheAdapters
  <2>7. Routing!ManualWins'
    <3> SUFFICES ASSUME overrides["edit"].model # Unset
                 PROVE  /\ escalation' = Unset /\ request'.model = overrides["edit"].model
                        /\ overrides["edit"].provider # Unset => request'.provider = overrides["edit"].provider
      BY <1>1 DEF Routing!ManualWins
    <3>1. Routing!ManualEdit
      BY DEF Routing!ManualEdit, Routing!NoOverride
    <3> QED
      BY <1>3, <1>4, <1>5, <2>5, <3>1 DEF RouteUnset
  <2>8. request'.provider # "unknown"
    BY <2>1, <2>5 DEF Routing!Makes, Routing!Home
  <2>9. Routing!RouteHonoured'
    <3>1. "edit" \in Routing!Roles /\ "plan" \in Routing!Roles
      BY DEF Routing!Roles
    <3> QED
      BY <1>3, <1>7, <1>8, <2>5, <2>8, <3>1 DEF Routing!RouteHonoured, RouteUnset
  <2> QED
    BY <2>2, <2>4, <2>6, <2>7, <2>9 DEF RoutingInv
<1> QED
  BY <1>1, <1>2, <1>9, <1>10

LEMMA ResultRoutes ==
    ASSUME RouteUnset, RoutingInv, NEW outcome, Routing!ToolResult(outcome)
    PROVE  RoutingInv' /\ pool' = pool /\ (escalation # Unset => escalation' = escalation)
<1>1. /\ RoutingData /\ turn = "running" /\ UNCHANGED <<routes, baseUrl, overrides, effort, pool, turn, failed>>
  BY Zenon DEF RoutingInv, Routing!ToolResult
<1>2. \/ UNCHANGED <<escalation, request>>
      \/ /\ ~Routing!ManualEdit /\ escalation = Unset /\ escalation' = "repeated-error"
         /\ request' = [request EXCEPT !.model = Routing!Resolve("plan").model]
  BY Zenon DEF Routing!ToolResult
<1>3. streak' \in BOOLEAN
  BY DEF Routing!ToolResult
<1>4. /\ "plan" \in Routing!Roles /\ "edit" \in Routing!Roles
      /\ Routing!Resolve("plan").model \in {"custom", "other", "pro", "flash"}
  BY <1>1, RouteTyped DEF Routing!Roles
<1>5. Routing!Resolve("plan")' = Routing!Resolve("plan") /\ Routing!Resolve("edit")' = Routing!Resolve("edit")
  BY <1>1 DEF Routing!Resolve, Routing!Base, Routing!Default
<1>6. CASE UNCHANGED <<escalation, request>>
  <2>1. RoutingData'
    BY <1>1, <1>3, <1>6 DEF RoutingData
  <2> QED
    BY <1>1, <1>5, <1>6, <2>1 DEF RoutingInv, AdapterMade, Routing!ManualWins, Routing!RouteHonoured, Routing!EffortIsTheAdapters
<1>7. CASE /\ ~Routing!ManualEdit /\ escalation = Unset /\ escalation' = "repeated-error"
           /\ request' = [request EXCEPT !.model = Routing!Resolve("plan").model]
  <2>1. /\ request' \in Requests /\ request'.provider = request.provider /\ request'.effort = request.effort
        /\ request'.model = Routing!Resolve("plan").model
    BY <1>1, <1>4, <1>7 DEF RoutingData, Requests
  <2>2. RoutingData'
    BY <1>1, <1>3, <1>7, <2>1 DEF RoutingData
  <2>3. AdapterMade' /\ Routing!EffortIsTheAdapters'
    BY <1>1, <2>1 DEF RoutingInv, AdapterMade, Routing!EffortIsTheAdapters
  <2>4. Routing!ManualWins'
    <3>1. overrides["edit"].model = Unset
      BY <1>1, <1>7 DEF Routing!ManualEdit, Routing!NoOverride
    <3> QED
      BY <1>1, <3>1 DEF Routing!ManualWins
  <2>5. Routing!RouteHonoured'
    BY <1>1, <1>5, <1>7, <2>1 DEF RoutingInv, Routing!RouteHonoured, RouteUnset
  <2> QED
    BY <1>1, <1>7, <2>2, <2>3, <2>4, <2>5 DEF RoutingInv
<1> QED
  BY <1>2, <1>6, <1>7

LEMMA SubagentRoutes ==
    ASSUME RouteUnset, RoutingInv, Routing!Subagent
    PROVE  RoutingInv' /\ UNCHANGED escalation /\ \A q \in Routing!Providers : pool[q] # Unset => pool'[q] = pool[q]
<1>1. /\ RoutingData /\ turn = "running" /\ pool' = Routing!Pooled(Routing!Resolve("review"))
      /\ UNCHANGED <<routes, baseUrl, overrides, effort, turn, escalation, streak, request, failed>>
  BY DEF RoutingInv, Routing!Subagent
<1>2. /\ pool' \in [Routing!Providers -> Routing!Efforts \cup {Unset}]
      /\ \A q \in Routing!Providers : pool[q] # Unset => pool'[q] = pool[q]
  BY <1>1, PooledTyped DEF Routing!Roles
<1>3. RoutingData'
  BY <1>1, <1>2 DEF RoutingData
<1>4. Routing!ManualWins' /\ Routing!RouteHonoured'
  <2>1. \A r \in Routing!Roles : Routing!Resolve(r)' = Routing!Resolve(r)
    BY <1>1 DEF Routing!Resolve, Routing!Base, Routing!Default
  <2> QED
    BY <1>1, <2>1 DEF RoutingInv, Routing!ManualWins, Routing!RouteHonoured, Routing!Roles
<1>5. AdapterMade' /\ Routing!EffortIsTheAdapters'
  <2>1. request.provider # Unset
    BY <1>1, RouteTyped DEF RoutingInv, Routing!RouteHonoured, Routing!Roles, RouteUnset
  <2>2. request.provider \in Routing!Providers
    BY <1>1, <2>1 DEF RoutingData, Requests
  <2> QED
    BY <1>1, <1>2, <2>2 DEF RoutingInv, AdapterMade, Routing!EffortIsTheAdapters
<1> QED
  BY <1>1, <1>2, <1>3, <1>4, <1>5 DEF RoutingInv

\* Every step keeps the invariant, an escalation for the rest of its run, and the
\* adapters that were made.
LEMMA RoutingStep ==
    ASSUME RouteUnset, RoutingInv, [Routing!Next]_(Routing!vars)
    PROVE  /\ RoutingInv'
           /\ (turn = "running" /\ turn' = "running" /\ escalation # Unset) => escalation' = escalation
           /\ \A q \in Routing!Providers : pool[q] # Unset => pool'[q] = pool[q]
<1>1. CASE \/ \E role \in {"edit", "plan"}, p \in {Unset, "compatible", "unknown"} : Routing!ModelSet(role, p)
           \/ \E cleared \in {{"edit"}, {"plan"}, Routing!Roles} : Routing!ModelReset(cleared) \/ Routing!EffortReset(cleared)
           \/ \E role \in {Unset, "edit", "plan"} : Routing!EffortSet(role)
  BY <1>1, CommandsOverride
<1>2. CASE \E hard \in BOOLEAN : Routing!StartRun(hard)
  <2>1. turn = "idle"
    BY <1>2 DEF Routing!StartRun
  <2> QED
    BY <1>2, <2>1, StartRoutes
<1>3. CASE \E outcome \in {"success", "new failure", "same failure"} : Routing!ToolResult(outcome)
  BY <1>3, ResultRoutes
<1>4. CASE Routing!Subagent
  BY <1>4, SubagentRoutes
<1>5. CASE Routing!EndRun
  <2>1. RoutingData'
    BY <1>5 DEF Routing!EndRun, RoutingInv, RoutingData, Requests, Routing!NoRequest
  <2> QED
    BY <1>5, <2>1 DEF Routing!EndRun, RoutingInv, AdapterMade, Routing!ManualWins, Routing!RouteHonoured,
         Routing!EffortIsTheAdapters
<1>6. CASE UNCHANGED Routing!vars
  <2>1. UNCHANGED <<routes, baseUrl, overrides, effort, pool, turn, escalation, streak, request, failed>>
    BY <1>6, Zenon DEF Routing!vars
  <2>2. \A r \in Routing!Roles : Routing!Resolve(r)' = Routing!Resolve(r)
    BY <2>1 DEF Routing!Resolve, Routing!Base, Routing!Default
  <2> QED
    BY <2>1, <2>2 DEF RoutingInv, RoutingData, AdapterMade, Routing!ManualWins, Routing!RouteHonoured,
         Routing!EffortIsTheAdapters, Routing!Roles
<1> QED
  BY <1>1, <1>2, <1>3, <1>4, <1>5, <1>6 DEF Routing!Next

-----------------------------------------------------------------------------
(* Settings.                                                                *)

\* Each setting has one way to get its value.
LEMMA OneKind ==
    /\ Config!Recognised \cap (Config!AnyText \cup Config!NotOff \cup Config!NonEmpty \cup Config!Either
                               \cup Config!KillSwitch \cup Config!EnvOnly \cup Config!FileOnly) = {}
    /\ Config!AnyText \cap (Config!NotOff \cup Config!NonEmpty \cup Config!Either \cup Config!KillSwitch
                            \cup Config!EnvOnly \cup Config!FileOnly) = {}
    /\ Config!NotOff \cap (Config!NonEmpty \cup Config!Either \cup Config!KillSwitch \cup Config!EnvOnly
                           \cup Config!FileOnly) = {}
    /\ Config!NonEmpty \cap (Config!Either \cup Config!KillSwitch \cup Config!EnvOnly \cup Config!FileOnly) = {}
    /\ Config!Either \cap (Config!KillSwitch \cup Config!EnvOnly \cup Config!FileOnly) = {}
    /\ Config!KillSwitch \cap (Config!EnvOnly \cup Config!FileOnly) = {}
    /\ Config!EnvOnly \cap Config!FileOnly = {}
BY DEF Config!Recognised, Config!AnyText, Config!NotOff, Config!NonEmpty, Config!Either, Config!KillSwitch,
       Config!EnvOnly, Config!FileOnly

LEMMA ResolveIs ==
    ASSUME NEW k, NEW s, NEW word, NEW lower
    PROVE  /\ k \in Config!Recognised => Config!Resolve(k, s, word, lower) =
                                         Config!Recognise(s, Config!Over(word, lower))
           /\ k \in Config!AnyText => Config!Resolve(k, s, word, lower) =
                                         (IF s = "unset" THEN Config!Over(word, lower) ELSE s = "on")
           /\ k \in Config!NotOff => Config!Resolve(k, s, word, lower) =
                                         (IF s = "unset" THEN Config!Over(word, lower) ELSE s # "off")
           /\ k \in Config!NonEmpty => Config!Resolve(k, s, word, lower) =
                                         (IF s \in {"unset", "empty"} THEN Config!Over(word, lower) ELSE s = "on")
           /\ k \in Config!Either => Config!Resolve(k, s, word, lower) =
                                         (s = "on" \/ word = "on")
           /\ k \in Config!KillSwitch => Config!Resolve(k, s, word, lower) =
                                         (s # "off" /\ Config!Over(word, lower))
           /\ k \in Config!EnvOnly => Config!Resolve(k, s, word, lower) =
                                         (s = "on")
           /\ k \in Config!FileOnly => Config!Resolve(k, s, word, lower) =
                                         Config!Over(word, lower)
<1> DEFINE a == Config!Over(word, lower)
           v1 == Config!Recognise(s, a)
           v2 == IF s = "unset" THEN a ELSE s = "on"
           v3 == IF s = "unset" THEN a ELSE s # "off"
           v4 == IF s \in {"unset", "empty"} THEN a ELSE s = "on"
           v5 == s = "on" \/ word = "on"
           v6 == s # "off" /\ a
           v7 == s = "on"
<1>1. Config!Resolve(k, s, word, lower) =
        CASE k \in Config!Recognised -> v1 [] k \in Config!AnyText -> v2 [] k \in Config!NotOff -> v3
          [] k \in Config!NonEmpty -> v4 [] k \in Config!Either -> v5 [] k \in Config!KillSwitch -> v6
          [] k \in Config!EnvOnly -> v7 [] k \in Config!FileOnly -> a
  BY Zenon DEF Config!Resolve
<1> HIDE DEF a, v1, v2, v3, v4, v5, v6, v7
<1>2. /\ k \in Config!Recognised => Config!Resolve(k, s, word, lower) = v1
      /\ k \in Config!AnyText => Config!Resolve(k, s, word, lower) = v2
      /\ k \in Config!NotOff => Config!Resolve(k, s, word, lower) = v3
      /\ k \in Config!NonEmpty => Config!Resolve(k, s, word, lower) = v4
      /\ k \in Config!Either => Config!Resolve(k, s, word, lower) = v5
      /\ k \in Config!KillSwitch => Config!Resolve(k, s, word, lower) = v6
      /\ k \in Config!EnvOnly => Config!Resolve(k, s, word, lower) = v7
      /\ k \in Config!FileOnly => Config!Resolve(k, s, word, lower) = a
  BY <1>1, OneKind, SMT
<1> QED
  BY <1>2, Zenon DEF a, v1, v2, v3, v4, v5, v6, v7

LEMMA NamesAre ==
    ASSUME NEW k \in Config!Names
    PROVE  \/ k \in Config!Recognised \/ k \in Config!AnyText \/ k \in Config!NotOff \/ k \in Config!NonEmpty
           \/ k \in Config!Either \/ k \in Config!KillSwitch \/ k \in Config!EnvOnly \/ k \in Config!FileOnly
BY Zenon DEF Config!Names

LEMMA OverBool ==
    ASSUME NEW word, NEW lower \in BOOLEAN
    PROVE  Config!Over(word, lower) \in BOOLEAN
<1>1. (word = "on") \in BOOLEAN
  OBVIOUS
<1> QED
  BY <1>1, Zenon DEF Config!Over

LEMMA ResolveBool ==
    ASSUME NEW k \in Config!Names, NEW s, NEW word, NEW lower \in BOOLEAN
    PROVE  Config!Resolve(k, s, word, lower) \in BOOLEAN
<1> DEFINE a == Config!Over(word, lower)
<1>1. /\ a \in BOOLEAN /\ (s = "on") \in BOOLEAN /\ (s # "off") \in BOOLEAN
      /\ (s = "on" \/ word = "on") \in BOOLEAN /\ (s # "off" /\ a) \in BOOLEAN
  BY OverBool
<1>0. /\ k \in Config!Recognised => Config!Resolve(k, s, word, lower) = Config!Recognise(s, a)
      /\ k \in Config!AnyText => Config!Resolve(k, s, word, lower) = (IF s = "unset" THEN a ELSE s = "on")
      /\ k \in Config!NotOff => Config!Resolve(k, s, word, lower) = (IF s = "unset" THEN a ELSE s # "off")
      /\ k \in Config!NonEmpty =>
           Config!Resolve(k, s, word, lower) = (IF s \in {"unset", "empty"} THEN a ELSE s = "on")
      /\ k \in Config!Either => Config!Resolve(k, s, word, lower) = (s = "on" \/ word = "on")
      /\ k \in Config!KillSwitch => Config!Resolve(k, s, word, lower) = (s # "off" /\ a)
      /\ k \in Config!EnvOnly => Config!Resolve(k, s, word, lower) = (s = "on")
      /\ k \in Config!FileOnly => Config!Resolve(k, s, word, lower) = a
  BY ResolveIs
<1>2. Config!Recognise(s, a) \in BOOLEAN
  BY <1>1, Zenon DEF Config!Recognise
<1>3. /\ (IF s = "unset" THEN a ELSE s = "on") \in BOOLEAN
      /\ (IF s = "unset" THEN a ELSE s # "off") \in BOOLEAN
      /\ (IF s \in {"unset", "empty"} THEN a ELSE s = "on") \in BOOLEAN
  BY <1>1, Zenon
<1> HIDE DEF a
<1>4. CASE k \in Config!Recognised
  BY <1>2, <1>4, <1>0, Zenon
<1>5. CASE k \in Config!AnyText
  BY <1>3, <1>5, <1>0, Zenon
<1>6. CASE k \in Config!NotOff
  BY <1>3, <1>6, <1>0, Zenon
<1>7. CASE k \in Config!NonEmpty
  BY <1>3, <1>7, <1>0, Zenon
<1>8. CASE k \in Config!Either
  BY <1>1, <1>8, <1>0, Zenon
<1>9. CASE k \in Config!KillSwitch
  BY <1>1, <1>9, <1>0, Zenon
<1>10. CASE k \in Config!EnvOnly
  BY <1>1, <1>10, <1>0, Zenon
<1>11. CASE k \in Config!FileOnly
  BY <1>1, <1>11, <1>0, Zenon
<1> QED
  BY <1>4, <1>5, <1>6, <1>7, <1>8, <1>9, <1>10, <1>11, NamesAre, Zenon

\* A setting has a value from any file and command line.
LEMMA ValueBool ==
    ASSUME NEW k \in Config!Names, NEW d, NEW c
    PROVE  Config!Value(k, d, c) \in BOOLEAN
<1> DEFINE w == IF k = "hooks" /\ ~trusted THEN "off" ELSE Config!Entry(k, d)
           v == Config!Resolve(k, env, w, Config!Default(k))
<1>1. Config!Default(k) \in BOOLEAN
  BY DEF Config!Default
<1>2. v \in BOOLEAN
  BY <1>1, ResolveBool
<1>3. Config!Over(c, v) \in BOOLEAN
  BY <1>2, OverBool
<1>4. Config!Value(k, d, c) = IF k # key THEN Config!Default(k) ELSE Config!Over(c, v)
  BY Zenon DEF Config!Value
<1> QED
  BY <1>1, <1>3, <1>4, Zenon

Configurations == [value : BOOLEAN, containment : BOOLEAN, mcpExecute : BOOLEAN, shell : BOOLEAN]

LEMMA ConfigurationTyped ==
    ASSUME key \in Config!Names, NEW d, NEW c
    PROVE  /\ Config!Configuration(d, c) \in Configurations
           /\ Config!Configuration(d, c).value = Config!Value(key, d, c)
           /\ Config!Started = "yolo" => /\ Config!Configuration(d, c).containment = TRUE
                                         /\ Config!Configuration(d, c).mcpExecute = FALSE
                                         /\ Config!Configuration(d, c).shell = FALSE
<1> DEFINE y == Config!Started = "yolo"
           v == Config!Value(key, d, c)
           a == y \/ Config!Value("containment", d, c)
           b == ~y /\ Config!Value("mcpExecute", d, c)
           s == ~y /\ Config!Value("interactiveShell", d, c)
<1>1. Config!Configuration(d, c) = [value |-> v, containment |-> a, mcpExecute |-> b, shell |-> s]
  BY Zenon DEF Config!Configuration
<1>2. /\ "containment" \in Config!Names /\ "mcpExecute" \in Config!Names /\ "interactiveShell" \in Config!Names
  BY DEF Config!Names, Config!Recognised, Config!EnvOnly
<1>3. v \in BOOLEAN
  BY ValueBool
<1>4. a \in BOOLEAN /\ b \in BOOLEAN /\ s \in BOOLEAN
  BY Zenon
<1>5. y => a = TRUE /\ b = FALSE /\ s = FALSE
  BY Zenon
<1> HIDE DEF v, a, b, s, y
<1>6. [value |-> v, containment |-> a, mcpExecute |-> b, shell |-> s] \in Configurations
  BY <1>3, <1>4 DEF Configurations
<1> QED
  BY <1>1, <1>5, <1>6 DEF v, y

\* A report that a later look at the file has not overtaken says what one would now.
SettingsData ==
    /\ key \in Config!Names /\ env \in {"unset", "empty", "on", "off", "junk"} /\ cli \in {"none", "on", "off"}
    /\ modeEnv \in {"unset", "yolo", "junk"} /\ modeCli \in {"none", "auto", "yolo"}
    /\ disk \in Config!Files /\ read \in Config!Files /\ phase \in {"starting", "refused", "running"}
    /\ approval \in {"ask", "auto", "yolo", "junk"} /\ resumed \in BOOLEAN
    /\ loaded = Config!Configuration(read, cli)
    /\ key # "containment" => cli = "none"
    /\ phase = "starting" => approval = "ask"
    /\ report # Config!NoReport => phase = "running"

Reported ==
    report # Config!NoReport =>
        /\ report.source \in {"env", "file", "default", "trust-gate"}
        /\ key # "hooks" => report.winners = {report.source}
        /\ disk = read => report = Config!Explained

SettingsInv == SettingsData /\ Reported /\ Config!YoloIsContained

\* What the process uses, by the kind of the setting.
LEMMA ValueIs ==
    ASSUME SettingsInv
    PROVE  LET w == IF key = "hooks" /\ ~trusted THEN "off" ELSE Config!Entry(key, read)
               a == Config!Over(w, Config!Default(key))
           IN  /\ cli # "none" => loaded.value = (cli = "on")
               /\ cli = "none" =>
                    /\ key \in Config!Recognised => loaded.value = Config!Recognise(env, a)
                    /\ key \in Config!AnyText => loaded.value = (IF env = "unset" THEN a ELSE env = "on")
                    /\ key \in Config!NotOff => loaded.value = (IF env = "unset" THEN a ELSE env # "off")
                    /\ key \in Config!NonEmpty =>
                         loaded.value = (IF env \in {"unset", "empty"} THEN a ELSE env = "on")
                    /\ key \in Config!Either => loaded.value = (env = "on" \/ w = "on")
                    /\ key \in Config!KillSwitch => loaded.value = (env # "off" /\ a)
                    /\ key \in Config!EnvOnly => loaded.value = (env = "on")
                    /\ key \in Config!FileOnly => loaded.value = a
<1> DEFINE w == IF key = "hooks" /\ ~trusted THEN "off" ELSE Config!Entry(key, read)
           a == Config!Over(w, Config!Default(key))
           v == Config!Resolve(key, env, w, Config!Default(key))
<1>1. loaded.value = Config!Value(key, read, cli)
  BY ConfigurationTyped DEF SettingsInv, SettingsData
<1>2. Config!Value(key, read, cli) = Config!Over(cli, v)
  BY Zenon DEF Config!Value
<1> HIDE DEF v
<1>3. cli # "none" => Config!Over(cli, v) = (cli = "on")
  BY Zenon DEF Config!Over
<1>4. cli = "none" => Config!Over(cli, v) = v
  BY Zenon DEF Config!Over
<1>5. /\ key \in Config!Recognised => v = Config!Recognise(env, a)
      /\ key \in Config!AnyText => v = (IF env = "unset" THEN a ELSE env = "on")
      /\ key \in Config!NotOff => v = (IF env = "unset" THEN a ELSE env # "off")
      /\ key \in Config!NonEmpty => v = (IF env \in {"unset", "empty"} THEN a ELSE env = "on")
      /\ key \in Config!Either => v = (env = "on" \/ w = "on")
      /\ key \in Config!KillSwitch => v = (env # "off" /\ a)
      /\ key \in Config!EnvOnly => v = (env = "on")
      /\ key \in Config!FileOnly => v = a
  BY ResolveIs DEF v
<1> HIDE DEF w, a
<1>6. cli = "none" => loaded.value = v
  BY <1>1, <1>2, <1>4, Zenon
<1>7. cli # "none" => loaded.value = (cli = "on")
  BY <1>1, <1>2, <1>3, Zenon
<1>8. cli = "none" =>
        /\ key \in Config!Recognised => loaded.value = Config!Recognise(env, a)
        /\ key \in Config!AnyText => loaded.value = (IF env = "unset" THEN a ELSE env = "on")
        /\ key \in Config!NotOff => loaded.value = (IF env = "unset" THEN a ELSE env # "off")
        /\ key \in Config!NonEmpty => loaded.value = (IF env \in {"unset", "empty"} THEN a ELSE env = "on")
        /\ key \in Config!Either => loaded.value = (env = "on" \/ w = "on")
        /\ key \in Config!KillSwitch => loaded.value = (env # "off" /\ a)
        /\ key \in Config!EnvOnly => loaded.value = (env = "on")
        /\ key \in Config!FileOnly => loaded.value = a
  BY <1>5, <1>6, Zenon
<1> QED
  BY <1>7, <1>8 DEF w, a

LEMMA HooksAre == "hooks" \in Config!FileOnly /\ "hooks" \in Config!Names
BY DEF Config!FileOnly, Config!Names

LEMMA LayersHold == SettingsInv => Config!LayersOrdered
<1> SUFFICES ASSUME SettingsInv PROVE Config!LayersOrdered
  OBVIOUS
<1> DEFINE w == IF key = "hooks" /\ ~trusted THEN "off" ELSE Config!Entry(key, read)
           a == Config!Over(w, Config!Default(key))
<1>0. /\ key \in Config!Names /\ env \in {"unset", "empty", "on", "off", "junk"} /\ cli \in {"none", "on", "off"}
  BY DEF SettingsInv, SettingsData
<1>1. cli # "none" => loaded.value = (cli = "on")
  BY ValueIs
<1>2. ASSUME cli = "none"
      PROVE  /\ key \in Config!Recognised => loaded.value = Config!Recognise(env, a)
             /\ key \in Config!AnyText => loaded.value = (IF env = "unset" THEN a ELSE env = "on")
             /\ key \in Config!NotOff => loaded.value = (IF env = "unset" THEN a ELSE env # "off")
             /\ key \in Config!NonEmpty => loaded.value = (IF env \in {"unset", "empty"} THEN a ELSE env = "on")
             /\ key \in Config!Either => loaded.value = (env = "on" \/ w = "on")
             /\ key \in Config!KillSwitch => loaded.value = (env # "off" /\ a)
             /\ key \in Config!EnvOnly => loaded.value = (env = "on")
             /\ key \in Config!FileOnly => loaded.value = a
  BY <1>2, ValueIs
<1>3. ASSUME cli = "none", env \in {"on", "off"}, key \notin Config!Either \cup Config!KillSwitch \cup Config!FileOnly
      PROVE  loaded.value = (env = "on")
  <2> HIDE DEF a, w
  <2>1. env # "unset" /\ env # "empty" /\ ((env # "off") = (env = "on"))
    BY <1>3
  <2>2. Config!Recognise(env, a) = (env = "on")
    BY <1>3, Zenon DEF Config!Recognise
  <2>3. CASE key \in Config!Recognised
    BY <1>2, <1>3, <2>2, <2>3, Zenon
  <2>4. CASE key \in Config!AnyText
    BY <1>2, <1>3, <2>1, <2>4, Zenon
  <2>5. CASE key \in Config!NotOff
    BY <1>2, <1>3, <2>1, <2>5, Zenon
  <2>6. CASE key \in Config!NonEmpty
    BY <1>2, <1>3, <2>1, <2>6, Zenon
  <2>7. CASE key \in Config!EnvOnly
    BY <1>2, <1>3, <2>7, Zenon
  <2> QED
    BY <1>0, <1>3, <2>3, <2>4, <2>5, <2>6, <2>7, NamesAre
<1>4. ASSUME cli = "none", Config!Entry(key, read) # "none", key = "hooks" => trusted,
             env = "unset" \/ (key \in Config!Recognised /\ env \in {"empty", "junk"})
      PROVE  loaded.value = (Config!Entry(key, read) = "on")
  <2> DEFINE e == Config!Entry(key, read)
  <2>1. w = e
    BY <1>4, Zenon
  <2> HIDE DEF w, e
  <2>2. a = (e = "on")
    BY <1>4, <2>1, Zenon DEF Config!Over, e
  <2> HIDE DEF a
  <2>3. CASE key \in Config!Recognised
    <3>1. env \notin {"on", "off"}
      BY <1>4
    <3>2. Config!Recognise(env, a) = a
      BY <3>1, Zenon DEF Config!Recognise
    <3> QED
      BY <1>2, <1>4, <2>2, <2>3, <3>2, Zenon DEF e
  <2>4. CASE key \notin Config!Recognised
    <3>0. env = "unset"
      BY <1>4, <2>4
    <3>1. CASE key \in Config!AnyText
      BY <1>2, <1>4, <2>2, <3>0, <3>1, Zenon DEF e
    <3>2. CASE key \in Config!NotOff
      BY <1>2, <1>4, <2>2, <3>0, <3>2, Zenon DEF e
    <3>3. CASE key \in Config!NonEmpty
      <4>1. env \in {"unset", "empty"}
        BY <3>0
      <4> QED
        BY <1>2, <1>4, <2>2, <3>3, <4>1, Zenon DEF e
    <3>4. CASE key \in Config!Either
      <4>1. env # "on"
        BY <3>0
      <4>2. loaded.value = (env = "on" \/ w = "on")
        BY <1>2, <1>4, <3>4, Zenon
      <4>3. (env = "on" \/ w = "on") = (e = "on")
        BY <2>1, <4>1
      <4> QED
        BY <4>2, <4>3, Zenon DEF e
    <3>5. CASE key \in Config!KillSwitch
      <4>1. env # "off"
        BY <3>0
      <4>2. loaded.value = (env # "off" /\ a)
        BY <1>2, <1>4, <3>5, Zenon
      <4>3. (env # "off" /\ a) = (e = "on")
        BY <2>2, <4>1
      <4> QED
        BY <4>2, <4>3, Zenon DEF e
    <3>6. CASE key \in Config!EnvOnly
      <4>1. key \notin Config!WholeBlock \cup Config!ByField
        BY <3>6 DEF Config!EnvOnly, Config!WholeBlock, Config!ByField
      <4> QED
        BY <1>4, <4>1 DEF Config!Entry
    <3>7. CASE key \in Config!FileOnly
      BY <1>2, <1>4, <2>2, <3>7, Zenon DEF e
    <3> QED
      BY <1>0, <2>4, <3>1, <3>2, <3>3, <3>4, <3>5, <3>6, <3>7, NamesAre
  <2> QED
    BY <2>3, <2>4
<1> QED
  BY <1>1, <1>3, <1>4, Zenon DEF Config!LayersOrdered

LEMMA UntrustedHolds == SettingsInv => Config!UntrustedRunsNothing
<1> SUFFICES ASSUME SettingsInv, key = "hooks", ~trusted PROVE ~loaded.value
  BY Zenon DEF Config!UntrustedRunsNothing
<1>1. cli = "none"
  BY DEF SettingsInv, SettingsData
<1>2. key \in Config!FileOnly
  BY HooksAre
<1>3. loaded.value = Config!Over(IF key = "hooks" /\ ~trusted THEN "off" ELSE Config!Entry(key, read),
                                 Config!Default(key))
  BY <1>1, <1>2, ValueIs
<1>4. loaded.value = Config!Over("off", Config!Default(key))
  BY <1>3, Zenon
<1>5. Config!Over("off", Config!Default(key)) = ("off" = "on")
  <2>1. "off" # "none"
    OBVIOUS
  <2> QED
    BY <2>1, Zenon DEF Config!Over
<1>6. "off" # "on"
  OBVIOUS
<1> QED
  BY <1>4, <1>5, <1>6, Zenon

LEMMA SettingsTyped == SettingsInv => Config!TypeOK
<1> SUFFICES ASSUME SettingsInv PROVE Config!TypeOK
  OBVIOUS
<1>1. loaded \in Configurations
  BY ConfigurationTyped DEF SettingsInv, SettingsData
<1>2. report.source \in {"none", "env", "file", "default", "trust-gate"}
  BY DEF SettingsInv, Reported, Config!NoReport
<1> QED
  BY <1>1, <1>2, Zenon DEF SettingsInv, SettingsData, Config!TypeOK, Configurations

\* What a report says, by the kind of the setting.
LEMMA ExplainedIs ==
    LET word == Config!Entry(key, disk)
        says == IF key = "mcpExecute" THEN env = "on" ELSE key # "hooks" /\ env \notin {"unset", "empty"}
    IN  /\ key # "hooks" => Config!Explained.source = (IF says THEN "env" ELSE IF word # "none" THEN "file" ELSE "default")
        /\ key = "hooks" => Config!Explained.source = (IF word = "on" /\ ~trusted THEN "trust-gate"
                                                       ELSE IF word # "none" THEN "file" ELSE "default")
        /\ key # "hooks" => Config!Explained.winners = {Config!Explained.source}
BY DEF Config!Explained

LEMMA EntryWords ==
    ASSUME NEW k, NEW d \in Config!Files
    PROVE  Config!Entry(k, d) \in {"none", "on", "off"}
BY DEF Config!Files, Config!Entry

LEMMA ReportsHold == SettingsInv => Config!ReportExplains
<1> SUFFICES ASSUME SettingsInv, report # Config!NoReport PROVE Config!ReportExplains
  BY DEF Config!ReportExplains
<1> DEFINE e == Config!Entry(key, read)
           w == IF key = "hooks" /\ ~trusted THEN "off" ELSE e
           a == Config!Over(w, Config!Default(key))
           says == IF key = "mcpExecute" THEN env = "on" ELSE key # "hooks" /\ env \notin {"unset", "empty"}
<1>0. /\ key \in Config!Names /\ env \in {"unset", "empty", "on", "off", "junk"}
      /\ report.source \in {"env", "file", "default", "trust-gate"}
      /\ e \in {"none", "on", "off"}
  BY EntryWords DEF SettingsInv, SettingsData, Reported
<1>1. key # "hooks" => Config!Cardinality(report.winners) = 1
  <2>1. key # "hooks" => Cardinality(report.winners) = 1
    BY FS_Singleton DEF SettingsInv, Reported
  <2>2. Config!Cardinality(report.winners) = Cardinality(report.winners)
    BY Zenon DEF Config!Cardinality, Cardinality
  <2> QED
    BY <2>1, <2>2
<1>2. ASSUME env \in {"unset", "on", "off"}, cli = "none", disk = read
      PROVE  /\ report.source = "env" => (loaded.value = (env = "on") \/ key \in Config!Either \cup Config!KillSwitch)
             /\ report.source = "file" => loaded.value = (e = "on")
             /\ report.source = "trust-gate" => ~loaded.value
             /\ report.source = "default" => loaded.value = Config!Default(key)
  <2>1. report = Config!Explained
    BY <1>2 DEF SettingsInv, Reported
  <2>2. /\ key # "hooks" => report.source = (IF says THEN "env" ELSE IF e # "none" THEN "file" ELSE "default")
        /\ key = "hooks" => report.source = (IF e = "on" /\ ~trusted THEN "trust-gate"
                                             ELSE IF e # "none" THEN "file" ELSE "default")
    BY <1>2, <2>1, ExplainedIs
  <2>3. /\ key \in Config!Recognised => loaded.value = Config!Recognise(env, a)
        /\ key \in Config!AnyText => loaded.value = (IF env = "unset" THEN a ELSE env = "on")
        /\ key \in Config!NotOff => loaded.value = (IF env = "unset" THEN a ELSE env # "off")
        /\ key \in Config!NonEmpty => loaded.value = (IF env \in {"unset", "empty"} THEN a ELSE env = "on")
        /\ key \in Config!Either => loaded.value = (env = "on" \/ w = "on")
        /\ key \in Config!KillSwitch => loaded.value = (env # "off" /\ a)
        /\ key \in Config!EnvOnly => loaded.value = (env = "on")
        /\ key \in Config!FileOnly => loaded.value = a
    BY <1>2, ValueIs
  <2>4. /\ key \in Config!EnvOnly => e = "none" /\ Config!Default(key) = FALSE
        /\ key \in Config!Either => Config!Default(key) = FALSE
        /\ key \in Config!KillSwitch => Config!Default(key) = TRUE
        /\ key \in Config!FileOnly <=> key = "hooks"
        /\ key = "mcpExecute" => key \in Config!EnvOnly
        /\ key = "hooks" => Config!Default(key) = FALSE
    BY DEF Config!EnvOnly, Config!Either, Config!KillSwitch, Config!FileOnly, Config!Default,
         Config!WholeBlock, Config!ByField, Config!Entry
  <2>5. Config!Default(key) \in BOOLEAN
    BY DEF Config!Default
  <2> DEFINE dflt == Config!Default(key)
  <2>6. /\ w = "none" => a = dflt
        /\ w # "none" => a = (w = "on")
    BY Zenon DEF Config!Over
  <2>7. /\ Config!Recognise("on", a) = ("on" = "on")
        /\ Config!Recognise("off", a) = ("off" = "on")
        /\ Config!Recognise("unset", a) = a
    BY Zenon DEF Config!Recognise
  <2>8. key \notin Config!FileOnly => w = e
    BY <2>4
  <2> HIDE DEF a, dflt
  <2>9. CASE key = "hooks"
    <3>1. loaded.value = a
      BY <2>3, <2>4, <2>9, Zenon
    <3>2. /\ report.source = "file" => e # "none" /\ (trusted \/ e # "on")
          /\ report.source = "trust-gate" => ~trusted
          /\ report.source = "default" => e = "none"
          /\ report.source # "env"
      BY <2>2, <2>9
    <3>3. CASE report.source = "file"
      <4>1. w # "none" /\ ((w = "on") = (e = "on"))
        BY <3>2, <3>3
      <4> QED
        BY <2>6, <3>1, <3>2, <3>3, <4>1, Zenon
    <3>4. CASE report.source = "trust-gate"
      <4>1. w = "off"
        BY <2>9, <3>2, <3>4
      <4>2. a = ("off" = "on") /\ "off" # "none"
        BY <2>6, <4>1
      <4>3. ~a
        BY <4>2, Zenon
      <4> QED
        BY <3>1, <3>2, <3>4, <4>3, Zenon
    <3>5. CASE report.source = "default"
      <4>1. w = "none" \/ (w = "off" /\ w # "none")
        BY <3>2, <3>5
      <4>2. ~a /\ dflt = FALSE
        <5>1. dflt = FALSE
          BY <2>4, <2>9, Zenon DEF dflt
        <5>2. w = "off" => ~(w = "on")
          OBVIOUS
        <5> QED
          BY <2>6, <4>1, <5>1, <5>2, Zenon
      <4>3. report.source = "default" /\ loaded.value = FALSE /\ Config!Default(key) = FALSE
        BY <2>4, <2>9, <3>1, <3>5, <4>2
      <4> QED
        BY <4>3, Zenon
    <3> QED
      BY <1>0, <3>2, <3>3, <3>4, <3>5
  <2>10. CASE key # "hooks"
    <3>1. w = e /\ key \notin Config!FileOnly
      BY <2>4, <2>8, <2>10
    <3>2. report.source \in {"env", "file", "default"}
      BY <2>2, <2>10
    <3>3. CASE report.source = "env"
      <4>1. env \in {"on", "off"}
        BY <1>2, <2>2, <2>10, <3>3
      <4>2. loaded.value = (env = "on") \/ key \in Config!Either \cup Config!KillSwitch
        <5>1. phase = "running" /\ Config!LayersOrdered
          BY LayersHold, Zenon DEF SettingsInv, SettingsData
        <5> QED
          BY <1>2, <3>1, <4>1, <5>1, Zenon DEF Config!LayersOrdered
      <4> QED
        BY <3>3, <4>2, Zenon
    <3>4. CASE report.source = "file"
      <4>1. e # "none" /\ env = "unset" /\ a = (e = "on")
        BY <1>2, <2>2, <2>4, <2>6, <2>10, <3>1, <3>4
      <4> QED
        BY <2>3, <2>4, <2>7, <3>1, <3>4, <4>1, <1>0, NamesAre
    <3>5. CASE report.source = "default"
      <4>1. e = "none" /\ env # "on" /\ a = dflt /\ (key # "mcpExecute" => env = "unset")
        BY <1>2, <2>2, <2>6, <2>10, <3>1, <3>5
      <4>2. loaded.value = dflt
        BY <2>3, <2>4, <2>7, <3>1, <4>1, <1>0, <2>5, NamesAre DEF dflt
      <4> QED
        BY <3>5, <4>2, Zenon DEF dflt
    <3> QED
      BY <3>2, <3>3, <3>4, <3>5, Zenon
  <2> QED
    BY <2>9, <2>10, Zenon
<1> QED
  BY <1>1, <1>2, Zenon DEF Config!ReportExplains

LEMMA SettingsBegin ==
    ASSUME Config!Init
    PROVE  SettingsInv
<1>1. SettingsData
  <2>1. /\ key # "containment" => cli = "none"
        /\ cli \in {"none", "on", "off"}
        /\ modeEnv \in {"unset", "yolo", "junk"} /\ modeCli \in {"none", "auto", "yolo"}
    BY DEF Config!Init
  <2> QED
    BY <2>1, Zenon DEF Config!Init, SettingsData
<1>2. Reported /\ Config!YoloIsContained
  BY DEF Config!Init, Reported, Config!YoloIsContained
<1> QED
  BY <1>1, <1>2 DEF SettingsInv

\* The same inputs give the same configuration.
LEMMA SameInputs ==
    ASSUME UNCHANGED <<key, env, modeEnv, modeCli, trusted, bwrap>>
    PROVE  /\ Config!Started' = Config!Started
           /\ \A d, c : Config!Value(key, d, c)' = Config!Value(key, d, c)
           /\ Config!Configuration(read, cli)' = Config!Configuration(read', cli')
<1>1. key' = key /\ env' = env /\ modeEnv' = modeEnv /\ modeCli' = modeCli /\ trusted' = trusted
  OBVIOUS
<1>2. Config!Started' = Config!Started
  BY <1>1 DEF Config!Started
<1>3. /\ Config!Value(key, read, cli)' = Config!Value(key, read', cli')
      /\ Config!Value("containment", read, cli)' = Config!Value("containment", read', cli')
      /\ Config!Value("mcpExecute", read, cli)' = Config!Value("mcpExecute", read', cli')
      /\ Config!Value("interactiveShell", read, cli)' = Config!Value("interactiveShell", read', cli')
  BY <1>1 DEF Config!Value
<1>4. \A d, c : Config!Value(key, d, c)' = Config!Value(key, d, c)
  BY <1>1 DEF Config!Value
<1> QED
  BY <1>2, <1>3, <1>4 DEF Config!Configuration

\* A process that loads its configuration.
LEMMA Loads ==
    ASSUME SettingsInv, UNCHANGED <<key, env, modeEnv, modeCli, trusted, bwrap>>, UNCHANGED disk,
           phase \in {"starting", "running"},
           read' = disk, loaded' = Config!Configuration(disk, cli'),
           cli' \in {"none", "on", "off"}, key # "containment" => cli' = "none",
           phase' = IF loaded'.containment /\ ~bwrap THEN "refused" ELSE "running",
           report' = Config!NoReport,
           \/ approval' = Config!Started
           \/ resumed' = TRUE /\ approval' = approval,
           resumed' \in BOOLEAN
    PROVE  SettingsInv'
<1>1. Config!Started' = Config!Started /\ loaded' = Config!Configuration(read, cli)'
  BY SameInputs
<1>2. Config!Started \in {"ask", "auto", "yolo", "junk"}
  BY DEF SettingsInv, SettingsData, Config!Started
<1>3. SettingsData'
  BY <1>1, <1>2 DEF SettingsInv, SettingsData
<1>4. Reported'
  BY DEF Reported
<1>5. /\ loaded' \in Configurations
      /\ Config!Started = "yolo" => loaded'.containment = TRUE /\ loaded'.mcpExecute = FALSE /\ loaded'.shell = FALSE
  <2>1. key \in Config!Names
    BY DEF SettingsInv, SettingsData
  <2> QED
    BY <2>1, ConfigurationTyped
<1>6. Config!YoloIsContained'
  BY <1>1, <1>5 DEF Config!YoloIsContained
<1> QED
  BY <1>3, <1>4, <1>6 DEF SettingsInv

LEMMA SettingsStep ==
    ASSUME SettingsInv, [Config!Next]_settings
    PROVE  SettingsInv'
<1>0. SettingsData /\ Reported /\ Config!YoloIsContained
  BY DEF SettingsInv
<1>1. CASE Config!Load
  <2>1. report = Config!NoReport
    BY <1>0, <1>1 DEF SettingsData, Config!Load
  <2> QED
    BY <1>0, <1>1, <2>1, Loads DEF Config!Load, Config!inputs, SettingsData
<1>2. ASSUME NEW c \in (IF key = "containment" THEN {"none", "on", "off"} ELSE {"none"}), Config!Resume(c)
      PROVE  SettingsInv'
  BY <1>0, <1>2, Loads DEF Config!Resume, Config!inputs
<1>3. CASE Config!EditFile
  <2>1. SettingsData'
    BY <1>0, <1>3, SameInputs DEF SettingsData, Config!EditFile, Config!inputs
  <2>2. Reported' /\ Config!YoloIsContained'
    BY <1>0, <1>3, SameInputs DEF Reported, Config!YoloIsContained, Config!EditFile, Config!inputs
  <2> QED
    BY <2>1, <2>2 DEF SettingsInv
<1>4. CASE Config!DebugConfig
  <2>1. SettingsData'
    BY <1>0, <1>4, SameInputs DEF SettingsData, Config!DebugConfig, Config!inputs
  <2>2. Config!Explained' = Config!Explained
    BY <1>4 DEF Config!DebugConfig, Config!inputs, Config!Explained
  <2>3. Reported'
    <3>1. report' = Config!Explained /\ UNCHANGED <<disk, read, key>>
      BY <1>4 DEF Config!DebugConfig, Config!inputs
    <3>2. Config!Explained.source \in {"env", "file", "default", "trust-gate"}
      BY DEF Config!Explained
    <3> QED
      BY <2>2, <3>1, <3>2, ExplainedIs DEF Reported
  <2>4. Config!YoloIsContained'
    BY <1>0, <1>4, SameInputs DEF Config!YoloIsContained, Config!DebugConfig, Config!inputs
  <2> QED
    BY <2>1, <2>3, <2>4 DEF SettingsInv
<1>5. ASSUME NEW m \in (IF key = "containment" THEN {"ask", "auto", "yolo"} ELSE {}), Config!ModeCommand(m)
      PROVE  SettingsInv'
  <2>1. SettingsData'
    BY <1>0, <1>5, SameInputs DEF SettingsData, Config!ModeCommand, Config!inputs
  <2>2. Config!Explained' = Config!Explained
    BY <1>5 DEF Config!ModeCommand, Config!inputs, Config!Explained
  <2>3. Reported'
    BY <1>0, <1>5, <2>2 DEF Reported, Config!ModeCommand, Config!inputs
  <2>4. Config!YoloIsContained'
    BY <1>0, <1>5, SameInputs DEF Config!YoloIsContained, Config!ModeCommand, Config!inputs
  <2> QED
    BY <2>1, <2>3, <2>4 DEF SettingsInv
<1>6. CASE UNCHANGED settings
  <2>0. UNCHANGED <<key, env, cli, modeEnv, modeCli, trusted, bwrap, disk, phase, loaded, approval, resumed, read, report>>
    BY <1>6, Zenon DEF settings
  <2>1. SettingsData'
    BY <1>0, <2>0, SameInputs DEF SettingsData
  <2>2. Config!Explained' = Config!Explained
    BY <2>0 DEF Config!Explained
  <2>3. Reported' /\ Config!YoloIsContained'
    BY <1>0, <2>0, <2>2, SameInputs DEF Reported, Config!YoloIsContained
  <2> QED
    BY <2>1, <2>3 DEF SettingsInv
<1>7. CASE Config!Idle
  BY <1>6, <1>7, Zenon DEF Config!Idle, Config!vars, settings
<1> QED
  BY <1>1, <1>2, <1>3, <1>4, <1>5, <1>6, <1>7, Zenon DEF Config!Next

-----------------------------------------------------------------------------
(* The delegation commands.                                                 *)

PlanOf(W) == [status : [W -> Command!Status], tdd : [W -> BOOLEAN]]

\* No plan is not a plan.
CommandNone == NoPlan \notin UNION {PlanOf(W) : W \in Command!Shapes}

LEMMA CrewIs ==
    /\ Command!First \in Command!Members
    /\ Command!Shapes = {{Command!First}, Command!Members}
    /\ \A W \in Command!Shapes : Command!First \in W /\ W \subseteq Command!Members
<1>1. Command!First \in Command!Members
  <2>1. 1 \in DOMAIN Crew
    BY CommandsAssumption
  <2> QED
    BY <2>1 DEF Command!Members, Command!First
<1> QED
  BY <1>1 DEF Command!Shapes

\* A plan: its workers, and what it says of each.
LEMMA PlanForm ==
    ASSUME plan \in Command!Plans, plan # NoPlan
    PROVE  \E W \in Command!Shapes : plan \in PlanOf(W) /\ Command!Listed = W
<1>1. plan \in UNION {PlanOf(W) : W \in Command!Shapes}
  BY DEF Command!Plans, PlanOf
<1>2. PICK W \in Command!Shapes : plan \in PlanOf(W)
  BY <1>1
<1>3. Command!Listed = W
  BY <1>2 DEF Command!Listed, PlanOf
<1> QED
  BY <1>2, <1>3

LEMMA PlanIsOne ==
    ASSUME CommandNone, NEW W \in Command!Shapes, NEW p \in PlanOf(W)
    PROVE  p # NoPlan /\ p \in Command!Plans
BY DEF CommandNone, PlanOf, Command!Plans

LEMMA NewPlanIs ==
    ASSUME NEW W \in Command!Shapes, NEW tdd \in BOOLEAN
    PROVE  /\ Command!NewPlan(W, tdd) \in PlanOf(W)
           /\ \A w \in W, s \in Command!Status : [Command!NewPlan(W, tdd) EXCEPT !.status[w] = s] \in PlanOf(W)
BY DEF Command!NewPlan, PlanOf, Command!Status

LEMMA MarkedPlan ==
    ASSUME NEW W \in Command!Shapes, NEW p \in PlanOf(W), NEW w \in W, NEW s \in Command!Status
    PROVE  /\ [p EXCEPT !.status[w] = s] \in PlanOf(W)
           /\ [p EXCEPT !.status[w] = s].status[w] = s /\ [p EXCEPT !.status[w] = s].tdd = p.tdd
           /\ \A v \in W \ {w} : [p EXCEPT !.status[w] = s].status[v] = p.status[v]
BY DEF PlanOf

\* The types of the state after a command.
LEMMA CommandTyped ==
    ASSUME Command!TypeOK, UNCHANGED session, NEW c, NEW y \in SUBSET Command!Questions,
           NEW s, NEW l, NEW o, s \cup l \cup o \subseteq Command!Members \cup {"other"},
           plan' \in Command!Plans, runs' \in [Command!Members -> Command!Records],
           proof' \subseteq Command!Members, tree' \subseteq Command!Members,
           deed' = [cmd |-> c, yes |-> y, spawned |-> s, landed |-> l, opened |-> o]
    PROVE  Command!TypeOK'
BY DEF Command!TypeOK

\* A command that runs, lands and opens nothing.
Quiet == deed.spawned = {} /\ deed.landed = {} /\ deed.opened = {}

LEMMA QuietHolds ==
    ASSUME Quiet
    PROVE  Command!SpawnsAreAuthorised /\ Command!LandingsAreAuthorised /\ Command!RequestsPassed
BY DEF Quiet, Command!SpawnsAreAuthorised, Command!LandingsAreAuthorised, Command!RequestsPassed

LEMMA QuietHoldsNext ==
    ASSUME Quiet'
    PROVE  (Command!SpawnsAreAuthorised /\ Command!LandingsAreAuthorised /\ Command!RequestsPassed)'
BY DEF Quiet, Command!SpawnsAreAuthorised, Command!LandingsAreAuthorised, Command!RequestsPassed

\* A settled worker is not spawned from its plan.
Settles ==
    \A w \in Command!Listed :
        plan.status[w] \in {"applied", "discarded", "running"} /\ deed'.cmd \notin Command!Replacing
            => w \notin deed'.spawned

CommandInv == Command!CommandsSound

LEMMA CommandBeginsSound ==
    ASSUME CommandNone, Command!Init
    PROVE  CommandInv
<1>1. Command!TypeOK
  BY CrewIs DEF Command!Init, Command!TypeOK, Command!Plans, Command!Records, Command!NoDeed
<1>2. Quiet
  BY DEF Quiet, Command!Init, Command!NoDeed
<1>3. Command!TreeMeetsThePlan
  BY DEF Command!Init, Command!TreeMeetsThePlan
<1> QED
  BY <1>1, <1>2, <1>3, QuietHolds DEF CommandInv, Command!CommandsSound

LEMMA SavesPlan ==
    ASSUME CommandNone, NEW W \in Command!Shapes, NEW p \in PlanOf(W), Command!Saves(p)
    PROVE  /\ plan' \in Command!Plans /\ runs' \in [Command!Members -> Command!Records]
           /\ proof' \subseteq Command!Members /\ tree' \subseteq Command!Members
           /\ Command!TreeMeetsThePlan'
BY PlanIsOne DEF Command!Saves, Command!TreeMeetsThePlan, Command!Records

LEMMA PlanningHolds ==
    ASSUME CommandNone, CommandInv, Command!PlanSlash \/ Command!PlanHeadless
    PROVE  CommandInv' /\ Settles
<1>1. /\ Command!TypeOK /\ Command!TreeMeetsThePlan /\ UNCHANGED session
      /\ deed' = [cmd |-> "plan", yes |-> {}, spawned |-> {}, landed |-> {}, opened |-> {}]
  BY DEF CommandInv, Command!CommandsSound, Command!PlanSlash, Command!PlanHeadless, Command!Does
<1>2. \/ UNCHANGED <<plan, runs, proof, tree>>
      \/ \E W \in Command!Shapes, tdd \in BOOLEAN : Command!Saves(Command!NewPlan(W, tdd))
  <2>1. /\ {Command!First} \in Command!Shapes
        /\ \A kind \in {"plain", "tdd", "strict", "preflight", "smart"} :
             (kind \in {"tdd", "strict"} \/ (kind = "plain" /\ session.acceptanceFirst)) \in BOOLEAN
    BY DEF Command!Shapes
  <2> QED
    BY <2>1, Zenon DEF Command!PlanSlash, Command!PlanHeadless
<1>3. Quiet' /\ Settles
  BY <1>1 DEF Quiet, Settles
<1>4. /\ plan' \in Command!Plans /\ runs' \in [Command!Members -> Command!Records]
      /\ proof' \subseteq Command!Members /\ tree' \subseteq Command!Members
      /\ Command!TreeMeetsThePlan'
  <2>1. CASE UNCHANGED <<plan, runs, proof, tree>>
    BY <1>1, <2>1 DEF Command!TypeOK, Command!TreeMeetsThePlan, Command!Listed
  <2>2. ASSUME NEW W \in Command!Shapes, NEW tdd \in BOOLEAN, Command!Saves(Command!NewPlan(W, tdd))
        PROVE  <1>4!:
    BY <2>2, NewPlanIs, SavesPlan
  <2> QED
    BY <1>2, <2>1, <2>2
<1>5. Command!TypeOK'
  BY <1>1, <1>4, CommandTyped
<1> QED
  BY <1>1, <1>3, <1>4, <1>5, QuietHoldsNext DEF CommandInv, Command!CommandsSound

\* A command that leaves the plan as it is, but for what it says it did.
LEMMA LooksHold ==
    ASSUME CommandInv, UNCHANGED <<session, plan, runs, proof, tree>>,
           NEW c, NEW o \in SUBSET Command!Members,
           deed' = [cmd |-> c, yes |-> {}, spawned |-> {}, landed |-> {}, opened |-> o],
           \A w \in o : runs[w] \in {"passed", "proven"}
    PROVE  CommandInv' /\ Settles
<1>1. Command!TypeOK /\ Command!TreeMeetsThePlan
  BY DEF CommandInv, Command!CommandsSound
<1>2. Command!TreeMeetsThePlan'
  BY <1>1 DEF Command!TreeMeetsThePlan, Command!Listed
<1>3. Command!TypeOK'
  BY <1>1 DEF Command!TypeOK
<1>4. (Command!SpawnsAreAuthorised /\ Command!LandingsAreAuthorised /\ Command!RequestsPassed)' /\ Settles
  BY DEF Command!SpawnsAreAuthorised, Command!LandingsAreAuthorised, Command!RequestsPassed, Settles
<1> QED
  BY <1>2, <1>3, <1>4 DEF CommandInv, Command!CommandsSound

\* A worker that may run is not in the tree, nor settled.
LEMMA RunnableIs ==
    ASSUME CommandInv, NEW w \in Command!Listed, Command!Runnable(w)
    PROVE  w \notin tree /\ plan.status[w] \notin {"applied", "discarded", "running"}
BY DEF CommandInv, Command!CommandsSound, Command!TreeMeetsThePlan, Command!Runnable

\* Workers R of V that may run, with the plan they run from: the one in force, but
\* for what their own run adds to it.
Free(V, p, R, outcome, tddRun) ==
    /\ V \in Command!Shapes /\ p \in PlanOf(V) /\ R \in SUBSET V
    /\ outcome \in [R -> Command!Outcomes] /\ tddRun \in BOOLEAN
    /\ V \subseteq Command!Listed /\ \A w \in R : Command!Runnable(w)
    /\ \A w \in V \ R : p.status[w] = plan.status[w] /\ p.tdd[w] = plan.tdd[w]

\* What the runs of workers leave, when none of them is in the tree.
LEMMA AfterRunsHolds ==
    ASSUME CommandNone, CommandInv, NEW V, NEW p, NEW R, NEW outcome, NEW tddRun,
           Free(V, p, R, outcome, tddRun),
           Command!AfterRuns(p, R, outcome, tddRun), UNCHANGED tree
    PROVE  /\ plan' \in PlanOf(V) /\ Command!Listed' = V
           /\ plan' \in Command!Plans /\ runs' \in [Command!Members -> Command!Records]
           /\ proof' \subseteq Command!Members
           /\ Command!TreeMeetsThePlan'
<1>0. /\ V \in Command!Shapes /\ p \in PlanOf(V) /\ R \subseteq V
      /\ outcome \in [R -> Command!Outcomes] /\ tddRun \in BOOLEAN /\ V \subseteq Command!Listed
      /\ \A w \in V \ R : p.status[w] = plan.status[w] /\ p.tdd[w] = plan.tdd[w]
  BY DEF Free
<1>1. V \subseteq Command!Members /\ R \subseteq Command!Members /\ R \cap tree = {}
  BY <1>0, CrewIs, RunnableIs DEF Free
<1>2. plan' \in PlanOf(V) /\ \A w \in V \ R : plan'.status[w] = plan.status[w] /\ plan'.tdd[w] = plan.tdd[w]
  <2>1. plan' = [p EXCEPT !.status = [w \in V |-> IF w \in R THEN outcome[w] ELSE p.status[w]]]
    BY <1>0 DEF Command!AfterRuns, PlanOf
  <2>2. [w \in V |-> IF w \in R THEN outcome[w] ELSE p.status[w]] \in [V -> Command!Status]
    BY <1>0 DEF PlanOf, Command!Outcomes, Command!Status
  <2> QED
    BY <1>0, <2>1, <2>2 DEF PlanOf
<1>3. plan' # NoPlan /\ plan' \in Command!Plans
  BY <1>0, <1>2, PlanIsOne
<1>4. Command!Listed' = V
  BY <1>2, <1>3 DEF Command!Listed, PlanOf
<1>5. /\ runs' \in [Command!Members -> Command!Records]
      /\ \A w \in Command!Members \ R : runs'[w] = runs[w]
  BY <1>0, <1>1 DEF Command!AfterRuns, Command!Records, Command!Outcomes, CommandInv, Command!CommandsSound, Command!TypeOK
<1>6. proof' \subseteq Command!Members /\ \A w \in proof \ R : w \in proof'
  BY <1>0, <1>1 DEF Command!AfterRuns, CommandInv, Command!CommandsSound, Command!TypeOK
<1>7. Command!TreeMeetsThePlan'
  <2> SUFFICES ASSUME NEW w \in tree, w \in V
               PROVE  /\ plan'.status[w] \in {"applied", "discarded"}
                      /\ runs'[w] \in {"passed", "proven"}
                      /\ plan'.tdd[w] => runs'[w] = "proven" /\ w \in proof'
    BY <1>4 DEF Command!TreeMeetsThePlan
  <2>1. w \in V \ R /\ w \in Command!Members \ R
    BY <1>1
  <2>2. /\ plan.status[w] \in {"applied", "discarded"}
        /\ runs[w] \in {"passed", "proven"}
        /\ plan.tdd[w] => runs[w] = "proven" /\ w \in proof
    BY <1>0 DEF CommandInv, Command!CommandsSound, Command!TreeMeetsThePlan
  <2> QED
    BY <1>2, <1>5, <1>6, <2>1, <2>2
<1> QED
  BY <1>2, <1>3, <1>4, <1>5, <1>6, <1>7

\* A step that ran some workers which were free to run, and landed none.
LEMMA RunsHold ==
    ASSUME CommandNone, CommandInv, NEW V, NEW p, NEW R, NEW outcome, NEW tddRun,
           Free(V, p, R, outcome, tddRun),
           Command!AfterRuns(p, R, outcome, tddRun), UNCHANGED <<session, tree>>,
           NEW y \in SUBSET Command!Questions,
           \/ Command!RunGuards /\ y = {"run"} /\ Command!Does("run", y, R, {})
           \/ y = {} /\ Command!Does("delegate run", y, R, {})
    PROVE  CommandInv' /\ Settles
<1>1. /\ plan' \in PlanOf(V) /\ Command!Listed' = V
      /\ plan' \in Command!Plans /\ runs' \in [Command!Members -> Command!Records]
      /\ proof' \subseteq Command!Members
      /\ Command!TreeMeetsThePlan'
  <2>1. UNCHANGED tree
    OBVIOUS
  <2> QED
    BY <2>1, AfterRunsHolds, Zenon
<1>2. PICK c \in {"run", "delegate run"} : deed' = [cmd |-> c, yes |-> y, spawned |-> R, landed |-> {}, opened |-> {}]
  BY DEF Command!Does
<1>3. Command!TypeOK'
  <2>1. R \subseteq Command!Members /\ Command!TypeOK
    BY CrewIs DEF CommandInv, Command!CommandsSound, Free
  <2> QED
    BY <1>1, <1>2, <2>1, CommandTyped DEF Command!TypeOK
<1>4. Command!SpawnsAreAuthorised'
  <2>1. CASE Command!RunGuards /\ y = {"run"} /\ Command!Does("run", y, R, {})
    BY <2>1 DEF Command!SpawnsAreAuthorised, Command!RunGuards, Command!NotAWorker, Command!Does, Command!Asking,
         Command!Headless
  <2>2. CASE y = {} /\ Command!Does("delegate run", y, R, {})
    BY <2>2 DEF Command!SpawnsAreAuthorised, Command!Does, Command!Asking, Command!Headless
  <2> QED
    BY <2>1, <2>2
<1>5. Command!LandingsAreAuthorised' /\ Command!RequestsPassed'
  BY <1>2 DEF Command!LandingsAreAuthorised, Command!RequestsPassed
<1>6. Settles
  BY <1>2, RunnableIs DEF Settles, Free
<1> QED
  BY <1>1, <1>3, <1>4, <1>5, <1>6 DEF CommandInv, Command!CommandsSound

LEMMA RunAllHolds ==
    ASSUME CommandNone, CommandInv, Command!RunAll
    PROVE  CommandInv' /\ Settles
<1>1. PICK flag \in BOOLEAN, outcome \in [Command!Ready -> Command!Outcomes] :
        /\ Command!RunGuards
        /\ Command!AfterRuns(plan, Command!Ready, outcome, (flag \/ Command!DemandsTdd))
        /\ Command!Does("run", {"run"}, Command!Ready, {})
        /\ UNCHANGED <<session, tree>>
  BY DEF Command!RunAll
<1>2. PICK V \in Command!Shapes : plan \in PlanOf(V) /\ Command!Listed = V
  BY <1>1, PlanForm DEF Command!RunGuards, CommandInv, Command!CommandsSound, Command!TypeOK
<1>3. Command!Ready \in SUBSET V /\ \A w \in Command!Ready : Command!Runnable(w)
  BY <1>2 DEF Command!Ready
<1>4. (flag \/ Command!DemandsTdd) \in BOOLEAN /\ {"run"} \in SUBSET Command!Questions /\ V \subseteq Command!Listed
  BY <1>2 DEF Command!Questions
<1>5. \A w \in V \ Command!Ready : plan.status[w] = plan.status[w] /\ plan.tdd[w] = plan.tdd[w]
  OBVIOUS
<1>6. Free(V, plan, Command!Ready, outcome, (flag \/ Command!DemandsTdd))
  BY <1>1, <1>2, <1>3, <1>4, <1>5, Zenon DEF Free
<1> QED
  BY <1>1, <1>4, <1>6, RunsHold, Zenon

LEMMA RunHeadlessHolds ==
    ASSUME CommandNone, CommandInv, Command!RunHeadless
    PROVE  CommandInv' /\ Settles
<1>1. CASE \E outcome \in [Command!Ready -> Command!Outcomes] :
             /\ plan # NoPlan
             /\ Command!AfterRuns(plan, Command!Ready, outcome, FALSE)
             /\ Command!Does("delegate run", {}, Command!Ready, {})
             /\ UNCHANGED <<session, tree>>
  <2>1. PICK outcome \in [Command!Ready -> Command!Outcomes] :
          /\ plan # NoPlan
          /\ Command!AfterRuns(plan, Command!Ready, outcome, FALSE)
          /\ Command!Does("delegate run", {}, Command!Ready, {})
          /\ UNCHANGED <<session, tree>>
    BY <1>1
  <2>2. PICK V \in Command!Shapes : plan \in PlanOf(V) /\ Command!Listed = V
    BY <2>1, PlanForm DEF CommandInv, Command!CommandsSound, Command!TypeOK
  <2>3. Command!Ready \in SUBSET V /\ \A w \in Command!Ready : Command!Runnable(w)
    BY <2>2 DEF Command!Ready
  <2>4. FALSE \in BOOLEAN /\ {} \in SUBSET Command!Questions /\ V \subseteq Command!Listed
    BY <2>2
  <2>5. \A w \in V \ Command!Ready : plan.status[w] = plan.status[w] /\ plan.tdd[w] = plan.tdd[w]
    OBVIOUS
  <2>6. Free(V, plan, Command!Ready, outcome, FALSE)
    BY <2>1, <2>2, <2>3, <2>4, <2>5, Zenon DEF Free
  <2> QED
    BY <2>1, <2>4, <2>6, RunsHold, Zenon
<1>2. CASE \E outcome \in Command!Outcomes :
             /\ Command!First \in Command!Listed /\ Command!Runnable(Command!First)
             /\ Command!AfterRuns([status |-> [w \in {Command!First} |-> plan.status[w]],
                                   tdd |-> [w \in {Command!First} |-> plan.tdd[w]]],
                                  {Command!First}, [w \in {Command!First} |-> outcome], FALSE)
             /\ Command!Does("delegate run", {}, {Command!First}, {})
             /\ UNCHANGED <<session, tree>>
  <2> DEFINE F == {Command!First}
             p == [status |-> [w \in F |-> plan.status[w]], tdd |-> [w \in F |-> plan.tdd[w]]]
  <2>1. PICK o \in Command!Outcomes :
             /\ Command!First \in Command!Listed /\ Command!Runnable(Command!First)
             /\ Command!AfterRuns(p, F, [w \in F |-> o], FALSE)
             /\ Command!Does("delegate run", {}, F, {})
             /\ UNCHANGED <<session, tree>>
    BY <1>2, Zenon
  <2>2. plan # NoPlan
    BY <2>1 DEF Command!Listed
  <2>3. PICK V \in Command!Shapes : plan \in PlanOf(V) /\ Command!Listed = V
    BY <2>2, PlanForm DEF CommandInv, Command!CommandsSound, Command!TypeOK
  <2>4. F \in Command!Shapes /\ F \in SUBSET F /\ F \subseteq Command!Listed /\ \A w \in F : Command!Runnable(w)
    BY <2>1 DEF Command!Shapes
  <2>5. p \in PlanOf(F)
    BY <2>3, <2>4 DEF PlanOf
  <2>6. [w \in F |-> o] \in [F -> Command!Outcomes] /\ FALSE \in BOOLEAN /\ {} \in SUBSET Command!Questions
    BY <2>1
  <2> HIDE DEF p, F
  <2>7. \A w \in F \ F : p.status[w] = plan.status[w] /\ p.tdd[w] = plan.tdd[w]
    OBVIOUS
  <2>8. Command!AfterRuns(p, F, [w \in F |-> o], FALSE) /\ Command!Does("delegate run", {}, F, {}) /\ UNCHANGED <<session, tree>>
    BY <2>1 DEF p, F
  <2> DEFINE q == [w \in F |-> o]
  <2> HIDE DEF q
  <2>9. Command!AfterRuns(p, F, q, FALSE) /\ q \in [F -> Command!Outcomes]
    BY <2>6, <2>8, Zenon DEF q
  <2>10. Free(F, p, F, q, FALSE)
    BY <2>4, <2>5, <2>6, <2>7, <2>9, Zenon DEF Free
  <2> QED
    BY <2>6, <2>8, <2>9, <2>10, RunsHold, Zenon
<1> QED
  BY <1>1, <1>2, Zenon DEF Command!RunHeadless

\* A worker run alone, its patch landed at once or not.
LEMMA RunWorkerHolds ==
    ASSUME CommandNone, CommandInv, Command!RunWorker
    PROVE  CommandInv' /\ Settles
<1>1. PICK w \in Command!Listed, flag \in BOOLEAN, manifest \in BOOLEAN, fits \in BOOLEAN, o \in Command!Outcomes :
        LET tddRun == flag \/ Command!DemandsTdd
            asked  == IF manifest THEN [plan EXCEPT !.tdd[w] = TRUE] ELSE plan
            record == IF o = "failed" THEN "failed" ELSE IF tddRun THEN "proven" ELSE "passed"
            lands  == fits /\ Command!AutoApplies(w, asked, record, (tddRun \/ w \in proof), tddRun)
        IN  /\ Command!RunGuards /\ Command!MayRunAlone(w) /\ (manifest => tddRun)
            /\ Command!Says(TRUE)
            /\ IF lands
               THEN /\ plan' = [asked EXCEPT !.status[w] = "applied"]
                    /\ runs' = [runs EXCEPT ![w] = record]
                    /\ proof' = IF tddRun THEN proof \cup {w} ELSE proof
                    /\ tree' = tree \cup {w}
               ELSE Command!AfterRuns(asked, {w}, [v \in {w} |-> o], tddRun) /\ UNCHANGED tree
            /\ Command!Does("run", {"run"}, {w}, IF lands THEN {w} ELSE {})
            /\ UNCHANGED session
  BY Zenon DEF Command!RunWorker
<1> DEFINE tddRun == flag \/ Command!DemandsTdd
           asked  == IF manifest THEN [plan EXCEPT !.tdd[w] = TRUE] ELSE plan
           record == IF o = "failed" THEN "failed" ELSE IF tddRun THEN "proven" ELSE "passed"
           lands  == fits /\ Command!AutoApplies(w, asked, record, (tddRun \/ w \in proof), tddRun)
           q      == [v \in {w} |-> o]
<1>2. /\ Command!RunGuards /\ Command!Runnable(w) /\ (manifest => tddRun) /\ UNCHANGED session
      /\ ~lands => /\ Command!AfterRuns(asked, {w}, q, tddRun) /\ UNCHANGED tree
                   /\ Command!Does("run", {"run"}, {w}, {})
      /\ lands => /\ plan' = [asked EXCEPT !.status[w] = "applied"]
                  /\ runs' = [runs EXCEPT ![w] = record]
                  /\ proof' = IF tddRun THEN proof \cup {w} ELSE proof
                  /\ tree' = tree \cup {w}
                  /\ Command!Does("run", {"run"}, {w}, {w})
  BY <1>1, Zenon DEF Command!MayRunAlone
<1>3. PICK V \in Command!Shapes : plan \in PlanOf(V) /\ Command!Listed = V
  BY <1>2, PlanForm DEF Command!RunGuards, CommandInv, Command!CommandsSound, Command!TypeOK
<1>4. w \in V /\ V \subseteq Command!Members
  BY <1>3, CrewIs
<1>5. /\ asked \in PlanOf(V) /\ \A v \in V \ {w} : asked.status[v] = plan.status[v] /\ asked.tdd[v] = plan.tdd[v]
      /\ asked.status = plan.status
      /\ asked.tdd[w] => tddRun
  <2>1. plan.tdd[w] => tddRun
    BY <1>3 DEF Command!DemandsTdd
  <2> QED
    BY <1>2, <1>3, <1>4, <2>1 DEF PlanOf
<1>6. tddRun \in BOOLEAN
  OBVIOUS
<1>7. CASE ~lands
  <2>1. q \in [{w} -> Command!Outcomes] /\ {"run"} \in SUBSET Command!Questions /\ {w} \in SUBSET V /\ V \subseteq Command!Listed
        /\ \A v \in {w} : Command!Runnable(v)
    BY <1>2, <1>3, <1>4 DEF Command!Questions
  <2>2. UNCHANGED <<session, tree>>
    BY <1>2, <1>7
  <2> HIDE DEF tddRun, asked, record, lands, q
  <2>3. Free(V, asked, {w}, q, tddRun)
    BY <1>3, <1>5, <1>6, <2>1, Zenon DEF Free
  <2> QED
    BY <1>2, <1>7, <2>1, <2>2, <2>3, RunsHold, Zenon
<1>8. CASE lands
  <2>1. /\ session.autoApply /\ DOMAIN asked.status = {w} /\ record \in {"passed", "proven"}
        /\ session.acceptanceFirst => record = "proven"
        /\ record = "proven" <=> tddRun
    BY <1>8 DEF Command!AutoApplies
  <2>2. V = {w}
    BY <1>5, <2>1 DEF PlanOf
  <2>3. plan' \in PlanOf(V) /\ plan'.status[w] = "applied" /\ plan'.tdd = asked.tdd
    <3>1. "applied" \in Command!Status /\ plan' = [asked EXCEPT !.status[w] = "applied"]
      BY <1>2, <1>8 DEF Command!Status
    <3> HIDE DEF asked
    <3> QED
      BY <1>4, <1>5, <3>1, MarkedPlan
  <2>4. plan' # NoPlan /\ plan' \in Command!Plans /\ Command!Listed' = V
    BY <2>3, PlanIsOne DEF Command!Listed, PlanOf
  <2>5. Command!TypeOK
    BY DEF CommandInv, Command!CommandsSound
  <2> HIDE DEF asked, lands, q
  <2>6. /\ runs' \in [Command!Members -> Command!Records] /\ runs'[w] = record
        /\ proof' \subseteq Command!Members /\ (tddRun => w \in proof') /\ tree' \subseteq Command!Members
    BY <1>2, <1>4, <1>8, <2>1, <2>5 DEF Command!TypeOK, Command!Records
  <2> HIDE DEF record, tddRun
  <2>7. deed' = [cmd |-> "run", yes |-> {"run"}, spawned |-> {w}, landed |-> {w}, opened |-> {}]
    BY <1>2, <1>8 DEF Command!Does
  <2>8. Command!TypeOK'
    BY <1>2, <1>4, <2>4, <2>5, <2>6, <2>7, CommandTyped DEF Command!Questions
  <2>9. Command!SpawnsAreAuthorised'
    BY <1>2, <2>7 DEF Command!SpawnsAreAuthorised, Command!RunGuards, Command!NotAWorker, Command!Asking
  <2>10. Command!LandingsAreAuthorised'
    BY <1>2, <2>1, <2>2, <2>4, <2>6, <2>7 DEF Command!LandingsAreAuthorised, Command!RunGuards
  <2>11. Command!RequestsPassed' /\ Settles
    BY <1>2, <2>7, RunnableIs DEF Command!RequestsPassed, Settles
  <2>12. Command!TreeMeetsThePlan'
    BY <1>5, <2>1, <2>2, <2>3, <2>4, <2>6 DEF Command!TreeMeetsThePlan
  <2> QED
    BY <2>8, <2>9, <2>10, <2>11, <2>12 DEF CommandInv, Command!CommandsSound
<1> QED
  BY <1>7, <1>8

\* A worker that is discarded, or left running by a process that died.
LEMMA MarkHolds ==
    ASSUME CommandNone, CommandInv, NEW w \in Command!Listed, NEW s \in Command!Status,
           plan' = [plan EXCEPT !.status[w] = s], UNCHANGED <<session, runs, proof>>,
           \/ tree' = tree /\ (s \in {"applied", "discarded"} \/ w \notin tree)
           \/ /\ tree' = tree \cup {w} /\ s \in {"applied", "discarded"} /\ runs[w] \in {"passed", "proven"}
              /\ plan.tdd[w] => runs[w] = "proven" /\ w \in proof
    PROVE  /\ plan' \in Command!Plans /\ runs' \in [Command!Members -> Command!Records]
           /\ proof' \subseteq Command!Members /\ tree' \subseteq Command!Members
           /\ Command!TreeMeetsThePlan' /\ Command!Listed' = Command!Listed
<1>1. plan # NoPlan /\ Command!TypeOK /\ Command!TreeMeetsThePlan
  BY DEF Command!Listed, CommandInv, Command!CommandsSound
<1>2. PICK V \in Command!Shapes : plan \in PlanOf(V) /\ Command!Listed = V
  BY <1>1, PlanForm DEF Command!TypeOK
<1>3. /\ plan' \in PlanOf(V) /\ plan'.status[w] = s /\ plan'.tdd = plan.tdd
      /\ \A v \in V \ {w} : plan'.status[v] = plan.status[v]
  BY <1>2, MarkedPlan
<1>4. plan' # NoPlan /\ plan' \in Command!Plans /\ Command!Listed' = V
  BY <1>3, PlanIsOne DEF Command!Listed, PlanOf
<1>5. w \in Command!Members
  BY <1>2, CrewIs
<1>6. Command!TreeMeetsThePlan'
  BY <1>1, <1>2, <1>3, <1>4 DEF Command!TreeMeetsThePlan
<1> QED
  BY <1>1, <1>2, <1>4, <1>5, <1>6 DEF Command!TypeOK

LEMMA LandingHolds ==
    ASSUME CommandNone, CommandInv, Command!ApplySlash \/ Command!Discard \/ Command!RunDies
    PROVE  CommandInv' /\ Settles
<1>0. Command!TypeOK
  BY DEF CommandInv, Command!CommandsSound
<1>1. ASSUME NEW w \in Command!Listed, session.tty,
             Command!MayLand(w, session.acceptanceFirst \/ plan.tdd[w]),
             plan' = [plan EXCEPT !.status[w] = "applied"], tree' = tree \cup {w},
             Command!Does("apply", {"apply"}, {}, {w}), UNCHANGED <<session, runs, proof>>
      PROVE  CommandInv' /\ Settles
  <2>1. /\ runs[w] \in {"passed", "proven"} /\ plan.tdd[w] => runs[w] = "proven" /\ w \in proof
        /\ session.acceptanceFirst => runs[w] = "proven"
    BY <1>1 DEF Command!MayLand
  <2>2. /\ plan' \in Command!Plans /\ runs' \in [Command!Members -> Command!Records]
        /\ proof' \subseteq Command!Members /\ tree' \subseteq Command!Members
        /\ Command!TreeMeetsThePlan'
    BY <1>1, <2>1, MarkHolds DEF Command!Status, Command!MayLand
  <2>3. w \in Command!Members
    BY <1>1, <2>2
  <2>4. deed' = [cmd |-> "apply", yes |-> {"apply"}, spawned |-> {}, landed |-> {w}, opened |-> {}]
    BY <1>1 DEF Command!Does
  <2>5. Command!TypeOK'
    BY <1>0, <1>1, <2>2, <2>3, <2>4, CommandTyped DEF Command!Questions
  <2>6. (Command!SpawnsAreAuthorised /\ Command!LandingsAreAuthorised /\ Command!RequestsPassed)' /\ Settles
    BY <1>1, <2>1, <2>4 DEF Command!SpawnsAreAuthorised, Command!LandingsAreAuthorised, Command!RequestsPassed, Settles
  <2> QED
    BY <2>2, <2>5, <2>6 DEF CommandInv, Command!CommandsSound
<1>2. ASSUME NEW w \in Command!Listed, plan' = [plan EXCEPT !.status[w] = "discarded"],
             Command!Does("discard", {}, {}, {}), UNCHANGED <<session, runs, proof, tree>>
      PROVE  CommandInv' /\ Settles
  <2>1. deed' = [cmd |-> "discard", yes |-> {}, spawned |-> {}, landed |-> {}, opened |-> {}]
    BY <1>2 DEF Command!Does
  <2>2. /\ plan' \in Command!Plans /\ runs' \in [Command!Members -> Command!Records]
        /\ proof' \subseteq Command!Members /\ tree' \subseteq Command!Members
        /\ Command!TreeMeetsThePlan'
    BY <1>2, MarkHolds DEF Command!Status
  <2>3. Command!TypeOK'
    BY <1>0, <1>2, <2>1, <2>2, CommandTyped
  <2>4. Quiet' /\ Settles
    BY <2>1 DEF Quiet, Settles
  <2> QED
    BY <2>2, <2>3, <2>4, QuietHoldsNext DEF CommandInv, Command!CommandsSound
<1>3. ASSUME NEW w \in Command!Listed, Command!RunGuards, Command!MayRunAlone(w),
             plan' = [plan EXCEPT !.status[w] = "running"],
             Command!Does("run", {"run"}, {w}, {}), UNCHANGED <<session, runs, proof, tree>>
      PROVE  CommandInv' /\ Settles
  <2>1. deed' = [cmd |-> "run", yes |-> {"run"}, spawned |-> {w}, landed |-> {}, opened |-> {}]
    BY <1>3 DEF Command!Does
  <2>2. w \notin tree /\ plan.status[w] \notin {"applied", "discarded", "running"}
    BY <1>3, RunnableIs DEF Command!MayRunAlone
  <2>3. /\ plan' \in Command!Plans /\ runs' \in [Command!Members -> Command!Records]
        /\ proof' \subseteq Command!Members /\ tree' \subseteq Command!Members
        /\ Command!TreeMeetsThePlan' /\ Command!Listed' = Command!Listed
    BY <1>3, <2>2, MarkHolds DEF Command!Status
  <2>4. w \in Command!Members
    <3>1. plan # NoPlan
      BY <1>3 DEF Command!RunGuards
    <3> QED
      BY <1>0, <1>3, <3>1, PlanForm, CrewIs DEF Command!TypeOK
  <2>5. Command!TypeOK'
    BY <1>0, <1>3, <2>1, <2>3, <2>4, CommandTyped DEF Command!Questions
  <2>6. (Command!SpawnsAreAuthorised /\ Command!LandingsAreAuthorised /\ Command!RequestsPassed)' /\ Settles
    BY <1>3, <2>1, <2>2 DEF Command!SpawnsAreAuthorised, Command!LandingsAreAuthorised, Command!RequestsPassed, Settles,
         Command!RunGuards, Command!NotAWorker, Command!Asking
  <2> QED
    BY <2>3, <2>5, <2>6 DEF CommandInv, Command!CommandsSound
<1> QED
  BY <1>1, <1>2, <1>3 DEF Command!ApplySlash, Command!Discard, Command!RunDies

\* A driver replaces the plan by one of its own, with one worker.
Drives(tdd, s, record, proven, landed, c, y, spawned, opened) ==
    /\ tdd \in BOOLEAN /\ s \in Command!Status /\ record \in Command!Records /\ proven \in SUBSET {Command!First}
    /\ landed \in SUBSET {Command!First} /\ c \in Command!Replacing /\ y \in SUBSET Command!Questions
    /\ spawned \in SUBSET {Command!First} /\ opened \in SUBSET {Command!First}
    /\ plan' = [Command!NewPlan({Command!First}, tdd) EXCEPT !.status[Command!First] = s]
    /\ runs' = [w \in Command!Members |-> IF w = Command!First THEN record ELSE "none"]
    /\ proof' = proven /\ tree' = landed
    /\ deed' = [cmd |-> c, yes |-> y, spawned |-> spawned, landed |-> landed, opened |-> opened]
    /\ landed # {} => /\ s = "applied" /\ record \in {"passed", "proven"} /\ ~tdd
                      /\ session.tty /\ "apply" \in y /\ c = "autopilot"
    /\ opened # {} => record \in {"passed", "proven"}
    /\ spawned # {} => /\ session.worker => c \in Command!Headless
                       /\ c \in Command!Asking => session.tty /\ "run" \in y
                       /\ c = "autopilot" => session.tty /\ session.autopilot
                       /\ c \in Command!Asking \cup Command!Headless \cup {"autopilot", "coordinate", "tool"}

LEMMA DriverHolds ==
    ASSUME CommandNone, CommandInv, UNCHANGED session, NEW tdd, NEW s, NEW record, NEW proven, NEW landed,
           NEW c, NEW y, NEW spawned, NEW opened,
           Drives(tdd, s, record, proven, landed, c, y, spawned, opened)
    PROVE  CommandInv' /\ Settles
<1> USE DEF Drives
<1>0. Command!TypeOK
  BY DEF CommandInv, Command!CommandsSound
<1>1. {Command!First} \in Command!Shapes /\ Command!First \in Command!Members
  BY CrewIs
<1>2. /\ Command!NewPlan({Command!First}, tdd) \in PlanOf({Command!First}) /\ Command!NewPlan({Command!First}, tdd).tdd[Command!First] = tdd
  BY <1>1, NewPlanIs DEF Command!NewPlan
<1>3. plan' \in PlanOf({Command!First}) /\ plan'.status[Command!First] = s /\ plan'.tdd[Command!First] = tdd
  <2> DEFINE f == Command!First
             W == {f}
             p == Command!NewPlan(W, tdd)
  <2>1. W \in Command!Shapes /\ p \in PlanOf(W) /\ f \in W /\ s \in Command!Status /\ p.tdd[f] = tdd
    BY <1>1, <1>2
  <2>2. plan' = [p EXCEPT !.status[f] = s]
    OBVIOUS
  <2> HIDE DEF p, W, f, Drives
  <2>3. /\ plan' \in PlanOf(W) /\ plan'.status[f] = s /\ plan'.tdd = p.tdd
    BY <2>1, <2>2, MarkedPlan
  <2> QED
    BY <2>1, <2>3 DEF f, W
<1>4. plan' # NoPlan /\ plan' \in Command!Plans /\ Command!Listed' = {Command!First}
  BY <1>1, <1>3, PlanIsOne DEF Command!Listed, PlanOf
<1>5. /\ runs' \in [Command!Members -> Command!Records] /\ runs'[Command!First] = record
      /\ proof' \subseteq Command!Members /\ tree' \subseteq Command!Members
  BY <1>1 DEF Command!Records
<1>6. Command!TypeOK'
  <2>1. spawned \cup landed \cup opened \subseteq Command!Members \cup {"other"}
    BY <1>1
  <2> QED
    BY <1>0, <1>4, <1>5, <2>1 DEF Command!TypeOK
<1>7. Command!TreeMeetsThePlan'
  BY <1>3, <1>4, <1>5 DEF Command!TreeMeetsThePlan
<1>8. Command!SpawnsAreAuthorised'
  BY DEF Command!SpawnsAreAuthorised
<1>9. Command!LandingsAreAuthorised' /\ Command!RequestsPassed'
  BY <1>5 DEF Command!LandingsAreAuthorised, Command!RequestsPassed
<1>10. Settles
  BY DEF Settles
<1> QED
  BY <1>6, <1>7, <1>8, <1>9, <1>10 DEF CommandInv, Command!CommandsSound

\* Drivers that look at no terminal.
LEMMA AutoHolds ==
    ASSUME CommandNone, CommandInv, Command!Coordinate \/ Command!AutoHeadless \/ Command!AutoTool
    PROVE  CommandInv' /\ Settles
<1>0. /\ {} \in SUBSET Command!Questions /\ TRUE \in BOOLEAN /\ FALSE \in BOOLEAN
      /\ {"coordinate", "delegate auto", "tool"} \subseteq Command!Replacing
      /\ Command!Outcomes \subseteq Command!Status /\ Command!Outcomes \subseteq Command!Records
  BY CrewIs DEF Command!Replacing, Command!Outcomes, Command!Status, Command!Records
<1>1. CASE Command!Coordinate
  <2>1. PICK o \in Command!Outcomes :
          /\ Command!NotAWorker
          /\ plan' = [Command!NewPlan({Command!First}, FALSE) EXCEPT !.status[Command!First] = o]
          /\ runs' = [w \in Command!Members |-> IF w = Command!First THEN o ELSE "none"]
          /\ proof' = {} /\ tree' = {}
          /\ deed' = [cmd |-> "coordinate", yes |-> {}, spawned |-> {Command!First}, landed |-> {}, opened |-> {}]
          /\ UNCHANGED session
    BY <1>0, <1>1 DEF Command!Coordinate, Command!Does
  <2>2. /\ session.worker => "coordinate" \in Command!Headless
        /\ "coordinate" \notin Command!Asking
    BY <2>1 DEF Command!NotAWorker, Command!Asking
  <2>3. Drives(FALSE, o, o, {}, {}, "coordinate", {}, {Command!First}, {})
    BY <1>0, <2>1, <2>2 DEF Drives
  <2> QED
    BY <2>1, <2>3, DriverHolds, Zenon
<1>2. ASSUME NEW c \in {"delegate auto", "tool"}, Command!RunsAuto(c), c = "tool" => Command!NotAWorker
      PROVE  CommandInv' /\ Settles
  <2>1. PICK o \in Command!Outcomes, asked \in BOOLEAN :
          /\ plan' = [Command!NewPlan({Command!First}, TRUE) EXCEPT !.status[Command!First] = o]
          /\ runs' = [w \in Command!Members |-> IF w = Command!First THEN o ELSE "none"]
          /\ proof' = {} /\ tree' = {}
          /\ deed' = [cmd |-> c, yes |-> {}, spawned |-> {Command!First}, landed |-> {},
                      opened |-> {w \in {Command!First} : asked /\ Command!OpensPr(w, o)}]
          /\ UNCHANGED session
    BY <1>0, <1>2 DEF Command!RunsAuto
  <2> DEFINE opened == {w \in {Command!First} : asked /\ Command!OpensPr(w, o)}
  <2>2. opened \in SUBSET {Command!First} /\ (opened # {} => o \in {"passed", "proven"})
    BY DEF Command!OpensPr
  <2>3. /\ session.worker => c \in Command!Headless
        /\ c \notin Command!Asking /\ c # "autopilot" /\ c \in Command!Headless \cup {"tool"}
    BY <1>2 DEF Command!NotAWorker, Command!Asking, Command!Headless
  <2> HIDE DEF opened
  <2>4. deed' = [cmd |-> c, yes |-> {}, spawned |-> {Command!First}, landed |-> {}, opened |-> opened]
    BY <2>1 DEF opened
  <2>5. Drives(TRUE, o, o, {}, {}, c, {}, {Command!First}, opened)
    BY <1>0, <1>2, <2>1, <2>2, <2>3, <2>4 DEF Drives
  <2> QED
    BY <2>1, <2>5, DriverHolds, Zenon
<1> QED
  BY <1>1, <1>2, Zenon DEF Command!AutoHeadless, Command!AutoTool

\* The autopilot: what it lands passed, in a plan that asks for no test, after a yes.
LEMMA AutopilotHolds ==
    ASSUME CommandNone, CommandInv, Command!Autopilot
    PROVE  CommandInv' /\ Settles
<1>0. /\ {} \in SUBSET Command!Questions /\ {"apply"} \in SUBSET Command!Questions
      /\ {"autopilot", "autopilot --dry-run"} \subseteq Command!Replacing
      /\ "autopilot" \notin Command!Asking
  BY CrewIs DEF Command!Replacing, Command!Questions, Command!Asking
<1>1. PICK dry \in BOOLEAN, tdd \in BOOLEAN, agreed \in BOOLEAN, o \in Command!Outcomes :
        LET lands == ~dry /\ o = "passed" /\ ~tdd /\ Command!Says(agreed)
            status == IF dry THEN "planned" ELSE IF lands THEN "applied" ELSE o
        IN  /\ Command!AutopilotGuards(dry)
            /\ plan' = [Command!NewPlan({Command!First}, tdd) EXCEPT !.status[Command!First] = status]
            /\ runs' = [w \in Command!Members |-> IF w = Command!First /\ ~dry THEN o ELSE "none"]
            /\ proof' = {} /\ tree' = (IF lands THEN {Command!First} ELSE {})
            /\ Command!Does(IF dry THEN "autopilot --dry-run" ELSE "autopilot",
                            IF lands THEN {"apply"} ELSE {}, IF dry THEN {} ELSE {Command!First}, tree')
            /\ UNCHANGED session
  BY Zenon DEF Command!Autopilot
<1> DEFINE lands == ~dry /\ o = "passed" /\ ~tdd /\ Command!Says(agreed)
           status == IF dry THEN "planned" ELSE IF lands THEN "applied" ELSE o
           record == IF dry THEN "none" ELSE o
           landed == IF lands THEN {Command!First} ELSE {}
           c == IF dry THEN "autopilot --dry-run" ELSE "autopilot"
           y == IF lands THEN {"apply"} ELSE {}
           spawned == IF dry THEN {} ELSE {Command!First}
<1>2. /\ Command!AutopilotGuards(dry) /\ UNCHANGED session
      /\ plan' = [Command!NewPlan({Command!First}, tdd) EXCEPT !.status[Command!First] = status]
      /\ runs' = [w \in Command!Members |-> IF w = Command!First THEN record ELSE "none"]
      /\ proof' = {} /\ tree' = landed
      /\ deed' = [cmd |-> c, yes |-> y, spawned |-> spawned, landed |-> landed, opened |-> {}]
  BY <1>0, <1>1 DEF Command!Does
<1>3. /\ status \in Command!Status /\ record \in Command!Records /\ landed \in SUBSET {Command!First}
      /\ c \in Command!Replacing /\ y \in SUBSET Command!Questions /\ spawned \in SUBSET {Command!First}
  BY <1>0 DEF Command!Status, Command!Records, Command!Outcomes
<1>4. landed # {} => /\ status = "applied" /\ record \in {"passed", "proven"} /\ ~tdd
                     /\ session.tty /\ "apply" \in y /\ c = "autopilot"
  BY DEF Command!Says
<1>5. spawned # {} => c = "autopilot" /\ ~session.worker /\ session.tty /\ session.autopilot
  BY <1>2 DEF Command!AutopilotGuards, Command!NotAWorker
<1> HIDE DEF lands, status, record, landed, c, y, spawned
<1>6. Drives(tdd, status, record, {}, landed, c, y, spawned, {})
  BY <1>0, <1>2, <1>3, <1>4, <1>5 DEF Drives
<1> QED
  BY <1>2, <1>6, DriverHolds, Zenon

\* A batch runs after a yes; without one only its plan is saved.
LEMMA BatchHolds ==
    ASSUME CommandNone, CommandInv, Command!Batch
    PROVE  CommandInv' /\ Settles
<1>0. /\ {} \in SUBSET Command!Questions /\ {"run"} \in SUBSET Command!Questions
      /\ "batch" \in Command!Replacing /\ "batch" \in Command!Asking /\ {Command!First} \in Command!Shapes
  BY CrewIs DEF Command!Replacing, Command!Questions, Command!Asking
<1>1. PICK tdd \in BOOLEAN, answer \in BOOLEAN, o \in Command!Outcomes :
        /\ Command!NotAWorker /\ session.tty
        /\ IF Command!Says(answer)
           THEN /\ plan' = [Command!NewPlan({Command!First}, tdd) EXCEPT !.status[Command!First] = o]
                /\ runs' = [w \in Command!Members |-> IF w # Command!First THEN "none"
                                                      ELSE IF o = "failed" THEN "failed"
                                                      ELSE IF tdd THEN "proven" ELSE "passed"]
                /\ proof' = (IF tdd /\ o = "passed" THEN {Command!First} ELSE {})
                /\ tree' = {}
           ELSE Command!Saves(Command!NewPlan({Command!First}, tdd))
        /\ Command!Does("batch", IF answer THEN {"run"} ELSE {}, IF answer THEN {Command!First} ELSE {}, {})
        /\ UNCHANGED session
  BY Zenon DEF Command!Batch
<1>2. Command!Says(answer) <=> answer
  BY <1>1 DEF Command!Says
<1>3. CASE answer
  <2> DEFINE record == IF o = "failed" THEN "failed" ELSE IF tdd THEN "proven" ELSE "passed"
             proven == IF tdd /\ o = "passed" THEN {Command!First} ELSE {}
  <2>1. /\ plan' = [Command!NewPlan({Command!First}, tdd) EXCEPT !.status[Command!First] = o]
        /\ runs' = [w \in Command!Members |-> IF w = Command!First THEN record ELSE "none"]
        /\ proof' = proven /\ tree' = {}
        /\ deed' = [cmd |-> "batch", yes |-> {"run"}, spawned |-> {Command!First}, landed |-> {}, opened |-> {}]
        /\ UNCHANGED session
    BY <1>0, <1>1, <1>2, <1>3 DEF Command!Does
  <2>2. record \in Command!Records /\ proven \in SUBSET {Command!First} /\ o \in Command!Status
    BY DEF Command!Records, Command!Outcomes, Command!Status
  <2>3. ~session.worker /\ session.tty
    BY <1>1 DEF Command!NotAWorker
  <2> HIDE DEF record, proven
  <2>4. Drives(tdd, o, record, proven, {}, "batch", {"run"}, {Command!First}, {})
    BY <1>0, <2>1, <2>2, <2>3 DEF Drives
  <2> QED
    BY <2>1, <2>4, DriverHolds, Zenon
<1>4. CASE ~answer
  <2>1. /\ Command!Saves(Command!NewPlan({Command!First}, tdd)) /\ UNCHANGED session
        /\ deed' = [cmd |-> "batch", yes |-> {}, spawned |-> {}, landed |-> {}, opened |-> {}]
    BY <1>0, <1>1, <1>2, <1>4 DEF Command!Does
  <2>2. Command!NewPlan({Command!First}, tdd) \in PlanOf({Command!First})
    BY <1>0, NewPlanIs
  <2>3. /\ plan' \in Command!Plans /\ runs' \in [Command!Members -> Command!Records]
        /\ proof' \subseteq Command!Members /\ tree' \subseteq Command!Members
        /\ Command!TreeMeetsThePlan'
    BY <1>0, <2>1, <2>2, SavesPlan
  <2>4. Command!TypeOK
    BY DEF CommandInv, Command!CommandsSound
  <2>5. Command!TypeOK'
    BY <2>1, <2>3, <2>4, CommandTyped
  <2>6. Quiet' /\ Settles
    BY <2>1 DEF Quiet, Settles
  <2> QED
    BY <2>3, <2>5, <2>6, QuietHoldsNext DEF CommandInv, Command!CommandsSound
<1> QED
  BY <1>3, <1>4

LEMMA DecomposeHolds ==
    ASSUME CommandInv, Command!DecomposeRun
    PROVE  CommandInv' /\ Settles
<1>1. /\ Command!TypeOK /\ Command!TreeMeetsThePlan /\ ~session.worker /\ session.tty
      /\ UNCHANGED <<session, plan, runs, proof, tree>>
      /\ deed' = [cmd |-> "decompose", yes |-> {"run"}, spawned |-> {"other"}, landed |-> {}, opened |-> {}]
  BY DEF CommandInv, Command!CommandsSound, Command!DecomposeRun, Command!NotAWorker, Command!Does
<1>2. Command!TypeOK' /\ Command!TreeMeetsThePlan'
  BY <1>1 DEF Command!TypeOK, Command!TreeMeetsThePlan, Command!Listed, Command!Questions
<1>3. (Command!SpawnsAreAuthorised /\ Command!LandingsAreAuthorised /\ Command!RequestsPassed)'
  BY <1>1 DEF Command!SpawnsAreAuthorised, Command!LandingsAreAuthorised, Command!RequestsPassed, Command!Asking
<1>4. Settles
  <2>1. "other" \notin Command!Listed
    <3>1. CASE plan = NoPlan
      BY <3>1 DEF Command!Listed
    <3>2. CASE plan # NoPlan
      BY <1>1, <3>2, PlanForm, CrewIs, CommandsAssumption DEF Command!TypeOK
    <3> QED
      BY <3>1, <3>2
  <2> QED
    BY <1>1, <2>1 DEF Settles
<1> QED
  BY <1>2, <1>3, <1>4 DEF CommandInv, Command!CommandsSound

\* Every command keeps the invariant, and spawns no settled worker.
LEMMA CommandStep ==
    ASSUME CommandNone, CommandInv, [Command!Next]_commands
    PROVE  CommandInv' /\ (Settles \/ UNCHANGED commands)
<1>1. CASE Command!Look \/ Command!Refused \/ Command!ApplyHeadless \/ Command!Full
  <2>1. PICK c \in {"look", "refused", "research"} :
          /\ deed' = [cmd |-> c, yes |-> {}, spawned |-> {}, landed |-> {}, opened |-> {}]
          /\ UNCHANGED <<session, plan, runs, proof, tree>>
    BY <1>1 DEF Command!Look, Command!Refused, Command!ApplyHeadless, Command!Full, Command!Does
  <2>2. {} \in SUBSET Command!Members
    OBVIOUS
  <2> QED
    BY <2>1, <2>2, LooksHold
<1>2. CASE Command!PrHeadless
  <2>1. PICK w \in Command!Listed : /\ Command!OpensPr(w, runs[w])
                                    /\ deed' = [Command!NoDeed EXCEPT !.cmd = "delegate pr", !.opened = {w}]
                                    /\ UNCHANGED <<session, plan, runs, proof, tree>>
    BY <1>2 DEF Command!PrHeadless
  <2>2. deed' = [cmd |-> "delegate pr", yes |-> {}, spawned |-> {}, landed |-> {}, opened |-> {w}]
    BY <2>1 DEF Command!NoDeed
  <2>3. {w} \in SUBSET Command!Members /\ \A v \in {w} : runs[v] \in {"passed", "proven"}
    <3>1. plan # NoPlan /\ plan \in Command!Plans
      BY <2>1 DEF Command!Listed, CommandInv, Command!CommandsSound, Command!TypeOK
    <3> QED
      BY <2>1, <3>1, PlanForm, CrewIs DEF Command!OpensPr
  <2> QED
    BY <2>1, <2>2, <2>3, LooksHold
<1>3. CASE UNCHANGED commands
  <2>1. UNCHANGED <<session, plan, runs, proof, tree, deed>>
    BY <1>3, Zenon DEF commands
  <2>2. Command!TypeOK' /\ Command!TreeMeetsThePlan'
    BY <2>1 DEF CommandInv, Command!CommandsSound, Command!TypeOK, Command!TreeMeetsThePlan, Command!Listed
  <2>3. (Command!SpawnsAreAuthorised /\ Command!LandingsAreAuthorised /\ Command!RequestsPassed)'
    BY <2>1 DEF CommandInv, Command!CommandsSound, Command!SpawnsAreAuthorised, Command!LandingsAreAuthorised,
         Command!RequestsPassed, Command!Listed
  <2> QED
    BY <1>3, <2>2, <2>3 DEF CommandInv, Command!CommandsSound
<1> QED
  BY <1>1, <1>2, <1>3, PlanningHolds, RunAllHolds, RunHeadlessHolds, RunWorkerHolds, LandingHolds, AutoHolds, AutopilotHolds,
     BatchHolds, DecomposeHolds, Zenon DEF Command!Next

-----------------------------------------------------------------------------
(* The parts together.                                                      *)

LEMMA RoutingTyped == RouteUnset /\ RoutingData => Routing!TypeOK
<1> SUFFICES ASSUME RouteUnset, RoutingData PROVE Routing!TypeOK
  OBVIOUS
<1>1. effort \in Routing!Efforts \cup {Unset} /\ request.provider \in Routing!Providers \cup {Unset}
  BY DEF RoutingData, Requests, Routing!Efforts
<1> QED
  BY <1>1, Zenon DEF RoutingData, Routing!TypeOK

\* A step is one of its part, and leaves what the other parts own as it was.
LEMMA PartMoves ==
    [PartsNext]_parts => [Config!Next]_settings /\ [Routing!Next]_routing /\ [Command!Next]_commands
<1>1. CASE PartsNext
  BY <1>1, Zenon DEF PartsNext, Takes
<1>2. CASE UNCHANGED parts
  BY <1>2, Zenon DEF parts
<1> QED
  BY <1>1, <1>2

\* What the lemmas need of the constants.
LEMMA PartConstants == RouteUnset /\ CommandNone
<1>1. RouteUnset
  BY RoutingAssumption DEF RouteUnset
<1>2. CommandNone
  BY CommandsAssumption DEF CommandNone, PlanOf
<1> QED
  BY <1>1, <1>2

LEMMA RoutingInvariant == PartsSpec => []RoutingInv
<1>1. PartsInit => RoutingInv
  BY PartConstants, RoutingBegins DEF PartsInit
<1>2. RoutingInv /\ [PartsNext]_parts => RoutingInv'
  BY PartConstants, PartMoves, RoutingStep DEF routing, Routing!vars
<1> QED
  BY <1>1, <1>2, PTL DEF PartsSpec

LEMMA CommandInvariant == PartsSpec => []CommandInv
<1>1. PartsInit => CommandInv
  BY PartConstants, CommandBeginsSound DEF PartsInit
<1>2. CommandInv /\ [PartsNext]_parts => CommandInv'
  BY PartConstants, PartMoves, CommandStep
<1> QED
  BY <1>1, <1>2, PTL DEF PartsSpec

\* Every setting has the value its sources give it in their order, a session in
\* yolo runs contained, an untrusted workspace runs no hook, and what is reported
\* of a setting explains it, however the file is edited and the session resumed.
THEOREM SettingsAreSound == PartsSpec => []SettingsSound
<1>1. PartsInit => SettingsInv
  BY SettingsBegin DEF PartsInit
<1>2. SettingsInv /\ [PartsNext]_parts => SettingsInv'
  BY PartMoves, SettingsStep
<1>3. SettingsInv => SettingsSound
  BY SettingsTyped, LayersHold, UntrustedHolds, ReportsHold DEF SettingsInv, SettingsSound, Config!SettingsSound
<1> QED
  BY <1>1, <1>2, <1>3, PTL DEF PartsSpec

\* A run's requests go to the model the user named, else along the route of its
\* role, at the effort of the provider's one adapter.
THEOREM RoutesAreSound == PartsSpec => []RoutingSound
<1>1. RoutingInv => RoutingSound
  BY PartConstants, RoutingTyped DEF RoutingInv, RoutingSound, Routing!RoutingSound
<1> QED
  BY RoutingInvariant, <1>1, PTL

\* Whatever order the delegation commands come in: live workers and patches are
\* authorised as the commands say, and what is in the checkout met its plan.
THEOREM CommandsAreSound == PartsSpec => []CommandsSound
<1>1. CommandInv => CommandsSound
  BY DEF CommandInv, CommandsSound
<1> QED
  BY CommandInvariant, <1>1, PTL

\* A run under copy-on-write leaves the checkout alone, an escalated run stays
\* escalated, an adapter stays as it was made, and no command runs a settled worker
\* again from its plan.
THEOREM StepsHold == PartsSpec => StepsSound
<1>1. RoutingInv /\ [PartsNext]_parts =>
        [/\ (turn = "running" /\ turn' = "running" /\ escalation # Unset) => escalation' = escalation
         /\ \A p \in Routing!Providers : pool[p] # Unset => pool'[p] = pool[p]]_(Routing!vars)
  <2> SUFFICES ASSUME RoutingInv, [PartsNext]_parts
               PROVE  /\ (turn = "running" /\ turn' = "running" /\ escalation # Unset) => escalation' = escalation
                      /\ \A p \in Routing!Providers : pool[p] # Unset => pool'[p] = pool[p]
    OBVIOUS
  <2> QED
    BY PartConstants, PartMoves, RoutingStep DEF routing, Routing!vars
<1>2. CommandInv /\ [PartsNext]_parts =>
        [\A w \in Command!Listed :
            plan.status[w] \in {"applied", "discarded", "running"} /\ deed'.cmd \notin Command!Replacing
                => w \notin deed'.spawned]_(Command!commandVars)
  <2> SUFFICES ASSUME CommandInv, [PartsNext]_parts PROVE Settles \/ UNCHANGED commands
    BY Zenon DEF Settles, commands, Command!commandVars
  <2> QED
    BY PartConstants, PartMoves, CommandStep
<1>3. PartsSpec => Routing!RoutingSteps
  BY RoutingInvariant, <1>1, PTL DEF PartsSpec, Routing!RoutingSteps
<1>4. PartsSpec => Command!SettledStays
  BY CommandInvariant, <1>2, PTL DEF PartsSpec, Command!SettledStays
<1> QED
  BY <1>3, <1>4, CopyOnWriteHolds, Zenon DEF StepsSound

-----------------------------------------------------------------------------
(* A task split by the model (Decomposition).  A split is fixed by its     *)
(* proposal: what follows is about one, whose dependencies are acyclic.    *)

\* A number that no smaller one of the same set precedes.
LEMMA LeastOf ==
  ASSUME NEW S \in SUBSET Nat, S # {}
  PROVE  \E i \in S : \A j \in S : i <= j
<1> DEFINE R == {ss \in Nat \X Nat : ss[1] < ss[2]}
<1>1. IsWellFoundedOn(R, Nat)
  BY NatLessThanWellFounded, Zenon DEF OpToRel
<1> HIDE DEF R
<1>2. PICK i \in S : \A j \in S : ~(<<j, i>> \in R)
  BY <1>1, WFMin
<1>3. \A j \in S : ~(j < i)
  BY <1>2 DEF R
<1> QED
  BY <1>3

Total == Len(Subtasks)

\* The ids are those at the places of the declared order.
LEMMA IdsAre ==
  /\ Total \in Nat /\ DOMAIN Subtasks = 1 .. Total
  /\ \A i \in 1 .. Total : Subtasks[i] \in Split!Ids
  /\ \A t \in Split!Ids : \E i \in 1 .. Total : Subtasks[i] = t
  /\ \A i, j \in 1 .. Total : Subtasks[i] = Subtasks[j] => i = j
<1>1. Subtasks \in Seq(Split!Ids)
  BY SplitAssumption
<1>2. Total \in Nat /\ DOMAIN Subtasks = 1 .. Total
  BY <1>1 DEF Total
<1> QED
  BY <1>2, SplitAssumption DEF Split!Ids

\* They are as many as there are places.
LEMMA IdsAreFinite == IsFiniteSet(Split!Ids) /\ Cardinality(Split!Ids) = Total
<1>1. IsFiniteSet(1 .. Total) /\ Cardinality(1 .. Total) = Total
  BY IdsAre, FS_Interval
<1>2. Subtasks = [i \in 1 .. Total |-> Subtasks[i]]
  BY IdsAre, SplitAssumption
<1>3. Subtasks \in Bijection(1 .. Total, Split!Ids)
  BY <1>2, IdsAre DEF Bijection, Injection, Surjection, IsInjective
<1>4. ExistsBijection(1 .. Total, Split!Ids)
  BY <1>3, Zenon DEF ExistsBijection
<1> QED
  BY <1>1, <1>4, FS_Bijection

\* What a sub-task depends on is among all it depends on, and so is what that does.
LEMMA AllAreBehind ==
  /\ \A t \in Split!Ids : Split!Deps(t) \subseteq Split!DependsOnAll(t) /\ Split!DependsOnAll(t) \subseteq Split!Ids
  /\ \A a, t \in Split!Ids : t \in Split!DependsOnAll(a) => Split!Deps(t) \subseteq Split!DependsOnAll(a)
<1>1. \A t : Split!Deps(t) \subseteq Split!Ids
  BY DEF Split!Deps
<1>2. \A t : Split!DependsOnAll(t) =
        {d \in Split!Ids : \A S \in SUBSET Split!Ids :
            Split!Deps(t) \subseteq S /\ (\A x \in S : Split!Deps(x) \subseteq S) => d \in S}
  BY DEF Split!DependsOnAll
<1> QED
  BY <1>1, <1>2

\* A set that holds what a sub-task depends on, and what its members do, holds all.
LEMMA BehindIsLeast ==
  ASSUME NEW t \in Split!Ids, NEW S \in SUBSET Split!Ids,
         Split!Deps(t) \subseteq S, \A x \in S : Split!Deps(x) \subseteq S
  PROVE  Split!DependsOnAll(t) \subseteq S
  BY DEF Split!DependsOnAll

\* A step repeated n times from x gives a value after each.
Iterated(n, x, g, f) == f[0] = x /\ \A i \in 1 .. n : f[i] = g[i][f[i - 1]]

LEMMA Iterates ==
  ASSUME NEW n \in Nat, NEW X, NEW x \in X, NEW g \in [1 .. n -> [X -> X]]
  PROVE  \E f \in [0 .. n -> X] : Iterated(n, x, g, f)
<1> SUFFICES ASSUME ~\E f \in [0 .. n -> X] : Iterated(n, x, g, f) PROVE FALSE
  OBVIOUS
<1> DEFINE S == {m \in 0 .. n : ~\E f \in [0 .. m -> X] : Iterated(m, x, g, f)}
<1>1. S \in SUBSET Nat /\ n \in S
  OBVIOUS
<1>2. PICK m \in S : \A j \in S : m <= j
  BY <1>1, LeastOf
<1>3. CASE m = 0
  <2>1. [i \in 0 .. 0 |-> x] \in [0 .. 0 -> X] /\ Iterated(0, x, g, [i \in 0 .. 0 |-> x])
    BY DEF Iterated
  <2> QED
    BY <1>2, <1>3, <2>1, Zenon
<1>4. CASE m # 0
  <2>1. m \in 1 .. n /\ m - 1 \in 0 .. n /\ ~(m <= m - 1) /\ m \in Nat
    BY <1>2, <1>4
  <2>2. PICK f \in [0 .. m - 1 -> X] : Iterated(m - 1, x, g, f)
    BY <1>2, <2>1
  <2> DEFINE next == g[m][f[m - 1]]
             h == [i \in 0 .. m |-> IF i = m THEN next ELSE f[i]]
  <2>3. f[m - 1] \in X
    BY <2>1, <2>2
  <2>4. next \in X
    BY <2>1, <2>3
  <2>5. h \in [0 .. m -> X] /\ h[m] = next /\ \A i \in 0 .. m - 1 : h[i] = f[i]
    <3> HIDE DEF next
    <3> QED
      BY <2>1, <2>2, <2>4
  <2>6. \A i \in 1 .. m : i - 1 \in 0 .. m - 1 /\ (i # m => i \in 1 .. m - 1 /\ i \in 0 .. m - 1)
    BY <2>1
  <2>7. h[0] = x
    BY <2>1, <2>2, <2>5 DEF Iterated
  <2> HIDE DEF h
  <2>8. \A i \in 1 .. m : h[i] = g[i][h[i - 1]]
    <3> SUFFICES ASSUME NEW i \in 1 .. m PROVE h[i] = g[i][h[i - 1]]
      OBVIOUS
    <3>1. h[i - 1] = f[i - 1]
      BY <2>5, <2>6
    <3>2. CASE i = m
      BY <2>5, <3>1, <3>2, Zenon
    <3>3. CASE i # m
      <4>1. h[i] = f[i] /\ f[i] = g[i][f[i - 1]]
        BY <2>2, <2>5, <2>6, <3>3, Zenon DEF Iterated
      <4> QED
        BY <3>1, <4>1, Zenon
    <3> QED
      BY <3>2, <3>3
  <2> QED
    BY <1>2, <2>5, <2>7, <2>8, Zenon DEF Iterated
<1> QED
  BY <1>3, <1>4

Outs   == Seq(Split!Ids)
Visits == [Outs -> [SUBSET Split!Ids -> Outs]]

\* What visiting the i-th of the declared order makes of what is out.
Onward(below, S, i, before) ==
    IF Subtasks[i] \in S /\ Subtasks[i] \notin Split!Range(before)
    THEN Append(below[before][Split!Deps(Subtasks[i])], Subtasks[i]) ELSE before

LEMMA OnwardTyped ==
  \A below \in Visits, S \in SUBSET Split!Ids, i \in 1 .. Total, before \in Outs :
     Onward(below, S, i, before) \in Outs
<1> SUFFICES ASSUME NEW below \in Visits, NEW S \in SUBSET Split!Ids, NEW i \in 1 .. Total, NEW before \in Outs
             PROVE  Onward(below, S, i, before) \in Outs
  OBVIOUS
<1> DEFINE deps == Split!Deps(Subtasks[i])
           first == below[before][deps]
<1>1. deps \in SUBSET Split!Ids
  BY DEF Split!Deps
<1>2. first \in Outs
  <2> HIDE DEF deps
  <2> QED
    BY <1>1 DEF Visits
<1> HIDE DEF first
<1>3. Append(first, Subtasks[i]) \in Outs
  BY <1>2, IdsAre DEF Outs
<1> QED
  BY <1>3, Zenon DEF Onward, first

\* The places of the declared order one after the other.
Walked(below, out, S, u) ==
    u \in [0 .. Total -> Outs] /\ u[0] = out /\ \A i \in 1 .. Total : u[i] = Onward(below, S, i, u[i - 1])

LEMMA VisitEachIs ==
  \A below \in Visits, out \in Outs, S \in SUBSET Split!Ids :
     \E u : Walked(below, out, S, u) /\ Split!VisitEach(below, out, S) = u[Total]
<1> SUFFICES ASSUME NEW below \in Visits, NEW out \in Outs, NEW S \in SUBSET Split!Ids
             PROVE  \E u : Walked(below, out, S, u) /\ Split!VisitEach(below, out, S) = u[Total]
  OBVIOUS
<1> DEFINE Walk(u) == [i \in 0 .. Total |-> IF i = 0 THEN out ELSE Onward(below, S, i, u[i - 1])]
           g == [i \in 1 .. Total |-> [s \in Outs |-> Onward(below, S, i, s)]]
<1>1. Total \in Nat
  BY IdsAre
<1>2. g \in [1 .. Total -> [Outs -> Outs]]
  BY OnwardTyped
<1>3. \A i \in 1 .. Total, s \in Outs : g[i][s] = Onward(below, S, i, s)
  OBVIOUS
<1> HIDE DEF g
<1>4. PICK f \in [0 .. Total -> Outs] : Iterated(Total, out, g, f)
  BY <1>1, <1>2, Iterates
<1>5. \A i \in 1 .. Total : i - 1 \in 0 .. Total /\ i \in 0 .. Total
  BY <1>1
<1>6. Walked(below, out, S, f)
  BY <1>3, <1>4, <1>5 DEF Walked, Iterated
<1>7. f = Walk(f)
  <2>1. \A i \in 0 .. Total : i # 0 => i \in 1 .. Total
    BY <1>1
  <2>2. \A i \in 0 .. Total : f[i] = IF i = 0 THEN out ELSE Onward(below, S, i, f[i - 1])
    BY <1>6, <2>1, Zenon DEF Walked
  <2>3. f = [i \in 0 .. Total |-> f[i]]
    BY <1>4
  <2> QED
    BY <2>2, <2>3, Zenon
<1> DEFINE upTo == CHOOSE u : u = Walk(u)
<1>8. upTo = Walk(upTo)
  BY <1>7, Zenon
<1>9. Split!VisitEach(below, out, S) = upTo[Total]
  BY Zenon DEF Split!VisitEach, Onward, Total
<1> HIDE DEF upTo
<1>10. upTo = [i \in 0 .. Total |-> upTo[i]] /\ \A i \in 0 .. Total : upTo[i] = IF i = 0 THEN out ELSE Onward(below, S, i, upTo[i - 1])
  <2> DEFINE w == Walk(upTo)
  <2>1. w = [i \in 0 .. Total |-> w[i]]
    OBVIOUS
  <2>2. \A i \in 0 .. Total : w[i] = IF i = 0 THEN out ELSE Onward(below, S, i, upTo[i - 1])
    BY Zenon
  <2>3. w = upTo
    BY <1>8
  <2> HIDE DEF w
  <2> QED
    BY <2>1, <2>2, <2>3
<1>11. upTo[0] = out
  <2>1. 0 \in 0 .. Total
    BY <1>1
  <2> QED
    BY <1>10, <2>1, Zenon
<1>12. \A i \in 1 .. Total : upTo[i] = Onward(below, S, i, upTo[i - 1])
  <2>1. \A i \in 1 .. Total : i \in 0 .. Total /\ i # 0
    BY <1>1
  <2> QED
    BY <1>10, <2>1, Zenon
<1>13. upTo \in [0 .. Total -> Outs]
  <2> DEFINE B == {i \in 0 .. Total : upTo[i] \notin Outs}
  <2>1. B = {}
    <3> SUFFICES ASSUME B # {} PROVE FALSE
      OBVIOUS
    <3>1. B \in SUBSET Nat
      OBVIOUS
    <3>2. PICK i \in B : \A j \in B : i <= j
      BY <3>1, LeastOf
    <3>3. i # 0 /\ i \in 0 .. Total
      BY <1>11, <3>2
    <3>4. i \in 1 .. Total /\ i - 1 \in 0 .. Total /\ ~(i <= i - 1)
      BY <1>1, <3>3
    <3>5. upTo[i - 1] \in Outs
      BY <3>2, <3>4
    <3> QED
      BY <1>12, <3>2, <3>4, <3>5, OnwardTyped
  <2>2. upTo = [i \in 0 .. Total |-> upTo[i]]
    BY <1>10
  <2> QED
    BY <2>1, <2>2
<1>14. Walked(below, out, S, upTo)
  BY <1>11, <1>12, <1>13 DEF Walked
<1> QED
  BY <1>9, <1>14, Zenon

\* The function below a sub-task is the one for shorter chains.
LEMMA VisitIs ==
  /\ Split!Visit \in [0 .. Total -> Visits]
  /\ \A out \in Outs, S \in SUBSET Split!Ids : Split!Visit[0][out][S] = out
  /\ \A n \in 1 .. Total, out \in Outs, S \in SUBSET Split!Ids :
        Split!Visit[n][out][S] = Split!VisitEach(Split!Visit[n - 1], out, S)
<1> DEFINE Walk(v) == [n \in 0 .. Total |-> [out \in Outs |-> [S \in SUBSET Split!Ids |->
                          IF n = 0 THEN out ELSE Split!VisitEach(v[n - 1], out, S)]]]
           x == [out \in Outs |-> [S \in SUBSET Split!Ids |-> out]]
           Deeper(below) == [out \in Outs |-> [S \in SUBSET Split!Ids |-> Split!VisitEach(below, out, S)]]
           g == [n \in 1 .. Total |-> [below \in Visits |-> Deeper(below)]]
<1>1. Total \in Nat
  BY IdsAre
<1>2. x \in Visits
  BY DEF Visits
<1>3. \A below \in Visits, out \in Outs, S \in SUBSET Split!Ids : Split!VisitEach(below, out, S) \in Outs
  <2> SUFFICES ASSUME NEW below \in Visits, NEW out \in Outs, NEW S \in SUBSET Split!Ids
               PROVE  Split!VisitEach(below, out, S) \in Outs
    OBVIOUS
  <2>1. PICK u : Walked(below, out, S, u) /\ Split!VisitEach(below, out, S) = u[Total]
    BY VisitEachIs
  <2> QED
    BY <1>1, <2>1 DEF Walked
<1>4. \A below \in Visits : Deeper(below) \in Visits
  BY <1>3 DEF Visits
<1>5. g \in [1 .. Total -> [Visits -> Visits]]
  <2> HIDE DEF Deeper
  <2> QED
    BY <1>4
<1>6. \A n \in 1 .. Total, below \in Visits : g[n][below] = Deeper(below)
  OBVIOUS
<1> HIDE DEF g
<1>7. PICK f \in [0 .. Total -> Visits] : Iterated(Total, x, g, f)
  <2> HIDE DEF x
  <2> QED
    BY <1>1, <1>2, <1>5, Iterates
<1>8. \A n \in 1 .. Total : n - 1 \in 0 .. Total /\ n \in 0 .. Total
  BY <1>1
<1>9. \A n \in 1 .. Total : f[n] = Deeper(f[n - 1])
  <2> SUFFICES ASSUME NEW n \in 1 .. Total PROVE f[n] = Deeper(f[n - 1])
    OBVIOUS
  <2>1. f[n] = g[n][f[n - 1]] /\ f[n - 1] \in Visits
    BY <1>7, <1>8 DEF Iterated
  <2> QED
    BY <1>6, <2>1, Zenon
<1>10. f = Walk(f)
  <2>1. \A n \in 0 .. Total : n # 0 => n \in 1 .. Total
    BY <1>1
  <2>2. \A n \in 0 .. Total : f[n] = [out \in Outs |-> [S \in SUBSET Split!Ids |->
                          IF n = 0 THEN out ELSE Split!VisitEach(f[n - 1], out, S)]]
    <3> SUFFICES ASSUME NEW n \in 0 .. Total
                 PROVE  f[n] = [out \in Outs |-> [S \in SUBSET Split!Ids |->
                                   IF n = 0 THEN out ELSE Split!VisitEach(f[n - 1], out, S)]]
      OBVIOUS
    <3>1. CASE n = 0
      <4>1. f[n] = x
        BY <1>7, <3>1, Zenon DEF Iterated
      <4> QED
        BY <3>1, <4>1, Zenon
    <3>2. CASE n # 0
      <4>1. f[n] = Deeper(f[n - 1])
        BY <1>9, <2>1, <3>2, Zenon
      <4> QED
        BY <3>2, <4>1, Zenon
    <3> QED
      BY <3>1, <3>2
  <2>3. f = [n \in 0 .. Total |-> f[n]]
    BY <1>7
  <2> QED
    BY <2>2, <2>3, Zenon
<1> DEFINE visit == CHOOSE v : v = Walk(v)
<1>11. visit = Walk(visit)
  BY <1>10, Zenon
<1>12. Split!Visit = visit
  BY Zenon DEF Split!Visit, Total, Outs
<1> HIDE DEF visit
<1>13. \A n \in 0 .. Total, out \in Outs, S \in SUBSET Split!Ids :
          visit[n][out][S] = IF n = 0 THEN out ELSE Split!VisitEach(visit[n - 1], out, S)
  <2> DEFINE w == Walk(visit)
  <2>1. \A n \in 0 .. Total, out \in Outs, S \in SUBSET Split!Ids :
          w[n][out][S] = IF n = 0 THEN out ELSE Split!VisitEach(visit[n - 1], out, S)
    BY Zenon
  <2>2. w = visit
    BY <1>11
  <2> HIDE DEF w
  <2> QED
    BY <2>1, <2>2
<1>14. visit \in [0 .. Total -> Visits]
  <2>1. visit = [n \in 0 .. Total |-> visit[n]]
    <3> DEFINE w == Walk(visit)
    <3>1. w = [n \in 0 .. Total |-> w[n]]
      OBVIOUS
    <3>2. w = visit
      BY <1>11
    <3> HIDE DEF w
    <3> QED
      BY <3>1, <3>2
  <2>2. \A n \in 0 .. Total : visit[n] = [out \in Outs |-> [S \in SUBSET Split!Ids |->
                          IF n = 0 THEN out ELSE Split!VisitEach(visit[n - 1], out, S)]]
    <3> DEFINE w == Walk(visit)
    <3>1. \A n \in 0 .. Total : w[n] = [out \in Outs |-> [S \in SUBSET Split!Ids |->
                          IF n = 0 THEN out ELSE Split!VisitEach(visit[n - 1], out, S)]]
      BY Zenon
    <3>2. w = visit
      BY <1>11
    <3> HIDE DEF w
    <3> QED
      BY <3>1, <3>2
  <2> DEFINE B == {n \in 0 .. Total : visit[n] \notin Visits}
  <2>3. B = {}
    <3> SUFFICES ASSUME B # {} PROVE FALSE
      OBVIOUS
    <3>1. B \in SUBSET Nat
      OBVIOUS
    <3>2. PICK n \in B : \A j \in B : n <= j
      <4> HIDE DEF B
      <4> QED
        BY <3>1, LeastOf
    <3>3. n \in 0 .. Total /\ visit[n] \notin Visits
      BY <3>2
    <3>4. CASE n = 0
      <4>1. visit[n] = [out \in Outs |-> [S \in SUBSET Split!Ids |->
                          IF n = 0 THEN out ELSE Split!VisitEach(visit[n - 1], out, S)]]
        BY <2>2, <3>3, Zenon
      <4>2. visit[n] = x
        BY <3>4, <4>1, Zenon
      <4> QED
        BY <1>2, <3>3, <4>2, Zenon
    <3>5. CASE n # 0
      <4>1. n \in 1 .. Total /\ n - 1 \in 0 .. Total /\ ~(n <= n - 1)
        BY <1>1, <3>3, <3>5
      <4>2. visit[n - 1] \in Visits
        BY <3>2, <4>1
      <4>3. visit[n] = Deeper(visit[n - 1])
        BY <2>2, <3>3, <3>5, Zenon
      <4> QED
        BY <1>4, <3>3, <4>2, <4>3, Zenon
    <3> QED
      BY <3>4, <3>5
  <2> HIDE DEF x, Deeper
  <2> QED
    BY <2>1, <2>3
<1> HIDE DEF Walk, x, Deeper
<1>15. \A n \in 1 .. Total : n \in 0 .. Total /\ n # 0
  BY <1>1
<1>16. 0 \in 0 .. Total
  BY <1>1
<1> QED
  BY <1>12, <1>13, <1>14, <1>15, <1>16

\* A sequence has a sub-task; has each once, after what it depends on; what is
\* beneath all of some; a longer sequence, by what is beneath all of some.
Has(s, t) == \E k \in 1 .. Len(s) : s[k] = t
Ordered(s) ==
    /\ s \in Outs
    /\ \A j, k \in 1 .. Len(s) : s[j] = s[k] => j = k
    /\ \A k \in 1 .. Len(s) : \A d \in Split!Deps(s[k]) : \E j \in 1 .. k - 1 : s[j] = d
Beneath(A, t) == \A a \in A : t \in Split!DependsOnAll(a)
Extended(A, s, r) ==
    /\ Ordered(r) /\ Len(s) <= Len(r)
    /\ \A k \in 1 .. Len(s) : r[k] = s[k]
    /\ \A k \in Len(s) + 1 .. Len(r) : Beneath(A, r[k])

\* A visit of S, to which all of A lead, puts out S and nothing but what A lead to.
Reaches(A, s, S, r) == Extended(A, s, r) /\ \A t \in S : Has(r, t)
Leads(A, n, S) ==
    A \in SUBSET Split!Ids /\ S \in SUBSET Split!Ids /\ Cardinality(A) + n = Total /\ \A t \in S : Beneath(A, t)
Deep(n) == \A A, S, s : Leads(A, n, S) /\ Ordered(s) => Reaches(A, s, S, Split!Visit[n][s][S])

LEMMA HasIs == \A s \in Outs : \A t : Has(s, t) <=> t \in Split!Range(s)
<1> SUFFICES ASSUME NEW s \in Outs, NEW t PROVE Has(s, t) <=> t \in Split!Range(s)
  OBVIOUS
<1>1. DOMAIN s = 1 .. Len(s)
  BY DEF Outs
<1> QED
  BY <1>1 DEF Has, Split!Range

LEMMA LongerStill ==
  ASSUME NEW A, NEW s \in Outs, NEW r, NEW q, Extended(A, s, r), Extended(A, r, q)
  PROVE  Extended(A, s, q) /\ \A t : Has(r, t) => Has(q, t)
<1>1. Len(s) \in Nat /\ Len(r) \in Nat /\ Len(q) \in Nat
  BY DEF Extended, Ordered, Outs
<1>2. \A k \in Len(s) + 1 .. Len(q) : Beneath(A, q[k])
  <2> SUFFICES ASSUME NEW k \in Len(s) + 1 .. Len(q) PROVE Beneath(A, q[k])
    OBVIOUS
  <2>1. CASE k <= Len(r)
    <3>1. k \in Len(s) + 1 .. Len(r) /\ k \in 1 .. Len(r)
      BY <1>1, <2>1
    <3> QED
      BY <3>1 DEF Extended
  <2>2. CASE ~(k <= Len(r))
    <3>1. k \in Len(r) + 1 .. Len(q)
      BY <1>1, <2>2
    <3> QED
      BY <3>1 DEF Extended
  <2> QED
    BY <2>1, <2>2
<1>3. \A k \in 1 .. Len(s) : q[k] = s[k]
  <2>1. \A k \in 1 .. Len(s) : k \in 1 .. Len(r)
    BY <1>1 DEF Extended
  <2> QED
    BY <2>1 DEF Extended
<1>4. \A t : Has(r, t) => Has(q, t)
  <2>1. \A k \in 1 .. Len(r) : k \in 1 .. Len(q) /\ q[k] = r[k]
    BY <1>1 DEF Extended
  <2> QED
    BY <2>1 DEF Has
<1> QED
  BY <1>1, <1>2, <1>3, <1>4 DEF Extended

\* What comes out after what it depends on keeps the order.
LEMMA OneMore ==
  ASSUME NEW s, Ordered(s), NEW t \in Split!Ids, ~Has(s, t), \A d \in Split!Deps(t) : Has(s, d)
  PROVE  Ordered(Append(s, t)) /\ Len(Append(s, t)) = Len(s) + 1 /\ Append(s, t)[Len(s) + 1] = t
         /\ \A k \in 1 .. Len(s) : Append(s, t)[k] = s[k]
<1>1. s \in Seq(Split!Ids) /\ Len(s) \in Nat
  BY DEF Ordered, Outs
<1> DEFINE r == Append(s, t)
<1>2. r \in Outs /\ Len(r) = Len(s) + 1 /\ r[Len(s) + 1] = t /\ \A k \in 1 .. Len(s) : r[k] = s[k]
  BY <1>1 DEF Outs
<1> HIDE DEF r
<1>3. \A k \in 1 .. Len(s) + 1 : k = Len(s) + 1 \/ k \in 1 .. Len(s)
  BY <1>1
<1>4. \A k \in 1 .. Len(s) : s[k] # t
  BY DEF Has
<1>5. \A j, k \in 1 .. Len(s) : s[j] = s[k] => j = k
  BY DEF Ordered
<1>6. \A j, k \in 1 .. Len(r) : r[j] = r[k] => j = k
  BY <1>2, <1>3, <1>4, <1>5
<1>7. \A k \in 1 .. Len(r) : \A d \in Split!Deps(r[k]) : \E j \in 1 .. k - 1 : r[j] = d
  <2> SUFFICES ASSUME NEW k \in 1 .. Len(r), NEW d \in Split!Deps(r[k]) PROVE \E j \in 1 .. k - 1 : r[j] = d
    OBVIOUS
  <2>1. CASE k = Len(s) + 1
    <3>1. Has(s, d)
      BY <1>2, <2>1
    <3>2. PICK j \in 1 .. Len(s) : s[j] = d
      BY <3>1 DEF Has
    <3>3. j \in 1 .. k - 1
      BY <1>1, <2>1
    <3> QED
      BY <1>2, <3>2, <3>3
  <2>2. CASE k \in 1 .. Len(s)
    <3>1. r[k] = s[k]
      BY <1>2, <2>2
    <3>2. PICK j \in 1 .. k - 1 : s[j] = d
      BY <2>2, <3>1 DEF Ordered
    <3>3. j \in 1 .. Len(s)
      BY <1>1, <2>2
    <3> QED
      BY <1>2, <3>2, <3>3
  <2> QED
    BY <1>2, <1>3, <2>1, <2>2
<1>8. Ordered(r)
  BY <1>2, <1>6, <1>7 DEF Ordered
<1> QED
  BY <1>2, <1>8 DEF r

\* Where all of A lead to a sub-task, they lead to what it depends on, and so does it.
LEMMA LeadsOn ==
  ASSUME Split!Acyclic, NEW n \in 1 .. Total, NEW A, NEW S, Leads(A, n, S), NEW t \in S
  PROVE  /\ Leads(A \cup {t}, n - 1, Split!Deps(t))
         /\ \A d : Beneath(A \cup {t}, d) => Beneath(A, d) /\ d # t
<1>1. t \in Split!Ids /\ Beneath(A, t) /\ A \in SUBSET Split!Ids
  BY DEF Leads
<1>2. t \notin Split!DependsOnAll(t)
  BY <1>1 DEF Split!Acyclic
<1>3. t \notin A
  BY <1>1, <1>2 DEF Beneath
<1>4. IsFiniteSet(A)
  BY <1>1, IdsAreFinite, FS_Subset
<1>5. Cardinality(A \cup {t}) = Cardinality(A) + 1 /\ Cardinality(A) \in Nat
  BY <1>3, <1>4, FS_AddElement, FS_CardinalityType
<1>6. Cardinality(A \cup {t}) + (n - 1) = Total
  BY <1>5, IdsAre DEF Leads
<1>7. Split!Deps(t) \in SUBSET Split!Ids
  BY DEF Split!Deps
<1>8. \A d \in Split!Deps(t) : Beneath(A \cup {t}, d)
  <2> SUFFICES ASSUME NEW d \in Split!Deps(t), NEW a \in A \cup {t} PROVE d \in Split!DependsOnAll(a)
    BY DEF Beneath
  <2>1. CASE a = t
    BY <1>1, <2>1, AllAreBehind
  <2>2. CASE a \in A
    <3>1. a \in Split!Ids /\ t \in Split!DependsOnAll(a)
      BY <1>1, <2>2 DEF Beneath
    <3> QED
      BY <1>1, <3>1, AllAreBehind
  <2> QED
    BY <2>1, <2>2
<1>9. \A d : Beneath(A \cup {t}, d) => Beneath(A, d) /\ d # t
  BY <1>2 DEF Beneath
<1>10. A \cup {t} \in SUBSET Split!Ids
  BY <1>1
<1> QED
  BY <1>6, <1>7, <1>8, <1>9, <1>10 DEF Leads

\* One place of the declared order.
LEMMA OnwardReaches ==
  ASSUME Split!Acyclic, NEW n \in 1 .. Total, Deep(n - 1), NEW A, NEW S, Leads(A, n, S),
         NEW i \in 1 .. Total, NEW s, Ordered(s)
  PROVE  /\ Extended(A, s, Onward(Split!Visit[n - 1], S, i, s))
         /\ Subtasks[i] \in S => Has(Onward(Split!Visit[n - 1], S, i, s), Subtasks[i])
<1> DEFINE t == Subtasks[i]
           below == Split!Visit[n - 1]
           deps == Split!Deps(t)
           first == below[s][deps]
           after == Onward(below, S, i, s)
<1>1. s \in Outs /\ Len(s) \in Nat /\ t \in Split!Ids
  BY IdsAre DEF Ordered, Outs
<1>2. CASE t \in S /\ ~Has(s, t)
  <2>1. Leads(A \cup {t}, n - 1, deps) /\ \A d : Beneath(A \cup {t}, d) => Beneath(A, d) /\ d # t
    BY <1>2, LeadsOn
  <2>2. Reaches(A \cup {t}, s, deps, first)
    BY <2>1, Zenon DEF Deep
  <2>3. after = Append(first, t)
    BY <1>1, <1>2, HasIs, Zenon DEF Onward
  <2> HIDE DEF t, below, deps, first, after
  <2>4. Ordered(first) /\ Len(s) <= Len(first) /\ Len(first) \in Nat
    BY <2>2 DEF Reaches, Extended, Ordered, Outs
  <2>5. \A k \in 1 .. Len(s) : first[k] = s[k]
    BY <2>2 DEF Reaches, Extended
  <2>6. \A k \in Len(s) + 1 .. Len(first) : Beneath(A, first[k]) /\ first[k] # t
    BY <2>1, <2>2 DEF Reaches, Extended
  <2>7. ~Has(first, t)
    <3> SUFFICES ASSUME NEW k \in 1 .. Len(first), first[k] = t PROVE FALSE
      BY DEF Has
    <3>1. CASE k \in 1 .. Len(s)
      BY <1>2, <2>5, <3>1 DEF Has
    <3>2. CASE k \in Len(s) + 1 .. Len(first)
      BY <2>6, <3>2
    <3> QED
      BY <1>1, <2>4, <3>1, <3>2
  <2>8. \A d \in deps : Has(first, d)
    BY <2>2 DEF Reaches
  <2>9. /\ Ordered(after) /\ Len(after) = Len(first) + 1 /\ after[Len(first) + 1] = t
        /\ \A k \in 1 .. Len(first) : after[k] = first[k]
    BY <1>1, <2>3, <2>4, <2>7, <2>8, OneMore DEF deps
  <2>10. Beneath(A, t)
    BY <1>2 DEF Leads
  <2>11. \A k \in 1 .. Len(s) : after[k] = s[k]
    BY <1>1, <2>4, <2>5, <2>9
  <2>12. \A k \in Len(s) + 1 .. Len(after) : Beneath(A, after[k])
    <3> SUFFICES ASSUME NEW k \in Len(s) + 1 .. Len(after) PROVE Beneath(A, after[k])
      OBVIOUS
    <3>1. CASE k = Len(first) + 1
      BY <2>9, <2>10, <3>1
    <3>2. CASE k \in Len(s) + 1 .. Len(first)
      <4>1. after[k] = first[k]
        BY <1>1, <2>9, <3>2
      <4> QED
        BY <2>6, <3>2, <4>1
    <3> QED
      BY <1>1, <2>4, <2>9, <3>1, <3>2
  <2>13. Len(s) <= Len(after) /\ Len(first) + 1 \in 1 .. Len(after)
    BY <1>1, <2>4, <2>9
  <2>14. Has(after, t)
    BY <2>9, <2>13 DEF Has
  <2>15. Extended(A, s, after)
    BY <2>9, <2>11, <2>12, <2>13 DEF Extended
  <2> QED
    BY <2>14, <2>15 DEF after, below, t
<1>3. CASE ~(t \in S /\ ~Has(s, t))
  <2>1. after = s
    BY <1>1, <1>3, HasIs, Zenon DEF Onward
  <2>2. Extended(A, s, s)
    <3>1. \A k \in Len(s) + 1 .. Len(s) : FALSE
      BY <1>1
    <3> QED
      BY <1>1, <3>1 DEF Extended
  <2> HIDE DEF after
  <2>3. Extended(A, s, after) /\ (t \in S => Has(after, t))
    BY <1>3, <2>1, <2>2
  <2> QED
    BY <2>3 DEF after, below, t
<1> QED
  BY <1>2, <1>3

\* A visit at one depth, after those at the depth below.
LEMMA DeeperReaches ==
  ASSUME Split!Acyclic, NEW n \in 1 .. Total, Deep(n - 1)
  PROVE  Deep(n)
<1> SUFFICES ASSUME NEW A, NEW S, NEW s, Leads(A, n, S), Ordered(s)
             PROVE  Reaches(A, s, S, Split!Visit[n][s][S])
  BY DEF Deep
<1> DEFINE below == Split!Visit[n - 1]
<1>1. n \in 0 .. Total /\ n - 1 \in 0 .. Total /\ Total \in Nat
  BY IdsAre
<1>2. below \in Visits /\ s \in Outs /\ S \in SUBSET Split!Ids
  BY <1>1, VisitIs DEF Ordered, Leads
<1>3. Split!Visit[n][s][S] = Split!VisitEach(below, s, S)
  BY <1>2, VisitIs
<1> HIDE DEF below
<1>4. PICK u : Walked(below, s, S, u) /\ Split!VisitEach(below, s, S) = u[Total]
  BY <1>2, VisitEachIs
<1> DEFINE Good(i) == Extended(A, s, u[i]) /\ \A j \in 1 .. i : Subtasks[j] \in S => Has(u[i], Subtasks[j])
           B == {i \in 0 .. Total : ~Good(i)}
<1>5. Good(0)
  <2>1. u[0] = s /\ Len(s) \in Nat
    BY <1>2, <1>4 DEF Walked, Outs
  <2>2. \A k \in Len(s) + 1 .. Len(s) : FALSE
    BY <2>1
  <2>3. Extended(A, s, s)
    BY <2>1, <2>2 DEF Extended
  <2>4. \A j \in 1 .. 0 : FALSE
    OBVIOUS
  <2> QED
    BY <2>1, <2>3, <2>4
<1>6. \A i \in 1 .. Total : Good(i - 1) => Good(i)
  <2> SUFFICES ASSUME NEW i \in 1 .. Total, Good(i - 1) PROVE Good(i)
    OBVIOUS
  <2> DEFINE before == u[i - 1]
             after == u[i]
  <2>1. after = Onward(below, S, i, before)
    BY <1>4 DEF Walked
  <2>2. Extended(A, s, before) /\ Ordered(before)
    BY DEF Extended
  <2>3. \A j \in 1 .. i : j = i \/ j \in 1 .. i - 1
    OBVIOUS
  <2>4. \A j \in 1 .. i - 1 : Subtasks[j] \in S => Has(before, Subtasks[j])
    OBVIOUS
  <2> HIDE DEF before, after
  <2>5. Extended(A, before, after) /\ (Subtasks[i] \in S => Has(after, Subtasks[i]))
    BY <2>1, <2>2, OnwardReaches DEF below
  <2>6. Extended(A, s, after) /\ \A t : Has(before, t) => Has(after, t)
    BY <1>2, <2>2, <2>5, LongerStill
  <2>7. Extended(A, s, after) /\ \A j \in 1 .. i : Subtasks[j] \in S => Has(after, Subtasks[j])
    BY <2>3, <2>4, <2>5, <2>6
  <2> QED
    BY <2>7 DEF after
<1>7. B = {}
  <2> SUFFICES ASSUME B # {} PROVE FALSE
    OBVIOUS
  <2> HIDE DEF Good
  <2>1. B \in SUBSET Nat
    OBVIOUS
  <2>2. PICK i \in B : \A j \in B : i <= j
    <3> HIDE DEF B
    <3> QED
      BY <2>1, LeastOf
  <2>3. i # 0 /\ i \in 0 .. Total
    BY <1>5, <2>2
  <2>4. i \in 1 .. Total /\ i - 1 \in 0 .. Total /\ ~(i <= i - 1)
    BY <1>1, <2>3
  <2> QED
    BY <1>6, <2>2, <2>4
<1>8. Good(Total)
  <2> HIDE DEF Good
  <2> QED
    BY <1>1, <1>7
<1>9. \A t \in S : Has(u[Total], t)
  BY <1>2, <1>8, IdsAre
<1> QED
  BY <1>3, <1>4, <1>8, <1>9 DEF Reaches

\* No chain is as long as all the sub-tasks, so that the last visit has nothing to do.
LEMMA AllReach ==
  ASSUME Split!Acyclic
  PROVE  \A n \in 0 .. Total : Deep(n)
<1>1. Total \in Nat
  BY IdsAre
<1>2. Deep(0)
  <2> SUFFICES ASSUME NEW A, NEW S, NEW s, Leads(A, 0, S), Ordered(s)
               PROVE  Reaches(A, s, S, Split!Visit[0][s][S])
    BY DEF Deep
  <2>1. A \in SUBSET Split!Ids /\ Cardinality(A) + 0 = Total /\ S \in SUBSET Split!Ids /\ \A t \in S : Beneath(A, t)
    BY DEF Leads
  <2>2. IsFiniteSet(Split!Ids) /\ Cardinality(Split!Ids) = Total /\ IsFiniteSet(A)
    BY <2>1, IdsAreFinite, FS_Subset
  <2>3. Cardinality(A) = Cardinality(Split!Ids)
    BY <1>1, <2>1, <2>2, FS_CardinalityType
  <2>4. A = Split!Ids
    BY <2>1, <2>2, <2>3, FS_Subset
  <2>5. S = {}
    BY <2>1, <2>4 DEF Beneath, Split!Acyclic
  <2>6. s \in Outs /\ Len(s) \in Nat
    BY DEF Ordered, Outs
  <2>7. Split!Visit[0][s][S] = s
    BY <2>1, <2>6, VisitIs
  <2>8. \A k \in Len(s) + 1 .. Len(s) : FALSE
    BY <2>6
  <2> QED
    BY <2>5, <2>6, <2>7, <2>8 DEF Reaches, Extended
<1> DEFINE B == {n \in 0 .. Total : ~Deep(n)}
<1>3. B = {}
  <2> SUFFICES ASSUME B # {} PROVE FALSE
    OBVIOUS
  <2>1. B \in SUBSET Nat
    OBVIOUS
  <2>2. PICK n \in B : \A j \in B : n <= j
    <3> HIDE DEF B
    <3> QED
      BY <2>1, LeastOf
  <2>3. n # 0 /\ n \in 0 .. Total
    BY <1>2, <2>2
  <2>4. n \in 1 .. Total /\ n - 1 \in 0 .. Total /\ ~(n <= n - 1)
    BY <1>1, <2>3
  <2>5. Deep(n - 1)
    BY <2>2, <2>4
  <2> QED
    BY <2>2, <2>4, <2>5, DeeperReaches
<1> QED
  BY <1>3

\* topoOrder puts out every sub-task once, after what it depends on.
LEMMA TopoOrderIsOrdered ==
  ASSUME Split!Acyclic
  PROVE  Ordered(Split!TopoOrder) /\ Len(Split!TopoOrder) = Total /\ \A t \in Split!Ids : Has(Split!TopoOrder, t)
<1> DEFINE r == Split!TopoOrder
<1>1. Total \in 0 .. Total
  BY IdsAre
<1>2. Leads({}, Total, Split!Ids)
  BY IdsAre, FS_EmptySet DEF Leads, Beneath
<1>3. Ordered(<<>>)
  BY DEF Ordered, Outs
<1>4. Reaches({}, <<>>, Split!Ids, r)
  BY <1>1, <1>2, <1>3, AllReach DEF Deep, Split!TopoOrder, Total
<1> HIDE DEF r
<1>5. Ordered(r) /\ \A t \in Split!Ids : Has(r, t)
  BY <1>4 DEF Reaches, Extended
<1>6. r \in Seq(Split!Ids) /\ Len(r) \in Nat
  BY <1>5 DEF Ordered, Outs
<1>7. r \in Bijection(1 .. Len(r), Split!Ids)
  <2>1. r \in [1 .. Len(r) -> Split!Ids]
    BY <1>6
  <2>2. \A t \in Split!Ids : \E k \in 1 .. Len(r) : r[k] = t
    BY <1>5 DEF Has
  <2>3. \A j, k \in 1 .. Len(r) : r[j] = r[k] => j = k
    BY <1>5 DEF Ordered
  <2>4. DOMAIN r = 1 .. Len(r)
    BY <2>1
  <2> QED
    BY <2>1, <2>2, <2>3, <2>4 DEF Bijection, Injection, Surjection, IsInjective
<1>8. ExistsBijection(1 .. Len(r), Split!Ids)
  BY <1>7, Zenon DEF ExistsBijection
<1>9. IsFiniteSet(1 .. Len(r)) /\ Cardinality(1 .. Len(r)) = Len(r)
  BY <1>6, FS_Interval
<1>10. Len(r) = Total
  BY <1>8, <1>9, FS_Bijection, IdsAreFinite
<1> QED
  BY <1>5, <1>10 DEF r

-----------------------------------------------------------------------------
(* What a run of a split keeps: the sub-tasks run so far are the first of  *)
(* topoOrder, and all but the one that stopped the run were accepted (Run  *)
(* of the split); what an accepted one was built on keeps to its paths,    *)
(* and the text has it (Built).                                            *)

SplitRuns ==
    /\ stage \in {"valid", "running", "stopped", "done"} => Split!Valid /\ source = "model"
    /\ order # <<>> => stage \in {"running", "stopped", "done"}
    /\ assembled # "none" => stage = "done"
    /\ Len(order) <= Total /\ \A k \in 1 .. Len(order) : order[k] = Split!TopoOrder[k]
    /\ \A k \in 1 .. Len(order) : order[k] \in accepted \/ (k = Len(order) /\ stage = "stopped")

Built ==
    /\ \A i \in 1 .. Len(order) : order[i] \in accepted =>
          proposal.kind # "deliverables" /\ \A j \in 1 .. i : wrote[order[j]] \subseteq Split!Allowed(order[i])
    /\ \A t \in accepted : wrote[t] \subseteq Split!Touched(text)

SplitInv == Split!TypeOK /\ SplitRuns /\ Built /\ Split!AssembledIsWhole /\ Split!PlanKeepsOrder

\* What is said of a proposal stays so while it is there.
LEMMA SameSplit ==
  ASSUME proposal' = proposal
  PROVE  /\ Split!TopoOrder' = Split!TopoOrder
         /\ Split!Valid' = Split!Valid
         /\ \A t : Split!Allowed(t)' = Split!Allowed(t)
<1>1. Split!TopoOrder' = Split!TopoOrder
  BY SMT DEF Split!TopoOrder, Split!Visit, Split!VisitEach, Split!Deps
<1>2. \A t : Split!DependsOnAll(t)' = Split!DependsOnAll(t)
  BY DEF Split!DependsOnAll, Split!Deps
<1>3. Split!Valid' = Split!Valid
  BY <1>2 DEF Split!Valid, Split!Acyclic, Split!Verifiable
<1>4. \A t : Split!Allowed(t)' = Split!Allowed(t)
  BY DEF Split!Allowed
<1> QED
  BY <1>1, <1>3, <1>4

LEMMA SplitBegins == Split!Init => SplitInv
<1> SUFFICES ASSUME Split!Init PROVE SplitInv
  OBVIOUS
<1>1. /\ stage = "proposed" /\ source = "none" /\ order = <<>> /\ accepted = {} /\ text = Split!NoText
      /\ wrote = [t \in Split!Ids |-> {}] /\ refusal = "none" /\ assembled = "none" /\ workers = <<>>
  BY DEF Split!Init
<1>2. Split!NoText \in [Split!Files -> Nat]
  BY DEF Split!NoText
<1>3. Split!TypeOK
  BY <1>1, <1>2 DEF Split!TypeOK, Split!Stages
<1>4. SplitRuns
  BY <1>1, IdsAre DEF SplitRuns
<1>5. Built
  BY <1>1 DEF Built
<1>6. Split!AssembledIsWhole /\ Split!PlanKeepsOrder
  BY <1>1 DEF Split!AssembledIsWhole, Split!PlanKeepsOrder
<1> QED
  BY <1>3, <1>4, <1>5, <1>6 DEF SplitInv

\* The planner's own split: one worker, or a chain of workers with an area each.
Chained(plans) ==
    \E m \in Nat \ {0} :
       /\ DOMAIN plans = 1 .. m
       /\ \A i \in 1 .. m :
             /\ plans[i].after = IF i > 1 THEN {i - 1} ELSE {}
             /\ m > 1 => plans[i].paths = {i}

LEMMA BuildPlanIs ==
  ASSUME NEW n \in Nat, NEW root, NEW max, NEW tdd, NEW areas, NEW plans,
         areas = [i \in 1 .. n |-> i], plans = Split!BuildPlan(areas, root, max, tdd)
  PROVE  Chained(plans)
<1> DEFINE m == IF root /\ Len(areas) >= 2 /\ Len(areas) <= max THEN Len(areas) ELSE 1
           p == [i \in 1 .. m |->
            [paths |-> IF m = 1 THEN {"src", "test"} ELSE {areas[i]},
             after |-> IF i > 1 THEN {i - 1} ELSE {},
             tdd   |-> tdd, review |-> FALSE]]
<1>1. plans = p
  BY Zenon DEF Split!BuildPlan
<1>2. areas \in Seq(Nat) /\ Len(areas) = n /\ \A i \in 1 .. n : areas[i] = i
  OBVIOUS
<1>3. m \in Nat \ {0} /\ (m > 1 => m = n)
  BY <1>2
<1> HIDE DEF m
<1>4. DOMAIN p = 1 .. m
  OBVIOUS
<1>5. \A i \in 1 .. m : p[i].after = IF i > 1 THEN {i - 1} ELSE {}
  OBVIOUS
<1>6. \A i \in 1 .. m : m > 1 => p[i].paths = {i}
  BY <1>2, <1>3
<1> HIDE DEF p
<1> QED
  BY <1>1, <1>3, <1>4, <1>5, <1>6 DEF Chained

\* The places of a plan made of a split are those of its sub-tasks.
LEMMA PositionIs == \A i \in 1 .. Total : Split!Position(Subtasks[i]) = i
<1> SUFFICES ASSUME NEW i \in 1 .. Total PROVE Split!Position(Subtasks[i]) = i
  OBVIOUS
<1>1. \A k \in DOMAIN Subtasks : Subtasks[k] = Subtasks[i] => k = i
  BY IdsAre
<1>2. i \in DOMAIN Subtasks
  BY IdsAre
<1> QED
  BY <1>1, <1>2 DEF Split!Position

LEMMA SavedKeepsOrder ==
  ASSUME Split!Valid
  PROVE  /\ DOMAIN Split!PlanFromDecomposition = 1 .. Total
         /\ \A i \in 1 .. Total : Split!PlanFromDecomposition[i].after \subseteq (1 .. Total) \ {i}
         /\ \A i, j \in 1 .. Total :
               Subtasks[j] \in Split!Deps(Subtasks[i]) <=> j \in Split!PlanFromDecomposition[i].after
<1> DEFINE p == Split!PlanFromDecomposition
<1>1. DOMAIN p = 1 .. Total
  BY IdsAre DEF Split!PlanFromDecomposition
<1>2. \A i \in 1 .. Total : p[i].after = {Split!Position(d) : d \in Split!Deps(Subtasks[i])}
  BY IdsAre DEF Split!PlanFromDecomposition
<1> HIDE DEF p
<1>3. \A i \in 1 .. Total : \A d \in Split!Deps(Subtasks[i]) : \E k \in 1 .. Total : k # i /\ d = Subtasks[k] /\ Split!Position(d) = k
  <2> SUFFICES ASSUME NEW i \in 1 .. Total, NEW d \in Split!Deps(Subtasks[i])
               PROVE  \E k \in 1 .. Total : k # i /\ d = Subtasks[k] /\ Split!Position(d) = k
    OBVIOUS
  <2>1. d \in Split!Ids /\ Subtasks[i] \in Split!Ids
    BY IdsAre DEF Split!Deps
  <2>2. d # Subtasks[i]
    BY <2>1, AllAreBehind DEF Split!Valid, Split!Acyclic
  <2>3. PICK k \in 1 .. Total : Subtasks[k] = d
    BY <2>1, IdsAre
  <2> QED
    BY <2>2, <2>3, PositionIs
<1>4. \A i \in 1 .. Total : p[i].after \subseteq (1 .. Total) \ {i}
  BY <1>2, <1>3
<1>5. \A i, j \in 1 .. Total : Subtasks[j] \in Split!Deps(Subtasks[i]) <=> j \in p[i].after
  <2> SUFFICES ASSUME NEW i \in 1 .. Total, NEW j \in 1 .. Total
               PROVE  Subtasks[j] \in Split!Deps(Subtasks[i]) <=> j \in p[i].after
    OBVIOUS
  <2>1. Subtasks[j] \in Split!Deps(Subtasks[i]) => j \in p[i].after
    BY <1>2, PositionIs
  <2>2. ASSUME j \in p[i].after PROVE Subtasks[j] \in Split!Deps(Subtasks[i])
    <3>1. PICK d \in Split!Deps(Subtasks[i]) : Split!Position(d) = j
      BY <1>2, <2>2
    <3> QED
      BY <1>3, <3>1
  <2> QED
    BY <2>1, <2>2
<1> QED
  BY <1>1, <1>4, <1>5 DEF p

\* The patch of a sub-task touches what it wrote and what the text touched.
LEMMA PatchTouches ==
  ASSUME text \in [Split!Files -> Nat], NEW changed \in SUBSET Split!Files
  PROVE  /\ Split!AppendPatch(text, Split!DiffAfter(text, changed)) \in [Split!Files -> Nat]
         /\ Split!Touched(Split!DiffAfter(text, changed)) = Split!Touched(text) \cup changed
         /\ Split!Touched(Split!AppendPatch(text, Split!DiffAfter(text, changed))) = Split!Touched(text) \cup changed
<1> DEFINE patch == Split!DiffAfter(text, changed)
           both  == Split!AppendPatch(text, patch)
<1>1. patch \in [Split!Files -> Nat] /\ \A f \in Split!Files : patch[f] = IF text[f] > 0 \/ f \in changed THEN 1 ELSE 0
  BY DEF Split!DiffAfter
<1> HIDE DEF patch
<1>2. both \in [Split!Files -> Nat] /\ \A f \in Split!Files : both[f] = text[f] + patch[f]
  BY <1>1 DEF Split!AppendPatch
<1> HIDE DEF both
<1>3. Split!Touched(patch) = Split!Touched(text) \cup changed
  BY <1>1 DEF Split!Touched
<1>4. Split!Touched(both) = Split!Touched(text) \cup changed
  BY <1>1, <1>2 DEF Split!Touched
<1> QED
  BY <1>2, <1>3, <1>4 DEF both, patch

\* While the order is run, the next is a sub-task that is not yet in it.
LEMMA NextIs ==
  ASSUME SplitInv, stage = "running", Len(order) < Total
  PROVE  /\ order \in Seq(Split!Ids) /\ Len(order) \in Nat
         /\ Split!TopoOrder[Len(order) + 1] \in Split!Ids
         /\ \A k \in 1 .. Len(order) : order[k] # Split!TopoOrder[Len(order) + 1] /\ order[k] \in accepted
         /\ accepted \subseteq {order[k] : k \in 1 .. Len(order)}
<1>1. order \in Seq(Split!Ids) /\ Len(order) \in Nat /\ accepted \subseteq Split!Range(order)
  BY DEF SplitInv, Split!TypeOK
<1>2. Ordered(Split!TopoOrder) /\ Len(Split!TopoOrder) = Total
  BY TopoOrderIsOrdered DEF SplitInv, SplitRuns, Split!Valid
<1> DEFINE topo == Split!TopoOrder
<1>3. \A k \in 1 .. Len(order) : order[k] = topo[k] /\ order[k] \in accepted
  BY DEF SplitInv, SplitRuns
<1> HIDE DEF topo
<1>4. Len(order) + 1 \in 1 .. Total /\ Total \in Nat /\ topo \in Seq(Split!Ids) /\ \A j, k \in 1 .. Total : topo[j] = topo[k] => j = k
  BY <1>1, <1>2, IdsAre DEF topo, Ordered, Outs
<1>5. topo[Len(order) + 1] \in Split!Ids
  BY <1>2, <1>4 DEF topo
<1>6. \A k \in 1 .. Len(order) : k \in 1 .. Total /\ k # Len(order) + 1
  BY <1>1, <1>4
<1>7. \A k \in 1 .. Len(order) : order[k] # topo[Len(order) + 1]
  BY <1>3, <1>4, <1>6
<1>8. DOMAIN order = 1 .. Len(order)
  BY <1>1
<1>9. accepted \subseteq {order[k] : k \in 1 .. Len(order)}
  BY <1>1, <1>8 DEF Split!Range
<1> QED
  BY <1>1, <1>3, <1>5, <1>7, <1>9 DEF topo

\* What a verdict on a patch was found without reason to refuse.
LEMMA NoRefusalIs ==
  ASSUME NEW t, NEW patch, NEW red, NEW green, Split!Refusal(t, patch, red, green) = "none"
  PROVE  Split!Touched(patch) \subseteq Split!Allowed(t) /\ proposal.kind # "deliverables"
  BY DEF Split!Refusal, Split!GreenComplete

LEMMA RefusalTyped ==
  \A t, patch, red, green : Split!Refusal(t, patch, red, green) \in {"none", "scope", "red", "green"}
  BY DEF Split!Refusal

\* One sub-task more, accepted or not.
LEMMA RunSubTaskHolds ==
  ASSUME SplitInv, Split!RunSubTask
  PROVE  SplitInv'
<1>1. stage = "running" /\ Len(order) < Total /\ UNCHANGED <<proposal, source, assembled, workers>>
  BY DEF Split!RunSubTask, Total
<1> DEFINE t == Split!TopoOrder[Len(order) + 1]
<1>2. PICK changed \in SUBSET Split!Files, red \in BOOLEAN, green \in BOOLEAN :
         LET patch == Split!DiffAfter(text, changed)
             why == IF ~Split!GitApplies(text) THEN "base" ELSE Split!Refusal(t, patch, red, green)
         IN  /\ order' = Append(order, t)
             /\ wrote' = [wrote EXCEPT ![t] = changed]
             /\ refusal' = why
             /\ IF why = "none"
                THEN accepted' = accepted \cup {t} /\ text' = Split!AppendPatch(text, patch)
                ELSE UNCHANGED <<accepted, text>>
             /\ Split!AfterVerdict(why)
  BY Zenon DEF Split!RunSubTask
<1> DEFINE patch == Split!DiffAfter(text, changed)
           why == IF ~Split!GitApplies(text) THEN "base" ELSE Split!Refusal(t, patch, red, green)
<1>3. order' = Append(order, t) /\ wrote' = [wrote EXCEPT ![t] = changed] /\ refusal' = why
  BY <1>2, Zenon
<1>4. why = "none" => accepted' = accepted \cup {t} /\ text' = Split!AppendPatch(text, patch) /\ stage' = stage
  BY <1>2, Zenon DEF Split!AfterVerdict
<1>5. why # "none" => accepted' = accepted /\ text' = text /\ stage' = "stopped"
  BY <1>2, Zenon DEF Split!AfterVerdict
<1>6. why = "none" => Split!Touched(patch) \subseteq Split!Allowed(t) /\ proposal.kind # "deliverables"
  BY NoRefusalIs, Zenon
<1>7. why \in {"none", "base", "scope", "red", "green"}
  BY RefusalTyped, Zenon
<1>8. text \in [Split!Files -> Nat] /\ wrote \in [Split!Ids -> SUBSET Split!Files] /\ source \in {"none", "model", "heuristic"}
      /\ assembled \in {"none", "ok", "red"}
  BY DEF SplitInv, Split!TypeOK
<1>9. /\ Split!AppendPatch(text, patch) \in [Split!Files -> Nat]
      /\ Split!Touched(patch) = Split!Touched(text) \cup changed
      /\ Split!Touched(Split!AppendPatch(text, patch)) = Split!Touched(text) \cup changed
  BY <1>8, PatchTouches
<1>10. /\ order \in Seq(Split!Ids) /\ Len(order) \in Nat /\ t \in Split!Ids
       /\ \A k \in 1 .. Len(order) : order[k] # t /\ order[k] \in accepted
       /\ accepted \subseteq {order[k] : k \in 1 .. Len(order)}
  BY <1>1, NextIs
<1>11. Split!TopoOrder' = Split!TopoOrder /\ Split!Valid' = Split!Valid /\ \A s : Split!Allowed(s)' = Split!Allowed(s)
  BY <1>1, SameSplit
<1>12. \A s : Split!Touched(s)' = Split!Touched(s')
  BY DEF Split!Touched
<1>13. Split!Valid /\ source = "model" /\ assembled = "none" /\ \A k \in 1 .. Len(order) : order[k] = Split!TopoOrder[k]
  BY <1>1, <1>8 DEF SplitInv, SplitRuns
<1>14. /\ \A i \in 1 .. Len(order) : order[i] \in accepted =>
             proposal.kind # "deliverables" /\ \A j \in 1 .. i : wrote[order[j]] \subseteq Split!Allowed(order[i])
       /\ \A s \in accepted : wrote[s] \subseteq Split!Touched(text)
  BY DEF SplitInv, Built
<1> HIDE DEF t, patch, why
<1> DEFINE n == Len(order) + 1
<1>15. /\ order' \in Seq(Split!Ids) /\ Len(order') = n /\ order'[n] = t /\ n \in Nat /\ n <= Total
       /\ DOMAIN order' = 1 .. n
       /\ \A k \in 1 .. Len(order) : order'[k] = order[k]
       /\ \A k \in 1 .. n : k = n \/ k \in 1 .. Len(order)
  BY <1>1, <1>3, <1>10, IdsAre
<1>16. wrote' \in [Split!Ids -> SUBSET Split!Files] /\ wrote'[t] = changed /\ \A s \in Split!Ids : s # t => wrote'[s] = wrote[s]
  BY <1>3, <1>8, <1>10
<1> HIDE DEF n
<1>17. accepted' \subseteq accepted \cup {t} /\ accepted \subseteq accepted' /\ text' \in [Split!Files -> Nat]
  BY <1>4, <1>5, <1>8, <1>9
<1>18. accepted \subseteq Split!Ids /\ t \notin accepted
  BY <1>10
<1>19. Split!TypeOK'
  <2>1. \A k \in 1 .. Len(order) : k \in 1 .. n
    BY <1>10 DEF n
  <2>2. n \in 1 .. n
    BY <1>15, <1>10 DEF n
  <2>3. accepted' \subseteq {order'[k] : k \in 1 .. n}
    BY <1>10, <1>15, <1>17, <2>1, <2>2
  <2>4. accepted' \subseteq Split!Range(order')
    BY <1>15, <2>3 DEF Split!Range
  <2>5. stage' \in Split!Stages
    BY <1>1, <1>4, <1>5 DEF Split!Stages
  <2>6. source' \in {"none", "model", "heuristic"} /\ assembled' \in {"none", "ok", "red"}
    BY <1>1, <1>8
  <2> QED
    BY <1>3, <1>7, <1>15, <1>16, <1>17, <2>4, <2>5, <2>6 DEF Split!TypeOK
<1>20. SplitRuns'
  <2>1. stage' \in {"running", "stopped"} /\ assembled' = "none"
    BY <1>1, <1>4, <1>5, <1>13
  <2>2. \A k \in 1 .. n : order'[k] = Split!TopoOrder[k]
    BY <1>13, <1>15 DEF t, n
  <2>3. \A k \in 1 .. n : order'[k] \in accepted' \/ (k = n /\ stage' = "stopped")
    <3>1. t \in accepted' \/ stage' = "stopped"
      BY <1>4, <1>5
    <3> QED
      BY <1>10, <1>15, <1>17, <3>1
  <2> QED
    BY <1>1, <1>11, <1>13, <1>15, <2>1, <2>2, <2>3 DEF SplitRuns
<1>21. Built'
  <2>1. \A s \in accepted' : wrote'[s] \subseteq Split!Touched(text')
    <3>1. CASE why = "none"
      BY <1>4, <1>9, <1>14, <1>16, <1>18, <3>1
    <3>2. CASE why # "none"
      BY <1>5, <1>14, <1>16, <1>18, <3>2
    <3> QED
      BY <3>1, <3>2
  <2>2. \A i \in 1 .. n : order'[i] \in accepted' =>
          proposal.kind # "deliverables" /\ \A j \in 1 .. i : wrote'[order'[j]] \subseteq Split!Allowed(order'[i])
    <3> SUFFICES ASSUME NEW i \in 1 .. n, order'[i] \in accepted'
                 PROVE  proposal.kind # "deliverables" /\ \A j \in 1 .. i : wrote'[order'[j]] \subseteq Split!Allowed(order'[i])
      OBVIOUS
    <3>1. CASE i = n
      <4>1. why = "none"
        BY <1>5, <1>15, <1>18, <3>1
      <4>2. \A j \in 1 .. n : wrote'[order'[j]] \subseteq Split!Touched(text) \cup changed
        <5> SUFFICES ASSUME NEW j \in 1 .. n PROVE wrote'[order'[j]] \subseteq Split!Touched(text) \cup changed
          OBVIOUS
        <5>1. CASE j = n
          BY <1>15, <1>16, <5>1
        <5>2. CASE j \in 1 .. Len(order)
          <6>1. order'[j] = order[j] /\ order[j] \in accepted /\ order[j] # t /\ order[j] \in Split!Ids
            BY <1>10, <1>15, <1>18, <5>2
          <6>2. wrote[order[j]] \subseteq Split!Touched(text) /\ wrote'[order[j]] = wrote[order[j]]
            BY <1>14, <1>16, <6>1
          <6> QED
            BY <6>1, <6>2
        <5> QED
          BY <1>15, <5>1, <5>2
      <4> QED
        BY <1>6, <1>9, <1>15, <3>1, <4>1, <4>2
    <3>2. CASE i \in 1 .. Len(order)
      <4>1. order'[i] = order[i] /\ order[i] \in accepted
        BY <1>10, <1>15, <3>2
      <4>2. \A j \in 1 .. i : j \in 1 .. Len(order)
        BY <1>10, <3>2
      <4>3. \A j \in 1 .. i : order'[j] = order[j] /\ wrote'[order[j]] = wrote[order[j]]
        BY <1>10, <1>15, <1>16, <1>18, <4>2
      <4> QED
        BY <1>14, <3>2, <4>1, <4>3
    <3> QED
      BY <1>15, <3>1, <3>2
  <2> QED
    BY <1>1, <1>11, <1>12, <1>15, <2>1, <2>2 DEF Built
<1>22. Split!AssembledIsWhole' /\ Split!PlanKeepsOrder'
  <2>1. stage' # "saved" /\ assembled' # "ok"
    BY <1>1, <1>4, <1>5, <1>13
  <2> QED
    BY <2>1 DEF Split!AssembledIsWhole, Split!PlanKeepsOrder
<1> QED
  BY <1>19, <1>20, <1>21, <1>22 DEF SplitInv

\* The check of the whole, when all have run.
LEMMA AssembleHolds ==
  ASSUME SplitInv, Split!Assemble
  PROVE  SplitInv'
<1>1. /\ stage = "running" /\ Len(order) = Total /\ stage' = "done"
      /\ assembled' \in (IF Split!GitApplies(text) THEN {"ok", "red"} ELSE {"red"})
      /\ UNCHANGED <<proposal, source, order, accepted, text, wrote, refusal, workers>>
  BY DEF Split!Assemble, Total
<1>2. Split!TopoOrder' = Split!TopoOrder /\ Split!Valid' = Split!Valid /\ \A s : Split!Allowed(s)' = Split!Allowed(s)
  BY <1>1, SameSplit
<1>3. Split!TypeOK'
  BY <1>1 DEF SplitInv, Split!TypeOK, Split!Stages
<1>4. SplitRuns'
  BY <1>1, <1>2 DEF SplitInv, SplitRuns
<1>5. Built'
  BY <1>1, <1>2 DEF SplitInv, Built, Split!Touched
<1>6. Split!AssembledIsWhole'
  <2>1. SUFFICES ASSUME assembled' = "ok"
                 PROVE  /\ accepted' = Split!Ids
                        /\ \A t \in Split!Ids : wrote'[t] \subseteq Split!Touched(text')
                        /\ \A f \in proposal'.existing : text'[f] <= 1
    BY DEF Split!AssembledIsWhole, Split!Touched
  <2>2. \A f \in proposal.existing : text[f] <= 1
    BY <1>1, <2>1 DEF Split!GitApplies
  <2>3. \A t \in Split!Ids : Has(Split!TopoOrder, t) /\ Len(Split!TopoOrder) = Total
    BY <1>1, TopoOrderIsOrdered DEF SplitInv, SplitRuns, Split!Valid
  <2>4. \A k \in 1 .. Len(order) : order[k] = Split!TopoOrder[k] /\ order[k] \in accepted
    BY <1>1 DEF SplitInv, SplitRuns
  <2>5. Split!Ids \subseteq accepted
    BY <1>1, <2>3, <2>4 DEF Has
  <2>6. accepted \subseteq Split!Ids
    <3>1. order \in Seq(Split!Ids) /\ accepted \subseteq Split!Range(order)
      BY DEF SplitInv, Split!TypeOK
    <3>2. DOMAIN order = 1 .. Len(order) /\ \A k \in 1 .. Len(order) : order[k] \in Split!Ids
      BY <3>1
    <3> QED
      BY <3>1, <3>2 DEF Split!Range
  <2>7. \A t \in accepted : wrote[t] \subseteq Split!Touched(text)
    BY DEF SplitInv, Built
  <2> QED
    BY <1>1, <2>2, <2>5, <2>6, <2>7
<1>7. Split!PlanKeepsOrder'
  BY <1>1 DEF Split!PlanKeepsOrder
<1> QED
  BY <1>3, <1>4, <1>5, <1>6, <1>7 DEF SplitInv

\* A step that runs nothing leaves the run as it is.
LEMMA NothingRun ==
  ASSUME SplitInv, UNCHANGED <<proposal, order, accepted, text, wrote, refusal, assembled>>,
         stage' \in Split!Stages, source' \in {"none", "model", "heuristic"},
         stage' \in {"valid", "running", "stopped", "done"} => Split!Valid /\ source' = "model",
         order # <<>> => stage' = stage,
         assembled # "none" => stage' = stage,
         Split!PlanKeepsOrder'
  PROVE  SplitInv'
<1>1. Split!TopoOrder' = Split!TopoOrder /\ Split!Valid' = Split!Valid /\ \A s : Split!Allowed(s)' = Split!Allowed(s)
  BY SameSplit
<1>2. Split!TypeOK'
  BY DEF SplitInv, Split!TypeOK
<1>3. SplitRuns'
  <2>1. order = <<>> => Len(order) = 0
    OBVIOUS
  <2>2. order = <<>> \/ stage' = stage
    OBVIOUS
  <2>3. \A k \in 1 .. 0 : FALSE
    OBVIOUS
  <2> QED
    BY <1>1, <2>1, <2>2, <2>3 DEF SplitInv, SplitRuns
<1>4. Built'
  BY <1>1 DEF SplitInv, Built, Split!Touched
<1>5. Split!AssembledIsWhole'
  BY DEF SplitInv, Split!AssembledIsWhole, Split!Touched
<1> QED
  BY <1>2, <1>3, <1>4, <1>5 DEF SplitInv

\* A step of a split keeps the invariant.
LEMMA SplitStep == SplitInv /\ [Split!Next]_splits => SplitInv'
<1> SUFFICES ASSUME SplitInv, [Split!Next]_splits PROVE SplitInv'
  OBVIOUS
<1>1. /\ stage \in Split!Stages /\ source \in {"none", "model", "heuristic"}
      /\ stage \in {"valid", "running", "stopped", "done"} => Split!Valid /\ source = "model"
      /\ order # <<>> => stage \in {"running", "stopped", "done"}
      /\ assembled # "none" => stage = "done"
      /\ Split!PlanKeepsOrder
  BY DEF SplitInv, SplitRuns, Split!TypeOK
<1>2. ASSUME stage' # "saved" PROVE Split!PlanKeepsOrder'
  BY <1>2 DEF Split!PlanKeepsOrder
<1>3. CASE Split!Propose
  <2>1. /\ stage = "proposed" /\ UNCHANGED <<proposal, order, accepted, text, wrote, refusal, assembled>>
        /\ \/ Split!Valid /\ stage' = "valid" /\ source' = "model"
           \/ stage' = "refused" /\ source' = "heuristic"
    BY <1>3, Zenon DEF Split!Propose, Split!FallbackToHeuristic
  <2>2. Split!PlanKeepsOrder'
    BY <1>2, <2>1
  <2> QED
    BY <1>1, <2>1, <2>2, NothingRun DEF Split!Stages
<1>4. CASE Split!PlanSmart
  <2>1. /\ stage = "proposed" /\ UNCHANGED <<proposal, order, accepted, text, wrote, refusal, assembled>>
        /\ stage' = "shown" /\ source' \in {"model", "heuristic"}
    BY <1>4 DEF Split!PlanSmart
  <2>2. Split!PlanKeepsOrder'
    BY <1>2, <2>1
  <2> QED
    BY <1>1, <2>1, <2>2, NothingRun DEF Split!Stages
<1>5. CASE Split!PlanHeuristic
  <2>1. PICK n \in 0 .. 3, root \in BOOLEAN, tdd \in BOOLEAN, max \in 1 .. 3 :
          /\ stage = "proposed" /\ stage' = "saved" /\ source' = "heuristic"
          /\ workers' = Split!BuildPlan([i \in 1 .. n |-> i], root, max, tdd)
          /\ UNCHANGED <<proposal, order, accepted, text, wrote, refusal, assembled>>
    BY <1>5, Zenon DEF Split!PlanHeuristic
  <2>2. PICK m \in Nat \ {0} :
            /\ DOMAIN workers' = 1 .. m
            /\ \A i \in 1 .. m :
                  /\ workers'[i].after = IF i > 1 THEN {i - 1} ELSE {}
                  /\ m > 1 => workers'[i].paths = {i}
    <3> DEFINE areas == [i \in 1 .. n |-> i]
               w == workers'
    <3>1. n \in Nat /\ areas = [i \in 1 .. n |-> i] /\ w = Split!BuildPlan(areas, root, max, tdd)
      BY <2>1
    <3> HIDE DEF areas, w
    <3>2. Chained(w)
      BY <3>1, BuildPlanIs, Zenon
    <3> QED
      BY <3>2 DEF w, Chained
  <2>3. Split!PlanKeepsOrder'
    <3>1. \A i \in 1 .. m : workers'[i].after \subseteq (1 .. m) \ {i}
      <4> SUFFICES ASSUME NEW i \in 1 .. m, NEW k \in workers'[i].after PROVE k \in 1 .. m /\ k # i
        OBVIOUS
      <4>1. i > 1 /\ k = i - 1
        BY <2>2
      <4> QED
        BY <4>1
    <3>2. \A i, j \in 1 .. m : i < j => workers'[i].paths \cap workers'[j].paths = {} /\ (i = j - 1 <=> i \in workers'[j].after)
      <4> SUFFICES ASSUME NEW i \in 1 .. m, NEW j \in 1 .. m, i < j
                   PROVE  workers'[i].paths \cap workers'[j].paths = {} /\ (i = j - 1 <=> i \in workers'[j].after)
        OBVIOUS
      <4>1. m > 1 /\ j > 1 /\ i # j
        OBVIOUS
      <4>2. workers'[i].paths = {i} /\ workers'[j].paths = {j} /\ workers'[j].after = {j - 1}
        BY <2>2, <4>1
      <4> QED
        BY <4>1, <4>2
    <3> QED
      BY <2>1, <2>2, <3>1, <3>2 DEF Split!PlanKeepsOrder
  <2> QED
    BY <1>1, <2>1, <2>3, NothingRun DEF Split!Stages
<1>6. CASE Split!StartRun
  <2>1. stage = "valid" /\ stage' = "running" /\ UNCHANGED <<proposal, source, order, accepted, text, wrote, refusal, assembled>>
    BY <1>6 DEF Split!StartRun
  <2>2. Split!PlanKeepsOrder'
    BY <1>2, <2>1
  <2> QED
    BY <1>1, <2>1, <2>2, NothingRun DEF Split!Stages
<1>7. CASE Split!Cancel
  <2>1. stage = "valid" /\ stage' = "refused" /\ UNCHANGED <<proposal, source, order, accepted, text, wrote, refusal, assembled>>
    BY <1>7 DEF Split!Cancel
  <2>2. Split!PlanKeepsOrder'
    BY <1>2, <2>1
  <2> QED
    BY <1>1, <2>1, <2>2, NothingRun DEF Split!Stages
<1>8. CASE Split!RunSubTask
  BY <1>8, RunSubTaskHolds
<1>9. CASE Split!Assemble
  BY <1>9, AssembleHolds
<1>10. CASE Split!Batch
  <2>1. /\ stage = "valid" /\ stage' = "saved" /\ workers' = Split!PlanFromDecomposition
        /\ UNCHANGED <<proposal, source, order, accepted, text, wrote, refusal, assembled>>
    BY <1>10 DEF Split!Batch
  <2>2. Split!Valid /\ source' = "model"
    BY <1>1, <2>1
  <2>3. /\ DOMAIN workers' = 1 .. Total
        /\ \A i \in 1 .. Total : workers'[i].after \subseteq (1 .. Total) \ {i}
        /\ \A i, j \in 1 .. Total : Subtasks[j] \in Split!Deps(Subtasks[i]) <=> j \in workers'[i].after
    BY <2>1, <2>2, SavedKeepsOrder
  <2>4. \A t : Split!Deps(t)' = Split!Deps(t)
    BY <2>1 DEF Split!Deps
  <2>5. Split!PlanKeepsOrder'
    BY <2>2, <2>3, <2>4 DEF Split!PlanKeepsOrder
  <2> QED
    BY <1>1, <2>1, <2>2, <2>5, NothingRun DEF Split!Stages
<1>11. CASE Split!Over \/ UNCHANGED splits
  <2>1. UNCHANGED <<proposal, stage, source, order, accepted, text, wrote, refusal, assembled, workers>>
    BY <1>11, Zenon DEF Split!Over, Split!decompositionVars, splits
  <2>2. Split!PlanKeepsOrder'
    BY <1>1, <2>1 DEF Split!PlanKeepsOrder, Split!Deps
  <2> QED
    BY <1>1, <2>1, <2>2, NothingRun
<1> QED
  BY <1>3, <1>4, <1>5, <1>6, <1>7, <1>8, <1>9, <1>10, <1>11, Zenon DEF Split!Next

\* A sub-task's dependencies are among those that ran before it.
LEMMA DependenciesHold == SplitInv => Split!DependenciesAccepted
<1> SUFFICES ASSUME SplitInv, NEW i \in DOMAIN order
             PROVE  Split!DependsOnAll(order[i]) \subseteq accepted /\ \A j \in 1 .. (i - 1) : order[j] \in accepted
  BY DEF Split!DependenciesAccepted
<1>1. order \in Seq(Split!Ids) /\ DOMAIN order = 1 .. Len(order) /\ Len(order) \in Nat /\ i \in 1 .. Len(order)
  BY DEF SplitInv, Split!TypeOK
<1>2. order # <<>>
  BY <1>1
<1>3. Split!Acyclic
  BY <1>2 DEF SplitInv, SplitRuns, Split!Valid
<1> DEFINE topo == Split!TopoOrder
           before == {order[k] : k \in 1 .. i - 1}
<1>4. Ordered(topo) /\ Len(topo) = Total /\ Len(order) <= Total /\ \A k \in 1 .. Len(order) : order[k] = topo[k]
  BY <1>3, TopoOrderIsOrdered DEF SplitInv, SplitRuns
<1> HIDE DEF topo
<1>5. \A k \in 1 .. i : \A d \in Split!Deps(order[k]) : \E j \in 1 .. k - 1 : order[j] = d
  <2> SUFFICES ASSUME NEW k \in 1 .. i, NEW d \in Split!Deps(order[k]) PROVE \E j \in 1 .. k - 1 : order[j] = d
    OBVIOUS
  <2>1. k \in 1 .. Len(topo) /\ order[k] = topo[k] /\ Total \in Nat
    BY <1>1, <1>4, IdsAre
  <2>2. PICK j \in 1 .. k - 1 : topo[j] = d
    BY <1>4, <2>1 DEF Ordered
  <2>3. j \in 1 .. Len(order)
    BY <1>1
  <2> QED
    BY <1>4, <2>2, <2>3
<1>6. \A k \in 1 .. i - 1 : k \in 1 .. Len(order) /\ k # Len(order) /\ k \in 1 .. i
  <2> DEFINE n == Len(order)
  <2>1. n \in Nat /\ i \in 1 .. n
    BY <1>1
  <2> HIDE DEF n
  <2>2. \A k \in 1 .. i - 1 : k \in 1 .. n /\ k # n /\ k \in 1 .. i
    BY <2>1
  <2> QED
    BY <2>2 DEF n
<1>7. \A k \in 1 .. i - 1 : order[k] \in accepted
  BY <1>6 DEF SplitInv, SplitRuns
<1>8. before \in SUBSET Split!Ids /\ order[i] \in Split!Ids
  <2>1. \A k \in 1 .. Len(order) : order[k] \in Split!Ids
    BY <1>1
  <2> QED
    BY <1>1, <1>6, <2>1
<1>9. Split!Deps(order[i]) \subseteq before
  <2>1. i \in 1 .. i
    BY <1>1
  <2> QED
    BY <1>5, <2>1
<1>10. \A x \in before : Split!Deps(x) \subseteq before
  <2> SUFFICES ASSUME NEW k \in 1 .. i - 1, NEW d \in Split!Deps(order[k]) PROVE d \in before
    OBVIOUS
  <2>1. PICK j \in 1 .. k - 1 : order[j] = d
    BY <1>5, <1>6
  <2>2. j \in 1 .. i - 1
    BY <1>1
  <2> QED
    BY <2>1, <2>2
<1> HIDE DEF before
<1>11. Split!DependsOnAll(order[i]) \subseteq before
  BY <1>8, <1>9, <1>10, BehindIsLeast
<1> QED
  BY <1>7, <1>11 DEF before

LEMMA VerifiedHolds == SplitInv => Split!AcceptedIsVerified
<1> SUFFICES ASSUME SplitInv PROVE Split!AcceptedIsVerified
  OBVIOUS
<1>1. order \in Seq(Split!Ids) /\ DOMAIN order = 1 .. Len(order)
  BY DEF SplitInv, Split!TypeOK
<1>2. order # <<>> => source = "model" /\ proposal.kind # "neither"
  BY DEF SplitInv, SplitRuns, Split!Valid, Split!Verifiable
<1>3. \A i \in DOMAIN order : i \in 1 .. i
  BY <1>1
<1>4. \A i \in 1 .. Len(order) : order[i] \in accepted =>
          proposal.kind # "deliverables" /\ \A j \in 1 .. i : wrote[order[j]] \subseteq Split!Allowed(order[i])
  BY DEF SplitInv, Built
<1> QED
  BY <1>1, <1>2, <1>3, <1>4 DEF Split!AcceptedIsVerified

\* A sub-task runs after everything it depends on was accepted, what is accepted
\* keeps to its paths with all it was built on, what ended well is whole, and a saved
\* plan waits in no circle: for every acyclic split into any number of sub-tasks.
THEOREM SplitsAreSound == PartsSpec => []DecompositionSound
<1>1. PartsInit => SplitInv
  BY SplitBegins DEF PartsInit
<1>2. SplitInv /\ [PartsNext]_parts => SplitInv'
  <2>1. [PartsNext]_parts => [Split!Next]_splits
    <3>1. CASE PartsNext
      BY <3>1, Zenon DEF PartsNext, Takes
    <3>2. CASE UNCHANGED parts
      BY <3>2, Zenon DEF parts
    <3> QED
      BY <3>1, <3>2
  <2> QED
    BY <2>1, SplitStep
<1>3. SplitInv => DecompositionSound
  BY DependenciesHold, VerifiedHolds DEF SplitInv, DecompositionSound, Split!DecompositionSound
<1> QED
  BY <1>1, <1>2, <1>3, PTL DEF PartsSpec

-----------------------------------------------------------------------------
(* The conversation (ContextStages)                                        *)

Bodies  == {"full", "folded", "summary"} \cup Stages!Stubs
Entries == [ids : SUBSET Nat, body : Bodies]

\* What a call's entry says of the log: that the call came again, that it came again
\* and passed, that it came again and failed as before, that something was written.
CameAgain(k)   == \E j \in k + 1 .. Len(log) : log[j].tool = log[k].tool /\ log[j].arg = log[k].arg
PassedLater(k) ==
    \E j \in k + 1 .. Len(log) : log[j].tool = log[k].tool /\ log[j].arg = log[k].arg /\ log[j].fails = "no"
FailsAgain(k)  ==
    \E j \in k + 1 .. Len(log) :
        log[j].tool = log[k].tool /\ log[j].arg = log[k].arg /\ log[j].fails = log[k].fails
WasWritten     == \E j \in 1 .. Len(log) : log[j].tool = "write"

\* A body is one that the call of an entry can have, and what it says is so.
Tells(k, body) ==
    /\ body \in {"written", "reread"} => log[k].tool = "read"
    /\ body = "resought" => log[k].tool = "search"
    /\ body \in {"fixed", "clustered"} => log[k].tool = "run"
    /\ body \in {"snipped", "folded"} => log[k].tool \in Stages!Explores
    /\ body \in {"reread", "resought"} => CameAgain(k)
    /\ body = "fixed" => PassedLater(k)
    /\ body = "clustered" => FailsAgain(k)
    /\ body = "written" => WasWritten

EntryHolds(e) ==
    /\ e \in Entries /\ e.ids # {} /\ e.ids \subseteq 1 .. Len(log)
    /\ e.body \notin {"folded", "summary"} => \E k \in e.ids : e.ids = {k}
    /\ \A k \in e.ids : Tells(k, e.body)

\* A history that keeps the log: entry by entry, all of it, in its order.
Kept(h) ==
    /\ h \in Seq(Entries) /\ \A i \in 1 .. Len(h) : EntryHolds(h[i])
    /\ \A k \in 1 .. Len(log) : \E i \in 1 .. Len(h) : k \in h[i].ids
    /\ \A i, j \in 1 .. Len(h) : i < j => \A k \in h[i].ids, l \in h[j].ids : k < l

ConversationInv == log \in Seq(Made) /\ Kept(hist)

LEMMA IdIs ==
    ASSUME NEW e, NEW k, e.ids = {k}
    PROVE  Stages!Id(e) = k
BY DEF Stages!Id

\* An entry of a call stands for it alone.
LEMMA CallIs ==
    ASSUME NEW e, EntryHolds(e), NEW tools, Stages!IsCall(e, tools)
    PROVE  /\ e.ids = {Stages!Id(e)} /\ Stages!Id(e) \in 1 .. Len(log)
           /\ log[Stages!Id(e)].tool \in tools /\ e.body \in {"full"} \cup Stages!Stubs
           /\ Tells(Stages!Id(e), e.body)
<1>1. e.body \in {"full"} \cup Stages!Stubs /\ log[Stages!Id(e)].tool \in tools
  BY DEF Stages!IsCall
<1>2. PICK k \in e.ids : e.ids = {k}
  BY <1>1 DEF EntryHolds, Stages!Stubs
<1>3. Stages!Id(e) = k
  BY <1>2, IdIs
<1> QED
  BY <1>1, <1>2, <1>3 DEF EntryHolds

\* Two calls of a history were made in its order.
LEMMA CallsInOrder ==
    ASSUME NEW h, Kept(h), NEW i \in 1 .. Len(h), NEW j \in i + 1 .. Len(h), NEW t, NEW u,
           Stages!IsCall(h[i], t), Stages!IsCall(h[j], u)
    PROVE  Stages!Id(h[j]) \in Stages!Id(h[i]) + 1 .. Len(log)
<1>1. Len(h) \in Nat /\ j \in 1 .. Len(h) /\ i < j
  BY DEF Kept
<1>2. EntryHolds(h[i]) /\ EntryHolds(h[j])
  BY <1>1 DEF Kept
<1>3. /\ Stages!Id(h[i]) \in h[i].ids /\ Stages!Id(h[j]) \in h[j].ids
      /\ Stages!Id(h[i]) \in 1 .. Len(log) /\ Stages!Id(h[j]) \in 1 .. Len(log)
  BY <1>2, CallIs
<1>4. Stages!Id(h[i]) < Stages!Id(h[j])
  BY <1>1, <1>3 DEF Kept
<1> QED
  BY <1>3, <1>4

\* A stub takes the place of an entry, or not.
LEMMA StubHolds ==
    ASSUME NEW e, EntryHolds(e), NEW body \in Stages!Stubs, NEW tools, Stages!IsCall(e, tools),
           Tells(Stages!Id(e), body)
    PROVE  /\ EntryHolds(Stages!Stubbed(e, body)) /\ Stages!Stubbed(e, body).ids = e.ids
           /\ Stages!Stubbed(e, body) \in {e, [e EXCEPT !.body = body]}
<1>1. Stages!Stubbed(e, body) \in {e, [e EXCEPT !.body = body]}
  BY Zenon DEF Stages!Stubbed
<1> DEFINE d == [e EXCEPT !.body = body]
<1>2. e \in Entries
  BY DEF EntryHolds
<1>3. d \in Entries /\ d.ids = e.ids /\ d.body = body
  BY <1>2 DEF Entries, Bodies
<1>4. e.ids = {Stages!Id(e)}
  BY CallIs
<1> HIDE DEF d
<1>5. EntryHolds(d)
  <2>1. d.ids # {} /\ d.ids \subseteq 1 .. Len(log)
    BY <1>3, Zenon DEF EntryHolds
  <2>2. \E k \in d.ids : d.ids = {k}
    BY <1>3, <1>4
  <2>3. \A k \in d.ids : Tells(k, d.body)
    BY <1>3, <1>4
  <2> QED
    BY <1>3, <2>1, <2>2, <2>3, Zenon DEF EntryHolds
<1> QED
  BY <1>1, <1>3, <1>5 DEF d

\* A pass that only stubs.
Stubs(h, g) ==
    /\ g \in Seq(Entries) /\ Len(g) = Len(h)
    /\ \A i \in 1 .. Len(h) : EntryHolds(g[i]) /\ g[i].ids = h[i].ids

LEMMA StubsKeep ==
    ASSUME NEW h, NEW g, Kept(h), Stubs(h, g)
    PROVE  Kept(g)
BY DEF Kept, Stubs

\* A run's entry is in full or a stub that reports a failure.
LEMMA RunIs ==
    ASSUME NEW e, EntryHolds(e), Stages!IsCall(e, {"run"})
    PROVE  /\ e.body \in {"full", "fixed", "clustered"}
           /\ Stages!Failed(e) <=> (e.body # "full" \/ log[Stages!Id(e)].fails # "no")
<1>1. e.body \in {"full"} \cup Stages!Stubs /\ log[Stages!Id(e)].tool = "run" /\ Tells(Stages!Id(e), e.body)
  BY CallIs
<1>2. e.body \in {"full", "fixed", "clustered"}
  BY <1>1 DEF Tells, Stages!Stubs, Stages!Explores
<1> QED
  BY <1>2 DEF Stages!Failed

(* Supersede.                                                              *)
Superseded(h, s, i) ==
    CASE Stages!IsCall(h[i], {"read"}) /\ i # Stages!LastError(h) /\ Stages!Written(h, i)
           -> Stages!Stubbed(h[i], "written")
      [] Stages!IsCall(h[i], {"read"}) /\ i # Stages!LastError(h) /\ ~Stages!Written(h, i) /\ Stages!AgainBefore(h, i, s)
           -> Stages!Stubbed(h[i], "reread")
      [] Stages!IsCall(h[i], {"search"}) /\ i # Stages!LastError(h) /\ Stages!AgainBefore(h, i, s)
           -> Stages!Stubbed(h[i], "resought")
      [] Stages!IsCall(h[i], {"run"}) /\ Stages!Failed(h[i]) /\ Stages!Fixed(h, i) -> Stages!Stubbed(h[i], "fixed")
      [] OTHER -> h[i]

\* What each stub stands on.
LEMMA WrittenIs ==
    ASSUME NEW h, Kept(h), NEW i \in 1 .. Len(h), Stages!IsCall(h[i], {"read"}), Stages!Written(h, i)
    PROVE  Tells(Stages!Id(h[i]), "written")
<1>1. log[Stages!Id(h[i])].tool = "read"
  BY DEF Stages!IsCall
<1>2. WasWritten
  <2>1. CASE Stages!InTracker(Stages!Arg(h[i]))
    BY <2>1 DEF Stages!InTracker, WasWritten
  <2>2. CASE \E j \in i + 1 .. Len(h) : Stages!IsCall(h[j], {"write"}) /\ Stages!Arg(h[j]) = Stages!Arg(h[i])
    <3>1. PICK j \in i + 1 .. Len(h) : Stages!IsCall(h[j], {"write"})
      BY <2>2
    <3>2. j \in 1 .. Len(h)
      BY DEF Kept
    <3>3. EntryHolds(h[j])
      BY <3>2 DEF Kept
    <3> QED
      BY <3>1, <3>3, CallIs DEF WasWritten
  <2> QED
    BY <2>1, <2>2 DEF Stages!Written
<1> QED
  BY <1>1, <1>2 DEF Tells

LEMMA AgainIs ==
    ASSUME NEW h, Kept(h), NEW i \in 1 .. Len(h), NEW s, s \in 1 .. Len(h) + 1, NEW t, Stages!IsCall(h[i], {t}),
           Stages!AgainBefore(h, i, s)
    PROVE  CameAgain(Stages!Id(h[i]))
<1>1. PICK j \in i + 1 .. s - 1 : /\ Stages!IsCall(h[j], {log[Stages!Id(h[i])].tool})
                                  /\ Stages!Arg(h[j]) = Stages!Arg(h[i])
  BY DEF Stages!AgainBefore
<1>2. j \in i + 1 .. Len(h)
  BY DEF Kept
<1>3. Stages!Id(h[j]) \in Stages!Id(h[i]) + 1 .. Len(log)
  BY <1>1, <1>2, CallsInOrder
<1>4. log[Stages!Id(h[j])].tool = log[Stages!Id(h[i])].tool
  BY <1>1 DEF Stages!IsCall
<1> QED
  BY <1>1, <1>3, <1>4 DEF CameAgain, Stages!Arg

LEMMA FixedIs ==
    ASSUME NEW h, Kept(h), NEW i \in 1 .. Len(h), Stages!IsCall(h[i], {"run"}), Stages!Fixed(h, i)
    PROVE  Tells(Stages!Id(h[i]), "fixed")
<1>1. PICK j \in i + 1 .. Len(h) :
        Stages!IsCall(h[j], {"run"}) /\ Stages!Arg(h[j]) = Stages!Arg(h[i]) /\ ~Stages!Failed(h[j])
  BY DEF Stages!Fixed
<1>2. j \in 1 .. Len(h)
  BY DEF Kept
<1>3. EntryHolds(h[j])
  BY <1>2 DEF Kept
<1>4. log[Stages!Id(h[j])].fails = "no"
  BY <1>1, <1>3, RunIs
<1>5. log[Stages!Id(h[i])].tool = "run" /\ log[Stages!Id(h[j])].tool = "run"
  BY <1>1 DEF Stages!IsCall
<1>6. Stages!Id(h[j]) \in Stages!Id(h[i]) + 1 .. Len(log)
  BY <1>1, CallsInOrder
<1>7. PassedLater(Stages!Id(h[i]))
  BY <1>1, <1>4, <1>5, <1>6 DEF PassedLater, Stages!Arg
<1> QED
  BY <1>5, <1>7 DEF Tells

LEMMA SupersededHolds ==
    ASSUME NEW h, Kept(h), NEW s \in 1 .. Len(h) + 1, NEW i \in 1 .. Len(h)
    PROVE  EntryHolds(Superseded(h, s, i)) /\ Superseded(h, s, i).ids = h[i].ids
<1>0. EntryHolds(h[i])
  BY DEF Kept
<1>1. CASE Stages!IsCall(h[i], {"read"}) /\ i # Stages!LastError(h) /\ Stages!Written(h, i)
  <2>1. Superseded(h, s, i) = Stages!Stubbed(h[i], "written")
    BY <1>1 DEF Superseded, Stages!IsCall
  <2> QED
    BY <1>0, <1>1, <2>1, WrittenIs, StubHolds DEF Stages!Stubs
<1>2. CASE Stages!IsCall(h[i], {"read"}) /\ i # Stages!LastError(h) /\ ~Stages!Written(h, i) /\ Stages!AgainBefore(h, i, s)
  <2>1. Superseded(h, s, i) = Stages!Stubbed(h[i], "reread")
    BY <1>2 DEF Superseded, Stages!IsCall
  <2>2. Tells(Stages!Id(h[i]), "reread")
    BY <1>2, AgainIs DEF Tells, Stages!IsCall
  <2> QED
    BY <1>0, <1>2, <2>1, <2>2, StubHolds DEF Stages!Stubs
<1>3. CASE Stages!IsCall(h[i], {"search"}) /\ i # Stages!LastError(h) /\ Stages!AgainBefore(h, i, s)
  <2>1. Superseded(h, s, i) = Stages!Stubbed(h[i], "resought")
    BY <1>3 DEF Superseded, Stages!IsCall
  <2>2. Tells(Stages!Id(h[i]), "resought")
    BY <1>3, AgainIs DEF Tells, Stages!IsCall
  <2> QED
    BY <1>0, <1>3, <2>1, <2>2, StubHolds DEF Stages!Stubs
<1>4. CASE Stages!IsCall(h[i], {"run"}) /\ Stages!Failed(h[i]) /\ Stages!Fixed(h, i)
  <2>1. Superseded(h, s, i) = Stages!Stubbed(h[i], "fixed")
    BY <1>4 DEF Superseded, Stages!IsCall
  <2> QED
    BY <1>0, <1>4, <2>1, FixedIs, StubHolds DEF Stages!Stubs
<1> QED
  BY <1>0, <1>1, <1>2, <1>3, <1>4, Zenon DEF Superseded

LEMMA SupersedeStubs ==
    ASSUME NEW h, Kept(h), NEW s \in 1 .. Len(h) + 1
    PROVE  /\ Stubs(h, Stages!Supersede(h, s))
           /\ \A i \in 1 .. Len(h) : Stages!Supersede(h, s)[i] = IF i < s THEN Superseded(h, s, i) ELSE h[i]
<1> DEFINE g == Stages!Supersede(h, s)
<1>1. g = [i \in 1 .. Len(h) |-> IF i < s THEN Superseded(h, s, i) ELSE h[i]]
  BY Zenon DEF Stages!Supersede, Superseded
<1> HIDE DEF g
<1>2. \A i \in 1 .. Len(h) : g[i] = IF i < s THEN Superseded(h, s, i) ELSE h[i]
  BY <1>1
<1>3. \A i \in 1 .. Len(h) : EntryHolds(g[i]) /\ g[i].ids = h[i].ids
  BY <1>2, SupersededHolds DEF Kept
<1>4. \A i \in 1 .. Len(h) : g[i] \in Entries
  BY <1>3 DEF EntryHolds
<1>5. g \in Seq(Entries) /\ Len(g) = Len(h)
  BY <1>1, <1>4 DEF Kept
<1> QED
  BY <1>2, <1>3, <1>5 DEF Stubs, g

(* Lengths of entries.                                                     *)
StubSize(body) ==
    IF body \in {"reread", "resought", "fixed"} THEN 3 ELSE IF body \in {"written", "clustered"} THEN 4 ELSE 5

LEMMA LengthIs ==
    ASSUME NEW e \in Entries
    PROVE  /\ e.body \in Stages!Stubs \cup {"folded"} => Stages!Length(e) = StubSize(e.body)
           /\ Stages!Length(e) \in 1 .. 9
           /\ e.body = "full" => Stages!Length(e) \in {1, 9}
<1>1. e.body \in Bodies
  BY DEF Entries
<1> QED
  BY <1>1 DEF Stages!Length, StubSize, Bodies, Stages!Stubs

LEMMA StubIs ==
    ASSUME NEW e \in Entries, NEW body \in Stages!Stubs
    PROVE  /\ Stages!Stubbed(e, body) = IF StubSize(body) < Stages!Length(e) THEN [e EXCEPT !.body = body] ELSE e
           /\ Stages!Stubbed(e, body).ids = e.ids
           /\ Stages!Stubbed(e, body) \in Entries
           /\ Stages!Length(Stages!Stubbed(e, body)) <= Stages!Length(e)
<1> DEFINE d == [e EXCEPT !.body = body]
<1>1. d \in Entries /\ d.body = body /\ d.ids = e.ids
  BY DEF Entries, Bodies
<1>2. Stages!Stubbed(e, body) = IF Stages!Length(d) < Stages!Length(e) THEN d ELSE e
  BY Zenon DEF Stages!Stubbed
<1> HIDE DEF d
<1>3. Stages!Length(d) = StubSize(body)
  BY <1>1, LengthIs
<1>4. Stages!Length(d) \in Int /\ Stages!Length(e) \in Int
  BY <1>1, LengthIs
<1> QED
  BY <1>1, <1>2, <1>3, <1>4 DEF d

(* Cluster, snip and summary.                                              *)
Clusters(h, s, i) ==
    /\ i < s /\ i # Stages!LastError(h) /\ Stages!IsCall(h[i], {"run"}) /\ Stages!Failed(h[i])
    /\ Stages!Later(h, i, s)

\* What a run is grouped by, of one in full and of a stub.
LEMMA SignatureIs ==
    ASSUME log \in Seq(Made), NEW d, EntryHolds(d), Stages!IsCall(d, {"run"}), d.body = "full",
           NEW e, EntryHolds(e), Stages!IsCall(e, {"run"}), Stages!Signature(e) = Stages!Signature(d)
    PROVE  /\ e.body = "full" /\ log[Stages!Id(e)].fails = log[Stages!Id(d)].fails
           /\ Stages!Arg(e) = Stages!Arg(d)
<1>1. log[Stages!Id(d)] \in Made
  BY CallIs
<1>2. log[Stages!Id(d)].fails \notin Stages!Stubs
  BY <1>1, ConversationAssumption
<1>3. e.body \in {"full"} \cup Stages!Stubs
  BY CallIs
<1>4. /\ Stages!Arg(e) = Stages!Arg(d)
      /\ (IF e.body = "full" THEN log[Stages!Id(e)].fails ELSE e.body) = log[Stages!Id(d)].fails
  BY DEF Stages!Signature
<1> QED
  BY <1>2, <1>3, <1>4

LEMMA ClusteredHolds ==
    ASSUME log \in Seq(Made), NEW h, Kept(h), NEW s \in 1 .. Len(h) + 1, NEW i \in 1 .. Len(h), Clusters(h, s, i)
    PROVE  /\ EntryHolds(Stages!Stubbed(h[i], "clustered"))
           /\ Stages!Stubbed(h[i], "clustered").ids = h[i].ids
<1>0. EntryHolds(h[i]) /\ h[i] \in Entries /\ "clustered" \in Stages!Stubs
  BY DEF Kept, EntryHolds, Stages!Stubs
<1>1. h[i].body \in {"full", "fixed", "clustered"} /\ Stages!IsCall(h[i], {"run"})
  BY <1>0, RunIs DEF Clusters
<1>2. CASE h[i].body # "full"
  <2>1. Stages!Length(h[i]) <= 4
    BY <1>0, <1>1, <1>2, LengthIs DEF StubSize, Stages!Stubs
  <2>2. Stages!Stubbed(h[i], "clustered") = h[i]
    BY <1>0, <2>1, StubIs, LengthIs DEF StubSize
  <2> QED
    BY <1>0, <2>2
<1>3. CASE h[i].body = "full"
  <2>1. PICK j \in i + 1 .. s - 1 : /\ Stages!IsCall(h[j], {"run"}) /\ Stages!Failed(h[j])
                                    /\ Stages!Signature(h[j]) = Stages!Signature(h[i])
    BY DEF Clusters, Stages!Later
  <2>2. j \in i + 1 .. Len(h) /\ j \in 1 .. Len(h)
    BY DEF Kept
  <2>3. EntryHolds(h[j])
    BY <2>2 DEF Kept
  <2>4. log[Stages!Id(h[j])].fails = log[Stages!Id(h[i])].fails /\ Stages!Arg(h[j]) = Stages!Arg(h[i])
    BY <1>0, <1>1, <1>3, <2>1, <2>3, SignatureIs
  <2>5. Stages!Id(h[j]) \in Stages!Id(h[i]) + 1 .. Len(log)
    BY <1>1, <2>1, <2>2, CallsInOrder
  <2>6. log[Stages!Id(h[i])].tool = "run" /\ log[Stages!Id(h[j])].tool = "run"
    BY <1>1, <2>1 DEF Stages!IsCall
  <2>7. Tells(Stages!Id(h[i]), "clustered")
    BY <2>4, <2>5, <2>6 DEF Tells, FailsAgain, Stages!Arg
  <2> QED
    BY <1>0, <1>1, <2>7, StubHolds
<1> QED
  BY <1>2, <1>3

LEMMA ClusterStubs ==
    ASSUME log \in Seq(Made), NEW h, Kept(h), NEW s \in 1 .. Len(h) + 1
    PROVE  /\ Stubs(h, Stages!Cluster(h, s))
           /\ \A i \in 1 .. Len(h) :
                Stages!Cluster(h, s)[i] = IF Clusters(h, s, i) THEN Stages!Stubbed(h[i], "clustered") ELSE h[i]
<1> DEFINE g == Stages!Cluster(h, s)
<1>1. g = [i \in 1 .. Len(h) |-> IF Clusters(h, s, i) THEN Stages!Stubbed(h[i], "clustered") ELSE h[i]]
  BY Zenon DEF Stages!Cluster, Clusters
<1> HIDE DEF g
<1>2. \A i \in 1 .. Len(h) : g[i] = IF Clusters(h, s, i) THEN Stages!Stubbed(h[i], "clustered") ELSE h[i]
  BY <1>1
<1>3. \A i \in 1 .. Len(h) : EntryHolds(g[i]) /\ g[i].ids = h[i].ids
  BY <1>2, ClusteredHolds DEF Kept
<1>4. \A i \in 1 .. Len(h) : g[i] \in Entries
  BY <1>3 DEF EntryHolds
<1>5. g \in Seq(Entries) /\ Len(g) = Len(h)
  BY <1>1, <1>4 DEF Kept
<1> QED
  BY <1>2, <1>3, <1>5 DEF Stubs, g

LEMMA SnipStubs ==
    ASSUME NEW h, Kept(h), NEW s \in 1 .. Len(h) + 1
    PROVE  Stubs(h, Stages!Snip(h, s))
<1> DEFINE g == Stages!Snip(h, s)
           Snips(i) == i < s /\ i # Stages!LastError(h) /\ Stages!IsCall(h[i], Stages!Explores)
<1>1. g = [i \in 1 .. Len(h) |-> IF Snips(i) THEN Stages!Stubbed(h[i], "snipped") ELSE h[i]]
  BY Zenon DEF Stages!Snip
<1> HIDE DEF g
<1>2. \A i \in 1 .. Len(h) : g[i] = IF Snips(i) THEN Stages!Stubbed(h[i], "snipped") ELSE h[i]
  BY <1>1
<1>3. ASSUME NEW i \in 1 .. Len(h) PROVE EntryHolds(g[i]) /\ g[i].ids = h[i].ids
  <2>1. EntryHolds(h[i])
    BY DEF Kept
  <2>2. CASE Snips(i)
    <3>1. Tells(Stages!Id(h[i]), "snipped")
      BY <2>2 DEF Tells, Stages!IsCall
    <3>2. "snipped" \in Stages!Stubs
      BY DEF Stages!Stubs
    <3> QED
      BY <1>2, <2>1, <2>2, <3>1, <3>2, StubHolds
  <2>3. CASE ~Snips(i)
    BY <1>2, <2>1, <2>3
  <2> QED
    BY <2>2, <2>3
<1>4. \A i \in 1 .. Len(h) : g[i] \in Entries
  BY <1>3 DEF EntryHolds
<1>5. g \in Seq(Entries) /\ Len(g) = Len(h)
  BY <1>1, <1>4 DEF Kept
<1> QED
  BY <1>3, <1>5 DEF Stubs, g

LEMMA ConsIs ==
    ASSUME NEW T, NEW x \in T, NEW r \in Seq(T), NEW g, g = <<x>> \o r
    PROVE  /\ g \in Seq(T) /\ Len(g) = Len(r) + 1 /\ g[1] = x
           /\ \A i \in 2 .. Len(r) + 1 : g[i] = r[i - 1]
OBVIOUS

\* A summary stands for all that came before the tail.
LEMMA SummaryKeeps ==
    ASSUME NEW h, Kept(h), NEW s \in 2 .. Len(h) + 1
    PROVE  Kept(Stages!Summary(h, s))
<1> DEFINE ids == UNION {h[i].ids : i \in 1 .. s - 1}
           e == [ids |-> ids, body |-> "summary"]
           g == Stages!Summary(h, s)
           n == Len(h)
<1>0. h \in Seq(Entries) /\ n \in Nat
  BY DEF Kept
<1>1. \A i \in 1 .. n : h[i].ids # {} /\ h[i].ids \subseteq 1 .. Len(log) /\ h[i] \in Entries
  BY DEF Kept, EntryHolds
<1>2. EntryHolds(e)
  <2>1. ids \subseteq 1 .. Len(log)
    BY <1>0, <1>1
  <2>2. ids # {}
    <3>1. 1 \in 1 .. s - 1 /\ 1 \in 1 .. n
      BY <1>0
    <3>2. h[1].ids \subseteq ids /\ h[1].ids # {}
      BY <1>1, <3>1
    <3> QED
      BY <3>2
  <2> HIDE DEF ids
  <2>3. e \in Entries /\ e.ids = ids /\ e.body = "summary"
    BY <2>1 DEF Entries, Bodies
  <2>4. \A k : Tells(k, "summary")
    BY DEF Tells
  <2> HIDE DEF e
  <2> QED
    BY <2>1, <2>2, <2>3, <2>4 DEF EntryHolds
<1>3. g = <<e>> \o SubSeq(h, s, n)
  BY Zenon DEF Stages!Summary
<1>4. SubSeq(h, s, n) \in Seq(Entries) /\ Len(SubSeq(h, s, n)) = n - s + 1
      /\ \A i \in 1 .. n - s + 1 : SubSeq(h, s, n)[i] = h[s + i - 1]
  BY <1>0
<1>5. e \in Entries /\ e.ids = ids
  BY <1>2 DEF EntryHolds
<1> HIDE DEF e, g
<1>6. g \in Seq(Entries) /\ Len(g) = n - s + 2 /\ g[1] = e /\ \A i \in 2 .. n - s + 2 : g[i] = h[s + i - 2]
  <2> DEFINE r == SubSeq(h, s, n)
  <2>1. r \in Seq(Entries) /\ Len(r) = n - s + 1 /\ \A i \in 1 .. n - s + 1 : r[i] = h[s + i - 1]
    BY <1>4
  <2> HIDE DEF r
  <2>2. g = <<e>> \o r
    BY <1>3 DEF r
  <2>3. g \in Seq(Entries) /\ Len(g) = n - s + 2 /\ g[1] = e /\ \A i \in 2 .. n - s + 2 : g[i] = r[i - 1]
    <3>1. g \in Seq(Entries) /\ Len(g) = Len(r) + 1 /\ g[1] = e /\ \A i \in 2 .. Len(r) + 1 : g[i] = r[i - 1]
      <4>1. e \in Entries /\ r \in Seq(Entries) /\ g = <<e>> \o r
        BY <1>5, <2>1, <2>2
      <4> QED
        BY ONLY <4>1, ConsIs
    <3>2. Len(r) + 1 = n - s + 2
      BY <1>0, <2>1
    <3> QED
      BY <3>1, <3>2, Zenon
  <2>4. ASSUME NEW i \in 2 .. n - s + 2 PROVE g[i] = h[s + i - 2]
    <3>1. n \in Nat /\ s \in Nat /\ i \in Nat
      BY <1>0
    <3>2. i - 1 \in 1 .. n - s + 1 /\ s + (i - 1) - 1 = s + i - 2
      BY <3>1
    <3>3. r[i - 1] = h[s + (i - 1) - 1]
      BY <2>1, <3>2, Zenon
    <3> QED
      BY <2>3, <3>2, <3>3
  <2> QED
    BY <2>3, <2>4, Zenon
<1>7. \A i \in 1 .. Len(g) : EntryHolds(g[i])
  <2>1. \A i \in 2 .. n - s + 2 : s + i - 2 \in 1 .. n
    BY <1>0
  <2>2. \A i \in 1 .. n : EntryHolds(h[i])
    BY DEF Kept
  <2> QED
    BY <1>0, <1>2, <1>6, <2>1, <2>2
<1>8. ASSUME NEW k \in 1 .. Len(log) PROVE \E i \in 1 .. Len(g) : k \in g[i].ids
  <2>1. PICK i \in 1 .. n : k \in h[i].ids
    BY DEF Kept
  <2>2. CASE i < s
    <3>1. k \in ids /\ 1 \in 1 .. Len(g)
      BY <1>0, <1>6, <2>1, <2>2
    <3> QED
      BY <1>5, <1>6, <3>1
  <2>3. CASE ~(i < s)
    <3>1. i - s + 2 \in 2 .. n - s + 2 /\ s + (i - s + 2) - 2 = i /\ i - s + 2 \in 1 .. Len(g)
      BY <1>0, <1>6, <2>3
    <3> QED
      BY <1>6, <2>1, <3>1
  <2> QED
    BY <2>2, <2>3
<1>9. ASSUME NEW i \in 1 .. Len(g), NEW j \in 1 .. Len(g), i < j, NEW k \in g[i].ids, NEW l \in g[j].ids PROVE k < l
  <2>1. j \in 2 .. n - s + 2 /\ g[j] = h[s + j - 2] /\ s + j - 2 \in s .. n
    <3>1. j \in 2 .. n - s + 2
      BY <1>0, <1>6, <1>9
    <3>2. s + j - 2 \in s .. n
      BY <1>0, <3>1
    <3> QED
      BY <1>6, <3>1, <3>2, Zenon
  <2>2. PICK a \in 1 .. n : k \in h[a].ids /\ a < s + j - 2
    <3>1. CASE i = 1
      <4>1. PICK a \in 1 .. s - 1 : k \in h[a].ids
        BY <1>5, <1>6, <1>9, <3>1
      <4>2. a \in 1 .. n /\ a < s + j - 2
        BY <1>0, <2>1, <4>1
      <4> QED
        BY <4>1, <4>2
    <3>2. CASE i # 1
      <4>1. i \in 2 .. n - s + 2 /\ s + i - 2 \in 1 .. n /\ s + i - 2 < s + j - 2
        BY <1>0, <1>6, <1>9, <2>1, <3>2
      <4>2. k \in h[s + i - 2].ids
        BY <1>6, <1>9, <4>1
      <4> QED
        BY <4>1, <4>2
    <3> QED
      BY <3>1, <3>2
  <2>3. s + j - 2 \in 1 .. n /\ l \in h[s + j - 2].ids
    BY <1>0, <1>9, <2>1
  <2> QED
    BY <2>2, <2>3 DEF Kept
<1> QED
  BY <1>6, <1>7, <1>8, <1>9 DEF Kept, g

(* Collapse.                                                               *)
\* A list built from its end: of each place before s a head and the list of a later place.
Downward(n, s, m, head, nx, base, f) ==
    /\ \A i \in s .. n + 1 : f[i] = base[i]
    /\ \A i \in m .. s - 1 : f[i] = <<head[i]>> \o f[nx[i]]

LEMMA DownwardExists ==
    ASSUME NEW n \in Nat, NEW s \in 1 .. n + 1, NEW T, NEW head \in [1 .. s - 1 -> T],
           NEW nx \in [1 .. s - 1 -> 1 .. n + 1], \A i \in 1 .. s - 1 : i < nx[i],
           NEW base \in [s .. n + 1 -> Seq(T)]
    PROVE  \E f \in [1 .. n + 1 -> Seq(T)] : Downward(n, s, 1, head, nx, base, f)
<1> DEFINE BuiltTo(m) == \E f \in [m .. n + 1 -> Seq(T)] : Downward(n, s, m, head, nx, base, f)
<1> SUFFICES ASSUME ~BuiltTo(1) PROVE FALSE
  OBVIOUS
<1> DEFINE S == {d \in 0 .. s - 1 : ~BuiltTo(s - d)}
<1>1. S \in SUBSET Nat /\ s - 1 \in S
  <2>1. s - (s - 1) = 1 /\ s - 1 \in 0 .. s - 1 /\ s \in Nat
    OBVIOUS
  <2> HIDE DEF BuiltTo
  <2>2. ~BuiltTo(s - (s - 1))
    BY <2>1, Zenon
  <2> QED
    BY <2>1, <2>2
<1>2. PICK d \in S : \A j \in S : d <= j
  <2> HIDE DEF S
  <2> QED
    BY <1>1, LeastOf
<1>3. CASE d = 0
  <2>1. Downward(n, s, s, head, nx, base, base)
    BY DEF Downward
  <2>2. BuiltTo(s - 0)
    BY <2>1
  <2> QED
    BY <1>2, <1>3, <2>2
<1>4. CASE d # 0
  <2>1. d \in 1 .. s - 1 /\ d - 1 \in 0 .. s - 1 /\ ~(d <= d - 1)
    BY <1>2, <1>4
  <2> DEFINE m == s - d
  <2>2. m \in 1 .. s - 1 /\ s - (d - 1) = m + 1
    BY <2>1
  <2>3. BuiltTo(m + 1)
    BY <1>2, <2>1, <2>2
  <2>4. PICK f \in [m + 1 .. n + 1 -> Seq(T)] : Downward(n, s, m + 1, head, nx, base, f)
    BY <2>3
  <2>5. ~BuiltTo(m)
    BY <1>2
  <2> HIDE DEF m, BuiltTo
  <2>6. nx[m] \in m + 1 .. n + 1 /\ head[m] \in T
    BY <2>2
  <2> DEFINE x == <<head[m]>> \o f[nx[m]]
             g == [i \in m .. n + 1 |-> IF i = m THEN x ELSE f[i]]
  <2>7. f[nx[m]] \in Seq(T)
    BY <2>6
  <2>8. x \in Seq(T)
    BY <2>6, <2>7, ConsIs
  <2> HIDE DEF x
  <2>9. g \in [m .. n + 1 -> Seq(T)] /\ g[m] = x /\ \A i \in m + 1 .. n + 1 : g[i] = f[i]
    BY <2>2, <2>8
  <2> HIDE DEF g
  <2>10. \A i \in s .. n + 1 : g[i] = base[i]
    <3>1. \A i \in s .. n + 1 : i \in m + 1 .. n + 1 /\ f[i] = base[i]
      BY <2>2, <2>4 DEF Downward
    <3> QED
      BY <2>9, <3>1
  <2>11. ASSUME NEW i \in m .. s - 1 PROVE g[i] = <<head[i]>> \o g[nx[i]]
    <3>1. i \in 1 .. s - 1 /\ nx[i] \in m + 1 .. n + 1
      BY <2>2
    <3>2. g[nx[i]] = f[nx[i]]
      BY <2>9, <3>1
    <3>3. CASE i = m
      BY <2>9, <3>2, <3>3 DEF x
    <3>4. CASE i # m
      <4>1. i \in m + 1 .. s - 1 /\ i \in m + 1 .. n + 1
        BY <2>2, <3>4
      <4>2. g[i] = f[i] /\ f[i] = <<head[i]>> \o f[nx[i]]
        BY <2>4, <2>9, <4>1 DEF Downward
      <4> QED
        BY <3>2, <4>2
    <3> QED
      BY <3>3, <3>4
  <2>12. Downward(n, s, m, head, nx, base, g)
    BY <2>10, <2>11, Zenon DEF Downward
  <2> QED
    BY <2>5, <2>9, <2>12, Zenon DEF BuiltTo
<1> QED
  BY <1>3, <1>4

\* What Collapse makes of the place i: a stretch becomes a note, or an entry stays.
StopsAt(h, s, i)  == {j \in i .. s : j = s \/ ~Stages!IsCall(h[j], Stages!Explores)}
EndAt(h, s, i)    == CHOOSE j \in StopsAt(h, s, i) : \A k \in StopsAt(h, s, i) : j <= k
NoteAt(h, s, i)   == [ids |-> UNION {h[j].ids : j \in i .. EndAt(h, s, i) - 1}, body |-> "folded"]
FoldsAt(h, s, i)  ==
    /\ i < s /\ EndAt(h, s, i) - i >= 2
    /\ Stages!Length(NoteAt(h, s, i)) < Stages!Lengths(SubSeq(h, i, EndAt(h, s, i) - 1))
HeadAt(h, s, i)   == IF FoldsAt(h, s, i) THEN NoteAt(h, s, i) ELSE h[i]
NextAt(h, s, i)   == IF FoldsAt(h, s, i) THEN EndAt(h, s, i) ELSE i + 1

LEMMA EndIs ==
    ASSUME NEW h, NEW s \in Nat, NEW i \in 1 .. s - 1
    PROVE  /\ EndAt(h, s, i) \in i .. s
           /\ EndAt(h, s, i) = s \/ ~Stages!IsCall(h[EndAt(h, s, i)], Stages!Explores)
           /\ \A j \in i .. EndAt(h, s, i) - 1 : Stages!IsCall(h[j], Stages!Explores)
           /\ \A j \in i .. s : (\A k \in i .. j - 1 : Stages!IsCall(h[k], Stages!Explores)) => j <= EndAt(h, s, i)
<1> DEFINE S == StopsAt(h, s, i)
           e == EndAt(h, s, i)
<1>1. S \in SUBSET Nat /\ s \in S /\ S \subseteq i .. s
  BY DEF StopsAt
<1>2. \E j \in S : \A k \in S : j <= k
  <2> HIDE DEF S
  <2> QED
    BY <1>1, LeastOf
<1>3. e \in S /\ \A k \in S : e <= k
  <2>1. e = CHOOSE j \in S : \A k \in S : j <= k
    BY DEF EndAt
  <2> HIDE DEF S, e
  <2> QED
    BY <1>2, <2>1
<1>4. \A j \in i .. s : j \in S <=> (j = s \/ ~Stages!IsCall(h[j], Stages!Explores))
  BY DEF StopsAt
<1> HIDE DEF S, e
<1>5. e \in i .. s
  BY <1>1, <1>3
<1>6. \A j \in i .. e - 1 : Stages!IsCall(h[j], Stages!Explores)
  BY <1>3, <1>4, <1>5
<1>7. ASSUME NEW j \in i .. s, \A k \in i .. j - 1 : Stages!IsCall(h[k], Stages!Explores) PROVE j <= e
  <2>1. SUFFICES ASSUME e < j PROVE FALSE
    BY <1>5
  <2>2. e \in i .. j - 1 /\ e # s
    BY <1>5, <2>1
  <2> QED
    BY <1>3, <1>4, <1>5, <1>7, <2>2
<1>8. e = s \/ ~Stages!IsCall(h[e], Stages!Explores)
  BY <1>3, <1>4, <1>5
<1> QED
  BY <1>5, <1>6, <1>7, <1>8 DEF e

\* The stretch is of entries, so that the note is one.
LEMMA NoteIs ==
    ASSUME NEW h \in Seq(Entries), NEW s \in 1 .. Len(h) + 1, NEW i \in 1 .. s - 1
    PROVE  NoteAt(h, s, i) \in Entries /\ NoteAt(h, s, i).body = "folded" /\ Stages!Length(NoteAt(h, s, i)) = 5
           /\ NoteAt(h, s, i).ids = UNION {h[j].ids : j \in i .. EndAt(h, s, i) - 1}
<1> DEFINE x == UNION {h[j].ids : j \in i .. EndAt(h, s, i) - 1}
           d == NoteAt(h, s, i)
<1>1. d = [ids |-> x, body |-> "folded"]
  BY DEF NoteAt
<1>2. x \in SUBSET Nat
  <2>1. \A j \in i .. EndAt(h, s, i) - 1 : j \in 1 .. Len(h)
    BY EndIs
  <2>2. \A j \in 1 .. Len(h) : h[j].ids \in SUBSET Nat
    <3>1. \A j \in 1 .. Len(h) : h[j] \in Entries
      OBVIOUS
    <3>2. \A y \in Entries : y.ids \in SUBSET Nat
      BY DEF Entries
    <3> QED
      BY <3>1, <3>2
  <2> QED
    BY <2>1, <2>2
<1>3. d.ids = x
  BY <1>1
<1> HIDE DEF x
<1>4. d \in Entries /\ d.body = "folded"
  BY <1>1, <1>2 DEF Entries, Bodies
<1> HIDE DEF d
<1>5. Stages!Length(d) = 5
  BY <1>4, LengthIs DEF StubSize
<1> QED
  BY <1>3, <1>4, <1>5 DEF d, x

LEMMA CollapseIs ==
    ASSUME NEW h \in Seq(Entries), NEW s \in 1 .. Len(h) + 1
    PROVE  \E f :
             /\ Stages!Collapse(h, s) = f[1]
             /\ \A i \in s .. Len(h) + 1 : f[i] = SubSeq(h, i, Len(h))
             /\ \A i \in 1 .. s - 1 : f[i] = <<HeadAt(h, s, i)>> \o f[NextAt(h, s, i)]
<1> DEFINE n == Len(h)
           head == [i \in 1 .. s - 1 |-> HeadAt(h, s, i)]
           nx == [i \in 1 .. s - 1 |-> NextAt(h, s, i)]
           base == [i \in s .. n + 1 |-> SubSeq(h, i, n)]
           From(f) == [i \in 1 .. n + 1 |->
                         IF i >= s THEN SubSeq(h, i, n)
                         ELSE IF EndAt(h, s, i) - i >= 2
                                 /\ Stages!Length(NoteAt(h, s, i)) < Stages!Lengths(SubSeq(h, i, EndAt(h, s, i) - 1))
                              THEN <<NoteAt(h, s, i)>> \o f[EndAt(h, s, i)] ELSE <<h[i]>> \o f[i + 1]]
<1>0. n \in Nat /\ s \in 1 .. n + 1 /\ s \in Nat
  OBVIOUS
<1>1. ASSUME NEW i \in 1 .. s - 1 PROVE HeadAt(h, s, i) \in Entries /\ NextAt(h, s, i) \in 1 .. n + 1 /\ i < NextAt(h, s, i)
  <2>1. EndAt(h, s, i) \in i .. s
    BY <1>0, EndIs
  <2>2. NoteAt(h, s, i) \in Entries /\ h[i] \in Entries
    <3>1. i \in 1 .. Len(h)
      OBVIOUS
    <3> QED
      BY <3>1, NoteIs
  <2> QED
    BY <2>1, <2>2 DEF HeadAt, NextAt, FoldsAt
<1>2. head \in [1 .. s - 1 -> Entries] /\ nx \in [1 .. s - 1 -> 1 .. n + 1] /\ \A i \in 1 .. s - 1 : i < nx[i]
  BY <1>1
<1>3. base \in [s .. n + 1 -> Seq(Entries)]
  BY <1>0
<1>4. /\ \A i \in 1 .. s - 1 : head[i] = HeadAt(h, s, i) /\ nx[i] = NextAt(h, s, i)
      /\ \A i \in s .. n + 1 : base[i] = SubSeq(h, i, n)
  OBVIOUS
<1> HIDE DEF head, nx, base, n
<1>5. PICK f \in [1 .. n + 1 -> Seq(Entries)] : Downward(n, s, 1, head, nx, base, f)
  BY <1>0, <1>2, <1>3, DownwardExists
<1>6. /\ \A i \in s .. n + 1 : f[i] = SubSeq(h, i, n)
      /\ \A i \in 1 .. s - 1 : f[i] = <<HeadAt(h, s, i)>> \o f[NextAt(h, s, i)]
  BY <1>4, <1>5 DEF Downward
<1>7. f = From(f)
  <2>1. ASSUME NEW i \in 1 .. n + 1
        PROVE f[i] = IF i >= s THEN SubSeq(h, i, n)
                     ELSE IF EndAt(h, s, i) - i >= 2
                             /\ Stages!Length(NoteAt(h, s, i)) < Stages!Lengths(SubSeq(h, i, EndAt(h, s, i) - 1))
                          THEN <<NoteAt(h, s, i)>> \o f[EndAt(h, s, i)] ELSE <<h[i]>> \o f[i + 1]
    <3>1. CASE i >= s
      BY <1>0, <1>6, <3>1
    <3>2. CASE ~(i >= s)
      <4>1. i \in 1 .. s - 1 /\ i < s
        BY <1>0, <3>2
      <4>2. f[i] = <<HeadAt(h, s, i)>> \o f[NextAt(h, s, i)]
        BY <1>6, <4>1
      <4> QED
        BY <3>2, <4>1, <4>2, Zenon DEF HeadAt, NextAt, FoldsAt
    <3> QED
      BY <3>1, <3>2
  <2>2. f = [i \in 1 .. n + 1 |-> f[i]]
    BY <1>5
  <2> QED
    BY <2>1, <2>2, Zenon
<1> DEFINE from == CHOOSE f_1 : f_1 = From(f_1)
<1>8. from = From(from)
  BY <1>7, Zenon
<1>9. Stages!Collapse(h, s) = from[1]
  BY Zenon DEF Stages!Collapse, StopsAt, EndAt, NoteAt, n
<1> HIDE DEF from
<1>10. \A i \in s .. n + 1 : from[i] = SubSeq(h, i, n)
  <2> SUFFICES ASSUME NEW i \in s .. n + 1 PROVE from[i] = SubSeq(h, i, n)
    OBVIOUS
  <2>1. i \in 1 .. n + 1 /\ i >= s
    BY <1>0
  <2> QED
    BY <1>8, <2>1, Zenon
<1>11. \A i \in 1 .. s - 1 : from[i] = <<HeadAt(h, s, i)>> \o from[NextAt(h, s, i)]
  <2> SUFFICES ASSUME NEW i \in 1 .. s - 1 PROVE from[i] = <<HeadAt(h, s, i)>> \o from[NextAt(h, s, i)]
    OBVIOUS
  <2>1. i \in 1 .. n + 1 /\ ~(i >= s) /\ i < s
    BY <1>0
  <2> QED
    BY <1>8, <2>1, Zenon DEF HeadAt, NextAt, FoldsAt
<1> QED
  BY <1>9, <1>10, <1>11 DEF n

\* g is h from i on, cut at the places of p: each entry of g is what was made of the
\* place it starts at, and the region ends where a stretch does.
CutBy(h, s, i, g, p) ==
    /\ g \in Seq(Entries) /\ p \in [1 .. Len(g) + 1 -> i .. Len(h) + 1]
    /\ p[1] = i /\ p[Len(g) + 1] = Len(h) + 1
    /\ \A k \in 1 .. Len(g) : g[k] = HeadAt(h, s, p[k]) /\ p[k + 1] = NextAt(h, s, p[k])
    /\ \A k, l \in 1 .. Len(g) + 1 : k < l => p[k] < p[l]
    /\ \A j \in i .. Len(h) : \E k \in 1 .. Len(g) : p[k] <= j /\ j < p[k + 1]
    /\ Len(g) - (Len(h) - s) >= 1 /\ p[Len(g) - (Len(h) - s)] = s

LEMMA TailIsCut ==
    ASSUME NEW h \in Seq(Entries), NEW s \in 1 .. Len(h) + 1
    PROVE  \E p : CutBy(h, s, s, SubSeq(h, s, Len(h)), p)
<1> DEFINE n == Len(h)
           g == SubSeq(h, s, n)
           p == [k \in 1 .. Len(g) + 1 |-> s + k - 1]
<1>0. n \in Nat /\ s \in 1 .. n + 1
  OBVIOUS
<1>1. g \in Seq(Entries) /\ Len(g) = n - s + 1 /\ \A k \in 1 .. n - s + 1 : g[k] = h[s + k - 1]
  BY <1>0
<1>2. p = [k \in 1 .. n - s + 2 |-> s + k - 1]
  <2> HIDE DEF g
  <2> QED
    BY <1>0, <1>1
<1> HIDE DEF g, p
<1>3. p \in [1 .. n - s + 2 -> s .. n + 1] /\ \A k \in 1 .. n - s + 2 : p[k] = s + k - 1
  BY <1>0, <1>2
<1>4. \A j \in s .. n + 1 : HeadAt(h, s, j) = h[j] /\ NextAt(h, s, j) = j + 1
  BY <1>0 DEF HeadAt, NextAt, FoldsAt
<1>5. Len(g) + 1 = n - s + 2 /\ Len(g) - (n - s) = 1
  BY <1>0, <1>1
<1>6. \A k \in 1 .. Len(g) : g[k] = HeadAt(h, s, p[k]) /\ p[k + 1] = NextAt(h, s, p[k])
  <2> SUFFICES ASSUME NEW k \in 1 .. Len(g) PROVE g[k] = HeadAt(h, s, p[k]) /\ p[k + 1] = NextAt(h, s, p[k])
    OBVIOUS
  <2>1. k \in 1 .. n - s + 1 /\ k \in 1 .. n - s + 2 /\ k + 1 \in 1 .. n - s + 2
    BY <1>0, <1>1
  <2>2. p[k] = s + k - 1 /\ p[k + 1] = s + k - 1 + 1 /\ g[k] = h[s + k - 1] /\ s + k - 1 \in s .. n + 1
    BY <1>0, <1>1, <1>3, <2>1
  <2> QED
    BY <1>4, <2>2
<1>7. \A k, l \in 1 .. Len(g) + 1 : k < l => p[k] < p[l]
  BY <1>0, <1>3, <1>5
<1>8. \A j \in s .. n : \E k \in 1 .. Len(g) : p[k] <= j /\ j < p[k + 1]
  <2> SUFFICES ASSUME NEW j \in s .. n PROVE \E k \in 1 .. Len(g) : p[k] <= j /\ j < p[k + 1]
    OBVIOUS
  <2>1. j - s + 1 \in 1 .. Len(g) /\ j - s + 1 \in 1 .. n - s + 2 /\ (j - s + 1) + 1 \in 1 .. n - s + 2
    BY <1>0, <1>1
  <2>2. p[j - s + 1] = j /\ p[(j - s + 1) + 1] = j + 1
    BY <1>0, <1>3, <2>1
  <2> QED
    BY <1>0, <2>1, <2>2
<1>9. p[1] = s /\ p[Len(g) + 1] = n + 1
  <2>1. 1 \in 1 .. n - s + 2 /\ n - s + 2 \in 1 .. n - s + 2 /\ s + (n - s + 2) - 1 = n + 1 /\ s + 1 - 1 = s
    BY <1>0
  <2> QED
    BY <1>3, <1>5, <2>1
<1>10. p \in [1 .. Len(g) + 1 -> s .. n + 1]
  BY <1>3, <1>5
<1>11. CutBy(h, s, s, g, p)
  BY <1>1, <1>5, <1>6, <1>7, <1>8, <1>9, <1>10 DEF CutBy, n
<1> QED
  BY <1>11 DEF g, n

\* One place more in front.
LEMMA CutGrows ==
    ASSUME NEW h \in Seq(Entries), NEW s \in 1 .. Len(h) + 1, NEW i \in 1 .. s - 1,
           NEW r, NEW q, CutBy(h, s, NextAt(h, s, i), r, q), NEW g, g = <<HeadAt(h, s, i)>> \o r
    PROVE  \E p : CutBy(h, s, i, g, p)
<1> DEFINE n == Len(h)
           x == HeadAt(h, s, i)
           m == NextAt(h, s, i)
           p == [k \in 1 .. Len(g) + 1 |-> IF k = 1 THEN i ELSE q[k - 1]]
<1>0. n \in Nat /\ s \in 1 .. n + 1 /\ s \in Nat /\ i \in Nat
  OBVIOUS
<1>1. m \in i + 1 .. s
  <2>1. EndAt(h, s, i) \in i .. s
    BY <1>0, EndIs
  <2> QED
    BY <1>0, <2>1 DEF NextAt, FoldsAt
<1>2. x \in Entries
  <2>1. i \in 1 .. n
    BY <1>0
  <2> QED
    BY <2>1, NoteIs DEF HeadAt
<1>3. /\ r \in Seq(Entries) /\ q \in [1 .. Len(r) + 1 -> m .. n + 1]
      /\ q[1] = m /\ q[Len(r) + 1] = n + 1
      /\ \A k \in 1 .. Len(r) : r[k] = HeadAt(h, s, q[k]) /\ q[k + 1] = NextAt(h, s, q[k])
      /\ \A k, l \in 1 .. Len(r) + 1 : k < l => q[k] < q[l]
      /\ \A j \in m .. n : \E k \in 1 .. Len(r) : q[k] <= j /\ j < q[k + 1]
      /\ Len(r) - (n - s) >= 1 /\ q[Len(r) - (n - s)] = s
  BY DEF CutBy
<1>4. g \in Seq(Entries) /\ Len(g) = Len(r) + 1 /\ g[1] = x /\ \A k \in 2 .. Len(r) + 1 : g[k] = r[k - 1]
  <2>1. x \in Entries /\ r \in Seq(Entries) /\ g = <<x>> \o r
    BY <1>2, <1>3
  <2> HIDE DEF x
  <2> QED
    BY ONLY <2>1, ConsIs
<1>5. x = HeadAt(h, s, i) /\ m = NextAt(h, s, i)
  OBVIOUS
<1> HIDE DEF x, m, n
<1> DEFINE N == Len(r)
<1>6. N \in Nat /\ Len(g) = N + 1
  BY <1>3, <1>4
<1> HIDE DEF N
<1>7. p = [k \in 1 .. N + 2 |-> IF k = 1 THEN i ELSE q[k - 1]]
  <2>1. Len(g) + 1 = N + 2
    BY <1>6
  <2> QED
    BY <2>1, Zenon
<1> HIDE DEF p
<1>8. p[1] = i /\ \A k \in 2 .. N + 2 : p[k] = q[k - 1] /\ k - 1 \in 1 .. N + 1
  BY <1>6, <1>7
<1>9. \A k \in 1 .. N + 1 : q[k] \in m .. n + 1
  BY <1>3 DEF N
<1>10. p \in [1 .. N + 2 -> i .. n + 1]
  <2>1. ASSUME NEW k \in 1 .. N + 2 PROVE (IF k = 1 THEN i ELSE q[k - 1]) \in i .. n + 1
    <3>1. CASE k = 1
      BY <1>0, <3>1
    <3>2. CASE k # 1
      <4>1. k - 1 \in 1 .. N + 1
        BY <1>6, <3>2
      <4> QED
        BY <1>0, <1>1, <1>9, <3>2, <4>1
    <3> QED
      BY <3>1, <3>2
  <2> QED
    BY <1>7, <2>1
<1>11. ASSUME NEW k \in 1 .. N + 1 PROVE g[k] = HeadAt(h, s, p[k]) /\ p[k + 1] = NextAt(h, s, p[k])
  <2>1. CASE k = 1
    <3>1. 2 \in 2 .. N + 2 /\ p[2] = q[1]
      BY <1>6, <1>8
    <3> QED
      BY <1>3, <1>4, <1>5, <1>8, <2>1, <3>1
  <2>2. CASE k # 1
    <3>1. k \in 2 .. N + 1 /\ k \in 2 .. N + 2 /\ k + 1 \in 2 .. N + 2 /\ k - 1 \in 1 .. N /\ (k - 1) + 1 = k /\ (k + 1) - 1 = k
      BY <1>6, <2>2
    <3>2. g[k] = r[k - 1] /\ p[k] = q[k - 1] /\ p[k + 1] = q[k]
      BY <1>4, <1>8, <3>1 DEF N
    <3>3. r[k - 1] = HeadAt(h, s, q[k - 1]) /\ q[(k - 1) + 1] = NextAt(h, s, q[k - 1])
      BY <1>3, <3>1 DEF N
    <3> QED
      BY <3>1, <3>2, <3>3
  <2> QED
    BY <2>1, <2>2
<1>12. ASSUME NEW k \in 1 .. N + 2, NEW l \in 1 .. N + 2, k < l PROVE p[k] < p[l]
  <2>1. l \in 2 .. N + 2 /\ l - 1 \in 1 .. N + 1 /\ p[l] = q[l - 1]
    BY <1>6, <1>8, <1>12
  <2>2. CASE k = 1
    <3>1. q[l - 1] \in m .. n + 1
      BY <1>9, <2>1
    <3> QED
      BY <1>0, <1>1, <1>8, <2>1, <2>2, <3>1
  <2>3. CASE k # 1
    <3>1. k \in 2 .. N + 2 /\ k - 1 \in 1 .. N + 1 /\ k - 1 < l - 1
      BY <1>6, <1>12, <2>3
    <3>2. q[k - 1] < q[l - 1]
      BY <1>3, <2>1, <3>1 DEF N
    <3> QED
      BY <1>8, <2>1, <3>1, <3>2
  <2> QED
    BY <2>2, <2>3
<1>13. ASSUME NEW j \in i .. n PROVE \E k \in 1 .. N + 1 : p[k] <= j /\ j < p[k + 1]
  <2>1. CASE j < m
    <3>1. 2 \in 2 .. N + 2 /\ p[2] = q[1] /\ q[1] = m /\ 1 \in 1 .. N + 1 /\ 1 + 1 = 2
      BY <1>3, <1>6, <1>8
    <3>2. p[1] <= j /\ j < p[1 + 1]
      BY <1>0, <1>8, <2>1, <3>1
    <3> QED
      BY <3>1, <3>2
  <2>2. CASE ~(j < m)
    <3>1. j \in m .. n
      BY <1>0, <1>1, <2>2
    <3>2. PICK k \in 1 .. N : q[k] <= j /\ j < q[k + 1]
      BY <1>3, <3>1 DEF N
    <3>3. k + 1 \in 1 .. N + 1 /\ k + 1 \in 2 .. N + 2 /\ (k + 1) + 1 \in 2 .. N + 2
          /\ (k + 1) - 1 = k /\ ((k + 1) + 1) - 1 = k + 1
      BY <1>6
    <3>4. p[k + 1] = q[k] /\ p[(k + 1) + 1] = q[k + 1]
      BY <1>8, <3>3
    <3> QED
      BY <3>2, <3>3, <3>4
  <2> QED
    BY <2>1, <2>2
<1>14. Len(g) - (n - s) >= 1 /\ p[Len(g) - (n - s)] = s
  <2>1. N - (n - s) >= 1 /\ q[N - (n - s)] = s
    BY <1>3 DEF N
  <2>2. N + 1 - (n - s) \in 2 .. N + 2 /\ (N + 1 - (n - s)) - 1 = N - (n - s)
    BY <1>0, <1>6, <2>1
  <2>3. p[N + 1 - (n - s)] = s
    BY <1>8, <2>1, <2>2
  <2>4. Len(g) - (n - s) = N + 1 - (n - s) /\ N + 1 - (n - s) >= 1
    BY <1>0, <1>6, <2>2
  <2> QED
    BY <2>3, <2>4
<1>15. p[N + 2] = n + 1
  <2>1. N + 2 \in 2 .. N + 2 /\ (N + 2) - 1 = N + 1
    BY <1>6
  <2> QED
    BY <1>3, <1>8, <2>1 DEF N
<1>16. Len(g) + 1 = N + 2
  BY <1>6
<1>17. CutBy(h, s, i, g, p)
  <2>1. \A k \in 1 .. Len(g) : g[k] = HeadAt(h, s, p[k]) /\ p[k + 1] = NextAt(h, s, p[k])
    BY <1>6, <1>11
  <2>2. \A k, l \in 1 .. Len(g) + 1 : k < l => p[k] < p[l]
    BY <1>12, <1>16
  <2>3. \A j \in i .. n : \E k \in 1 .. Len(g) : p[k] <= j /\ j < p[k + 1]
    BY <1>6, <1>13
  <2>4. p \in [1 .. Len(g) + 1 -> i .. n + 1] /\ p[Len(g) + 1] = n + 1
    BY <1>10, <1>15, <1>16
  <2> QED
    BY <1>4, <1>8, <1>14, <2>1, <2>2, <2>3, <2>4, Zenon DEF CutBy, n
<1> QED
  BY <1>17

LEMMA CollapseCuts ==
    ASSUME NEW h \in Seq(Entries), NEW s \in 1 .. Len(h) + 1
    PROVE  \E p : CutBy(h, s, 1, Stages!Collapse(h, s), p)
<1>0. s \in Nat
  OBVIOUS
<1>1. PICK f :
             /\ Stages!Collapse(h, s) = f[1]
             /\ \A i \in s .. Len(h) + 1 : f[i] = SubSeq(h, i, Len(h))
             /\ \A i \in 1 .. s - 1 : f[i] = <<HeadAt(h, s, i)>> \o f[NextAt(h, s, i)]
  BY CollapseIs
<1> DEFINE Cut(i) == \E p : CutBy(h, s, i, f[i], p)
           S == {d \in 0 .. s - 1 : ~Cut(s - d)}
<1>2. S \in SUBSET Nat
  BY <1>0
<1>3. SUFFICES ASSUME ~Cut(1) PROVE FALSE
  BY <1>1
<1>4. s - 1 \in S
  <2>1. s - (s - 1) = 1 /\ s - 1 \in 0 .. s - 1
    BY <1>0
  <2> HIDE DEF Cut
  <2>2. ~Cut(s - (s - 1))
    BY <1>3, <2>1, Zenon
  <2> QED
    BY <2>1, <2>2
<1>5. PICK d \in S : \A j \in S : d <= j
  <2> HIDE DEF S
  <2> QED
    BY <1>2, <1>4, LeastOf
<1>6. CASE d = 0
  <2>1. s \in s .. Len(h) + 1 /\ s - 0 = s
    BY <1>0
  <2>2. f[s] = SubSeq(h, s, Len(h))
    BY <1>1, <2>1
  <2>3. Cut(s)
    BY <2>2, TailIsCut
  <2> QED
    BY <1>5, <1>6, <2>1, <2>3
<1>7. CASE d # 0
  <2> DEFINE i == s - d
  <2>1. i \in 1 .. s - 1 /\ d \in 1 .. s - 1
    BY <1>0, <1>5, <1>7
  <2>2. ~Cut(i)
    BY <1>5
  <2> HIDE DEF i
  <2>3. NextAt(h, s, i) \in i + 1 .. s
    <3>1. EndAt(h, s, i) \in i .. s
      BY <1>0, <2>1, EndIs
    <3> QED
      BY <1>0, <2>1, <3>1 DEF NextAt, FoldsAt
  <2>4. Cut(NextAt(h, s, i))
    <3> DEFINE m == NextAt(h, s, i)
    <3>1. s - m \in 0 .. s - 1 /\ s - (s - m) = m /\ ~(d <= s - m)
      BY <1>0, <2>1, <2>3 DEF i
    <3> HIDE DEF m, Cut
    <3>2. ~(s - m \in S)
      BY <1>5, <3>1
    <3>3. Cut(s - (s - m))
      BY <3>1, <3>2
    <3>4. Cut(m)
      BY <3>1, <3>3, Zenon
    <3> QED
      BY <3>4 DEF m
  <2>5. PICK q : CutBy(h, s, NextAt(h, s, i), f[NextAt(h, s, i)], q)
    BY <2>4
  <2>6. f[i] = <<HeadAt(h, s, i)>> \o f[NextAt(h, s, i)]
    BY <1>1, <2>1
  <2>7. Cut(i)
    BY <2>1, <2>5, <2>6, CutGrows
  <2> QED
    BY <2>2, <2>7
<1> QED
  BY <1>6, <1>7

(* Lengths of histories.                                                   *)
Totals(h, u) ==
    /\ u \in [0 .. Len(h) -> Nat] /\ u[0] = 0
    /\ \A i \in 1 .. Len(h) : u[i] = u[i - 1] + Stages!Length(h[i])

LEMMA LengthsAre ==
    ASSUME NEW h \in Seq(Entries)
    PROVE  \E u : Totals(h, u) /\ Stages!Lengths(h) = u[Len(h)]
<1> DEFINE n == Len(h)
           Sum(f) == [i \in 0 .. n |-> IF i = 0 THEN 0 ELSE f[i - 1] + Stages!Length(h[i])]
           step == [i \in 1 .. n |-> [x \in Nat |-> x + Stages!Length(h[i])]]
<1>1. n \in Nat
  OBVIOUS
<1>2. \A i \in 1 .. n : Stages!Length(h[i]) \in Nat
  <2> SUFFICES ASSUME NEW i \in 1 .. n PROVE Stages!Length(h[i]) \in Nat
    OBVIOUS
  <2>1. h[i] \in Entries
    OBVIOUS
  <2> QED
    BY <2>1, LengthIs
<1>3. step \in [1 .. n -> [Nat -> Nat]]
  BY <1>2
<1>4. \A i \in 1 .. n : \A x \in Nat : step[i][x] = x + Stages!Length(h[i])
  BY Zenon
<1> HIDE DEF step, n
<1>5. PICK f \in [0 .. n -> Nat] : Iterated(n, 0, step, f)
  BY <1>1, <1>3, Iterates
<1>6. f = Sum(f)
  <2>1. \A i \in 1 .. n : f[i] = f[i - 1] + Stages!Length(h[i])
    <3> SUFFICES ASSUME NEW i \in 1 .. n PROVE f[i] = f[i - 1] + Stages!Length(h[i])
      OBVIOUS
    <3>1. f[i - 1] \in Nat
      BY <1>1, <1>5
    <3> QED
      BY <1>4, <1>5, <3>1, Zenon DEF Iterated
  <2>2. \A i \in 0 .. n : i = 0 \/ i \in 1 .. n
    BY <1>1
  <2>3. f[0] = 0
    BY <1>5 DEF Iterated
  <2>4. \A i \in 0 .. n : f[i] = IF i = 0 THEN 0 ELSE f[i - 1] + Stages!Length(h[i])
    BY <2>1, <2>2, <2>3, Zenon
  <2>5. f = [i \in 0 .. n |-> f[i]]
    BY <1>5
  <2> QED
    BY <2>4, <2>5, Zenon
<1> DEFINE u == CHOOSE f_1 : f_1 = Sum(f_1)
<1>7. u = Sum(u)
  BY <1>6, Zenon
<1>8. Stages!Lengths(h) = u[n]
  BY Zenon DEF Stages!Lengths, n
<1> HIDE DEF u
<1>9. u[0] = 0
  <2>1. 0 \in 0 .. n
    BY <1>1
  <2> QED
    BY <1>7, <2>1, Zenon
<1>10. \A i \in 1 .. n : u[i] = u[i - 1] + Stages!Length(h[i])
  <2>1. \A i \in 1 .. n : i \in 0 .. n /\ i # 0
    BY <1>1
  <2> QED
    BY <1>7, <2>1, Zenon
<1>11. \A i \in 0 .. n : u[i] \in Nat
  <2> DEFINE B == {i \in 0 .. n : u[i] \notin Nat}
  <2>1. SUFFICES ASSUME B # {} PROVE FALSE
    OBVIOUS
  <2>2. B \in SUBSET Nat
    BY <1>1
  <2>3. PICK i \in B : \A j \in B : i <= j
    <3> HIDE DEF B
    <3> QED
      BY <2>1, <2>2, LeastOf
  <2>4. i \in 1 .. n /\ i - 1 \in 0 .. n /\ ~(i <= i - 1)
    BY <1>1, <1>9, <2>3
  <2>5. u[i - 1] \in Nat
    BY <2>3, <2>4
  <2>6. u[i] \in Nat
    BY <1>2, <1>10, <2>4, <2>5
  <2> QED
    BY <2>3, <2>6
<1>12. u \in [0 .. n -> Nat]
  <2> DEFINE w == Sum(u)
  <2>1. w = [i \in 0 .. n |-> w[i]]
    OBVIOUS
  <2>2. w = u
    BY <1>7
  <2> HIDE DEF w
  <2>3. u = [i \in 0 .. n |-> u[i]]
    BY <2>1, <2>2
  <2> QED
    BY <1>11, <2>3
<1>13. Totals(h, u)
  BY <1>9, <1>10, <1>12, Zenon DEF Totals, n
<1> QED
  BY <1>8, <1>13 DEF n

\* The total of a part is the difference of the totals at its ends.
LEMMA PartIs ==
    ASSUME NEW h \in Seq(Entries), NEW u, Totals(h, u), NEW a \in 1 .. Len(h) + 1, NEW b \in a - 1 .. Len(h)
    PROVE  Stages!Lengths(SubSeq(h, a, b)) = u[b] - u[a - 1]
<1> DEFINE g == SubSeq(h, a, b)
           m == b - a + 1
<1>1. m \in Nat /\ a \in Nat /\ b \in Nat /\ Len(h) \in Nat
  OBVIOUS
<1>2. g \in Seq(Entries) /\ Len(g) = m /\ \A i \in 1 .. m : g[i] = h[a + i - 1]
  BY <1>1
<1> HIDE DEF g, m
<1>3. PICK v : Totals(g, v) /\ Stages!Lengths(g) = v[Len(g)]
  BY <1>2, LengthsAre
<1>4. \A i \in 0 .. m : v[i] = u[a - 1 + i] - u[a - 1]
  <2> DEFINE B == {i \in 0 .. m : v[i] # u[a - 1 + i] - u[a - 1]}
  <2>1. SUFFICES ASSUME B # {} PROVE FALSE
    OBVIOUS
  <2>2. B \in SUBSET Nat
    BY <1>1
  <2>3. PICK i \in B : \A j \in B : i <= j
    <3> HIDE DEF B
    <3> QED
      BY <2>1, <2>2, LeastOf
  <2>4. \A j \in 0 .. m : a - 1 + j \in 0 .. Len(h)
    BY <1>1 DEF m
  <2>5. \A j \in 0 .. Len(h) : u[j] \in Nat
    BY DEF Totals
  <2>6. CASE i = 0
    <3>1. v[0] = 0 /\ a - 1 + 0 = a - 1 /\ u[a - 1] \in Nat
      BY <1>1, <1>3, <2>4, <2>5 DEF Totals
    <3>2. v[i] = u[a - 1 + i] - u[a - 1]
      BY <2>6, <3>1
    <3> QED
      BY <2>3, <3>2
  <2>7. CASE i # 0
    <3>1. i \in 1 .. m /\ i - 1 \in 0 .. m /\ ~(i <= i - 1) /\ i \in Nat
      BY <1>1, <2>3, <2>7
    <3>2. v[i - 1] = u[a - 1 + (i - 1)] - u[a - 1]
      BY <2>3, <3>1
    <3>3. v[i] = v[i - 1] + Stages!Length(g[i]) /\ g[i] = h[a + i - 1]
      BY <1>2, <1>3, <3>1 DEF Totals
    <3>4. a + i - 1 \in 1 .. Len(h) /\ (a + i - 1) - 1 = a - 1 + (i - 1) /\ a - 1 + i = a + i - 1
      BY <1>1, <3>1 DEF m
    <3>5. u[a + i - 1] = u[(a + i - 1) - 1] + Stages!Length(h[a + i - 1])
      BY <3>4 DEF Totals
    <3>6. Stages!Length(h[a + i - 1]) \in Int
      <4>1. h[a + i - 1] \in Entries
        BY <3>4
      <4> QED
        BY <4>1, LengthIs
    <3>7. u[a + i - 1] \in Nat /\ u[a - 1 + (i - 1)] \in Nat /\ u[a - 1] \in Nat
      <4>1. a - 1 + 0 = a - 1 /\ 0 \in 0 .. m
        BY <1>1
      <4> QED
        BY <2>4, <2>5, <3>1, <3>4, <4>1
    <3>8. v[i] = u[a + i - 1] - u[a - 1]
      BY <3>2, <3>3, <3>4, <3>5, <3>6, <3>7
    <3> QED
      BY <2>3, <3>4, <3>8
  <2> QED
    BY <2>6, <2>7
<1>5. m \in 0 .. m /\ a - 1 + m = b
  BY <1>1 DEF m
<1>6. v[m] = u[b] - u[a - 1]
  BY <1>4, <1>5
<1> QED
  BY <1>2, <1>3, <1>6 DEF g

\* Of entries each as long at least, and of more, the total is as long at least.
LEMMA LengthsLess ==
    ASSUME NEW h \in Seq(Entries), NEW g \in Seq(Entries), Len(g) <= Len(h),
           \A i \in 1 .. Len(g) : Stages!Length(g[i]) <= Stages!Length(h[i])
    PROVE  Stages!Lengths(g) <= Stages!Lengths(h) /\ Stages!Lengths(h) \in Nat /\ Stages!Lengths(g) \in Nat
<1> DEFINE n == Len(h)
           m == Len(g)
<1>0. n \in Nat /\ m \in Nat /\ m <= n
  OBVIOUS
<1>1. PICK u : Totals(h, u) /\ Stages!Lengths(h) = u[n]
  BY LengthsAre
<1>2. PICK v : Totals(g, v) /\ Stages!Lengths(g) = v[m]
  BY LengthsAre
<1>3. \A i \in 1 .. n : u[i] = u[i - 1] + Stages!Length(h[i]) /\ Stages!Length(h[i]) \in Nat /\ u[i - 1] \in Nat /\ u[i] \in Nat
  <2> SUFFICES ASSUME NEW i \in 1 .. n
               PROVE  u[i] = u[i - 1] + Stages!Length(h[i]) /\ Stages!Length(h[i]) \in Nat /\ u[i - 1] \in Nat /\ u[i] \in Nat
    OBVIOUS
  <2>1. h[i] \in Entries /\ i - 1 \in 0 .. n /\ i \in 0 .. n
    BY <1>0
  <2>2. Stages!Length(h[i]) \in Nat
    BY <2>1, LengthIs
  <2> QED
    BY <1>1, <2>1, <2>2 DEF Totals
<1>4. \A i \in 1 .. m : v[i] = v[i - 1] + Stages!Length(g[i]) /\ Stages!Length(g[i]) \in Nat /\ v[i - 1] \in Nat
  <2> SUFFICES ASSUME NEW i \in 1 .. m
               PROVE  v[i] = v[i - 1] + Stages!Length(g[i]) /\ Stages!Length(g[i]) \in Nat /\ v[i - 1] \in Nat
    OBVIOUS
  <2>1. g[i] \in Entries /\ i - 1 \in 0 .. m
    BY <1>0
  <2>2. Stages!Length(g[i]) \in Nat
    BY <2>1, LengthIs
  <2> QED
    BY <1>2, <2>1, <2>2 DEF Totals
<1>5. u[0] = 0 /\ v[0] = 0 /\ u[n] \in Nat /\ v[m] \in Nat
  BY <1>0, <1>1, <1>2 DEF Totals
<1>6. \A i \in 1 .. m : Stages!Length(g[i]) <= Stages!Length(h[i])
  OBVIOUS
<1> HIDE DEF n, m
<1>7. v[m] <= u[n]
  <2> DEFINE B == {i \in 0 .. n : ~(v[IF i <= m THEN i ELSE m] <= u[i])}
  <2>1. SUFFICES ASSUME B # {} PROVE FALSE
    <3>1. n \notin B /\ n \in 0 .. n
      BY <1>0, <2>1
    <3>2. v[IF n <= m THEN n ELSE m] <= u[n]
      BY <3>1
    <3>3. (IF n <= m THEN n ELSE m) = m
      BY <1>0
    <3> QED
      BY <3>2, <3>3
  <2>2. B \in SUBSET Nat
    BY <1>0
  <2>3. PICK i \in B : \A j \in B : i <= j
    <3> HIDE DEF B
    <3> QED
      BY <2>1, <2>2, LeastOf
  <2>4. i # 0
    <3>1. (IF 0 <= m THEN 0 ELSE m) = 0
      BY <1>0
    <3> QED
      BY <1>5, <2>3, <3>1
  <2>5. i \in 1 .. n /\ i - 1 \in 0 .. n /\ ~(i <= i - 1)
    BY <1>0, <2>3, <2>4
  <2>6. v[IF i - 1 <= m THEN i - 1 ELSE m] <= u[i - 1]
    BY <2>3, <2>5
  <2>7. u[i] = u[i - 1] + Stages!Length(h[i]) /\ Stages!Length(h[i]) \in Nat /\ u[i - 1] \in Nat /\ u[i] \in Nat
    BY <1>3, <2>5
  <2>8. CASE i <= m
    <3>1. i \in 1 .. m /\ i - 1 <= m
      BY <1>0, <2>5, <2>8
    <3>2. v[i] = v[i - 1] + Stages!Length(g[i]) /\ Stages!Length(g[i]) \in Nat /\ v[i - 1] \in Nat
          /\ Stages!Length(g[i]) <= Stages!Length(h[i])
      BY <1>4, <1>6, <3>1
    <3>3. v[i - 1] <= u[i - 1]
      BY <2>6, <3>1
    <3>4. v[i] <= u[i]
      BY <2>7, <3>2, <3>3
    <3> QED
      BY <2>3, <2>8, <3>4
  <2>9. CASE ~(i <= m)
    <3>1. (IF i - 1 <= m THEN i - 1 ELSE m) = m
      BY <1>0, <2>5, <2>9
    <3>2. v[m] <= u[i - 1]
      BY <2>6, <3>1
    <3>3. v[m] <= u[i]
      BY <1>5, <2>7, <3>2
    <3> QED
      BY <2>3, <2>9, <3>3
  <2> QED
    BY <2>8, <2>9
<1> QED
  BY <1>1, <1>2, <1>5, <1>7

\* A cut history keeps what the other kept.
LEMMA HeadIds ==
    ASSUME NEW h, Kept(h), NEW s \in 1 .. Len(h) + 1, NEW g, NEW p, CutBy(h, s, 1, g, p), NEW k \in 1 .. Len(g)
    PROVE  /\ p[k] \in 1 .. Len(h) /\ p[k + 1] \in p[k] + 1 .. Len(h) + 1
           /\ g[k].ids = UNION {h[j].ids : j \in p[k] .. p[k + 1] - 1}
           /\ EntryHolds(g[k])
<1>0. h \in Seq(Entries) /\ Len(h) \in Nat /\ s \in Nat /\ Len(g) \in Nat
  BY DEF Kept, CutBy
<1>1. k \in 1 .. Len(g) + 1 /\ k + 1 \in 1 .. Len(g) + 1 /\ k < k + 1
  BY <1>0
<1>2. p[k] \in 1 .. Len(h) + 1 /\ p[k + 1] \in 1 .. Len(h) + 1 /\ p[k] < p[k + 1]
  BY <1>1 DEF CutBy
<1>3. p[k] \in 1 .. Len(h) /\ p[k + 1] \in p[k] + 1 .. Len(h) + 1
  BY <1>0, <1>2
<1>4. g[k] = HeadAt(h, s, p[k]) /\ p[k + 1] = NextAt(h, s, p[k])
  BY DEF CutBy
<1>5. CASE FoldsAt(h, s, p[k])
  <2>1. p[k] \in 1 .. s - 1
    BY <1>0, <1>3, <1>5 DEF FoldsAt
  <2>2. g[k] = NoteAt(h, s, p[k]) /\ p[k + 1] = EndAt(h, s, p[k])
    BY <1>4, <1>5 DEF HeadAt, NextAt
  <2>3. g[k].ids = UNION {h[j].ids : j \in p[k] .. p[k + 1] - 1} /\ g[k] \in Entries /\ g[k].body = "folded"
    BY <1>0, <2>1, <2>2, NoteIs
  <2>4. \A j \in p[k] .. p[k + 1] - 1 : Stages!IsCall(h[j], Stages!Explores) /\ j \in 1 .. Len(h)
    <3>1. \A j \in p[k] .. EndAt(h, s, p[k]) - 1 : Stages!IsCall(h[j], Stages!Explores)
      BY <1>0, <2>1, EndIs
    <3>2. \A j \in p[k] .. p[k + 1] - 1 : j \in 1 .. Len(h)
      BY <1>0, <1>3
    <3> QED
      BY <2>2, <3>1, <3>2, Zenon
  <2>5. \A j \in 1 .. Len(h) : EntryHolds(h[j])
    BY DEF Kept
  <2>6. g[k].ids # {} /\ g[k].ids \subseteq 1 .. Len(log)
    <3>1. \A j \in 1 .. Len(h) : h[j].ids # {} /\ h[j].ids \subseteq 1 .. Len(log)
      BY <2>5 DEF EntryHolds
    <3>2. p[k] \in p[k] .. p[k + 1] - 1
      BY <1>0, <1>3
    <3> QED
      BY <2>3, <2>4, <3>1, <3>2
  <2>7. \A x \in g[k].ids : Tells(x, "folded")
    <3> SUFFICES ASSUME NEW x \in g[k].ids PROVE Tells(x, "folded")
      OBVIOUS
    <3>1. PICK j \in p[k] .. p[k + 1] - 1 : x \in h[j].ids
      BY <2>3
    <3>2. log[x].tool \in Stages!Explores
      BY <2>4, <2>5, <3>1, CallIs
    <3> QED
      BY <3>2 DEF Tells
  <2> QED
    BY <1>3, <2>3, <2>6, <2>7, Zenon DEF EntryHolds
<1>6. CASE ~FoldsAt(h, s, p[k])
  <2>1. g[k] = h[p[k]] /\ p[k + 1] = p[k] + 1
    BY <1>4, <1>6 DEF HeadAt, NextAt
  <2>2. p[k] .. p[k + 1] - 1 = {p[k]}
    BY <1>0, <1>3, <2>1
  <2>3. UNION {h[j].ids : j \in {p[k]}} = h[p[k]].ids
    OBVIOUS
  <2>4. EntryHolds(h[p[k]])
    BY <1>3 DEF Kept
  <2> QED
    BY <1>3, <2>1, <2>2, <2>3, <2>4, Zenon
<1> QED
  BY <1>5, <1>6

LEMMA CutKeeps ==
    ASSUME NEW h, Kept(h), NEW s \in 1 .. Len(h) + 1, NEW g, NEW p, CutBy(h, s, 1, g, p)
    PROVE  Kept(g)
<1>0. h \in Seq(Entries) /\ Len(h) \in Nat /\ Len(g) \in Nat /\ g \in Seq(Entries)
  BY DEF Kept, CutBy
<1>1. \A k \in 1 .. Len(g) :
        /\ p[k] \in 1 .. Len(h) /\ p[k + 1] \in p[k] + 1 .. Len(h) + 1
        /\ g[k].ids = UNION {h[j].ids : j \in p[k] .. p[k + 1] - 1}
        /\ EntryHolds(g[k])
  BY HeadIds
<1>2. ASSUME NEW x \in 1 .. Len(log) PROVE \E k \in 1 .. Len(g) : x \in g[k].ids
  <2>1. PICK j \in 1 .. Len(h) : x \in h[j].ids
    BY DEF Kept
  <2>2. PICK k \in 1 .. Len(g) : p[k] <= j /\ j < p[k + 1]
    BY DEF CutBy
  <2>3. j \in p[k] .. p[k + 1] - 1
    BY <1>0, <1>1, <2>2
  <2> QED
    BY <1>1, <2>1, <2>3
<1>3. ASSUME NEW k \in 1 .. Len(g), NEW l \in 1 .. Len(g), k < l, NEW x \in g[k].ids, NEW y \in g[l].ids PROVE x < y
  <2>0. /\ g[k].ids = UNION {h[j].ids : j \in p[k] .. p[k + 1] - 1}
        /\ g[l].ids = UNION {h[j].ids : j \in p[l] .. p[l + 1] - 1}
    BY <1>1, Zenon
  <2>1. PICK i \in p[k] .. p[k + 1] - 1 : x \in h[i].ids
    BY <1>3, <2>0, Zenon
  <2>2. PICK j \in p[l] .. p[l + 1] - 1 : y \in h[j].ids
    BY <1>3, <2>0, Zenon
  <2>3. p[k + 1] <= p[l]
    <3>1. k + 1 \in 1 .. Len(g) + 1 /\ l \in 1 .. Len(g) + 1 /\ (k + 1 = l \/ k + 1 < l)
      BY <1>0, <1>3
    <3>2. \A a, b \in 1 .. Len(g) + 1 : a < b => p[a] < p[b]
      BY DEF CutBy
    <3>3. p[k + 1] \in Int /\ p[l] \in Int
      <4>1. p[k] \in 1 .. Len(h) /\ p[k + 1] \in p[k] + 1 .. Len(h) + 1 /\ p[l] \in 1 .. Len(h)
        BY <1>1, Zenon
      <4> HIDE DEF Kept, CutBy
      <4> QED
        BY <1>0, <4>1
    <3>4. CASE k + 1 = l
      BY <3>3, <3>4
    <3>5. CASE k + 1 < l
      BY <3>1, <3>2, <3>3, <3>5
    <3> QED
      BY <3>1, <3>4, <3>5
  <2>4. i \in 1 .. Len(h) /\ j \in 1 .. Len(h) /\ i < j
    <3>1. /\ p[k] \in 1 .. Len(h) /\ p[k + 1] \in p[k] + 1 .. Len(h) + 1
          /\ p[l] \in 1 .. Len(h) /\ p[l + 1] \in p[l] + 1 .. Len(h) + 1
      BY <1>1
    <3> DEFINE a == p[k]
               b == p[k + 1]
               c == p[l]
               d == p[l + 1]
               n == Len(h)
    <3>2. i \in a .. b - 1 /\ j \in c .. d - 1 /\ b <= c /\ n \in Nat
      BY <1>0, <2>1, <2>2, <2>3, Zenon
    <3>3. a \in 1 .. n /\ b \in a + 1 .. n + 1 /\ c \in 1 .. n /\ d \in c + 1 .. n + 1
      BY <3>1, Zenon
    <3> HIDE DEF a, b, c, d, n
    <3>4. i \in 1 .. n /\ j \in 1 .. n /\ i < j
      BY <3>2, <3>3
    <3> QED
      BY <3>4 DEF n
  <2> QED
    BY <2>1, <2>2, <2>4 DEF Kept
<1> QED
  BY <1>0, <1>1, <1>2, <1>3 DEF Kept

\* A note is shorter than what it stands for.
LEMMA CutShortens ==
    ASSUME NEW h, Kept(h), NEW s \in 1 .. Len(h) + 1, NEW g, NEW p, CutBy(h, s, 1, g, p)
    PROVE  Stages!Lengths(g) <= Stages!Lengths(h)
<1> DEFINE n == Len(h)
           m == Len(g)
<1>0. h \in Seq(Entries) /\ n \in Nat /\ m \in Nat /\ g \in Seq(Entries) /\ s \in Nat
  BY DEF Kept, CutBy
<1>1. PICK u : Totals(h, u) /\ Stages!Lengths(h) = u[n]
  BY <1>0, LengthsAre
<1>2. PICK v : Totals(g, v) /\ Stages!Lengths(g) = v[m]
  BY <1>0, LengthsAre
<1>3. \A k \in 1 .. m : p[k] \in 1 .. n /\ p[k + 1] \in p[k] + 1 .. n + 1
  BY HeadIds
<1>4. \A i \in 0 .. n : u[i] \in Nat
  BY <1>1 DEF Totals
<1>5. ASSUME NEW k \in 1 .. m PROVE Stages!Length(g[k]) <= u[p[k + 1] - 1] - u[p[k] - 1] /\ Stages!Length(g[k]) \in Nat
  <2>0. p[k] \in 1 .. n /\ p[k + 1] \in p[k] + 1 .. n + 1
    BY <1>3
  <2>1. g[k] = HeadAt(h, s, p[k]) /\ p[k + 1] = NextAt(h, s, p[k])
    BY DEF CutBy
  <2>2. Stages!Length(g[k]) \in Nat
    <3>1. g[k] \in Entries
      BY <1>0
    <3> QED
      BY <3>1, LengthIs
  <2>3. CASE FoldsAt(h, s, p[k])
    <3>1. p[k + 1] = EndAt(h, s, p[k]) /\ g[k] = NoteAt(h, s, p[k])
      BY <2>1, <2>3 DEF HeadAt, NextAt
    <3>2. Stages!Length(g[k]) < Stages!Lengths(SubSeq(h, p[k], p[k + 1] - 1))
      BY <2>3, <3>1, Zenon DEF FoldsAt
    <3>3. p[k] \in 1 .. Len(h) + 1 /\ p[k + 1] - 1 \in p[k] - 1 .. Len(h)
      BY <1>0, <2>0
    <3>4. Stages!Lengths(SubSeq(h, p[k], p[k + 1] - 1)) = u[p[k + 1] - 1] - u[p[k] - 1]
      BY <1>0, <1>1, <3>3, PartIs
    <3>5. u[p[k + 1] - 1] \in Nat /\ u[p[k] - 1] \in Nat
      BY <1>0, <1>4, <2>0
    <3> QED
      BY <2>2, <3>2, <3>4, <3>5
  <2>4. CASE ~FoldsAt(h, s, p[k])
    <3>1. p[k + 1] - 1 = p[k] /\ g[k] = h[p[k]]
      BY <1>0, <2>0, <2>1, <2>4 DEF HeadAt, NextAt
    <3>2. u[p[k]] = u[p[k] - 1] + Stages!Length(h[p[k]])
      BY <1>1, <2>0 DEF Totals
    <3>3. u[p[k] - 1] \in Nat
      BY <1>0, <1>4, <2>0
    <3> QED
      BY <2>2, <3>1, <3>2, <3>3
  <2> QED
    BY <2>3, <2>4
<1>6. \A k \in 0 .. m : v[k] <= u[p[k + 1] - 1]
  <2> DEFINE B == {k \in 0 .. m : ~(v[k] <= u[p[k + 1] - 1])}
  <2>1. SUFFICES ASSUME B # {} PROVE FALSE
    OBVIOUS
  <2>2. B \in SUBSET Nat
    BY <1>0
  <2>3. PICK k \in B : \A j \in B : k <= j
    <3> HIDE DEF B
    <3> QED
      BY <2>1, <2>2, LeastOf
  <2>4. CASE k = 0
    <3>1. p[0 + 1] = 1 /\ v[0] = 0 /\ u[1 - 1] = 0
      BY <1>1, <1>2 DEF CutBy, Totals
    <3>2. v[k] <= u[p[k + 1] - 1]
      BY <2>4, <3>1
    <3> QED
      BY <2>3, <3>2
  <2>5. CASE k # 0
    <3>1. k \in 1 .. m /\ k - 1 \in 0 .. m /\ ~(k <= k - 1) /\ (k - 1) + 1 = k
      BY <1>0, <2>3, <2>5
    <3>2. v[k - 1] <= u[p[k] - 1]
      BY <2>3, <3>1
    <3>3. v[k] = v[k - 1] + Stages!Length(g[k]) /\ v[k - 1] \in Nat
      BY <1>2, <3>1 DEF Totals
    <3>4. Stages!Length(g[k]) <= u[p[k + 1] - 1] - u[p[k] - 1] /\ Stages!Length(g[k]) \in Nat
      BY <1>5, <3>1
    <3>5. u[p[k + 1] - 1] \in Nat /\ u[p[k] - 1] \in Nat
      <4>1. p[k + 1] - 1 \in 0 .. n /\ p[k] - 1 \in 0 .. n
        BY <1>0, <1>3, <3>1
      <4> QED
        BY <1>4, <4>1
    <3>6. v[k] <= u[p[k + 1] - 1]
      BY <3>2, <3>3, <3>4, <3>5
    <3> QED
      BY <2>3, <3>6
  <2> QED
    BY <2>4, <2>5
<1>7. p[m + 1] - 1 = n /\ m \in 0 .. m
  BY <1>0 DEF CutBy
<1> QED
  BY <1>1, <1>2, <1>6, <1>7

(* Trident, and Trident again.                                             *)
\* The same entries, some of them shorter.
Alike(e, x) ==
    x.ids = e.ids /\ (x = e \/ (e.body \in {"full"} \cup Stages!Stubs /\ x.body \in Stages!Stubs))

LEMMA AlikeIs ==
    ASSUME NEW e, NEW x, Alike(e, x)
    PROVE  /\ Stages!Id(x) = Stages!Id(e) /\ Stages!Arg(x) = Stages!Arg(e)
           /\ \A tools : Stages!IsCall(x, tools) <=> Stages!IsCall(e, tools)
<1>1. Stages!Id(x) = Stages!Id(e)
  BY Zenon DEF Alike, Stages!Id
<1>2. x.body \in {"full"} \cup Stages!Stubs <=> e.body \in {"full"} \cup Stages!Stubs
  BY DEF Alike
<1> QED
  BY <1>1, <1>2, Zenon DEF Stages!IsCall, Stages!Arg

\* What a stub does: it is no longer than its text, it fails if it says so.
LEMMA StubDoes ==
    ASSUME NEW e, EntryHolds(e), NEW body \in Stages!Stubs, NEW tools, Stages!IsCall(e, tools)
    PROVE  /\ Alike(e, Stages!Stubbed(e, body))
           /\ Stages!Length(Stages!Stubbed(e, body)) <= StubSize(body)
           /\ Stages!Length(Stages!Stubbed(e, body)) <= Stages!Length(e)
           /\ body \in {"fixed", "clustered"} /\ Stages!Failed(e) => Stages!Failed(Stages!Stubbed(e, body))
           /\ body \notin {"fixed", "clustered"} /\ Stages!Failed(Stages!Stubbed(e, body)) => Stages!Failed(e)
<1> DEFINE d == [e EXCEPT !.body = body]
           x == Stages!Stubbed(e, body)
<1>1. e \in Entries /\ e.body \in {"full"} \cup Stages!Stubs
  BY DEF EntryHolds, Stages!IsCall
<1>2. d \in Entries /\ d.body = body /\ d.ids = e.ids
  BY <1>1 DEF Entries, Bodies
<1>3. x = IF StubSize(body) < Stages!Length(e) THEN d ELSE e
  BY <1>1, StubIs
<1>4. Stages!Length(x) <= Stages!Length(e)
  BY <1>1, StubIs
<1> HIDE DEF d, x
<1>5. Stages!Length(d) = StubSize(body) /\ Stages!Length(e) \in Int /\ StubSize(body) \in Int
  BY <1>1, <1>2, LengthIs DEF StubSize
<1>6. Stages!Length(x) <= StubSize(body)
  BY <1>3, <1>5
<1>7. Alike(e, x)
  BY <1>1, <1>2, <1>3 DEF Alike
<1>8. Stages!Failed(d) <=> body \in {"fixed", "clustered"}
  BY <1>2 DEF Stages!Failed, Stages!Stubs
<1> QED
  BY <1>3, <1>4, <1>6, <1>7, <1>8 DEF x

LEMMA LastErrorIs ==
    ASSUME NEW h, Len(h) \in Nat
    PROVE  /\ Stages!LastError(h) \in 0 .. Len(h)
           /\ Stages!LastError(h) # 0 => Stages!Failed(h[Stages!LastError(h)])
           /\ \A j \in 1 .. Len(h) : Stages!Failed(h[j]) => j <= Stages!LastError(h)
<1> DEFINE bad == {i \in 1 .. Len(h) : Stages!Failed(h[i])}
           last == Stages!LastError(h)
           n == Len(h)
           S == {d \in 0 .. n : n - d \in bad}
<1>1. last = IF bad = {} THEN 0 ELSE CHOOSE i \in bad : \A j \in bad : j <= i
  BY Zenon DEF Stages!LastError
<1> HIDE DEF last
<1>2. bad \subseteq 1 .. n /\ \A j \in 1 .. n : j \in bad <=> Stages!Failed(h[j])
  OBVIOUS
<1> HIDE DEF bad, n
<1>3. n \in Nat
  BY DEF n
<1>4. CASE bad = {}
  BY <1>1, <1>2, <1>3, <1>4 DEF last, n
<1>5. CASE bad # {}
  <2>1. PICK b : b \in bad
    BY <1>5
  <2>2. n - b \in S /\ S \in SUBSET Nat
    BY <1>2, <1>3, <2>1
  <2>3. PICK d \in S : \A j \in S : d <= j
    <3> HIDE DEF S
    <3> QED
      BY <2>2, LeastOf
  <2>4. n - d \in bad /\ \A j \in bad : j <= n - d
    <3>1. d \in 0 .. n /\ n - d \in bad
      BY <2>3
    <3>2. \A j \in bad : n - j \in S
      BY <1>2, <1>3
    <3>3. \A j \in bad : d <= n - j
      BY <2>3, <3>2
    <3> QED
      BY <1>2, <1>3, <3>1, <3>3
  <2>5. last \in bad /\ \A j \in bad : j <= last
    BY <1>1, <1>5, <2>4
  <2>6. last \in 0 .. n /\ Stages!Failed(h[last])
    BY <1>2, <1>3, <2>5
  <2>7. \A j \in 1 .. n : Stages!Failed(h[j]) => j <= last
    BY <1>2, <2>5, Zenon
  <2> QED
    BY <2>6, <2>7, Zenon DEF last, n
<1> QED
  BY <1>4, <1>5

\* What superseding leaves of an entry.
LEMMA SupersedeDoes ==
    ASSUME NEW h, Kept(h), NEW s \in 1 .. Len(h) + 1, NEW i \in 1 .. Len(h)
    PROVE  /\ Alike(h[i], Stages!Supersede(h, s)[i])
           /\ Stages!Length(Stages!Supersede(h, s)[i]) <= Stages!Length(h[i])
           /\ Stages!Failed(Stages!Supersede(h, s)[i]) => Stages!Failed(h[i])
           /\ Stages!IsCall(h[i], {"run"}) /\ Stages!Failed(h[i]) => Stages!Failed(Stages!Supersede(h, s)[i])
<1> DEFINE x == Stages!Supersede(h, s)[i]
           y == Superseded(h, s, i)
<1>0. EntryHolds(h[i]) /\ h[i] \in Entries
  BY DEF Kept, EntryHolds
<1>1. x = IF i < s THEN y ELSE h[i]
  BY SupersedeStubs
<1>2. Stages!Length(h[i]) <= Stages!Length(h[i])
  BY <1>0, LengthIs
<1>3. /\ Alike(h[i], y) /\ Stages!Length(y) <= Stages!Length(h[i])
      /\ Stages!Failed(y) => Stages!Failed(h[i])
      /\ Stages!IsCall(h[i], {"run"}) /\ Stages!Failed(h[i]) => Stages!Failed(y)
  <2>1. CASE Stages!IsCall(h[i], {"read"}) /\ i # Stages!LastError(h) /\ Stages!Written(h, i)
    <3>1. y = Stages!Stubbed(h[i], "written") /\ ~Stages!IsCall(h[i], {"run"})
      BY <2>1 DEF Superseded, Stages!IsCall
    <3>2. "written" \in Stages!Stubs
      BY DEF Stages!Stubs
    <3> QED
      BY <1>0, <2>1, <3>1, <3>2, StubDoes
  <2>2. CASE Stages!IsCall(h[i], {"read"}) /\ i # Stages!LastError(h) /\ ~Stages!Written(h, i) /\ Stages!AgainBefore(h, i, s)
    <3>1. y = Stages!Stubbed(h[i], "reread") /\ ~Stages!IsCall(h[i], {"run"})
      BY <2>2 DEF Superseded, Stages!IsCall
    <3>2. "reread" \in Stages!Stubs
      BY DEF Stages!Stubs
    <3> QED
      BY <1>0, <2>2, <3>1, <3>2, StubDoes
  <2>3. CASE Stages!IsCall(h[i], {"search"}) /\ i # Stages!LastError(h) /\ Stages!AgainBefore(h, i, s)
    <3>1. y = Stages!Stubbed(h[i], "resought") /\ ~Stages!IsCall(h[i], {"run"})
      BY <2>3 DEF Superseded, Stages!IsCall
    <3>2. "resought" \in Stages!Stubs
      BY DEF Stages!Stubs
    <3> QED
      BY <1>0, <2>3, <3>1, <3>2, StubDoes
  <2>4. CASE Stages!IsCall(h[i], {"run"}) /\ Stages!Failed(h[i]) /\ Stages!Fixed(h, i)
    <3>1. y = Stages!Stubbed(h[i], "fixed")
      BY <2>4 DEF Superseded, Stages!IsCall
    <3>2. "fixed" \in Stages!Stubs
      BY DEF Stages!Stubs
    <3> QED
      BY <1>0, <2>4, <3>1, <3>2, StubDoes
  <2>5. CASE y = h[i]
    BY <1>2, <2>5 DEF Alike
  <2> QED
    BY <2>1, <2>2, <2>3, <2>4, <2>5, Zenon DEF Superseded
<1>4. CASE i < s
  BY <1>1, <1>3, <1>4
<1>5. CASE ~(i < s)
  BY <1>1, <1>2, <1>5 DEF Alike
<1> QED
  BY <1>4, <1>5

\* What clustering leaves of an entry.
LEMMA ClusterDoes ==
    ASSUME log \in Seq(Made), NEW h, Kept(h), NEW s \in 1 .. Len(h) + 1, NEW i \in 1 .. Len(h)
    PROVE  /\ Alike(h[i], Stages!Cluster(h, s)[i])
           /\ Stages!Length(Stages!Cluster(h, s)[i]) <= Stages!Length(h[i])
           /\ Stages!Failed(Stages!Cluster(h, s)[i]) <=> Stages!Failed(h[i])
<1>0. EntryHolds(h[i]) /\ h[i] \in Entries
  BY DEF Kept, EntryHolds
<1>1. Stages!Cluster(h, s)[i] = IF Clusters(h, s, i) THEN Stages!Stubbed(h[i], "clustered") ELSE h[i]
  BY ClusterStubs
<1>2. CASE Clusters(h, s, i)
  <2>1. "clustered" \in Stages!Stubs
    BY DEF Stages!Stubs
  <2> QED
    BY <1>0, <1>1, <1>2, <2>1, StubDoes DEF Clusters
<1>3. CASE ~Clusters(h, s, i)
  <2>1. Stages!Length(h[i]) <= Stages!Length(h[i])
    BY <1>0, LengthIs
  <2> QED
    BY <1>1, <1>3, <2>1 DEF Alike
<1> QED
  BY <1>2, <1>3

\* What Trident does of h with its region before s, step by step.
Passes(h, s, a, f, p, t, g) ==
    /\ Kept(h) /\ Kept(a) /\ Kept(f) /\ Kept(g) /\ s \in 1 .. Len(h) + 1
    /\ a = Stages!Supersede(h, s) /\ Len(a) = Len(h)
    /\ f = Stages!Collapse(a, s) /\ CutBy(a, s, 1, f, p)
    /\ t \in 1 .. Len(f) + 1 /\ p[t] = s
    /\ g = Stages!Cluster(f, t) /\ Len(g) = Len(f)

LEMMA TridentPasses ==
    ASSUME log \in Seq(Made), NEW h, Kept(h), NEW s \in 1 .. Len(h) + 1
    PROVE  \E a, f, p, t, g : Passes(h, s, a, f, p, t, g) /\ Stages!Trident(h, s) = [hist |-> g, tail |-> t]
<1> DEFINE a == Stages!Supersede(h, s)
           f == Stages!Collapse(a, s)
           t == s - (Len(h) - Len(f))
           g == Stages!Cluster(f, t)
<1>1. Stages!Trident(h, s) = [hist |-> g, tail |-> t]
  BY Zenon DEF Stages!Trident
<1>2. Stubs(h, a)
  BY SupersedeStubs
<1> HIDE DEF a
<1>3. Kept(a) /\ Len(a) = Len(h) /\ a \in Seq(Entries) /\ Len(h) \in Nat
  <2>1. Kept(a)
    BY <1>2, StubsKeep
  <2>2. Len(a) = Len(h) /\ a \in Seq(Entries)
    BY <1>2 DEF Stubs
  <2>3. Len(h) \in Nat
    BY DEF Kept
  <2> QED
    BY <2>1, <2>2, <2>3
<1>4. PICK p : CutBy(a, s, 1, f, p)
  BY <1>3, CollapseCuts
<1>5. Kept(f) /\ Len(f) \in Nat
  <2>1. Kept(f)
    BY <1>3, <1>4, CutKeeps
  <2> QED
    BY <2>1 DEF Kept
<1> HIDE DEF f
<1>6. Len(f) - (Len(h) - s) >= 1 /\ p[Len(f) - (Len(h) - s)] = s /\ t = Len(f) - (Len(h) - s)
  BY <1>3, <1>4, <1>5 DEF CutBy
<1>7. t \in 1 .. Len(f) + 1 /\ p[t] = s
  BY <1>3, <1>5, <1>6
<1> HIDE DEF t
<1>8. Stubs(f, g)
  BY <1>5, <1>7, ClusterStubs
<1>9. Kept(g) /\ Len(g) = Len(f)
  BY <1>5, <1>8, StubsKeep DEF Stubs
<1> HIDE DEF g
<1>10. Passes(h, s, a, f, p, t, g)
  BY <1>3, <1>4, <1>5, <1>7, <1>9 DEF Passes, a, f, g
<1> QED
  BY <1>1, <1>10, Zenon

\* The places of the cut, in order.
LEMMA PlacesOrder ==
    ASSUME NEW h, NEW s, NEW a, NEW f, NEW p, NEW t, NEW g, Passes(h, s, a, f, p, t, g)
    PROVE  /\ Len(h) \in Nat /\ s \in Nat /\ Len(g) \in Nat /\ t \in 1 .. Len(g) + 1
           /\ \A i \in 1 .. Len(g) : p[i] \in 1 .. Len(h)
           /\ \A i, j \in 1 .. Len(g) : i < j <=> p[i] < p[j]
           /\ \A i \in 1 .. Len(g) : i < t <=> p[i] < s
<1>1. Len(h) \in Nat /\ s \in Nat /\ Len(g) \in Nat /\ t \in 1 .. Len(g) + 1 /\ Len(a) = Len(h) /\ Len(f) = Len(g)
      /\ p[t] = s
  BY DEF Passes, Kept
<1>2. \A i \in 1 .. Len(g) : p[i] \in 1 .. Len(h)
  <2>1. Kept(a) /\ s \in 1 .. Len(a) + 1 /\ CutBy(a, s, 1, f, p)
    BY DEF Passes
  <2> QED
    BY <1>1, <2>1, HeadIds
<1>3. \A i, j \in 1 .. Len(g) + 1 : i < j => p[i] < p[j]
  BY <1>1 DEF Passes, CutBy
<1>4. \A i \in 1 .. Len(g) + 1 : p[i] \in Int
  <2>1. p \in [1 .. Len(g) + 1 -> 1 .. Len(h) + 1]
    BY <1>1, Zenon DEF Passes, CutBy
  <2> QED
    BY <1>1, <2>1
<1>5. \A i, j \in 1 .. Len(g) + 1 : i < j <=> p[i] < p[j]
  <2> SUFFICES ASSUME NEW i \in 1 .. Len(g) + 1, NEW j \in 1 .. Len(g) + 1 PROVE i < j <=> p[i] < p[j]
    OBVIOUS
  <2>1. p[i] \in Int /\ p[j] \in Int /\ i \in Int /\ j \in Int
    BY <1>1, <1>4
  <2>2. (i < j => p[i] < p[j]) /\ (j < i => p[j] < p[i])
    BY <1>3
  <2>3. i = j => p[i] = p[j]
    OBVIOUS
  <2> QED
    BY <2>1, <2>2, <2>3
<1>6. \A i \in 1 .. Len(g) : i \in 1 .. Len(g) + 1
  BY <1>1
<1>7. \A i \in 1 .. Len(g) : i < t <=> p[i] < s
  BY <1>1, <1>5, <1>6
<1> QED
  BY <1>1, <1>2, <1>5, <1>6, <1>7

\* An entry that is not a note was there before.
LEMMA Survivor ==
    ASSUME log \in Seq(Made), NEW h, NEW s, NEW a, NEW f, NEW p, NEW t, NEW g, Passes(h, s, a, f, p, t, g),
           NEW i \in 1 .. Len(g), ~FoldsAt(a, s, p[i])
    PROVE  /\ f[i] = a[p[i]] /\ p[i + 1] = p[i] + 1
           /\ Alike(h[p[i]], a[p[i]]) /\ Alike(f[i], g[i])
           /\ Stages!Id(g[i]) = Stages!Id(h[p[i]]) /\ Stages!Arg(g[i]) = Stages!Arg(h[p[i]])
           /\ \A tools : Stages!IsCall(g[i], tools) <=> Stages!IsCall(h[p[i]], tools)
           /\ Stages!Length(g[i]) <= Stages!Length(a[p[i]])
           /\ Stages!Failed(g[i]) => Stages!Failed(h[p[i]])
           /\ Stages!IsCall(g[i], {"run"}) /\ Stages!Failed(h[p[i]]) => Stages!Failed(g[i])
<1>1. Len(f) = Len(g) /\ Kept(h) /\ Kept(f) /\ s \in 1 .. Len(h) + 1 /\ t \in 1 .. Len(f) + 1
      /\ a = Stages!Supersede(h, s) /\ g = Stages!Cluster(f, t)
  BY DEF Passes
<1>2. f[i] = a[p[i]] /\ p[i + 1] = p[i] + 1
  <2>1. f[i] = HeadAt(a, s, p[i]) /\ p[i + 1] = NextAt(a, s, p[i])
    BY <1>1 DEF Passes, CutBy
  <2> QED
    BY <2>1 DEF HeadAt, NextAt
<1>3. p[i] \in 1 .. Len(h)
  BY PlacesOrder
<1> DEFINE q == p[i]
<1>4. q \in 1 .. Len(h) /\ f[i] = a[q]
  BY <1>2, <1>3
<1> HIDE DEF q
<1>5. /\ Alike(h[q], a[q]) /\ (Stages!Failed(a[q]) => Stages!Failed(h[q]))
      /\ Stages!IsCall(h[q], {"run"}) /\ Stages!Failed(h[q]) => Stages!Failed(a[q])
  BY <1>1, <1>4, SupersedeDoes
<1>6. /\ Alike(f[i], g[i]) /\ Stages!Length(g[i]) <= Stages!Length(f[i])
      /\ Stages!Failed(g[i]) <=> Stages!Failed(f[i])
  BY <1>1, ClusterDoes
<1>7. Stages!Id(g[i]) = Stages!Id(h[q]) /\ Stages!Arg(g[i]) = Stages!Arg(h[q])
  BY <1>4, <1>5, <1>6, AlikeIs
<1>8. \A tools : Stages!IsCall(g[i], tools) <=> Stages!IsCall(h[q], tools)
  BY <1>4, <1>5, <1>6, AlikeIs
<1> QED
  BY <1>2, <1>4, <1>5, <1>6, <1>7, <1>8 DEF q

\* A note is no call and no failure.
LEMMA NoteIsNone ==
    ASSUME log \in Seq(Made), NEW h, NEW s, NEW a, NEW f, NEW p, NEW t, NEW g, Passes(h, s, a, f, p, t, g),
           NEW i \in 1 .. Len(g), FoldsAt(a, s, p[i])
    PROVE  g[i].body = "folded" /\ ~Stages!Failed(g[i]) /\ \A tools : ~Stages!IsCall(g[i], tools)
<1>1. Len(f) = Len(g) /\ Kept(f) /\ Kept(a) /\ Len(a) = Len(h) /\ s \in 1 .. Len(h) + 1 /\ t \in 1 .. Len(f) + 1
      /\ g = Stages!Cluster(f, t) /\ a \in Seq(Entries)
  BY DEF Passes, Kept
<1>2. f[i] = NoteAt(a, s, p[i])
  <2>1. f[i] = HeadAt(a, s, p[i])
    BY <1>1 DEF Passes, CutBy
  <2> QED
    BY <2>1 DEF HeadAt
<1>3. p[i] \in 1 .. s - 1
  <2>1. p[i] \in 1 .. Len(h) /\ s \in Nat /\ Len(h) \in Nat
    BY PlacesOrder
  <2> QED
    BY <2>1 DEF FoldsAt
<1>4. f[i].body = "folded"
  BY <1>1, <1>2, <1>3, NoteIs
<1>5. Alike(f[i], g[i])
  BY <1>1, ClusterDoes
<1>6. g[i].body = "folded"
  BY <1>4, <1>5 DEF Alike, Stages!Stubs
<1> QED
  BY <1>6 DEF Stages!Failed, Stages!IsCall, Stages!Stubs

\* A call that does not explore survives.
LEMMA DeedSurvives ==
    ASSUME log \in Seq(Made), NEW h, NEW s, NEW a, NEW f, NEW p, NEW t, NEW g, Passes(h, s, a, f, p, t, g),
           NEW j \in 1 .. Len(h), ~Stages!IsCall(h[j], Stages!Explores)
    PROVE  \E k \in 1 .. Len(g) : p[k] = j /\ ~FoldsAt(a, s, p[k])
<1>1. Len(f) = Len(g) /\ Kept(h) /\ Kept(a) /\ Len(a) = Len(h) /\ s \in 1 .. Len(h) + 1
      /\ a = Stages!Supersede(h, s) /\ CutBy(a, s, 1, f, p) /\ Len(h) \in Nat /\ s \in Nat
  <2>1. Len(h) \in Nat /\ s \in Nat
    BY PlacesOrder
  <2> QED
    BY <2>1 DEF Passes
<1>2. PICK k \in 1 .. Len(g) : p[k] <= j /\ j < p[k + 1]
  BY <1>1 DEF CutBy
<1>3. Alike(h[j], a[j])
  BY <1>1, SupersedeDoes
<1>4. ~Stages!IsCall(a[j], Stages!Explores)
  BY <1>3, AlikeIs
<1>5. p[k] \in 1 .. Len(h) /\ p[k + 1] = NextAt(a, s, p[k])
  BY <1>1, PlacesOrder DEF CutBy
<1>6. ~FoldsAt(a, s, p[k])
  <2> SUFFICES ASSUME FoldsAt(a, s, p[k]) PROVE FALSE
    OBVIOUS
  <2>1. p[k + 1] = EndAt(a, s, p[k]) /\ p[k] \in 1 .. s - 1
    BY <1>1, <1>5 DEF NextAt, FoldsAt
  <2>2. \A x \in p[k] .. EndAt(a, s, p[k]) - 1 : Stages!IsCall(a[x], Stages!Explores)
    BY <1>1, <2>1, EndIs
  <2>3. EndAt(a, s, p[k]) \in Int
    <3>1. EndAt(a, s, p[k]) \in p[k] .. s
      BY <1>1, <2>1, EndIs
    <3> QED
      BY <1>1, <1>5, <3>1
  <2>4. j \in p[k] .. EndAt(a, s, p[k]) - 1
    BY <1>2, <1>5, <2>1, <2>3
  <2> QED
    BY <1>4, <2>2, <2>4
<1>7. p[k] = j
  BY <1>1, <1>2, <1>5, <1>6 DEF NextAt
<1> QED
  BY <1>6, <1>7

LEMMA CallSurvives ==
    ASSUME log \in Seq(Made), NEW h, NEW s, NEW a, NEW f, NEW p, NEW t, NEW g, Passes(h, s, a, f, p, t, g),
           NEW i \in 1 .. Len(g), NEW tools, Stages!IsCall(g[i], tools)
    PROVE  ~FoldsAt(a, s, p[i]) /\ Stages!IsCall(h[p[i]], tools) /\ p[i] \in 1 .. Len(h)
<1>1. ~FoldsAt(a, s, p[i])
  BY NoteIsNone
<1>2. p[i] \in 1 .. Len(h)
  BY PlacesOrder
<1>3. Stages!IsCall(h[p[i]], tools)
  BY <1>1, Survivor
<1> QED
  BY <1>1, <1>2, <1>3

LEMMA Unstubbed ==
    ASSUME NEW e \in Entries, NEW body \in Stages!Stubs, Stages!Length(e) <= StubSize(body)
    PROVE  Stages!Stubbed(e, body) = e
<1>1. Stages!Length(e) \in Int /\ StubSize(body) \in Int
  BY LengthIs DEF StubSize
<1> QED
  BY <1>1, StubIs

\* How long a superseded entry can be.
LEMMA SupersededShort ==
    ASSUME NEW h, Kept(h), NEW s \in 1 .. Len(h) + 1, NEW i \in 1 .. Len(h), i < s
    PROVE  /\ Stages!IsCall(h[i], {"read"}) /\ i # Stages!LastError(h) /\ Stages!Written(h, i)
              => Stages!Length(Stages!Supersede(h, s)[i]) <= 4
           /\ Stages!IsCall(h[i], {"read"}) /\ i # Stages!LastError(h) /\ ~Stages!Written(h, i)
              /\ Stages!AgainBefore(h, i, s)
              => Stages!Length(Stages!Supersede(h, s)[i]) <= 3
           /\ Stages!IsCall(h[i], {"search"}) /\ i # Stages!LastError(h) /\ Stages!AgainBefore(h, i, s)
              => Stages!Length(Stages!Supersede(h, s)[i]) <= 3
           /\ Stages!IsCall(h[i], {"run"}) /\ Stages!Failed(h[i]) /\ Stages!Fixed(h, i)
              => Stages!Length(Stages!Supersede(h, s)[i]) <= 3
           /\ Stages!IsCall(h[i], Stages!Explores) /\ i = Stages!LastError(h)
              => Stages!Supersede(h, s)[i] = h[i]
<1> DEFINE x == Stages!Supersede(h, s)[i]
           y == Superseded(h, s, i)
<1>0. EntryHolds(h[i]) /\ h[i] \in Entries
  BY DEF Kept, EntryHolds
<1>1. x = y
  BY SupersedeStubs
<1>2. /\ StubSize("written") = 4 /\ StubSize("reread") = 3 /\ StubSize("resought") = 3 /\ StubSize("fixed") = 3
      /\ {"written", "reread", "resought", "fixed"} \subseteq Stages!Stubs
  BY DEF StubSize, Stages!Stubs
<1> HIDE DEF x, y
<1>3. ASSUME Stages!IsCall(h[i], {"read"}), i # Stages!LastError(h), Stages!Written(h, i)
      PROVE  Stages!Length(x) <= 4
  <2>1. y = Stages!Stubbed(h[i], "written")
    BY <1>3 DEF Superseded, Stages!IsCall, y
  <2> QED
    BY <1>0, <1>1, <1>2, <1>3, <2>1, StubDoes
<1>4. ASSUME Stages!IsCall(h[i], {"read"}), i # Stages!LastError(h), ~Stages!Written(h, i), Stages!AgainBefore(h, i, s)
      PROVE  Stages!Length(x) <= 3
  <2>1. y = Stages!Stubbed(h[i], "reread")
    BY <1>4 DEF Superseded, Stages!IsCall, y
  <2> QED
    BY <1>0, <1>1, <1>2, <1>4, <2>1, StubDoes
<1>5. ASSUME Stages!IsCall(h[i], {"search"}), i # Stages!LastError(h), Stages!AgainBefore(h, i, s)
      PROVE  Stages!Length(x) <= 3
  <2>1. y = Stages!Stubbed(h[i], "resought")
    BY <1>5 DEF Superseded, Stages!IsCall, y
  <2> QED
    BY <1>0, <1>1, <1>2, <1>5, <2>1, StubDoes
<1>6. ASSUME Stages!IsCall(h[i], {"run"}), Stages!Failed(h[i]), Stages!Fixed(h, i)
      PROVE  Stages!Length(x) <= 3
  <2>1. y = Stages!Stubbed(h[i], "fixed")
    BY <1>6 DEF Superseded, Stages!IsCall, y
  <2> QED
    BY <1>0, <1>1, <1>2, <1>6, <2>1, StubDoes
<1>7. ASSUME Stages!IsCall(h[i], Stages!Explores), i = Stages!LastError(h) PROVE x = h[i]
  <2>1. ~Stages!IsCall(h[i], {"run"})
    BY <1>7 DEF Stages!IsCall, Stages!Explores
  <2>2. y = h[i]
    BY <1>7, <2>1, Zenon DEF Superseded, y
  <2> QED
    BY <1>1, <2>2
<1> QED
  BY <1>3, <1>4, <1>5, <1>6, <1>7, Zenon DEF x

\* An exploring call that was the last error still is.
LEMMA LastStays ==
    ASSUME log \in Seq(Made), NEW h, NEW s, NEW a, NEW f, NEW p, NEW t, NEW g, Passes(h, s, a, f, p, t, g),
           NEW i \in 1 .. Len(g), Stages!IsCall(g[i], Stages!Explores), p[i] = Stages!LastError(h)
    PROVE  i = Stages!LastError(g)
<1>1. /\ ~FoldsAt(a, s, p[i]) /\ Stages!IsCall(h[p[i]], Stages!Explores) /\ p[i] \in 1 .. Len(h)
  BY CallSurvives
<1>2. /\ Len(h) \in Nat /\ s \in Nat /\ Len(g) \in Nat
      /\ \A j \in 1 .. Len(g) : p[j] \in 1 .. Len(h)
      /\ \A j \in 1 .. Len(g) : i < j <=> p[i] < p[j]
  BY PlacesOrder
<1>3. Kept(h) /\ s \in 1 .. Len(h) + 1 /\ a = Stages!Supersede(h, s) /\ g = Stages!Cluster(f, t) /\ Kept(f) /\ t \in 1 .. Len(f) + 1
      /\ Len(f) = Len(g)
  BY DEF Passes
<1>4. Stages!Failed(h[p[i]]) /\ \A j \in 1 .. Len(h) : Stages!Failed(h[j]) => j <= p[i]
  BY <1>1, <1>2, LastErrorIs
<1>5. a[p[i]] = h[p[i]]
  <2>1. CASE p[i] < s
    BY <1>1, <1>3, <2>1, SupersededShort
  <2>2. CASE ~(p[i] < s)
    BY <1>1, <1>3, <2>2, SupersedeStubs
  <2> QED
    BY <2>1, <2>2
<1>6. f[i] = a[p[i]]
  BY <1>1, Survivor
<1>7. Stages!Failed(g[i])
  <2>1. Stages!Failed(g[i]) <=> Stages!Failed(f[i])
    BY <1>3, ClusterDoes
  <2> QED
    BY <1>4, <1>5, <1>6, <2>1
<1>8. ASSUME NEW j \in 1 .. Len(g), Stages!Failed(g[j]) PROVE j <= i
  <2>1. ~FoldsAt(a, s, p[j])
    BY <1>8, NoteIsNone
  <2>2. Stages!Failed(h[p[j]])
    BY <1>8, <2>1, Survivor
  <2>3. p[j] \in 1 .. Len(h) /\ p[j] <= p[i]
    BY <1>2, <1>4, <2>2
  <2>4. ~(p[i] < p[j])
    BY <1>1, <1>2, <2>3
  <2> QED
    BY <1>2, <2>4
<1> DEFINE last == Stages!LastError(g)
<1>9. last \in 0 .. Len(g) /\ (last # 0 => Stages!Failed(g[last])) /\ i <= last
  BY <1>2, <1>7, LastErrorIs
<1> HIDE DEF last
<1>10. last \in 1 .. Len(g) /\ Stages!Failed(g[last])
  BY <1>2, <1>9
<1>11. last <= i
  BY <1>8, <1>10
<1> QED
  BY <1>2, <1>9, <1>10, <1>11 DEF last

\* What the stages ask of the later calls is as it was.
LEMMA AsksAlike ==
    ASSUME log \in Seq(Made), NEW h, NEW s, NEW a, NEW f, NEW p, NEW t, NEW g, Passes(h, s, a, f, p, t, g),
           NEW i \in 1 .. Len(g), ~FoldsAt(a, s, p[i])
    PROVE  /\ Stages!Written(g, i) <=> Stages!Written(h, p[i])
           /\ Stages!AgainBefore(g, i, t) => Stages!AgainBefore(h, p[i], s)
           /\ Stages!Fixed(g, i) => Stages!Fixed(h, p[i])
<1>1. /\ Len(h) \in Nat /\ s \in Nat /\ Len(g) \in Nat /\ t \in 1 .. Len(g) + 1
      /\ \A j \in 1 .. Len(g) : p[j] \in 1 .. Len(h)
      /\ \A j \in 1 .. Len(g) : i < j <=> p[i] < p[j]
      /\ \A j \in 1 .. Len(g) : j < t <=> p[j] < s
  BY PlacesOrder
<1>2. Stages!Id(g[i]) = Stages!Id(h[p[i]]) /\ Stages!Arg(g[i]) = Stages!Arg(h[p[i]])
  BY Survivor
<1>3. ASSUME NEW j \in i + 1 .. Len(g), NEW tools, Stages!IsCall(g[j], tools)
      PROVE  /\ p[j] \in p[i] + 1 .. Len(h) /\ Stages!IsCall(h[p[j]], tools) /\ Stages!Arg(h[p[j]]) = Stages!Arg(g[j])
             /\ Stages!IsCall(g[j], {"run"}) /\ ~Stages!Failed(g[j]) => ~Stages!Failed(h[p[j]])
             /\ j < t => p[j] < s
  <2>1. j \in 1 .. Len(g) /\ i < j
    BY <1>1
  <2>2. ~FoldsAt(a, s, p[j]) /\ Stages!IsCall(h[p[j]], tools)
    BY <1>3, <2>1, CallSurvives
  <2>3. Stages!Arg(h[p[j]]) = Stages!Arg(g[j]) /\ (Stages!IsCall(g[j], {"run"}) /\ ~Stages!Failed(g[j]) => ~Stages!Failed(h[p[j]]))
    BY <2>1, <2>2, Survivor
  <2>4. p[i] \in 1 .. Len(h) /\ p[j] \in 1 .. Len(h) /\ p[i] < p[j] /\ (j < t => p[j] < s)
    BY <1>1, <2>1
  <2>5. p[j] \in p[i] + 1 .. Len(h)
    BY <1>1, <2>4
  <2> QED
    BY <2>2, <2>3, <2>4, <2>5
<1>4. Stages!Written(g, i) => Stages!Written(h, p[i])
  <2>1. CASE Stages!InTracker(Stages!Arg(g[i]))
    BY <1>2, <2>1 DEF Stages!Written
  <2>2. CASE \E j \in i + 1 .. Len(g) : Stages!IsCall(g[j], {"write"}) /\ Stages!Arg(g[j]) = Stages!Arg(g[i])
    <3>1. PICK j \in i + 1 .. Len(g) : Stages!IsCall(g[j], {"write"}) /\ Stages!Arg(g[j]) = Stages!Arg(g[i])
      BY <2>2
    <3>2. p[j] \in p[i] + 1 .. Len(h) /\ Stages!IsCall(h[p[j]], {"write"}) /\ Stages!Arg(h[p[j]]) = Stages!Arg(g[j])
      BY <1>3, <3>1
    <3> QED
      BY <1>2, <3>1, <3>2, Zenon DEF Stages!Written
  <2> QED
    BY <2>1, <2>2 DEF Stages!Written
<1>5. Stages!Written(h, p[i]) => Stages!Written(g, i)
  <2>1. CASE Stages!InTracker(Stages!Arg(h[p[i]]))
    BY <1>2, <2>1 DEF Stages!Written
  <2>2. CASE \E j \in p[i] + 1 .. Len(h) : Stages!IsCall(h[j], {"write"}) /\ Stages!Arg(h[j]) = Stages!Arg(h[p[i]])
    <3>1. PICK j \in p[i] + 1 .. Len(h) : Stages!IsCall(h[j], {"write"}) /\ Stages!Arg(h[j]) = Stages!Arg(h[p[i]])
      BY <2>2
    <3>2. j \in 1 .. Len(h) /\ p[i] < j
      BY <1>1
    <3>3. ~Stages!IsCall(h[j], Stages!Explores)
      BY <3>1 DEF Stages!IsCall, Stages!Explores
    <3>4. PICK k \in 1 .. Len(g) : p[k] = j /\ ~FoldsAt(a, s, p[k])
      BY <3>2, <3>3, DeedSurvives
    <3>5. Stages!IsCall(g[k], {"write"}) /\ Stages!Arg(g[k]) = Stages!Arg(h[j])
      <4>1. Stages!Arg(g[k]) = Stages!Arg(h[p[k]])
        BY <3>4, Survivor
      <4>2. Stages!IsCall(g[k], {"write"}) <=> Stages!IsCall(h[p[k]], {"write"})
        <5>1. \A tools : Stages!IsCall(g[k], tools) <=> Stages!IsCall(h[p[k]], tools)
          BY <3>4, Survivor
        <5> QED
          BY <5>1, Zenon
      <4> QED
        BY <3>1, <3>4, <4>1, <4>2
    <3>6. k \in i + 1 .. Len(g)
      BY <1>1, <3>2, <3>4
    <3> QED
      BY <1>2, <3>1, <3>5, <3>6, Zenon DEF Stages!Written
  <2> QED
    BY <2>1, <2>2 DEF Stages!Written
<1>6. Stages!AgainBefore(g, i, t) => Stages!AgainBefore(h, p[i], s)
  <2> SUFFICES ASSUME Stages!AgainBefore(g, i, t) PROVE Stages!AgainBefore(h, p[i], s)
    OBVIOUS
  <2>1. PICK j \in i + 1 .. t - 1 : Stages!IsCall(g[j], {log[Stages!Id(g[i])].tool}) /\ Stages!Arg(g[j]) = Stages!Arg(g[i])
    BY DEF Stages!AgainBefore
  <2>2. j \in i + 1 .. Len(g) /\ j < t
    BY <1>1
  <2>3. /\ p[j] \in p[i] + 1 .. Len(h) /\ Stages!IsCall(h[p[j]], {log[Stages!Id(g[i])].tool})
        /\ Stages!Arg(h[p[j]]) = Stages!Arg(g[j]) /\ p[j] < s
    BY <1>3, <2>1, <2>2
  <2>4. p[j] \in p[i] + 1 .. s - 1
    BY <1>1, <2>3
  <2> QED
    BY <1>2, <2>1, <2>3, <2>4, Zenon DEF Stages!AgainBefore
<1>7. Stages!Fixed(g, i) => Stages!Fixed(h, p[i])
  <2> SUFFICES ASSUME Stages!Fixed(g, i) PROVE Stages!Fixed(h, p[i])
    OBVIOUS
  <2>1. PICK j \in i + 1 .. Len(g) : Stages!IsCall(g[j], {"run"}) /\ Stages!Arg(g[j]) = Stages!Arg(g[i]) /\ ~Stages!Failed(g[j])
    BY DEF Stages!Fixed
  <2>2. /\ p[j] \in p[i] + 1 .. Len(h) /\ Stages!IsCall(h[p[j]], {"run"})
        /\ Stages!Arg(h[p[j]]) = Stages!Arg(g[j]) /\ ~Stages!Failed(h[p[j]])
    BY <1>3, <2>1
  <2> QED
    BY <1>2, <2>1, <2>2, Zenon DEF Stages!Fixed
<1> QED
  BY <1>4, <1>5, <1>6, <1>7

\* Superseding, collapsing and clustering once more change nothing.
LEMMA SupersedesOnce ==
    ASSUME log \in Seq(Made), NEW h, NEW s, NEW a, NEW f, NEW p, NEW t, NEW g, Passes(h, s, a, f, p, t, g)
    PROVE  Stages!Supersede(g, t) = g
<1>1. /\ Kept(h) /\ Kept(g) /\ Len(f) = Len(g) /\ t \in 1 .. Len(g) + 1 /\ s \in 1 .. Len(h) + 1
      /\ a = Stages!Supersede(h, s) /\ g \in Seq(Entries)
  BY DEF Passes, Kept
<1>2. ASSUME NEW i \in 1 .. Len(g), i < t PROVE Superseded(g, t, i) = g[i]
  <2>1. EntryHolds(g[i]) /\ g[i] \in Entries
    BY <1>1 DEF Kept, EntryHolds
  <2>2. ~FoldsAt(a, s, p[i]) =>
          /\ Stages!Written(g, i) <=> Stages!Written(h, p[i])
          /\ Stages!AgainBefore(g, i, t) => Stages!AgainBefore(h, p[i], s)
          /\ Stages!Fixed(g, i) => Stages!Fixed(h, p[i])
    BY AsksAlike
  <2>3. p[i] < s
    BY <1>2, PlacesOrder
  <2>4. /\ StubSize("written") = 4 /\ StubSize("reread") = 3 /\ StubSize("resought") = 3 /\ StubSize("fixed") = 3
        /\ "written" \in Stages!Stubs /\ "reread" \in Stages!Stubs /\ "resought" \in Stages!Stubs /\ "fixed" \in Stages!Stubs
    BY DEF StubSize, Stages!Stubs
  <2>5. \A tools : Stages!IsCall(g[i], tools)
                   => ~FoldsAt(a, s, p[i]) /\ Stages!IsCall(h[p[i]], tools) /\ p[i] \in 1 .. Len(h)
    BY CallSurvives
  <2>6. ~FoldsAt(a, s, p[i]) => Stages!Length(g[i]) <= Stages!Length(a[p[i]])
    BY Survivor
  <2>7. Stages!Length(g[i]) \in Int /\ (p[i] \in 1 .. Len(h) => Stages!Length(a[p[i]]) \in Int)
    <3>1. p[i] \in 1 .. Len(h) => a[p[i]] \in Entries
      BY <1>1, SupersedeStubs DEF Stubs, EntryHolds
    <3> QED
      BY <2>1, <3>1, LengthIs
  <2>8. Stages!IsCall(g[i], Stages!Explores) /\ i # Stages!LastError(g) => p[i] # Stages!LastError(h)
    BY LastStays
  <2>9. Stages!IsCall(g[i], {"read"}) \/ Stages!IsCall(g[i], {"search"}) => Stages!IsCall(g[i], Stages!Explores)
    BY DEF Stages!IsCall, Stages!Explores
  <2> DEFINE q == p[i]
  <2>10. q \in 1 .. Len(h) =>
           /\ Stages!IsCall(h[q], {"read"}) /\ q # Stages!LastError(h) /\ Stages!Written(h, q) => Stages!Length(a[q]) <= 4
           /\ Stages!IsCall(h[q], {"read"}) /\ q # Stages!LastError(h) /\ ~Stages!Written(h, q)
              /\ Stages!AgainBefore(h, q, s) => Stages!Length(a[q]) <= 3
           /\ Stages!IsCall(h[q], {"search"}) /\ q # Stages!LastError(h) /\ Stages!AgainBefore(h, q, s)
              => Stages!Length(a[q]) <= 3
           /\ Stages!IsCall(h[q], {"run"}) /\ Stages!Failed(h[q]) /\ Stages!Fixed(h, q) => Stages!Length(a[q]) <= 3
    BY <1>1, <2>3, SupersededShort
  <2>11. CASE Stages!IsCall(g[i], {"read"}) /\ i # Stages!LastError(g) /\ Stages!Written(g, i)
    <3>1. Superseded(g, t, i) = Stages!Stubbed(g[i], "written")
      BY <2>11 DEF Superseded, Stages!IsCall
    <3>2. Stages!IsCall(h[q], {"read"}) /\ q \in 1 .. Len(h) /\ ~FoldsAt(a, s, q)
      BY <2>5, <2>11
    <3>3. q # Stages!LastError(h)
      BY <2>8, <2>9, <2>11
    <3>4. Stages!Written(h, q)
      BY <2>2, <2>11, <3>2
    <3>5. Stages!Length(a[q]) <= 4
      BY <2>10, <3>2, <3>3, <3>4
    <3>6. Stages!Length(g[i]) <= Stages!Length(a[q]) /\ Stages!Length(a[q]) \in Int
      BY <2>6, <2>7, <3>2
    <3>7. Stages!Length(g[i]) <= StubSize("written")
      BY <2>4, <2>7, <3>5, <3>6
    <3> QED
      BY <2>1, <2>4, <3>1, <3>7, Unstubbed
  <2>12. CASE Stages!IsCall(g[i], {"read"}) /\ i # Stages!LastError(g) /\ ~Stages!Written(g, i) /\ Stages!AgainBefore(g, i, t)
    <3>1. Superseded(g, t, i) = Stages!Stubbed(g[i], "reread")
      BY <2>12 DEF Superseded, Stages!IsCall
    <3>2. Stages!IsCall(h[q], {"read"}) /\ q \in 1 .. Len(h) /\ ~FoldsAt(a, s, q)
      BY <2>5, <2>12
    <3>3. q # Stages!LastError(h)
      BY <2>8, <2>9, <2>12
    <3>4. ~Stages!Written(h, q) /\ Stages!AgainBefore(h, q, s)
      BY <2>2, <2>12, <3>2
    <3>5. Stages!Length(a[q]) <= 3
      BY <2>10, <3>2, <3>3, <3>4
    <3>6. Stages!Length(g[i]) <= Stages!Length(a[q]) /\ Stages!Length(a[q]) \in Int
      BY <2>6, <2>7, <3>2
    <3>7. Stages!Length(g[i]) <= StubSize("reread")
      BY <2>4, <2>7, <3>5, <3>6
    <3> QED
      BY <2>1, <2>4, <3>1, <3>7, Unstubbed
  <2>13. CASE Stages!IsCall(g[i], {"search"}) /\ i # Stages!LastError(g) /\ Stages!AgainBefore(g, i, t)
    <3>1. Superseded(g, t, i) = Stages!Stubbed(g[i], "resought")
      BY <2>13 DEF Superseded, Stages!IsCall
    <3>2. Stages!IsCall(h[q], {"search"}) /\ q \in 1 .. Len(h) /\ ~FoldsAt(a, s, q)
      BY <2>5, <2>13
    <3>3. q # Stages!LastError(h)
      BY <2>8, <2>9, <2>13
    <3>4. Stages!AgainBefore(h, q, s)
      BY <2>2, <2>13, <3>2
    <3>5. Stages!Length(a[q]) <= 3
      BY <2>10, <3>2, <3>3, <3>4
    <3>6. Stages!Length(g[i]) <= Stages!Length(a[q]) /\ Stages!Length(a[q]) \in Int
      BY <2>6, <2>7, <3>2
    <3>7. Stages!Length(g[i]) <= StubSize("resought")
      BY <2>4, <2>7, <3>5, <3>6
    <3> QED
      BY <2>1, <2>4, <3>1, <3>7, Unstubbed
  <2>14. CASE Stages!IsCall(g[i], {"run"}) /\ Stages!Failed(g[i]) /\ Stages!Fixed(g, i)
    <3>1. Superseded(g, t, i) = Stages!Stubbed(g[i], "fixed")
      BY <2>14 DEF Superseded, Stages!IsCall
    <3>2. Stages!IsCall(h[q], {"run"}) /\ q \in 1 .. Len(h) /\ ~FoldsAt(a, s, q)
      BY <2>5, <2>14
    <3>3. Stages!Failed(h[q])
      BY <2>14, <3>2, Survivor
    <3>4. Stages!Fixed(h, q)
      BY <2>2, <2>14, <3>2
    <3>5. Stages!Length(a[q]) <= 3
      BY <2>10, <3>2, <3>3, <3>4
    <3>6. Stages!Length(g[i]) <= Stages!Length(a[q]) /\ Stages!Length(a[q]) \in Int
      BY <2>6, <2>7, <3>2
    <3>7. Stages!Length(g[i]) <= StubSize("fixed")
      BY <2>4, <2>7, <3>5, <3>6
    <3> QED
      BY <2>1, <2>4, <3>1, <3>7, Unstubbed
  <2>15. CASE Superseded(g, t, i) = g[i]
    BY <2>15
  <2> QED
    BY <2>11, <2>12, <2>13, <2>14, <2>15, Zenon DEF Superseded
<1> DEFINE x == Stages!Supersede(g, t)
<1>3. x \in Seq(Entries) /\ Len(x) = Len(g)
  BY <1>1, SupersedeStubs DEF Stubs
<1>4. \A i \in 1 .. Len(g) : x[i] = IF i < t THEN Superseded(g, t, i) ELSE g[i]
  BY <1>1, SupersedeStubs
<1> HIDE DEF x
<1>5. \A i \in 1 .. Len(g) : x[i] = g[i]
  BY <1>2, <1>4
<1>6. x = g
  BY <1>1, <1>3, <1>5
<1> QED
  BY <1>6 DEF x

\* A stretch that was left stays.
LEMMA NothingFolds ==
    ASSUME log \in Seq(Made), NEW h, NEW s, NEW a, NEW f, NEW p, NEW t, NEW g, Passes(h, s, a, f, p, t, g),
           NEW i \in 1 .. Len(g)
    PROVE  ~FoldsAt(g, t, i)
<1> SUFFICES ASSUME FoldsAt(g, t, i) PROVE FALSE
  OBVIOUS
<1> DEFINE e == EndAt(g, t, i)
           q == p[i]
           E == EndAt(a, s, q)
<1>1. /\ Kept(h) /\ Kept(a) /\ Kept(f) /\ Kept(g) /\ Len(f) = Len(g) /\ Len(a) = Len(h) /\ s \in 1 .. Len(h) + 1
      /\ a = Stages!Supersede(h, s) /\ g = Stages!Cluster(f, t) /\ p[t] = s
  BY DEF Passes
<1>2. /\ Len(h) \in Nat /\ s \in Nat /\ Len(g) \in Nat /\ t \in 1 .. Len(g) + 1
      /\ \A j \in 1 .. Len(g) : p[j] \in 1 .. Len(h)
      /\ \A j \in 1 .. Len(g) : j < t <=> p[j] < s
  BY PlacesOrder
<1>3. a \in Seq(Entries) /\ g \in Seq(Entries) /\ f \in Seq(Entries)
  BY <1>1 DEF Kept
<1>4. i < t /\ i \in 1 .. t - 1 /\ t \in Nat
  BY <1>2 DEF FoldsAt
<1>5. e \in i .. t /\ \A j \in i .. e - 1 : Stages!IsCall(g[j], Stages!Explores)
  BY <1>4, EndIs
<1>6. e - i >= 2 /\ Stages!Length(NoteAt(g, t, i)) < Stages!Lengths(SubSeq(g, i, e - 1))
  BY DEF FoldsAt
<1>7. Stages!Length(NoteAt(g, t, i)) = 5
  BY <1>2, <1>3, <1>4, NoteIs
<1> HIDE DEF e
<1>8. \A j \in i .. e - 1 : j \in 1 .. Len(g) /\ j < t
  BY <1>2, <1>4, <1>5
<1>9. \A j \in i .. e - 1 : ~FoldsAt(a, s, p[j]) /\ f[j] = a[p[j]] /\ p[j + 1] = p[j] + 1
  <2> SUFFICES ASSUME NEW j \in i .. e - 1 PROVE ~FoldsAt(a, s, p[j]) /\ f[j] = a[p[j]] /\ p[j + 1] = p[j] + 1
    OBVIOUS
  <2>1. j \in 1 .. Len(g) /\ Stages!IsCall(g[j], Stages!Explores)
    BY <1>5, <1>8
  <2>2. ~FoldsAt(a, s, p[j])
    BY <2>1, CallSurvives
  <2> QED
    BY <2>1, <2>2, Survivor
<1>10. \A j \in i .. e : p[j] = q + (j - i)
  <2> DEFINE B == {d \in 0 .. e - i : p[i + d] # q + d}
  <2>1. SUFFICES ASSUME B # {} PROVE FALSE
    <3>1. ASSUME NEW j \in i .. e PROVE p[j] = q + (j - i)
      <4>1. j - i \in 0 .. e - i /\ i + (j - i) = j
        BY <1>4, <1>5
      <4>2. p[i + (j - i)] = q + (j - i)
        BY <2>1, <4>1
      <4> QED
        BY <4>1, <4>2
    <3> QED
      BY <3>1
  <2>2. B \in SUBSET Nat
    BY <1>4, <1>5
  <2>3. PICK d \in B : \A j \in B : d <= j
    <3> HIDE DEF B
    <3> QED
      BY <2>1, <2>2, LeastOf
  <2>4. q \in Int
    BY <1>2
  <2>5. d # 0
    <3>1. i + 0 = i /\ q + 0 = q
      BY <1>4, <2>4
    <3> QED
      BY <2>3, <3>1
  <2>6. d \in 1 .. e - i /\ d - 1 \in 0 .. e - i /\ ~(d <= d - 1)
    BY <1>4, <1>5, <2>3, <2>5
  <2>7. p[i + (d - 1)] = q + (d - 1)
    BY <2>3, <2>6
  <2>8. i + (d - 1) \in i .. e - 1 /\ (i + (d - 1)) + 1 = i + d
    BY <1>4, <1>5, <2>6
  <2>9. p[i + d] = p[i + (d - 1)] + 1
    BY <1>9, <2>8
  <2>10. p[i + d] = q + d
    BY <2>4, <2>6, <2>7, <2>9
  <2> QED
    BY <2>3, <2>10
<1>11. q \in 1 .. s - 1 /\ q \in 1 .. Len(h)
  BY <1>2, <1>4
<1>12. i \in i .. e - 1 /\ e \in i .. e
  BY <1>4, <1>5, <1>6
<1>13. p[e] = q + (e - i) /\ p[e] <= s
  <2>1. p[e] = q + (e - i)
    BY <1>10, <1>12
  <2>2. CASE e = t
    BY <1>1, <1>2, <2>1, <2>2
  <2>3. CASE e # t
    <3>1. e \in 1 .. Len(g) /\ e < t
      BY <1>2, <1>4, <1>5, <2>3
    <3> QED
      BY <1>2, <2>1, <3>1
  <2> QED
    BY <2>1, <2>2, <2>3
<1>14. \A j \in q .. q + (e - i) - 1 : Stages!IsCall(a[j], Stages!Explores) /\ a[j] = f[j - q + i] /\ g[j - q + i] = a[j]
  <2> SUFFICES ASSUME NEW j \in q .. q + (e - i) - 1
               PROVE Stages!IsCall(a[j], Stages!Explores) /\ a[j] = f[j - q + i] /\ g[j - q + i] = a[j]
    OBVIOUS
  <2>1. j - q + i \in i .. e - 1 /\ j - q + i \in i .. e /\ q + ((j - q + i) - i) = j
    BY <1>4, <1>5, <1>11
  <2> DEFINE k == j - q + i
  <2>2. k \in 1 .. Len(g) /\ Stages!IsCall(g[k], Stages!Explores) /\ f[k] = a[p[k]] /\ p[k] = j
    BY <1>5, <1>8, <1>9, <1>10, <2>1
  <2> HIDE DEF k
  <2>3. t \in 1 .. Len(f) + 1 /\ k \in 1 .. Len(f)
    BY <1>1, <1>2, <2>2
  <2>4. Alike(f[k], g[k])
    BY <1>1, <2>3, ClusterDoes
  <2>5. Stages!IsCall(f[k], Stages!Explores)
    BY <2>2, <2>4, AlikeIs
  <2>6. ~Clusters(f, t, k)
    BY <2>5 DEF Clusters, Stages!IsCall, Stages!Explores
  <2>7. g[k] = f[k]
    BY <1>1, <2>3, <2>6, ClusterStubs
  <2> QED
    BY <2>2, <2>5, <2>7 DEF k
<1>15. E \in q .. s /\ q + (e - i) <= E
  <2>1. E \in q .. s /\ \A j \in q .. s : (\A k \in q .. j - 1 : Stages!IsCall(a[k], Stages!Explores)) => j <= E
    BY <1>2, <1>11, EndIs
  <2>2. q + (e - i) \in q .. s
    BY <1>2, <1>4, <1>5, <1>11, <1>13
  <2>3. \A k \in q .. q + (e - i) - 1 : Stages!IsCall(a[k], Stages!Explores)
    BY <1>14
  <2>4. ASSUME NEW j, j = q + (e - i) PROVE j <= E
    <3>1. j \in q .. s
      BY <2>2, <2>4
    <3>2. \A k \in q .. j - 1 : Stages!IsCall(a[k], Stages!Explores)
      <4>1. q \in Int /\ e \in Int /\ i \in Int
        BY <1>4, <1>5, <1>11
      <4> HIDE DEF q
      <4>2. q + (e - i) - 1 = j - 1
        BY <2>4, <4>1
      <4> QED
        BY <2>3, <4>2
    <3> QED
      BY <2>1, <3>1, <3>2
  <2> QED
    BY <2>1, <2>4
<1>16. Stages!Lengths(SubSeq(g, i, e - 1)) <= Stages!Lengths(SubSeq(a, q, E - 1))
       /\ Stages!Lengths(SubSeq(g, i, e - 1)) \in Nat /\ Stages!Lengths(SubSeq(a, q, E - 1)) \in Nat
  <2> DEFINE x == SubSeq(g, i, e - 1)
             y == SubSeq(a, q, E - 1)
  <2>1. i \in 1 .. Len(g) + 1 /\ e - 1 \in i .. Len(g) /\ q \in 1 .. Len(a) + 1 /\ E - 1 \in q .. Len(a)
    BY <1>1, <1>2, <1>4, <1>5, <1>6, <1>11, <1>15
  <2>0. e \in Int /\ i \in Int /\ q \in Int /\ E \in Int
    BY <1>4, <1>5, <1>11, <1>15
  <2> HIDE DEF q, E
  <2>2. x \in Seq(Entries) /\ Len(x) = e - i /\ \A j \in 1 .. e - i : x[j] = g[i + j - 1]
    BY <1>3, <2>0, <2>1
  <2>3. y \in Seq(Entries) /\ Len(y) = E - q /\ \A j \in 1 .. E - q : y[j] = a[q + j - 1]
    BY <1>3, <2>0, <2>1
  <2> HIDE DEF x, y
  <2>4. Len(x) <= Len(y)
    BY <1>4, <1>5, <1>15, <2>1, <2>2, <2>3
  <2>5. ASSUME NEW j \in 1 .. Len(x) PROVE Stages!Length(x[j]) <= Stages!Length(y[j])
    <3>1. j \in 1 .. e - i /\ j \in 1 .. E - q
      BY <2>2, <2>3, <2>4, <2>1
    <3>2. q + j - 1 \in q .. q + (e - i) - 1 /\ (q + j - 1) - q + i = i + j - 1
      BY <1>4, <1>5, <2>1, <3>1
    <3>3. x[j] = y[j]
      BY <1>14, <2>2, <2>3, <3>1, <3>2
    <3>4. x[j] \in Entries
      BY <2>2
    <3> QED
      BY <3>3, <3>4, LengthIs
  <2>6. Stages!Lengths(x) <= Stages!Lengths(y) /\ Stages!Lengths(y) \in Nat /\ Stages!Lengths(x) \in Nat
    BY <2>2, <2>3, <2>4, <2>5, LengthsLess
  <2> QED
    BY <2>6 DEF x, y
<1>17. Stages!Length(NoteAt(a, s, q)) = 5
  BY <1>1, <1>2, <1>3, <1>11, NoteIs
<1>18. FoldsAt(a, s, q)
  <2>1. E - q >= 2 /\ q < s
    BY <1>2, <1>4, <1>5, <1>6, <1>11, <1>15
  <2>2. Stages!Length(NoteAt(a, s, q)) < Stages!Lengths(SubSeq(a, q, E - 1))
    BY <1>6, <1>7, <1>16, <1>17
  <2> QED
    BY <2>1, <2>2 DEF FoldsAt
<1> QED
  BY <1>9, <1>12, <1>18

LEMMA CollapsesNone ==
    ASSUME NEW h \in Seq(Entries), NEW s \in 1 .. Len(h) + 1, \A i \in 1 .. Len(h) : ~FoldsAt(h, s, i)
    PROVE  Stages!Collapse(h, s) = h
<1> DEFINE c == Stages!Collapse(h, s)
           n == Len(h)
<1>0. n \in Nat /\ 1 \in 1 .. n + 1
  OBVIOUS
<1>1. PICK p : CutBy(h, s, 1, c, p)
  BY CollapseCuts
<1> HIDE DEF c
<1>2. c \in Seq(Entries) /\ p[1] = 1 /\ p[Len(c) + 1] = n + 1 /\ p \in [1 .. Len(c) + 1 -> 1 .. n + 1]
  BY <1>1, Zenon DEF CutBy
<1>3. \A k \in 1 .. Len(c) : c[k] = HeadAt(h, s, p[k]) /\ p[k + 1] = NextAt(h, s, p[k])
  BY <1>1 DEF CutBy
<1>4. \A k, l \in 1 .. Len(c) + 1 : k < l => p[k] < p[l]
  BY <1>1 DEF CutBy
<1> DEFINE m == Len(c)
<1>5. m \in Nat
  BY <1>2
<1>6. \A k \in 1 .. m : p[k] \in 1 .. n /\ c[k] = h[p[k]] /\ p[k + 1] = p[k] + 1
  <2> SUFFICES ASSUME NEW k \in 1 .. m PROVE p[k] \in 1 .. n /\ c[k] = h[p[k]] /\ p[k + 1] = p[k] + 1
    OBVIOUS
  <2>1. k \in 1 .. m + 1 /\ m + 1 \in 1 .. m + 1 /\ k < m + 1
    BY <1>5
  <2>2. p[k] \in 1 .. n + 1 /\ p[k] < p[m + 1]
    BY <1>2, <1>4, <2>1
  <2>3. p[k] \in 1 .. n
    BY <1>0, <1>2, <2>2
  <2> QED
    BY <1>3, <2>3 DEF HeadAt, NextAt
<1> HIDE DEF n, m
<1>7. \A k \in 1 .. m + 1 : p[k] = k
  <2> DEFINE B == {k \in 1 .. m + 1 : p[k] # k}
  <2>1. SUFFICES ASSUME B # {} PROVE FALSE
    OBVIOUS
  <2>2. B \in SUBSET Nat
    BY <1>5
  <2>3. PICK k \in B : \A j \in B : k <= j
    <3> HIDE DEF B
    <3> QED
      BY <2>1, <2>2, LeastOf
  <2>4. k # 1
    BY <1>2, <2>3
  <2>5. k - 1 \in 1 .. m /\ k - 1 \in 1 .. m + 1 /\ ~(k <= k - 1) /\ (k - 1) + 1 = k
    BY <1>5, <2>3, <2>4
  <2>6. p[k - 1] = k - 1
    BY <2>3, <2>5
  <2>7. p[(k - 1) + 1] = p[k - 1] + 1
    BY <1>6, <2>5
  <2> QED
    BY <2>3, <2>5, <2>6, <2>7
<1>8. m = n
  <2>1. m + 1 \in 1 .. m + 1
    BY <1>5
  <2>2. p[m + 1] = m + 1 /\ p[m + 1] = n + 1
    BY <1>2, <1>7, <2>1 DEF m
  <2> QED
    BY <1>0, <1>5, <2>2
<1>9. \A k \in 1 .. n : c[k] = h[k]
  <2>1. \A k \in 1 .. n : k \in 1 .. m /\ k \in 1 .. m + 1
    BY <1>5, <1>8
  <2> QED
    BY <1>6, <1>7, <2>1
<1>10. Len(c) = Len(h) /\ \A k \in 1 .. Len(h) : c[k] = h[k]
  BY <1>8, <1>9 DEF n, m
<1>11. c = h
  BY <1>2, <1>10
<1> QED
  BY <1>11 DEF c

LEMMA ClustersOnce ==
    ASSUME log \in Seq(Made), NEW h, NEW s, NEW a, NEW f, NEW p, NEW t, NEW g, Passes(h, s, a, f, p, t, g)
    PROVE  Stages!Cluster(g, t) = g
<1>1. /\ Kept(f) /\ Kept(g) /\ Len(f) = Len(g) /\ t \in 1 .. Len(g) + 1 /\ t \in 1 .. Len(f) + 1
      /\ g = Stages!Cluster(f, t) /\ g \in Seq(Entries) /\ Len(g) \in Nat /\ t \in Nat
  <2>1. Len(g) \in Nat /\ t \in 1 .. Len(g) + 1
    BY PlacesOrder
  <2>2. Kept(f) /\ Kept(g) /\ Len(f) = Len(g) /\ g = Stages!Cluster(f, t)
    BY DEF Passes
  <2>3. g \in Seq(Entries)
    BY <2>2 DEF Kept
  <2> QED
    BY <2>1, <2>2, <2>3
<1>2. \A i \in 1 .. Len(g) : g[i] = IF Clusters(f, t, i) THEN Stages!Stubbed(f[i], "clustered") ELSE f[i]
  BY <1>1, ClusterStubs
<1>3. \A i \in 1 .. Len(g) : Alike(f[i], g[i]) /\ (Stages!Failed(g[i]) <=> Stages!Failed(f[i]))
  BY <1>1, ClusterDoes
<1>4. Stages!LastError(g) = Stages!LastError(f)
  <2>1. {i \in 1 .. Len(g) : Stages!Failed(g[i])} = {i \in 1 .. Len(f) : Stages!Failed(f[i])}
    BY <1>1, <1>3
  <2> DEFINE Last(bad) == IF bad = {} THEN 0 ELSE CHOOSE i \in bad : \A j \in bad : j <= i
  <2>2. /\ Stages!LastError(g) = Last({i \in 1 .. Len(g) : Stages!Failed(g[i])})
        /\ Stages!LastError(f) = Last({i \in 1 .. Len(f) : Stages!Failed(f[i])})
    BY Zenon DEF Stages!LastError
  <2> HIDE DEF Last
  <2> QED
    BY <2>1, <2>2, Zenon
<1>5. "clustered" \in Stages!Stubs /\ StubSize("clustered") = 4
  BY DEF StubSize, Stages!Stubs
<1>6. \A i \in 1 .. Len(g) : EntryHolds(g[i]) /\ EntryHolds(f[i]) /\ g[i] \in Entries /\ f[i] \in Entries
  BY <1>1 DEF Kept, EntryHolds
<1>7. ASSUME NEW i \in 1 .. Len(g), Clusters(g, t, i) PROVE Stages!Length(g[i]) <= 4
  <2>1. CASE Clusters(f, t, i)
    <3>1. g[i] = Stages!Stubbed(f[i], "clustered") /\ Stages!IsCall(f[i], {"run"})
      BY <1>2, <2>1 DEF Clusters
    <3> QED
      BY <1>5, <1>6, <3>1, StubDoes
  <2>2. CASE ~Clusters(f, t, i)
    <3>1. g[i] = f[i]
      BY <1>2, <2>2
    <3>2. Stages!IsCall(g[i], {"run"})
      BY <1>7 DEF Clusters
    <3>3. g[i].body \in {"full", "fixed", "clustered"}
      BY <1>6, <3>2, RunIs
    <3>4. CASE g[i].body # "full"
      BY <1>6, <3>3, <3>4, LengthIs DEF StubSize, Stages!Stubs
    <3>5. CASE g[i].body = "full"
      <4>1. PICK j \in i + 1 .. t - 1 :
              Stages!IsCall(g[j], {"run"}) /\ Stages!Failed(g[j]) /\ Stages!Signature(g[j]) = Stages!Signature(g[i])
        BY <1>7 DEF Clusters, Stages!Later
      <4>2. j \in 1 .. Len(g)
        BY <1>1
      <4>3. g[j].body = "full"
        BY <1>6, <3>2, <3>5, <4>1, <4>2, SignatureIs
      <4>4. g[j] = f[j]
        <5>1. "full" \notin Stages!Stubs
          BY DEF Stages!Stubs
        <5> QED
          BY <1>3, <4>2, <4>3, <5>1 DEF Alike
      <4>5. Stages!Later(f, i, t)
        BY <3>1, <4>1, <4>4, Zenon DEF Stages!Later
      <4>6. Clusters(f, t, i)
        BY <1>4, <1>7, <3>1, <4>5 DEF Clusters
      <4> QED
        BY <2>2, <4>6
    <3> QED
      BY <3>4, <3>5
  <2> QED
    BY <2>1, <2>2
<1>8. ASSUME NEW i \in 1 .. Len(g), Clusters(g, t, i) PROVE Stages!Stubbed(g[i], "clustered") = g[i]
  BY <1>5, <1>6, <1>7, <1>8, Unstubbed
<1> DEFINE x == Stages!Cluster(g, t)
<1>9. \A i \in 1 .. Len(g) : x[i] = IF Clusters(g, t, i) THEN Stages!Stubbed(g[i], "clustered") ELSE g[i]
  BY <1>1, ClusterStubs
<1>10. x \in Seq(Entries) /\ Len(x) = Len(g)
  BY <1>1, ClusterStubs DEF Stubs
<1> HIDE DEF x
<1>11. \A i \in 1 .. Len(g) : x[i] = g[i]
  BY <1>8, <1>9
<1>12. x = g
  BY <1>1, <1>10, <1>11
<1> QED
  BY <1>12 DEF x

LEMMA TridentTwice ==
    ASSUME log \in Seq(Made), NEW h, Kept(h), NEW s \in 1 .. Len(h) + 1
    PROVE  /\ Kept(Stages!Trident(h, s).hist)
           /\ Stages!Trident(h, s).tail \in 1 .. Len(Stages!Trident(h, s).hist) + 1
           /\ Stages!Trident(Stages!Trident(h, s).hist, Stages!Trident(h, s).tail).hist = Stages!Trident(h, s).hist
           /\ Stages!Lengths(Stages!Trident(h, s).hist) <= Stages!Lengths(h)
<1>1. PICK a, f, p, t, g : Passes(h, s, a, f, p, t, g) /\ Stages!Trident(h, s) = [hist |-> g, tail |-> t]
  BY TridentPasses
<1>2. Stages!Trident(h, s).hist = g /\ Stages!Trident(h, s).tail = t
  BY <1>1
<1>3. /\ Kept(a) /\ Kept(f) /\ Kept(g) /\ Len(f) = Len(g) /\ Len(a) = Len(h) /\ t \in 1 .. Len(f) + 1
      /\ a = Stages!Supersede(h, s) /\ g = Stages!Cluster(f, t) /\ CutBy(a, s, 1, f, p)
  BY <1>1 DEF Passes
<1>4. /\ g \in Seq(Entries) /\ f \in Seq(Entries) /\ a \in Seq(Entries) /\ h \in Seq(Entries)
      /\ Len(g) \in Nat /\ Len(h) \in Nat /\ t \in Nat
  BY <1>3 DEF Kept
<1>5. Stages!Trident(g, t).hist = g
  <2>1. Stages!Supersede(g, t) = g
    BY <1>1, SupersedesOnce
  <2>2. \A i \in 1 .. Len(g) : ~FoldsAt(g, t, i)
    BY <1>1, NothingFolds
  <2>3. t \in 1 .. Len(g) + 1
    BY <1>3
  <2>4. Stages!Collapse(g, t) = g
    BY <1>4, <2>2, <2>3, CollapsesNone
  <2>5. Stages!Cluster(g, t) = g
    BY <1>1, ClustersOnce
  <2>6. t - (Len(g) - Len(g)) = t
    BY <1>4
  <2>7. Stages!Trident(g, t) = [hist |-> Stages!Cluster(g, t - (Len(g) - Len(g))), tail |-> t - (Len(g) - Len(g))]
    BY <2>1, <2>4, Zenon DEF Stages!Trident
  <2>8. Stages!Trident(g, t) = [hist |-> g, tail |-> t]
    BY <2>5, <2>6, <2>7, Zenon
  <2> QED
    BY <2>8
<1>6. Stages!Lengths(a) <= Stages!Lengths(h) /\ Stages!Lengths(a) \in Nat /\ Stages!Lengths(h) \in Nat
  <2>1. \A i \in 1 .. Len(a) : Stages!Length(a[i]) <= Stages!Length(h[i])
    BY <1>3, SupersedeDoes
  <2>2. Len(a) <= Len(h)
    BY <1>3, <1>4
  <2> QED
    BY <1>4, <2>1, <2>2, LengthsLess
<1>7. Stages!Lengths(f) <= Stages!Lengths(a)
  <2>1. s \in 1 .. Len(a) + 1
    BY <1>3
  <2> QED
    BY <1>3, <2>1, CutShortens
<1>8. Stages!Lengths(g) <= Stages!Lengths(f) /\ Stages!Lengths(g) \in Nat /\ Stages!Lengths(f) \in Nat
  <2>1. \A i \in 1 .. Len(g) : Stages!Length(g[i]) <= Stages!Length(f[i])
    BY <1>3, ClusterDoes
  <2>2. Len(g) <= Len(f)
    BY <1>3, <1>4
  <2> QED
    BY <1>4, <2>1, <2>2, LengthsLess
<1>9. Stages!Lengths(g) <= Stages!Lengths(h)
  BY <1>6, <1>7, <1>8
<1>10. t \in 1 .. Len(g) + 1
  BY <1>3
<1> QED
  BY <1>2, <1>3, <1>5, <1>9, <1>10

(* The conversation's invariant.                                           *)
LEMMA FewMessages ==
    ASSUME NEW h \in Seq(Entries), NEW t \in 1 .. Len(h) + 1, Stages!Messages(SubSeq(h, 1, t - 1)) >= 2
    PROVE  t \in 2 .. Len(h) + 1
<1>1. SUFFICES ASSUME t = 1 PROVE FALSE
  OBVIOUS
<1> DEFINE g == SubSeq(h, 1, t - 1)
           calls == {i \in 1 .. Len(g) : Stages!IsCall(g[i], {"read", "search", "write", "run"})}
<1>2. Len(g) = 0
  BY <1>1
<1> HIDE DEF g
<1>3. calls = {}
  BY <1>2
<1>4. Stages!Messages(g) = Len(g) + Cardinality(calls)
  <2>1. Stages!Messages(g) = Len(g) + Stages!Cardinality(calls)
    BY Zenon DEF Stages!Messages
  <2>2. Stages!Cardinality(calls) = Cardinality(calls)
    BY Zenon DEF Stages!Cardinality, Cardinality
  <2> QED
    BY <2>1, <2>2, Zenon
<1> HIDE DEF calls
<1>5. Cardinality(calls) = 0
  BY <1>3, FS_EmptySet
<1> QED
  BY <1>2, <1>4, <1>5 DEF g

LEMMA CompactedKept ==
    ASSUME log \in Seq(Made), Kept(hist), NEW h \in Stages!Compacted
    PROVE  Kept(h)
<1> DEFINE T(s) == IF s > 1 THEN Stages!Trident(hist, s) ELSE [hist |-> hist, tail |-> s]
           Few(s) == IF Stages!Messages(SubSeq(T(s).hist, 1, T(s).tail - 1)) >= 2
                     THEN {Stages!Summary(T(s).hist, T(s).tail)} ELSE {}
<1>1. PICK s \in Stages!Tails(hist) : h \in {T(s).hist} \cup Few(s)
  <2>1. Stages!Compacted = UNION {{T(s).hist} \cup Few(s) : s \in Stages!Tails(hist)}
    BY Zenon DEF Stages!Compacted
  <2> HIDE DEF T, Few
  <2> QED
    BY <2>1
<1>2. s \in 1 .. Len(hist) + 1 /\ Len(hist) \in Nat
  <2>1. Len(hist) \in Nat
    BY DEF Kept
  <2> QED
    BY <1>1, <2>1 DEF Stages!Tails
<1>3. Kept(T(s).hist) /\ T(s).tail \in 1 .. Len(T(s).hist) + 1
  <2>1. CASE s > 1
    <3>1. T(s) = Stages!Trident(hist, s)
      BY <2>1
    <3> HIDE DEF T
    <3>2. Kept(Stages!Trident(hist, s).hist) /\ Stages!Trident(hist, s).tail \in 1 .. Len(Stages!Trident(hist, s).hist) + 1
      BY <1>2, TridentTwice
    <3> QED
      BY <3>1, <3>2, Zenon
  <2>2. CASE ~(s > 1)
    <3>1. T(s).hist = hist /\ T(s).tail = s
      BY <2>2
    <3> HIDE DEF T
    <3> QED
      BY <1>2, <3>1
  <2> QED
    BY <2>1, <2>2
<1> DEFINE g == T(s).hist
           t == T(s).tail
<1>4. h = g \/ h \in Few(s)
  BY <1>1
<1>5. Few(s) = IF Stages!Messages(SubSeq(g, 1, t - 1)) >= 2 THEN {Stages!Summary(g, t)} ELSE {}
  BY Zenon
<1>6. Kept(g) /\ t \in 1 .. Len(g) + 1
  BY <1>3
<1> HIDE DEF T, Few, g, t
<1>7. CASE h = g
  BY <1>6, <1>7
<1>8. CASE h \in Few(s)
  <2>1. Stages!Messages(SubSeq(g, 1, t - 1)) >= 2 /\ h = Stages!Summary(g, t)
    BY <1>5, <1>8
  <2>2. g \in Seq(Entries)
    BY <1>6 DEF Kept
  <2>3. t \in 2 .. Len(g) + 1
    BY <1>6, <2>1, <2>2, FewMessages
  <2> QED
    BY <1>6, <2>1, <2>3, SummaryKeeps
<1> QED
  BY <1>4, <1>7, <1>8

LEMMA ShapeKeeps ==
    ASSUME ConversationInv, Stages!Shape
    PROVE  Kept(hist') /\ log' = log
<1>1. log \in Seq(Made) /\ Kept(hist)
  BY DEF ConversationInv
<1>2. PICK h \in Stages!Compacted : hist' = h \/ \E s \in Stages!Tails(h) : hist' = Stages!Snip(h, s)
  BY DEF Stages!Shape
<1>3. Kept(h)
  BY <1>1, <1>2, CompactedKept
<1>4. ASSUME NEW s \in Stages!Tails(h), hist' = Stages!Snip(h, s) PROVE Kept(hist')
  <2>1. s \in 1 .. Len(h) + 1
    BY DEF Stages!Tails
  <2>2. Kept(Stages!Snip(h, s))
    BY <1>3, <2>1, SnipStubs, StubsKeep
  <2> QED
    BY <1>4, <2>2
<1> QED
  BY <1>2, <1>3, <1>4 DEF Stages!Shape

\* What holds of an entry goes on to hold when the log grows.
LEMMA EntriesStay ==
    ASSUME log \in Seq(Made), NEW m \in Made, log' = Append(log, m), NEW e, EntryHolds(e)
    PROVE  EntryHolds(e)'
<1> DEFINE n == Len(log)
<1>1. n \in Nat /\ Len(log') = n + 1 /\ \A k \in 1 .. n : log'[k] = log[k]
  OBVIOUS
<1> HIDE DEF n
<1>2. e.ids \subseteq 1 .. n /\ e.ids # {} /\ e \in Entries
  BY DEF EntryHolds, n
<1>3. ASSUME NEW k \in 1 .. n PROVE (CameAgain(k) => CameAgain(k)') /\ (PassedLater(k) => PassedLater(k)') /\ (FailsAgain(k) => FailsAgain(k)')
  <2>1. \A j \in k + 1 .. n : j \in 1 .. n /\ j \in k + 1 .. n + 1
    BY <1>1
  <2> QED
    BY <1>1, <2>1 DEF CameAgain, PassedLater, FailsAgain, n
<1>4. WasWritten => WasWritten'
  <2>1. \A j \in 1 .. n : j \in 1 .. n + 1
    BY <1>1
  <2> QED
    BY <1>1, <2>1 DEF WasWritten, n
<1>5. ASSUME NEW k \in 1 .. n, NEW body, Tells(k, body) PROVE Tells(k, body)'
  <2>1. log'[k] = log[k]
    BY <1>1
  <2> QED
    BY <1>3, <1>4, <1>5, <2>1 DEF Tells
<1>6. e.ids \subseteq 1 .. n + 1
  BY <1>1, <1>2
<1>7. \A k \in e.ids : Tells(k, e.body)'
  BY <1>2, <1>5 DEF EntryHolds
<1>8. e.ids \subseteq 1 .. Len(log')
  BY <1>1, <1>6
<1> QED
  BY <1>2, <1>7, <1>8 DEF EntryHolds

LEMMA AddKeeps ==
    ASSUME ConversationInv, Stages!Adds
    PROVE  ConversationInv'
<1> DEFINE e == [ids |-> {Len(log) + 1}, body |-> "full"]
           n == Len(hist)
<1>1. log \in Seq(Made) /\ Kept(hist)
  BY DEF ConversationInv
<1>2. PICK m \in Made : log' = Append(log, m)
  BY DEF Stages!Adds
<1>3. hist' = Append(hist, e)
  BY DEF Stages!Adds
<1>4. /\ hist \in Seq(Entries) /\ n \in Nat /\ Len(log) \in Nat /\ log' \in Seq(Made) /\ Len(log') = Len(log) + 1
      /\ \A k \in 1 .. Len(log) : log'[k] = log[k]
  BY <1>1, <1>2 DEF Kept
<1>5. e \in Entries /\ e.ids = {Len(log) + 1} /\ e.body = "full"
  BY <1>4 DEF Entries, Bodies
<1> HIDE DEF e, n
<1>6. hist' \in Seq(Entries) /\ Len(hist') = n + 1 /\ hist'[n + 1] = e /\ \A i \in 1 .. n : hist'[i] = hist[i]
  BY <1>3, <1>4, <1>5 DEF n
<1>7. \A x : EntryHolds(x) => EntryHolds(x)'
  BY <1>1, <1>2, EntriesStay
<1>8. \A x : x = e => EntryHolds(x)'
  <2> SUFFICES ASSUME NEW x, x = e PROVE EntryHolds(x)'
    OBVIOUS
  <2>1. x \in Entries /\ x.ids = {Len(log) + 1} /\ x.body = "full"
    BY <1>5
  <2>2. \A k : Tells(k, "full")'
    BY DEF Tells
  <2> QED
    BY <1>4, <2>1, <2>2 DEF EntryHolds
<1>9. \A i \in 1 .. n : EntryHolds(hist[i])
  BY <1>1 DEF Kept, n
<1>10. ASSUME NEW i \in 1 .. Len(hist'), NEW x, x = hist'[i] PROVE EntryHolds(x)'
  <2>1. CASE i = n + 1
    BY <1>6, <1>8, <1>10, <2>1
  <2>2. CASE i # n + 1
    <3>1. i \in 1 .. n
      BY <1>4, <1>6, <2>2 DEF n
    <3>2. x = hist[i]
      BY <1>6, <1>10, <3>1
    <3>3. EntryHolds(x)
      BY <1>9, <3>1, <3>2, Zenon
    <3> QED
      BY <1>7, <3>3
  <2> QED
    BY <2>1, <2>2
<1>11. \A i \in 1 .. Len(hist') : EntryHolds(hist[i])'
  <2> SUFFICES ASSUME NEW i \in 1 .. Len(hist') PROVE EntryHolds(hist[i])'
    OBVIOUS
  <2>1. \A x : x = hist'[i] => EntryHolds(x)'
    BY <1>10
  <2> QED
    BY <2>1 DEF EntryHolds, Tells, CameAgain, PassedLater, FailsAgain, WasWritten
<1>12. ASSUME NEW k \in 1 .. Len(log') PROVE \E i \in 1 .. Len(hist') : k \in hist'[i].ids
  <2>1. CASE k = Len(log) + 1
    <3>1. n + 1 \in 1 .. Len(hist')
      BY <1>4, <1>6 DEF n
    <3> QED
      BY <1>5, <1>6, <2>1, <3>1
  <2>2. CASE k # Len(log) + 1
    <3>1. k \in 1 .. Len(log)
      BY <1>4, <2>2
    <3>2. PICK i \in 1 .. n : k \in hist[i].ids
      BY <1>1, <3>1 DEF Kept, n
    <3>3. i \in 1 .. Len(hist') /\ hist'[i] = hist[i]
      BY <1>4, <1>6 DEF n
    <3> QED
      BY <3>2, <3>3
  <2> QED
    BY <2>1, <2>2
<1>13. ASSUME NEW i \in 1 .. Len(hist'), NEW j \in 1 .. Len(hist'), i < j, NEW k \in hist'[i].ids, NEW l \in hist'[j].ids
       PROVE  k < l
  <2>1. i \in 1 .. n /\ hist'[i] = hist[i]
    BY <1>4, <1>6, <1>13 DEF n
  <2>2. CASE j = n + 1
    <3>1. k \in 1 .. Len(log)
      BY <1>9, <1>13, <2>1 DEF EntryHolds
    <3>2. l = Len(log) + 1
      BY <1>5, <1>6, <1>13, <2>2
    <3> QED
      BY <1>4, <3>1, <3>2
  <2>3. CASE j # n + 1
    <3>1. j \in 1 .. n /\ hist'[j] = hist[j]
      BY <1>4, <1>6, <2>3 DEF n
    <3> QED
      BY <1>1, <1>13, <2>1, <3>1 DEF Kept, n
  <2> QED
    BY <2>2, <2>3
<1>14. Kept(hist)'
  BY <1>6, <1>11, <1>12, <1>13 DEF Kept
<1> QED
  BY <1>4, <1>14 DEF ConversationInv

LEMMA ConversationStays ==
    ASSUME ConversationInv, Kept(hist'), log' = log
    PROVE  ConversationInv'
BY DEF ConversationInv, Kept, EntryHolds, Tells, CameAgain, PassedLater, FailsAgain, WasWritten

LEMMA ConversationStep ==
    ASSUME ConversationInv, [Stages!Next]_stages
    PROVE  ConversationInv'
<1>1. CASE Stages!Adds
  BY <1>1, AddKeeps
<1>2. CASE Stages!Shape
  BY <1>2, ShapeKeeps, ConversationStays
<1>3. CASE UNCHANGED stages
  <2>1. hist' = hist /\ log' = log
    BY <1>3 DEF stages
  <2>2. Kept(hist')
    BY <2>1 DEF ConversationInv
  <2> QED
    BY <2>1, <2>2, ConversationStays
<1> QED
  BY <1>1, <1>2, <1>3 DEF Stages!Next

LEMMA ConversationBegins == Stages!Init => ConversationInv
<1> SUFFICES ASSUME Stages!Init PROVE ConversationInv
  OBVIOUS
<1>1. log = <<>> /\ hist = <<>>
  BY DEF Stages!Init
<1>2. log \in Seq(Made) /\ hist \in Seq(Entries) /\ Len(log) = 0 /\ Len(hist) = 0
  BY <1>1
<1> QED
  BY <1>2 DEF ConversationInv, Kept

(* What it says.                                                           *)
LEMMA StubTells ==
    ASSUME NEW e, EntryHolds(e), e.body \in {"full"} \cup Stages!Stubs
    PROVE  /\ e.ids = {Stages!Id(e)} /\ Stages!Id(e) \in 1 .. Len(log)
           /\ Tells(Stages!Id(e), e.body)
<1>1. Stages!IsCall(e, {log[Stages!Id(e)].tool})
  BY DEF Stages!IsCall
<1> QED
  BY <1>1, CallIs

LEMMA StagesHold ==
    ASSUME ConversationInv
    PROVE  Stages!StagesSound
<1>1. log \in Seq(Made) /\ Kept(hist)
  BY DEF ConversationInv
<1>2. /\ hist \in Seq(Entries) /\ Len(hist) \in Nat /\ Len(log) \in Nat
      /\ \A i \in 1 .. Len(hist) : EntryHolds(hist[i])
  BY <1>1 DEF Kept
<1>3. Stages!TypeOK
  <2>1. \A k \in 1 .. Len(log) : log[k] \in Made
    BY <1>1
  <2>2. \A i \in 1 .. Len(hist) : hist[i].ids # {} /\ hist[i].ids \subseteq 1 .. Len(log) /\ hist[i] \in Entries
    BY <1>2 DEF EntryHolds
  <2>3. \A i \in 1 .. Len(hist) : hist[i].body \in Bodies
    BY <2>2 DEF Entries
  <2> QED
    BY <2>1, <2>2, <2>3 DEF Stages!TypeOK, Bodies
<1>4. Stages!StubsAreBacked
  <2> SUFFICES ASSUME NEW i \in 1 .. Len(hist)
               PROVE  LET e == hist[i]
                          k == Stages!Id(e)
                          SameFailure(j) == log[j].fails = log[k].fails
                      IN /\ e.body \in {"reread", "resought"} => Stages!Again(k, Stages!Always)
                         /\ e.body = "fixed" => Stages!Again(k, Stages!Passed)
                         /\ e.body = "clustered" => Stages!Again(k, SameFailure)
                         /\ e.body = "written" => \E j \in 1 .. Len(log) : log[j].tool = "write"
    BY Zenon DEF Stages!StubsAreBacked
  <2> DEFINE e == hist[i]
             k == Stages!Id(e)
  <2>1. EntryHolds(e)
    BY <1>2
  <2> HIDE DEF e
  <2>2. e.body \in {"full"} \cup Stages!Stubs => Tells(k, e.body)
    BY <2>1, StubTells
  <2>3. e.body \in {"reread", "resought", "fixed", "clustered", "written"} => e.body \in {"full"} \cup Stages!Stubs
    BY DEF Stages!Stubs
  <2> HIDE DEF k
  <2>4. e.body \in {"reread", "resought"} => CameAgain(k)
    BY <2>2, <2>3 DEF Tells
  <2>5. e.body = "fixed" => PassedLater(k)
    BY <2>2, <2>3 DEF Tells
  <2>6. e.body = "clustered" => FailsAgain(k)
    BY <2>2, <2>3 DEF Tells
  <2>7. e.body = "written" => WasWritten
    BY <2>2, <2>3 DEF Tells
  <2> QED
    BY <2>4, <2>5, <2>6, <2>7 DEF e, k, CameAgain, PassedLater, FailsAgain, WasWritten, Stages!Again, Stages!Always, Stages!Passed
<1>5. Stages!LastRunIsKept
  <2> SUFFICES ASSUME NEW i \in 1 .. Len(hist), Stages!IsCall(hist[i], {"run"}), hist[i].body # "full"
               PROVE  \E j \in Stages!Id(hist[i]) + 1 .. Len(log) : log[j].tool = "run" /\ log[j].arg = Stages!Arg(hist[i])
    BY DEF Stages!LastRunIsKept
  <2> DEFINE e == hist[i]
             k == Stages!Id(e)
  <2>1. EntryHolds(e) /\ Stages!IsCall(e, {"run"}) /\ e.body # "full"
    BY <1>2
  <2> HIDE DEF e
  <2>2. e.body \in {"fixed", "clustered"} /\ log[k].tool = "run" /\ Tells(k, e.body)
    <3>1. e.body \in {"full", "fixed", "clustered"}
      BY <2>1, RunIs
    <3>2. log[k].tool \in {"run"} /\ Tells(k, e.body)
      BY <2>1, CallIs
    <3> QED
      BY <2>1, <3>1, <3>2
  <2>3. PassedLater(k) \/ FailsAgain(k)
    BY <2>2 DEF Tells
  <2>4. \E j \in k + 1 .. Len(log) : log[j].tool = "run" /\ log[j].arg = Stages!Arg(e)
    BY <2>2, <2>3 DEF PassedLater, FailsAgain, Stages!Arg
  <2> QED
    BY <2>4 DEF e
<1>6. Stages!LastReadIsKept
  <2> SUFFICES ASSUME NEW i \in 1 .. Len(hist), Stages!IsCall(hist[i], {"read"}), hist[i].body \notin {"full", "snipped"},
                      ~\E j \in 1 .. Len(log) : log[j].tool = "write"
               PROVE  Stages!Again(Stages!Id(hist[i]), Stages!Always)
    BY DEF Stages!LastReadIsKept
  <2> DEFINE e == hist[i]
             k == Stages!Id(e)
  <2>1. EntryHolds(e) /\ Stages!IsCall(e, {"read"}) /\ e.body \notin {"full", "snipped"}
    BY <1>2
  <2> HIDE DEF e
  <2>2. log[k].tool \in {"read"} /\ Tells(k, e.body) /\ e.body \in {"full"} \cup Stages!Stubs
    BY <2>1, CallIs
  <2>3. CameAgain(k)
    BY <2>1, <2>2 DEF Tells, WasWritten, Stages!Stubs
  <2> QED
    BY <2>3 DEF e, CameAgain, Stages!Again, Stages!Always
<1>7. Stages!NothingIsLost
  <2>1. UNION {hist[i].ids : i \in 1 .. Len(hist)} = 1 .. Len(log)
    <3>1. \A i \in 1 .. Len(hist) : hist[i].ids \subseteq 1 .. Len(log)
      BY <1>2 DEF EntryHolds
    <3>2. \A k \in 1 .. Len(log) : \E i \in 1 .. Len(hist) : k \in hist[i].ids
      BY <1>1 DEF Kept
    <3> QED
      BY <3>1, <3>2
  <2>2. \A i, j \in 1 .. Len(hist) : i < j => \A k \in hist[i].ids, l \in hist[j].ids : k < l
    BY <1>1 DEF Kept
  <2> QED
    BY <2>1, <2>2, Zenon DEF Stages!NothingIsLost
<1>8. Stages!OnlyExplorationFolds
  <2> SUFFICES ASSUME NEW i \in 1 .. Len(hist), hist[i].body = "folded", NEW k \in hist[i].ids
               PROVE  log[k].tool \in Stages!Explores
    BY DEF Stages!OnlyExplorationFolds
  <2>1. EntryHolds(hist[i])
    BY <1>2
  <2>2. Tells(k, hist[i].body)
    BY <2>1 DEF EntryHolds
  <2> QED
    BY <2>2 DEF Tells
<1>9. Stages!TridentIsIdempotent
  <2> SUFFICES ASSUME NEW s \in 2 .. Len(hist) + 1
               PROVE  /\ Stages!Trident(Stages!Trident(hist, s).hist, Stages!Trident(hist, s).tail).hist = Stages!Trident(hist, s).hist
                      /\ Stages!Lengths(Stages!Trident(hist, s).hist) <= Stages!Lengths(hist)
    BY Zenon DEF Stages!TridentIsIdempotent
  <2>1. s \in 1 .. Len(hist) + 1
    BY <1>2
  <2> QED
    BY <1>1, <2>1, TridentTwice
<1> QED
  BY <1>3, <1>4, <1>5, <1>6, <1>7, <1>8, <1>9 DEF Stages!StagesSound

\* Whatever is said and done, however often the stages pass over the conversation and
\* wherever the tail starts: every entry is in it once and in its order, a stub tells the
\* truth, the last run of a command and the last read of a file stand, only exploration
\* folds, and Trident done twice is Trident done once and never lengthens a history.
THEOREM ConversationsAreSound == PartsSpec => []ConversationSound
<1>1. PartsInit => ConversationInv
  BY ConversationBegins DEF PartsInit
<1>2. ConversationInv /\ [PartsNext]_parts => ConversationInv'
  <2>1. [PartsNext]_parts => [Stages!Next]_stages
    <3>1. CASE PartsNext
      BY <3>1, Zenon DEF PartsNext, Takes
    <3>2. CASE UNCHANGED parts
      BY <3>2, Zenon DEF parts
    <3> QED
      BY <3>1, <3>2
  <2> QED
    BY <2>1, ConversationStep
<1>3. ConversationInv => ConversationSound
  BY StagesHold DEF ConversationSound
<1> QED
  BY <1>1, <1>2, <1>3, PTL DEF PartsSpec
=============================================================================
