----------------------------- MODULE MCPipeline -----------------------------
(***************************************************************************)
(* What stands between a change an agent made and the repository it lands  *)
(* in: the gates of a worker's patch, the test-first run, the solve loop   *)
(* and the audit sweep with its pull requests; and around them the         *)
(* proposals of what to do next, the viewer a patch is read in, and the    *)
(* terminal UI's screen and input line.  They share no state; the initial  *)
(* state chooses the part whose steps the behaviour takes.                 *)
(***************************************************************************)
EXTENDS Integers, FiniteSets, Sequences

CONSTANTS MaxAttempts, Deliverables, Findings, MaxSweeps,
          MaxRuns, MaxRows,
          Window, MaxBlocks, MaxMade, MaxLines, WheelRows, MaxText, MaxHistory, MaxHits,
          PlanScopes, MaxProposals, MaxEvidence, MaxMarks

ASSUME LandingAssumption == MaxAttempts \in Nat /\ MaxSweeps \in Nat /\ IsFiniteSet(Findings)
ASSUME ProposalAssumption == PlanScopes \in Seq(STRING) /\ MaxEvidence \in Nat \ {0} /\ MaxProposals \in Nat
ASSUME TerminalAssumption ==
    /\ MaxRuns \in Nat \ {0} /\ MaxRows \in Nat
    /\ Window \in Nat \ {0, 1} /\ MaxBlocks \in Nat \ {0} /\ MaxMade \in Nat \ {0, 1} /\ MaxLines \in Nat \ {0}
    /\ WheelRows \in Nat /\ MaxHits \in Nat

VARIABLES
    part,
    demand, touches, wires, run, proof, standing, importers, moved, inTree, verdict, answer,
    tddStage, tddStatus, attempt, plain, viaPlan, manifest, open, patchOf, fixOf, runOf, proofOf,
    inRepo, spec, spilled,
    options, right, deps, test, repro, sawRed, solve, tries, signalled, checked, answerOf,
    ledger, findings, mode, sweeps, at, queue, outcome, github, gate, shifted, asked,
    screen, terminal, height, disk, view, verifies, stray,
    blocks, made, sel, chat, wide, busy, panel, asking, captured, frame, shown, lost,
    text, cursor, history, histPos, draft, menu, completer, search, running, typed,
    wanted, roadmap, plans, texts, all, cited, ranked

\* What is typed, and what the menu and the file index list.
Typed == {"/", "@", "a"}
Names == {<<"a">>, <<"b">>, <<"a", "b">>}

\* The scopes of the plans in the repository, in the order of their paths.
MCPlanScopes == <<"context", "safety">>

Gates   == INSTANCE WorkerGates
Tdd     == INSTANCE TddRun WITH seen <- spec
Solve   == INSTANCE Solver
Pulls   == INSTANCE PrLoop WITH read <- findings
Review  == INSTANCE ReviewViewer
Screen  == INSTANCE TuiScreen WITH screen <- shown
Line    == INSTANCE TuiComposer WITH busy <- running
Propose == INSTANCE Proposals WITH at <- plans

gates  == <<demand, touches, wires, run, proof, standing, importers, moved, inTree, verdict, answer>>
tdd    == <<tddStage, tddStatus, attempt, plain, viaPlan, manifest, open, patchOf, fixOf, runOf, proofOf,
            inRepo, spec, spilled>>
solver == <<options, right, deps, test, repro, sawRed, solve, tries, signalled, checked, answerOf>>
pulls  == <<ledger, findings, mode, sweeps, at, queue, outcome, github, gate, shifted, asked>>

reviews   == <<screen, terminal, height, disk, view, verifies, stray>>
screens   == <<blocks, made, sel, chat, wide, busy, panel, asking, captured, frame, shown, lost>>
lines     == <<text, cursor, history, histPos, draft, menu, completer, search, running, typed>>
proposals == <<wanted, roadmap, plans, texts, all, cited, ranked>>
parts     == <<part, gates, tdd, solver, pulls, reviews, screens, lines, proposals>>

\* The one initial state of a part that another part's behaviour leaves alone.
FirstGates  == demand = "nothing" /\ touches = {"module"} /\ wires = {} /\ run = Gates!GoodRun /\ standing = "passed"
FirstSolve  == right = FALSE /\ deps = TRUE /\ test = "none"
               /\ options = [check |-> TRUE, repro |-> TRUE, scratch |-> TRUE, targeting |-> TRUE, healing |-> TRUE]
FirstReview == height = 1 /\ disk = [run |-> 1, files |-> 0, plan |-> TRUE]
FirstScreen == wide = TRUE /\ blocks = <<>>
FirstLine   == history = <<>>
FirstProposal == wanted = "all" /\ roadmap = 0

PartsInit ==
    /\ part \in {"gates", "tdd", "solver", "pulls", "review", "screen", "line", "propose"}
    /\ (part # "gates" => FirstGates)   /\ Gates!Init
    /\ (part # "tdd" => manifest = {})  /\ Tdd!Init
    /\ (part # "solver" => FirstSolve)  /\ Solve!Init
    /\ (part # "review" => FirstReview) /\ Review!Init
    /\ (part # "screen" => FirstScreen) /\ Screen!Init
    /\ (part # "line" => FirstLine)     /\ Line!Init
    /\ (part # "propose" => FirstProposal) /\ Propose!Init
    /\ Pulls!Init

Takes(name) ==
    /\ UNCHANGED part
    /\ name # "gates"  => UNCHANGED gates
    /\ name # "tdd"    => UNCHANGED tdd
    /\ name # "solver" => UNCHANGED solver
    /\ name # "pulls"  => UNCHANGED pulls
    /\ name # "review" => UNCHANGED reviews
    /\ name # "screen" => UNCHANGED screens
    /\ name # "line"   => UNCHANGED lines
    /\ name # "propose" => UNCHANGED proposals

PartsNext ==
    \/ part = "gates" /\ Gates!Next /\ Takes("gates")
    \/ part = "tdd" /\ Tdd!Next /\ Takes("tdd")
    \/ part = "solver" /\ Solve!Next /\ Takes("solver")
    \/ part = "pulls" /\ Pulls!Next /\ Takes("pulls")
    \/ part = "review" /\ Review!Next /\ Takes("review")
    \/ part = "screen" /\ Screen!Next /\ Takes("screen")
    \/ part = "line" /\ Line!Next /\ Takes("line")
    \/ part = "propose" /\ Propose!Next /\ Takes("propose")

PartsSpec == PartsInit /\ [][PartsNext]_parts

\* What landed met its task and its proof was seen: see WorkerGates and TddRun.
GatesSound == Gates!GatesSound /\ Tdd!ProofSound

\* A loop that says it solved or merged did: see Solver and PrLoop.
LoopsSound == Solve!SolveSound /\ Pulls!SweepSound

\* A verdict that was given is kept: a worker called valid is not refused, and a
\* decision of the sweep is not taken back: see ValidIsApplyable and SweepSteps.
VerdictsHold == Gates!ValidIsApplyable /\ Pulls!SweepSteps

\* What is proposed is backed and the best comes first: see Proposals.
ProposalsSound == Propose!ProposalsSound

\* The terminal shows the frame, the view follows the output, the dropdown follows
\* the line, and what is typed is kept; the viewer of a patch shows the patch that
\* is applied: see TuiScreen, TuiComposer and ReviewViewer.
TerminalSound == Screen!ScreenSound /\ Line!ComposerSound /\ Review!ReviewSound

\* Output does not move what is read, a click toggles what is shown, Enter is
\* never stuck: see TuiScreen and TuiComposer.
TerminalSteps == Screen!ScreenSteps /\ Line!EnterProceeds
=============================================================================
