----------------------------- MODULE MCWorkspace ----------------------------
(***************************************************************************)
(* Where the edits of a session go (Worktree) and the parts of the program *)
(* around a session that share no state with it, in one run: the initial   *)
(* state chooses the part whose steps the behaviour takes.                 *)
(***************************************************************************)
EXTENDS Worktree, Sequences

LOCAL INSTANCE TLC

CONSTANTS Unset, Crew, NoPlan, Subtasks, Own, Stranger, Made, MaxLog, Absent

VARIABLES
    part,
    key, env, cli, modeEnv, modeCli, trusted, bwrap, disk, phase, loaded, approval, resumed, read, report,
    routes, baseUrl, overrides, effort, pool, turn, escalation, streak, request, failed,
    session, plan, runs, proof, tree, deed,
    proposal, stage, source, order, accepted, text, wrote, refusal, assembled, workers,
    log, hist,
    files, loader, graph, prompt, accessed, edited, fresh

\* Two workers of one plan, and a task split in three, each about a file of its own.
MCCrew     == <<"w1", "w2">>
MCSubtasks == <<"s1", "s2", "s3">>
MCOwn      == "s1" :> 1 @@ "s2" :> 2 @@ "s3" :> 3

\* What a conversation is made of: a prompt, calls that explore, write or run, and
\* what a result's text tells of a failure, by its signature.
Entry(tool, arg, fails, size) == [tool |-> tool, arg |-> arg, fails |-> fails, size |-> size]
MCMade == {Entry("prompt", "", "yes", "big"),
           Entry("read", "absolute", "no", "big"), Entry("read", "relative", "yes", "big"),
           Entry("write", "absolute", "no", "small"), Entry("search", "q", "no", "big"),
           Entry("run", "c", "no", "big"), Entry("run", "c", "s1", "big"), Entry("run", "c", "s2", "small")}

\* Directories of a workspace: one inside another, one beside them, one outside; the
\* instruction files in them, what they may hold at first and what a user makes of them.
Above == "outer" :> <<"outer">> @@ "inner" :> <<"outer", "inner">> @@ "side" :> <<"side">> @@ "outside" :> <<>>
Files == {<<"global", "agents">>, <<"global", "user">>, <<"root", "override">>, <<"root", "agents">>, <<"root", "claude">>,
          <<"root", "own">>, <<"root", "mine">>, <<"root", "notes">>, <<"root", "more">>,
          <<"outer", "override">>, <<"outer", "agents">>, <<"outer", "claude">>, <<"inner", "rule">>, <<"side", "agents">>}
Body(size, link, says) == [size |-> size, link |-> link, says |-> says]
NoLink == <<"none", "none">>
Sparse == [f \in Files |-> IF f = <<"root", "agents">> THEN Body(2, <<"absolute", "notes">>, 1)
                           ELSE IF f = <<"outer", "agents">> THEN Body(2, NoLink, 0)
                           ELSE IF f = <<"inner", "rule">> THEN Body(1, <<"root", "agents">>, 0) ELSE Absent]
Linked == [Sparse EXCEPT ![<<"root", "agents">>] = Body(2, <<"root", "notes">>, 0),
                         ![<<"root", "notes">>] = Body(4, <<"root", "more">>, 1),
                         ![<<"root", "more">>] = Body(1, <<"root", "notes">>, 2),
                         ![<<"root", "claude">>] = Body(2, <<"root", "more">>, 2),
                         ![<<"outer", "claude">>] = Body(1, <<"outer", "agents">>, 0),
                         ![<<"outer", "agents">>] = Body(2, <<"outer", "claude">>, 0)]
Plenty == [f \in Files |-> Body(IF f[2] \in {"own", "mine", "user"} THEN 3 ELSE 2,
                                IF f = <<"root", "own">> THEN <<"root", "notes">>
                                ELSE IF f[2] = "notes" THEN <<"root", "own">> ELSE NoLink,
                                IF f[1] = "global" THEN 1 ELSE 2)]
Disks == {Sparse, Linked, Plenty, [Plenty EXCEPT ![<<"root", "override">>] = Body(0, NoLink, 0),
                                                 ![<<"root", "own">>] = Body(9, NoLink, 0),
                                                 ![<<"outer", "override">>] = Absent]}
Changes == {[file |-> <<"outer", "override">>, body |-> Body(0, NoLink, 0)],
            [file |-> <<"outer", "agents">>, body |-> Body(3, NoLink, 0)],
            [file |-> <<"root", "claude">>, body |-> Body(3, <<"outer", "agents">>, 1)]}

Config  == INSTANCE Settings WITH mode <- approval
Routing == INSTANCE ModelRouting
Command == INSTANCE DelegateCommands
Split   == INSTANCE Decomposition
Stages  == INSTANCE ContextStages
Instr   == INSTANCE Instructions WITH
               Edits <- Changes, ImportsOn <- TRUE, ImportDepth <- 2, MaxImport <- 3, Budget <- 8, MaxFile <- 8,
               MaxAccessed <- 2, MaxVersion <- 2

\* No value is none of the values a route has; a crew is a list of some workers, none of them the worker
\* that belongs to no plan; no plan is not a plan.
ASSUME RoutingAssumption ==
    Unset \notin Routing!Efforts \cup Routing!Providers
                 \cup {"custom", "other", "pro", "flash", "high-complexity", "repeated-error"}
ASSUME CommandsAssumption ==
    /\ Crew \in Seq(Command!Members) /\ Crew # <<>> /\ "other" \notin Command!Members
    /\ NoPlan \notin UNION {[status : [W -> Command!Status], tdd : [W -> BOOLEAN]] : W \in Command!Shapes}

\* Sub-tasks have different ids (decompose.ts:60-71).
ASSUME SplitAssumption ==
    /\ Subtasks \in Seq(Split!Ids)
    /\ \A i, j \in DOMAIN Subtasks : Subtasks[i] = Subtasks[j] => i = j

\* The line that failures are grouped by is never that of a stub (cluster.ts:12-19).
ASSUME ConversationAssumption == \A m \in Made : m.fails \notin Stages!Stubs

worktrees == <<config, process, isolation, context, worktree, checkout, branches, edits, user, seen>>
settings  == <<key, env, cli, modeEnv, modeCli, trusted, bwrap, disk, phase, loaded, approval, resumed, read, report>>
routing   == <<routes, baseUrl, overrides, effort, pool, turn, escalation, streak, request, failed>>
commands  == <<session, plan, runs, proof, tree, deed>>
splits    == <<proposal, stage, source, order, accepted, text, wrote, refusal, assembled, workers>>
stages    == <<log, hist>>
instructions == <<files, loader, graph, prompt, accessed, edited, fresh>>
parts     == <<part, worktrees, settings, routing, commands, splits, stages, instructions>>

\* The one initial state of a part that another part's behaviour leaves alone.
FirstWorktree == mode = "off" /\ copyOnWrite = FALSE
FirstSetting  == key = "lsp" /\ env = "unset" /\ disk = [json |-> "missing", entry |-> "none", sibling |-> FALSE]
FirstRoutes   == baseUrl = TRUE /\ routes = [r \in Routing!Roles |-> Unset]
FirstCommand  == session = [tty |-> TRUE, worker |-> TRUE, acceptanceFirst |-> TRUE, autopilot |-> TRUE, autoApply |-> TRUE]
FirstSplit    == proposal = [deps |-> [t \in Split!Ids |-> {}], shared |-> TRUE, kind |-> "both",
                             flaw |-> "none", existing |-> {}]
FirstInstructions == files = Sparse /\ loader = "first"

PartsInit ==
    /\ part \in {"worktree", "settings", "routing", "commands", "split", "stages", "instructions"}
    /\ (part # "worktree" => FirstWorktree) /\ Init
    /\ (part # "settings" => FirstSetting)  /\ Config!Init
    /\ (part # "routing" => FirstRoutes)    /\ Routing!Init
    /\ (part # "commands" => FirstCommand)  /\ Command!Init
    /\ (part # "split" => FirstSplit)       /\ Split!Init
    /\ Stages!Init
    /\ (part # "instructions" => FirstInstructions) /\ Instr!Init

Takes(name) ==
    /\ UNCHANGED part
    /\ name # "worktree" => UNCHANGED worktrees
    /\ name # "settings" => UNCHANGED settings
    /\ name # "routing"  => UNCHANGED routing
    /\ name # "commands" => UNCHANGED commands
    /\ name # "split"    => UNCHANGED splits
    /\ name # "stages"   => UNCHANGED stages
    /\ name # "instructions" => UNCHANGED instructions

PartsNext ==
    \/ part = "worktree" /\ Next /\ Takes("worktree")
    \/ part = "settings" /\ Config!Next /\ Takes("settings")
    \/ part = "routing" /\ Routing!Next /\ Takes("routing")
    \/ part = "commands" /\ Command!Next /\ Takes("commands")
    \/ part = "split" /\ Split!Next /\ Takes("split")
    \/ part = "stages" /\ Stages!Next /\ Takes("stages")
    \/ part = "instructions" /\ Instr!Next /\ Takes("instructions")

PartsSpec == PartsInit /\ [][PartsNext]_parts

\* Settings: see Settings.
SettingsSound == Config!SettingsSound

\* Model routes: see ModelRouting.
RoutingSound == Routing!RoutingSound

\* The delegation commands: see DelegateCommands.
CommandsSound == Command!CommandsSound

\* A task split by the model: see Decomposition.
DecompositionSound == Split!DecompositionSound

\* A conversation that is shortened before it is sent: see ContextStages.
ConversationSound == Stages!StagesSound

\* The instruction files the model is given: see Instructions.
InstructionsSound == Instr!InstructionsSound

\* What a step may not do: write through to the checkout of a run under copy-on-write
\* (Worktree), take back an escalation or an adapter (ModelRouting), run a settled
\* worker again (DelegateCommands).
StepsSound == CheckoutUntouched /\ Routing!RoutingSteps /\ Command!SettledStays
=============================================================================
