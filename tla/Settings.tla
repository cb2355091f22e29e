------------------------------ MODULE Settings ------------------------------
(***************************************************************************)
(* How a setting gets its value.  loadConfig layers the defaults, the      *)
(* workspace's .deepcoder/config.json, the environment and the command     *)
(* line, in a way of its own for every group of settings; it ignores the   *)
(* parts of an untrusted workspace's file that run code, and couples the   *)
(* yolo approval mode to containment.  The file may be edited while the    *)
(* session runs, the mode changed, the session resumed by a later process; *)
(* /debug-config explains a setting from what it finds then.               *)
(*                                                                         *)
(* One setting is followed at a time; the others have no source but their  *)
(* default.  A setting is a switch: "on" and "off" stand for the spellings *)
(* the code recognises, "junk" for any other text.                         *)
(***************************************************************************)
EXTENDS Integers, FiniteSets

VARIABLES
    key,        \* the setting followed
    env,        \* its environment variable
    cli,        \* its command-line override
    modeEnv,    \* DEEPCODER_APPROVAL_MODE
    modeCli,    \* --mode, --yolo
    trusted,    \* the workspace is trusted
    bwrap,      \* bubblewrap is installed
    disk,       \* .deepcoder/config.json
    phase,      \* "starting", "refused" or "running"
    loaded,     \* the configuration of the process
    mode,       \* the approval mode of the session
    resumed,    \* the session was resumed
    read,       \* the file as loadConfig found it
    report      \* what /debug-config last said of the setting

vars == <<key, env, cli, modeEnv, modeCli, trusted, bwrap, disk, phase, loaded, mode, resumed, read, report>>

NoReport == [source |-> "none", winners |-> {}]

\* How the environment and the file are combined: an unrecognised text leaves
\* the file's word; any text counts, and all but "on" as off; any text counts,
\* and all but "off" as on; only "on" counts, and the file may also say so;
\* only "off" counts; the environment alone; the file alone.
Recognised == {"containment", "copyOnWrite", "diagnostics", "preflight", "trident", "writeSubagents"}
AnyText    == {"skills", "acceptanceFirst", "qualityGate", "security"}
NotOff     == {"assess"}
NonEmpty   == {"testTargeting"}
Either     == {"semanticSearch", "lsp"}
KillSwitch == {"statusline"}
EnvOnly    == {"mcpExecute", "interactiveShell", "planFirst"}
FileOnly   == {"hooks"}
Names == Recognised \cup AnyText \cup NotOff \cup NonEmpty \cup Either \cup KillSwitch \cup EnvOnly \cup FileOnly

Default(k) == k \in {"containment", "copyOnWrite", "trident", "skills", "acceptanceFirst", "assess", "statusline"}

\* What the parser makes of the file's blocks: a block checked as a whole is
\* dropped for one bad field, a block checked field by field is not, and a field
\* that the block's schema does not name is stripped.
WholeBlock == {"containment", "diagnostics", "preflight", "skills", "acceptanceFirst", "qualityGate", "hooks"}
ByField    == {"testTargeting", "semanticSearch", "lsp", "statusline"}

Files == [json : {"missing", "malformed"}, entry : {"none"}, sibling : {FALSE}]
         \cup [json : {"object"}, entry : {"none", "on", "off"}, sibling : BOOLEAN]

\* The file's word on a setting; a file that cannot be read or parsed says
\* nothing and stops nothing.
Entry(k, d) ==
    IF d.json # "object" \/ k \notin WholeBlock \cup ByField \/ (k \in WholeBlock /\ d.sibling)
    THEN "none" ELSE d.entry

\* The word of the first that has one.
Over(word, lower) == IF word = "none" THEN lower ELSE word = "on"

\* Mutated form of Recognise: a text that is not recognised counts as on.
RecogniseOffOnly(text, lower) == IF text = "unset" THEN lower ELSE text # "off"

Recognise(text, lower) == IF text \in {"on", "off"} THEN text = "on" ELSE lower

Resolve(k, text, word, lower) ==
    CASE k \in Recognised -> Recognise(text, Over(word, lower))
      [] k \in AnyText    -> IF text = "unset" THEN Over(word, lower) ELSE text = "on"
      [] k \in NotOff     -> IF text = "unset" THEN Over(word, lower) ELSE text # "off"
      [] k \in NonEmpty   -> IF text \in {"unset", "empty"} THEN Over(word, lower) ELSE text = "on"
      [] k \in Either     -> text = "on" \/ word = "on"
      [] k \in KillSwitch -> text # "off" /\ Over(word, lower)
      [] k \in EnvOnly    -> text = "on"
      [] k \in FileOnly   -> Over(word, lower)

-----------------------------------------------------------------------------
\* The value of a setting in a process started with the command line c, over
\* the file d.  Hooks and MCP servers of an untrusted workspace are dropped.
Value(k, d, c) ==
    LET gated == k = "hooks" /\ ~trusted
    IN  IF k # key THEN Default(k)
        ELSE Over(c, Resolve(k, env, IF gated THEN "off" ELSE Entry(k, d), Default(k)))

Started == IF modeCli # "none" THEN modeCli ELSE IF modeEnv = "unset" THEN "ask" ELSE modeEnv

\* Mutated form of Configuration: yolo leaves the containment to the other
\* sources.
ConfigurationUncoupled(d, c) ==
    [value |-> Value(key, d, c), containment |-> Value("containment", d, c),
     mcpExecute |-> Started # "yolo" /\ Value("mcpExecute", d, c),
     shell |-> Started # "yolo" /\ Value("interactiveShell", d, c)]

\* Yolo approves everything, so it turns containment on and the two ways around
\* it off.
Configuration(d, c) ==
    LET yolo == Started = "yolo"
    IN  [value       |-> Value(key, d, c),
         containment |-> yolo \/ Value("containment", d, c),
         mcpExecute  |-> ~yolo /\ Value("mcpExecute", d, c),
         shell       |-> ~yolo /\ Value("interactiveShell", d, c)]

Init ==
    /\ key \in Names
    /\ env \in {"unset", "empty", "on", "off", "junk"}
    /\ disk \in Files
    /\ cli \in IF key = "containment" THEN {"none", "on", "off"} ELSE {"none"}
    /\ modeEnv \in IF key \in EnvOnly \cup {"containment"} THEN {"unset", "yolo", "junk"} ELSE {"unset"}
    /\ modeCli \in IF key \in EnvOnly \cup {"containment"} THEN {"none", "auto", "yolo"} ELSE {"none"}
    /\ trusted \in IF key = "hooks" THEN BOOLEAN ELSE {TRUE}
    /\ bwrap \in IF key = "containment" THEN BOOLEAN ELSE {TRUE}
    /\ phase = "starting" /\ loaded = Configuration(disk, cli) /\ read = disk
    /\ mode = "ask" /\ resumed = FALSE /\ report = NoReport

inputs == <<key, env, modeEnv, modeCli, trusted, bwrap>>

\* loadConfig, and the process that gives up when containment has no backend.
Load ==
    /\ phase = "starting"
    /\ read' = disk /\ loaded' = Configuration(disk, cli) /\ mode' = Started
    /\ phase' = IF loaded'.containment /\ ~bwrap THEN "refused" ELSE "running"
    /\ UNCHANGED <<inputs, cli, disk, resumed, report>>

\* The user edits the file while the session runs.
EditFile ==
    /\ phase = "running" /\ disk = read
    /\ disk' \in Files \ {disk}
    /\ UNCHANGED <<inputs, cli, phase, loaded, mode, resumed, read, report>>

\* Mutated form of ModeCommand: /mode yolo does not look at the containment.
ModeCommandFree(m) ==
    /\ phase = "running" /\ mode' = m
    /\ UNCHANGED <<inputs, cli, disk, phase, loaded, resumed, read, report>>

\* /mode: yolo is refused in a session whose commands are not contained.
ModeCommand(m) ==
    /\ phase = "running"
    /\ mode' = IF m = "yolo" /\ ~loaded.containment THEN mode ELSE m
    /\ UNCHANGED <<inputs, cli, disk, phase, loaded, resumed, read, report>>

\* A later process resumes the session: its configuration is loaded anew, with
\* its own command line, and the session's mode is the saved one.
Resume(c) ==
    /\ phase = "running" /\ ~resumed
    /\ cli' = c /\ read' = disk /\ loaded' = Configuration(disk, c)
    /\ phase' = IF loaded'.containment /\ ~bwrap THEN "refused" ELSE "running"
    /\ resumed' = TRUE /\ report' = NoReport
    /\ UNCHANGED <<inputs, disk, mode>>

-----------------------------------------------------------------------------
\* /debug-config reads the file and the trust list again; it knows nothing of
\* the command line, and takes any text in the variable for its word.
Shown == {"diagnostics", "preflight", "skills", "acceptanceFirst", "qualityGate", "testTargeting",
          "semanticSearch", "statusline", "mcpExecute", "hooks"}

Explained ==
    LET word == Entry(key, disk)
        says == IF key = "mcpExecute" THEN env = "on" ELSE key # "hooks" /\ env \notin {"unset", "empty"}
        named == IF says THEN "env" ELSE IF word # "none" THEN "file" ELSE "default"
    IN  IF key # "hooks" THEN [source |-> named, winners |-> {named}]
        ELSE LET gated == word = "on" /\ ~trusted
             IN  [source  |-> IF gated THEN "trust-gate" ELSE named,
                  winners |-> (IF word = "on" /\ trusted THEN {"file"} ELSE {})
                              \cup (IF gated THEN {"trust-gate"} ELSE {})
                              \cup (IF word = "none" \/ gated THEN {"default"} ELSE {})]

\* Mutated form of DebugConfig: the file wins over the environment.
DebugConfigFileFirst ==
    /\ phase = "running" /\ key \in Shown
    /\ report' = IF Entry(key, disk) # "none" THEN [source |-> "file", winners |-> {"file"}] ELSE Explained
    /\ UNCHANGED <<inputs, cli, disk, phase, loaded, mode, resumed, read>>

DebugConfig ==
    /\ phase = "running" /\ key \in Shown
    /\ report' = Explained
    /\ UNCHANGED <<inputs, cli, disk, phase, loaded, mode, resumed, read>>

Idle == UNCHANGED vars

Next ==
    \/ Load \/ EditFile \/ DebugConfig \/ Idle
    \/ \E m \in (IF key = "containment" THEN {"ask", "auto", "yolo"} ELSE {}) : ModeCommand(m)
    \/ \E c \in (IF key = "containment" THEN {"none", "on", "off"} ELSE {"none"}) : Resume(c)

Spec == Init /\ [][Next]_vars

-----------------------------------------------------------------------------
\* A session that approves everything runs contained, whether it was started in
\* yolo or switched to it, and unless it was resumed (loadConfig, /mode); a
\* contained session has its backend (main).
YoloIsContained ==
    phase = "running" =>
        /\ (mode = "yolo" /\ ~resumed) => loaded.containment
        /\ Started = "yolo" => loaded.containment /\ ~loaded.mcpExecute /\ ~loaded.shell
        /\ loaded.containment => bwrap

\* The command line beats the environment and the environment the file, but for
\* the settings that the environment can only turn on (semantic search, language
\* servers) or only off (the status line), and those read from the file alone
\* (loadConfig's "default < config file < env < CLI").  A text the
\* environment's gate does not know leaves the file's word.
LayersOrdered ==
    phase = "running" =>
        /\ cli # "none" => loaded.value = (cli = "on")
        /\ (cli = "none" /\ env \in {"on", "off"} /\ key \notin Either \cup KillSwitch \cup FileOnly)
               => loaded.value = (env = "on")
        /\ (/\ cli = "none" /\ Entry(key, read) # "none" /\ (key = "hooks" => trusted)
            /\ env = "unset" \/ (key \in Recognised /\ env \in {"empty", "junk"}))
               => loaded.value = (Entry(key, read) = "on")

\* What an untrusted workspace's file says never turns its hooks on, before or
\* after an edit or a resume (loadConfig's trust gate).
UntrustedRunsNothing ==
    (key = "hooks" /\ ~trusted /\ phase = "running") => ~loaded.value

\* The source that /debug-config names explains the value the process uses, if
\* the variable holds a text the program knows, the command line is silent and
\* the file is as the process found it; and one candidate is marked as the
\* winner of each setting but hooks (defineKeys).
ReportExplains ==
    report # NoReport =>
        /\ key # "hooks" => Cardinality(report.winners) = 1
        /\ (env \in {"unset", "on", "off"} /\ cli = "none" /\ disk = read) =>
               /\ report.source = "env" => (loaded.value = (env = "on") \/ key \in Either \cup KillSwitch)
               /\ report.source = "file" => loaded.value = (Entry(key, read) = "on")
               /\ report.source = "trust-gate" => ~loaded.value
               /\ report.source = "default" => loaded.value = Default(key)

TypeOK ==
    /\ key \in Names /\ env \in {"unset", "empty", "on", "off", "junk"} /\ cli \in {"none", "on", "off"}
    /\ disk \in Files /\ read \in Files /\ phase \in {"starting", "refused", "running"}
    /\ loaded \in [value : BOOLEAN, containment : BOOLEAN, mcpExecute : BOOLEAN, shell : BOOLEAN]
    /\ mode \in {"ask", "auto", "yolo", "junk"} /\ resumed \in BOOLEAN
    /\ report.source \in {"none", "env", "file", "default", "trust-gate"}

\* The configuration is the one its sources describe (config.ts, debugConfig.ts).
SettingsSound == TypeOK /\ YoloIsContained /\ LayersOrdered /\ UntrustedRunsNothing /\ ReportExplains
=============================================================================
