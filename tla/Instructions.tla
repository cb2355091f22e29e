---------------------------- MODULE Instructions ----------------------------
(***************************************************************************)
(* The instruction files of a session: what the system prompt holds of     *)
(* them (instructionGraph.ts, instructionTiers.ts, projectInstructions.ts, *)
(* whichever loader the configuration names), and the files of nested      *)
(* directories that reach the model once a file below them is read.        *)
(*                                                                         *)
(* A file is its directory and its name.  Its body is its size, markers    *)
(* included, the file its last line imports and the guidance it gives in   *)
(* one dimension, 0 for none.  Guidance mode and the prompt override, both *)
(* off by default, are left out.                                           *)
(***************************************************************************)
EXTENDS Integers, Sequences, FiniteSets, SequencesExt

CONSTANTS
    Files, Disks, Edits,   \* the files; what they may hold at first; the edits a user makes
    Absent,                \* of a file that does not exist
    Above,                 \* the directories from below the root down to one, outermost first
    ImportsOn, ImportDepth, MaxImport,   \* settings of imports
    Budget,                \* DEFAULT_STARTUP_MAX_BYTES, DEFAULT_RENDER_MAX_BYTES
    MaxFile,               \* MAX_INSTRUCTION_BYTES
    MaxAccessed, MaxVersion   \* bounds

VARIABLES
    files,      \* what is on disk
    loader,     \* the loader the configuration names
    graph,      \* the instruction graph: version, sources, clash (a conflict was warned of)
    prompt,     \* the instruction files the system prompt holds, with their sizes
    accessed,   \* the directories of the files the session has read (readTracker), in order
    edited,     \* a file changed since the session was started or resumed
    fresh       \* nothing was read or edited, and the graph not replaced, since the last call

vars == <<files, loader, graph, prompt, accessed, edited, fresh>>

\* The names of one directory in the order they apply; an override replaces "agents".
Order == <<"override", "agents", "claude", "local", "gemini", "own", "rule">>
Private == {"own", "rule", "mine", "user"}   \* below .deepcoder; no directory lists the last two
Place(name) == CHOOSE i \in DOMAIN Order : Order[i] = name

Exists(f) == f \in Files /\ files[f] # Absent
Size(f) == IF Exists(f) THEN files[f].size ELSE 0
Capped(n, cap) == IF n > cap THEN cap ELSE n

\* The files of a directory that have something to say.
discoverDirectory(dir) ==
    SelectSeq([i \in DOMAIN Order |-> <<dir, Order[i]>>],
              LAMBDA f : /\ Size(f) > 0
                         /\ ~(f[2] = "agents" /\ Exists(<<dir, "override">>)))

(***************************************************************************)
(* Imports.  A limit names what may be imported, how deep, up to which     *)
(* size, and which files are on the chain to start with.                   *)
(***************************************************************************)
\* Within the roots and not sensitive, which all of ~/.deepcoder is.
Importable == {f \in Files : Exists(f) /\ f[1] # "global" /\ f[2] \notin Private}

Startup(f) == [on |-> ImportsOn, depth |-> ImportDepth, cap |-> MaxImport, from |-> Importable, stack |-> {f}]

\* Mutated form of Jit: the file itself is not on the stack.
JitOff(f) == [on |-> TRUE, depth |-> 4, cap |-> MaxImport, from |-> Importable, stack |-> {}]

\* A nested file is loaded with the built-in limits, whatever is configured.
Jit(f) == [on |-> TRUE, depth |-> 4, cap |-> MaxImport, from |-> Importable, stack |-> {f}]

\* The include expander of the tiers does not count the file it starts from.
Tier == [on |-> TRUE, depth |-> 4, cap |-> MaxFile, stack |-> {},
         from |-> {f \in Files : Size(f) \in 1 .. MaxFile /\ f[1] # "global"}]

\* The chain of a file and what it imports, one of another.
Chain(f, limit) ==
    LET whole(c) == Len(c) = 1 \/ Size(Last(c)) <= limit.cap
        chain[k \in 0 .. limit.depth] ==
            IF k = 0 THEN <<f>>
            ELSE LET c == chain[k - 1]
                     target == files[Last(c)].link
                 IN IF /\ Len(c) = k /\ limit.on /\ whole(c)
                       /\ target \in limit.from \ (limit.stack \cup ToSet(Tail(c)))
                    THEN Append(c, target) ELSE c
    IN chain[limit.depth]

\* The size of the text a chain expands to.
Expanded(chain, limit) ==
    LET upTo[i \in DOMAIN chain] ==
            IF i = 1 THEN Size(chain[1]) ELSE upTo[i - 1] + Capped(Size(chain[i]), limit.cap)
    IN upTo[Len(chain)]

\* loadFile: a file, then what it imports, the innermost first and without a text.
loadFile(f, at, limit) ==
    LET chain == Chain(f, limit)
        source(g, size) == [file |-> g, at |-> at, owner |-> f, size |-> size, skipped |-> FALSE]
    IN <<source(f, Expanded(chain, limit))>> \o [i \in 1 .. Len(chain) - 1 |-> source(Reverse(chain)[i], 0)]

(***************************************************************************)
(* Startup.                                                                *)
(***************************************************************************)
\* Mutated form of renderStartup: what was used is not counted.
renderAll(sources) == [i \in DOMAIN sources |-> [sources[i] EXCEPT !.skipped = sources[i].size = 0]]

\* A source that does not fit is dropped, a later smaller one may be kept.
renderStartup(sources) ==
    LET drops(i, n) == sources[i].size = 0 \/ n + sources[i].size > Budget
        used[i \in 0 .. Len(sources)] ==
            IF i = 0 THEN 0
            ELSE LET n == used[i - 1] IN IF drops(i, n) THEN n ELSE n + sources[i].size
    IN [i \in DOMAIN sources |-> [sources[i] EXCEPT !.skipped = drops(i, used[i - 1])]]

\* The bucket a text falls in: the first whose pattern fires anywhere in it.
classify(chain) ==
    LET said == {files[chain[i]].says : i \in DOMAIN chain} \ {0}
    IN IF said = {} THEN 0 ELSE CHOOSE b \in said : \A c \in said : b <= c

detectConflicts(listed) ==
    Cardinality({classify(Chain(f, Startup(f))) : f \in ToSet(listed)} \ {0}) > 1

buildInstructionGraph(version) ==
    LET listed == discoverDirectory("global") \o discoverDirectory("root")
        loaded == FlattenSeq([i \in DOMAIN listed |-> loadFile(listed[i], "startup", Startup(listed[i]))])
    IN [version |-> version, sources |-> renderStartup(loaded), clash |-> detectConflicts(listed)]

NoGraph == [version |-> 0, sources |-> <<>>, clash |-> FALSE]
Rendered(sources) ==
    LET kept == SelectSeq(sources, LAMBDA s : s.at = "startup" /\ ~s.skipped)
    IN [i \in DOMAIN kept |-> [file |-> kept[i].file, size |-> kept[i].size]]

\* The first file of the workspace that can be read and has a text.
Candidates == <<<<"root", "own">>, <<"root", "agents">>, <<"root", "claude">>>>
loadInstructions ==
    LET found == SelectSeq(Candidates, LAMBDA f : Size(f) \in 1 .. MaxFile)
    IN IF found = <<>> THEN <<>> ELSE <<[file |-> Head(found), size |-> Size(Head(found))]>>

\* Mutated form of tierRank: the most local tier comes first.
tierRankUp(f) == IF f[1] = "global" THEN 3 ELSE IF f[2] = "mine" THEN 1 ELSE 2

\* The user's tier, the workspace's, the private one.
tierRank(f) == IF f[1] = "global" THEN 1 ELSE IF f[2] = "mine" THEN 3 ELSE 2
orderSources(sources) == SortSeq(sources, LAMBDA f, g : tierRank(f) < tierRank(g))

\* loadTieredInstructions: the user's, the workspace's and the private file, and of
\* these as many as fit, nothing after the first that does not.
loadTieredInstructions ==
    LET user  == SelectSeq(<<<<"global", "user">>>>, LAMBDA f : Size(f) \in 1 .. MaxFile)
        space == [i \in DOMAIN loadInstructions |-> loadInstructions[i].file]
        local == SelectSeq(<<<<"root", "mine">>>>, LAMBDA f : Size(f) \in 1 .. MaxFile)
        tiers == orderSources(user \o space \o local)
        sizes == [i \in DOMAIN tiers |-> Expanded(Chain(tiers[i], Tier), Tier)]
        used[i \in 0 .. Len(tiers)] == IF i = 0 THEN 0 ELSE used[i - 1] + sizes[i]
        fits == {i \in DOMAIN tiers : used[i] <= Budget}
    IN [i \in fits |-> [file |-> tiers[i], size |-> sizes[i]]]

resolveInstructions ==
    CASE loader = "tiers" -> [text |-> loadTieredInstructions, graph |-> NoGraph]
      [] loader = "graph" -> [text |-> Rendered(buildInstructionGraph(1).sources),
                              graph |-> buildInstructionGraph(1)]
      [] OTHER -> [text |-> loadInstructions, graph |-> NoGraph]

(***************************************************************************)
(* The files of nested directories.                                        *)
(***************************************************************************)
\* Mutated form of Known: what a file imports is all that is known.
KnownImports(sources) == {sources[i].file : i \in {j \in DOMAIN sources : sources[j].size = 0}}

Known(sources) == {sources[i].file : i \in DOMAIN sources}

\* Mutated form of Walk: from the file up.
WalkUp(dir) == Reverse(Above[dir])

\* directoryWalk without the root, which is handled at startup.
Walk(dir) == Above[dir]

\* What an access below dir brings.  Files imported meanwhile do not count as known.
pathLocalSources(sources, dir) ==
    LET listed == FlattenSeq([i \in DOMAIN Walk(dir) |-> discoverDirectory(Walk(dir)[i])])
        new == SelectSeq(listed, LAMBDA f : f \notin Known(sources))
    IN FlattenSeq([i \in DOMAIN new |-> loadFile(new[i], "jit", Jit(new[i]))])

\* jitContext: over all that was read, each time.
jitContext ==
    LET after[i \in 0 .. Len(accessed)] ==
            IF i = 0 THEN graph.sources
            ELSE LET sources == after[i - 1] IN sources \o pathLocalSources(sources, accessed[i])
    IN after[Len(accessed)]
-----------------------------------------------------------------------------
Init ==
    /\ files \in Disks
    /\ loader \in {"tiers", "graph", "first"}
    /\ graph = resolveInstructions.graph /\ prompt = resolveInstructions.text
    /\ accessed = <<>> /\ edited = FALSE /\ fresh = FALSE

\* A tool reads a file of dir.
Read(dir) ==
    /\ Len(accessed) < MaxAccessed /\ dir \notin ToSet(accessed)
    /\ accessed' = Append(accessed, dir) /\ fresh' = FALSE
    /\ UNCHANGED <<files, loader, graph, prompt, edited>>

\* The watcher sees a file change and forgets that it was read.
Forget(dir) ==
    /\ dir \in ToSet(accessed)
    /\ accessed' = SelectSeq(accessed, LAMBDA d : d # dir)
    /\ UNCHANGED <<files, loader, graph, prompt, edited, fresh>>

\* A model call: the new blocks are appended for this call only.
Ask ==
    /\ graph' = IF loader = "graph" THEN [graph EXCEPT !.sources = jitContext] ELSE graph
    /\ fresh' = TRUE
    /\ UNCHANGED <<files, loader, prompt, accessed, edited>>

Edit(e) ==
    /\ files[e.file] # e.body
    /\ files' = [files EXCEPT ![e.file] = e.body]
    /\ edited' = TRUE /\ fresh' = FALSE
    /\ UNCHANGED <<loader, graph, prompt, accessed>>

\* /instructions reload: a new graph, the conversation as it is.
Reload ==
    /\ loader = "graph" /\ graph.version < MaxVersion
    /\ graph' = buildInstructionGraph(graph.version + 1) /\ fresh' = FALSE
    /\ UNCHANGED <<files, loader, prompt, accessed, edited>>

\* A compaction starts an epoch with a new system prompt; the graph stays.
Compact ==
    /\ prompt' = resolveInstructions.text
    /\ UNCHANGED <<files, loader, graph, accessed, edited, fresh>>

Resume ==
    /\ graph' = resolveInstructions.graph /\ prompt' = resolveInstructions.text
    /\ edited' = FALSE /\ fresh' = FALSE
    /\ UNCHANGED <<files, loader, accessed>>

Next ==
    \/ \E dir \in DOMAIN Above : Read(dir) \/ Forget(dir)
    \/ \E e \in Edits : Edit(e)
    \/ Ask \/ Reload \/ Compact \/ Resume

Spec == Init /\ [][Next]_vars
-----------------------------------------------------------------------------
TypeOK ==
    /\ loader \in {"tiers", "graph", "first"} /\ DOMAIN files = Files
    /\ graph.version \in 0 .. MaxVersion /\ Known(graph.sources) \subseteq Files
    /\ ToSet(accessed) \subseteq DOMAIN Above /\ edited \in BOOLEAN /\ fresh \in BOOLEAN

Owned(s) == s.owner = s.file /\ s.size > 0
Heads == {i \in DOMAIN graph.sources : Owned(graph.sources[i])}

\* A block of a nested file is given to the model once, whatever is read, edited or
\* imported before the next call ("every block is yielded exactly once", jitContext).
GivenOnce ==
    \A i, j \in Heads : graph.sources[i].file = graph.sources[j].file => i = j

\* Every call is made with the instructions of every directory above a file that
\* was read: after it, none that has a text is unknown to the graph.
NestedReach ==
    fresh /\ loader = "graph" =>
        \A dir \in ToSet(accessed) : \A k \in DOMAIN Above[dir] :
            ToSet(discoverDirectory(Above[dir][k])) \subseteq Known(graph.sources)

\* Closer directories apply later: as long as no file is edited, those of an outer
\* directory come before those of an inner one, and in one directory by their names,
\* of which an override is the only one of its kind.
OuterFirst ==
    ~edited => \A i, j \in Heads :
        LET f == graph.sources[i].file
            g == graph.sources[j].file
        IN /\ f[1] = g[1] /\ i < j => Place(f[2]) < Place(g[2])
           /\ {f[1], g[1]} \subseteq DOMAIN Above /\ f[1] # g[1] /\ f[1] \in ToSet(Above[g[1]]) => i < j
           /\ f[1] = g[1] => ~(f[2] = "override" /\ g[2] = "agents")

\* Imports end: what one file brings in is never itself again, nothing twice, and no
\* more files than the depth allows.
ImportsEnd ==
    \A i \in Heads :
        LET brought == {j \in DOMAIN graph.sources : j # i /\ graph.sources[j].owner = graph.sources[i].file}
        IN /\ \A j, k \in brought : graph.sources[j].file = graph.sources[k].file => j = k
           /\ \A j \in brought : graph.sources[j].file # graph.sources[i].file
           /\ Cardinality(brought) <= IF graph.sources[i].at = "startup" THEN ImportDepth ELSE 4

\* The prompt keeps to its budget, the first-match loader to the cap of a file.
PromptFits ==
    LET upTo[i \in 0 .. Len(prompt)] == IF i = 0 THEN 0 ELSE upTo[i - 1] + prompt[i].size
    IN upTo[Len(prompt)] <= IF loader = "first" THEN MaxFile ELSE Budget

\* Authority: the user's own file before the workspace's, the private one last.
PromptInOrder ==
    \A i, j \in DOMAIN prompt :
        /\ prompt[i].file[1] = "global" /\ prompt[j].file[1] = "root" => i < j
        /\ prompt[i].file[2] = "mine" => j <= i

\* What /instructions shows is what the model was given, as long as no file changed
\* since the session was started or resumed, reloads and compactions included.
ShownIsGiven == loader = "graph" /\ ~edited => Rendered(graph.sources) = prompt

\* Two files of the prompt that give different guidance are warned of.
ClashIsKnown ==
    loader = "graph" /\ ~edited /\ ~graph.clash =>
        Cardinality({classify(Chain(prompt[i].file, Startup(prompt[i].file))) : i \in DOMAIN prompt} \ {0}) <= 1

\* The instruction files of a session.
InstructionsSound ==
    /\ TypeOK /\ GivenOnce /\ NestedReach /\ OuterFirst /\ ImportsEnd
    /\ PromptFits /\ PromptInOrder /\ ShownIsGiven /\ ClashIsKnown

\* As /instructions reload says ("applies to future model calls"), the reloaded files
\* are what the next calls are made with.  They are not: the system prompt stays as it
\* was until a compaction or a resume.
ReloadReachesCalls == loader = "graph" /\ graph.version > 1 => Rendered(graph.sources) = prompt
=============================================================================
