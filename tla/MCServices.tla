----------------------------- MODULE MCServices -----------------------------
(***************************************************************************)
(* The services around the agent and the drivers of delegation, which      *)
(* share no state, in one run: the initial state chooses the service whose *)
(* steps the behaviour takes.  Background work and commands (BoundedWork)  *)
(* are extended, the others are instances.                                 *)
(***************************************************************************)
EXTENDS BoundedWork, Sequences, SequencesExt

CONSTANTS Languages, MaxServers, Calls,
          McpServers, MaxConnects,
          MaxLines, MaxPushes,
          InlineCommands, MaxRuns, NoQuestion,
          MaxRounds,
          Fetchers, maxRedirects, maxBytes, maxResults, TraceCap, MaxOps

\* Launches, connections, lines and bytes are counted, the tool servers are listed
\* in order, and the trace of the web has room; an absent question is none of the
\* names the terminal's states have.
ASSUME ServicesAssumption ==
    /\ {MaxServers, MaxConnects, MaxLines, MaxRuns, MaxRounds} \subseteq Nat
    /\ McpServers \subseteq Nat /\ IsFiniteSet(McpServers)
    /\ {maxRedirects, maxBytes, maxResults} \subseteq Nat /\ TraceCap \in Nat \ {0}
    /\ NoQuestion \notin {"tool", "bang", "plan", "screen", "buffer"}

VARIABLES
    service,
    cache, server, language, proc, supervised, disposed, call, closing, queue, launches, taken,
    deferMcp, connects, link, pool, withheld, exposed, status,
    method, sent, eof, pushes, run, loop, events, lastMessage, out, rounds, emitted,
    life, tty, restored, busy, runs, ask, suspended, inline, writer, disturbed, started,
    driver, config, memory, disk, changed, round, stage, ran, turn, roundBlocked, roundPaths,
    reported, blocked, landed, unrecorded, stopped, result,
    policy, inlined, phase, by, url, hops, read, base, shows, trace, ops

\* Three servers, the first and the last with names that collide.
Sanitised == [s \in McpServers |-> IF s = 2 THEN "docs" ELSE "web_search"]

\* Two workers, the second after the first, and one the planner may add after
\* the second; patches of up to two files.
Seeds  == {1, 2}
Extras == {3}
Paths  == {4, 5}
Needs  == [w \in Seeds \cup Extras |-> {w - 1} \ {0}]

Tools   == INSTANCE ToolServers WITH stage <- server
Stdio   == INSTANCE StdioServer WITH MaxRounds <- MaxPushes
Tui     == INSTANCE TuiShell WITH Jobs <- InlineCommands, None <- NoQuestion
Rounds  == INSTANCE DelegationRounds
Web     == INSTANCE WebAccess WITH inline <- inlined

\* Two runs over one session, and one line that is answered at once.
TwoRuns == \E n \in Stdio!Lines : method[n] # "runTask"

PartsInit ==
    /\ service \in {"lsp", "tools", "jobs", "process", "stdio", "tui", "rounds", "web"}
    /\ Tools!LspInit
    /\ (service # "lsp" => language = [s \in Tools!Servers |-> CHOOSE l \in Languages : TRUE])
    /\ Tools!PoolInit /\ (service # "tools" => deferMcp)
    /\ JobsInit
    /\ ProcessInit /\ (service # "process" => signal)
    /\ Stdio!Init /\ IF service = "stdio" THEN TwoRuns ELSE \A n \in Stdio!Lines : method[n] = "other"
    /\ Tui!Init
    /\ Rounds!Init /\ (service # "rounds" => driver = "autopilot" /\ config.autoApply /\ config.stopOnConflict)
    /\ (service # "web" => inlined = FALSE /\ policy = [allowed |-> {}, blocked |-> {}]) /\ Web!Init

lsp     == <<cache, server, language, proc, supervised, disposed, call, closing, queue, launches, taken>>
tools   == <<deferMcp, connects, link, pool, withheld, exposed, status>>
stdio   == <<method, sent, eof, pushes, run, loop, events, lastMessage, out, rounds, emitted>>
tui     == <<life, tty, restored, busy, runs, ask, suspended, inline, writer, disturbed, started>>
drivers == <<driver, config, memory, disk, changed, round, stage, ran, turn, roundBlocked, roundPaths,
             reported, blocked, landed, unrecorded, stopped, result>>
web     == <<policy, inlined, phase, by, url, hops, read, base, shows, trace, ops>>
vars    == <<service, lsp, tools, jobVars, processVars, stdio, tui, drivers, web>>

Takes(name) ==
    /\ UNCHANGED service
    /\ name # "lsp"     => UNCHANGED lsp
    /\ name # "tools"   => UNCHANGED tools
    /\ name # "jobs"    => UNCHANGED jobVars
    /\ name # "process" => UNCHANGED processVars
    /\ name # "stdio"   => UNCHANGED stdio
    /\ name # "tui"     => UNCHANGED tui
    /\ name # "rounds"  => UNCHANGED drivers
    /\ name # "web"     => UNCHANGED web

PartsNext ==
    \/ service = "lsp" /\ Tools!LspNext /\ Takes("lsp")
    \/ service = "tools" /\ Tools!PoolNext /\ Takes("tools")
    \/ service = "jobs" /\ JobsNext /\ Takes("jobs")
    \/ service = "process" /\ ProcessNext /\ Takes("process")
    \/ service = "stdio" /\ Stdio!Next /\ Takes("stdio")
    \/ service = "tui" /\ Tui!Next /\ Takes("tui")
    \/ service = "rounds" /\ Rounds!Next /\ Takes("rounds")
    \/ service = "web" /\ Web!Next /\ Takes("web")

Fairness ==
    /\ \A s \in Tools!Servers :
        /\ WF_vars(service = "lsp" /\ (Tools!Spawns(s) \/ Tools!SpawnFails(s)) /\ Takes("lsp"))
        /\ WF_vars(service = "lsp" /\ Tools!HandshakeFails(s) /\ Takes("lsp"))
    /\ WF_vars(service = "process" /\ (TimerFires \/ Closes) /\ Takes("process"))
    /\ WF_vars(service = "stdio" /\ Stdio!Handles /\ Takes("stdio"))
    /\ WF_vars(service = "stdio" /\ Stdio!Loops /\ Takes("stdio"))
    /\ WF_vars(service = "stdio" /\ Stdio!Streams /\ Takes("stdio"))
    /\ WF_vars(service = "tui" /\ Tui!RunEnds /\ Takes("tui"))
    /\ WF_vars(service = "tui" /\ Tui!BackAtPrompt /\ Takes("tui"))
    /\ WF_vars(service = "rounds" /\ Rounds!DriverStep /\ Takes("rounds"))

PartsSpec == PartsInit /\ [][PartsNext]_vars /\ Fairness

\* Language servers, MCP tools and the web: see ToolServers and WebAccess.
ServersSound == Tools!LspSound /\ Tools!PoolSound /\ Web!WebSound

\* The server on standard input: see StdioServer.
StdioSound == Stdio!StdioSound

\* The raw-mode terminal: see TuiShell.
TuiSound == Tui!TuiSound

\* What the services owe their callers: a language-server call settles, a
\* command ends, every line is answered, an interrupted run gives the prompt
\* back and the run of a driver ends.
ServicesSettle ==
    /\ Tools!EveryStartSettles /\ CommandEnds /\ Stdio!EveryLineAnswered
    /\ Tui!InterruptEnds /\ (service = "rounds" => Rounds!RunEnds)

\* The drivers: see DelegationRounds.
DriverSound == Rounds!DriverSound

\* A driver lands dependencies first, and the trace of the web keeps its records:
\* see DelegationRounds and WebAccess.
ServiceSteps == Rounds!DependenciesFirst /\ Web!TraceKept
=============================================================================
