---------------------------- MODULE ToolServers ----------------------------
(***************************************************************************)
(* The servers a session's tools talk to: language servers and MCP         *)
(* servers, which share no state.                                          *)
(*                                                                         *)
(* Language servers: the manager's cache of one started server per         *)
(* language, the handshake, the JSON-RPC requests of the three read-only   *)
(* tools, the crash eviction and closeAll at session end.  A server is the *)
(* number of its launch.  What a cached promise holds is the stage of its  *)
(* server: "launch" and "handshake" are pending, "ready" an entry,         *)
(* "failed" null.  Framing and the results' text are left out;             *)
(* lsp_diagnostics reads a map of the client and is a request answered at  *)
(* once.  Tool calls run in parallel, and one abandoned by a cancelled run *)
(* may still be waiting when the session ends.                             *)
(*                                                                         *)
(* The tool pool: the tools a session offers the model, assembled at       *)
(* start-up from the native tools and the MCP servers, the deferred        *)
(* schemas, the tool_search tool that exposes them, and /mcp reload.  An   *)
(* MCP server offers one tool; two servers whose names sanitise to the     *)
(* same text ask for the same name.  Names are pairs of that text and the  *)
(* suffix, 1 for none.  A connection is the number of the connectAll that  *)
(* made it.  Connecting and listing run one server after the other with    *)
(* no other command between, and are one step with any set of failures.    *)
(***************************************************************************)
EXTENDS Integers, FiniteSets, FiniteSetsExt

CONSTANTS
    Languages,      \* languages with a server command
    MaxServers,     \* bound: launches
    Calls,          \* the tool calls
    McpServers,     \* the configured MCP servers, numbered in order
    Sanitised,      \* MCP server -> the name its tool asks for
    MaxConnects     \* bound: connectAll calls

-----------------------------------------------------------------------------
(* Language servers.                                                        *)

Servers == 1 .. MaxServers
None    == 0

VARIABLES
    cache,          \* byLanguage: language -> server of the promise, or None
    stage,          \* server -> stage of its promise
    language,       \* server -> its language
    proc,           \* server -> the child: "none", "up", "killed" or "dead"
    supervised,     \* servers whose exit evicts their language
    disposed,       \* servers whose connection is disposed
    call,           \* tool call -> [st, srv]
    closing,        \* closeAll: "no", "next", "stop" or "done"
    queue,          \* servers closeAll has still to stop
    launches,       \* launches so far
    taken           \* observer: the servers launched before closeAll

lspVars == <<cache, stage, language, proc, supervised, disposed, call, closing, queue, launches, taken>>

Waiting(s) == {c \in Calls : call[c] = [st |-> "wait", srv |-> s]}
Asked(s)   == {c \in Calls : call[c] = [st |-> "ask", srv |-> s]}
Become(cs, st, s) == [c \in Calls |-> IF c \in cs THEN [st |-> st, srv |-> s] ELSE call[c]]

LspTypeOK ==
    /\ cache \in [Languages -> Servers \cup {None}]
    /\ stage \in [Servers -> {"none", "launch", "handshake", "ready", "failed"}]
    /\ language \in [Servers -> Languages]
    /\ proc \in [Servers -> {"none", "up", "killed", "dead"}]
    /\ supervised \subseteq Servers /\ disposed \subseteq Servers
    /\ call \in [Calls -> [st : {"none", "wait", "ask", "ok", "unavailable"}, srv : Servers \cup {None}]]
    /\ closing \in {"no", "next", "stop", "done"}
    /\ queue \subseteq Servers /\ taken \subseteq Servers
    \* a caller of a pending promise is waiting, and only a ready server is asked
    /\ \A s \in Servers : Waiting(s) # {} => stage[s] \in {"launch", "handshake"}
    /\ \A s \in Servers : Asked(s) # {} => stage[s] = "ready"
    /\ \A l \in Languages : cache[l] # None => language[cache[l]] = l /\ stage[cache[l]] # "failed"

LspInit ==
    /\ cache = [l \in Languages |-> None]
    /\ stage = [s \in Servers |-> "none"]
    /\ language \in [Servers -> Languages]      \* fixed in advance, read at the launch
    /\ proc = [s \in Servers |-> "none"]
    /\ supervised = {} /\ disposed = {}
    /\ call = [c \in Calls |-> [st |-> "none", srv |-> None]]
    /\ closing = "no" /\ queue = {} /\ launches = 0 /\ taken = {}

-----------------------------------------------------------------------------
(* forFile and the start of a server *)

Evicts(l) == cache' = [cache EXCEPT ![l] = None]

\* The first call of a language launches its server; the promise is cached
\* before anything is awaited.
Launches(c) ==
    /\ launches < MaxServers
    /\ launches' = launches + 1
    /\ stage' = [stage EXCEPT ![launches'] = "launch"]
    /\ cache' = [cache EXCEPT ![language[launches']] = launches']
    /\ call' = Become({c}, "wait", launches')

\* Mutated form of CallsFirst: the entry would be cached once it is started.
CallsFirstUncached(c) ==
    /\ closing = "no" /\ call[c].st = "none"
    /\ launches < MaxServers /\ cache[language[launches + 1]] = None
    /\ launches' = launches + 1
    /\ stage' = [stage EXCEPT ![launches'] = "launch"]
    /\ call' = Become({c}, "wait", launches')
    /\ UNCHANGED <<cache, language, proc, supervised, disposed, closing, queue, taken>>

CallsFirst(c) ==
    /\ closing = "no" /\ call[c].st = "none"
    /\ launches < MaxServers /\ cache[language[launches + 1]] = None
    /\ Launches(c)
    /\ UNCHANGED <<language, proc, supervised, disposed, closing, queue, taken>>

\* A later call awaits the cached promise: with an entry it sends its request.
CallsCached(c, l) ==
    /\ closing = "no" /\ call[c].st = "none" /\ cache[l] # None
    /\ call' = Become({c}, IF stage[cache[l]] = "ready" THEN "ask" ELSE "wait", cache[l])
    /\ UNCHANGED <<cache, stage, language, proc, supervised, disposed, closing, queue, launches, taken>>

\* child 'spawn': the initialize request is sent, under a timer.
Spawns(s) ==
    /\ stage[s] = "launch"
    /\ stage' = [stage EXCEPT ![s] = "handshake"]
    /\ proc' = [proc EXCEPT ![s] = "up"]
    /\ UNCHANGED <<cache, language, supervised, disposed, call, closing, queue, launches, taken>>

\* Mutated form of ResolvesNull: the null entry stays cached.
ResolvesNullCached(s) ==
    /\ stage' = [stage EXCEPT ![s] = "failed"]
    /\ call' = Become(Waiting(s), "unavailable", s)
    /\ UNCHANGED cache

\* start resolves to null, and every forFile that awaits it evicts the
\* language and reports the server unavailable: their continuations follow
\* each other with no event between them.
ResolvesNull(s) ==
    /\ stage' = [stage EXCEPT ![s] = "failed"]
    /\ call' = Become(Waiting(s), "unavailable", s)
    /\ Evicts(language[s])

\* child 'error': the binary is missing.
SpawnFails(s) ==
    /\ stage[s] = "launch"
    /\ ResolvesNull(s)
    /\ UNCHANGED <<language, proc, supervised, disposed, closing, queue, launches, taken>>

Kills(s) == proc' = [proc EXCEPT ![s] = IF @ = "up" THEN "killed" ELSE @]

\* Mutated form of HandshakeFails: no timer, only the end of the child.
HandshakeFailsOnExit(s) ==
    /\ stage[s] = "handshake" /\ proc[s] = "dead"
    /\ ResolvesNull(s)
    /\ UNCHANGED <<language, proc, supervised, disposed, closing, queue, launches, taken>>

\* The server is silent for ten seconds, or answers with an error.
HandshakeFails(s) ==
    /\ stage[s] = "handshake"
    /\ ResolvesNull(s)
    /\ Kills(s)
    /\ UNCHANGED <<language, supervised, disposed, closing, queue, launches, taken>>

\* The answer to initialize is read, perhaps after the child's exit event:
\* the exit is subscribed to only now, and a child already dead reports none.
HandshakeEnds(s) ==
    /\ stage[s] = "handshake"
    /\ stage' = [stage EXCEPT ![s] = "ready"]
    /\ supervised' = supervised \cup {s}
    /\ call' = Become(Waiting(s), "ask", s)
    /\ UNCHANGED <<cache, language, proc, disposed, closing, queue, launches, taken>>

-----------------------------------------------------------------------------
(* The server *)

\* A response settles its request once; one after dispose, or to a request
\* that is not pending, is dropped.
Answers(c) ==
    LET s == call[c].srv IN
    /\ call[c].st = "ask" /\ s \notin disposed
    /\ call' = Become({c}, "ok", s)
    /\ UNCHANGED <<cache, stage, language, proc, supervised, disposed, closing, queue, launches, taken>>

\* The child exits.  Its pending requests are not settled.
Exits(s) ==
    /\ proc[s] \in {"up", "killed"}
    /\ proc' = [proc EXCEPT ![s] = "dead"]
    /\ IF s \in supervised THEN Evicts(language[s]) ELSE UNCHANGED cache
    /\ UNCHANGED <<stage, language, supervised, disposed, call, closing, queue, launches, taken>>

-----------------------------------------------------------------------------
(* closeAll *)

\* Mutated form of CloseAll: only the servers already started are taken.
CloseAllReady ==
    /\ closing = "no"
    /\ closing' = "next"
    /\ queue' = {cache[l] : l \in {m \in Languages : cache[m] # None /\ stage[cache[m]] = "ready"}}
    /\ cache' = [l \in Languages |-> None]
    /\ taken' = 1 .. launches
    /\ UNCHANGED <<stage, language, proc, supervised, disposed, call, launches>>

CloseAll ==
    /\ closing = "no"
    /\ closing' = "next"
    /\ queue' = {cache[l] : l \in Languages} \ {None}
    /\ cache' = [l \in Languages |-> None]
    /\ taken' = 1 .. launches
    /\ UNCHANGED <<stage, language, proc, supervised, disposed, call, launches>>

\* The next promise, in the order they were cached, once it has settled: an
\* entry is sent the shutdown request, which has no timeout.
StopNext ==
    /\ closing = "next" /\ queue # {}
    /\ LET s == Min(queue) IN
       /\ stage[s] \in {"ready", "failed"}
       /\ IF stage[s] = "ready"
          THEN closing' = "stop" /\ UNCHANGED queue
          ELSE queue' = queue \ {s} /\ UNCHANGED closing
    /\ UNCHANGED <<cache, stage, language, proc, supervised, disposed, call, launches, taken>>

\* The answer to shutdown: the connection is disposed, which rejects what is
\* pending on it, and the child is killed.
StopAnswered ==
    LET s == Min(queue) IN
    /\ closing = "stop"
    /\ closing' = "next"
    /\ queue' = queue \ {s}
    /\ disposed' = disposed \cup {s}
    /\ call' = Become(Asked(s), "unavailable", s)
    /\ Kills(s)
    /\ UNCHANGED <<cache, stage, language, supervised, launches, taken>>

CloseEnds ==
    /\ closing = "next" /\ queue = {}
    /\ closing' = "done"
    /\ UNCHANGED <<cache, stage, language, proc, supervised, disposed, call, queue, launches, taken>>

Idle == UNCHANGED lspVars

LspNext ==
    \/ \E c \in Calls : CallsFirst(c) \/ Answers(c) \/ (\E l \in Languages : CallsCached(c, l))
    \/ \E s \in Servers : Spawns(s) \/ SpawnFails(s) \/ HandshakeFails(s) \/ HandshakeEnds(s) \/ Exits(s)
    \/ CloseAll \/ StopNext \/ StopAnswered \/ CloseEnds
    \/ Idle

-----------------------------------------------------------------------------
(* Properties *)

\* While the session is open, a started server that still runs is the one its
\* language's cache holds: no interleaving of parallel calls, failed starts
\* and crashes starts two servers for a language or loses one that runs
\* (forFile, the exit handler).
NoServerIsLost ==
    closing = "no" => \A s \in Servers : stage[s] = "ready" /\ proc[s] = "up" => cache[language[s]] = s

\* When closeAll returns, none of the servers launched before it is left
\* running without a kill, those whose start was in flight included
\* (closeAll, the catch of the handshake).
CloseIsThorough == closing = "done" => \A s \in taken : proc[s] # "up" /\ stage[s] # "launch"

\* A tool call that waits for a start is answered, by a client or by
\* "unavailable", whatever the server does (withTimeout, spawnLaunch).
EveryStartSettles == \A c \in Calls : (call[c].st = "wait") ~> (call[c].st # "wait")

\* No server process escapes the table, and closing stops every one.
LspSound == LspTypeOK /\ NoServerIsLost /\ CloseIsThorough

-----------------------------------------------------------------------------
(* The tool pool.                                                           *)

VARIABLES
    deferMcp,       \* config.tools: the schemas of MCP tools are withheld
    connects,       \* connectAll calls so far
    link,           \* server -> connection of its client, or 0
    pool,           \* registry.tools: the MCP wrappers [name, srv, conn]
    withheld,       \* registry.deferred, and the catalog's names
    exposed,        \* registry.exposed
    status          \* server -> the tools its status lists

poolVars == <<deferMcp, connects, link, pool, withheld, exposed, status>>

Names == {Sanitised[s] : s \in McpServers} \X (1 .. Cardinality(McpServers))
NamesOf(ws) == {w.name : w \in ws}

PoolTypeOK ==
    /\ deferMcp \in BOOLEAN /\ connects \in 0 .. MaxConnects
    /\ link \in [McpServers -> 0 .. MaxConnects]
    /\ pool \subseteq [name : Names, srv : McpServers, conn : 1 .. MaxConnects]
    /\ withheld \subseteq Names /\ exposed \subseteq withheld
    /\ status \in [McpServers -> SUBSET Names]

PoolInit ==
    /\ deferMcp \in BOOLEAN
    /\ connects = 0 /\ link = [s \in McpServers |-> 0]
    /\ pool = {} /\ withheld = {} /\ exposed = {}
    /\ status = [s \in McpServers |-> {}]

\* connectAll: the old clients are closed, then each server is connected or
\* recorded with its error, its child closed.
Connects(up) ==
    /\ connects < MaxConnects /\ connects' = connects + 1
    /\ link' = [s \in McpServers |-> IF s \in up THEN connects' ELSE 0]

\* Mutated form of ToolName: a name already used is not told apart.
ToolNamePlain(s, listed) == <<Sanitised[s], 1>>

\* mcpToolName and the de-collision: the first suffix no earlier tool has.
ToolName(s, listed) ==
    <<Sanitised[s], 1 + Cardinality({t \in listed : t < s /\ Sanitised[t] = Sanitised[s]})>>

\* tools(): a wrapper for the tool of each connected server that lists it.
Wrappers(listed) == {[name |-> ToolName(s, listed), srv |-> s, conn |-> link'[s]] : s \in listed}

\* A name that is registered twice keeps the last of its wrappers.
Registers(ws) == pool' = {w \in ws : \A v \in ws : v.name = w.name => v.srv <= w.srv}

Reports(listed) == status' = [s \in McpServers |-> IF s \in listed THEN {ToolName(s, listed)} ELSE {}]

\* initMcp and assembleToolPool: names of MCP tools are prefixed and never
\* meet a native name; with deferral they are withheld and catalogued.
Assembles(up, listed) ==
    /\ connects = 0 /\ listed \subseteq up
    /\ Connects(up)
    /\ Registers(Wrappers(listed))
    /\ Reports(listed)
    /\ withheld' = IF deferMcp THEN NamesOf(pool') ELSE {}
    /\ UNCHANGED <<deferMcp, exposed>>

\* Mutated form of Reload: the reconnected tools are added to the old ones.
ReloadAdds(up, listed) ==
    /\ connects > 0 /\ listed \subseteq up
    /\ Connects(up)
    /\ pool' = Wrappers(listed) \cup {w \in pool : w.name \notin NamesOf(Wrappers(listed))}
    /\ Reports(listed)
    /\ UNCHANGED <<deferMcp, withheld, exposed>>

\* /mcp reload: connectAll, then registerInto drops every MCP tool and
\* registers what is discovered; the deferred names stay as they were.
Reload(up, listed) ==
    /\ connects > 0 /\ listed \subseteq up
    /\ Connects(up)
    /\ Registers(Wrappers(listed))
    /\ Reports(listed)
    /\ UNCHANGED <<deferMcp, withheld, exposed>>

\* tool_search exposes the catalogued names it matches, registered or not.
ToolSearch(matched) ==
    /\ matched # {} /\ matched \subseteq withheld \ exposed
    /\ exposed' = exposed \cup matched
    /\ UNCHANGED <<deferMcp, connects, link, pool, withheld, status>>

PoolNext ==
    \/ \E up \in SUBSET McpServers : \E listed \in SUBSET up : Assembles(up, listed) \/ Reload(up, listed)
    \/ \E matched \in SUBSET withheld : ToolSearch(matched)
    \/ UNCHANGED poolVars

\* No reload leaves a wrapper of a closed client behind (registerInto,
\* "Prevents /mcp reload from leaving stale wrappers pointing at a closed
\* client", registry.ts:114).
WrappersAreLive == \A w \in pool : link[w.srv] = w.conn

\* Servers whose names collide lose no tool: each one a status lists is
\* registered, and calls the server that lists it.
NoToolIsLost == \A s \in McpServers : \A n \in status[s] :
    \E w \in pool : w.name = n /\ w.srv = s

\* The pool holds every tool of every live connection and none of a dead one.
PoolSound == PoolTypeOK /\ WrappersAreLive /\ NoToolIsLost
=============================================================================
