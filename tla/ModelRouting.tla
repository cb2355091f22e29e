---------------------------- MODULE ModelRouting ----------------------------
(***************************************************************************)
(* Which model of which provider a request goes to, and with what effort.  *)
(* A role resolves to a route: what /model and /effort said in this        *)
(* session, over the environment, the file and the default (router.ts,     *)
(* sessionOverrides.ts).  A run asks for the route of "edit", or of "plan" *)
(* when the task is hard, and moves to the plan model when a tool fails    *)
(* twice the same way (escalation.ts, repl.ts).  Adapters are made once    *)
(* for each provider and keep the effort they were made with               *)
(* (providerPool.ts, openaiCompatible.ts).                                 *)
(***************************************************************************)
EXTENDS Integers

CONSTANT Unset      \* no value

Roles     == {"edit", "plan", "review"}
Efforts   == {"medium", "high"}
Home      == "deepseek"
Providers == {Home, "compatible", "unknown"}

VARIABLES
    routes,     \* role -> what the environment or the file says, or Unset
    baseUrl,    \* a base URL is configured: the generic provider can be used
    overrides,  \* role -> what the session's commands said
    effort,     \* the effort /effort set for all roles
    pool,       \* provider -> the effort its adapter was made with, or Unset
    turn,       \* "idle" or "running"
    escalation, \* Unset, "high-complexity" or "repeated-error"
    streak,     \* the last tool result failed, with a text not seen before it
    request,    \* where the run's requests go: provider, model, effort
    failed      \* the last run could not start

vars == <<routes, baseUrl, overrides, effort, pool, turn, escalation, streak, request, failed>>

NoOverride == [provider |-> Unset, model |-> Unset, effort |-> Unset]
NoRequest  == [provider |-> Unset, model |-> Unset, effort |-> Unset]

\* The configured effort is medium; the planning role has the reasoner.
Default(role) == [provider |-> Home, model |-> IF role = "plan" THEN "pro" ELSE "flash", effort |-> "medium"]

Base(role) == IF routes[role] # Unset THEN routes[role] ELSE Default(role)

Or(a, b) == IF a # Unset THEN a ELSE b

\* Mutated form of Resolve: the environment and the file before the session.
ResolveBaseFirst(role) ==
    IF routes[role] # Unset THEN routes[role]
    ELSE LET o == overrides[role]
             b == Base(role)
         IN  [provider |-> Or(o.provider, b.provider), model |-> Or(o.model, b.model),
              effort |-> Or(Or(o.effort, effort), b.effort)]

\* The route of a role: the session's word field by field.
Resolve(role) ==
    LET o == overrides[role]
        b == Base(role)
    IN  [provider |-> Or(o.provider, b.provider), model |-> Or(o.model, b.model),
         effort |-> Or(Or(o.effort, effort), b.effort)]

\* An adapter can be made: a known provider, with the address it needs.
Makes(provider) == provider = Home \/ (provider = "compatible" /\ baseUrl)

\* The adapter of a provider, made with the effort of the first route that asks.
Pooled(route) == IF pool[route.provider] # Unset THEN pool
                 ELSE [pool EXCEPT ![route.provider] = Or(route.effort, "medium")]

Init ==
    /\ routes \in [Roles -> {Unset} \cup [provider : {Home, "compatible"}, model : {"other"}, effort : {Unset, "high"}]]
    /\ \E r \in Roles : \A q \in Roles \ {r} : routes[q] = Unset
    /\ baseUrl \in BOOLEAN
    /\ overrides = [r \in Roles |-> NoOverride]
    /\ effort = Unset /\ pool = [p \in Providers |-> Unset]
    /\ turn = "idle" /\ escalation = Unset /\ streak = FALSE
    /\ request = NoRequest /\ failed = FALSE

-----------------------------------------------------------------------------
\* The session's commands, between runs.
Command ==
    /\ turn = "idle"
    /\ UNCHANGED <<routes, baseUrl, pool, turn, escalation, streak, request, failed>>

\* /model <role> [provider/]model: no provider keeps the one set before.
ModelSet(role, provider) ==
    /\ Command /\ UNCHANGED effort
    /\ overrides' = [overrides EXCEPT ![role].provider = Or(provider, @), ![role].model = "custom"]

\* /model reset: the whole entry of the role, its effort too.
ModelReset(cleared) ==
    /\ Command /\ UNCHANGED effort
    /\ overrides' = [r \in Roles |-> IF r \in cleared THEN NoOverride ELSE overrides[r]]

\* /effort <level>, /effort <role> <level>.
EffortSet(role) ==
    /\ Command
    /\ IF role = Unset
       THEN effort' = "high" /\ UNCHANGED overrides
       ELSE overrides' = [overrides EXCEPT ![role].effort = "high"] /\ UNCHANGED effort

\* /effort reset <role>, and all, which the common effort goes with.
EffortReset(cleared) ==
    /\ Command
    /\ overrides' = [r \in Roles |-> IF r \in cleared THEN [overrides[r] EXCEPT !.effort = Unset] ELSE overrides[r]]
    /\ effort' = IF cleared = Roles THEN Unset ELSE effort

-----------------------------------------------------------------------------
\* Any entry for the edit role counts as the user's choice, an effort alone too.
ManualEdit == overrides["edit"] # NoOverride

\* Mutated form of StartEscalation: a hard task escalates whatever the user said.
StartEscalationAlways(hard) == IF hard THEN "high-complexity" ELSE Unset

StartEscalation(hard) == IF hard /\ ~ManualEdit THEN "high-complexity" ELSE Unset

\* The run's route.  The session's own adapter, made from the configuration,
\* serves the routes of the configured provider.
StartRun(hard) ==
    /\ turn = "idle"
    /\ escalation' = StartEscalation(hard)
    /\ streak' = FALSE
    /\ LET route == Resolve(IF escalation' = Unset THEN "edit" ELSE "plan")
           away == route.provider # Home
       IN  IF away /\ ~Makes(route.provider)
           THEN failed' = TRUE /\ UNCHANGED <<turn, pool, request>>
           ELSE /\ failed' = FALSE /\ turn' = "running"
                /\ pool' = IF away THEN Pooled(route) ELSE pool
                /\ request' = [provider |-> route.provider, model |-> route.model,
                               effort |-> IF away THEN pool'[route.provider] ELSE "medium"]
    /\ UNCHANGED <<routes, baseUrl, overrides, effort>>

\* Mutated form of ToolResult: an escalated run escalates again.
ToolResultAgain(outcome) ==
    /\ turn = "running"
    /\ streak' = (outcome = "new failure" \/ (outcome = "same failure" /\ ~streak))
    /\ IF outcome = "same failure" /\ streak /\ ~ManualEdit
       THEN escalation' = "repeated-error" /\ request' = [request EXCEPT !.model = Resolve("plan").model]
       ELSE UNCHANGED <<escalation, request>>
    /\ UNCHANGED <<routes, baseUrl, overrides, effort, pool, turn, failed>>

\* A tool result; the same failure twice in a row moves the run to the plan
\* role's model, once, and never over the user's choice.
ToolResult(outcome) ==
    /\ turn = "running"
    /\ streak' = (outcome = "new failure" \/ (outcome = "same failure" /\ ~streak))
    /\ IF outcome = "same failure" /\ streak /\ ~ManualEdit /\ escalation = Unset
       THEN escalation' = "repeated-error" /\ request' = [request EXCEPT !.model = Resolve("plan").model]
       ELSE UNCHANGED <<escalation, request>>
    /\ UNCHANGED <<routes, baseUrl, overrides, effort, pool, turn, failed>>

\* A subagent's run: always an adapter of the pool.
Subagent ==
    /\ turn = "running"
    /\ Makes(Resolve("review").provider)
    /\ pool' = Pooled(Resolve("review"))
    /\ UNCHANGED <<routes, baseUrl, overrides, effort, turn, escalation, streak, request, failed>>

EndRun ==
    /\ turn = "running"
    /\ turn' = "idle" /\ request' = NoRequest /\ streak' = FALSE
    /\ UNCHANGED <<routes, baseUrl, overrides, effort, pool, escalation, failed>>

Next ==
    \/ \E role \in {"edit", "plan"}, p \in {Unset, "compatible", "unknown"} : ModelSet(role, p)
    \/ \E cleared \in {{"edit"}, {"plan"}, Roles} : ModelReset(cleared) \/ EffortReset(cleared)
    \/ \E role \in {Unset, "edit", "plan"} : EffortSet(role)
    \/ \E hard \in BOOLEAN : StartRun(hard)
    \/ \E outcome \in {"success", "new failure", "same failure"} : ToolResult(outcome)
    \/ Subagent \/ EndRun

Spec == Init /\ [][Next]_vars

-----------------------------------------------------------------------------
TypeOK ==
    /\ baseUrl \in BOOLEAN /\ effort \in Efforts \cup {Unset}
    /\ pool \in [Providers -> Efforts \cup {Unset}]
    /\ turn \in {"idle", "running"} /\ streak \in BOOLEAN /\ failed \in BOOLEAN
    /\ escalation \in {Unset, "high-complexity", "repeated-error"}
    /\ request.provider \in Providers \cup {Unset}

\* The model the user named for the run is the one asked, to its last request,
\* whatever the task looks like and however its tools fail (decideStartEscalation,
\* onRepeatedToolError: "defers to a manual override").
ManualWins ==
    (turn = "running" /\ overrides["edit"].model # Unset) =>
        /\ escalation = Unset
        /\ request.model = overrides["edit"].model
        /\ overrides["edit"].provider # Unset => request.provider = overrides["edit"].provider

\* A run's requests carry the route of its role, provider and model together; only
\* a run that escalated over a repeated failure may ask for the plan model where
\* the plan role's provider is another one (runTask).
RouteHonoured ==
    turn = "running" =>
        LET role == IF escalation = "high-complexity" THEN "plan" ELSE "edit"
        IN  /\ request.provider = Resolve(role).provider
            /\ escalation # "repeated-error" => request.model = Resolve(role).model
            /\ escalation = "repeated-error" => request.model = Resolve("plan").model
            /\ request.provider # "unknown"

\* An adapter's effort is that of the configuration or of a route that used it
\* first, and what is sent to the configured provider is the configured effort,
\* whatever /effort said (ProviderPool, OpenAICompatibleProvider).
EffortIsTheAdapters ==
    turn = "running" =>
        request.effort = IF request.provider = Home THEN "medium" ELSE pool[request.provider]

\* Routing keeps its promises: the user's choice, the role's route, one adapter
\* for each provider.
RoutingSound == TypeOK /\ ManualWins /\ RouteHonoured /\ EffortIsTheAdapters

\* No step moves a run back from its escalation, and none changes an adapter that
\* has been made (models/escalation.ts: "sticky per task").
RoutingSteps ==
    [][/\ (turn = "running" /\ turn' = "running" /\ escalation # Unset) => escalation' = escalation
       /\ \A p \in Providers : pool[p] # Unset => pool'[p] = pool[p]]_vars
=============================================================================
