----------------------------- MODULE Proposals -----------------------------
(***************************************************************************)
(* /delegate propose (propose.ts): the plans of the repository are read in *)
(* the order of their paths, each text gives signals, each signal becomes  *)
(* a proposal with evidence that no other proposal has, and the proposals  *)
(* are ranked and cut.  The command never hands over the model that could  *)
(* refine them, so that part is left out.                                  *)
(***************************************************************************)
EXTENDS Integers, Sequences, FiniteSets

CONSTANTS
    PlanScopes,   \* the scope each plan's path gives, in the order of the paths, here
                  \* that of the scopes' names
    MaxProposals, \* MAX_PROPOSALS
    MaxEvidence,  \* MAX_EVIDENCE_PER_PROPOSAL
    MaxMarks      \* bound on what one plan's text mentions

VARIABLES
    wanted,   \* --scope
    roadmap,  \* items the roadmap leaves open, each an evidence
    at,       \* the plan that is read next
    texts,    \* what the plans read so far mention
    all,      \* the proposals
    cited,    \* seenEvidenceSources
    ranked    \* the proposals as they are shown

vars == <<wanted, roadmap, at, texts, all, cited, ranked>>

Marks == {"deferred", "listed", "placeholder", "defaultOff", "hint", "refers", "refersAway", "tests"}
Scopes == {PlanScopes[i] : i \in 1 .. Len(PlanScopes)}

\* A path that a plan mentions, and the directories: collectDirectoryNames names
\* them from src.
Referred(m) == IF m = "refers" THEN <<"src", "ui">> ELSE <<"src", "gone">>
srcDirNames == {<<"ui">>, <<"ui", "parts">>}

detectMissingImplementation(text) == {m \in text \cap {"refers", "refersAway"} : Referred(m) \notin srcDirNames}

\* How many places inferExpectedAreas expects a change in.
inferExpectedAreas(scope) == IF scope \in {"safety", "server", "context"} THEN 4 ELSE IF scope = "all" THEN 2 ELSE 3

\* detectPlanSignals, in the order it pushes them; p is the plan.
detectPlanSignals(p, text) ==
    LET missing == Cardinality(detectMissingImplementation(text))
        inferred == inferExpectedAreas(PlanScopes[p])
        signal(is, kind, roi, areas) == IF is THEN <<[plan |-> p, kind |-> kind, roi |-> roi, areas |-> areas]>> ELSE <<>>
    IN signal(text \cap {"deferred", "listed"} # {}, "complete", 3, IF missing > 0 THEN missing ELSE inferred)
       \o signal("placeholder" \in text, "implement", 3, inferred)
       \o signal("defaultOff" \in text, "wire", 2, inferred)
       \o signal("hint" \in text, "follow", 2, inferred)
       \o signal(missing > 0 /\ "deferred" \notin text, "create", 3, missing)
       \o signal("tests" \in text /\ missing > 0, "test", 3, missing)

assessRisk(scope) ==
    IF scope = "safety" THEN 3 ELSE IF scope \in {"verification", "benchmarks", "context"} THEN 1 ELSE 2
assessTestability(scope) ==
    IF scope \in {"verification", "benchmarks", "context", "routing"} THEN 3 ELSE IF scope = "server" THEN 1 ELSE 2

(***************************************************************************)
(* Evidence.                                                               *)
(***************************************************************************)
\* The roadmap's open items, and the plan's own: an unchecked item and a marker.
RoadmapEvidence == {<<0, n>> : n \in 1 .. roadmap}
PlanEvidence(p, text) ==
    {<<p, n>> : n \in {k \in 1 .. 2 : (k = 1 /\ "deferred" \in text) \/ (k = 2 /\ "placeholder" \in text)}}

\* The first of a set of evidence, the roadmap's before the plan's.
FirstOf(S, most) ==
    {e \in S : Cardinality({d \in S : d[1] < e[1] \/ (d[1] = e[1] /\ d[2] < e[2])}) < most}

\* Mutated form of Evidence: what is cut off is not marked, and can be cited again.
EvidenceOfThePlan(p, text, seen) == FirstOf(RoadmapEvidence \cup (PlanEvidence(p, text) \ seen), MaxEvidence)

Evidence(p, text, seen) == FirstOf((RoadmapEvidence \cup PlanEvidence(p, text)) \ seen, MaxEvidence)

\* A proposal with no evidence left names its plan.
Cites(p, ev) == IF ev = {} THEN {<<p, 0>>} ELSE ev

\* The proposals of a plan's signals, until there are MaxProposals.
Propose(p, text, signals, before, seen) ==
    LET fits    == IF Len(before) + Len(signals) <= MaxProposals THEN Len(signals) ELSE MaxProposals - Len(before)
        cites(n) == IF n = 1 THEN seen ELSE seen \cup RoadmapEvidence \cup PlanEvidence(p, text)
    IN before \o [n \in 1 .. fits |-> [id |-> Len(before) + n, signal |-> signals[n],
                                      evidence |-> Cites(p, Evidence(p, text, cites(n)))]]

(***************************************************************************)
(* The order.                                                              *)
(***************************************************************************)
Scope(x) == PlanScopes[x.signal.plan]
\* computeScore, in halves.
computeScore(x) ==
    2 * (x.signal.roi + assessTestability(Scope(x)) - assessRisk(Scope(x)))
    + IF Cardinality(x.evidence) < 5 THEN Cardinality(x.evidence) ELSE 5

\* stableId begins with the scope's letters, and the scopes of the plans are given
\* in the order of theirs.
IdBefore(x, y) == IF Scope(x) = Scope(y) THEN x.id < y.id ELSE x.signal.plan < y.signal.plan

\* Mutated form of proposalComparator: without the last tie-breaker.
ComparesWithoutId(x, y) ==
    LET keys(z) == <<-computeScore(z), -assessTestability(Scope(z)), assessRisk(Scope(z)), z.signal.areas>>
        differ  == {i \in 1 .. 4 : keys(x)[i] # keys(y)[i]}
    IN differ # {} /\ LET i == CHOOSE k \in differ : \A j \in differ : k <= j IN keys(x)[i] < keys(y)[i]

\* The score, then the testability, the risk, the number of areas and the id.
proposalComparator(x, y) ==
    LET keys(z) == <<-computeScore(z), -assessTestability(Scope(z)), assessRisk(Scope(z)), z.signal.areas>>
        differ  == {i \in 1 .. 4 : keys(x)[i] # keys(y)[i]}
    IN IF differ = {} THEN IdBefore(x, y)
       ELSE LET i == CHOOSE k \in differ : \A j \in differ : k <= j IN keys(x)[i] < keys(y)[i]

\* Each at the place that the number of those before it gives.
Sorted(S) ==
    [n \in 1 .. Cardinality(S) |->
        CHOOSE x \in S : Cardinality({y \in S \ {x} : proposalComparator(y, x)}) = n - 1]

(***************************************************************************)
(* The command.                                                            *)
(***************************************************************************)
Init ==
    /\ wanted \in {"all"} \cup Scopes /\ roadmap \in 0 .. MaxEvidence
    /\ at = 1 /\ texts = <<>> /\ all = <<>> /\ cited = {} /\ ranked = <<>>

ReadPlan ==
    /\ at <= Len(PlanScopes)
    /\ \E text \in SUBSET Marks :
        /\ Cardinality(text) <= MaxMarks /\ ("listed" \in text => roadmap > 0)
        /\ texts' = Append(texts, text)
        /\ IF wanted \in {"all", PlanScopes[at]}
           THEN LET signals == detectPlanSignals(at, text)
                IN /\ all' = Propose(at, text, signals, all, cited)
                   /\ cited' = IF all' = all THEN cited ELSE cited \cup RoadmapEvidence \cup PlanEvidence(at, text)
           ELSE UNCHANGED <<all, cited>>
    /\ at' = at + 1
    /\ UNCHANGED <<wanted, roadmap, ranked>>

\* Mutated form of Show: the limit cuts before the proposals are ranked.
ShowCutFirst ==
    /\ at > Len(PlanScopes) /\ ranked = <<>>
    /\ \E limit \in 1 .. MaxProposals :
        ranked' = Sorted({all[i] : i \in {j \in 1 .. Len(all) : j <= limit}})
    /\ UNCHANGED <<wanted, roadmap, at, texts, all, cited>>

Show ==
    /\ at > Len(PlanScopes) /\ ranked = <<>>
    /\ \E limit \in 1 .. MaxProposals :
        ranked' = SubSeq(Sorted({all[i] : i \in 1 .. Len(all)}), 1, IF limit < Len(all) THEN limit ELSE Len(all))
    /\ UNCHANGED <<wanted, roadmap, at, texts, all, cited>>

Next == ReadPlan \/ Show \/ (at > Len(PlanScopes) /\ UNCHANGED vars)
Spec == Init /\ [][Next]_vars

TypeOK ==
    /\ wanted \in {"all"} \cup Scopes /\ at \in 1 .. Len(PlanScopes) + 1
    /\ Len(texts) = at - 1 /\ Len(all) <= MaxProposals /\ Len(ranked) <= Len(all)

\* A proposal is of the scope that was asked for and has evidence: from the
\* roadmap or from its own plan, never from another one.
ProposalsAreBacked ==
    \A i \in 1 .. Len(all) :
        /\ wanted \in {"all", Scope(all[i])}
        /\ all[i].evidence # {} /\ Cardinality(all[i].evidence) <= MaxEvidence
        /\ \A e \in all[i].evidence : e[1] \in {0, all[i].signal.plan}

\* No evidence lifts two proposals: the score counts it once.
EvidenceCountsOnce ==
    \A i, j \in 1 .. Len(all) : i # j => \A e \in all[i].evidence \cap all[j].evidence : e[2] = 0

\* A proposal that is shown ranks above those that follow and above those that
\* the limit left out, and no two can be swapped.
BestAreShown ==
    LET shown == {ranked[i] : i \in 1 .. Len(ranked)}
    IN /\ \A i, j \in 1 .. Len(ranked) : i < j => proposalComparator(ranked[i], ranked[j])
       /\ ranked # <<>> => \A x \in shown, k \in 1 .. Len(all) : all[k] \in shown \/ proposalComparator(x, all[k])

\* What /delegate propose promises.
ProposalsSound == TypeOK /\ ProposalsAreBacked /\ EvidenceCountsOnce /\ BestAreShown

\* What the comments say and the code does not do: a proposal to create files names
\* paths that are not there.  The directories' names lack the src/ that the paths
\* begin with, so that every path counts as missing.
MissingIsMissing ==
    \A i \in 1 .. Len(all) :
        all[i].signal.kind = "create" =>
            \E m \in texts[all[i].signal.plan] \cap {"refers", "refersAway"} : \A d \in srcDirNames : <<"src">> \o d # Referred(m)
=============================================================================
