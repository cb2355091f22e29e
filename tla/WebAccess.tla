----------------------------- MODULE WebAccess -----------------------------
(***************************************************************************)
(* Fetches and searches of the web (web/) by the /web command and by the   *)
(* agent's tools, and the session's trace of them.  Servers and the search *)
(* engine are external: what a request is answered, and when.              *)
(*                                                                         *)
(* A URL is its host, by what the policy tells apart: a site, a subdomain  *)
(* of that, another site, or one that is always refused (no http URL, an   *)
(* address, localhost).  In the plain REPL a command is awaited before     *)
(* anything else; in the raw-mode UI it runs inline, beside another and    *)
(* beside the agent.                                                       *)
(***************************************************************************)
EXTENDS Integers, Sequences, FiniteSets, SequencesExt

CONSTANTS
    Fetchers,        \* fetches that may be under way at once
    maxRedirects, maxBytes, maxResults,
    TraceCap,        \* WEB_TRACE_CAP
    MaxOps           \* bound on fetches, searches and clears

VARIABLES
    policy,   \* allowedDomains and blockedDomains
    inline,   \* the raw-mode UI
    phase,    \* of a fetch: "idle", "check", "request", "body"
    by,       \* "command" or "tool"
    url, hops, read,
    base,     \* the trace that a command took with it
    shows,    \* what the last step did: a request, a fetch's result or a search
    trace,    \* session.webTrace, the ordinals of what is recorded
    ops       \* fetches, searches and clears that are over

fetch == <<phase, by, url, hops, read, base>>
vars  == <<policy, inline, fetch, shows, trace, ops>>

(***************************************************************************)
(* checkUrlAllowed.                                                        *)
(***************************************************************************)
Hosts == {"refused", "site", "sub.site", "other"}
isSubdomainOf(host, domain) == host = domain \/ <<host, domain>> = <<"sub.site", "site">>

\* Mutated form of checkUrlAllowed: an allowlist wins over a blocklist.
AllowedFirst(host) ==
    /\ host # "refused"
    /\ IF policy.allowed # {} THEN \E d \in policy.allowed : isSubdomainOf(host, d)
       ELSE \A d \in policy.blocked : ~isSubdomainOf(host, d)

checkUrlAllowed(host) ==
    /\ host # "refused"
    /\ \A d \in policy.blocked : ~isSubdomainOf(host, d)
    /\ policy.allowed = {} \/ \E d \in policy.allowed : isSubdomainOf(host, d)

(***************************************************************************)
(* runWebSearch: the results by their canonical URL, 0 for none.  A URL is *)
(* kept the first time it is seen.                                         *)
(***************************************************************************)
Adds(deduped, u) == IF u = 0 \/ u \in Range(deduped) THEN deduped ELSE Append(deduped, u)

Distinct(raw) ==
    LET deduped[i \in 0 .. Len(raw)] == IF i = 0 THEN <<>> ELSE Adds(deduped[i - 1], raw[i])
    IN deduped[Len(raw)]

\* Mutated form of runWebSearch: the cap comes first.
CappedFirst(raw) == Distinct(SubSeq(raw, 1, IF Len(raw) < maxResults THEN Len(raw) ELSE maxResults))

runWebSearch(raw) ==
    LET deduped == Distinct(raw) IN SubSeq(deduped, 1, IF Len(deduped) < maxResults THEN Len(deduped) ELSE maxResults)

(***************************************************************************)
(* The trace.                                                              *)
(***************************************************************************)
\* Mutated form of appendWebTrace: what is new is what gives way.
OldestKept(t, record) == IF Len(t) < TraceCap THEN Append(t, record) ELSE t

appendWebTrace(t, record) ==
    LET next == Append(t, record)
    IN IF Len(next) > TraceCap THEN SubSeq(next, Len(next) - TraceCap + 1, Len(next)) ELSE next

\* A command replaces the trace by the one it took and its record; a tool's result
\* is appended to what is there.
Records(who, took) ==
    /\ ops' = ops + 1
    /\ trace' = appendWebTrace(IF who = "command" THEN took ELSE trace, ops + 1)

(***************************************************************************)
(* The fetches.                                                            *)
(***************************************************************************)
Ended(kind) == [kind |-> kind, read |-> 0, length |-> 0, truncated |-> FALSE]

Nothing == [request |-> {}, result |-> Ended("none"), raw |-> <<>>, found |-> <<>>]

Busy == {f \in Fetchers : phase[f] # "idle"}
\* In the plain REPL a command runs alone; the agent's reads run beside each other.
Starts(f, who) ==
    /\ phase[f] = "idle" /\ ops + Cardinality(Busy) < MaxOps
    /\ inline \/ IF who = "command" THEN Busy = {} ELSE \A g \in Busy : by[g] = "tool"
    /\ shows' = Nothing
    /\ \E host \in Hosts : url' = [url EXCEPT ![f] = host]
    /\ phase' = [phase EXCEPT ![f] = "check"] /\ by' = [by EXCEPT ![f] = who]
    /\ base' = [base EXCEPT ![f] = IF who = "command" THEN trace ELSE <<>>]
    /\ UNCHANGED <<policy, inline, hops, read, trace, ops>>

Returns(f, outcome) ==
    /\ phase' = [phase EXCEPT ![f] = "idle"]
    /\ url' = [url EXCEPT ![f] = "other"] /\ by' = [by EXCEPT ![f] = "tool"]
    /\ hops' = [hops EXCEPT ![f] = 0] /\ read' = [read EXCEPT ![f] = 0]
    /\ base' = [base EXCEPT ![f] = <<>>]
    /\ shows' = [Nothing EXCEPT !.result = outcome]
    /\ Records(by[f], base[f])
    /\ UNCHANGED <<policy, inline>>

\* The head of the loop: a request, or a refusal; nothing reads the URL after it.
Requests(f) ==
    /\ phase[f] = "check"
    /\ IF checkUrlAllowed(url[f])
       THEN /\ shows' = [Nothing EXCEPT !.request = {url[f]}]
            /\ phase' = [phase EXCEPT ![f] = "request"] /\ url' = [url EXCEPT ![f] = "other"]
            /\ UNCHANGED <<policy, inline, by, hops, read, base, trace, ops>>
       ELSE Returns(f, Ended("blocked"))

\* Mutated form of TooMany: one more.
TooManyByOne(n) == n > maxRedirects + 1

TooMany(n) == n > maxRedirects

Redirected(f) ==
    /\ phase[f] = "request"
    /\ IF TooMany(hops[f] + 1) THEN Returns(f, Ended("redirects"))
       ELSE /\ \E host \in Hosts : url' = [url EXCEPT ![f] = host]
            /\ shows' = Nothing /\ hops' = [hops EXCEPT ![f] = @ + 1] /\ phase' = [phase EXCEPT ![f] = "check"]
            /\ UNCHANGED <<policy, inline, by, read, base, trace, ops>>

\* An error status, a redirect to nowhere, another type, a broken connection, or
\* the timer of this hop; the body may break as well.
Fails(f) ==
    /\ phase[f] \in {"request", "body"}
    /\ Returns(f, Ended("error"))

Responds(f) ==
    /\ phase[f] = "request" /\ shows' = Nothing
    /\ phase' = [phase EXCEPT ![f] = "body"]
    /\ UNCHANGED <<policy, inline, by, url, hops, read, base, trace, ops>>

Whole(f) == [kind |-> "ok", read |-> read[f], length |-> read[f], truncated |-> FALSE]

\* Mutated form of Fits: a chunk that ends where the cap is counts as cut.
FitsBelow(f, size) == read[f] + size < maxBytes

Fits(f, size) == read[f] + size <= maxBytes

\* readBodyStream: a chunk that goes beyond the cap is cut there, and is the last.
Reads(f, size) ==
    /\ phase[f] = "body"
    /\ IF Fits(f, size)
       THEN /\ shows' = Nothing
            /\ read' = [read EXCEPT ![f] = @ + size]
            /\ UNCHANGED <<policy, inline, phase, by, url, hops, base, trace, ops>>
       ELSE Returns(f, [kind |-> "ok", read |-> maxBytes, length |-> read[f] + size, truncated |-> TRUE])

BodyEnds(f) == phase[f] = "body" /\ Returns(f, Whole(f))

(***************************************************************************)
(* /web search and clear, and web_search, each in one step.                *)
(***************************************************************************)
Results == UNION {[1 .. n -> 0 .. 2] : n \in 0 .. 2}
mayCommand == inline \/ Busy = {}

Searches ==
    /\ ops + Cardinality(Busy) < MaxOps
    /\ mayCommand \/ \A g \in Busy : by[g] = "tool"
    /\ \E raw \in Results : shows' = [Nothing EXCEPT !.raw = raw, !.found = runWebSearch(raw)]
    /\ Records("tool", <<>>)
    /\ UNCHANGED <<policy, inline, fetch>>

Clears ==
    /\ mayCommand /\ ops + Cardinality(Busy) < MaxOps /\ trace # <<>>
    /\ trace' = <<>> /\ ops' = ops + 1 /\ shows' = Nothing
    /\ UNCHANGED <<policy, inline, fetch>>

\* What has ended is forgotten, and nothing is asked for.
Waits == shows' = Nothing /\ UNCHANGED <<policy, inline, fetch, trace, ops>>

Init ==
    /\ policy \in [allowed : {{}, {"site"}}, blocked : {{}, {"sub.site"}}]
    /\ inline \in BOOLEAN
    /\ phase = [f \in Fetchers |-> "idle"] /\ by = [f \in Fetchers |-> "tool"]
    /\ url = [f \in Fetchers |-> "other"] /\ hops = [f \in Fetchers |-> 0]
    /\ read = [f \in Fetchers |-> 0]
    /\ base = [f \in Fetchers |-> <<>>]
    /\ shows = Nothing /\ trace = <<>> /\ ops = 0

FetchStep(f) ==
    \/ \E who \in {"command", "tool"} : Starts(f, who)
    \/ Requests(f) \/ Redirected(f) \/ Fails(f) \/ Responds(f) \/ BodyEnds(f)
    \/ \E size \in 1 .. maxBytes + 1 : Reads(f, size)

Next == (\E f \in Fetchers : FetchStep(f)) \/ Searches \/ Clears \/ Waits

Spec == Init /\ [][Next]_vars

(***************************************************************************)
(* Properties.                                                             *)
(***************************************************************************)
TypeOK ==
    /\ phase \in [Fetchers -> {"idle", "check", "request", "body"}]
    /\ hops \in [Fetchers -> 0 .. maxRedirects] /\ read \in [Fetchers -> 0 .. maxBytes]
    /\ Len(trace) <= TraceCap

\* No request goes to a host that is blocked, or that is none of those allowed,
\* on whichever hop of whichever fetch it came up.
NoneUnallowed ==
    /\ "refused" \notin shows.request
    /\ "sub.site" \in policy.blocked => "sub.site" \notin shows.request
    /\ policy.allowed = {"site"} => shows.request \subseteq {"site", "sub.site"}

\* A fetch gives up after the redirects it may follow, and says of a text that it
\* is cut exactly when more of the body had come than it returns.
ResultIsTrue ==
    /\ \A f \in Fetchers : hops[f] <= maxRedirects
    /\ shows.result.read <= maxBytes
    /\ shows.result.truncated <=> shows.result.length > shows.result.read

\* A search returns the different results in their order, as many as there are up
\* to the limit.
SearchIsFull ==
    LET all == {shows.raw[i] : i \in DOMAIN shows.raw} \ {0}
        firsts == [u \in all |-> CHOOSE i \in DOMAIN shows.raw :
                      shows.raw[i] = u /\ \A j \in 1 .. i - 1 : shows.raw[j] # u]
    IN /\ Len(shows.found) = IF Cardinality(all) < maxResults THEN Cardinality(all) ELSE maxResults
       /\ \A i, j \in DOMAIN shows.found : i < j => firsts[shows.found[i]] < firsts[shows.found[j]]

WebSound == TypeOK /\ NoneUnallowed /\ ResultIsTrue /\ SearchIsFull

\* The trace ends with what was done last, and between clears it loses only its
\* oldest records, when no command runs beside anything else.
Latest(t) == t # <<>> /\ t[Len(t)] = ops'
TraceKept ==
    [][ops' # ops /\ trace' # <<>> =>
        /\ Latest(trace')
        /\ ~inline => \A i \in DOMAIN trace :
              (\E j \in DOMAIN trace' : trace'[j] = trace[i]) \/ (i = 1 /\ Len(trace) = TraceCap)]_vars

\* What trace.ts says of the trace, "append-only", wherever a command is given: a
\* record that a tool made while a fetch was awaited is overwritten.
TraceIsAppendOnly ==
    [][ops' # ops /\ trace' # <<>> => \A i \in DOMAIN trace :
          (\E j \in DOMAIN trace' : trace'[j] = trace[i]) \/ (i = 1 /\ Len(trace) = TraceCap)]_vars
=============================================================================
