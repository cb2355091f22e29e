--------------------------- MODULE ContextStages ---------------------------
(***************************************************************************)
(* The stages that shorten a conversation before a model call: Trident's   *)
(* supersede, collapse and cluster, then the summary (compaction.ts), then *)
(* the snip of old exploration (pipeline.ts).  They decide from the calls' *)
(* arguments and from a failure's signature in a result's text, which a    *)
(* stub that reports a failure carries as well.                            *)
(*                                                                         *)
(* A call and its result are one entry of the history; a text is its       *)
(* length's class.  Trident and its cluster stage are on, the default.     *)
(***************************************************************************)
EXTENDS Integers, Sequences, FiniteSets

CONSTANTS
    Made,    \* what can be added: records with tool, arg, fails, size
    MaxLog   \* bound on the entries of a conversation

VARIABLES
    log,     \* every prompt and every call with its result, as they were made
    hist     \* the conversation: [ids: the entries of log it stands for, body]

vars == <<log, hist>>

Explores == {"read", "search"}
Stubs == {"written", "reread", "resought", "fixed", "clustered", "snipped"}

\* The classes of length, in order: a short result, the stubs, a long result.
Length(e) ==
    CASE e.body = "full" -> IF \A k \in e.ids : log[k].size = "small" THEN 1 ELSE 9
      [] e.body \in {"reread", "resought", "fixed"} -> 3
      [] e.body \in {"written", "clustered"} -> 4
      [] e.body \in {"snipped", "folded"} -> 5
      [] OTHER -> 6

Lengths(h) ==
    LET upTo[i \in 0 .. Len(h)] == IF i = 0 THEN 0 ELSE upTo[i - 1] + Length(h[i]) IN upTo[Len(h)]

Id(e) == CHOOSE k \in e.ids : TRUE
IsCall(e, tools) == e.body \in {"full"} \cup Stubs /\ log[Id(e)].tool \in tools
Arg(e) == log[Id(e)].arg

\* FAILURE_RE on an entry's text as it stands.
Failed(e) ==
    CASE e.body = "full" -> log[Id(e)].fails # "no"
      [] e.body \in {"fixed", "clustered"} -> TRUE
      [] e.body = "summary" -> \E k \in e.ids : log[k].fails # "no"
      [] OTHER -> FALSE

\* lastErrorIndex; 0 for none.
LastError(h) ==
    LET bad == {i \in 1 .. Len(h) : Failed(h[i])}
    IN IF bad = {} THEN 0 ELSE CHOOSE i \in bad : \A j \in bad : j <= i

\* replace: only with a shorter text.
Stubbed(e, body) == IF Length([e EXCEPT !.body = body]) < Length(e) THEN [e EXCEPT !.body = body] ELSE e

(***************************************************************************)
(* Trident.  The region is what lies before s.                             *)
(***************************************************************************)
\* The tracker holds the files, which a call names by a path of their own or by
\* one relative to the workspace; only the first is found in it.
InTracker(arg) == arg = "absolute" /\ \E k \in 1 .. Len(log) : log[k].tool = "write" /\ log[k].fails = "no"

Written(h, i) == InTracker(Arg(h[i])) \/ \E j \in i + 1 .. Len(h) : IsCall(h[j], {"write"}) /\ Arg(h[j]) = Arg(h[i])
AgainBefore(h, i, s) ==
    \E j \in i + 1 .. s - 1 : IsCall(h[j], {log[Id(h[i])].tool}) /\ Arg(h[j]) = Arg(h[i])

\* Mutated form of Fixed: any success of the command counts.
FixedEver(h, i) == \E j \in 1 .. Len(h) : IsCall(h[j], {"run"}) /\ Arg(h[j]) = Arg(h[i]) /\ ~Failed(h[j])

Fixed(h, i) == \E j \in i + 1 .. Len(h) : IsCall(h[j], {"run"}) /\ Arg(h[j]) = Arg(h[i]) /\ ~Failed(h[j])

Supersede(h, s) ==
    LET kept == LastError(h)
        next(i) ==
            CASE IsCall(h[i], {"read"}) /\ i # kept /\ Written(h, i) -> Stubbed(h[i], "written")
              [] IsCall(h[i], {"read"}) /\ i # kept /\ ~Written(h, i) /\ AgainBefore(h, i, s) -> Stubbed(h[i], "reread")
              [] IsCall(h[i], {"search"}) /\ i # kept /\ AgainBefore(h, i, s) -> Stubbed(h[i], "resought")
              [] IsCall(h[i], {"run"}) /\ Failed(h[i]) /\ Fixed(h, i) -> Stubbed(h[i], "fixed")
              [] OTHER -> h[i]
    IN [i \in 1 .. Len(h) |-> IF i < s THEN next(i) ELSE h[i]]

\* collapse: two or more calls in a row that only explore become one note.
Collapse(h, s) ==
    LET stops(i) == {j \in i .. s : j = s \/ ~IsCall(h[j], Explores)}
        end(i)   == CHOOSE j \in stops(i) : \A k \in stops(i) : j <= k
        note(i)  == [ids |-> UNION {h[j].ids : j \in i .. end(i) - 1}, body |-> "folded"]
        folds(i) == end(i) - i >= 2 /\ Length(note(i)) < Lengths(SubSeq(h, i, end(i) - 1))
        from[i \in 1 .. Len(h) + 1] ==
            IF i >= s THEN SubSeq(h, i, Len(h))
            ELSE IF folds(i) THEN <<note(i)>> \o from[end(i)] ELSE <<h[i]>> \o from[i + 1]
    IN from[1]

\* The command and the line that fails, which groups the failures: a stub's text
\* is its own.
Signature(e) == <<Arg(e), IF e.body = "full" THEN log[Id(e)].fails ELSE e.body>>

\* Mutated form of Later: the first of the group is kept.
Earlier(h, i, s) == \E j \in 1 .. i - 1 : IsCall(h[j], {"run"}) /\ Failed(h[j]) /\ Signature(h[j]) = Signature(h[i])

\* The same failure again in the region.
Later(h, i, s) == \E j \in i + 1 .. s - 1 : IsCall(h[j], {"run"}) /\ Failed(h[j]) /\ Signature(h[j]) = Signature(h[i])

Cluster(h, s) ==
    LET kept == LastError(h)
    IN [i \in 1 .. Len(h) |->
            IF i < s /\ i # kept /\ IsCall(h[i], {"run"}) /\ Failed(h[i]) /\ Later(h, i, s)
            THEN Stubbed(h[i], "clustered") ELSE h[i]]

\* reduceWithTrident: the history, and where its tail starts now.
Trident(h, s) ==
    LET folded == Collapse(Supersede(h, s), s)
        tail   == s - (Len(h) - Len(folded))
    IN [hist |-> Cluster(folded, tail), tail |-> tail]

(***************************************************************************)
(* The summary, and the snip.                                              *)
(***************************************************************************)
\* A call has a message and its result another.
Messages(h) == Len(h) + Cardinality({i \in 1 .. Len(h) : IsCall(h[i], {"read", "search", "write", "run"})})

Summary(h, s) ==
    <<[ids |-> UNION {h[i].ids : i \in 1 .. s - 1}, body |-> "summary"]>> \o SubSeq(h, s, Len(h))

Snip(h, s) ==
    LET kept == LastError(h)
    IN [i \in 1 .. Len(h) |->
            IF i < s /\ i # kept /\ IsCall(h[i], Explores) THEN Stubbed(h[i], "snipped") ELSE h[i]]

(***************************************************************************)
(* The conversation.                                                       *)
(***************************************************************************)
Init == log = <<>> /\ hist = <<>>

Adds ==
    /\ Len(log) < MaxLog
    /\ \E m \in Made : log' = Append(log, m)
    /\ hist' = Append(hist, [ids |-> {Len(log) + 1}, body |-> "full"])

\* Where chooseTailMessages starts the tail depends on lengths and the budget.
Tails(h) == 1 .. Len(h) + 1

\* compactIfNeeded, over the trigger or forced: Trident may be enough.
Compacted ==
    UNION {LET t == IF s > 1 THEN Trident(hist, s) ELSE [hist |-> hist, tail |-> s]
           IN {t.hist} \cup (IF Messages(SubSeq(t.hist, 1, t.tail - 1)) >= 2 THEN {Summary(t.hist, t.tail)} ELSE {})
           : s \in Tails(hist)}

\* shapeContextBeforeModel.  The snip is for a history that is still too long and
\* not for /compact or the recovery from an overflow; it is off by default.
Shape ==
    /\ \E h \in Compacted : hist' = h \/ \E s \in Tails(h) : hist' = Snip(h, s)
    /\ UNCHANGED log

Next == Adds \/ Shape
Spec == Init /\ [][Next]_vars

TypeOK ==
    /\ \A k \in 1 .. Len(log) : log[k] \in Made
    /\ \A i \in 1 .. Len(hist) : hist[i].ids # {} /\ hist[i].ids \subseteq 1 .. Len(log)
                                 /\ hist[i].body \in {"full", "folded", "summary"} \cup Stubs

Again(k, P(_)) == \E j \in k + 1 .. Len(log) : log[j].tool = log[k].tool /\ log[j].arg = log[k].arg /\ P(j)
Always(j) == TRUE
Passed(j) == log[j].fails = "no"

\* A stub tells the truth, whatever passes left it: what it names as later came
\* later.  That a write came later than the read is not so (FossilIsOld).
StubsAreBacked ==
    \A i \in 1 .. Len(hist) :
        LET e == hist[i]
            k == Id(e)
            SameFailure(j) == log[j].fails = log[k].fails
        IN /\ e.body \in {"reread", "resought"} => Again(k, Always)
           /\ e.body = "fixed" => Again(k, Passed)
           /\ e.body = "clustered" => Again(k, SameFailure)
           /\ e.body = "written" => \E j \in 1 .. Len(log) : log[j].tool = "write"

\* The last run of a command, and with it a failure that nothing resolved, stands
\* in full until a summary takes it: no stage shortens or folds it.
LastRunIsKept ==
    \A i \in 1 .. Len(hist) :
        IsCall(hist[i], {"run"}) /\ hist[i].body # "full"
        => \E j \in Id(hist[i]) + 1 .. Len(log) : log[j].tool = "run" /\ log[j].arg = Arg(hist[i])

\* Of a file that nothing tried to write, the last read stands in full, or in the
\* note that says it was read, unless it was snipped.
LastReadIsKept ==
    \A i \in 1 .. Len(hist) :
        /\ IsCall(hist[i], {"read"}) /\ hist[i].body \notin {"full", "snipped"}
        /\ ~\E j \in 1 .. Len(log) : log[j].tool = "write"
        => Again(Id(hist[i]), Always)

\* Every entry is in the conversation once, and they keep their order.
NothingIsLost ==
    /\ UNION {hist[i].ids : i \in 1 .. Len(hist)} = 1 .. Len(log)
    /\ \A i, j \in 1 .. Len(hist) : i < j => \A k \in hist[i].ids, l \in hist[j].ids : k < l

\* What a prompt wrote and what a write or a command did is never folded away.
OnlyExplorationFolds ==
    \A i \in 1 .. Len(hist) : hist[i].body = "folded" => \A k \in hist[i].ids : log[k].tool \in Explores

\* Trident done twice is Trident done once, and it never lengthens a history.
TridentIsIdempotent ==
    \A s \in 2 .. Len(hist) + 1 :
        LET t == Trident(hist, s)
        IN /\ Trident(t.hist, t.tail).hist = t.hist
           /\ Lengths(t.hist) <= Lengths(hist)

\* What the stages promise of every history they can meet.
StagesSound ==
    TypeOK /\ StubsAreBacked /\ LastRunIsKept /\ LastReadIsKept /\ NothingIsLost /\ OnlyExplorationFolds /\ TridentIsIdempotent

\* What the comments say and the code does not do.  A fossil is a read whose path
\* a later turn wrote: but the tracker tells nothing of when, so that the read of
\* a file after its last change is taken for one, and a refused write counts.
FossilIsOld ==
    \A i \in 1 .. Len(hist) :
        hist[i].body = "written" => \E j \in Id(hist[i]) + 1 .. Len(log) : log[j].tool = "write" /\ Passed(j)

\* The last error is an error: but the stub of one that was resolved reads as a
\* failure too, and shields itself instead of the failure that stands.
LastErrorStands ==
    LET i == LastError(hist)
    IN i > 0 /\ hist[i].body \notin {"full", "summary"} => \A j \in 1 .. i : hist[j].body = "full" => ~Failed(hist[j])
=============================================================================
