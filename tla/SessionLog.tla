----------------------------- MODULE SessionLog -----------------------------
(***************************************************************************)
(* The two files of a saved session, as SessionStore.save writes them: the *)
(* snapshot <id>.json, replaced by a rename, and the event log <id>.jsonl, *)
(* to which every save appends the events that lead from the projection of *)
(* the log to the snapshot.  The process may end between any two steps and *)
(* in the middle of an append; an append may fail and leave any part of    *)
(* its rows.  A session is its messages, the paths it has read and one of  *)
(* the fields that are carried whole (mode, title, goal, ...).             *)
(***************************************************************************)
EXTENDS Naturals, Sequences, SequencesExt, FiniteSets

CONSTANTS
    Values,     \* what a field carried whole may hold
    MaxMessages,
    MaxSaves,
    MaxStops,   \* crashes and failed appends, together
    Nothing     \* no session, no file

VARIABLES
    live,       \* the session in memory
    snapshot,   \* <id>.json
    log,        \* the lines of <id>.jsonl: events, and lines that do not parse
    torn,       \* the last line has no newline: the next append continues it
    projected,  \* SessionStore.lastProjection
    inited,     \* SessionStore.eventsInited
    nextSeq,    \* SessionEventLog.nextSeq
    save,       \* where a save is
    saves, stops,
    spoiled     \* a row of this process was lost or will be repeated

logVars == <<live, snapshot, log, torn, projected, inited, nextSeq, save, saves, stops, spoiled>>

Session(m, r, f) == [messages |-> m, reads |-> r, field |-> f]
Sessions == [messages : Seq(1 .. MaxMessages), reads : SUBSET (1 .. MaxMessages), field : Values]
ASSUME SessionAssumption == {MaxMessages, MaxSaves, MaxStops} \subseteq Nat /\ Nothing \notin Sessions

\* A row without its seq, and a line that does not parse.
Row(type, value) == [type |-> type, value |-> value]
Garbage == [seq |-> 0, type |-> "garbage", value |-> Nothing]
Stages == {"none", "rename", "append"}

LogTypeOK ==
    /\ live \in Sessions
    /\ {snapshot, projected} \subseteq Sessions \cup {Nothing}
    /\ save \in Stages
    /\ torn \in BOOLEAN /\ inited \in BOOLEAN /\ spoiled \in BOOLEAN
    /\ nextSeq \in Nat \ {0}
    /\ saves \in 0 .. MaxSaves /\ stops \in 0 .. MaxStops

-----------------------------------------------------------------------------

\* projectSessionDetailed, one event: a row that does not parse is no event,
\* one whose seq does not grow, or that comes before session_started, is
\* quarantined.
Apply(p, e) ==
    IF e.seq <= p.seq THEN p
    ELSE IF e.type = "started" THEN [seq |-> e.seq, s |-> Session(<<>>, {}, e.value)]
    ELSE IF p.s = Nothing THEN [p EXCEPT !.seq = e.seq]
    ELSE [seq |-> e.seq,
          s |-> CASE e.type = "appended" -> [p.s EXCEPT !.messages = Append(@, e.value)]
                  [] e.type = "replaced" -> [p.s EXCEPT !.messages = e.value]
                  [] e.type = "reads"    -> [p.s EXCEPT !.reads = @ \cup e.value]
                  [] e.type = "allReads" -> [p.s EXCEPT !.reads = e.value]
                  [] e.type = "field"    -> [p.s EXCEPT !.field = e.value]]

\* projectSession and lastSeq.
Project(lines) ==
    LET p[i \in 0 .. Len(lines)] == IF i = 0 THEN [seq |-> 0, s |-> Nothing] ELSE Apply(p[i - 1], lines[i])
    IN  p[Len(lines)]

\* The rows for the messages of next, when prev is the projection.
MessageEvents(prev, next) ==
    IF IsPrefix(prev, next)
    THEN [i \in 1 .. Len(next) - Len(prev) |-> Row("appended", next[Len(prev) + i])]
    ELSE <<Row("replaced", next)>>

\* Mutated form of TrackerEvents: only what was added is ever written.
AddedReads(prev, next) ==
    IF next \subseteq prev THEN <<>> ELSE <<Row("reads", next \ prev)>>

\* trackerDiff: a path that disappeared makes the whole set the value.
TrackerEvents(prev, next) ==
    IF next = prev THEN <<>>
    ELSE IF prev \subseteq next THEN <<Row("reads", next \ prev)>>
    ELSE <<Row("allReads", next)>>

FieldEvents(prev, next) == IF next = prev THEN <<>> ELSE <<Row("field", next)>>

Bodies(prev, next) ==
    IF prev = Nothing
    THEN <<Row("started", next.field)>>
         \o MessageEvents(<<>>, next.messages) \o TrackerEvents({}, next.reads)
    ELSE MessageEvents(prev.messages, next.messages)
         \o TrackerEvents(prev.reads, next.reads) \o FieldEvents(prev.field, next.field)

\* SessionEventLog.append stamps the rows.
Stamped(bodies, first) ==
    [i \in DOMAIN bodies |-> [seq |-> first + i - 1, type |-> bodies[i].type, value |-> bodies[i].value]]

\* Mutated form of Written: the append truncates the log.
Overwritten(rows, k, half) == SubSeq(rows, 1, k)

\* The file once the first k rows, and with half one more byte of the next, are
\* written: what follows a line without a newline becomes part of that line.
Written(rows, k, half) ==
    LET whole == SubSeq(rows, 1, k)
        joined == IF torn /\ k > 0
                  THEN Front(log) \o <<Garbage>> \o Tail(whole)
                  ELSE log \o whole
    IN  joined \o (IF half /\ ~(torn /\ k = 0) THEN <<Garbage>> ELSE <<>>)

-----------------------------------------------------------------------------

LogInit ==
    /\ live \in {Session(<<>>, {}, v) : v \in Values}
    /\ snapshot = Nothing /\ log = <<>> /\ torn = FALSE
    /\ projected = Nothing /\ inited = FALSE /\ nextSeq = 1
    /\ save = "none" /\ saves = 0 /\ stops = 0 /\ spoiled = FALSE

\* What a session becomes: a message more, a read, a field set, the head of the
\* conversation compacted away, the trackers of a side thread or of /new.
Changed(s) ==
    {[s EXCEPT !.messages = Append(@, m), !.reads = @ \cup {m}] :
        m \in (1 .. MaxMessages) \ ToSet(s.messages)}
    \cup (IF s.messages = <<>> THEN {} ELSE {[s EXCEPT !.messages = Tail(@)]})
    \cup {[s EXCEPT !.reads = {}], s}
    \cup {[s EXCEPT !.field = v] : v \in Values}

\* The temporary file is written: <id>.json is as it was.
StartSave ==
    /\ save = "none" /\ saves < MaxSaves
    /\ live' \in Changed(live)
    /\ save' = "rename" /\ saves' = saves + 1
    /\ UNCHANGED <<snapshot, log, torn, projected, inited, nextSeq, stops, spoiled>>

RenameSnapshot ==
    /\ save = "rename"
    /\ snapshot' = live /\ save' = "append"
    /\ UNCHANGED <<live, log, torn, projected, inited, nextSeq, saves, stops, spoiled>>

\* The projection appendEvents starts from: once per process what the log says.
Baseline == IF inited THEN projected ELSE Project(log).s

\* Mutated form of FirstSeq: a process numbers its rows from one.
OwnSeq == nextSeq

\* The first seq this process has not used (SessionEventLog.read, append).
FirstSeq == IF inited THEN nextSeq ELSE Project(log).seq + 1
NewRows == Stamped(Bodies(Baseline, live), FirstSeq)

AppendEvents ==
    /\ save = "append"
    /\ log' = Written(NewRows, Len(NewRows), FALSE)
    /\ torn' = (torn /\ NewRows = <<>>)
    /\ projected' = live /\ inited' = TRUE
    /\ nextSeq' = FirstSeq + Len(NewRows)
    /\ spoiled' = (spoiled \/ (torn /\ NewRows # <<>>))
    /\ save' = "none"
    /\ UNCHANGED <<live, snapshot, saves, stops>>

\* The append fails part of the way and save swallows it: nextSeq has moved,
\* lastProjection has not.
AppendFails ==
    /\ save = "append" /\ stops < MaxStops /\ NewRows # <<>>
    /\ \E k \in 0 .. Len(NewRows) - 1, half \in BOOLEAN :
        /\ log' = Written(NewRows, k, half)
        /\ torn' = (half \/ (torn /\ k = 0))
        /\ spoiled' = (spoiled \/ k > 0 \/ half)
    /\ projected' = Baseline /\ inited' = TRUE
    /\ nextSeq' = FirstSeq + Len(NewRows)
    /\ save' = "none" /\ stops' = stops + 1
    /\ UNCHANGED <<live, snapshot, saves>>

\* The process ends, also in the middle of an append, and another resumes the
\* session from <id>.json.
CrashAndResume ==
    /\ stops < MaxStops
    /\ \/ UNCHANGED <<log, torn>>
       \/ /\ save = "append" /\ NewRows # <<>>
          /\ \E k \in 0 .. Len(NewRows), half \in BOOLEAN :
                /\ k = Len(NewRows) => ~half
                /\ log' = Written(NewRows, k, half)
                /\ torn' = (half \/ (torn /\ k = 0))
    /\ snapshot # Nothing
    /\ live' = snapshot
    /\ projected' = Nothing /\ inited' = FALSE /\ nextSeq' = 1
    /\ save' = "none" /\ stops' = stops + 1 /\ spoiled' = FALSE
    /\ UNCHANGED <<snapshot, saves>>

AllSaved == save = "none" /\ saves = MaxSaves /\ UNCHANGED logVars

LogNext ==
    \/ StartSave \/ RenameSnapshot \/ AppendEvents
    \/ AppendFails \/ CrashAndResume \/ AllSaved

LogSpec == LogInit /\ [][LogNext]_logVars

-----------------------------------------------------------------------------

\* After a save, the events replay to the snapshot that was saved, also after
\* crashes between the rename and the append and inside one, and after failed
\* appends: a process lives with a lost or repeated row until its end, the next
\* one compares the log with its session and repairs it (appendEvents).
LogReplaysToSnapshot ==
    save = "none" /\ inited /\ ~spoiled => Project(log).s = projected

\* No two rows share a seq, also when one process continues the log of another
\* and when rows were stamped for an append that failed.
RowsAreOrdered ==
    \A i, j \in DOMAIN log : i < j /\ log[i].seq > 0 /\ log[j].seq > 0 => log[i].seq < log[j].seq

\* Every message that was once in the log as a row stays there, whatever is
\* compacted away: only a line without a newline is ever changed.
LogOnlyGrows ==
    [][/\ Len(log') >= Len(log)
       /\ \A i \in DOMAIN log : log'[i] = log[i] \/ (torn /\ i = Len(log))]_logVars

LogSound == LogTypeOK /\ LogReplaysToSnapshot /\ RowsAreOrdered
=============================================================================
