---------------------------- MODULE Services_proofs ----------------------------
(***************************************************************************)
(* The services of MCServices for every value of its constants.  The       *)
(* services share no state: a step of the composition is a step of one of  *)
(* them and a stutter of the others (OneMoves), so each has an inductive   *)
(* invariant of its own.                                                   *)
(***************************************************************************)
EXTENDS MCServices, FiniteSetTheorems, NaturalsInduction, SequenceTheorems, TLAPS

\* A step of the composition is, for each service, a step of it or a stutter.
LEMMA OneMoves ==
  [PartsNext]_vars =>
    /\ [JobsNext]_jobVars /\ [ProcessNext]_processVars
    /\ [Tools!LspNext]_lsp /\ [Tools!PoolNext]_tools
    /\ [Stdio!Next]_stdio /\ [Tui!Next]_tui /\ [Rounds!Next]_drivers /\ [Web!Next]_web
<1> SUFFICES ASSUME [PartsNext]_vars
             PROVE  /\ [JobsNext]_jobVars /\ [ProcessNext]_processVars
                    /\ [Tools!LspNext]_lsp /\ [Tools!PoolNext]_tools
                    /\ [Stdio!Next]_stdio /\ [Tui!Next]_tui /\ [Rounds!Next]_drivers /\ [Web!Next]_web
  OBVIOUS
<1>1. CASE PartsNext
  BY <1>1, Zenon DEF PartsNext, Takes
<1>2. CASE UNCHANGED vars
  BY <1>2 DEF vars
<1> QED
  BY <1>1, <1>2

-----------------------------------------------------------------------------
(* Background subagents. *)

\* Ids are given in order, and a job whose loop still runs has no other status.
JobsInOrder ==
    /\ \A j \in Jobs : j > spawned => jobStage[j] = "none"
    /\ \A j \in Jobs : jobStage[j] \in {"none", "run"} => jobStatus[j] = "running"

JobsInv == JobsSound /\ JobsInOrder

LEMMA Bounded ==
  /\ MaxJobs \in Nat /\ MaxConcurrent \in Nat /\ MaxOutput \in Nat
  /\ MaxCapture \in Nat /\ MaxCapture > 0
BY WorkAssumption

LEMMA JobsStart == JobsInit => JobsInv
<1> SUFFICES ASSUME JobsInit PROVE JobsInv
  OBVIOUS
<1>1. Cardinality(active) <= MaxConcurrent
  BY FS_EmptySet, Bounded DEF JobsInit
<1> QED
  BY <1>1, Bounded DEF JobsInit, JobsInv, JobsSound, JobsTypeOK, SlotsAreJobs, CompletedIsExported, JobsInOrder, Jobs

LEMMA ActiveIsFinite ==
  ASSUME JobsTypeOK
  PROVE  IsFiniteSet(active) /\ Cardinality(active) \in Nat
<1>1. IsFiniteSet(Jobs)
  BY Bounded, FS_Interval DEF Jobs
<1> QED
  BY <1>1, FS_Subset, FS_CardinalityType DEF JobsTypeOK

\* A job settles once, with a status, and with its export when it completes.
LEMMA JobSettles ==
  ASSUME JobsInv, NEW j \in Jobs, jobStage[j] \in {"run", "persist"}, Settles(j),
         spawned' = spawned, aborted' = aborted, exports \subseteq exports', exports' \subseteq Jobs,
         jobStatus' \in [Jobs -> {"running", "completed", "failed"}],
         \A k \in Jobs \ {j} : jobStatus'[k] = jobStatus[k],
         jobStatus'[j] = "completed" => j \in exports'
  PROVE  JobsInv'
<1> USE DEF JobsInv, JobsSound
<1>1. IsFiniteSet(active) /\ Cardinality(active) \in Nat
  BY ActiveIsFinite
<1>2. Cardinality(active') <= MaxConcurrent
  <2>1. j \in active /\ active' = active \ {j}
    BY DEF Settles, SlotsAreJobs
  <2>2. Cardinality(active') = Cardinality(active) - 1
    BY <1>1, <2>1, FS_RemoveElement
  <2> QED
    BY <1>1, <2>2, Bounded DEF SlotsAreJobs
<1>3. JobsTypeOK'
  <2>1. notices' = [notices EXCEPT ![j] = notices[j] + 1] /\ notices[j] = 0
    BY DEF Settles, SlotsAreJobs
  <2>2. notices' \in [Jobs -> 0 .. 2]
    BY <2>1 DEF JobsTypeOK
  <2> QED
    BY <2>2 DEF Settles, JobsTypeOK
<1>4. \A k \in Jobs : jobStage'[k] = IF k = j THEN "settled" ELSE jobStage[k]
  BY DEF Settles, JobsTypeOK
<1>5. \A k \in Jobs : notices'[k] = IF k = j THEN 1 ELSE notices[k]
  BY DEF Settles, JobsTypeOK, SlotsAreJobs
<1>6. SlotsAreJobs'
  BY <1>2, <1>4, <1>5 DEF SlotsAreJobs, Settles
<1>7. CompletedIsExported' /\ JobsInOrder'
  BY <1>4 DEF CompletedIsExported, JobsInOrder, Settles, JobsTypeOK
<1> QED
  BY <1>3, <1>6, <1>7

LEMMA JobsStep == JobsInv /\ [JobsNext]_jobVars => JobsInv'
<1> SUFFICES ASSUME JobsInv, [JobsNext]_jobVars PROVE JobsInv'
  OBVIOUS
<1>0. /\ JobsTypeOK /\ SlotsAreJobs /\ CompletedIsExported /\ JobsInOrder
      /\ IsFiniteSet(active) /\ Cardinality(active) \in Nat
  BY ActiveIsFinite DEF JobsInv, JobsSound
<1>1. CASE Spawn
  <2>1. spawned' = spawned + 1 /\ spawned' \in Jobs /\ spawned \in Nat
    BY <1>0, <1>1, Bounded DEF Spawn, JobsTypeOK, Jobs
  <2>2. spawned' \notin active /\ spawned' \notin finished /\ jobStage[spawned'] = "none"
    BY <1>0, <2>1 DEF JobsInOrder, SlotsAreJobs
  <2>3. Cardinality(active') = Cardinality(active) + 1
    BY <1>0, <1>1, <2>2, FS_AddElement DEF Spawn
  <2>4. \A k \in Jobs : jobStage'[k] = IF k = spawned' THEN "run" ELSE jobStage[k]
    BY <1>0, <1>1, <2>1 DEF Spawn, JobsTypeOK
  <2>5. JobsTypeOK'
    BY <1>0, <1>1, <2>1 DEF Spawn, JobsTypeOK, Jobs
  <2>6. SlotsAreJobs'
    BY <1>0, <1>1, <2>1, <2>2, <2>3, <2>4, Bounded DEF Spawn, SlotsAreJobs
  <2>7. CompletedIsExported' /\ JobsInOrder'
    BY <1>0, <1>1, <2>1, <2>2, <2>4 DEF Spawn, CompletedIsExported, JobsInOrder, Jobs
  <2> QED
    BY <2>5, <2>6, <2>7 DEF JobsInv, JobsSound
<1>2. CASE \E j \in Jobs : TimesOut(j)
  <2>1. UNCHANGED <<spawned, active, finished, jobStage, jobStatus, exports, notices>> /\ aborted' \subseteq Jobs
    BY <1>0, <1>2 DEF TimesOut, JobsTypeOK
  <2> QED
    BY <1>0, <2>1 DEF JobsInv, JobsSound, JobsTypeOK, SlotsAreJobs, CompletedIsExported, JobsInOrder
<1>3. ASSUME NEW j \in Jobs, RunReturns(j) PROVE JobsInv'
  <2>1. \A k \in Jobs : /\ jobStage'[k] = IF k = j THEN "persist" ELSE jobStage[k]
                        /\ jobStatus'[k] = IF k = j THEN "completed" ELSE jobStatus[k]
    BY <1>0, <1>3 DEF RunReturns, JobsTypeOK
  <2>2. JobsTypeOK' /\ SlotsAreJobs'
    BY <1>0, <1>3, <2>1 DEF RunReturns, JobsTypeOK, SlotsAreJobs
  <2>3. CompletedIsExported' /\ JobsInOrder'
    BY <1>0, <1>3, <2>1 DEF RunReturns, CompletedIsExported, JobsInOrder, SlotsAreJobs
  <2> QED
    BY <2>2, <2>3 DEF JobsInv, JobsSound
<1>4. ASSUME NEW j \in Jobs, RunRejects(j) \/ Persists(j) \/ PersistFails(j) PROVE JobsInv'
  <2>1. /\ Settles(j) /\ jobStage[j] \in {"run", "persist"} /\ spawned' = spawned /\ aborted' = aborted
        /\ exports \subseteq exports' /\ exports' \subseteq Jobs
        /\ jobStatus' \in [Jobs -> {"running", "completed", "failed"}]
        /\ \A k \in Jobs \ {j} : jobStatus'[k] = jobStatus[k]
        /\ jobStatus'[j] = "completed" => j \in exports'
    BY <1>0, <1>4 DEF RunRejects, Persists, PersistFails, JobsTypeOK
  <2> QED
    BY <2>1, JobSettles
<1>5. CASE UNCHANGED jobVars
  BY <1>0, <1>5 DEF jobVars, JobsInv, JobsSound, JobsTypeOK, SlotsAreJobs, CompletedIsExported, JobsInOrder
<1> QED
  BY <1>1, <1>2, <1>3, <1>4, <1>5 DEF JobsNext

-----------------------------------------------------------------------------
(* One command. *)

\* Nothing is armed before the child is started; what is printed is captured up to the cut, and a full capture is marked.
CommandInv ==
    /\ CommandSound
    /\ captured <= printed
    /\ truncated <=> captured = MaxCapture
    /\ child = "none" => ~timer /\ ~listening

LEMMA CommandStart == ProcessInit => CommandInv
<1> SUFFICES ASSUME ProcessInit PROVE CommandInv
  OBVIOUS
<1>1. captured = 0 /\ printed = 0 /\ ~truncated /\ captured # MaxCapture
  BY Bounded DEF ProcessInit
<1>2. ProcessTypeOK
  <2>1. printed \in 0 .. MaxOutput /\ captured \in 0 .. MaxCapture
    BY <1>1, Bounded
  <2> QED
    BY <2>1, Zenon DEF ProcessInit, ProcessTypeOK, Pending
<1> QED
  BY <1>1, <1>2, Bounded DEF ProcessInit, CommandInv, CommandSound, NoLateKill, CutIsReported

LEMMA CommandStep == CommandInv /\ [ProcessNext]_processVars => CommandInv'
<1> SUFFICES ASSUME CommandInv, [ProcessNext]_processVars PROVE CommandInv'
  OBVIOUS
<1>0. ProcessTypeOK /\ NoLateKill /\ CutIsReported
      /\ captured <= printed /\ (truncated <=> captured = MaxCapture)
      /\ (child = "none" => ~timer /\ ~listening)
      /\ MaxOutput \in Nat /\ MaxCapture \in Nat /\ MaxCapture > 0
  BY Bounded DEF CommandInv, CommandSound
<1>1. CASE \E n \in 1 .. MaxOutput : Prints(n)
  <2> PICK n \in 1 .. MaxOutput : Prints(n)
    BY <1>1
  <2>1. /\ printed' = printed + n /\ printed' \in 0 .. MaxOutput /\ n \in Nat
        /\ UNCHANGED <<child, helper, timer, listening, signal, timedOut, outcome, lateKill>>
    BY <1>0 DEF Prints, ProcessTypeOK
  <2>2. /\ captured' \in 0 .. MaxCapture /\ truncated' \in BOOLEAN /\ captured' <= printed'
        /\ truncated' <=> captured' = MaxCapture
        /\ captured' < printed' => truncated'
    <3>1. CASE captured < MaxCapture
      <4>1. captured = printed
        BY <1>0, <3>1 DEF CutIsReported, ProcessTypeOK
      <4>2. captured' = IF captured + n >= MaxCapture THEN MaxCapture ELSE captured + n
        BY <3>1 DEF Prints, Captures
      <4>3. truncated' <=> captured + n >= MaxCapture
        <5>1. truncated' = (truncated \/ captured + n >= MaxCapture)
          BY <3>1, Zenon DEF Prints, Captures
        <5>2. ~truncated
          BY <1>0, <3>1 DEF ProcessTypeOK
        <5> QED
          BY <5>1, <5>2, Zenon
      <4>4. truncated' \in BOOLEAN
        BY <1>0, <3>1, Zenon DEF Prints, Captures, ProcessTypeOK
      <4> QED
        BY <1>0, <2>1, <3>1, <4>1, <4>2, <4>3, <4>4 DEF ProcessTypeOK
    <3>2. CASE ~(captured < MaxCapture)
      BY <1>0, <2>1, <3>2 DEF Prints, Captures, ProcessTypeOK
    <3> QED
      BY <3>1, <3>2
  <2> QED
    BY <1>0, <2>1, <2>2 DEF CommandInv, CommandSound, ProcessTypeOK, NoLateKill, CutIsReported, Pending
<1>2. CASE TimerFires \/ Aborts
  <2>1. /\ UNCHANGED <<printed, captured, truncated, outcome>>
        /\ lateKill' = FALSE
    BY <1>0, <1>2 DEF TimerFires, Aborts, KillGroup, NoLateKill, ProcessTypeOK
  <2>2. /\ child' \in {"none", "up", "gone", "failed"} /\ helper' \in {"none", "group", "escaped", "gone"}
        /\ timer' \in BOOLEAN /\ listening' \in BOOLEAN /\ signal' \in BOOLEAN /\ timedOut' \in BOOLEAN
        /\ lateKill' \in BOOLEAN /\ (timer' => timer) /\ (listening' => listening)
    <3>1. CASE TimerFires
      BY <1>0, <2>1, <3>1, Zenon DEF TimerFires, KillGroup, ProcessTypeOK
    <3>2. CASE Aborts /\ listening
      BY <1>0, <2>1, <3>2, Zenon DEF Aborts, KillGroup, ProcessTypeOK
    <3>3. CASE Aborts /\ ~listening
      BY <1>0, <2>1, <3>3, Zenon DEF Aborts, ProcessTypeOK
    <3> QED
      BY <1>2, <3>1, <3>2, <3>3
  <2>3. ProcessTypeOK'
    BY <1>0, <2>1, <2>2 DEF ProcessTypeOK, Pending
  <2>4. child' = "none" => ~timer' /\ ~listening'
    BY <1>0, <1>2 DEF TimerFires, Aborts, KillGroup
  <2> QED
    BY <1>0, <2>1, <2>3, <2>4 DEF CommandInv, CommandSound, NoLateKill, CutIsReported
<1>3. CASE Starts \/ SpawnFails \/ (\E h \in {"group", "escaped"} : Forks(h)) \/ Ends \/ Closes \/ UNCHANGED processVars
  <2>1. UNCHANGED <<printed, captured, truncated, lateKill>>
    BY <1>3 DEF Starts, SpawnFails, Forks, Ends, Closes, processVars
  <2>2. /\ child' \in {"none", "up", "gone", "failed"} /\ helper' \in {"none", "group", "escaped", "gone"}
        /\ timer' \in BOOLEAN /\ listening' \in BOOLEAN /\ signal' \in BOOLEAN /\ timedOut' \in BOOLEAN
        /\ outcome' \in {"pending", "refused", "error", "closed", "timeout"}
    BY <1>0, <1>3 DEF Starts, SpawnFails, Forks, Ends, Closes, Finish, processVars, ProcessTypeOK
  <2>3. outcome' # "pending" => ~timer' /\ ~listening'
    <3>1. CASE Starts
      BY <1>0, <3>1, Zenon DEF Starts, ProcessTypeOK, Pending
    <3>2. CASE SpawnFails \/ Closes
      BY <3>2, Zenon DEF SpawnFails, Closes, Finish
    <3>3. CASE (\E h \in {"group", "escaped"} : Forks(h)) \/ Ends \/ UNCHANGED processVars
      BY <1>0, <3>3, Zenon DEF Forks, Ends, processVars, ProcessTypeOK, Pending
    <3> QED
      BY <1>3, <3>1, <3>2, <3>3
  <2>4. ProcessTypeOK'
    BY <1>0, <2>1, <2>2, <2>3 DEF ProcessTypeOK, Pending
  <2>5. child' = "none" => ~timer' /\ ~listening'
    BY <1>0, <1>3 DEF Starts, SpawnFails, Forks, Ends, Closes, Finish, processVars
  <2> QED
    BY <1>0, <2>1, <2>4, <2>5 DEF CommandInv, CommandSound, NoLateKill, CutIsReported
<1> QED
  BY <1>1, <1>2, <1>3 DEF ProcessNext

\* Background jobs free their slot and are announced once on every path and
\* complete only with their export; no signal reaches the group of a command
\* that has settled, and dropped output is reported (BackgroundManager.execute,
\* runBoundedProcess): for any number of jobs and bytes.
THEOREM ProcessesAreSound == PartsSpec => []ProcessesSound
<1>1. PartsInit => JobsInv /\ CommandInv
  BY JobsStart, CommandStart DEF PartsInit
<1>2. JobsInv /\ CommandInv /\ [PartsNext]_vars => (JobsInv /\ CommandInv)'
  BY OneMoves, JobsStep, CommandStep
<1>3. JobsInv /\ CommandInv => ProcessesSound
  BY DEF JobsInv, CommandInv, ProcessesSound
<1> QED
  BY <1>1, <1>2, <1>3, PTL DEF PartsSpec

-----------------------------------------------------------------------------
(* The server on standard input. *)

Notes   == {"run.started", "tool.call", "tool.result", "assistant.message", "run.finished"}
Replies == {"result", "error"}

\* No push has come to line n.
Untouched(n) ==
    /\ run[n] = "no" /\ loop[n] = "no"
    /\ out[n] = <<>> /\ events[n] = <<>> /\ emitted[n] = <<>>

\* Line n got its one response without a run.
AnsweredAtOnce(n) ==
    /\ run[n] = "no" /\ loop[n] = "no" /\ method[n] # "runTask"
    /\ events[n] = <<>> /\ emitted[n] = <<>>
    /\ \E f \in Replies : out[n] = <<f>>

\* Its run streams: what is written and what is queued is what was emitted.
Streaming(n) ==
    /\ method[n] = "runTask" /\ run[n] = "stream" /\ loop[n] # "no"
    /\ out[n] \o events[n] = emitted[n]

\* All that was emitted is written, and the response is next, or written too.
Ending(n) ==
    /\ method[n] = "runTask" /\ loop[n] \in {"ended", "threw"} /\ events[n] = <<>>
    /\ \/ run[n] \in {"drained", "failed"} /\ out[n] = emitted[n]
       \/ run[n] = "done" /\ \E f \in Replies : out[n] = Append(emitted[n], f)

LinesOK ==
    \A n \in Stdio!Lines :
        /\ out[n] \in Seq(Notes \cup Replies) /\ events[n] \in Seq(Notes \cup Replies) /\ emitted[n] \in Seq(Notes)
        /\ Untouched(n) \/ AnsweredAtOnce(n) \/ Streaming(n) \/ Ending(n)

\* A push has come to its first line, and to none of the others; nothing has come
\* to the lines still to be read.
PushesOK ==
    /\ pushes \subseteq [next : Stdio!Lines, last : Stdio!Lines]
    /\ \A n \in Stdio!Lines : n > sent => Untouched(n)
    /\ \A p \in pushes :
        /\ Untouched(p.next) \/ run[p.next] \in {"stream", "drained", "failed"}
        /\ \A n \in Stdio!Lines : p.next < n /\ n <= p.last => Untouched(n)

QueuesTyped ==
    /\ out \in [Stdio!Lines -> Seq(Notes \cup Replies)]
    /\ events \in [Stdio!Lines -> Seq(Notes \cup Replies)] /\ emitted \in [Stdio!Lines -> Seq(Notes)]

StdioInv == Stdio!TypeOK /\ QueuesTyped /\ LinesOK /\ PushesOK

LEMMA Counted ==
  /\ MaxServers \in Nat /\ MaxConnects \in Nat /\ MaxLines \in Nat /\ MaxRuns \in Nat /\ MaxRounds \in Nat
  /\ maxRedirects \in Nat /\ maxBytes \in Nat /\ maxResults \in Nat /\ TraceCap \in Nat /\ TraceCap # 0
BY ServicesAssumption

LEMMA StdioStart == Stdio!Init => StdioInv
<1> SUFFICES ASSUME Stdio!Init PROVE StdioInv
  OBVIOUS
<1>1. \A n \in Stdio!Lines : Untouched(n)
  BY DEF Stdio!Init, Untouched
<1>2. Stdio!TypeOK
  <2>1. sent \in 0 .. MaxLines
    BY Counted DEF Stdio!Init
  <2>2. eof \in BOOLEAN
    BY Zenon DEF Stdio!Init
  <2> QED
    BY <2>1, <2>2 DEF Stdio!Init, Stdio!TypeOK
<1> QED
  BY <1>1, <1>2 DEF Stdio!Init, StdioInv, QueuesTyped, LinesOK, PushesOK, Untouched

\* The end of a sequence and what is before it.
LEMMA LastOfAppend ==
  ASSUME NEW e \in Seq(Notes), NEW f \in Replies, NEW s, s = Append(e, f)
  PROVE  Stdio!Last(s) = f /\ Stdio!Front(s) = e
<1>1. s \in Seq(Notes \cup Replies) /\ Len(s) = Len(e) + 1 /\ s[Len(s)] = f
  BY AppendProperties
<1>2. SubSeq(s, 1, Len(s) - 1) = e
  BY <1>1
<1> QED
  BY <1>1, <1>2 DEF Stdio!Last, Stdio!Front

LEMMA InFirst ==
  ASSUME NEW S, NEW s \in Seq(S), NEW t \in Seq(S), NEW i \in 1 .. Len(s)
  PROVE  (s \o t)[i] = s[i] /\ i \in 1 .. Len(s \o t)
<1>1. Len(s) \in Nat /\ Len(t) \in Nat
  BY LenProperties
<1> QED
  BY <1>1, ConcatProperties

LEMMA ConcatOfAppend ==
  ASSUME NEW S, NEW s \in Seq(S), NEW t \in Seq(S), NEW e \in S
  PROVE  s \o Append(t, e) = Append(s \o t, e)
OBVIOUS

\* A head moves from the second of two sequences to the first.
LEMMA ConcatOfTail ==
  ASSUME NEW S, NEW s \in Seq(S), NEW t \in Seq(S), t # <<>>
  PROVE  Append(s, Head(t)) \o Tail(t) = s \o t
OBVIOUS

\* In every line's messages the response is the last.
LEMMA ClosingHolds == StdioInv => Stdio!StdioSound
<1> SUFFICES ASSUME StdioInv, NEW n \in Stdio!Lines, Stdio!Answered(n)
             PROVE  Stdio!Last(out[n]) \in Stdio!Final /\ Stdio!Front(out[n]) = emitted[n]
  BY DEF StdioInv, Stdio!StdioSound, Stdio!ResponseClosesRun
<1>0. out[n] \in Seq(Notes \cup Replies) /\ events[n] \in Seq(Notes \cup Replies) /\ emitted[n] \in Seq(Notes)
  BY DEF StdioInv, LinesOK
<1>1. PICK i \in 1 .. Len(out[n]) : out[n][i] \in Replies
  BY <1>0 DEF Stdio!Answered, Stdio!Final, Replies, Stdio!Range
<1>2. CASE out[n] \o events[n] = emitted[n]
  <2>1. (out[n] \o events[n])[i] = out[n][i] /\ i \in 1 .. Len(out[n] \o events[n])
    BY <1>0, <1>1, InFirst
  <2>2. emitted[n][i] = out[n][i] /\ i \in 1 .. Len(emitted[n])
    BY <1>2, <2>1
  <2> QED
    BY <1>0, <1>1, <2>2 DEF Notes, Replies
<1>3. CASE \E f \in Replies : out[n] = Append(emitted[n], f)
  BY <1>0, <1>3, LastOfAppend DEF Stdio!Final, Replies
<1>4. \/ out[n] = emitted[n]
      \/ emitted[n] = <<>> /\ \E f \in Replies : out[n] = <<f>>
      \/ out[n] \o events[n] = emitted[n]
      \/ \E f \in Replies : out[n] = Append(emitted[n], f)
  BY DEF StdioInv, LinesOK, Untouched, AnsweredAtOnce, Streaming, Ending
<1>5. CASE out[n] = emitted[n]
  BY <1>0, <1>1, <1>5 DEF Notes, Replies
<1>6. CASE emitted[n] = <<>> /\ \E f \in Replies : out[n] = <<f>>
  <2>1. PICK f \in Replies : out[n] = Append(emitted[n], f)
    BY <1>6
  <2> QED
    BY <1>3, <2>1
<1> QED
  BY <1>1, <1>2, <1>3, <1>4, <1>5, <1>6

\* What a line is depends on its own messages and stages only.
LineOK(n) == Untouched(n) \/ AnsweredAtOnce(n) \/ Streaming(n) \/ Ending(n)

LEMMA SameLine ==
  ASSUME NEW m, method' = method, run'[m] = run[m], loop'[m] = loop[m], out'[m] = out[m],
         events'[m] = events[m], emitted'[m] = emitted[m]
  PROVE  (Untouched(m)' <=> Untouched(m)) /\ (LineOK(m)' <=> LineOK(m))
BY DEF LineOK, Untouched, AnsweredAtOnce, Streaming, Ending

\* A step that changes line n only, which a push has come to, and moves no push.
LEMMA OneLineHolds ==
  ASSUME StdioInv, NEW p \in pushes, NEW n, n = p.next,
         UNCHANGED <<method, sent, eof, pushes>>, QueuesTyped',
         run' \in [Stdio!Lines -> {"no", "stream", "drained", "failed", "done"}],
         loop' \in [Stdio!Lines -> {"no", "model", "tools", "ended", "threw"}],
         \A m \in Stdio!Lines \ {n} : /\ run'[m] = run[m] /\ loop'[m] = loop[m]
                                      /\ out'[m] = out[m] /\ events'[m] = events[m] /\ emitted'[m] = emitted[m],
         run'[n] \in {"stream", "drained", "failed"},
         loop'[n] \in {"model", "tools"} => run'[n] = "stream",
         LineOK(n)'
  PROVE  StdioInv'
<1>0. /\ Stdio!TypeOK /\ LinesOK /\ PushesOK /\ n \in Stdio!Lines
      /\ p.next <= p.last /\ p.last <= sent /\ p.next \in Nat /\ p.last \in Nat /\ sent \in Nat
  BY Counted DEF StdioInv, Stdio!TypeOK, Stdio!Lines
<1>1. \A m \in Stdio!Lines \ {n} : (Untouched(m)' <=> Untouched(m)) /\ (LineOK(m)' <=> LineOK(m))
  BY SameLine
<1>2. Stdio!TypeOK'
  BY <1>0 DEF Stdio!TypeOK
<1>3. LinesOK'
  BY <1>0, <1>1 DEF LinesOK, LineOK, QueuesTyped
<1>4. \A q \in pushes : q # p => n < q.next \/ q.last < n
  BY <1>0 DEF Stdio!TypeOK, Stdio!Lines
<1>5. PushesOK'
  <2>1. \A m \in Stdio!Lines : m > sent => Untouched(m)'
    BY <1>0, <1>1 DEF PushesOK
  <2>2. ASSUME NEW q \in pushes
        PROVE  /\ Untouched(q.next)' \/ run'[q.next] \in {"stream", "drained", "failed"}
               /\ \A m \in Stdio!Lines : q.next < m /\ m <= q.last => Untouched(m)'
    <3>1. q.next \in Stdio!Lines /\ q.next \in Nat /\ q.last \in Nat /\ q.next <= q.last
      BY <1>0 DEF Stdio!TypeOK, Stdio!Lines
    <3>2. \A m \in Stdio!Lines : q.next < m /\ m <= q.last => m # n
      BY <1>0, <1>4, <3>1 DEF Stdio!Lines
    <3>3. q.next = n => q = p
      BY <1>4, <3>1
    <3> QED
      BY <1>0, <1>1, <3>1, <3>2, <3>3 DEF PushesOK
  <2> QED
    BY <1>0, <2>1, <2>2 DEF PushesOK
<1> QED
  BY <1>2, <1>3, <1>5 DEF StdioInv

\* The pushes after one of them has moved on.
LEMMA Advanced ==
  ASSUME StdioInv, NEW p \in pushes, Stdio!Advance(p)
  PROVE  /\ pushes' \subseteq [next : Stdio!Lines, last : Stdio!Lines]
         /\ \A q \in pushes : q # p => q \in pushes'
         /\ \A q \in pushes' : \/ q \in pushes /\ q # p
                               \/ /\ q = [next |-> p.next + 1, last |-> p.last]
                                  /\ p.next + 1 <= p.last
<1>1. p \in [next : Stdio!Lines, last : Stdio!Lines]
  BY DEF StdioInv, PushesOK
<1>2. [p EXCEPT !.next = @ + 1] = [next |-> p.next + 1, last |-> p.last]
  BY <1>1
<1>3. p.next + 1 <= p.last => [next |-> p.next + 1, last |-> p.last] \in [next : Stdio!Lines, last : Stdio!Lines]
  <2>1. p.next \in 1 .. MaxLines /\ p.last \in 1 .. MaxLines
    BY <1>1 DEF Stdio!Lines
  <2>2. p.next + 1 <= p.last => p.next + 1 \in 1 .. MaxLines
    BY <2>1, Counted
  <2> QED
    BY <2>1, <2>2 DEF Stdio!Lines
<1> QED
  BY <1>1, <1>2, <1>3 DEF Stdio!Advance, StdioInv, PushesOK

\* A step that ends line p.next and moves its push on.
LEMMA MovedOnHolds ==
  ASSUME StdioInv, NEW p \in pushes, NEW n, n = p.next, Stdio!Advance(p),
         UNCHANGED <<method, sent, eof, loop>>, QueuesTyped',
         run' \in [Stdio!Lines -> {"no", "stream", "drained", "failed", "done"}],
         \A m \in Stdio!Lines \ {n} : /\ run'[m] = run[m]
                                      /\ out'[m] = out[m] /\ events'[m] = events[m] /\ emitted'[m] = emitted[m],
         run'[n] \in {"no", "done"}, loop[n] \notin {"model", "tools"},
         LineOK(n)'
  PROVE  StdioInv'
<1>0. /\ Stdio!TypeOK /\ LinesOK /\ PushesOK /\ n \in Stdio!Lines
      /\ p.next <= p.last /\ p.last <= sent /\ p.next \in Nat /\ p.last \in Nat /\ sent \in Nat
      /\ \A q \in pushes : q.next \in Nat /\ q.last \in Nat /\ q.next \in Stdio!Lines
  BY Counted DEF StdioInv, Stdio!TypeOK, Stdio!Lines
<1>1. \A m \in Stdio!Lines \ {n} : (Untouched(m)' <=> Untouched(m)) /\ (LineOK(m)' <=> LineOK(m))
  BY SameLine
<1>2. \A q \in pushes : q # p => n < q.next \/ q.last < n
  BY <1>0 DEF Stdio!TypeOK
<1>3. \A q \in pushes' : \/ q \in pushes /\ q # p
                         \/ q.next = n + 1 /\ q.last = p.last /\ n + 1 <= p.last
  BY Advanced
<1>4. /\ \A q \in pushes' : q.next \in Stdio!Lines /\ q.last \in Stdio!Lines /\ q.next <= q.last /\ q.last <= sent
      /\ \A q, r \in pushes' : q # r => q.last < r.next \/ r.last < q.next
  <2>1. ASSUME NEW q \in pushes' PROVE q.next \in Stdio!Lines /\ q.last \in Stdio!Lines /\ q.next <= q.last /\ q.last <= sent
    <3>1. q.next \in Stdio!Lines /\ q.last \in Stdio!Lines
      BY Advanced
    <3> QED
      BY <1>0, <1>3, <3>1 DEF Stdio!TypeOK
  <2>2. ASSUME NEW q \in pushes', NEW r \in pushes', q # r PROVE q.last < r.next \/ r.last < q.next
    <3>1. CASE q \in pushes /\ q # p /\ r \in pushes /\ r # p
      BY <1>0, <2>2, <3>1 DEF Stdio!TypeOK
    <3>2. CASE q \in pushes /\ q # p /\ r = [next |-> p.next + 1, last |-> p.last]
      BY <1>0, <3>2 DEF Stdio!TypeOK
    <3>3. CASE r \in pushes /\ r # p /\ q = [next |-> p.next + 1, last |-> p.last]
      BY <1>0, <3>3 DEF Stdio!TypeOK
    <3> QED
      BY <2>2, <3>1, <3>2, <3>3, Advanced
  <2> QED
    BY <2>1, <2>2
<1>5. \A m \in Stdio!Lines : run'[m] \notin {"no", "done"} => \E q \in pushes' : q.next = m
  <2>1. ASSUME NEW m \in Stdio!Lines, run'[m] \notin {"no", "done"} PROVE \E q \in pushes' : q.next = m
    <3>1. m # n /\ run[m] \notin {"no", "done"}
      BY <2>1
    <3>2. PICK q \in pushes : q.next = m
      BY <1>0, <3>1 DEF Stdio!TypeOK
    <3> QED
      BY <3>1, <3>2, Advanced
  <2> QED
    BY <2>1
<1>6. Stdio!TypeOK'
  <2>1. \A m \in Stdio!Lines : loop[m] \in {"model", "tools"} => run'[m] = "stream"
    BY <1>0 DEF Stdio!TypeOK
  <2> QED
    BY <1>0, <1>4, <1>5, <2>1 DEF Stdio!TypeOK
<1>7. LinesOK'
  BY <1>0, <1>1 DEF LinesOK, LineOK, QueuesTyped
<1>8. PushesOK'
  <2>1. \A m \in Stdio!Lines : m > sent => Untouched(m)'
    BY <1>0, <1>1 DEF PushesOK
  <2>2. ASSUME NEW q \in pushes'
        PROVE  /\ Untouched(q.next)' \/ run'[q.next] \in {"stream", "drained", "failed"}
               /\ \A m \in Stdio!Lines : q.next < m /\ m <= q.last => Untouched(m)'
    <3>0. q.next \in Stdio!Lines
      BY <1>4
    <3>1. CASE q \in pushes /\ q # p
      <4>1. q.next # n /\ \A m \in Stdio!Lines : q.next < m /\ m <= q.last => m # n
        BY <1>0, <1>2, <3>1 DEF Stdio!TypeOK, Stdio!Lines
      <4> QED
        BY <1>0, <1>1, <3>0, <3>1, <4>1 DEF PushesOK
    <3>2. CASE q.next = n + 1 /\ q.last = p.last /\ n + 1 <= p.last
      <4>1. \A m \in Stdio!Lines : n < m /\ m <= p.last => Untouched(m)'
        BY <1>0, <1>1 DEF PushesOK, Stdio!Lines
      <4> QED
        BY <1>0, <3>0, <3>2, <4>1 DEF Stdio!Lines
    <3> QED
      BY <1>3, <3>1, <3>2
  <2> QED
    BY <2>1, <2>2, Advanced DEF PushesOK
<1> QED
  BY <1>6, <1>7, <1>8 DEF StdioInv

\* Lines are read: they are a push of their own.
LEMMA ReadHolds ==
  ASSUME StdioInv, NEW b \in Stdio!Lines, sent + 1 <= b, sent' = b, eof' \in BOOLEAN,
         pushes' = pushes \cup {[next |-> sent + 1, last |-> b]},
         UNCHANGED <<method, run, loop, events, out, emitted>>
  PROVE  StdioInv'
<1>0. /\ Stdio!TypeOK /\ LinesOK /\ PushesOK /\ QueuesTyped
      /\ sent \in Nat /\ b \in Nat /\ sent + 1 \in Stdio!Lines
      /\ \A q \in pushes : q.next \in Nat /\ q.last \in Nat /\ q.next <= q.last /\ q.last <= sent
  BY Counted DEF StdioInv, Stdio!TypeOK, Stdio!Lines
<1>1. \A m \in Stdio!Lines : Untouched(m)' <=> Untouched(m)
  BY DEF Untouched
<1>2. /\ \A q \in pushes' : q.next \in Stdio!Lines /\ q.last \in Stdio!Lines /\ q.next <= q.last /\ q.last <= b
      /\ \A q, r \in pushes' : q # r => q.last < r.next \/ r.last < q.next
  <2>1. \A q \in pushes' : q \in pushes \/ (q.next = sent + 1 /\ q.last = b)
    OBVIOUS
  <2>2. ASSUME NEW q \in pushes', NEW r \in pushes', q # r PROVE q.last < r.next \/ r.last < q.next
    <3>1. CASE q \in pushes /\ r \in pushes
      BY <1>0, <2>2, <3>1 DEF Stdio!TypeOK
    <3>2. CASE q \in pushes /\ r = [next |-> sent + 1, last |-> b]
      BY <1>0, <3>2
    <3>3. CASE r \in pushes /\ q = [next |-> sent + 1, last |-> b]
      BY <1>0, <3>3
    <3> QED
      BY <2>2, <3>1, <3>2, <3>3
  <2>3. ASSUME NEW q \in pushes' PROVE q.next \in Stdio!Lines /\ q.last \in Stdio!Lines /\ q.next <= q.last /\ q.last <= b
    BY <1>0, <2>1 DEF Stdio!TypeOK
  <2> QED
    BY <2>2, <2>3
<1>3. Stdio!TypeOK'
  <2>1. \A m \in Stdio!Lines : run[m] \notin {"no", "done"} => \E q \in pushes' : q.next = m
    BY <1>0 DEF Stdio!TypeOK
  <2>2. b \in 0 .. MaxLines
    BY <1>0, Counted DEF Stdio!Lines
  <2> QED
    BY <1>0, <1>2, <2>1, <2>2 DEF Stdio!TypeOK
<1>4. LinesOK' /\ QueuesTyped'
  BY <1>0, ZenonT(30) DEF LinesOK, QueuesTyped, Untouched, AnsweredAtOnce, Streaming, Ending
<1>5. PushesOK'
  <2>1. pushes' \subseteq [next : Stdio!Lines, last : Stdio!Lines]
    BY <1>0 DEF PushesOK
  <2>2. \A m \in Stdio!Lines : m > b => Untouched(m)'
    BY <1>0, <1>1 DEF PushesOK, Stdio!Lines
  <2>3. ASSUME NEW q \in pushes'
        PROVE  /\ Untouched(q.next)' \/ run'[q.next] \in {"stream", "drained", "failed"}
               /\ \A m \in Stdio!Lines : q.next < m /\ m <= q.last => Untouched(m)'
    <3>1. CASE q \in pushes
      BY <1>0, <1>1, <1>2, <3>1 DEF PushesOK
    <3>2. CASE q = [next |-> sent + 1, last |-> b]
      BY <1>0, <1>1, <3>2 DEF PushesOK, Stdio!Lines
    <3> QED
      BY <3>1, <3>2
  <2> QED
    BY <2>1, <2>2, <2>3 DEF PushesOK
<1> QED
  BY <1>3, <1>4, <1>5 DEF StdioInv

\* What a streaming line is.
LEMMA StreamIs ==
  ASSUME StdioInv, NEW n \in Stdio!Lines, run[n] \in {"stream", "drained", "failed"} \/ loop[n] \in {"model", "tools"}
  PROVE  /\ \E p \in pushes : p.next = n
         /\ run[n] = "stream" => Streaming(n)
         /\ run[n] \in {"drained", "failed"} => Ending(n) /\ out[n] = emitted[n]
         /\ loop[n] \in {"model", "tools"} => run[n] = "stream"
<1>1. Stdio!TypeOK /\ LinesOK
  BY DEF StdioInv
<1>2. loop[n] \in {"model", "tools"} => run[n] = "stream"
  BY <1>1 DEF Stdio!TypeOK
<1>3. \E p \in pushes : p.next = n
  BY <1>1, <1>2 DEF Stdio!TypeOK
<1>4. LineOK(n)
  BY <1>1 DEF LinesOK, LineOK
<1> QED
  BY <1>2, <1>3, <1>4 DEF LineOK, Untouched, AnsweredAtOnce, Streaming, Ending

\* The agent loop of a run goes on, and queues what it emits.
LEMMA LoopHolds ==
  ASSUME StdioInv, NEW n \in Stdio!Lines, loop[n] \in {"model", "tools"},
         UNCHANGED <<method, sent, eof, pushes, run, out>>,
         NEW l \in {"model", "tools", "ended", "threw"}, loop' = [loop EXCEPT ![n] = l],
         \/ UNCHANGED <<events, emitted>>
         \/ \E what \in Notes : Stdio!Emits(n, what)
  PROVE  StdioInv'
<1>0. /\ Stdio!TypeOK /\ QueuesTyped /\ run[n] = "stream" /\ method[n] = "runTask" /\ out[n] \o events[n] = emitted[n]
  BY StreamIs DEF StdioInv, Streaming
<1>1. PICK p \in pushes : p.next = n
  BY StreamIs
<1>2. \A what \in Notes : Append(events[n], what) \in Seq(Notes \cup Replies) /\ Append(emitted[n], what) \in Seq(Notes)
  BY <1>0, AppendProperties DEF QueuesTyped
<1>3. QueuesTyped'
  BY <1>0, <1>2 DEF QueuesTyped, Stdio!Emits
<1>4. out'[n] \o events'[n] = emitted'[n]
  <2>1. CASE UNCHANGED <<events, emitted>>
    BY <1>0, <2>1
  <2>2. ASSUME NEW what \in Notes, Stdio!Emits(n, what) PROVE out'[n] \o events'[n] = emitted'[n]
    <3>1. events'[n] = Append(events[n], what) /\ emitted'[n] = Append(emitted[n], what)
      BY <1>0, <2>2 DEF Stdio!Emits, QueuesTyped
    <3>2. out[n] \o Append(events[n], what) = Append(out[n] \o events[n], what)
      BY <1>0, ConcatOfAppend DEF QueuesTyped
    <3> QED
      BY <1>0, <3>1, <3>2
  <2> QED
    BY <2>1, <2>2
<1>5. loop'[n] = l /\ \A m \in Stdio!Lines \ {n} : loop'[m] = loop[m] /\ events'[m] = events[m] /\ emitted'[m] = emitted[m]
  BY <1>0 DEF Stdio!Emits, Stdio!TypeOK, QueuesTyped
<1>6. Streaming(n)'
  BY <1>0, <1>4, <1>5 DEF Streaming
<1>7. loop' \in [Stdio!Lines -> {"no", "model", "tools", "ended", "threw"}] /\ run' \in [Stdio!Lines -> {"no", "stream", "drained", "failed", "done"}]
  BY <1>0 DEF Stdio!TypeOK
<1> QED
  BY <1>0, <1>1, <1>3, <1>5, <1>6, <1>7, OneLineHolds DEF LineOK

\* A line that needs no run gets one response, and its push moves on.
LEMMA AnswersHold ==
  ASSUME StdioInv, NEW p \in pushes, Stdio!AnswersAtOnce(p)
  PROVE  StdioInv'
<1>0. /\ Stdio!TypeOK /\ QueuesTyped /\ p.next \in Stdio!Lines /\ method[p.next] # "runTask"
      /\ LineOK(p.next) /\ (Untouched(p.next) \/ run[p.next] \in {"stream", "drained", "failed"})
  BY DEF StdioInv, LinesOK, PushesOK, LineOK, Stdio!TypeOK, Stdio!AnswersAtOnce
<1>1. Untouched(p.next)
  BY <1>0 DEF LineOK, AnsweredAtOnce, Streaming, Ending
<1>2. PICK f \in Replies : out' = [out EXCEPT ![p.next] = Append(out[p.next], f)]
  BY DEF Stdio!AnswersAtOnce, Stdio!Writes, Replies
<1>3. out' = [out EXCEPT ![p.next] = <<f>>] /\ <<f>> \in Seq(Notes \cup Replies)
  BY <1>1, <1>2 DEF Untouched
<1>4. QueuesTyped'
  BY <1>0, <1>3 DEF QueuesTyped, Stdio!AnswersAtOnce
<1>5. out'[p.next] = <<f>> /\ \A m \in Stdio!Lines \ {p.next} : out'[m] = out[m]
  BY <1>0, <1>3 DEF QueuesTyped
<1>6. LineOK(p.next)'
  BY <1>0, <1>1, <1>5 DEF LineOK, AnsweredAtOnce, Untouched, Stdio!AnswersAtOnce
<1>7. run' \in [Stdio!Lines -> {"no", "stream", "drained", "failed", "done"}] /\ run'[p.next] \in {"no", "done"}
      /\ loop[p.next] \notin {"model", "tools"}
  BY <1>0, <1>1 DEF Stdio!TypeOK, Untouched, Stdio!AnswersAtOnce
<1> QED
  BY <1>0, <1>4, <1>5, <1>6, <1>7, MovedOnHolds DEF Stdio!AnswersAtOnce

\* streamTask begins: run.started is written before the loop emits anything.
LEMMA StartsHold ==
  ASSUME StdioInv, NEW p \in pushes, Stdio!StartsRun(p)
  PROVE  StdioInv'
<1>0. /\ Stdio!TypeOK /\ QueuesTyped /\ p.next \in Stdio!Lines /\ Untouched(p.next)
  BY DEF StdioInv, PushesOK, Stdio!TypeOK, Stdio!StartsRun
<1>1. /\ out' = [out EXCEPT ![p.next] = <<"run.started">>] /\ emitted' = [emitted EXCEPT ![p.next] = <<"run.started">>]
      /\ run' = [run EXCEPT ![p.next] = "stream"] /\ loop' = [loop EXCEPT ![p.next] = "model"]
      /\ UNCHANGED <<method, sent, eof, pushes, events>> /\ method[p.next] = "runTask"
  BY <1>0 DEF Stdio!StartsRun, Stdio!Writes, Untouched
<1>2. <<"run.started">> \in Seq(Notes) /\ <<"run.started">> \in Seq(Notes \cup Replies)
  BY DEF Notes
<1>3. QueuesTyped'
  BY <1>0, <1>1, <1>2 DEF QueuesTyped
<1>4. /\ out'[p.next] = <<"run.started">> /\ emitted'[p.next] = <<"run.started">> /\ events'[p.next] = <<>>
      /\ run'[p.next] = "stream" /\ loop'[p.next] = "model"
      /\ \A m \in Stdio!Lines \ {p.next} : /\ run'[m] = run[m] /\ loop'[m] = loop[m]
                                           /\ out'[m] = out[m] /\ events'[m] = events[m] /\ emitted'[m] = emitted[m]
  BY <1>0, <1>1 DEF QueuesTyped, Stdio!TypeOK, Untouched
<1>5. out'[p.next] \o events'[p.next] = emitted'[p.next]
  BY <1>2, <1>4, ConcatEmptySeq
<1>6. LineOK(p.next)'
  BY <1>1, <1>4, <1>5 DEF LineOK, Streaming
<1>7. run' \in [Stdio!Lines -> {"no", "stream", "drained", "failed", "done"}] /\ loop' \in [Stdio!Lines -> {"no", "model", "tools", "ended", "threw"}]
  BY <1>0, <1>1 DEF Stdio!TypeOK
<1> QED
  BY <1>1, <1>3, <1>4, <1>6, <1>7, OneLineHolds

\* The response follows what the run emitted, and its push moves on.
LEMMA RespondsHold ==
  ASSUME StdioInv, NEW p \in pushes, Stdio!Responds(p)
  PROVE  StdioInv'
<1>0. /\ Stdio!TypeOK /\ QueuesTyped /\ p.next \in Stdio!Lines /\ run[p.next] \in {"drained", "failed"}
  BY DEF StdioInv, Stdio!TypeOK, Stdio!Responds
<1>1. Ending(p.next) /\ out[p.next] = emitted[p.next] /\ emitted[p.next] \in Seq(Notes)
  BY <1>0, StreamIs DEF QueuesTyped
<1>2. PICK f \in Replies : out' = [out EXCEPT ![p.next] = Append(out[p.next], f)]
  BY DEF Stdio!Responds, Stdio!Writes, Replies
<1>3. Append(out[p.next], f) \in Seq(Notes \cup Replies)
  BY <1>0, AppendProperties DEF QueuesTyped
<1>4. /\ run' = [run EXCEPT ![p.next] = "done"] /\ Stdio!Advance(p)
      /\ UNCHANGED <<method, sent, eof, loop, events, emitted>>
  BY DEF Stdio!Responds
<1>5. QueuesTyped'
  BY <1>0, <1>2, <1>3, <1>4 DEF QueuesTyped
<1>6. /\ out'[p.next] = Append(emitted[p.next], f) /\ run'[p.next] = "done"
      /\ \A m \in Stdio!Lines \ {p.next} : out'[m] = out[m] /\ run'[m] = run[m]
  BY <1>0, <1>1, <1>2, <1>4 DEF QueuesTyped, Stdio!TypeOK
<1>7. LineOK(p.next)' /\ loop[p.next] \notin {"model", "tools"}
  BY <1>1, <1>4, <1>6 DEF LineOK, Ending
<1>8. run' \in [Stdio!Lines -> {"no", "stream", "drained", "failed", "done"}]
  BY <1>0, <1>4 DEF Stdio!TypeOK
<1> QED
  BY <1>4, <1>5, <1>6, <1>7, <1>8, MovedOnHolds

\* The head of the queue is written.
LEMMA NotifiesHold ==
  ASSUME StdioInv, NEW n \in Stdio!Lines, Stdio!Notifies(n)
  PROVE  StdioInv'
<1>0. /\ Stdio!TypeOK /\ QueuesTyped /\ run[n] = "stream" /\ Streaming(n) /\ events[n] # <<>>
      /\ events[n] \in Seq(Notes \cup Replies) /\ out[n] \in Seq(Notes \cup Replies)
  BY StreamIs DEF StdioInv, Stdio!Notifies, QueuesTyped
<1>1. PICK p \in pushes : p.next = n
  BY <1>0, StreamIs
<1>2. /\ out' = [out EXCEPT ![n] = Append(out[n], Head(events[n]))] /\ events' = [events EXCEPT ![n] = Tail(events[n])]
      /\ UNCHANGED <<method, sent, eof, pushes, run, loop, emitted>>
  BY DEF Stdio!Notifies, Stdio!Writes
<1>3. Append(out[n], Head(events[n])) \in Seq(Notes \cup Replies) /\ Tail(events[n]) \in Seq(Notes \cup Replies)
  BY <1>0, HeadTailProperties, AppendProperties
<1>4. QueuesTyped'
  BY <1>0, <1>2, <1>3 DEF QueuesTyped
<1>5. /\ out'[n] = Append(out[n], Head(events[n])) /\ events'[n] = Tail(events[n])
      /\ \A m \in Stdio!Lines \ {n} : out'[m] = out[m] /\ events'[m] = events[m]
  BY <1>0, <1>2 DEF QueuesTyped
<1>6. out'[n] \o events'[n] = out[n] \o events[n]
  BY <1>0, <1>5, ConcatOfTail
<1>7. LineOK(n)'
  BY <1>0, <1>2, <1>6 DEF LineOK, Streaming
<1>8. /\ run' \in [Stdio!Lines -> {"no", "stream", "drained", "failed", "done"}]
      /\ loop' \in [Stdio!Lines -> {"no", "model", "tools", "ended", "threw"}]
      /\ run'[n] = "stream"
  BY <1>0, <1>2 DEF Stdio!TypeOK
<1> QED
  BY <1>1, <1>2, <1>4, <1>5, <1>7, <1>8, OneLineHolds

\* The queue is empty and closed: run.finished is the last that is emitted.
LEMMA DrainsHold ==
  ASSUME StdioInv, NEW n \in Stdio!Lines, Stdio!Drains(n)
  PROVE  StdioInv'
<1>0. /\ Stdio!TypeOK /\ QueuesTyped /\ run[n] = "stream" /\ Streaming(n) /\ events[n] = <<>>
      /\ out[n] \in Seq(Notes \cup Replies) /\ emitted[n] \in Seq(Notes)
  BY StreamIs DEF StdioInv, Stdio!Drains, QueuesTyped
<1>1. PICK p \in pushes : p.next = n
  BY <1>0, StreamIs
<1>2. out[n] = emitted[n]
  BY <1>0, ConcatEmptySeq DEF Streaming
<1>3. PICK st \in {"drained", "failed"} :
        /\ run' = [run EXCEPT ![n] = st]
        /\ out' = [out EXCEPT ![n] = Append(out[n], "run.finished")]
        /\ emitted' = [emitted EXCEPT ![n] = Append(emitted[n], "run.finished")]
        /\ UNCHANGED <<method, sent, eof, pushes, loop, events>> /\ loop[n] \in {"ended", "threw"}
  BY DEF Stdio!Drains, Stdio!Writes
<1>4. Append(out[n], "run.finished") \in Seq(Notes \cup Replies) /\ Append(emitted[n], "run.finished") \in Seq(Notes)
  BY <1>0, AppendProperties DEF Notes
<1>5. QueuesTyped'
  BY <1>0, <1>3, <1>4 DEF QueuesTyped
<1>6. /\ out'[n] = Append(out[n], "run.finished") /\ emitted'[n] = Append(emitted[n], "run.finished") /\ run'[n] = st
      /\ \A m \in Stdio!Lines \ {n} : out'[m] = out[m] /\ emitted'[m] = emitted[m] /\ run'[m] = run[m]
  BY <1>0, <1>3 DEF QueuesTyped, Stdio!TypeOK
<1>7. LineOK(n)'
  BY <1>0, <1>2, <1>3, <1>6 DEF LineOK, Ending, Streaming
<1>8. /\ run' \in [Stdio!Lines -> {"no", "stream", "drained", "failed", "done"}]
      /\ loop' \in [Stdio!Lines -> {"no", "model", "tools", "ended", "threw"}]
  BY <1>0, <1>3 DEF Stdio!TypeOK
<1> QED
  BY <1>1, <1>3, <1>5, <1>6, <1>7, <1>8, OneLineHolds

LEMMA StdioStep == StdioInv /\ [Stdio!Next]_stdio => StdioInv'
<1> SUFFICES ASSUME StdioInv, [Stdio!Next]_stdio PROVE StdioInv'
  OBVIOUS
<1>0. sent \in Nat /\ sent <= MaxLines /\ eof \in BOOLEAN
  BY Counted DEF StdioInv, Stdio!TypeOK
<1>1. ASSUME NEW k \in Stdio!Lines, Stdio!Data(k) PROVE StdioInv'
  <2>1. k \in Nat /\ 1 <= k /\ sent + k <= MaxLines /\ sent + k \in Stdio!Lines
    BY <1>0, <1>1, Counted DEF Stdio!Data, Stdio!Lines
  <2> QED
    BY <1>0, <1>1, <2>1, ReadHolds DEF Stdio!Data
<1>2. ASSUME NEW tail \in BOOLEAN, Stdio!EndOfInput(tail) PROVE StdioInv'
  <2>1. CASE tail
    <3>1. sent + 1 \in Stdio!Lines /\ sent' = sent + 1
      BY <1>0, <1>2, <2>1, Counted DEF Stdio!EndOfInput, Stdio!Lines
    <3> QED
      BY <1>0, <1>2, <2>1, <3>1, ReadHolds DEF Stdio!EndOfInput
  <2>2. CASE ~tail
    <3>1. UNCHANGED <<method, sent, pushes, run, loop, events, out, emitted>> /\ eof' \in BOOLEAN
      BY <1>2, <2>2 DEF Stdio!EndOfInput
    <3> QED
      BY <3>1, SMTT(20) DEF StdioInv, Stdio!TypeOK, QueuesTyped, LinesOK, PushesOK, Untouched, AnsweredAtOnce, Streaming, Ending
  <2> QED
    BY <2>1, <2>2
<1>3. CASE Stdio!Handles
  BY <1>3, AnswersHold, StartsHold, RespondsHold DEF Stdio!Handles
<1>4. ASSUME NEW n \in Stdio!Lines, Stdio!AsksTool(n) \/ Stdio!ToolAnswers(n) \/ Stdio!LoopEnds(n)
      PROVE  StdioInv'
  <2>1. PICK l \in {"model", "tools", "ended", "threw"}, what \in Notes :
          /\ loop' = [loop EXCEPT ![n] = l] /\ Stdio!Emits(n, what) /\ loop[n] \in {"model", "tools"}
          /\ UNCHANGED <<method, sent, eof, pushes, run, out>>
    BY <1>4 DEF Stdio!AsksTool, Stdio!ToolAnswers, Stdio!LoopEnds, Notes
  <2> QED
    BY <2>1, LoopHolds
<1>5. ASSUME NEW n \in Stdio!Lines, Stdio!LoopThrows(n) PROVE StdioInv'
  BY <1>5, LoopHolds DEF Stdio!LoopThrows
<1>6. CASE Stdio!Streams
  BY <1>6, NotifiesHold, DrainsHold DEF Stdio!Streams
<1>7. CASE UNCHANGED stdio
  <2>1. UNCHANGED <<method, sent, eof, pushes, run, loop, events, out, emitted>>
    BY <1>7 DEF stdio
  <2> QED
    BY <2>1, SMTT(20) DEF StdioInv, Stdio!TypeOK, QueuesTyped, LinesOK, PushesOK, Untouched, AnsweredAtOnce, Streaming, Ending
<1> QED
  BY <1>1, <1>2, <1>3, <1>4, <1>5, <1>6, <1>7 DEF Stdio!Next, Stdio!Loops, Stdio!Idle, Stdio!vars, stdio

\* The response to a request is the last message written for it, after all that
\* its run emitted and in that order, however many runs write to the pipe
\* (handleRunTask, EventQueue, streamTask): for any number of lines and rounds.
THEOREM StdioIsSound == PartsSpec => []StdioSound
<1>1. PartsInit => StdioInv
  BY StdioStart DEF PartsInit
<1>2. StdioInv /\ [PartsNext]_vars => StdioInv'
  BY OneMoves, StdioStep
<1>3. StdioInv => StdioSound
  BY ClosingHolds DEF StdioSound
<1> QED
  BY <1>1, <1>2, <1>3, PTL DEF PartsSpec

-----------------------------------------------------------------------------
(* The raw-mode terminal. *)

RunRecords == [kind : Tui!Kinds, ended : BOOLEAN, handler : BOOLEAN, aborted : BOOLEAN]

\* There is one run at most, and a question about a shell command or a plan is put
\* when there is none.
RunsOK ==
    /\ runs \subseteq RunRecords /\ \A r, s \in runs : r = s
    /\ busy \in BOOLEAN /\ (busy <=> runs # {})
    /\ ask \in {"bang", "plan"} => runs = {}

\* The listeners are attached a second time only when SIGTERM has restored the
\* terminal behind a suspended command.
KeysOK ==
    /\ restored \/ suspended => tty.keys <= 1
    /\ restored /\ suspended => tty.keys = 0
    /\ ~disturbed /\ life = "up" => ~restored

TuiInv == Tui!TypeOK /\ RunsOK /\ Tui!QuestionsAreAsked /\ KeysOK /\ Tui!TerminalFits

LEMMA TuiIsSound == TuiInv => Tui!TuiSound
<1> SUFFICES ASSUME TuiInv PROVE Tui!OneRun
  BY DEF TuiInv, Tui!TuiSound
<1>1. runs = {} \/ \E r \in runs : runs = {r}
  BY DEF TuiInv, RunsOK
<1>2. Cardinality(runs) <= 1
  BY <1>1, FS_EmptySet, FS_Singleton
<1>3. Tui!Cardinality(runs) = Cardinality(runs)
  BY Zenon DEF Tui!Cardinality, Cardinality
<1> QED
  BY <1>2, <1>3 DEF TuiInv, RunsOK, Tui!OneRun

LEMMA TuiStart == Tui!Init => TuiInv
<1> SUFFICES ASSUME Tui!Init PROVE TuiInv
  OBVIOUS
<1>1. tty = [alt |-> TRUE, raw |-> TRUE, keys |-> 1] /\ tty.keys = 1
  BY DEF Tui!Init, Tui!Shown
<1>2. Tui!TypeOK
  <2>1. started \in 0 .. MaxRuns /\ tty.keys \in 0 .. 2
    BY <1>1, Counted DEF Tui!Init
  <2>2. {restored, busy, suspended, disturbed} \subseteq BOOLEAN
    BY Zenon DEF Tui!Init
  <2> QED
    BY <2>1, <2>2 DEF Tui!Init, Tui!TypeOK
<1> QED
  BY <1>1, <1>2, ServicesAssumption DEF Tui!Init, TuiInv, RunsOK, Tui!QuestionsAreAsked, KeysOK, Tui!TerminalFits

\* A step that leaves the terminal as it is.
LEMMA SameTerminal ==
  ASSUME KeysOK, Tui!TerminalFits, UNCHANGED <<tty, restored, suspended, disturbed>>,
         life' \in {life, "killed"}
  PROVE  KeysOK' /\ Tui!TerminalFits'
BY DEF KeysOK, Tui!TerminalFits, Tui!Hidden, Tui!Shown

\* A step that leaves the runs and the question as they are.
LEMMA SameRuns ==
  ASSUME RunsOK, Tui!QuestionsAreAsked, UNCHANGED <<runs, busy, ask>>
  PROVE  RunsOK' /\ Tui!QuestionsAreAsked'
BY DEF RunsOK, Tui!QuestionsAreAsked

\* A run is started when there is none.
LEMMA RunStarts ==
  ASSUME RunsOK, runs = {}, NEW k \in Tui!Kinds, Tui!Start(k), ask' \notin {"tool", "bang", "plan"}
  PROVE  RunsOK' /\ Tui!QuestionsAreAsked'
<1>1. Tui!Fresh(k) \in RunRecords /\ runs' = {Tui!Fresh(k)} /\ busy' = TRUE
  BY DEF Tui!Start, Tui!Fresh, RunRecords
<1> QED
  BY <1>1 DEF RunsOK, Tui!QuestionsAreAsked

\* What restore() leaves: the whole terminal, or a disturbed one.
LEMMA RestoreHolds ==
  ASSUME TuiInv, Tui!Restore, Tui!Listening \/ (tty.keys = 0 /\ life = "up" /\ ~suspended), life' = "done",
         UNCHANGED suspended
  PROVE  KeysOK' /\ Tui!TerminalFits' /\ tty'.keys \in 0 .. 2 /\ restored' \in BOOLEAN /\ disturbed' \in BOOLEAN
<1>1. Tui!TypeOK /\ KeysOK /\ Tui!TerminalFits /\ life = "up"
  BY DEF TuiInv, Tui!Listening
<1>2. CASE restored
  <2>1. tty' = tty /\ disturbed /\ disturbed' /\ restored'
    BY <1>1, <1>2 DEF Tui!Restore, KeysOK
  <2> QED
    BY <1>1, <1>2, <2>1 DEF KeysOK, Tui!TerminalFits, Tui!TypeOK
<1>3. CASE ~restored
  <2>1. tty' = [alt |-> Tui!Screen(FALSE), raw |-> FALSE, keys |-> 0] /\ tty'.keys = 0
    BY <1>3 DEF Tui!Restore, Tui!Hidden
  <2>2. ~disturbed' => ~disturbed /\ writer = "screen"
    BY DEF Tui!Restore
  <2>3. ~disturbed' => tty' = [alt |-> FALSE, raw |-> FALSE, keys |-> 0]
    BY <2>1, <2>2 DEF Tui!Screen
  <2>4. restored' \in BOOLEAN /\ disturbed' \in BOOLEAN
    BY Zenon DEF Tui!Restore
  <2> QED
    BY <1>1, <1>3, <2>1, <2>3, <2>4 DEF KeysOK, Tui!TerminalFits, Tui!Hidden
<1> QED
  BY <1>2, <1>3

LEMMA TuiStep == TuiInv /\ [Tui!Next]_tui => TuiInv'
<1> SUFFICES ASSUME TuiInv, [Tui!Next]_tui PROVE TuiInv'
  OBVIOUS
<1>0. /\ Tui!TypeOK /\ RunsOK /\ Tui!QuestionsAreAsked /\ KeysOK /\ Tui!TerminalFits
      /\ NoQuestion \notin {"tool", "bang", "plan", "screen", "buffer"}
  BY ServicesAssumption DEF TuiInv
\* Runs and questions: the terminal is left alone.
<1>1. ASSUME UNCHANGED <<tty, restored, suspended, disturbed, inline, writer>>, life' \in {life, "killed"},
             RunsOK', Tui!QuestionsAreAsked', ask' \in {NoQuestion, "tool", "bang", "plan"},
             started' \in 0 .. MaxRuns
      PROVE  TuiInv'
  <2>1. KeysOK' /\ Tui!TerminalFits'
    BY <1>0, <1>1, SameTerminal
  <2>2. {restored', busy', suspended', disturbed'} \subseteq BOOLEAN
    <3>1. busy' \in BOOLEAN
      BY <1>1, Zenon DEF RunsOK
    <3> QED
      BY <1>0, <1>1, <3>1, Zenon DEF Tui!TypeOK
  <2>3. \A r \in runs' : r.kind \in Tui!Kinds
    BY <1>1 DEF RunsOK, RunRecords
  <2>4. Tui!TypeOK'
    BY <1>0, <1>1, <2>2, <2>3 DEF Tui!TypeOK
  <2> QED
    BY <1>1, <2>1, <2>4 DEF TuiInv
\* The terminal: runs and questions are left alone.
<1>2. ASSUME UNCHANGED <<busy, runs, ask, started>>, life' \in {life, "done"},
             KeysOK', Tui!TerminalFits', tty'.keys \in 0 .. 2,
             {restored', suspended', disturbed'} \subseteq BOOLEAN,
             inline' \in [InlineCommands -> {NoQuestion, "screen", "buffer"}], writer' \in {"screen", "buffer"}
      PROVE  TuiInv'
  <2>1. RunsOK' /\ Tui!QuestionsAreAsked'
    BY <1>0, <1>2, SameRuns
  <2>2. Tui!TypeOK'
    BY <1>0, <1>2 DEF Tui!TypeOK
  <2> QED
    BY <1>2, <2>1, <2>2 DEF TuiInv
<1>3. CASE Tui!Submit
  <2>1. runs = {}
    BY <1>0, <1>3 DEF Tui!Submit, Tui!Ready, RunsOK
  <2>2. PICK k \in Tui!Kinds : Tui!Start(k)
    BY <1>3 DEF Tui!Submit, Tui!Kinds
  <2>3. RunsOK' /\ Tui!QuestionsAreAsked'
    BY <1>0, <1>3, <2>1, <2>2, RunStarts DEF Tui!Submit, Tui!Ready, Tui!AtKeys
  <2>4. started' \in 0 .. MaxRuns
    BY <1>0, <1>3, <2>2, Counted DEF Tui!Submit, Tui!CanStart, Tui!Start, Tui!TypeOK
  <2> QED
    BY <1>0, <1>1, <1>3, <2>3, <2>4 DEF Tui!Submit, Tui!TypeOK
<1>4. CASE Tui!AskBang
  <2>1. runs = {} /\ ask' = "bang" /\ UNCHANGED <<runs, busy, started>>
    BY <1>0, <1>4 DEF Tui!AskBang, Tui!Ready, RunsOK
  <2>2. RunsOK' /\ Tui!QuestionsAreAsked'
    BY <1>0, <2>1 DEF RunsOK, Tui!QuestionsAreAsked
  <2> QED
    BY <1>0, <1>1, <1>4, <2>1, <2>2 DEF Tui!AskBang, Tui!TypeOK
<1>5. CASE Tui!AskTool
  <2>1. ask' = "tool" /\ UNCHANGED <<runs, busy, started>> /\ \E r \in runs : ~r.ended /\ ~r.aborted
    BY <1>5 DEF Tui!AskTool, Tui!Working
  <2>2. RunsOK' /\ Tui!QuestionsAreAsked'
    BY <1>0, <2>1 DEF RunsOK, Tui!QuestionsAreAsked
  <2> QED
    BY <1>0, <1>1, <1>5, <2>1, <2>2 DEF Tui!AskTool, Tui!TypeOK
<1>6. CASE Tui!Answer
  <2>1. ask' = NoQuestion
    BY <1>6 DEF Tui!Answer
  <2>2. CASE UNCHANGED <<busy, runs, started>>
    <3>1. RunsOK' /\ Tui!QuestionsAreAsked'
      BY <1>0, <2>1, <2>2 DEF RunsOK, Tui!QuestionsAreAsked
    <3> QED
      BY <1>0, <1>1, <1>6, <2>1, <2>2, <3>1 DEF Tui!Answer, Tui!TypeOK
  <2>3. CASE ask \in {"bang", "plan"} /\ Tui!CanStart /\ Tui!Start(ask)
    <3>1. RunsOK' /\ Tui!QuestionsAreAsked'
      BY <1>0, <2>1, <2>3, RunStarts DEF RunsOK, Tui!Kinds
    <3>2. started' \in 0 .. MaxRuns
      BY <1>0, <2>3, Counted DEF Tui!CanStart, Tui!Start, Tui!TypeOK
    <3> QED
      BY <1>0, <1>1, <1>6, <2>1, <3>1, <3>2 DEF Tui!Answer, Tui!TypeOK
  <2> QED
    BY <1>6, <2>2, <2>3 DEF Tui!Answer
<1>7. CASE Tui!RunEnds
  <2>1. PICK r \in runs : /\ Tui!Working(r) /\ ask # "tool"
                          /\ runs' = (runs \ {r}) \cup {[r EXCEPT !.ended = TRUE, !.handler = FALSE]}
    BY <1>7 DEF Tui!RunEnds
  <2>2. runs = {r} /\ r \in RunRecords
    BY <1>0 DEF RunsOK
  <2>3. [r EXCEPT !.ended = TRUE, !.handler = FALSE] \in RunRecords
    BY <2>2 DEF RunRecords
  <2>4. UNCHANGED <<busy, ask, started>>
    BY <1>7 DEF Tui!RunEnds
  <2>5. RunsOK' /\ Tui!QuestionsAreAsked'
    BY <1>0, <2>1, <2>2, <2>3, <2>4 DEF RunsOK, Tui!QuestionsAreAsked
  <2> QED
    BY <1>0, <1>1, <1>7, <2>4, <2>5 DEF Tui!RunEnds, Tui!TypeOK
<1>8. CASE Tui!BackAtPrompt
  <2>1. PICK r \in runs : /\ r.ended /\ runs' = runs \ {r} /\ busy' = FALSE
                          /\ ask' = ask \/ ask' = "plan"
    BY <1>8 DEF Tui!BackAtPrompt
  <2>2. runs = {r} /\ runs' = {}
    BY <1>0, <2>1 DEF RunsOK
  <2>3. ask # "tool"
    BY <1>0, <2>1, <2>2 DEF Tui!QuestionsAreAsked
  <2>4. RunsOK' /\ Tui!QuestionsAreAsked'
    BY <2>1, <2>2, <2>3 DEF RunsOK, Tui!QuestionsAreAsked
  <2> QED
    BY <1>0, <1>1, <1>8, <2>1, <2>4 DEF Tui!BackAtPrompt, Tui!TypeOK
<1>9. CASE Tui!Interrupt /\ busy
  <2>1. /\ UNCHANGED <<tty, restored, disturbed, busy, ask, suspended, inline, writer, started>> /\ ask = NoQuestion
        /\ life' \in {life, "killed"}
        /\ \/ runs' = runs
           \/ runs' = {[r EXCEPT !.handler = FALSE, !.aborted = r.aborted \/ r.handler] : r \in runs}
    BY <1>9 DEF Tui!Interrupt, Tui!SigInt, Tui!AtKeys
  <2>2. \A r \in runs : [r EXCEPT !.handler = FALSE, !.aborted = r.aborted \/ r.handler] \in RunRecords
    BY <1>0 DEF RunsOK, RunRecords
  <2>3. RunsOK'
    <3>1. runs' \subseteq RunRecords /\ (\A r, s \in runs' : r = s) /\ (runs' # {} <=> runs # {})
      <4>1. CASE runs' = runs
        BY <1>0, <4>1 DEF RunsOK
      <4>2. CASE runs' = {[r EXCEPT !.handler = FALSE, !.aborted = r.aborted \/ r.handler] : r \in runs}
        <5>1. CASE runs = {}
          BY <4>2, <5>1
        <5>2. ASSUME NEW r \in runs
              PROVE  runs' \subseteq RunRecords /\ (\A q, s \in runs' : q = s) /\ runs' # {}
          <6>1. runs' = {[r EXCEPT !.handler = FALSE, !.aborted = r.aborted \/ r.handler]}
            BY <1>0, <4>2, <5>2, Zenon DEF RunsOK
          <6> QED
            BY <2>2, <6>1
        <5> QED
          BY <5>1, <5>2
      <4> QED
        BY <2>1, <4>1, <4>2
    <3> QED
      BY <1>0, <2>1, <3>1 DEF RunsOK
  <2>4. Tui!QuestionsAreAsked'
    BY <1>0, <2>1 DEF Tui!QuestionsAreAsked
  <2> QED
    BY <1>0, <1>1, <2>1, <2>3, <2>4 DEF Tui!TypeOK
<1>10. CASE (Tui!Interrupt /\ ~busy) \/ Tui!Exit \/ Tui!Drained
  <2>1. /\ Tui!Restore /\ life' = "done" /\ UNCHANGED <<busy, runs, ask, suspended, inline, writer, started>>
        /\ Tui!Listening \/ (tty.keys = 0 /\ life = "up" /\ ~suspended)
    BY <1>10 DEF Tui!Interrupt, Tui!Exit, Tui!Drained, Tui!Ready, Tui!AtKeys
  <2>2. KeysOK' /\ Tui!TerminalFits' /\ tty'.keys \in 0 .. 2 /\ restored' \in BOOLEAN /\ disturbed' \in BOOLEAN
    BY <2>1, RestoreHolds
  <2>3. {restored', suspended', disturbed'} \subseteq BOOLEAN
    BY <1>0, <2>1, <2>2, Zenon DEF Tui!TypeOK
  <2> QED
    BY <1>0, <1>2, <2>1, <2>2, <2>3 DEF Tui!TypeOK
<1>11. CASE Tui!InlineStarts \/ Tui!InlineEnds
  <2>1. /\ UNCHANGED <<life, tty, restored, busy, runs, ask, suspended, disturbed, started>>
        /\ inline' \in [InlineCommands -> {NoQuestion, "screen", "buffer"}] /\ writer' \in {"screen", "buffer"}
    BY <1>0, <1>11 DEF Tui!InlineStarts, Tui!InlineEnds, Tui!TypeOK
  <2>2. KeysOK' /\ Tui!TerminalFits'
    BY <1>0, <2>1, SameTerminal
  <2>3. {restored', suspended', disturbed'} \subseteq BOOLEAN
    BY <1>0, <2>1, Zenon DEF Tui!TypeOK
  <2> QED
    BY <1>0, <1>2, <2>1, <2>2, <2>3 DEF Tui!TypeOK
<1>12. CASE Tui!Suspend
  <2>1. /\ suspended' = TRUE /\ restored' = FALSE /\ life = "up" /\ tty.keys > 0
        /\ tty' = IF restored THEN tty ELSE [alt |-> Tui!Screen(FALSE), raw |-> FALSE, keys |-> 0]
        /\ UNCHANGED <<life, busy, runs, ask, inline, writer, started>>
    <3>1. /\ suspended' = TRUE /\ restored' = FALSE
          /\ UNCHANGED <<life, busy, runs, ask, inline, writer, started>>
      BY <1>12, Zenon DEF Tui!Suspend
    <3>2. life = "up" /\ tty.keys > 0
      BY <1>12 DEF Tui!Suspend, Tui!Ready, Tui!AtKeys, Tui!Listening
    <3>3. tty' = IF restored THEN tty ELSE [alt |-> Tui!Screen(FALSE), raw |-> FALSE, keys |-> 0]
      <4>1. restored => tty' = tty
        BY <1>12 DEF Tui!Suspend
      <4>2. ~restored => tty' = [alt |-> Tui!Screen(FALSE), raw |-> FALSE, keys |-> 0]
        BY <1>12 DEF Tui!Suspend, Tui!Hidden
      <4> QED
        BY <4>1, <4>2
    <3> QED
      BY <3>1, <3>2, <3>3, Zenon
  <2>d. disturbed' = (disturbed \/ writer # "screen")
    BY <1>12 DEF Tui!Suspend
  <2>2. tty'.keys \in 0 .. 1
    BY <1>0, <2>1 DEF KeysOK, Tui!TypeOK
  <2>3. ~disturbed' => tty' = Tui!Hidden
    BY <1>0, <2>1, <2>d DEF KeysOK, Tui!Hidden, Tui!Screen
  <2>4. disturbed' \in BOOLEAN
    BY <2>d, Zenon
  <2>5. {restored', suspended', disturbed'} \subseteq BOOLEAN
    BY <2>1, <2>4, Zenon
  <2>6. ~restored' /\ suspended'
    BY <2>1, Zenon
  <2>7. KeysOK'
    BY <2>1, <2>2, <2>3, <2>6 DEF KeysOK
  <2>8. Tui!TerminalFits'
    BY <2>1, <2>3, <2>6 DEF Tui!TerminalFits
  <2> QED
    BY <1>0, <1>2, <2>1, <2>2, <2>5, <2>7, <2>8 DEF Tui!TypeOK
<1>13. CASE Tui!Reenter
  <2>1. /\ suspended /\ suspended' = FALSE /\ life = "up"
        /\ tty' = [alt |-> Tui!Screen(TRUE), raw |-> TRUE, keys |-> tty.keys + 1]
        /\ UNCHANGED <<life, restored, busy, runs, ask, inline, writer, started>>
    BY <1>13 DEF Tui!Reenter
  <2>d. disturbed' = (disturbed \/ writer # "screen")
    BY <1>13 DEF Tui!Reenter
  <2>2. tty'.keys \in 0 .. 2 /\ (restored => tty'.keys = 1)
    BY <1>0, <2>1 DEF KeysOK, Tui!TypeOK
  <2>3. ~disturbed' => tty' = Tui!Shown /\ ~restored
    <3>1. ~disturbed' => ~disturbed /\ writer = "screen" /\ tty = Tui!Hidden
      BY <1>0, <2>1, <2>d DEF Tui!TerminalFits
    <3>2. tty = Tui!Hidden => tty.keys + 1 = 1
      BY DEF Tui!Hidden
    <3>3. Tui!Shown = [alt |-> TRUE, raw |-> TRUE, keys |-> 1]
      BY DEF Tui!Shown
    <3>4. ~disturbed' => tty' = Tui!Shown
      BY <2>1, <3>1, <3>2, <3>3 DEF Tui!Screen
    <3>5. ~disturbed' => ~restored
      BY <1>0, <2>1, <3>1 DEF KeysOK
    <3> QED
      BY <3>4, <3>5
  <2>4. disturbed' \in BOOLEAN
    BY <2>d, Zenon
  <2>5. {restored', suspended', disturbed'} \subseteq BOOLEAN
    BY <1>0, <2>1, <2>4, Zenon DEF Tui!TypeOK
  <2>6. ~suspended'
    BY <2>1, Zenon
  <2>7. KeysOK'
    <3>1. restored => tty'.keys <= 1
      BY <2>2
    <3> QED
      BY <2>1, <2>3, <2>6, <3>1, Zenon DEF KeysOK
  <2>8. Tui!TerminalFits'
    BY <2>1, <2>3, <2>6 DEF Tui!TerminalFits
  <2> QED
    BY <1>0, <1>2, <2>1, <2>2, <2>5, <2>7, <2>8 DEF Tui!TypeOK
<1>14. CASE Tui!Terminate
  <2>1. /\ life = "up" /\ restored' = TRUE /\ disturbed' = TRUE /\ ~restored
        /\ tty' = [alt |-> Tui!Screen(FALSE), raw |-> FALSE, keys |-> 0]
        /\ UNCHANGED <<life, busy, runs, ask, suspended, inline, writer, started>>
    BY <1>0, <1>14 DEF Tui!Terminate, Tui!Hidden, KeysOK
  <2>2. KeysOK' /\ Tui!TerminalFits' /\ tty'.keys \in 0 .. 2
    BY <2>1 DEF KeysOK, Tui!TerminalFits
  <2>3. {restored', suspended', disturbed'} \subseteq BOOLEAN
    BY <1>0, <2>1, Zenon DEF Tui!TypeOK
  <2> QED
    BY <1>0, <1>2, <2>1, <2>2, <2>3 DEF Tui!TypeOK
<1>15. CASE Tui!Over \/ UNCHANGED tui
  <2>1. UNCHANGED <<life, tty, restored, busy, runs, ask, suspended, inline, writer, disturbed, started>>
    BY <1>15 DEF Tui!Over, Tui!tuiVars, tui
  <2> QED
    BY <2>1 DEF TuiInv, Tui!TypeOK, RunsOK, Tui!QuestionsAreAsked, KeysOK, Tui!TerminalFits, Tui!Hidden, Tui!Shown
<1> QED
  BY <1>3, <1>4, <1>5, <1>6, <1>7, <1>8, <1>9, <1>10, <1>11, <1>12, <1>13, <1>14, <1>15 DEF Tui!Next

\* Runs, questions and the terminal agree in every state of the raw-mode UI, for
\* any number of runs and inline commands (runTuiRepl).
THEOREM TerminalIsSound == PartsSpec => []TuiSound
<1>1. PartsInit => TuiInv
  BY TuiStart DEF PartsInit
<1>2. TuiInv /\ [PartsNext]_vars => TuiInv'
  BY OneMoves, TuiStep
<1>3. TuiInv => TuiSound
  BY TuiIsSound DEF TuiSound
<1> QED
  BY <1>1, <1>2, <1>3, PTL DEF PartsSpec

-----------------------------------------------------------------------------
(* The drivers of delegation.                                               *)

AppliedIn(plan) == {w \in Rounds!Tasks : plan[w] = "applied"}

\* At every moment, and not only when a driver has returned, both copies of the
\* plan hold what is reported, and the tree also what an apply could not record.
\* A worker runs once what it needs is applied.
RoundsInv ==
    /\ Rounds!TypeOK
    /\ AppliedIn(memory) = reported /\ AppliedIn(disk) = reported
    /\ landed = reported \cup unrecorded
    /\ \A w \in DOMAIN ran : Needs[w] \subseteq reported

LEMMA TasksAre == IsFiniteSet(Rounds!Tasks) /\ \A w \in Rounds!Tasks : Needs[w] \subseteq Rounds!Tasks
<1>1. Rounds!Tasks = {1, 2} \cup {3}
  BY DEF Rounds!Tasks, Seeds, Extras
<1>2. IsFiniteSet({1, 2} \cup {3})
  <2>1. IsFiniteSet({}) /\ IsFiniteSet({} \cup {1}) /\ IsFiniteSet(({} \cup {1}) \cup {2})
    BY FS_EmptySet, FS_AddElement
  <2>2. IsFiniteSet((({} \cup {1}) \cup {2}) \cup {3})
    BY <2>1, FS_AddElement
  <2>3. (({} \cup {1}) \cup {2}) \cup {3} = {1, 2} \cup {3}
    OBVIOUS
  <2> QED
    BY <2>2, <2>3
<1>3. \A w \in {1, 2} \cup {3} : {w - 1} \ {0} \subseteq {1, 2} \cup {3}
  OBVIOUS
<1> QED
  BY <1>1, <1>2, <1>3 DEF Needs, Seeds, Extras

LEMMA RoundsStart == Rounds!Init => RoundsInv
<1> SUFFICES ASSUME Rounds!Init PROVE RoundsInv
  OBVIOUS
<1>1. /\ memory \in [Rounds!Tasks -> Rounds!RoundStatus] /\ disk = memory
      /\ AppliedIn(memory) = {}
  BY DEF Rounds!Init, Rounds!RoundStatus, AppliedIn
<1>2. DOMAIN ran = {} /\ turn \in Seq(Rounds!Tasks) /\ round \in 0 .. MaxRounds
  BY Counted DEF Rounds!Init
<1>3. stopped \in BOOLEAN
  BY Zenon DEF Rounds!Init
<1>4. Rounds!TypeOK
  BY <1>1, <1>2, <1>3 DEF Rounds!Init, Rounds!TypeOK, Rounds!Results
<1> QED
  BY <1>1, <1>2, <1>4 DEF Rounds!Init, RoundsInv

\* A step that leaves plans, tree and report alone.
LEMMA SamePlans ==
  ASSUME RoundsInv, Rounds!TypeOK', UNCHANGED <<memory, disk, reported, landed, unrecorded, ran>>
  PROVE  RoundsInv'
BY DEF RoundsInv, AppliedIn

\* A step whose saves keep what is applied.
LEMMA AppliedStays ==
  ASSUME RoundsInv, Rounds!TypeOK', UNCHANGED <<reported, landed, unrecorded, ran>>,
         AppliedIn(memory') = AppliedIn(memory), AppliedIn(disk') = AppliedIn(memory)
  PROVE  RoundsInv'
BY DEF RoundsInv, AppliedIn

\* A round of workers takes no status "applied" away and gives none.
LEMMA RunsHold ==
  ASSUME RoundsInv, Rounds!RunsWorkers
  PROVE  RoundsInv'
<1> DEFINE T == Rounds!Tasks
<1>0. Rounds!TypeOK /\ \A w \in T : Needs[w] \subseteq T
  BY TasksAre DEF RoundsInv
<1>1. PICK who \in SUBSET Rounds!Ready(memory, {"planned", "failed"}), passed \in SUBSET T,
           files \in [T -> (SUBSET Paths) \ {{}}], abort \in BOOLEAN :
           Rounds!RoundOf(who, passed, files, abort)
  BY DEF Rounds!RunsWorkers
<1>2. /\ passed \subseteq who
      /\ changed' = [w \in T |-> IF w \in passed THEN files[w] ELSE changed[w]]
      /\ roundBlocked' = Rounds!Clash(passed, changed')
      /\ memory' = [w \in T |-> IF w \in roundBlocked' THEN "conflict"
                                ELSE IF w \in passed THEN "passed"
                                ELSE IF w \in who THEN "failed" ELSE memory[w]]
      /\ ran' = [w \in who |-> w \in passed]
  BY <1>1 DEF Rounds!RoundOf
<1>3. stopped' \in BOOLEAN
  BY <1>1, Zenon DEF Rounds!RoundOf
<1>4. /\ who \subseteq T
      /\ \A w \in who : memory[w] \in {"planned", "failed"} /\ \A d \in Needs[w] : memory[d] = "applied"
  BY <1>1 DEF Rounds!Ready
<1>5. roundBlocked' \subseteq T /\ \A w \in roundBlocked' : w \in passed \/ memory[w] = "passed"
  BY <1>2, <1>4 DEF Rounds!Clash
<1>6. \A w \in T : memory'[w] = "applied" <=> memory[w] = "applied"
  BY <1>2, <1>4, <1>5
<1>7. \A w \in T : disk'[w] = "applied" <=> memory[w] = "applied"
  <2>1. disk' = memory' \/ disk' = [w \in T |-> IF w \in roundBlocked' THEN "passed" ELSE memory'[w]]
    BY DEF Rounds!RunsWorkers
  <2> QED
    BY <2>1, <1>2, <1>4, <1>5, <1>6
<1>8. DOMAIN ran' = who /\ \A w \in who : Needs[w] \subseteq reported
  <2>1. \A w \in who : \A d \in Needs[w] : d \in T /\ memory[d] = "applied"
    BY <1>0, <1>4
  <2> QED
    BY <2>1, <1>2 DEF RoundsInv, AppliedIn
<1>9. Rounds!TypeOK'
  <2>1. /\ memory' \in [T -> Rounds!RoundStatus]
        /\ changed' \in [T -> SUBSET Paths]
    BY <1>0, <1>1, <1>2 DEF Rounds!TypeOK, Rounds!RoundStatus
  <2>2. disk' \in [T -> Rounds!RoundStatus]
    BY <2>1 DEF Rounds!RunsWorkers, Rounds!RoundStatus
  <2>3. round' \in 0 .. MaxRounds
    BY <1>0, Counted DEF Rounds!TypeOK, Rounds!RunsWorkers, Rounds!RoundsAreUsed, Rounds!NextRound
  <2>4. stage' \in {"turn", "over"} /\ result' \in Rounds!Results /\ roundPaths' = {}
    BY <1>0 DEF Rounds!TypeOK, Rounds!RunsWorkers, Rounds!Results, Rounds!Returns
  <2>5. UNCHANGED <<driver, config, turn, reported, blocked, landed, unrecorded>>
    BY DEF Rounds!RunsWorkers
  <2> QED
    BY <1>0, <1>3, <1>4, <1>5, <1>8, <2>1, <2>2, <2>3, <2>4, <2>5 DEF Rounds!TypeOK
<1>10. UNCHANGED <<reported, landed, unrecorded>>
  BY DEF Rounds!RunsWorkers
<1> QED
  BY <1>6, <1>7, <1>8, <1>9, <1>10 DEF RoundsInv, AppliedIn

\* An apply marks the worker in both copies, reports it and has its patch in the tree.
LEMMA AppliesHold ==
  ASSUME RoundsInv, NEW w \in Rounds!Tasks, Rounds!AppliesWorker(w)
  PROVE  RoundsInv'
<1>1. /\ turn # <<>> /\ turn' = Tail(turn)
      /\ disk' = [disk EXCEPT ![w] = "applied"] /\ memory' = [memory EXCEPT ![w] = "applied"]
      /\ landed' = landed \cup {w} /\ reported' = reported \cup {w}
      /\ roundPaths' = roundPaths \cup changed[w]
      /\ UNCHANGED <<driver, config, changed, round, stage, ran, roundBlocked, blocked, unrecorded,
                     stopped, result>>
  BY DEF Rounds!AppliesWorker, Rounds!Offered, Rounds!MarkApplied
<1>2. Rounds!TypeOK
  BY DEF RoundsInv
<1>3. Rounds!TypeOK'
  <2>1. turn' \in Seq(Rounds!Tasks)
    BY <1>1, <1>2 DEF Rounds!TypeOK
  <2>2. disk' \in [Rounds!Tasks -> Rounds!RoundStatus] /\ memory' \in [Rounds!Tasks -> Rounds!RoundStatus]
    BY <1>1, <1>2 DEF Rounds!TypeOK, Rounds!RoundStatus
  <2>3. roundPaths' \subseteq Paths
    BY <1>1, <1>2 DEF Rounds!TypeOK
  <2> QED
    BY <1>1, <1>2, <2>1, <2>2, <2>3 DEF Rounds!TypeOK
<1>4. \A v \in Rounds!Tasks : /\ memory'[v] = "applied" <=> (memory[v] = "applied" \/ v = w)
                              /\ disk'[v] = "applied" <=> (disk[v] = "applied" \/ v = w)
  BY <1>1, <1>2 DEF Rounds!TypeOK
<1> QED
  BY <1>1, <1>3, <1>4 DEF RoundsInv, AppliedIn

\* Workers the planner adds were in neither copy: none of them was applied.
LEMMA CoordinatorHolds ==
  ASSUME RoundsInv, Rounds!CoordinatorEndsRound
  PROVE  RoundsInv'
<1>0. Rounds!TypeOK
  BY DEF RoundsInv
<1>1. /\ blocked' = blocked \cup roundBlocked
      /\ UNCHANGED <<driver, config, changed, round, ran, turn, roundBlocked, roundPaths, reported,
                     landed, unrecorded, stopped>>
  BY DEF Rounds!CoordinatorEndsRound
<1>2. CASE Rounds!Returns("failed") /\ UNCHANGED <<memory, disk>>
  <2>1. stage' = "over" /\ result' = "failed" /\ UNCHANGED <<memory, disk>>
    BY <1>2 DEF Rounds!Returns
  <2>2. Rounds!TypeOK'
    BY <1>0, <1>1, <2>1 DEF Rounds!TypeOK, Rounds!Results
  <2> QED
    BY <1>1, <2>1, <2>2, SamePlans
<1>3. CASE ~(Rounds!Returns("failed") /\ UNCHANGED <<memory, disk>>)
  <2>1. PICK new \in SUBSET (Extras \ Rounds!Listed(memory)) :
          /\ result' = result
          /\ memory' = [w \in Rounds!Tasks |-> IF w \in new THEN "planned" ELSE memory[w]]
          /\ disk' = memory' /\ stage' \in {"closing", "round"}
    BY <1>3 DEF Rounds!CoordinatorEndsRound
  <2>2. \A w \in new : w \in Rounds!Tasks => memory[w] = "absent"
    BY <2>1 DEF Rounds!Listed
  <2>3. memory' \in [Rounds!Tasks -> Rounds!RoundStatus] /\ disk' = memory'
    BY <1>0, <2>1 DEF Rounds!TypeOK, Rounds!RoundStatus
  <2>4. \A w \in Rounds!Tasks : memory'[w] = "applied" <=> memory[w] = "applied"
    BY <2>1, <2>2
  <2>5. Rounds!TypeOK'
    BY <1>0, <1>1, <2>1, <2>3 DEF Rounds!TypeOK
  <2>6. AppliedIn(memory') = AppliedIn(memory) /\ AppliedIn(disk') = AppliedIn(memory)
    BY <2>3, <2>4 DEF AppliedIn
  <2> QED
    BY <1>1, <2>5, <2>6, AppliedStays
<1> QED
  BY <1>2, <1>3

\* A list of all members of a set is a sequence of members.
LEMMA ListsAre ==
  ASSUME NEW S, IsFiniteSet(S), NEW q \in Rounds!SetToSeqs(S)
  PROVE  q \in Seq(S)
<1>1. Rounds!Cardinality(S) = Cardinality(S)
  BY Zenon DEF Rounds!Cardinality, Cardinality
<1>2. Cardinality(S) \in Nat
  BY FS_CardinalityType
<1>3. q \in [1 .. Cardinality(S) -> S]
  BY <1>1, Zenon DEF Rounds!SetToSeqs
<1> QED
  BY <1>2, <1>3

\* Every step of a driver keeps both copies, the tree and the report together.
LEMMA RoundsStep == RoundsInv /\ [Rounds!Next]_drivers => RoundsInv'
<1> SUFFICES ASSUME RoundsInv, [Rounds!Next]_drivers PROVE RoundsInv'
  OBVIOUS
<1>0. Rounds!TypeOK /\ IsFiniteSet(Rounds!Tasks)
  BY TasksAre DEF RoundsInv
<1>1. CASE UNCHANGED drivers
  <2>1. UNCHANGED <<driver, config, memory, disk, changed, round, stage, ran, turn, roundBlocked,
                    roundPaths, reported, blocked, landed, unrecorded, stopped, result>>
    BY <1>1 DEF drivers
  <2>2. Rounds!TypeOK'
    BY <1>0, <2>1 DEF Rounds!TypeOK
  <2> QED
    BY <2>1, <2>2, SamePlans
<1>2. CASE Rounds!LeavesTheLoop
  <2>1. Rounds!TypeOK'
    BY <1>0, <1>2 DEF Rounds!TypeOK, Rounds!LeavesTheLoop
  <2> QED
    BY <1>2, <2>1, SamePlans DEF Rounds!LeavesTheLoop
<1>3. CASE Rounds!ReturnsAtOnce
  <2>1. Rounds!TypeOK'
    BY <1>0, <1>3 DEF Rounds!TypeOK, Rounds!ReturnsAtOnce, Rounds!Returns, Rounds!Results
  <2> QED
    BY <1>3, <2>1, SamePlans DEF Rounds!ReturnsAtOnce
<1>4. CASE Rounds!RunsWorkers
  BY <1>4, RunsHold
<1>5. CASE Rounds!PlannerFails
  <2>1. Rounds!TypeOK'
    BY <1>0, <1>5 DEF Rounds!TypeOK, Rounds!PlannerFails, Rounds!Returns, Rounds!Results
  <2> QED
    BY <1>5, <2>1, SamePlans DEF Rounds!PlannerFails
<1>6. CASE Rounds!PlannerIsDone
  <2>1. Rounds!TypeOK'
    BY <1>0, <1>6 DEF Rounds!TypeOK, Rounds!PlannerIsDone, Rounds!Returns, Rounds!Results
  <2> QED
    BY <1>6, <2>1, AppliedStays DEF Rounds!PlannerIsDone, AppliedIn
<1>7. CASE Rounds!PlannerPicks
  <2>1. PICK n \in 0 .. 2 : turn' \in [1 .. n -> Rounds!Tasks]
    BY <1>7 DEF Rounds!PlannerPicks
  <2>2. turn' \in Seq(Rounds!Tasks)
    BY <2>1
  <2>3. Rounds!TypeOK'
    BY <1>0, <1>7, <2>2 DEF Rounds!TypeOK, Rounds!PlannerPicks
  <2> QED
    BY <1>7, <2>3, SamePlans DEF Rounds!PlannerPicks
<1>8. CASE Rounds!AutopilotPicks
  <2>1. DOMAIN ran \subseteq Rounds!Tasks /\ IsFiniteSet(DOMAIN ran)
    BY <1>0, FS_Subset DEF Rounds!TypeOK
  <2>2. turn' \in Seq(DOMAIN ran)
    BY <1>8, <2>1, ListsAre DEF Rounds!AutopilotPicks
  <2>3. turn' \in Seq(Rounds!Tasks)
    BY <2>1, <2>2
  <2>4. Rounds!TypeOK'
    BY <1>0, <1>8, <2>3 DEF Rounds!TypeOK, Rounds!AutopilotPicks
  <2> QED
    BY <1>8, <2>4, SamePlans DEF Rounds!AutopilotPicks
<1>9. CASE Rounds!AutopilotStops
  <2>1. Rounds!TypeOK'
    BY <1>0, <1>9 DEF Rounds!TypeOK, Rounds!AutopilotStops, Rounds!Returns, Rounds!Results
  <2> QED
    BY <1>9, <2>1, SamePlans DEF Rounds!AutopilotStops
<1>10. ASSUME NEW w \in Rounds!Tasks, Rounds!AppliesWorker(w) PROVE RoundsInv'
  BY <1>10, AppliesHold
<1>11. ASSUME NEW w \in Rounds!Tasks, Rounds!AppliesHalf(w) PROVE RoundsInv'
  <2>1. /\ turn # <<>> /\ turn' = Tail(turn)
        /\ landed' = landed \cup {w} /\ unrecorded' = unrecorded \cup {w}
        /\ roundBlocked' = roundBlocked \cup {w}
        /\ UNCHANGED <<driver, config, memory, disk, changed, round, stage, ran, roundPaths, reported,
                       blocked, stopped, result>>
    BY <1>11 DEF Rounds!AppliesHalf, Rounds!Offered
  <2>2. turn' \in Seq(Rounds!Tasks)
    BY <1>0, <2>1 DEF Rounds!TypeOK
  <2>3. Rounds!TypeOK'
    BY <1>0, <2>1, <2>2 DEF Rounds!TypeOK
  <2> QED
    BY <2>1, <2>3 DEF RoundsInv, AppliedIn
<1>12. ASSUME NEW w \in Rounds!Tasks, Rounds!Blocks(w) PROVE RoundsInv'
  <2>1. /\ turn # <<>> /\ turn' = Tail(turn) /\ roundBlocked' = roundBlocked \cup {w}
        /\ UNCHANGED <<driver, config, memory, disk, changed, round, stage, ran, roundPaths, reported,
                       blocked, landed, unrecorded, stopped, result>>
    BY <1>12 DEF Rounds!Blocks, Rounds!Offered
  <2>2. turn' \in Seq(Rounds!Tasks)
    BY <1>0, <2>1 DEF Rounds!TypeOK
  <2>3. Rounds!TypeOK'
    BY <1>0, <2>1, <2>2 DEF Rounds!TypeOK
  <2> QED
    BY <2>1, <2>3, SamePlans
<1>13. CASE Rounds!CoordinatorEndsRound
  BY <1>13, CoordinatorHolds
<1>14. CASE Rounds!AutopilotEndsRound
  <2>1. /\ blocked' = blocked \cup roundBlocked /\ disk' \in {disk, memory}
        /\ stage' \in {"over", "closing", "round"} /\ result' \in {"blocked", result}
        /\ UNCHANGED <<driver, config, memory, changed, round, ran, turn, roundBlocked, roundPaths,
                       reported, landed, unrecorded, stopped>>
    BY <1>14 DEF Rounds!AutopilotEndsRound, Rounds!Returns
  <2>2. Rounds!TypeOK'
    BY <1>0, <2>1 DEF Rounds!TypeOK, Rounds!Results
  <2>3. AppliedIn(memory') = AppliedIn(memory) /\ AppliedIn(disk') = AppliedIn(memory)
    BY <2>1 DEF RoundsInv, AppliedIn
  <2> QED
    BY <2>1, <2>2, <2>3, AppliedStays
<1>15. CASE Rounds!Closes
  <2>1. /\ disk' = memory /\ stage' = "over" /\ result' \in {"blocked", "completed", "failed"}
        /\ UNCHANGED <<driver, config, memory, changed, round, ran, turn, roundBlocked, roundPaths,
                       reported, blocked, landed, unrecorded, stopped>>
    BY <1>15 DEF Rounds!Closes, Rounds!Returns
  <2>2. Rounds!TypeOK'
    BY <1>0, <2>1 DEF Rounds!TypeOK, Rounds!Results
  <2> QED
    BY <2>1, <2>2, AppliedStays DEF AppliedIn
<1>16. CASE Rounds!Aborts
  <2>1. stopped' \in BOOLEAN
    BY <1>16, Zenon DEF Rounds!Aborts
  <2>2. Rounds!TypeOK'
    BY <1>0, <1>16, <2>1 DEF Rounds!TypeOK, Rounds!Aborts
  <2> QED
    BY <1>16, <2>2, SamePlans DEF Rounds!Aborts
<1>17. CASE Rounds!Ended
  <2>1. UNCHANGED <<driver, config, memory, disk, changed, round, stage, ran, turn, roundBlocked,
                    roundPaths, reported, blocked, landed, unrecorded, stopped, result>>
    BY <1>17 DEF Rounds!Ended, Rounds!roundsVars
  <2>2. Rounds!TypeOK'
    BY <1>0, <2>1 DEF Rounds!TypeOK
  <2> QED
    BY <2>1, <2>2, SamePlans
<1> QED
  BY <1>1, <1>2, <1>3, <1>4, <1>5, <1>6, <1>7, <1>8, <1>9, <1>10, <1>11, <1>12, <1>13, <1>14, <1>15,
     <1>16, <1>17 DEF Rounds!Next, Rounds!DriverStep

\* A worker lands only in its turn of a round in which it ran, and it ran because
\* everything it needs was applied.
LEMMA DependenciesLand ==
  ASSUME RoundsInv, Rounds!Next, NEW w \in landed' \ landed
  PROVE  Needs[w] \subseteq landed
<1>1. PICK v \in Rounds!Tasks : Rounds!AppliesWorker(v) \/ Rounds!AppliesHalf(v)
  BY DEF Rounds!Next, Rounds!DriverStep, Rounds!LeavesTheLoop, Rounds!ReturnsAtOnce, Rounds!RunsWorkers,
         Rounds!PlannerFails, Rounds!PlannerIsDone, Rounds!PlannerPicks, Rounds!AutopilotPicks,
         Rounds!AutopilotStops, Rounds!Blocks, Rounds!CoordinatorEndsRound, Rounds!AutopilotEndsRound,
         Rounds!Closes, Rounds!Aborts, Rounds!Ended, Rounds!roundsVars
<1>2. w = v /\ w \in DOMAIN ran
  BY <1>1 DEF Rounds!AppliesWorker, Rounds!AppliesHalf
<1> QED
  BY <1>2 DEF RoundsInv

\* When a driver has returned, the workers it reports are those in the tree and
\* those "applied" in plan.json, for any number of rounds, whatever the planner
\* picks and adds and wherever a save fails (runCoordinator, runAutopilot).
THEOREM DriversAreSound == PartsSpec => []DriverSound
<1>1. PartsInit => RoundsInv
  BY RoundsStart DEF PartsInit
<1>2. RoundsInv /\ [PartsNext]_vars => RoundsInv'
  BY OneMoves, RoundsStep
<1>3. RoundsInv => DriverSound
  BY DEF DriverSound, Rounds!DriverSound, RoundsInv, Rounds!ReportIsTheTree, AppliedIn
<1> QED
  BY <1>1, <1>2, <1>3, PTL DEF PartsSpec

-----------------------------------------------------------------------------
(* Language servers.                                                        *)

\* A server that is starting, or that is started and runs.
Live(s) == server[s] \in {"launch", "handshake"} \/ (server[s] = "ready" /\ proc[s] = "up")

LspTyped ==
    /\ cache \in [Languages -> Tools!Servers \cup {0}]
    /\ server \in [Tools!Servers -> {"none", "launch", "handshake", "ready", "failed"}]
    /\ language \in [Tools!Servers -> Languages]
    /\ proc \in [Tools!Servers -> {"none", "up", "killed", "dead"}]
    /\ supervised \subseteq Tools!Servers /\ disposed \subseteq Tools!Servers
    /\ call \in [Calls -> [st : {"none", "wait", "ask", "ok", "unavailable"}, srv : Tools!Servers \cup {0}]]
    /\ closing \in {"no", "next", "stop", "done"}
    /\ queue \subseteq Tools!Servers /\ taken \subseteq Tools!Servers
    /\ launches \in 0 .. MaxServers

\* Who waits, waits for a server that starts; who asks, asks one that is started.
CallFits(c) ==
    /\ call[c].st = "wait" => call[c].srv # 0 /\ server[call[c].srv] \in {"launch", "handshake"}
    /\ call[c].st = "ask"  => call[c].srv # 0 /\ server[call[c].srv] = "ready"

\* The stage of a server and its process go together.
StageFits(s) ==
    /\ s > launches <=> server[s] = "none"
    /\ proc[s] = "up" => server[s] \in {"handshake", "ready"}
    /\ proc[s] = "killed" => server[s] = "failed" \/ closing # "no"
    /\ s \in supervised => server[s] = "ready"

\* The cache holds the servers of its languages that start or run, each of them
\* while the session is open; a session that closes has taken them.
CacheFits(l) == cache[l] # 0 => language[cache[l]] = l /\ server[cache[l]] \notin {"none", "failed"}
CacheHolds(s) == closing = "no" /\ Live(s) => cache[language[s]] = s
Taken ==
    closing # "no" => /\ \A l \in Languages : cache[l] = 0
                      /\ \A s \in taken : s \in queue \/ ~Live(s)
Stopping ==
    /\ closing = "stop" => \E s \in queue : server[s] = "ready" /\ \A t \in queue : s <= t
    /\ closing = "done" => queue = {}

LspInv ==
    /\ LspTyped
    /\ \A c \in Calls : CallFits(c)
    /\ \A s \in Tools!Servers : StageFits(s) /\ CacheHolds(s)
    /\ \A l \in Languages : CacheFits(l)
    /\ Taken /\ Stopping

\* A set of numbers has a least one.
LEMMA Least ==
  ASSUME NEW S \in SUBSET Nat, S # {}
  PROVE  \E i \in S : \A j \in S : i <= j
<1> DEFINE R == {ss \in Nat \X Nat : ss[1] < ss[2]}
<1>1. IsWellFoundedOn(R, Nat)
  BY NatLessThanWellFounded, Zenon DEF OpToRel
<1> HIDE DEF R
<1>2. PICK i \in S : \A j \in S : ~(<<j, i>> \in R)
  BY <1>1, WFMin
<1>3. \A j \in S : ~(j < i)
  BY <1>2 DEF R
<1> QED
  BY <1>3

LEMMA ServersAre == \A s \in Tools!Servers : s \in Nat /\ s # 0 /\ s \in 1 .. MaxServers
BY Counted DEF Tools!Servers

LEMMA LspIsSound == LspInv => Tools!LspSound
<1> SUFFICES ASSUME LspInv PROVE Tools!LspSound
  OBVIOUS
<1>1. Tools!None = 0
  BY DEF Tools!None
<1>2. \A s \in Tools!Servers : /\ Tools!Waiting(s) # {} => server[s] \in {"launch", "handshake"}
                               /\ Tools!Asked(s) # {} => server[s] = "ready"
  <2> SUFFICES ASSUME NEW s \in Tools!Servers
               PROVE  /\ Tools!Waiting(s) # {} => server[s] \in {"launch", "handshake"}
                      /\ Tools!Asked(s) # {} => server[s] = "ready"
    OBVIOUS
  <2>1. \A c \in Tools!Waiting(s) : c \in Calls /\ call[c].st = "wait" /\ call[c].srv = s
    BY DEF Tools!Waiting
  <2>2. \A c \in Tools!Asked(s) : c \in Calls /\ call[c].st = "ask" /\ call[c].srv = s
    BY DEF Tools!Asked
  <2> QED
    BY <2>1, <2>2 DEF LspInv, CallFits
<1>3. Tools!LspTypeOK
  BY <1>1, <1>2 DEF LspInv, LspTyped, CacheFits, Tools!LspTypeOK
<1>4. Tools!NoServerIsLost
  BY DEF LspInv, CacheHolds, Live, Tools!NoServerIsLost
<1>5. Tools!CloseIsThorough
  <2> SUFFICES ASSUME closing = "done", NEW s \in taken PROVE proc[s] # "up" /\ server[s] # "launch"
    BY DEF Tools!CloseIsThorough
  <2>1. s \in Tools!Servers /\ ~Live(s) /\ StageFits(s)
    BY DEF LspInv, LspTyped, Taken, Stopping
  <2> QED
    BY <2>1 DEF Live, StageFits
<1> QED
  BY <1>3, <1>4, <1>5 DEF Tools!LspSound

LEMMA LspStart == Tools!LspInit => LspInv
<1> SUFFICES ASSUME Tools!LspInit PROVE LspInv
  OBVIOUS
<1>1. LspTyped /\ Tools!None = 0
  BY Counted DEF Tools!LspInit, LspTyped, Tools!None
<1>2. \A c \in Calls : CallFits(c)
  BY DEF Tools!LspInit, CallFits
<1>3. \A s \in Tools!Servers : StageFits(s) /\ CacheHolds(s)
  BY ServersAre DEF Tools!LspInit, StageFits, CacheHolds, Live
<1>4. \A l \in Languages : CacheFits(l)
  BY <1>1 DEF Tools!LspInit, CacheFits
<1> QED
  BY <1>1, <1>2, <1>3, <1>4 DEF LspInv, Tools!LspInit, Taken, Stopping

\* A launch is cached for its language, which had no server that starts or runs.
LEMMA LaunchHolds ==
  ASSUME LspInv, NEW c \in Calls, Tools!CallsFirst(c)
  PROVE  LspInv'
<1> DEFINE n == launches + 1
<1>1. /\ closing = "no" /\ launches < MaxServers /\ cache[language[n]] = 0
      /\ launches' = n
      /\ server' = [server EXCEPT ![n] = "launch"]
      /\ cache' = [cache EXCEPT ![language[n]] = n]
      /\ call' = [d \in Calls |-> IF d = c THEN [st |-> "wait", srv |-> n] ELSE call[d]]
      /\ UNCHANGED <<language, proc, supervised, disposed, closing, queue, taken>>
  BY DEF Tools!CallsFirst, Tools!Launches, Tools!Become, Tools!None
<1>2. n \in Tools!Servers /\ n \in Nat /\ n # 0 /\ LspTyped /\ launches \in Nat
  BY <1>1, Counted DEF LspInv, LspTyped, Tools!Servers
<1>3. /\ server[n] = "none" /\ proc[n] # "up" /\ n \notin supervised
      /\ \A s \in Tools!Servers : Live(s) => language[s] # language[n]
  BY <1>1, <1>2, ServersAre DEF LspInv, StageFits, CacheHolds
<1> HIDE DEF n
<1>4. LspTyped'
  BY <1>1, <1>2 DEF LspTyped, Tools!Servers
<1>5. ASSUME NEW d \in Calls PROVE CallFits(d)'
  BY <1>1, <1>2, <1>3 DEF LspInv, LspTyped, CallFits
<1>6. ASSUME NEW s \in Tools!Servers PROVE StageFits(s)' /\ CacheHolds(s)'
  <2>1. s \in Nat /\ StageFits(s) /\ CacheHolds(s) /\ language[s] \in Languages
    BY <1>2, ServersAre DEF LspInv, LspTyped
  <2>2. StageFits(s)'
    <3>1. s > launches' <=> (s > launches /\ s # n)
      BY <1>1, <1>2, <2>1 DEF n
    <3> QED
      BY <1>1, <1>2, <1>3, <2>1, <3>1 DEF StageFits, LspTyped
  <2>3. CacheHolds(s)'
    <3>1. CASE s = n
      BY <1>1, <1>2, <2>1, <3>1 DEF CacheHolds, LspTyped
    <3>2. CASE s # n
      <4>1. Live(s)' => Live(s)
        BY <1>1, <1>2, <3>2 DEF Live, LspTyped
      <4> QED
        BY <1>1, <1>2, <1>3, <2>1, <4>1 DEF CacheHolds, LspTyped
    <3> QED
      BY <3>1, <3>2
  <2> QED
    BY <2>2, <2>3
<1>7. ASSUME NEW l \in Languages PROVE CacheFits(l)'
  BY <1>1, <1>2, <1>3 DEF LspInv, LspTyped, CacheFits
<1>8. Taken' /\ Stopping'
  BY <1>1 DEF Taken, Stopping
<1> QED
  BY <1>4, <1>5, <1>6, <1>7, <1>8 DEF LspInv

\* A start that fails evicts its own entry: while the session is open the language
\* of a server that starts has no other.
LEMMA NullHolds ==
  ASSUME LspInv, NEW s \in Tools!Servers, server[s] \in {"launch", "handshake"}, Tools!ResolvesNull(s),
         proc' \in [Tools!Servers -> {"none", "up", "killed", "dead"}], proc'[s] # "up",
         \A t \in Tools!Servers \ {s} : proc'[t] = proc[t],
         UNCHANGED <<language, supervised, disposed, closing, queue, launches, taken>>
  PROVE  LspInv'
<1>1. /\ server' = [server EXCEPT ![s] = "failed"]
      /\ cache' = [cache EXCEPT ![language[s]] = 0]
      /\ call' = [c \in Calls |-> IF c \in Tools!Waiting(s) THEN [st |-> "unavailable", srv |-> s] ELSE call[c]]
  BY DEF Tools!ResolvesNull, Tools!Become, Tools!Evicts, Tools!None
<1>2. LspTyped
  BY DEF LspInv
<1>3. LspTyped'
  BY <1>1, <1>2 DEF LspTyped
<1>4. ASSUME NEW c \in Calls PROVE CallFits(c)'
  <2>1. call[c].st = "wait" /\ call[c].srv = s => c \in Tools!Waiting(s)
    BY <1>2 DEF LspTyped, Tools!Waiting
  <2> QED
    BY <1>1, <1>2, <2>1 DEF LspInv, LspTyped, CallFits
<1>5. ASSUME NEW t \in Tools!Servers PROVE StageFits(t)' /\ CacheHolds(t)'
  <2>1. StageFits(t) /\ CacheHolds(t) /\ CacheHolds(s) /\ StageFits(s) /\ language[t] \in Languages
    BY <1>2 DEF LspInv, LspTyped
  <2>2. StageFits(t)'
    BY <1>1, <1>2, <2>1 DEF StageFits, LspTyped
  <2>3. Live(t)' => t # s /\ Live(t)
    BY <1>1, <1>2 DEF Live, LspTyped
  <2>4. CacheHolds(t)'
    BY <1>1, <1>2, <2>1, <2>3 DEF CacheHolds, Live, LspTyped
  <2> QED
    BY <2>2, <2>4
<1>6. ASSUME NEW l \in Languages PROVE CacheFits(l)'
  BY <1>1, <1>2 DEF LspInv, LspTyped, CacheFits
<1>7. Taken'
  <2>1. ASSUME NEW t \in taken PROVE Live(t)' => Live(t)
    BY <1>1, <1>2 DEF Live, LspTyped
  <2> QED
    BY <1>1, <1>2, <2>1 DEF LspInv, LspTyped, Taken
<1>8. Stopping'
  BY <1>1, <1>2 DEF LspInv, LspTyped, Stopping
<1> QED
  BY <1>3, <1>4, <1>5, <1>6, <1>7, <1>8 DEF LspInv

\* A step of a server that stays in the cache, or gives up no place there.
LEMMA SameCache ==
  ASSUME LspInv, LspTyped', \A c \in Calls : CallFits(c)', \A s \in Tools!Servers : StageFits(s)',
         \A s \in Tools!Servers : Live(s)' => Live(s),
         \A s \in Tools!Servers : server[s] = "ready" => server'[s] = "ready",
         \A s \in Tools!Servers : server'[s] \in {"none", "failed"} => server[s] = server'[s],
         UNCHANGED <<cache, language, closing, queue, taken>>
  PROVE  LspInv'
<1>1. LspTyped
  BY DEF LspInv
<1>2. ASSUME NEW s \in Tools!Servers PROVE CacheHolds(s)'
  BY DEF LspInv, CacheHolds
<1>3. ASSUME NEW l \in Languages PROVE CacheFits(l)'
  BY <1>1 DEF LspInv, LspTyped, CacheFits
<1>4. Taken'
  BY <1>1 DEF LspInv, LspTyped, Taken
<1>5. Stopping'
  BY <1>1 DEF LspInv, LspTyped, Stopping
<1> QED
  BY <1>2, <1>3, <1>4, <1>5 DEF LspInv

\* The processes when a server that runs is killed.
LEMMA KillIs ==
  ASSUME LspTyped, NEW s \in Tools!Servers, Tools!Kills(s)
  PROVE  /\ proc' \in [Tools!Servers -> {"none", "up", "killed", "dead"}] /\ proc'[s] # "up"
         /\ \A t \in Tools!Servers \ {s} : proc'[t] = proc[t]
         /\ proc'[s] \in {proc[s], "killed"}
BY DEF LspTyped, Tools!Kills

\* closeAll stops the first of its queue; what is left of the servers it took is
\* in the queue.
LEMMA StopHolds ==
  ASSUME LspInv, Tools!StopAnswered
  PROVE  LspInv'
<1> DEFINE s == Tools!Min(queue)
<1>1. /\ closing = "stop" /\ closing' = "next"
      /\ queue' = queue \ {s} /\ disposed' = disposed \cup {s}
      /\ call' = [c \in Calls |-> IF c \in Tools!Asked(s) THEN [st |-> "unavailable", srv |-> s] ELSE call[c]]
      /\ Tools!Kills(s)
      /\ UNCHANGED <<cache, server, language, supervised, launches, taken>>
  BY DEF Tools!StopAnswered, Tools!Become
<1>2. PICK q \in queue : server[q] = "ready" /\ \A t \in queue : q <= t
  BY <1>1 DEF LspInv, Stopping
<1>3. s = q
  <2>1. s \in queue /\ \A t \in queue : s <= t
    <3>1. s = CHOOSE x \in queue : \A y \in queue : x <= y
      BY Zenon DEF Tools!Min
    <3> HIDE DEF s
    <3> QED
      BY <1>2, <3>1
  <2>2. s \in Nat /\ q \in Nat /\ s <= q /\ q <= s
    BY <1>2, <2>1, ServersAre DEF LspInv, LspTyped
  <2> HIDE DEF s
  <2> QED
    BY <2>2
<1> HIDE DEF s
<1>4. LspTyped /\ s \in Tools!Servers /\ server[s] = "ready"
  BY <1>2, <1>3 DEF LspInv, LspTyped
<1>5. /\ proc' \in [Tools!Servers -> {"none", "up", "killed", "dead"}] /\ proc'[s] # "up"
      /\ \A t \in Tools!Servers \ {s} : proc'[t] = proc[t]
  BY <1>1, <1>4, KillIs
<1>6. LspTyped'
  BY <1>1, <1>4, <1>5 DEF LspTyped
<1>7. ASSUME NEW c \in Calls PROVE CallFits(c)'
  BY <1>1, <1>4 DEF LspInv, LspTyped, CallFits
<1>8. ASSUME NEW t \in Tools!Servers PROVE StageFits(t)' /\ CacheHolds(t)'
  BY <1>1, <1>4, <1>5 DEF LspInv, LspTyped, StageFits, CacheHolds
<1>9. ASSUME NEW l \in Languages PROVE CacheFits(l)'
  BY <1>1 DEF LspInv, CacheFits
<1>10. Taken'
  <2>1. ASSUME NEW t \in taken PROVE t \in queue' \/ ~Live(t)'
    <3>1. CASE t = s
      BY <1>4, <1>5, <1>1, <3>1 DEF Live
    <3>2. CASE t # s
      BY <1>1, <1>4, <1>5, <3>2 DEF LspInv, LspTyped, Taken, Live
    <3> QED
      BY <3>1, <3>2
  <2> QED
    BY <1>1, <2>1 DEF LspInv, Taken
<1>11. Stopping'
  BY <1>1 DEF Stopping
<1> QED
  BY <1>6, <1>7, <1>8, <1>9, <1>10, <1>11 DEF LspInv

LEMMA LspStep == LspInv /\ [Tools!LspNext]_lsp => LspInv'
<1> SUFFICES ASSUME LspInv, [Tools!LspNext]_lsp PROVE LspInv'
  OBVIOUS
<1>0. LspTyped /\ Tools!None = 0
  BY DEF LspInv, Tools!None
<1>1. CASE Tools!Idle \/ UNCHANGED lsp
  <2>1. UNCHANGED <<cache, server, language, proc, supervised, disposed, call, closing, queue, launches, taken>>
    BY <1>1 DEF Tools!Idle, Tools!lspVars, lsp
  <2>2. LspTyped' /\ Taken' /\ Stopping'
    BY <1>0, <2>1 DEF LspInv, LspTyped, Taken, Stopping, Live
  <2>3. (\A c \in Calls : CallFits(c)') /\ \A l \in Languages : CacheFits(l)'
    BY <2>1 DEF LspInv, CallFits, CacheFits
  <2>4. \A s \in Tools!Servers : StageFits(s)' /\ CacheHolds(s)'
    BY <2>1 DEF LspInv, StageFits, CacheHolds, Live
  <2> QED
    BY <2>2, <2>3, <2>4 DEF LspInv
<1>2. ASSUME NEW c \in Calls, Tools!CallsFirst(c) PROVE LspInv'
  BY <1>2, LaunchHolds
<1>3. ASSUME NEW c \in Calls, NEW l \in Languages, Tools!CallsCached(c, l) PROVE LspInv'
  <2>1. /\ closing = "no" /\ cache[l] # 0
        /\ call' = [d \in Calls |->
               IF d = c THEN [st |-> IF server[cache[l]] = "ready" THEN "ask" ELSE "wait", srv |-> cache[l]]
                        ELSE call[d]]
        /\ UNCHANGED <<cache, server, language, proc, supervised, disposed, closing, queue, launches, taken>>
    BY <1>0, <1>3 DEF Tools!CallsCached, Tools!Become
  <2>2. cache[l] \in Tools!Servers /\ server[cache[l]] \in {"launch", "handshake", "ready"}
    <3>1. cache[l] \in Tools!Servers /\ server[cache[l]] \notin {"none", "failed"}
      BY <1>0, <2>1 DEF LspInv, LspTyped, CacheFits
    <3> QED
      BY <1>0, <3>1 DEF LspTyped
  <2>3. LspTyped'
    BY <1>0, <2>1, <2>2 DEF LspTyped
  <2>4. ASSUME NEW d \in Calls PROVE CallFits(d)'
    BY <1>0, <2>1, <2>2 DEF LspInv, LspTyped, CallFits
  <2>5. ASSUME NEW s \in Tools!Servers PROVE StageFits(s)'
    BY <2>1 DEF LspInv, StageFits
  <2> QED
    BY <2>1, <2>3, <2>4, <2>5, SameCache DEF Live
<1>4. ASSUME NEW c \in Calls, Tools!Answers(c) PROVE LspInv'
  <2>1. /\ call' = [d \in Calls |-> IF d = c THEN [st |-> "ok", srv |-> call[c].srv] ELSE call[d]]
        /\ UNCHANGED <<cache, server, language, proc, supervised, disposed, closing, queue, launches, taken>>
    BY <1>4 DEF Tools!Answers, Tools!Become
  <2>2. call[c].srv \in Tools!Servers \cup {0}
    BY <1>0 DEF LspTyped
  <2>3. LspTyped'
    BY <1>0, <2>1, <2>2 DEF LspTyped
  <2>4. ASSUME NEW d \in Calls PROVE CallFits(d)'
    BY <1>0, <2>1 DEF LspInv, LspTyped, CallFits
  <2>5. ASSUME NEW s \in Tools!Servers PROVE StageFits(s)'
    BY <2>1 DEF LspInv, StageFits
  <2> QED
    BY <2>1, <2>3, <2>4, <2>5, SameCache DEF Live
<1>5. ASSUME NEW s \in Tools!Servers, Tools!Spawns(s) PROVE LspInv'
  <2>1. /\ server[s] = "launch" /\ server' = [server EXCEPT ![s] = "handshake"]
        /\ proc' = [proc EXCEPT ![s] = "up"]
        /\ UNCHANGED <<cache, language, supervised, disposed, call, closing, queue, launches, taken>>
    BY <1>5 DEF Tools!Spawns
  <2>2. LspTyped'
    BY <1>0, <2>1 DEF LspTyped
  <2>3. ASSUME NEW d \in Calls PROVE CallFits(d)'
    BY <1>0, <2>1 DEF LspInv, LspTyped, CallFits
  <2>4. ASSUME NEW t \in Tools!Servers PROVE StageFits(t)' /\ (Live(t)' => Live(t))
    BY <1>0, <2>1 DEF LspInv, LspTyped, StageFits, Live
  <2> QED
    BY <1>0, <2>1, <2>2, <2>3, <2>4, SameCache DEF LspTyped
<1>6. ASSUME NEW s \in Tools!Servers, Tools!SpawnFails(s) PROVE LspInv'
  <2>1. server[s] = "launch" /\ Tools!ResolvesNull(s)
        /\ UNCHANGED <<language, proc, supervised, disposed, closing, queue, launches, taken>>
    BY <1>6 DEF Tools!SpawnFails
  <2>2. proc[s] # "up"
    BY <2>1 DEF LspInv, StageFits
  <2> QED
    BY <1>0, <2>1, <2>2, NullHolds DEF LspTyped
<1>7. ASSUME NEW s \in Tools!Servers, Tools!HandshakeFails(s) PROVE LspInv'
  <2>1. server[s] = "handshake" /\ Tools!ResolvesNull(s) /\ Tools!Kills(s)
        /\ UNCHANGED <<language, supervised, disposed, closing, queue, launches, taken>>
    BY <1>7 DEF Tools!HandshakeFails
  <2> QED
    BY <1>0, <2>1, KillIs, NullHolds
<1>8. ASSUME NEW s \in Tools!Servers, Tools!HandshakeEnds(s) PROVE LspInv'
  <2>1. /\ server[s] = "handshake" /\ server' = [server EXCEPT ![s] = "ready"]
        /\ supervised' = supervised \cup {s}
        /\ call' = [c \in Calls |-> IF c \in Tools!Waiting(s) THEN [st |-> "ask", srv |-> s] ELSE call[c]]
        /\ UNCHANGED <<cache, language, proc, disposed, closing, queue, launches, taken>>
    BY <1>8 DEF Tools!HandshakeEnds, Tools!Become
  <2>2. LspTyped'
    BY <1>0, <2>1 DEF LspTyped
  <2>3. ASSUME NEW c \in Calls PROVE CallFits(c)'
    <3>1. call[c].st = "wait" /\ call[c].srv = s => c \in Tools!Waiting(s)
      BY <1>0 DEF LspTyped, Tools!Waiting
    <3>2. s # 0
      BY ServersAre
    <3> QED
      BY <1>0, <2>1, <3>1, <3>2 DEF LspInv, LspTyped, CallFits
  <2>4. ASSUME NEW t \in Tools!Servers PROVE StageFits(t)' /\ (Live(t)' => Live(t))
    BY <1>0, <2>1 DEF LspInv, LspTyped, StageFits, Live
  <2> QED
    BY <1>0, <2>1, <2>2, <2>3, <2>4, SameCache DEF LspTyped
<1>9. ASSUME NEW s \in Tools!Servers, Tools!Exits(s) PROVE LspInv'
  <2>1. /\ proc[s] \in {"up", "killed"} /\ proc' = [proc EXCEPT ![s] = "dead"]
        /\ cache' = IF s \in supervised THEN [cache EXCEPT ![language[s]] = 0] ELSE cache
        /\ UNCHANGED <<server, language, supervised, disposed, call, closing, queue, launches, taken>>
    BY <1>0, <1>9 DEF Tools!Exits, Tools!Evicts
  <2>2. LspTyped'
    BY <1>0, <2>1 DEF LspTyped
  <2>3. ASSUME NEW c \in Calls PROVE CallFits(c)'
    BY <2>1 DEF LspInv, CallFits
  <2>4. ASSUME NEW t \in Tools!Servers PROVE StageFits(t)' /\ (Live(t)' => Live(t))
    BY <1>0, <2>1 DEF LspInv, LspTyped, StageFits, Live
  <2>5. s \in supervised => ~Live(s)'
    BY <1>0, <2>1 DEF LspInv, LspTyped, StageFits, Live
  <2>6. s \in supervised /\ closing = "no" => Live(s)
    BY <2>1 DEF LspInv, StageFits, Live
  <2>7. ASSUME NEW t \in Tools!Servers PROVE CacheHolds(t)'
    <3>1. CASE s \in supervised
      BY <1>0, <2>1, <2>4, <2>5, <2>6, <3>1 DEF LspInv, LspTyped, CacheHolds
    <3>2. CASE s \notin supervised
      BY <2>1, <2>4, <3>2 DEF LspInv, CacheHolds
    <3> QED
      BY <3>1, <3>2
  <2>8. ASSUME NEW l \in Languages PROVE CacheFits(l)' /\ (cache[l] = 0 => cache'[l] = 0)
    BY <1>0, <2>1 DEF LspInv, LspTyped, CacheFits
  <2>9. Taken'
    BY <1>0, <2>1, <2>4, <2>8 DEF LspInv, LspTyped, Taken
  <2>10. Stopping'
    BY <2>1 DEF LspInv, Stopping
  <2> QED
    BY <2>2, <2>3, <2>4, <2>7, <2>8, <2>9, <2>10 DEF LspInv
<1>10. CASE Tools!CloseAll
  <2>1. /\ closing = "no" /\ closing' = "next"
        /\ queue' = {cache[l] : l \in Languages} \ {0}
        /\ cache' = [l \in Languages |-> 0] /\ taken' = 1 .. launches
        /\ UNCHANGED <<server, language, proc, supervised, disposed, call, launches>>
    BY <1>0, <1>10 DEF Tools!CloseAll
  <2>2. queue' \subseteq Tools!Servers /\ taken' \subseteq Tools!Servers
    BY <1>0, <2>1, Counted DEF LspTyped, Tools!Servers
  <2>3. LspTyped'
    BY <1>0, <2>1, <2>2 DEF LspTyped
  <2>4. ASSUME NEW c \in Calls PROVE CallFits(c)'
    BY <2>1 DEF LspInv, CallFits
  <2>5. ASSUME NEW s \in Tools!Servers PROVE StageFits(s)' /\ CacheHolds(s)'
    BY <2>1 DEF LspInv, StageFits, CacheHolds
  <2>6. ASSUME NEW s \in taken' PROVE s \in queue' \/ ~Live(s)'
    <3>1. s \in Tools!Servers /\ s # 0
      BY <2>2, ServersAre
    <3>2. Live(s)' <=> Live(s)
      BY <2>1 DEF Live
    <3>3. Live(s) => cache[language[s]] = s /\ language[s] \in Languages
      BY <1>0, <2>1, <3>1 DEF LspInv, LspTyped, CacheHolds
    <3> QED
      BY <2>1, <3>1, <3>2, <3>3
  <2>7. Taken' /\ Stopping' /\ \A l \in Languages : CacheFits(l)'
    BY <2>1, <2>6 DEF Taken, Stopping, CacheFits
  <2> QED
    BY <2>3, <2>4, <2>5, <2>7 DEF LspInv
<1>11. CASE Tools!StopNext
  <2> DEFINE q == Tools!Min(queue)
  <2>1. /\ closing = "next" /\ queue # {} /\ server[q] \in {"ready", "failed"}
        /\ \/ server[q] = "ready" /\ closing' = "stop" /\ queue' = queue
           \/ server[q] # "ready" /\ queue' = queue \ {q} /\ closing' = closing
        /\ UNCHANGED <<cache, server, language, proc, supervised, disposed, call, launches, taken>>
    BY <1>11 DEF Tools!StopNext
  <2>2. q \in queue /\ \A t \in queue : q <= t
    <3>1. q = CHOOSE x \in queue : \A y \in queue : x <= y
      BY Zenon DEF Tools!Min
    <3>2. \E x \in queue : \A y \in queue : x <= y
      <4>1. queue \subseteq Nat
        BY <1>0, ServersAre DEF LspTyped
      <4> QED
        BY <2>1, <4>1, Least
    <3> HIDE DEF q
    <3> QED
      BY <3>1, <3>2
  <2> HIDE DEF q
  <2>3. LspTyped'
    BY <1>0, <2>1 DEF LspTyped
  <2>4. ASSUME NEW c \in Calls PROVE CallFits(c)'
    BY <2>1 DEF LspInv, CallFits
  <2>5. ASSUME NEW s \in Tools!Servers PROVE StageFits(s)' /\ CacheHolds(s)'
    BY <2>1 DEF LspInv, StageFits, CacheHolds
  <2>6. ASSUME NEW l \in Languages PROVE CacheFits(l)'
    BY <2>1 DEF LspInv, CacheFits
  <2>7. Taken'
    <3>1. q \in Tools!Servers /\ (server[q] # "ready" => ~Live(q)) /\ \A s \in taken : Live(s)' <=> Live(s)
      BY <1>0, <2>1, <2>2 DEF LspTyped, Live
    <3> QED
      BY <2>1, <3>1 DEF LspInv, Taken
  <2>8. Stopping'
    BY <2>1, <2>2 DEF Stopping
  <2> QED
    BY <2>3, <2>4, <2>5, <2>6, <2>7, <2>8 DEF LspInv
<1>12. CASE Tools!StopAnswered
  BY <1>12, StopHolds
<1>13. CASE Tools!CloseEnds
  <2>1. /\ closing = "next" /\ queue = {} /\ closing' = "done"
        /\ UNCHANGED <<cache, server, language, proc, supervised, disposed, call, queue, launches, taken>>
    BY <1>13 DEF Tools!CloseEnds
  <2>2. LspTyped'
    BY <1>0, <2>1 DEF LspTyped
  <2>3. (\A c \in Calls : CallFits(c)') /\ \A l \in Languages : CacheFits(l)'
    BY <2>1 DEF LspInv, CallFits, CacheFits
  <2>4. \A s \in Tools!Servers : StageFits(s)' /\ CacheHolds(s)'
    BY <2>1 DEF LspInv, StageFits, CacheHolds
  <2>5. Taken' /\ Stopping'
    BY <2>1 DEF LspInv, Taken, Stopping, Live
  <2> QED
    BY <2>2, <2>3, <2>4, <2>5 DEF LspInv
<1> QED
  BY <1>1, <1>2, <1>3, <1>4, <1>5, <1>6, <1>7, <1>8, <1>9, <1>10, <1>11, <1>12, <1>13 DEF Tools!LspNext

-----------------------------------------------------------------------------
(* The tool pool.                                                           *)

\* Nothing is withheld or exposed before the pool is assembled.
PoolInv == Tools!PoolSound /\ (connects = 0 => withheld = {} /\ exposed = {})

Earlier(s, listed) == {t \in listed : t < s /\ Sanitised[t] = Sanitised[s]}

\* The earlier servers of a name are fewer than the servers, and a later server
\* of the name has more of them.
LEMMA EarlierAre ==
  ASSUME NEW listed \in SUBSET McpServers, NEW s \in listed
  PROVE  /\ Cardinality(Earlier(s, listed)) \in 0 .. Cardinality(McpServers) - 1
         /\ \A t \in Earlier(s, listed) : Cardinality(Earlier(t, listed)) < Cardinality(Earlier(s, listed))
<1> DEFINE E == Earlier(s, listed)
<1>1. IsFiniteSet(McpServers) /\ McpServers \subseteq Nat
  BY ServicesAssumption
<1>2. /\ E \subseteq McpServers /\ s \in McpServers /\ s \notin E
      /\ \A t \in E : Earlier(t, listed) \subseteq E /\ t \notin Earlier(t, listed)
  <2>1. s \in Nat /\ s \in McpServers /\ E \subseteq McpServers /\ s \notin E
    <3>1. s \in McpServers /\ E \subseteq McpServers
      BY DEF Earlier
    <3>2. s \in Nat
      BY <1>1, <3>1
    <3>3. ~(s < s)
      BY <3>2
    <3> QED
      BY <3>1, <3>2, <3>3 DEF Earlier
  <2>2. ASSUME NEW t \in E, NEW u \in Earlier(t, listed) PROVE u \in E /\ u # t
    <3>1. t \in listed /\ t < s /\ Sanitised[t] = Sanitised[s]
      BY DEF Earlier
    <3>2. u \in listed /\ u < t /\ Sanitised[u] = Sanitised[t]
      BY DEF Earlier
    <3>3. t \in Nat /\ u \in Nat
      BY <1>1, <3>1, <3>2
    <3>4. u < s /\ u # t
      BY <2>1, <3>1, <3>2, <3>3
    <3> QED
      BY <3>1, <3>2, <3>4 DEF Earlier
  <2> QED
    BY <2>1, <2>2
<1> HIDE DEF E
<1>3. IsFiniteSet(E) /\ Cardinality(E) \in Nat /\ Cardinality(McpServers) \in Nat
  BY <1>1, <1>2, FS_Subset, FS_CardinalityType
<1>4. Cardinality(E) < Cardinality(McpServers)
  <2>1. E # McpServers /\ E \in SUBSET McpServers
    BY <1>2
  <2>2. Cardinality(E) <= Cardinality(McpServers) /\ Cardinality(E) # Cardinality(McpServers)
    BY <1>1, <2>1, FS_Subset
  <2> QED
    BY <1>3, <2>2
<1>5. ASSUME NEW t \in E PROVE Cardinality(Earlier(t, listed)) < Cardinality(E)
  <2>1. Earlier(t, listed) \subseteq E /\ Earlier(t, listed) # E
    BY <1>2
  <2> QED
    BY <1>3, <2>1, FS_Subset, FS_CardinalityType
<1> QED
  BY <1>3, <1>4, <1>5 DEF E

LEMMA ToolNameIs ==
  ASSUME NEW s, NEW listed
  PROVE  Tools!ToolName(s, listed) = <<Sanitised[s], 1 + Cardinality(Earlier(s, listed))>>
<1>1. \A S : Tools!Cardinality(S) = Cardinality(S)
  BY Zenon DEF Tools!Cardinality, Cardinality
<1> QED
  BY <1>1 DEF Tools!ToolName, Earlier

LEMMA NamesAre == Tools!Names = {Sanitised[s] : s \in McpServers} \X (1 .. Cardinality(McpServers))
<1>1. Tools!Cardinality(McpServers) = Cardinality(McpServers)
  BY Zenon DEF Tools!Cardinality, Cardinality
<1> QED
  BY <1>1 DEF Tools!Names

\* Listed servers get names of their own, among the names.
LEMMA NamesDiffer ==
  ASSUME NEW listed \in SUBSET McpServers
  PROVE  /\ \A s \in listed : Tools!ToolName(s, listed) \in Tools!Names
         /\ \A s, t \in listed : Tools!ToolName(s, listed) = Tools!ToolName(t, listed) => s = t
<1>1. IsFiniteSet(McpServers) /\ McpServers \subseteq Nat /\ Cardinality(McpServers) \in Nat
  BY ServicesAssumption, FS_CardinalityType
<1>2. ASSUME NEW s \in listed PROVE Tools!ToolName(s, listed) \in Tools!Names
  <2>1. Cardinality(Earlier(s, listed)) \in 0 .. Cardinality(McpServers) - 1
    BY EarlierAre
  <2>2. 1 + Cardinality(Earlier(s, listed)) \in 1 .. Cardinality(McpServers)
    BY <1>1, <2>1
  <2> QED
    BY <2>2, ToolNameIs, NamesAre
<1>3. ASSUME NEW s \in listed, NEW t \in listed, t < s,
             Tools!ToolName(s, listed) = Tools!ToolName(t, listed)
      PROVE  FALSE
  <2>1. /\ Sanitised[s] = Sanitised[t]
        /\ 1 + Cardinality(Earlier(s, listed)) = 1 + Cardinality(Earlier(t, listed))
    BY <1>3, ToolNameIs
  <2>2. t \in Earlier(s, listed)
    BY <1>3, <2>1 DEF Earlier
  <2>3. Cardinality(Earlier(t, listed)) < Cardinality(Earlier(s, listed))
    BY <2>2, EarlierAre
  <2>4. Cardinality(Earlier(t, listed)) \in Nat /\ Cardinality(Earlier(s, listed)) \in Nat
    <3>1. /\ Cardinality(Earlier(t, listed)) \in 0 .. Cardinality(McpServers) - 1
          /\ Cardinality(Earlier(s, listed)) \in 0 .. Cardinality(McpServers) - 1
      BY EarlierAre
    <3> QED
      BY <3>1
  <2> QED
    BY <2>1, <2>3, <2>4
<1>4. ASSUME NEW s \in listed, NEW t \in listed, Tools!ToolName(s, listed) = Tools!ToolName(t, listed)
      PROVE  s = t
  <2>1. s \in Nat /\ t \in Nat
    BY <1>1
  <2> QED
    BY <1>3, <1>4, <2>1
<1> QED
  BY <1>2, <1>4

\* What connectAll and the registration make of the servers that list their tool.
LEMMA ListingHolds ==
  ASSUME PoolInv, NEW up \in SUBSET McpServers, NEW listed \in SUBSET up,
         Tools!Connects(up), Tools!Registers(Tools!Wrappers(listed)), Tools!Reports(listed)
  PROVE  /\ connects' \in 1 .. MaxConnects /\ link' \in [McpServers -> 0 .. MaxConnects]
         /\ pool' \subseteq [name : Tools!Names, srv : McpServers, conn : 1 .. MaxConnects]
         /\ status' \in [McpServers -> SUBSET Tools!Names]
         /\ Tools!WrappersAreLive' /\ Tools!NoToolIsLost'
<1> DEFINE W(s) == [name |-> Tools!ToolName(s, listed), srv |-> s, conn |-> connects']
<1>1. connects \in 0 .. MaxConnects /\ connects' \in 1 .. MaxConnects /\ MaxConnects \in Nat
  BY Counted DEF PoolInv, Tools!PoolSound, Tools!PoolTypeOK, Tools!Connects
<1>2. link' = [s \in McpServers |-> IF s \in up THEN connects' ELSE 0] /\ listed \in SUBSET McpServers
  BY DEF Tools!Connects
<1>3. Tools!Wrappers(listed) = {W(s) : s \in listed}
  BY <1>2 DEF Tools!Wrappers
<1>4. /\ \A s \in listed : Tools!ToolName(s, listed) \in Tools!Names
      /\ \A s, t \in listed : Tools!ToolName(s, listed) = Tools!ToolName(t, listed) => s = t
  BY <1>2, NamesDiffer
<1>5. pool' = {W(s) : s \in listed}
  <2>1. McpServers \subseteq Nat
    BY ServicesAssumption
  <2>2. \A w, v \in {W(s) : s \in listed} : v.name = w.name => v.srv <= w.srv
    BY <1>2, <1>4, <2>1
  <2>3. pool' = {w \in {W(s) : s \in listed} : \A v \in {W(s) : s \in listed} : v.name = w.name => v.srv <= w.srv}
    BY <1>3 DEF Tools!Registers
  <2> QED
    BY <2>2, <2>3
<1>6. status' = [s \in McpServers |-> IF s \in listed THEN {Tools!ToolName(s, listed)} ELSE {}]
  BY DEF Tools!Reports
<1>7. link' \in [McpServers -> 0 .. MaxConnects]
  BY <1>1, <1>2
<1>8. pool' \subseteq [name : Tools!Names, srv : McpServers, conn : 1 .. MaxConnects]
  BY <1>1, <1>2, <1>4, <1>5
<1>9. status' \in [McpServers -> SUBSET Tools!Names]
  BY <1>2, <1>4, <1>6
<1>10. Tools!WrappersAreLive'
  BY <1>1, <1>2, <1>5 DEF Tools!WrappersAreLive
<1>11. Tools!NoToolIsLost'
  <2> SUFFICES ASSUME NEW s \in McpServers, NEW n \in status'[s]
               PROVE  \E w \in pool' : w.name = n /\ w.srv = s
    BY DEF Tools!NoToolIsLost
  <2>1. s \in listed /\ n = Tools!ToolName(s, listed)
    BY <1>6
  <2>2. W(s) \in pool' /\ W(s).name = n /\ W(s).srv = s
    BY <1>5, <2>1
  <2> QED
    BY <2>2
<1> QED
  BY <1>1, <1>7, <1>8, <1>9, <1>10, <1>11

LEMMA PoolStart == Tools!PoolInit => PoolInv
<1> SUFFICES ASSUME Tools!PoolInit PROVE PoolInv
  OBVIOUS
<1>1. deferMcp \in BOOLEAN
  BY Zenon DEF Tools!PoolInit
<1>2. Tools!PoolTypeOK
  BY <1>1, Counted DEF Tools!PoolInit, Tools!PoolTypeOK
<1>3. Tools!WrappersAreLive /\ Tools!NoToolIsLost
  BY DEF Tools!PoolInit, Tools!WrappersAreLive, Tools!NoToolIsLost
<1> QED
  BY <1>2, <1>3 DEF PoolInv, Tools!PoolSound, Tools!PoolInit

LEMMA PoolStep == PoolInv /\ [Tools!PoolNext]_tools => PoolInv'
<1> SUFFICES ASSUME PoolInv, [Tools!PoolNext]_tools PROVE PoolInv'
  OBVIOUS
<1>0. Tools!PoolTypeOK /\ Tools!WrappersAreLive /\ Tools!NoToolIsLost
  BY DEF PoolInv, Tools!PoolSound
<1>1. CASE UNCHANGED tools
  <2>1. UNCHANGED <<deferMcp, connects, link, pool, withheld, exposed, status>>
    BY <1>1 DEF tools
  <2> QED
    BY <1>0, <2>1 DEF PoolInv, Tools!PoolSound, Tools!PoolTypeOK, Tools!WrappersAreLive, Tools!NoToolIsLost
<1>2. ASSUME NEW up \in SUBSET McpServers, NEW listed \in SUBSET up, Tools!Assembles(up, listed)
      PROVE  PoolInv'
  <2>1. /\ connects = 0 /\ Tools!Connects(up) /\ Tools!Registers(Tools!Wrappers(listed)) /\ Tools!Reports(listed)
        /\ withheld' \in {Tools!NamesOf(pool'), {}} /\ UNCHANGED <<deferMcp, exposed>>
    BY <1>2 DEF Tools!Assembles
  <2>2. /\ connects' \in 1 .. MaxConnects /\ link' \in [McpServers -> 0 .. MaxConnects]
        /\ pool' \subseteq [name : Tools!Names, srv : McpServers, conn : 1 .. MaxConnects]
        /\ status' \in [McpServers -> SUBSET Tools!Names]
        /\ Tools!WrappersAreLive' /\ Tools!NoToolIsLost'
    BY <2>1, ListingHolds
  <2>3. exposed' = {} /\ withheld' \subseteq Tools!Names
    BY <2>1, <2>2 DEF PoolInv, Tools!NamesOf
  <2>4. Tools!PoolTypeOK'
    BY <1>0, <2>1, <2>2, <2>3 DEF Tools!PoolTypeOK
  <2> QED
    BY <2>2, <2>3, <2>4 DEF PoolInv, Tools!PoolSound
<1>3. ASSUME NEW up \in SUBSET McpServers, NEW listed \in SUBSET up, Tools!Reload(up, listed)
      PROVE  PoolInv'
  <2>1. /\ Tools!Connects(up) /\ Tools!Registers(Tools!Wrappers(listed)) /\ Tools!Reports(listed)
        /\ UNCHANGED <<deferMcp, withheld, exposed>>
    BY <1>3 DEF Tools!Reload
  <2>2. /\ connects' \in 1 .. MaxConnects /\ link' \in [McpServers -> 0 .. MaxConnects]
        /\ pool' \subseteq [name : Tools!Names, srv : McpServers, conn : 1 .. MaxConnects]
        /\ status' \in [McpServers -> SUBSET Tools!Names]
        /\ Tools!WrappersAreLive' /\ Tools!NoToolIsLost'
    BY <2>1, ListingHolds
  <2>3. Tools!PoolTypeOK'
    BY <1>0, <2>1, <2>2 DEF Tools!PoolTypeOK
  <2> QED
    BY <2>2, <2>3 DEF PoolInv, Tools!PoolSound
<1>4. ASSUME NEW matched \in SUBSET withheld, Tools!ToolSearch(matched) PROVE PoolInv'
  <2>1. /\ matched # {} /\ exposed' = exposed \cup matched
        /\ UNCHANGED <<deferMcp, connects, link, pool, withheld, status>>
    BY <1>4 DEF Tools!ToolSearch
  <2>2. connects # 0
    BY <2>1, <1>4 DEF PoolInv
  <2> QED
    BY <1>0, <2>1, <2>2 DEF PoolInv, Tools!PoolSound, Tools!PoolTypeOK, Tools!WrappersAreLive, Tools!NoToolIsLost
<1>5. CASE UNCHANGED Tools!poolVars
  BY <1>1, <1>5 DEF Tools!poolVars, tools
<1> QED
  BY <1>1, <1>2, <1>3, <1>4, <1>5 DEF Tools!PoolNext

-----------------------------------------------------------------------------
(* The different results of a search.                                       *)

\* f deduplicates every prefix of raw up to n.
Dedups(raw, n, f) == f = [i \in 0 .. n |-> IF i = 0 THEN <<>> ELSE Web!Adds(f[i - 1], raw[i])]

LEMMA DedupStep ==
  ASSUME NEW raw, NEW n \in Nat, NEW f, Dedups(raw, n, f)
  PROVE  f[0] = <<>> /\ \A i \in 1 .. n : f[i] = Web!Adds(f[i - 1], raw[i])
<1>1. 0 \in 0 .. n /\ \A i \in 1 .. n : i \in 0 .. n /\ i # 0
  OBVIOUS
<1>2. \A i \in 0 .. n : f[i] = IF i = 0 THEN <<>> ELSE Web!Adds(f[i - 1], raw[i])
  BY Zenon DEF Dedups
<1> QED
  BY <1>1, <1>2, Zenon

\* One result more.
LEMMA DedupExtends ==
  ASSUME NEW raw, NEW n \in Nat, NEW f, Dedups(raw, n, f)
  PROVE  \E g : Dedups(raw, n + 1, g)
<1> DEFINE g == [i \in 0 .. n + 1 |-> IF i = n + 1 THEN Web!Adds(f[n], raw[n + 1]) ELSE f[i]]
           h == [i \in 0 .. n + 1 |-> IF i = 0 THEN <<>> ELSE Web!Adds(g[i - 1], raw[i])]
<1>1. \A i \in 0 .. n : g[i] = f[i]
  OBVIOUS
<1>2. g[n + 1] = Web!Adds(f[n], raw[n + 1])
  OBVIOUS
<1>3. ASSUME NEW i \in 0 .. n + 1 PROVE g[i] = h[i]
  <2>1. CASE i = 0
    <3>1. g[0] = f[0] /\ h[0] = <<>>
      BY <1>1, <2>1
    <3> QED
      BY <2>1, <3>1, DedupStep
  <2>2. CASE i \in 1 .. n
    <3>1. i - 1 \in 0 .. n /\ i \in 0 .. n /\ i # 0
      BY <2>2
    <3>2. h[i] = Web!Adds(g[i - 1], raw[i])
      BY <3>1
    <3> HIDE DEF g, h
    <3> QED
      BY <1>1, <2>2, <3>1, <3>2, DedupStep
  <2>3. CASE i = n + 1
    <3>1. i - 1 = n /\ n \in 0 .. n /\ i # 0
      BY <2>3
    <3>2. h[i] = Web!Adds(g[i - 1], raw[i])
      BY <2>3, <3>1
    <3> HIDE DEF g, h
    <3> QED
      BY <1>1, <1>2, <2>3, <3>1, <3>2
  <2> QED
    BY <2>1, <2>2, <2>3
<1>4. g = h
  <2>1. g = [i \in 0 .. n + 1 |-> g[i]] /\ h = [i \in 0 .. n + 1 |-> h[i]]
    OBVIOUS
  <2> HIDE DEF g, h
  <2> QED
    BY <1>3, <2>1
<1> QED
  BY <1>4 DEF Dedups

LEMMA DedupExists ==
  ASSUME NEW raw, NEW n \in Nat
  PROVE  \E f : Dedups(raw, n, f)
<1> DEFINE S == {k \in Nat : ~ \E f : Dedups(raw, k, f)}
<1> SUFFICES ASSUME S # {} PROVE FALSE
  OBVIOUS
<1>1. PICK k \in S : \A j \in S : k <= j
  BY Least
<1>2. k \in Nat /\ ~ \E f : Dedups(raw, k, f)
  OBVIOUS
<1>3. CASE k = 0
  <2> DEFINE f == [i \in 0 .. 0 |-> <<>>]
  <2>1. [i \in 0 .. 0 |-> IF i = 0 THEN <<>> ELSE Web!Adds(f[i - 1], raw[i])] = [i \in 0 .. 0 |-> <<>>]
    OBVIOUS
  <2>2. Dedups(raw, 0, f)
    BY <2>1 DEF Dedups
  <2> QED
    BY <1>2, <1>3, <2>2
<1>4. CASE k # 0
  <2>1. k - 1 \in Nat /\ ~(k <= k - 1) /\ (k - 1) + 1 = k
    BY <1>2, <1>4
  <2>2. k - 1 \notin S
    BY <1>1, <2>1
  <2>3. PICK f : Dedups(raw, k - 1, f)
    BY <2>1, <2>2
  <2>4. \E g : Dedups(raw, (k - 1) + 1, g)
    BY <2>1, <2>3, DedupExtends
  <2> QED
    BY <1>2, <2>1, <2>4
<1> QED
  BY <1>3, <1>4

LEMMA DistinctRuns ==
  ASSUME NEW raw, Len(raw) \in Nat
  PROVE  \E f : Dedups(raw, Len(raw), f) /\ Web!Distinct(raw) = f[Len(raw)]
<1> DEFINE E(f) == f = [i \in 0 .. Len(raw) |-> IF i = 0 THEN <<>> ELSE Web!Adds(f[i - 1], raw[i])]
           c == CHOOSE f : E(f)
<1>1. \E f : E(f)
  BY DedupExists DEF Dedups
<1>2. E(c)
  BY <1>1, Zenon
<1>3. Web!Distinct(raw) = c[Len(raw)]
  BY Zenon DEF Web!Distinct
<1>4. Dedups(raw, Len(raw), c)
  BY <1>2 DEF Dedups
<1> HIDE DEF c
<1> QED
  BY <1>3, <1>4

\* The positions at which a value comes first.
First(raw, i) == i \in DOMAIN raw /\ \A j \in 1 .. i - 1 : raw[j] # raw[i]

LEMMA FirstIs ==
  ASSUME NEW raw \in Seq(Nat), NEW i \in DOMAIN raw
  PROVE  \E p \in 1 .. i : First(raw, p) /\ raw[p] = raw[i]
<1> DEFINE S == {p \in 1 .. i : raw[p] = raw[i]}
<1>1. DOMAIN raw = 1 .. Len(raw) /\ Len(raw) \in Nat
  OBVIOUS
<1>2. S \in SUBSET Nat /\ i \in S
  BY <1>1
<1>3. PICK p \in S : \A q \in S : p <= q
  BY <1>2, Least
<1>4. p \in 1 .. i /\ raw[p] = raw[i]
  OBVIOUS
<1>5. ASSUME NEW j \in 1 .. p - 1 PROVE raw[j] # raw[p]
  <2>1. j \in 1 .. i /\ ~(p <= j)
    BY <1>1, <1>4
  <2> QED
    BY <1>3, <1>4, <2>1
<1> QED
  BY <1>1, <1>4, <1>5 DEF First

\* The sequence holds the values of raw up to i, each once, in the order in which
\* they come first.
DedupFits(raw, i, s) ==
    /\ s \in Seq(Nat) /\ {s[a] : a \in 1 .. Len(s)} = {raw[j] : j \in 1 .. i} \ {0}
    /\ \A b \in 1 .. Len(s) : \A a \in 1 .. b - 1 :
          \E p, q \in 1 .. i : First(raw, p) /\ First(raw, q) /\ p < q /\ s[a] = raw[p] /\ s[b] = raw[q]

LEMMA AddsFit ==
  ASSUME NEW raw \in Seq(Nat), NEW i \in DOMAIN raw, NEW s, DedupFits(raw, i - 1, s)
  PROVE  DedupFits(raw, i, Web!Adds(s, raw[i]))
<1> DEFINE t == Web!Adds(s, raw[i])
<1>1. /\ DOMAIN raw = 1 .. Len(raw) /\ Len(raw) \in Nat /\ i \in Nat /\ i >= 1
      /\ \A j \in 1 .. i : raw[j] \in Nat
  OBVIOUS
<1>2. s \in Seq(Nat) /\ DOMAIN s = 1 .. Len(s) /\ Len(s) \in Nat
  BY DEF DedupFits
<1>3. t = IF raw[i] = 0 \/ raw[i] \in {s[a] : a \in 1 .. Len(s)} THEN s ELSE Append(s, raw[i])
  BY <1>2 DEF Web!Adds, Web!Range
<1>4. {raw[j] : j \in 1 .. i} = {raw[j] : j \in 1 .. i - 1} \cup {raw[i]}
  <2>1. \A j \in 1 .. i : j \in 1 .. i - 1 \/ j = i
    BY <1>1
  <2>2. i \in 1 .. i /\ \A j \in 1 .. i - 1 : j \in 1 .. i
    BY <1>1
  <2> QED
    BY <2>1, <2>2
<1> HIDE DEF t
<1>5. CASE raw[i] = 0 \/ raw[i] \in {s[a] : a \in 1 .. Len(s)}
  <2>1. t = s
    BY <1>3, <1>5
  <2>2. {s[a] : a \in 1 .. Len(s)} = {raw[j] : j \in 1 .. i} \ {0}
    BY <1>4, <1>5 DEF DedupFits
  <2>3. ASSUME NEW b \in 1 .. Len(s), NEW a \in 1 .. b - 1
        PROVE  \E p, q \in 1 .. i : First(raw, p) /\ First(raw, q) /\ p < q /\ s[a] = raw[p] /\ s[b] = raw[q]
    <3>1. PICK p \in 1 .. i - 1, q \in 1 .. i - 1 :
            First(raw, p) /\ First(raw, q) /\ p < q /\ s[a] = raw[p] /\ s[b] = raw[q]
      BY DEF DedupFits
    <3>2. p \in 1 .. i /\ q \in 1 .. i
      BY <1>1
    <3> QED
      BY <3>1, <3>2
  <2>4. DedupFits(raw, i, s)
    BY <1>2, <2>2, <2>3 DEF DedupFits
  <2> QED
    BY <2>1, <2>4 DEF t
<1>6. CASE ~(raw[i] = 0 \/ raw[i] \in {s[a] : a \in 1 .. Len(s)})
  <2>1. t = Append(s, raw[i])
    BY <1>3, <1>6
  <2>2. /\ t \in Seq(Nat) /\ Len(t) = Len(s) + 1 /\ t[Len(t)] = raw[i]
        /\ \A a \in 1 .. Len(s) : t[a] = s[a]
    BY <1>1, <1>2, <2>1
  <2>3. {t[a] : a \in 1 .. Len(t)} = {s[a] : a \in 1 .. Len(s)} \cup {raw[i]}
    <3>1. \A a \in 1 .. Len(t) : a \in 1 .. Len(s) \/ a = Len(t)
      BY <1>2, <2>2
    <3>2. Len(t) \in 1 .. Len(t) /\ \A a \in 1 .. Len(s) : a \in 1 .. Len(t)
      BY <1>2, <2>2
    <3> QED
      BY <2>2, <3>1, <3>2
  <2>4. {t[a] : a \in 1 .. Len(t)} = {raw[j] : j \in 1 .. i} \ {0}
    BY <1>4, <1>6, <2>3 DEF DedupFits
  <2>5. First(raw, i)
    <3>1. ASSUME NEW j \in 1 .. i - 1 PROVE raw[j] # raw[i]
      <4>1. raw[j] \in {s[a] : a \in 1 .. Len(s)} \/ raw[j] = 0
        BY DEF DedupFits
      <4> QED
        BY <1>6, <4>1
    <3> QED
      BY <3>1 DEF First
  <2>6. ASSUME NEW b \in 1 .. Len(t), NEW a \in 1 .. b - 1
        PROVE  \E p, q \in 1 .. i : First(raw, p) /\ First(raw, q) /\ p < q /\ t[a] = raw[p] /\ t[b] = raw[q]
    <3>1. a \in 1 .. Len(s) /\ (b \in 1 .. Len(s) \/ b = Len(t))
      BY <1>2, <2>2, SMTT(20)
    <3>2. CASE b \in 1 .. Len(s)
      <4>1. PICK p \in 1 .. i - 1, q \in 1 .. i - 1 :
              First(raw, p) /\ First(raw, q) /\ p < q /\ s[a] = raw[p] /\ s[b] = raw[q]
        BY <3>2 DEF DedupFits
      <4>2. p \in 1 .. i /\ q \in 1 .. i
        BY <1>1
      <4> QED
        BY <2>2, <3>1, <3>2, <4>1, <4>2
    <3>3. CASE b = Len(t)
      <4>1. PICK j \in 1 .. i - 1 : s[a] = raw[j]
        BY <3>1 DEF DedupFits
      <4>2. j \in DOMAIN raw
        BY <1>1
      <4>3. PICK p \in 1 .. j : First(raw, p) /\ raw[p] = raw[j]
        BY <4>2, FirstIs
      <4>4. p \in 1 .. i /\ i \in 1 .. i /\ p < i
        BY <1>1
      <4> QED
        BY <2>2, <2>5, <3>1, <3>3, <4>1, <4>3, <4>4
    <3> QED
      BY <3>1, <3>2, <3>3
  <2> QED
    BY <2>2, <2>4, <2>6 DEF DedupFits, t
<1> QED
  BY <1>5, <1>6

LEMMA DistinctFits ==
  ASSUME NEW raw \in Seq(Nat)
  PROVE  DedupFits(raw, Len(raw), Web!Distinct(raw))
<1>1. DOMAIN raw = 1 .. Len(raw) /\ Len(raw) \in Nat
  OBVIOUS
<1>2. PICK f : Dedups(raw, Len(raw), f) /\ Web!Distinct(raw) = f[Len(raw)]
  BY <1>1, DistinctRuns
<1>3. f[0] = <<>> /\ \A i \in 1 .. Len(raw) : f[i] = Web!Adds(f[i - 1], raw[i])
  BY <1>1, <1>2, DedupStep
<1> DEFINE S == {i \in 0 .. Len(raw) : ~DedupFits(raw, i, f[i])}
<1>4. CASE S = {}
  <2>1. Len(raw) \in 0 .. Len(raw)
    BY <1>1
  <2> QED
    BY <1>2, <1>4, <2>1
<1>5. CASE S # {}
  <2>1. S \in SUBSET Nat
    BY <1>1
  <2>2. PICK i \in S : \A j \in S : i <= j
    BY <1>5, <2>1, Least
  <2>3. i \in 0 .. Len(raw) /\ ~DedupFits(raw, i, f[i])
    OBVIOUS
  <2>4. CASE i = 0
    <3>1. f[0] = <<>> /\ <<>> \in Seq(Nat) /\ Len(<<>>) = 0 /\ 1 .. 0 = {}
      BY <1>3
    <3>2. DedupFits(raw, 0, <<>>)
      BY <3>1 DEF DedupFits
    <3> QED
      BY <2>3, <2>4, <3>1, <3>2
  <2>5. CASE i # 0
    <3>1. i \in 1 .. Len(raw) /\ i - 1 \in 0 .. Len(raw) /\ ~(i <= i - 1)
      BY <1>1, <2>3, <2>5
    <3>2. DedupFits(raw, i - 1, f[i - 1])
      BY <2>2, <3>1
    <3>3. DedupFits(raw, i, Web!Adds(f[i - 1], raw[i]))
      BY <1>1, <3>1, <3>2, AddsFit
    <3> QED
      BY <1>3, <2>3, <3>1, <3>3
  <2> QED
    BY <2>4, <2>5
<1> QED
  BY <1>4, <1>5

\* A sequence without repetition is as long as the set of its elements.
LEMMA LengthIs ==
  ASSUME NEW s \in Seq(Nat), \A b \in 1 .. Len(s) : \A a \in 1 .. b - 1 : s[a] # s[b]
  PROVE  Cardinality({s[a] : a \in 1 .. Len(s)}) = Len(s)
<1> DEFINE S == {s[a] : a \in 1 .. Len(s)}
<1>1. Len(s) \in Nat /\ s \in [1 .. Len(s) -> S] /\ \A u \in S : \E a \in 1 .. Len(s) : s[a] = u
  OBVIOUS
<1>2. ASSUME NEW a \in 1 .. Len(s), NEW b \in 1 .. Len(s), s[a] = s[b] PROVE a = b
  <2>1. ~(a \in 1 .. b - 1) /\ ~(b \in 1 .. a - 1)
    BY <1>2
  <2> QED
    BY <1>1, <2>1
<1> HIDE DEF S
<1>3. s \in Bijection(1 .. Len(s), S)
  BY <1>1, <1>2 DEF Bijection, Injection, Surjection, IsInjective
<1>4. ExistsBijection(1 .. Len(s), S)
  BY <1>3 DEF ExistsBijection
<1> QED
  BY <1>1, <1>4, FS_CountingElements DEF S

\* A search is full, however many results the engine gives.
LEMMA SearchFits ==
  ASSUME shows.raw \in Seq(Nat), shows.found = Web!runWebSearch(shows.raw)
  PROVE  Web!SearchIsFull
<1> DEFINE raw == shows.raw
           D == Web!Distinct(raw)
           n == IF Len(D) < maxResults THEN Len(D) ELSE maxResults
           all == {raw[i] : i \in DOMAIN raw} \ {0}
           firsts == [u \in all |-> CHOOSE i \in DOMAIN raw : raw[i] = u /\ \A j \in 1 .. i - 1 : raw[j] # u]
<1>1. DOMAIN raw = 1 .. Len(raw) /\ Len(raw) \in Nat /\ maxResults \in Nat
  BY Counted
<1>2. DedupFits(raw, Len(raw), D)
  BY DistinctFits
<1>3. shows.found = SubSeq(D, 1, n)
  BY DEF Web!runWebSearch
<1> HIDE DEF D
<1>4. D \in Seq(Nat) /\ {D[a] : a \in 1 .. Len(D)} = all /\ Len(D) \in Nat
  <2>1. D \in Seq(Nat) /\ {D[a] : a \in 1 .. Len(D)} = {raw[j] : j \in 1 .. Len(raw)} \ {0}
    BY <1>2, Zenon DEF DedupFits
  <2>2. Len(D) \in Nat
    BY <2>1
  <2> QED
    BY <1>1, <2>1, <2>2, Zenon
<1>5. \A p \in 1 .. Len(raw) : First(raw, p) /\ raw[p] \in all => firsts[raw[p]] = p
  <2> SUFFICES ASSUME NEW p \in 1 .. Len(raw), First(raw, p), raw[p] \in all PROVE firsts[raw[p]] = p
    OBVIOUS
  <2> DEFINE Q(i) == raw[i] = raw[p] /\ \A j \in 1 .. i - 1 : raw[j] # raw[p]
             c == CHOOSE i \in DOMAIN raw : Q(i)
  <2>1. p \in DOMAIN raw /\ Q(p)
    BY <1>1 DEF First
  <2>2. ASSUME NEW i \in DOMAIN raw, Q(i) PROVE i = p
    <3>1. ~(i \in 1 .. p - 1) /\ ~(p \in 1 .. i - 1)
      BY <2>1, <2>2
    <3> QED
      BY <1>1, <3>1
  <2>3. c \in DOMAIN raw /\ Q(c)
    <3>1. \E i \in DOMAIN raw : Q(i)
      BY <2>1
    <3> QED
      BY <3>1, Zenon
  <2>4. firsts[raw[p]] = c
    OBVIOUS
  <2> HIDE DEF c, Q
  <2> QED
    BY <2>2, <2>3, <2>4
<1>6. ASSUME NEW b \in 1 .. Len(D), NEW a \in 1 .. b - 1
      PROVE  firsts[D[a]] < firsts[D[b]] /\ D[a] # D[b]
  <2>1. PICK p \in 1 .. Len(raw), q \in 1 .. Len(raw) :
          First(raw, p) /\ First(raw, q) /\ p < q /\ D[a] = raw[p] /\ D[b] = raw[q]
    BY <1>2 DEF DedupFits
  <2>2. D[a] \in all /\ D[b] \in all
    <3>1. a \in 1 .. Len(D)
      BY <1>4
    <3> QED
      BY <1>4, <3>1
  <2> HIDE DEF firsts, all
  <2>3. firsts[D[a]] = p /\ firsts[D[b]] = q
    BY <1>5, <2>1, <2>2
  <2> QED
    BY <2>1, <2>3
<1>7. Cardinality(all) = Len(D)
  <2>1. Cardinality({D[a] : a \in 1 .. Len(D)}) = Len(D)
    BY <1>4, <1>6, LengthIs
  <2> QED
    BY <1>4, <2>1
<1>8. Web!Cardinality(all) = Cardinality(all)
  BY Zenon DEF Web!Cardinality, Cardinality
<1>9. n \in Nat /\ n <= Len(D)
  BY <1>1, <1>4
<1>10. /\ Len(shows.found) = n /\ DOMAIN shows.found = 1 .. n
       /\ \A i \in 1 .. n : shows.found[i] = D[i]
  BY <1>3, <1>4, <1>9
<1>11. n = IF Web!Cardinality(all) < maxResults THEN Web!Cardinality(all) ELSE maxResults
  BY <1>7, <1>8
<1>12. ASSUME NEW i \in 1 .. n, NEW j \in 1 .. n, i < j PROVE firsts[shows.found[i]] < firsts[shows.found[j]]
  <2>1. j \in 1 .. Len(D) /\ i \in 1 .. j - 1
    BY <1>4, <1>9, <1>12
  <2> HIDE DEF firsts, n
  <2> QED
    BY <1>6, <1>10, <2>1
<1> HIDE DEF n
<1>13. Len(shows.found) = IF Web!Cardinality(all) < maxResults THEN Web!Cardinality(all) ELSE maxResults
  BY <1>10, <1>11
<1>14. \A i, j \in DOMAIN shows.found : i < j => firsts[shows.found[i]] < firsts[shows.found[j]]
  <2> HIDE DEF firsts
  <2> QED
    BY <1>10, <1>12
<1> QED
  BY <1>13, <1>14, Zenon DEF Web!SearchIsFull

-----------------------------------------------------------------------------
(* Fetches and the trace.                                                   *)

Traces == {t \in Seq(Nat) : Len(t) <= TraceCap}

WebTyped ==
    /\ phase \in [Fetchers -> {"idle", "check", "request", "body"}]
    /\ by \in [Fetchers -> {"command", "tool"}] /\ url \in [Fetchers -> Web!Hosts]
    /\ hops \in [Fetchers -> 0 .. maxRedirects] /\ read \in [Fetchers -> 0 .. maxBytes]
    /\ base \in [Fetchers -> Traces] /\ trace \in Traces /\ ops \in Nat
    /\ policy \in [allowed : {{}, {"site"}}, blocked : {{}, {"sub.site"}}]

\* In the plain REPL a command that fetches is alone, with the trace it took.
Alone ==
    ~inlined => \A f \in Fetchers : phase[f] # "idle" /\ by[f] = "command" =>
                    base[f] = trace /\ \A g \in Fetchers \ {f} : phase[g] = "idle"

\* What is found is what the pipeline makes of what the engine gave.
Searched == shows.raw \in Seq(Nat) /\ shows.found = Web!runWebSearch(shows.raw)

WebInv == WebTyped /\ Alone /\ Web!TypeOK /\ Web!NoneUnallowed /\ Web!ResultIsTrue /\ Searched

LEMMA WebIsSound == WebInv => Web!WebSound
BY SearchFits DEF WebInv, Searched, Web!WebSound

\* What one more record makes of a trace.
LEMMA AppendIs ==
  ASSUME NEW t \in Traces, NEW r \in Nat
  PROVE  LET n == Web!appendWebTrace(t, r)
         IN  /\ n \in Traces /\ n # <<>> /\ n[Len(n)] = r
             /\ \A i \in DOMAIN t : (\E j \in DOMAIN n : n[j] = t[i]) \/ (i = 1 /\ Len(t) = TraceCap)
<1> DEFINE next == Append(t, r)
           n == Web!appendWebTrace(t, r)
<1>1. /\ t \in Seq(Nat) /\ Len(t) \in Nat /\ Len(t) <= TraceCap /\ DOMAIN t = 1 .. Len(t)
      /\ TraceCap \in Nat /\ TraceCap # 0
  BY Counted DEF Traces
<1>2. /\ next \in Seq(Nat) /\ Len(next) = Len(t) + 1 /\ next[Len(next)] = r
      /\ \A i \in 1 .. Len(t) : next[i] = t[i]
  BY <1>1
<1>3. n = IF Len(next) > TraceCap THEN SubSeq(next, Len(next) - TraceCap + 1, Len(next)) ELSE next
  BY DEF Web!appendWebTrace
<1> HIDE DEF next, n
<1>4. CASE Len(next) > TraceCap
  <2>1. Len(t) = TraceCap /\ n = SubSeq(next, 2, Len(next))
    <3>1. Len(t) = TraceCap
      <4>1. Len(t) + 1 > TraceCap /\ Len(t) <= TraceCap
        BY <1>1, <1>2, <1>4, Zenon
      <4>2. Len(t) \in Nat /\ TraceCap \in Nat
        BY <1>1
      <4> QED
        BY <4>1, <4>2
    <3>2. Len(next) - TraceCap + 1 = 2
      BY <1>1, <1>2, <3>1
    <3> QED
      BY <1>3, <1>4, <3>1, <3>2
  <2>2. n \in Seq(Nat) /\ Len(n) = TraceCap /\ \A j \in 1 .. TraceCap : n[j] = next[j + 1]
    BY <1>1, <1>2, <2>1
  <2>3. n # <<>> /\ n[Len(n)] = r
    <3>1. TraceCap \in 1 .. TraceCap /\ TraceCap + 1 = Len(next)
      BY <1>1, <1>2, <2>1
    <3> QED
      BY <1>1, <1>2, <2>2, <3>1
  <2>4. ASSUME NEW i \in DOMAIN t, i # 1 PROVE \E j \in DOMAIN n : n[j] = t[i]
    <3>1. i - 1 \in 1 .. TraceCap /\ (i - 1) + 1 = i /\ i \in 1 .. Len(t) /\ DOMAIN n = 1 .. TraceCap
      BY <1>1, <2>1, <2>2, <2>4
    <3> QED
      BY <1>2, <2>2, <3>1
  <2> QED
    BY <2>1, <2>2, <2>3, <2>4 DEF Traces, n
<1>5. CASE ~(Len(next) > TraceCap)
  <2>1. n = next /\ n \in Traces /\ n # <<>> /\ n[Len(n)] = r /\ DOMAIN n = 1 .. Len(t) + 1
    BY <1>1, <1>2, <1>3, <1>5 DEF Traces
  <2>2. ASSUME NEW i \in DOMAIN t PROVE i \in DOMAIN n /\ n[i] = t[i]
    BY <1>1, <1>2, <2>1
  <2> QED
    BY <2>1, <2>2 DEF n
<1> QED
  BY <1>4, <1>5

\* What a step that records says of the trace.
Keeps ==
    ops' # ops /\ trace' # <<>> =>
        /\ Web!Latest(trace')
        /\ ~inlined => \A i \in DOMAIN trace :
              (\E j \in DOMAIN trace' : trace'[j] = trace[i]) \/ (i = 1 /\ Len(trace) = TraceCap)

LEMMA RecordsKeep ==
  ASSUME WebTyped, NEW who, NEW took \in Traces, Web!Records(who, took),
         ~inlined /\ who = "command" => took = trace
  PROVE  ops' \in Nat /\ trace' \in Traces /\ Keeps
<1> DEFINE t == IF who = "command" THEN took ELSE trace
<1>1. ops' = ops + 1 /\ trace' = Web!appendWebTrace(t, ops + 1)
  BY DEF Web!Records
<1>2. t \in Traces /\ ops \in Nat /\ ops + 1 \in Nat
  BY DEF WebTyped
<1>3. ~inlined => t = trace
  OBVIOUS
<1> HIDE DEF t
<1>4. /\ trace' \in Traces /\ trace' # <<>> /\ trace'[Len(trace')] = ops'
      /\ \A i \in DOMAIN t : (\E j \in DOMAIN trace' : trace'[j] = t[i]) \/ (i = 1 /\ Len(t) = TraceCap)
  BY <1>1, <1>2, AppendIs
<1> QED
  BY <1>1, <1>2, <1>3, <1>4 DEF Keeps, Web!Latest

LEMMA EmptySearch == Web!runWebSearch(<<>>) = <<>>
<1>1. Web!Distinct(<<>>) = <<>>
  <2>1. <<>> \in Seq(Nat) /\ Len(<<>>) = 0 /\ 1 .. 0 = {}
    OBVIOUS
  <2>2. DedupFits(<<>>, 0, Web!Distinct(<<>>))
    BY <2>1, DistinctFits
  <2>3. Web!Distinct(<<>>) \in Seq(Nat) /\ {Web!Distinct(<<>>)[a] : a \in 1 .. Len(Web!Distinct(<<>>))} = {}
    BY <2>1, <2>2 DEF DedupFits
  <2> DEFINE D == Web!Distinct(<<>>)
  <2> HIDE DEF D
  <2>4. Len(D) \in Nat /\ D \in Seq(Nat) /\ ~ \E a \in 1 .. Len(D) : TRUE
    <3>1. D \in Seq(Nat) /\ {D[a] : a \in 1 .. Len(D)} = {}
      BY <2>3, Zenon DEF D
    <3> QED
      BY <3>1
  <2>5. Len(D) = 0
    <3>1. Len(D) # 0 => 1 \in 1 .. Len(D)
      BY <2>4
    <3> QED
      BY <2>4, <3>1
  <2>6. D = <<>>
    BY <2>4, <2>5
  <2> QED
    BY <2>6 DEF D
<1> QED
  BY <1>1, Counted DEF Web!runWebSearch

\* What a step shows, when it is no search.
LEMMA ShowsNoSearch ==
  ASSUME shows'.raw = <<>>, shows'.found = <<>>
  PROVE  Searched'
BY EmptySearch DEF Searched

LEMMA NothingIs ==
  /\ Web!Nothing.request = {} /\ Web!Nothing.raw = <<>> /\ Web!Nothing.found = <<>>
  /\ Web!Nothing.result.read = 0 /\ Web!Nothing.result.length = 0
  /\ ~Web!Nothing.result.truncated
<1>1. /\ Web!Nothing.request = {} /\ Web!Nothing.raw = <<>> /\ Web!Nothing.found = <<>>
      /\ Web!Nothing.result = Web!Ended("none")
  BY DEF Web!Nothing
<1>2. \A k : Web!Ended(k).read = 0 /\ Web!Ended(k).length = 0
  BY DEF Web!Ended
<1>3. ~Web!Ended("none").truncated
  BY Zenon DEF Web!Ended
<1> QED
  BY <1>1, <1>2, <1>3

\* A step that asks for nothing and returns nothing.
LEMMA QuietHolds ==
  ASSUME WebTyped', Alone', shows' = Web!Nothing
  PROVE  WebInv'
<1>1. shows'.raw = <<>> /\ shows'.found = <<>> /\ shows'.request = {}
  BY NothingIs
<1>2. shows'.result.read = 0 /\ shows'.result.length = 0 /\ ~shows'.result.truncated
  BY NothingIs
<1>3. Web!TypeOK'
  BY DEF WebTyped, Traces, Web!TypeOK
<1>4. Web!NoneUnallowed'
  BY <1>1 DEF Web!NoneUnallowed
<1>5. Web!ResultIsTrue'
  <2>1. \A f \in Fetchers : hops'[f] <= maxRedirects
    BY Counted DEF WebTyped
  <2>2. shows'.result.read <= maxBytes
    BY <1>2, Counted
  <2>3. ~(shows'.result.length > shows'.result.read)
    BY <1>2
  <2> QED
    BY <1>2, <2>1, <2>2, <2>3, Zenon DEF Web!ResultIsTrue
<1> QED
  BY <1>1, <1>3, <1>4, <1>5, ShowsNoSearch DEF WebInv

\* A fetch that is over frees its place, and its record is kept.
LEMMA ReturnsHold ==
  ASSUME WebInv, NEW f \in Fetchers, phase[f] # "idle", NEW ending, Web!Returns(f, ending),
         ending.read <= maxBytes, ending.truncated <=> ending.length > ending.read
  PROVE  WebInv' /\ Keeps
<1>0. WebTyped /\ Alone
  BY DEF WebInv
<1>1. /\ phase' = [phase EXCEPT ![f] = "idle"] /\ url' = [url EXCEPT ![f] = "other"]
      /\ by' = [by EXCEPT ![f] = "tool"] /\ hops' = [hops EXCEPT ![f] = 0]
      /\ read' = [read EXCEPT ![f] = 0] /\ base' = [base EXCEPT ![f] = <<>>]
      /\ shows' = [Web!Nothing EXCEPT !.result = ending]
      /\ Web!Records(by[f], base[f]) /\ UNCHANGED <<policy, inlined>>
  BY DEF Web!Returns
<1>2. base[f] \in Traces /\ (~inlined /\ by[f] = "command" => base[f] = trace)
  BY <1>0 DEF WebTyped, Alone
<1>3. ops' \in Nat /\ trace' \in Traces /\ Keeps
  BY <1>0, <1>1, <1>2, RecordsKeep
<1>4. WebTyped'
  <2>1. <<>> \in Traces
    BY Counted DEF Traces
  <2>2. /\ phase' \in [Fetchers -> {"idle", "check", "request", "body"}]
        /\ by' \in [Fetchers -> {"command", "tool"}] /\ url' \in [Fetchers -> Web!Hosts]
    BY <1>0, <1>1 DEF WebTyped, Web!Hosts
  <2>3. hops' \in [Fetchers -> 0 .. maxRedirects] /\ read' \in [Fetchers -> 0 .. maxBytes]
    BY <1>0, <1>1, Counted DEF WebTyped
  <2>4. base' \in [Fetchers -> Traces]
    BY <1>0, <1>1, <2>1 DEF WebTyped
  <2> QED
    BY <1>0, <1>1, <1>3, <2>2, <2>3, <2>4 DEF WebTyped
<1>5. Alone'
  <2> SUFFICES ASSUME ~inlined, NEW g \in Fetchers, phase'[g] # "idle", by'[g] = "command" PROVE FALSE
    BY <1>1 DEF Alone
  <2>1. g # f /\ phase[g] # "idle" /\ by[g] = "command"
    BY <1>0, <1>1 DEF WebTyped
  <2> QED
    BY <1>0, <2>1 DEF Alone
<1>6. shows'.raw = <<>> /\ shows'.found = <<>> /\ shows'.request = {} /\ shows'.result = ending
  BY <1>1 DEF Web!Nothing
<1>7. Web!TypeOK'
  BY <1>4 DEF WebTyped, Traces, Web!TypeOK
<1>8. Web!NoneUnallowed'
  BY <1>6 DEF Web!NoneUnallowed
<1>9. Web!ResultIsTrue'
  <2>1. \A g \in Fetchers : hops'[g] <= maxRedirects
    BY <1>4, Counted DEF WebTyped
  <2>2. shows'.result.truncated <=> shows'.result.length > shows'.result.read
    BY <1>6, Zenon
  <2> QED
    BY <1>6, <2>1, <2>2 DEF Web!ResultIsTrue
<1> QED
  BY <1>3, <1>4, <1>5, <1>6, <1>7, <1>8, <1>9, ShowsNoSearch DEF WebInv

\* An ending without a body.
LEMMA EndedIs ==
  ASSUME NEW kind
  PROVE  /\ Web!Ended(kind).read <= maxBytes
         /\ Web!Ended(kind).truncated <=> Web!Ended(kind).length > Web!Ended(kind).read
<1>1. Web!Ended(kind).read = 0 /\ Web!Ended(kind).length = 0
  BY DEF Web!Ended
<1>2. ~Web!Ended(kind).truncated
  BY Zenon DEF Web!Ended
<1>3. Web!Ended(kind).read <= maxBytes /\ ~(Web!Ended(kind).length > Web!Ended(kind).read)
  BY <1>1, Counted
<1> QED
  BY <1>2, <1>3

LEMMA WebStart == Web!Init => WebInv
<1> SUFFICES ASSUME Web!Init PROVE WebInv
  OBVIOUS
<1>1. <<>> \in Traces
  BY Counted DEF Traces
<1>2. /\ phase = [f \in Fetchers |-> "idle"] /\ by = [f \in Fetchers |-> "tool"]
      /\ url = [f \in Fetchers |-> "other"] /\ hops = [f \in Fetchers |-> 0]
      /\ read = [f \in Fetchers |-> 0] /\ base = [f \in Fetchers |-> <<>>]
      /\ shows = Web!Nothing /\ trace = <<>> /\ ops = 0
      /\ policy \in [allowed : {{}, {"site"}}, blocked : {{}, {"sub.site"}}]
  BY DEF Web!Init
<1>3. WebTyped
  BY <1>1, <1>2, Counted DEF WebTyped, Web!Hosts
<1>4. Alone
  BY <1>2 DEF Alone
<1>5. Web!TypeOK
  BY <1>3 DEF WebTyped, Traces, Web!TypeOK
<1>6. Web!NoneUnallowed
  BY <1>2, NothingIs DEF Web!NoneUnallowed
<1>7. Web!ResultIsTrue
  <2>1. \A f \in Fetchers : hops[f] <= maxRedirects
    BY <1>3, Counted DEF WebTyped
  <2>2. shows.result.read <= maxBytes /\ ~(shows.result.length > shows.result.read) /\ ~shows.result.truncated
    BY <1>2, NothingIs, Counted
  <2> QED
    BY <2>1, <2>2, Zenon DEF Web!ResultIsTrue
<1>8. Searched
  <2>1. shows.raw = <<>> /\ shows.found = <<>>
    BY <1>2, NothingIs
  <2> QED
    BY <2>1, EmptySearch DEF Searched
<1> QED
  BY <1>3, <1>4, <1>5, <1>6, <1>7, <1>8 DEF WebInv

\* A request goes only to a host that the policy admits.
LEMMA RequestHolds ==
  ASSUME WebInv, NEW f \in Fetchers, Web!Requests(f), Web!checkUrlAllowed(url[f])
  PROVE  WebInv' /\ UNCHANGED <<trace, ops>>
<1>0. WebTyped /\ Alone
  BY DEF WebInv
<1>1. /\ phase[f] = "check" /\ shows' = [Web!Nothing EXCEPT !.request = {url[f]}]
      /\ phase' = [phase EXCEPT ![f] = "request"] /\ url' = [url EXCEPT ![f] = "other"]
      /\ UNCHANGED <<policy, inlined, by, hops, read, base, trace, ops>>
  BY DEF Web!Requests
<1>2. WebTyped'
  BY <1>0, <1>1 DEF WebTyped, Web!Hosts
<1>3. Alone'
  BY <1>0, <1>1 DEF WebTyped, Alone
<1>4. /\ shows'.raw = <<>> /\ shows'.found = <<>> /\ shows'.request = {url[f]}
      /\ shows'.result = Web!Ended("none")
  BY <1>1 DEF Web!Nothing
<1>5. Web!TypeOK'
  BY <1>2 DEF WebTyped, Traces, Web!TypeOK
<1>6. Web!NoneUnallowed'
  <2>1. /\ url[f] # "refused"
        /\ \A d \in policy.blocked : url[f] # d
        /\ policy.allowed = {} \/ \E d \in policy.allowed : url[f] = d \/ <<url[f], d>> = <<"sub.site", "site">>
    BY DEF Web!checkUrlAllowed, Web!isSubdomainOf
  <2> QED
    BY <1>1, <1>4, <2>1 DEF Web!NoneUnallowed
<1>7. Web!ResultIsTrue'
  <2>1. \A g \in Fetchers : hops'[g] <= maxRedirects
    BY <1>2, Counted DEF WebTyped
  <2>2. /\ shows'.result.read <= maxBytes
        /\ shows'.result.truncated <=> shows'.result.length > shows'.result.read
    BY <1>4, EndedIs
  <2> QED
    BY <2>1, <2>2 DEF Web!ResultIsTrue
<1> QED
  BY <1>1, <1>2, <1>3, <1>4, <1>5, <1>6, <1>7, ShowsNoSearch DEF WebInv

\* A step of one fetch.
LEMMA FetchHolds ==
  ASSUME WebInv, NEW f \in Fetchers, Web!FetchStep(f)
  PROVE  WebInv' /\ Keeps
<1>0. WebTyped /\ Alone
  BY DEF WebInv
<1>1. ASSUME NEW who \in {"command", "tool"}, Web!Starts(f, who) PROVE WebInv' /\ Keeps
  <2>1. /\ phase[f] = "idle" /\ shows' = Web!Nothing
        /\ phase' = [phase EXCEPT ![f] = "check"] /\ by' = [by EXCEPT ![f] = who]
        /\ base' = [base EXCEPT ![f] = IF who = "command" THEN trace ELSE <<>>]
        /\ UNCHANGED <<policy, inlined, hops, read, trace, ops>>
    BY <1>1 DEF Web!Starts
  <2>2. url' \in [Fetchers -> Web!Hosts]
    <3>1. PICK host \in Web!Hosts : url' = [url EXCEPT ![f] = host]
      BY <1>1 DEF Web!Starts
    <3> QED
      BY <1>0, <3>1 DEF WebTyped
  <2>3. ~inlined => IF who = "command" THEN \A g \in Fetchers : phase[g] = "idle"
                    ELSE \A g \in Fetchers : phase[g] # "idle" => by[g] = "tool"
    BY <1>1 DEF Web!Starts, Web!Busy
  <2>4. WebTyped'
    <3>1. <<>> \in Traces
      BY Counted DEF Traces
    <3>2. base' \in [Fetchers -> Traces]
      BY <1>0, <2>1, <3>1 DEF WebTyped
    <3> QED
      BY <1>0, <2>1, <2>2, <3>2 DEF WebTyped
  <2>5. Alone'
    <3> SUFFICES ASSUME ~inlined, NEW g \in Fetchers, phase'[g] # "idle", by'[g] = "command"
                 PROVE  base'[g] = trace' /\ \A h \in Fetchers \ {g} : phase'[h] = "idle"
      BY <2>1 DEF Alone
    <3>1. who = "command"
      <4> SUFFICES ASSUME who = "tool" PROVE FALSE
        OBVIOUS
      <4>1. g # f
        BY <1>0, <2>1 DEF WebTyped
      <4> QED
        BY <1>0, <2>1, <2>3, <4>1 DEF WebTyped
    <3>2. g = f
      BY <1>0, <2>1, <2>3, <3>1 DEF WebTyped
    <3> QED
      BY <1>0, <2>1, <2>3, <3>1, <3>2 DEF WebTyped
  <2> QED
    BY <2>1, <2>4, <2>5, QuietHolds DEF Keeps
<1>2. CASE Web!Requests(f)
  <2>1. CASE Web!checkUrlAllowed(url[f])
    BY <1>2, <2>1, RequestHolds DEF Keeps
  <2>2. CASE ~Web!checkUrlAllowed(url[f])
    <3>1. phase[f] # "idle" /\ Web!Returns(f, Web!Ended("blocked"))
      BY <1>2, <2>2 DEF Web!Requests
    <3> QED
      BY <3>1, EndedIs, ReturnsHold
  <2> QED
    BY <2>1, <2>2
<1>3. CASE Web!Redirected(f)
  <2>1. CASE Web!TooMany(hops[f] + 1)
    <3>1. phase[f] # "idle" /\ Web!Returns(f, Web!Ended("redirects"))
      BY <1>3, <2>1 DEF Web!Redirected
    <3> QED
      BY <3>1, EndedIs, ReturnsHold
  <2>2. CASE ~Web!TooMany(hops[f] + 1)
    <3>1. PICK host \in Web!Hosts : url' = [url EXCEPT ![f] = host]
      BY <1>3, <2>2 DEF Web!Redirected
    <3>2. /\ phase[f] = "request" /\ shows' = Web!Nothing
          /\ hops' = [hops EXCEPT ![f] = hops[f] + 1] /\ phase' = [phase EXCEPT ![f] = "check"]
          /\ UNCHANGED <<policy, inlined, by, read, base, trace, ops>>
      BY <1>3, <2>2 DEF Web!Redirected
    <3>3. hops[f] + 1 \in 0 .. maxRedirects
      BY <1>0, <2>2, Counted DEF WebTyped, Web!TooMany
    <3>4. WebTyped'
      BY <1>0, <3>1, <3>2, <3>3 DEF WebTyped
    <3>5. Alone'
      BY <1>0, <3>2 DEF WebTyped, Alone
    <3> QED
      BY <3>2, <3>4, <3>5, QuietHolds DEF Keeps
  <2> QED
    BY <2>1, <2>2
<1>4. CASE Web!Fails(f)
  <2>1. phase[f] # "idle" /\ Web!Returns(f, Web!Ended("error"))
    BY <1>4 DEF Web!Fails
  <2> QED
    BY <2>1, EndedIs, ReturnsHold
<1>5. CASE Web!Responds(f)
  <2>1. /\ phase[f] = "request" /\ shows' = Web!Nothing /\ phase' = [phase EXCEPT ![f] = "body"]
        /\ UNCHANGED <<policy, inlined, by, url, hops, read, base, trace, ops>>
    BY <1>5 DEF Web!Responds
  <2>2. WebTyped' /\ Alone'
    BY <1>0, <2>1 DEF WebTyped, Alone
  <2> QED
    BY <2>1, <2>2, QuietHolds DEF Keeps
<1>6. CASE Web!BodyEnds(f)
  <2> DEFINE w == Web!Whole(f)
  <2>1. phase[f] # "idle" /\ Web!Returns(f, w)
    BY <1>6 DEF Web!BodyEnds
  <2>2. w.read = read[f] /\ w.length = read[f]
    BY DEF Web!Whole
  <2>3. ~w.truncated
    BY Zenon DEF Web!Whole
  <2> HIDE DEF w
  <2>4. w.read <= maxBytes /\ ~(w.length > w.read)
    BY <1>0, <2>2, Counted DEF WebTyped
  <2> QED
    BY <2>1, <2>3, <2>4, ReturnsHold
<1>7. ASSUME NEW size \in 1 .. maxBytes + 1, Web!Reads(f, size) PROVE WebInv' /\ Keeps
  <2>1. CASE Web!Fits(f, size)
    <3>1. /\ phase[f] = "body" /\ shows' = Web!Nothing /\ read' = [read EXCEPT ![f] = read[f] + size]
          /\ UNCHANGED <<policy, inlined, phase, by, url, hops, base, trace, ops>>
      BY <1>7, <2>1 DEF Web!Reads
    <3>2. read[f] + size \in 0 .. maxBytes
      BY <1>0, <2>1, Counted DEF WebTyped, Web!Fits
    <3>3. WebTyped' /\ Alone'
      BY <1>0, <3>1, <3>2 DEF WebTyped, Alone
    <3> QED
      BY <3>1, <3>3, QuietHolds DEF Keeps
  <2>2. CASE ~Web!Fits(f, size)
    <3> DEFINE w == [kind |-> "ok", read |-> maxBytes, length |-> read[f] + size, truncated |-> TRUE]
    <3>1. phase[f] # "idle" /\ Web!Returns(f, w)
      BY <1>7, <2>2 DEF Web!Reads
    <3>2. w.read = maxBytes /\ w.length = read[f] + size
      OBVIOUS
    <3>3. w.truncated
      BY Zenon
    <3> HIDE DEF w
    <3>4. w.read <= maxBytes /\ w.length > w.read
      BY <1>0, <2>2, <3>2, Counted DEF WebTyped, Web!Fits
    <3> QED
      BY <3>1, <3>3, <3>4, ReturnsHold
  <2> QED
    BY <2>1, <2>2
<1> QED
  BY <1>1, <1>2, <1>3, <1>4, <1>5, <1>6, <1>7 DEF Web!FetchStep

\* A search records itself; no command waits for a fetch meanwhile, unless inline.
LEMMA SearchHolds ==
  ASSUME WebInv, Web!Searches
  PROVE  WebInv' /\ Keeps
<1>0. WebTyped /\ Alone
  BY DEF WebInv
<1>1. Web!Records("tool", <<>>) /\ UNCHANGED <<policy, inlined, phase, by, url, hops, read, base>>
  BY DEF Web!Searches, Web!fetch
<1>2. ops' \in Nat /\ trace' \in Traces /\ Keeps
  <2>1. <<>> \in Traces
    BY Counted DEF Traces
  <2> QED
    BY <1>0, <1>1, <2>1, RecordsKeep
<1>3. WebTyped'
  BY <1>0, <1>1, <1>2 DEF WebTyped
<1>4. Alone'
  <2>1. ~inlined => \A g \in Fetchers : phase[g] = "idle" \/ by[g] = "tool"
    BY DEF Web!Searches, Web!mayCommand, Web!Busy
  <2> QED
    BY <1>1, <2>1 DEF Alone
<1>5. PICK raw \in Web!Results : shows' = [Web!Nothing EXCEPT !.raw = raw, !.found = Web!runWebSearch(raw)]
  BY DEF Web!Searches
<1>6. /\ shows'.raw = raw /\ shows'.found = Web!runWebSearch(raw) /\ shows'.request = {}
      /\ shows'.result = Web!Ended("none")
  BY <1>5 DEF Web!Nothing
<1>7. raw \in Seq(Nat)
  <2>1. PICK n \in 0 .. 2 : raw \in [1 .. n -> 0 .. 2]
    BY DEF Web!Results
  <2> QED
    BY <2>1
<1>8. Searched'
  BY <1>6, <1>7 DEF Searched
<1>9. Web!TypeOK' /\ Web!NoneUnallowed'
  BY <1>3, <1>6 DEF WebTyped, Traces, Web!TypeOK, Web!NoneUnallowed
<1>10. Web!ResultIsTrue'
  <2>1. \A g \in Fetchers : hops'[g] <= maxRedirects
    BY <1>3, Counted DEF WebTyped
  <2>2. /\ shows'.result.read <= maxBytes
        /\ shows'.result.truncated <=> shows'.result.length > shows'.result.read
    BY <1>6, EndedIs
  <2> QED
    BY <2>1, <2>2 DEF Web!ResultIsTrue
<1> QED
  BY <1>2, <1>3, <1>4, <1>8, <1>9, <1>10 DEF WebInv

LEMMA WebStep == WebInv /\ [Web!Next]_web => WebInv' /\ Keeps
<1> SUFFICES ASSUME WebInv, [Web!Next]_web PROVE WebInv' /\ Keeps
  OBVIOUS
<1>0. WebTyped /\ Alone
  BY DEF WebInv
<1>1. CASE UNCHANGED web
  <2>1. UNCHANGED <<policy, inlined, phase, by, url, hops, read, base, shows, trace, ops>>
    BY <1>1 DEF web
  <2>2. WebTyped' /\ Alone'
    BY <1>0, <2>1 DEF WebTyped, Alone
  <2>3. Web!TypeOK' /\ Web!NoneUnallowed' /\ Searched'
    BY <2>1 DEF WebInv, Web!TypeOK, Web!NoneUnallowed, Searched
  <2>4. Web!ResultIsTrue'
    <3>1. Web!ResultIsTrue
      BY DEF WebInv
    <3> QED
      BY <2>1, <3>1, Zenon DEF Web!ResultIsTrue
  <2> QED
    BY <2>1, <2>2, <2>3, <2>4 DEF WebInv, Keeps
<1>2. ASSUME NEW f \in Fetchers, Web!FetchStep(f) PROVE WebInv' /\ Keeps
  BY <1>2, FetchHolds
<1>3. CASE Web!Searches
  BY <1>3, SearchHolds
<1>4. CASE Web!Clears
  <2>1. /\ trace' = <<>> /\ ops' = ops + 1 /\ shows' = Web!Nothing
        /\ UNCHANGED <<policy, inlined, phase, by, url, hops, read, base>>
    BY <1>4 DEF Web!Clears, Web!fetch
  <2>2. ~inlined => \A f \in Fetchers : phase[f] = "idle"
    BY <1>4 DEF Web!Clears, Web!mayCommand, Web!Busy
  <2>3. <<>> \in Traces
    BY Counted DEF Traces
  <2>4. WebTyped'
    BY <1>0, <2>1, <2>3 DEF WebTyped
  <2>5. Alone'
    BY <2>1, <2>2 DEF Alone
  <2> QED
    BY <2>1, <2>4, <2>5, QuietHolds DEF Keeps
<1>5. CASE Web!Waits
  <2>1. shows' = Web!Nothing /\ UNCHANGED <<policy, inlined, phase, by, url, hops, read, base, trace, ops>>
    BY <1>5 DEF Web!Waits, Web!fetch
  <2>2. WebTyped' /\ Alone'
    BY <1>0, <2>1 DEF WebTyped, Alone
  <2> QED
    BY <2>1, <2>2, QuietHolds DEF Keeps
<1> QED
  BY <1>1, <1>2, <1>3, <1>4, <1>5 DEF Web!Next

-----------------------------------------------------------------------------

\* Of a language's servers the one that runs is in the cache and none is left when
\* a session closes; every tool a server lists is in the pool, and calls it; no
\* request leaves the web policy and no result lies about itself: for any number
\* of servers, calls, fetches and results (lsp/manager.ts, registry.ts, web/).
THEOREM ServersAreSound == PartsSpec => []ServersSound
<1> DEFINE Inv == LspInv /\ PoolInv /\ WebInv
<1>1. PartsInit => Inv
  BY LspStart, PoolStart, WebStart DEF PartsInit
<1>2. Inv /\ [PartsNext]_vars => Inv'
  BY OneMoves, LspStep, PoolStep, WebStep
<1>3. Inv => ServersSound
  BY LspIsSound, WebIsSound DEF ServersSound, PoolInv
<1> QED
  BY <1>1, <1>2, <1>3, PTL DEF PartsSpec

\* A worker's patch enters the tree after those of the workers it depends on
\* (runCoordinator, runAutopilot); a record of the web stays in the session's
\* trace until it is the oldest of a full one or the trace is cleared, where no
\* command runs beside anything else (webFetch, appendWebTrace).
THEOREM ServiceStepsHold == PartsSpec => ServiceSteps
<1>1. PartsInit => RoundsInv /\ WebInv
  BY RoundsStart, WebStart DEF PartsInit
<1>2. RoundsInv /\ WebInv /\ [PartsNext]_vars => (RoundsInv /\ WebInv)'
  BY OneMoves, RoundsStep, WebStep
<1>3. RoundsInv /\ [PartsNext]_vars
        => [\A w \in landed' \ landed : Needs[w] \subseteq landed]_(Rounds!roundsVars)
  <2> SUFFICES ASSUME RoundsInv, [PartsNext]_vars, ~UNCHANGED Rounds!roundsVars,
                      NEW w \in landed' \ landed
               PROVE  Needs[w] \subseteq landed
    OBVIOUS
  <2>1. Rounds!Next \/ UNCHANGED drivers
    BY OneMoves
  <2>2. ~UNCHANGED drivers
    BY Zenon DEF drivers, Rounds!roundsVars
  <2> QED
    BY <2>1, <2>2, DependenciesLand
<1>4. WebInv /\ [PartsNext]_vars
        => [ops' # ops /\ trace' # <<>> =>
              /\ Web!Latest(trace')
              /\ ~inlined => \A i \in DOMAIN trace :
                    (\E j \in DOMAIN trace' : trace'[j] = trace[i]) \/ (i = 1 /\ Len(trace) = TraceCap)]_(Web!vars)
  BY OneMoves, WebStep DEF Keeps
<1>5. PartsSpec => Rounds!DependenciesFirst
  BY <1>1, <1>2, <1>3, PTL DEF PartsSpec, Rounds!DependenciesFirst
<1>6. PartsSpec => Web!TraceKept
  BY <1>1, <1>2, <1>4, PTL DEF PartsSpec, Web!TraceKept
<1> QED
  BY <1>5, <1>6 DEF ServiceSteps
=============================================================================
