-------------------------- MODULE Checkpoints_proofs --------------------------
(***************************************************************************)
(* The safety properties of Checkpoints for every set of paths and         *)
(* contents, every number of checkpoints and every bound.                  *)
(*                                                                         *)
(* The inductive invariant adds to the properties what they rest on: one   *)
(* of the tool and the rollback is idle (OneAtWork); ids are handed out in *)
(* order (Counted); the window of the running session, and the one of the  *)
(* saved session, tell the truth about every path nobody disturbed         *)
(* (WindowFaithful, SavedFaithful); a recovery plan lists its whole        *)
(* checkpoint (PlansAreWhole); and a rollback knows what it has done       *)
(* (Rolling).                                                              *)
(***************************************************************************)
EXTENDS Checkpoints, TLAPS

Truths == [Paths -> [touched : BOOLEAN, before : FileContents, wrote : FileContents,
                     deleted : BOOLEAN, disturbed : BOOLEAN]]
Tools == [pc : {"idle", "capture", "write", "record"}, op : {"none"} \cup Ops,
          path : Paths \cup {Absent}, dest : Paths \cup {Absent}, content : FileContents]
Jobs == [pc : {"idle", "checking", "applying", "resuming", "restoring"}, id : Ids \cup {0},
         force : BOOLEAN, todo : SUBSET Paths, current : UNION {[S -> FileContents] : S \in SUBSET Paths},
         conflicts : SUBSET Paths, at : Paths \cup {Absent},
         touched : SUBSET Paths, raced : SUBSET Paths, failed : SUBSET Paths]

Typed ==
    /\ TypeOK
    /\ tool \in Tools /\ job \in Jobs /\ truth \in Truths
    /\ saved \in [pending : Windows, truth : Truths, file : [Paths -> FileContents]]
    /\ \A id \in DOMAIN manifest : id \in DOMAIN records /\ records[id] \in Truths
    /\ unvisited \in [Ids -> SUBSET Paths]
    /\ budget \in [tools : Nat, edits : Nat, ids : 0 .. MaxCheckpoints,
                   rollbacks : Nat, crashes : Nat, faults : Nat]

\* A tool has its paths, two of them only for a rename; a rollback waits for tools.
OneAtWork ==
    /\ tool.pc # "idle" =>
          /\ job.pc = "idle"
          /\ tool.path \in Paths /\ tool.dest \in Paths
          /\ tool.op = "rename" <=> tool.dest # tool.path
    /\ tool.pc = "record" => tool.op # "rename"

Counted ==
    /\ DOMAIN manifest \subseteq 1 .. budget.ids
    /\ \A id \in Ids : unvisited[id] # {} => id <= budget.ids

PlansAreWhole == \A id \in DOMAIN recovery : recovery[id] = DOMAIN manifest[id]

\* What window w holds of a path, where t tells what happened to it and f its content.
Known(t) == t.touched /\ ~t.disturbed /\ t.before \notin Secrets

Captured(w, t, f) ==
    \A p \in Paths :
        /\ p \in DOMAIN w /\ ~t[p].touched /\ ~t[p].disturbed => w[p].pre = f[p]
        /\ Known(t[p]) => p \in DOMAIN w /\ w[p].pre = t[p].before

Recorded(w, t, p) == Known(t[p]) /\ t[p].wrote # Absent => w[p].post = t[p].wrote

\* The running window: a write that is not recorded yet is still what the file holds,
\* and a path that was not captured holds a secret.
WindowFaithful ==
    /\ Captured(pending, truth, file)
    /\ \A p \in Paths : Recorded(pending, truth, p) \/ (tool.pc = "record" /\ tool.path = p)
    /\ LET p == tool.path IN
       /\ tool.pc = "record" /\ ~truth[p].disturbed /\ truth[p].wrote # Absent => file[p] = truth[p].wrote
       /\ tool.pc = "write" /\ tool.op # "rename" /\ p \notin DOMAIN pending
             /\ ~truth[p].touched /\ ~truth[p].disturbed => file[p] \in Secrets

SavedFaithful ==
    /\ Captured(saved.pending, saved.truth, saved.file)
    /\ \A p \in Paths : Recorded(saved.pending, saved.truth, p)

\* A rollback saw each file it has checked, noted the conflicts, and left a file it is
\* done with at its pre-image, unless the user came in between.
Rolling ==
    LET m == manifest[job.id] IN
    /\ job.pc = "checking" => DOMAIN job.current = DOMAIN m \ job.todo
    /\ job.pc = "applying" => DOMAIN job.current = DOMAIN m /\ (job.force \/ job.conflicts = {})
    /\ job.pc \in {"checking", "applying"} =>
          \A p \in DOMAIN job.current :
              /\ (job.pc = "applying" => p \in job.todo) /\ p \notin job.raced
                     => file[p] = job.current[p]
              /\ job.current[p] \notin {Absent, m[p].post} => p \in job.conflicts
    /\ job.pc \in {"applying", "resuming", "restoring"} =>
          \A p \in DOMAIN m \ job.todo :
              file[p] = m[p].pre \/ p \in job.conflicts \cup job.failed \cup job.raced
    /\ job.pc = "restoring" /\ job.at \notin job.raced =>
          file[job.at] \in {Absent, m[job.at].post, m[job.at].pre}

IInv ==
    /\ Typed /\ OneAtWork /\ Counted
    /\ EveryUndoIsBacked /\ HalfDoneIsPlanned /\ PlansAreWhole
    /\ WindowFaithful /\ SavedFaithful /\ CheckpointIsFaithful
    /\ Rolling

USE CheckpointAssumption
-----------------------------------------------------------------------------
(* Windows, and functions extended or shortened at an argument.             *)

\* A window is a function from some paths to entries.
LEMMA WindowIs ==
  ASSUME NEW w \in Windows
  PROVE  /\ DOMAIN w \subseteq Paths
         /\ w = [p \in DOMAIN w |-> w[p]]
         /\ \A p \in DOMAIN w : w[p] \in Entries /\ w[p].pre \in FileContents /\ w[p].post \in FileContents
<1>1. PICK S \in SUBSET Paths : w \in [S -> Entries]
  BY DEF Windows
<1> QED
  BY <1>1 DEF Entries

\* A function from some paths to entries is a window.
LEMMA IsWindow ==
  ASSUME NEW S \in SUBSET Paths, NEW w \in [S -> Entries]
  PROVE  w \in Windows
BY DEF Windows

LEMMA EmptyWindow == Empty \in Windows /\ DOMAIN Empty = {}
<1>1. Empty \in [{} -> Entries]
  BY DEF Empty
<1> QED
  BY <1>1, IsWindow DEF Empty

\* What a rollback saw is a function from some paths to contents, also with one more.
LEMMA CurrentIs ==
  ASSUME NEW j \in Jobs
  PROVE  DOMAIN j.current \subseteq Paths /\ \A p \in DOMAIN j.current : j.current[p] \in FileContents
<1>1. PICK S \in SUBSET Paths : j.current \in [S -> FileContents]
  BY DEF Jobs
<1> QED
  BY <1>1

LEMMA SeesOneMore ==
  ASSUME NEW j \in Jobs, NEW p \in Paths, NEW c \in FileContents
  PROVE  /\ With(j.current, p, c) \in UNION {[S -> FileContents] : S \in SUBSET Paths}
         /\ DOMAIN With(j.current, p, c) = DOMAIN j.current \cup {p}
         /\ With(j.current, p, c)[p] = c
         /\ \A q \in DOMAIN j.current \ {p} : With(j.current, p, c)[q] = j.current[q]
<1>1. With(j.current, p, c) \in [DOMAIN j.current \cup {p} -> FileContents]
  BY CurrentIs DEF With
<1> QED
  BY <1>1, CurrentIs DEF With

\* Nothing at work.
LEMMA NoneAtWork == NoTool \in Tools /\ NoJob \in Jobs
<1>1. Empty \in UNION {[S -> FileContents] : S \in SUBSET Paths}
  <2>1. Empty \in [{} -> FileContents]
    BY DEF Empty
  <2> QED
    BY <2>1
<1> QED
  BY <1>1 DEF Tools, NoTool, Jobs, NoJob, FileContents

\* Marking a path as disturbed.
LEMMA Disturbs ==
  ASSUME NEW t \in Truths, NEW p \in Paths, NEW b \in BOOLEAN
  PROVE  LET u == [t EXCEPT ![p].disturbed = b] IN
         /\ u \in Truths
         /\ \A q \in Paths :
               /\ u[q].touched = t[q].touched /\ u[q].before = t[q].before /\ u[q].wrote = t[q].wrote
               /\ q # p => u[q].disturbed = t[q].disturbed
         /\ u[p].disturbed = b
BY DEF Truths

-----------------------------------------------------------------------------
\* Nothing was captured, finalized or rolled back at the start.
LEMMA InitHolds == Init => IInv
<1> SUFFICES ASSUME Init PROVE IInv
  OBVIOUS
<1> USE DEF Init, history
<1>1. Typed
  <2>1. TypeOK
    BY EmptyWindow DEF TypeOK, FileContents, NoJob
  <2>2. tool \in Tools /\ job \in Jobs
    BY NoneAtWork
  <2>3. truth \in Truths /\ saved \in [pending : Windows, truth : Truths, file : [Paths -> FileContents]]
    BY EmptyWindow DEF Truths, Untouched, FileContents
  <2> QED
    BY <2>1, <2>2, <2>3, EmptyWindow DEF Typed
<1>2. OneAtWork /\ Counted /\ PlansAreWhole
  BY EmptyWindow DEF OneAtWork, Counted, PlansAreWhole, NoTool
<1>3. EveryUndoIsBacked /\ HalfDoneIsPlanned /\ CheckpointIsFaithful
  BY EmptyWindow DEF EveryUndoIsBacked, HalfDoneIsPlanned, CheckpointIsFaithful
<1>4. WindowFaithful /\ SavedFaithful
  BY EmptyWindow DEF WindowFaithful, SavedFaithful, Captured, Recorded, Known, Untouched, NoTool
<1>5. Rolling
  BY DEF Rolling, NoJob
<1> QED
  BY <1>1, <1>2, <1>3, <1>4, <1>5 DEF IInv

\* A new checkpoint has an id of its own; the others keep their files, or are pruned.
LEMMA FinalizeAdds ==
  ASSUME IInv, Finalize
  PROVE  LET id == budget.ids + 1 IN
         /\ id \in Ids /\ id \notin DOMAIN manifest
         /\ budget' = [budget EXCEPT !.ids = id] /\ budget'.ids = id
         /\ records' = With(records, id, truth)
         /\ DOMAIN manifest' \subseteq DOMAIN manifest \cup {id}
         /\ \A k \in DOMAIN manifest' :
               /\ k \in DOMAIN manifest => k # id /\ manifest'[k] = manifest[k]
               /\ k \notin DOMAIN manifest => k = id /\ manifest'[k] = [p \in Undoable |-> pending[p]]
         /\ recovery' = [k \in DOMAIN manifest' \cap DOMAIN recovery |-> recovery[k]]
<1> DEFINE id == budget.ids + 1
           all == With(manifest, id, [p \in Undoable |-> pending[p]])
<1>1. /\ id \in Ids /\ id \notin DOMAIN manifest
      /\ budget' = [budget EXCEPT !.ids = id] /\ budget'.ids = id
      /\ records' = With(records, id, truth)
  BY DEF Finalize, Counted, IInv, Typed, Ids, history
<1>2. /\ DOMAIN manifest' \subseteq DOMAIN all
      /\ \A k \in DOMAIN manifest' : manifest'[k] = all[k]
      /\ recovery' = [k \in DOMAIN manifest' \cap DOMAIN recovery |-> recovery[k]]
  BY DEF Finalize, Pruned
<1>3. /\ DOMAIN all = DOMAIN manifest \cup {id}
      /\ \A k \in DOMAIN all : all[k] = IF k = id THEN [p \in Undoable |-> pending[p]] ELSE manifest[k]
  BY DEF With
<1> QED
  BY <1>1, <1>2, <1>3

\* Types are kept, and the pre-images the blob store holds.
LEMMA TypedHolds == IInv /\ [Next]_vars => Typed'
<1> SUFFICES ASSUME IInv, [Next]_vars PROVE Typed'
  OBVIOUS
<1> USE DEF IInv, history
<1>1. ASSUME NEW op \in Ops, NEW p \in Paths, NEW d \in Paths, NEW c \in FileContents, StartTool(op, p, d, c)
      PROVE Typed'
  BY <1>1 DEF StartTool, Typed, TypeOK, Tools
<1>2. CASE Capture
  <2> DEFINE new == NewlyCaptured(ToCapture)
  <2>1. pending' \in [DOMAIN pending \cup new -> Entries]
    BY <1>2, WindowIs DEF Capture, Typed, TypeOK, NewlyCaptured, ToCapture, OneAtWork, Entries, FileContents
  <2>2. new \subseteq Paths
    BY <1>2 DEF Capture, NewlyCaptured, ToCapture, OneAtWork
  <2>3. pending' \in Windows
    BY <2>1, <2>2, WindowIs, IsWindow DEF Typed, TypeOK
  <2>4. blobs' \subseteq Contents
    BY <1>2, <2>2 DEF Capture, NewBlobs, Typed, TypeOK, FileContents
  <2>5. tool' \in Tools
    BY <1>2 DEF Capture, Typed, Tools
  <2> QED
    BY <1>2, <2>3, <2>4, <2>5 DEF Capture, Typed, TypeOK
<1>3. CASE Mutate
  <2>1. file' \in [Paths -> FileContents]
    <3>1. tool.path \in Paths /\ tool.dest \in Paths /\ tool.content \in FileContents
      BY <1>3 DEF Mutate, OneAtWork, Typed, Tools
    <3>2. file[tool.path] \in FileContents /\ Absent \in FileContents
      BY <3>1 DEF Typed, TypeOK, FileContents
    <3> QED
      BY <1>3, <3>1, <3>2 DEF Mutate, Typed, TypeOK
  <2>2. truth' \in Truths
    <3>1. ASSUME NEW p \in Paths
          PROVE  AgentChanged({tool.path, tool.dest})[p] \in
                   [touched : BOOLEAN, before : FileContents, wrote : FileContents,
                    deleted : BOOLEAN, disturbed : BOOLEAN]
      <4>1. truth[p] \in [touched : BOOLEAN, before : FileContents, wrote : FileContents,
                          deleted : BOOLEAN, disturbed : BOOLEAN]
        BY DEF Typed, Truths
      <4>2. /\ file[p] \in FileContents /\ tool.content \in FileContents /\ Absent \in FileContents
        BY DEF Typed, TypeOK, Tools, FileContents
      <4>3. /\ (tool.op = "delete_file") \in BOOLEAN
            /\ (truth[p].disturbed \/ (tool.op = "rename" /\ p \notin DOMAIN pending)) \in BOOLEAN
        OBVIOUS
      <4> QED
        BY <4>1, <4>2, <4>3 DEF AgentChanged
    <3>2. truth' = AgentChanged({tool.path, tool.dest})
      BY <1>3 DEF Mutate
    <3> QED
      BY <3>1, <3>2 DEF Truths, AgentChanged
  <2>3. tool' \in Tools
    BY <1>3, NoneAtWork DEF Mutate, Typed, Tools
  <2> QED
    BY <1>3, <2>1, <2>2, <2>3 DEF Mutate, Typed, TypeOK
<1>4. CASE MutateFails
  <2>1. budget' \in [tools : Nat, edits : Nat, ids : 0 .. MaxCheckpoints,
                     rollbacks : Nat, crashes : Nat, faults : Nat]
    BY <1>4 DEF MutateFails, Typed
  <2> QED
    BY <1>4, <2>1, NoneAtWork DEF MutateFails, Typed, TypeOK
<1>5. CASE RecordPostWrite
  <2>1. pending' \in Windows
    <3>1. pending' \in [DOMAIN pending -> Entries]
      BY <1>5, WindowIs DEF RecordPostWrite, Typed, TypeOK, Entries, OneAtWork
    <3> QED
      BY <3>1, WindowIs, IsWindow DEF Typed, TypeOK
  <2> QED
    BY <1>5, <2>1, NoneAtWork DEF RecordPostWrite, Typed, TypeOK
<1>6. CASE Finalize
  <2> DEFINE id == budget.ids + 1
             kept == DOMAIN manifest'
  <2>1. /\ id \in Ids /\ id \notin DOMAIN manifest
        /\ budget' = [budget EXCEPT !.ids = id]
        /\ records' = With(records, id, truth)
        /\ recovery' = [k \in kept \cap DOMAIN recovery |-> recovery[k]]
        /\ kept \subseteq DOMAIN manifest \cup {id}
    BY <1>6, FinalizeAdds
  <2>2. [p \in Undoable |-> pending[p]] \in Windows
    <3>1. [p \in Undoable |-> pending[p]] \in [Undoable -> Entries]
      BY WindowIs DEF Undoable, Typed, TypeOK
    <3> QED
      BY <3>1, WindowIs, IsWindow DEF Undoable, Typed, TypeOK
  <2>3. \A k \in kept : k \in DOMAIN manifest => manifest'[k] = manifest[k]
    BY <1>6, FinalizeAdds
  <2>4. \A k \in kept : k \notin DOMAIN manifest => k = id /\ manifest'[k] = [p \in Undoable |-> pending[p]]
    BY <1>6, FinalizeAdds
  <2>5. \A k \in kept : manifest'[k] \in Windows /\ \A p \in DOMAIN manifest'[k] : manifest'[k][p].post # Absent
    <3>1. \A p \in Undoable : [q \in Undoable |-> pending[q]][p].post # Absent
      BY DEF Undoable
    <3>2. ASSUME NEW k \in kept, k \notin DOMAIN manifest
          PROVE  manifest'[k] \in Windows /\ \A p \in DOMAIN manifest'[k] : manifest'[k][p].post # Absent
      BY <3>1, <3>2, <2>2, <2>4
    <3>3. ASSUME NEW k \in kept, k \in DOMAIN manifest
          PROVE  manifest'[k] \in Windows /\ \A p \in DOMAIN manifest'[k] : manifest'[k][p].post # Absent
      BY <3>3, <2>3 DEF Typed, TypeOK
    <3> QED
      BY <3>2, <3>3
  <2>6. \A k \in DOMAIN recovery' : k \in DOMAIN manifest /\ recovery'[k] \subseteq DOMAIN manifest'[k]
    BY <2>1, <2>3 DEF Typed, TypeOK
  <2>7. TypeOK'
    BY <1>6, <2>1, <2>5, <2>6, EmptyWindow DEF Finalize, Idle, Typed, TypeOK
  <2>8. \A k \in kept : k \in DOMAIN records' /\ records'[k] \in Truths
    BY <2>1 DEF With, Typed
  <2>9. truth' \in Truths
    BY <1>6 DEF Finalize, Truths, Untouched, FileContents
  <2>10. budget' \in [tools : Nat, edits : Nat, ids : 0 .. MaxCheckpoints,
                      rollbacks : Nat, crashes : Nat, faults : Nat]
    BY <1>6, <2>1 DEF Finalize, Typed
  <2> QED
    BY <1>6, <2>7, <2>8, <2>9, <2>10 DEF Finalize, Typed
<1>7. CASE PersistSession
  BY <1>7 DEF PersistSession, Typed, TypeOK
<1>8. ASSUME NEW id \in Ids, NEW force \in Flags, BeginRollback(id, force) PROVE Typed'
  <2>1. job' \in Jobs
    <3>1. DOMAIN manifest[id] \subseteq Paths /\ (id \in DOMAIN recovery => recovery[id] \subseteq Paths)
      BY <1>8, WindowIs DEF BeginRollback, Typed, TypeOK
    <3> QED
      BY <1>8, <3>1, NoneAtWork DEF BeginRollback, Jobs, NoJob
  <2>2. job'.id = id /\ job'.todo \subseteq DOMAIN manifest[id] /\ job'.pc # "restoring"
    BY <1>8 DEF BeginRollback, NoJob, Typed, TypeOK
  <2> QED
    BY <1>8, <2>1, <2>2 DEF BeginRollback, Typed, TypeOK
<1>9. CASE Refuse
  BY <1>9, NoneAtWork DEF Refuse, Typed, TypeOK, NoJob
<1>10. CASE WriteRecovery
  <2>1. job.id \in DOMAIN manifest /\ job.id \in Ids /\ DOMAIN manifest[job.id] \subseteq Paths
    BY <1>10, WindowIs DEF WriteRecovery, Checked, Typed, TypeOK
  <2>2. job' \in Jobs /\ job'.id = job.id /\ job'.todo = DOMAIN manifest[job.id] /\ job'.pc = "applying"
    BY <1>10, <2>1 DEF WriteRecovery, Typed, Jobs
  <2>3. unvisited' \in [Ids -> SUBSET Paths]
    BY <1>10, <2>1 DEF WriteRecovery, Typed
  <2>4. /\ DOMAIN recovery' \subseteq DOMAIN manifest
        /\ \A id \in DOMAIN recovery' : recovery'[id] \subseteq DOMAIN manifest[id]
    BY <1>10, <2>1 DEF WriteRecovery, With, RecoveryPlan, Typed, TypeOK
  <2> QED
    BY <1>10, <2>1, <2>2, <2>3, <2>4 DEF WriteRecovery, Typed, TypeOK
<1>12. CASE ClearRecovery
  <2>1. unvisited' \in [Ids -> SUBSET Paths]
    BY <1>12 DEF ClearRecovery, Typed
  <2> QED
    BY <1>12, <2>1, NoneAtWork DEF ClearRecovery, Without, NoJob, Typed, TypeOK
<1>13. ASSUME NEW p \in Paths, Check(p) PROVE Typed'
  <2>1. job' \in Jobs
    <3>1. file[p] \in FileContents
      BY DEF Typed, TypeOK
    <3> QED
      <4>1. job \in Jobs /\ With(job.current, p, file[p]) \in UNION {[S -> FileContents] : S \in SUBSET Paths}
        BY <3>1, SeesOneMore DEF Typed
      <4> QED
        BY <1>13, <4>1 DEF Check, Jobs
  <2>2. job'.id = job.id /\ job'.todo \subseteq job.todo /\ job'.pc = "checking"
    BY <1>13 DEF Check, Typed, Jobs
  <2> QED
    BY <1>13, <2>1, <2>2 DEF Check, Typed, TypeOK
<1>16. ASSUME NEW p \in Paths, Undo(p), job.pc \in {"applying", "resuming", "restoring"}, p \in job.todo
       PROVE  Typed'
  <2>1. job.id \in DOMAIN manifest /\ job.id \in Ids /\ p \in DOMAIN manifest[job.id]
    BY <1>16 DEF Typed, TypeOK
  <2>2. Entry(p).pre \in FileContents
    BY <2>1, WindowIs DEF Typed, TypeOK, Entry
  <2>3. /\ job' \in Jobs /\ job'.id = job.id /\ job'.todo \subseteq job.todo /\ job'.pc # "restoring"
    <3>1. CASE job' = [job EXCEPT !.todo = @ \ {p}, !.at = Absent, !.failed = @ \cup {p},
                                 !.pc = IF @ = "restoring" THEN "resuming" ELSE @]
      BY <3>1, <1>16 DEF Typed, Jobs
    <3>2. CASE Visited(p, TRUE)
      BY <1>16, <3>2 DEF Visited, Typed, Jobs
    <3> QED
      BY <1>16, <3>1, <3>2 DEF Undo
  <2>4. unvisited' \in [Ids -> SUBSET Paths]
    BY <1>16, <2>1 DEF Undo, Visited, Typed
  <2>5. truth' \in Truths /\ file' \in [Paths -> FileContents]
    <3>1. (truth[p].disturbed \/ ~truth[p].touched) \in BOOLEAN
      OBVIOUS
    <3>2. [truth EXCEPT ![p].disturbed = @ \/ ~truth[p].touched] \in Truths
      BY <3>1, Disturbs DEF Typed, Truths
    <3> QED
      BY <1>16, <2>2, <3>2 DEF Undo, Visited, Typed, TypeOK
  <2>6. budget' \in [tools : Nat, edits : Nat, ids : 0 .. MaxCheckpoints,
                     rollbacks : Nat, crashes : Nat, faults : Nat]
    <3>1. budget' = budget \/ (budget.faults > 0 /\ budget' = [budget EXCEPT !.faults = @ - 1])
      BY <1>16 DEF Undo
    <3> QED
      BY <3>1 DEF Typed
  <2>7. UNCHANGED <<tool, pending, blobs, manifest, recovery, saved, records>>
    BY <1>16 DEF Undo
  <2> QED
    BY <1>16, <2>1, <2>3, <2>4, <2>5, <2>6, <2>7 DEF Typed, TypeOK
<1>17. ASSUME NEW p \in Paths, ApplySkips(p) PROVE Typed'
  <2>1. job.id \in Ids
    BY <1>17 DEF ApplySkips, Typed, TypeOK
  <2>2. job' \in Jobs /\ job'.id = job.id /\ job'.todo \subseteq job.todo /\ job'.pc = job.pc
    BY <1>17 DEF ApplySkips, Visited, Typed, Jobs
  <2>3. unvisited' \in [Ids -> SUBSET Paths] /\ truth' \in Truths
    <3>1. (truth[p].disturbed \/ ~truth[p].touched) \in BOOLEAN
      OBVIOUS
    <3>2. [truth EXCEPT ![p].disturbed = @ \/ ~truth[p].touched] \in Truths
      BY <3>1, Disturbs DEF Typed, Truths
    <3> QED
      BY <1>17, <2>1, <3>2 DEF ApplySkips, Visited, Typed
  <2> QED
    BY <1>17, <2>2, <2>3 DEF ApplySkips, Typed, TypeOK
<1>18. ASSUME NEW p \in Paths, ResumeConflict(p) PROVE Typed'
  BY <1>18, ZenonT(30) DEF ResumeConflict, Typed, TypeOK, Jobs
<1>19. ASSUME NEW p \in Paths, ResumeCheck(p) PROVE Typed'
  BY <1>19, ZenonT(30) DEF ResumeCheck, Typed, TypeOK, Jobs
<1>20. ASSUME NEW p \in Paths, NEW c \in FileContents, UserEdit(p, c) PROVE Typed'
  <2>1. /\ job' \in Jobs /\ job'.id = job.id /\ job'.todo = job.todo /\ job'.pc = job.pc
        /\ job'.at = job.at
    BY <1>20 DEF UserEdit, Typed, Jobs
  <2>2. truth' \in Truths /\ file' \in [Paths -> FileContents]
    <3>1. (truth[p].disturbed \/ Delicate(p)) \in BOOLEAN
      OBVIOUS
    <3>2. [truth EXCEPT ![p].disturbed = @ \/ Delicate(p)] \in Truths
      BY <3>1, Disturbs DEF Typed, Truths
    <3> QED
      BY <1>20, <3>2 DEF UserEdit, Typed, TypeOK
  <2>3. budget' \in [tools : Nat, edits : Nat, ids : 0 .. MaxCheckpoints,
                     rollbacks : Nat, crashes : Nat, faults : Nat]
    BY <1>20 DEF UserEdit, Typed
  <2> QED
    BY <1>20, <2>1, <2>2, <2>3 DEF UserEdit, Typed, TypeOK
<1>21. ASSUME NEW resume \in BOOLEAN, CrashAndRestart(resume) PROVE Typed'
  <2>1. truth' \in Truths
    <3>1. ASSUME NEW p \in Paths
          PROVE  [saved.truth[p] EXCEPT !.disturbed = @ \/ file[p] # saved.file[p]] \in
                   [touched : BOOLEAN, before : FileContents, wrote : FileContents,
                    deleted : BOOLEAN, disturbed : BOOLEAN]
      <4>1. (saved.truth[p].disturbed \/ file[p] # saved.file[p]) \in BOOLEAN
        OBVIOUS
      <4>2. saved.truth \in Truths
        BY DEF Typed
      <4> QED
        BY <4>1, <4>2 DEF Truths
    <3> QED
      BY <1>21, <3>1 DEF CrashAndRestart, Truths, Untouched, FileContents
  <2>2. budget' \in [tools : Nat, edits : Nat, ids : 0 .. MaxCheckpoints,
                     rollbacks : Nat, crashes : Nat, faults : Nat]
    BY <1>21 DEF CrashAndRestart, Typed
  <2>3. pending' \in Windows
    BY <1>21, EmptyWindow DEF CrashAndRestart, Typed, TypeOK
  <2> QED
    BY <1>21, <2>1, <2>2, <2>3, NoneAtWork DEF CrashAndRestart, Typed, TypeOK, NoJob
<1>22. CASE UNCHANGED vars
  BY <1>22 DEF vars, Typed, TypeOK
<1> QED
  <2>1. ASSUME NEW p \in Paths, Apply(p) PROVE Typed'
    BY <2>1, <1>16 DEF Apply
  <2>2. ASSUME ResumeRestore PROVE Typed'
    BY <2>2, <1>16, WindowIs DEF ResumeRestore, Typed, TypeOK
  <2>3. ASSUME NEW p \in Paths, ResumeDelete(p) PROVE Typed'
    BY <2>3, <1>16 DEF ResumeDelete
  <2> QED
    BY <2>1, <2>2, <2>3, <1>1, <1>2, <1>3, <1>4, <1>5, <1>6, <1>7, <1>8, <1>9, <1>10, <1>12, <1>13, <1>17,
       <1>18, <1>19, <1>20, <1>21, <1>22
       DEF Next, AgentStep, RollbackStep, Waiting

\* What Undo, in its three callers, works on.
LEMMA UndoAt ==
  ASSUME IInv, \/ ResumeRestore \/ \E p \in Paths : Apply(p) \/ ResumeDelete(p)
  PROVE  \E p \in Paths :
            /\ Undo(p) /\ p \in job.todo /\ p \in DOMAIN manifest[job.id]
            /\ job.pc \in {"applying", "resuming", "restoring"}
            /\ job.id \in DOMAIN manifest /\ job.id \in Ids
            /\ \/ Apply(p)
               \/ job.pc = "restoring" /\ job.at = p
               \/ job.pc = "resuming"
<1>1. job.pc # "idle" => job.id \in DOMAIN manifest /\ job.id \in Ids /\ job.todo \subseteq DOMAIN manifest[job.id]
  BY DEF IInv, Typed, TypeOK
<1>2. job.pc # "idle" => DOMAIN manifest[job.id] \subseteq Paths
  BY <1>1, WindowIs DEF IInv, Typed, TypeOK
<1>3. CASE ResumeRestore
  BY <1>1, <1>2, <1>3 DEF ResumeRestore, IInv, Typed, TypeOK
<1> QED
  BY <1>1, <1>3 DEF Apply, ResumeDelete

\* One thing is at work, ids grow, pre-images stay in the store, and a half-done
\* rollback is planned as a whole.
LEMMA BooksHold ==
  IInv /\ [Next]_vars =>
     OneAtWork' /\ Counted' /\ EveryUndoIsBacked' /\ PlansAreWhole' /\ HalfDoneIsPlanned'
<1> DEFINE Books == OneAtWork /\ Counted /\ EveryUndoIsBacked /\ PlansAreWhole /\ HalfDoneIsPlanned
<1> SUFFICES ASSUME IInv, [Next]_vars PROVE Books'
  OBVIOUS
<1> USE DEF IInv, history, OneAtWork, Counted, EveryUndoIsBacked, PlansAreWhole, HalfDoneIsPlanned
<1>1. ASSUME NEW op \in Ops, NEW p \in Paths, NEW d \in Paths, NEW c \in FileContents, StartTool(op, p, d, c)
      PROVE Books'
  BY <1>1 DEF StartTool, Idle
<1>2. CASE Capture
  BY <1>2, WindowIs DEF Capture, Typed, TypeOK, Tools, NewBlobs
<1>3. CASE Mutate
  BY <1>3 DEF Mutate, Typed, Tools, NoTool
<1>4. CASE MutateFails
  BY <1>4 DEF MutateFails, Typed, NoTool
<1>5. CASE RecordPostWrite
  BY <1>5, WindowIs DEF RecordPostWrite, Typed, TypeOK, NoTool
<1>6. CASE Finalize
  <2> DEFINE id == budget.ids + 1
  <2>0. /\ UNCHANGED <<file, tool, blobs, job, saved, unvisited>>
        /\ pending' = Empty /\ tool.pc = "idle"
    BY <1>6 DEF Finalize, Idle
  <2>1. OneAtWork' /\ Counted'
    <3>1. budget.ids \in Nat /\ budget'.ids = budget.ids + 1 /\ DOMAIN manifest' \subseteq DOMAIN manifest \cup {id}
      BY <1>6, FinalizeAdds DEF Typed
    <3>2. DOMAIN manifest' \subseteq 1 .. budget'.ids
      BY <3>1
    <3>3. \A k \in Ids : unvisited[k] # {} => k <= budget'.ids
      BY <3>1 DEF Ids
    <3> QED
      BY <2>0, <3>2, <3>3
  <2>2. \A p \in Undoable : [q \in Undoable |-> pending[q]][p].pre \in blobs \cup {Absent}
    BY DEF Undoable
  <2>3. EveryUndoIsBacked'
    <3>1. ASSUME NEW k \in DOMAIN manifest'
          PROVE  \A p \in DOMAIN manifest'[k] : manifest'[k][p].pre \in blobs \cup {Absent}
      <4>1. CASE k \in DOMAIN manifest
        BY <4>1, <1>6, FinalizeAdds
      <4>2. CASE k \notin DOMAIN manifest
        BY <4>2, <2>2, <1>6, FinalizeAdds
      <4> QED
        BY <4>1, <4>2
    <3> QED
      BY <2>0, <3>1, EmptyWindow
  <2>4. unvisited[id] = {}
    BY <1>6, FinalizeAdds DEF Typed
  <2>5. PlansAreWhole' /\ HalfDoneIsPlanned'
    <3>1. /\ recovery' = [k \in DOMAIN manifest' \cap DOMAIN recovery |-> recovery[k]]
          /\ \A k \in DOMAIN manifest' :
                /\ k \in DOMAIN manifest => manifest'[k] = manifest[k]
                /\ k \notin DOMAIN manifest => k = id
      BY <1>6, FinalizeAdds
    <3>2. DOMAIN recovery \subseteq DOMAIN manifest
      BY DEF Typed, TypeOK
    <3>3. PlansAreWhole'
      BY <3>1, <3>2
    <3>4. ASSUME NEW k \in DOMAIN manifest', unvisited[k] # {}
          PROVE  k \in DOMAIN recovery' /\ unvisited[k] \subseteq recovery'[k]
      BY <3>1, <3>4, <2>4
    <3> QED
      BY <2>0, <3>3, <3>4
  <2> QED
    BY <2>1, <2>3, <2>5
<1>7. CASE PersistSession
  BY <1>7 DEF PersistSession
<1>8. ASSUME NEW id \in Ids, NEW force \in Flags, BeginRollback(id, force) PROVE Books'
  BY <1>8 DEF BeginRollback, Idle, Typed
<1>9. CASE Refuse
  BY <1>9 DEF Refuse, NoJob
<1>10. CASE WriteRecovery
  <2>1. job.id \in DOMAIN manifest /\ job.id \in Ids /\ job.id <= budget.ids
    BY <1>10 DEF WriteRecovery, Checked, Typed, TypeOK, Ids
  <2>2. recovery' = With(recovery, job.id, DOMAIN manifest[job.id])
    BY <1>10 DEF WriteRecovery, Refused, RecoveryPlan
  <2>3. PlansAreWhole' /\ HalfDoneIsPlanned'
    BY <1>10, <2>1, <2>2 DEF WriteRecovery, With, Typed
  <2>4. Counted' /\ OneAtWork' /\ EveryUndoIsBacked'
    BY <1>10, <2>1 DEF WriteRecovery, Checked, Typed, Jobs
  <2> QED
    BY <2>3, <2>4
<1>12. CASE ClearRecovery
  BY <1>12 DEF ClearRecovery, Without, NoJob, Typed, TypeOK
<1>13. ASSUME NEW p \in Paths, Check(p) PROVE Books'
  BY <1>13 DEF Check, Typed, Jobs
<1>16. ASSUME NEW p \in Paths, Undo(p), job.pc \in {"applying", "resuming", "restoring"}, job.id \in Ids
       PROVE  Books'
  <2>1. /\ UNCHANGED <<tool, pending, blobs, manifest, recovery, saved>>
        /\ unvisited' = [unvisited EXCEPT ![job.id] = @ \ {p}]
        /\ budget'.ids = budget.ids
    BY <1>16 DEF Undo, Visited, Typed
  <2>2. tool.pc = "idle"
    BY <1>16 DEF Typed, Tools
  <2> QED
    BY <1>16, <2>1, <2>2 DEF Typed
<1>17. ASSUME NEW p \in Paths, ApplySkips(p) PROVE Books'
  BY <1>17 DEF ApplySkips, Visited, Typed, TypeOK
<1>18. ASSUME NEW p \in Paths, ResumeConflict(p) PROVE Books'
  BY <1>18 DEF ResumeConflict, Typed, TypeOK
<1>19. ASSUME NEW p \in Paths, ResumeCheck(p) PROVE Books'
  BY <1>19 DEF ResumeCheck
<1>20. ASSUME NEW p \in Paths, NEW c \in FileContents, UserEdit(p, c) PROVE Books'
  BY <1>20 DEF UserEdit, Typed, Jobs
<1>21. ASSUME NEW resume \in BOOLEAN, CrashAndRestart(resume) PROVE Books'
  BY <1>21, EmptyWindow DEF CrashAndRestart, Typed, NoTool, NoJob
<1>22. CASE UNCHANGED vars
  BY <1>22 DEF vars
<1> QED
  BY <1>1, <1>2, <1>3, <1>4, <1>5, <1>6, <1>7, <1>8, <1>9, <1>10, <1>12, <1>13, <1>16, <1>17,
     <1>18, <1>19, <1>20, <1>21, <1>22, UndoAt
     DEF Next, AgentStep, RollbackStep, Waiting

\* The windows tell the truth about what nobody disturbed.
LEMMA WindowsHold == IInv /\ [Next]_vars => WindowFaithful' /\ SavedFaithful'
<1> DEFINE Windowed == WindowFaithful /\ SavedFaithful
<1> SUFFICES ASSUME IInv, [Next]_vars PROVE Windowed'
  OBVIOUS
<1> USE DEF IInv, history, WindowFaithful, SavedFaithful, Captured, Recorded, Known
<1>1. ASSUME NEW op \in Ops, NEW p \in Paths, NEW d \in Paths, NEW c \in FileContents, StartTool(op, p, d, c)
      PROVE Windowed'
  BY <1>1 DEF StartTool, Idle
<1>2. CASE Capture
  BY <1>2, WindowIs DEF Capture, Typed, TypeOK, Tools, NewlyCaptured, ToCapture, OneAtWork
<1>3. CASE Mutate
  <2> DEFINE S == {tool.path, tool.dest}
  <2>1. /\ tool.path \in Paths /\ tool.dest \in Paths
        /\ tool.op = "rename" <=> tool.dest # tool.path
        /\ truth \in Truths /\ file \in [Paths -> FileContents]
        /\ UNCHANGED <<pending, saved>>
    BY <1>3 DEF Mutate, OneAtWork, Typed, TypeOK
  <2>2. \A p \in Paths \ S : truth'[p] = truth[p] /\ file'[p] = file[p]
    BY <1>3, <2>1 DEF Mutate, AgentChanged
  <2>3. ASSUME NEW p \in S
        PROVE  /\ truth'[p].touched
               /\ truth'[p].before = IF truth[p].touched THEN truth[p].before ELSE file[p]
               /\ truth'[p].wrote = IF tool.op = "write" THEN tool.content ELSE Absent
               /\ truth'[p].disturbed <=>
                     truth[p].disturbed \/ (tool.op = "rename" /\ p \notin DOMAIN pending)
    <3>1. p \in Paths /\ truth'[p] = AgentChanged(S)[p]
      BY <1>3, <2>1 DEF Mutate
    <3>2. truth[p] \in [touched : BOOLEAN, before : FileContents, wrote : FileContents,
                        deleted : BOOLEAN, disturbed : BOOLEAN]
      BY <2>1, <3>1 DEF Truths
    <3> DEFINE b == truth[p].disturbed \/ (tool.op = "rename" /\ p \notin DOMAIN pending)
    <3>4. b \in BOOLEAN /\ (tool.op = "delete_file") \in BOOLEAN
      OBVIOUS
    <3>5. truth'[p] = [truth[p] EXCEPT
                !.touched = TRUE,
                !.before  = IF truth[p].touched THEN @ ELSE file[p],
                !.wrote   = IF tool.op = "write" THEN tool.content ELSE Absent,
                !.deleted = (tool.op = "delete_file"),
                !.disturbed = b]
      BY <3>1, <3>2 DEF AgentChanged
    <3> HIDE DEF b
    <3>6. truth'[p].disturbed = b /\ truth'[p].touched = TRUE
      BY <3>2, <3>4, <3>5
    <3>7. /\ truth'[p].before = IF truth[p].touched THEN truth[p].before ELSE file[p]
          /\ truth'[p].wrote = IF tool.op = "write" THEN tool.content ELSE Absent
      BY <3>2, <3>5
    <3>8. truth'[p].disturbed <=> b
      BY <3>6
    <3> QED
      BY <3>6, <3>7, <3>8 DEF b
  <2>4. Captured(pending, truth, file)'
    <3>1. ASSUME NEW p \in S, ~truth'[p].disturbed, truth'[p].before \notin Secrets
          PROVE  p \in DOMAIN pending /\ pending[p].pre = truth'[p].before
      <4>1. CASE truth[p].touched
        BY <2>1, <2>3, <3>1, <4>1
      <4>2. CASE ~truth[p].touched
        <5>1. p \in Paths /\ tool.pc = "write" /\ ~truth[p].disturbed /\ truth'[p].before = file[p]
          BY <1>3, <2>1, <2>3, <3>1, <4>2 DEF Mutate
        <5>2. p \notin DOMAIN pending => tool.op # "rename" /\ p = tool.path
          BY <2>1, <2>3, <3>1
        <5>3. p \in DOMAIN pending
          BY <3>1, <4>2, <5>1, <5>2
        <5> QED
          BY <4>2, <5>1, <5>3
      <4> QED
        BY <4>1, <4>2
    <3> QED
      BY <2>1, <2>2, <2>3, <3>1
  <2>5. tool' = IF tool.op \in {"write", "patch_delete"} THEN [tool EXCEPT !.pc = "record"] ELSE NoTool
    BY <1>3 DEF Mutate
  <2>6. \A p \in Paths : Recorded(pending, truth, p)' \/ (tool'.pc = "record" /\ tool'.path = p)
    <3>1. ASSUME NEW p \in Paths \ S PROVE Recorded(pending, truth, p)'
      BY <1>3, <2>1, <2>2, <3>1 DEF Mutate
    <3>2. CASE tool.op = "write"
      BY <2>1, <2>5, <3>1, <3>2 DEF Typed, Tools
    <3>3. CASE tool.op # "write"
      BY <2>1, <2>3, <3>1, <3>3
    <3> QED
      BY <3>2, <3>3
  <2>7. tool'.pc = "record" /\ truth'[tool'.path].wrote # Absent => file'[tool'.path] = truth'[tool'.path].wrote
    <3>1. CASE tool.op = "write"
      BY <1>3, <2>1, <2>3, <2>5, <3>1 DEF Mutate, Typed, Tools
    <3>2. CASE tool.op # "write"
      BY <2>1, <2>3, <2>5, <3>2 DEF Typed, Tools, NoTool
    <3> QED
      BY <3>1, <3>2
  <2>8. tool'.pc # "write"
    BY <2>5 DEF Typed, Tools, NoTool
  <2> QED
    BY <2>1, <2>4, <2>6, <2>7, <2>8
<1>4. CASE MutateFails
  BY <1>4 DEF MutateFails, Typed, NoTool
<1>5. CASE RecordPostWrite
  BY <1>5, WindowIs DEF RecordPostWrite, Typed, TypeOK, NoTool
<1>6. CASE Finalize
  BY <1>6, EmptyWindow DEF Finalize, Untouched, Idle
<1>7. CASE PersistSession
  BY <1>7 DEF PersistSession, Idle
<1>8. ASSUME NEW id \in Ids, NEW force \in Flags, BeginRollback(id, force) PROVE Windowed'
  BY <1>8 DEF BeginRollback
<1>9. CASE Refuse
  BY <1>9 DEF Refuse
<1>10. CASE WriteRecovery
  BY <1>10 DEF WriteRecovery
<1>12. CASE ClearRecovery
  BY <1>12 DEF ClearRecovery
<1>13. ASSUME NEW p \in Paths, Check(p) PROVE Windowed'
  BY <1>13 DEF Check
<1>16. ASSUME NEW p \in Paths, Undo(p), job.pc \in {"applying", "resuming", "restoring"}
       PROVE  Windowed'
  <2>1. tool.pc = "idle" /\ UNCHANGED <<tool, pending, saved>>
    BY <1>16 DEF Undo, OneAtWork, Typed, Tools
  <2>2. CASE UNCHANGED <<file, truth>>
    BY <2>1, <2>2
  <2>3. CASE file' = [file EXCEPT ![p] = Entry(p).pre] /\ Visited(p, TRUE)
    <3>1. (truth[p].disturbed \/ ~truth[p].touched) \in BOOLEAN
      OBVIOUS
    <3>2. /\ \A q \in Paths :
                /\ truth'[q].touched = truth[q].touched /\ truth'[q].before = truth[q].before
                /\ truth'[q].wrote = truth[q].wrote
                /\ q # p => truth'[q].disturbed = truth[q].disturbed
          /\ ~truth'[p].disturbed => ~truth[p].disturbed /\ truth[p].touched
      <4> DEFINE b == truth[p].disturbed \/ ~truth[p].touched
      <4>1. truth' = [truth EXCEPT ![p].disturbed = b] /\ b \in BOOLEAN
        BY <2>3, <3>1 DEF Visited
      <4> HIDE DEF b
      <4>2. \A q \in Paths :
                /\ truth'[q].touched = truth[q].touched /\ truth'[q].before = truth[q].before
                /\ truth'[q].wrote = truth[q].wrote
                /\ q # p => truth'[q].disturbed = truth[q].disturbed
        BY <4>1, Disturbs DEF Typed
      <4>3. truth'[p].disturbed = b
        BY <4>1, Disturbs DEF Typed
      <4>4. ~truth'[p].disturbed => ~b
        BY <4>3
      <4> QED
        BY <4>2, <4>4 DEF b
    <3>3. \A q \in Paths : q # p => file'[q] = file[q]
      BY <2>3 DEF Typed, TypeOK
    <3>4. \A q \in Paths : Known(truth'[q]) => Known(truth[q])
      BY <3>2
    <3>5. \A q \in Paths : ~truth'[q].touched /\ ~truth'[q].disturbed => q # p
      BY <3>2
    <3> QED
      BY <2>1, <3>2, <3>3, <3>4, <3>5
  <2> QED
    BY <1>16, <2>2, <2>3 DEF Undo
<1>17. ASSUME NEW p \in Paths, ApplySkips(p) PROVE Windowed'
  <2>1. tool.pc = "idle" /\ UNCHANGED <<file, tool, pending, saved>>
    BY <1>17 DEF ApplySkips, OneAtWork, Typed, Tools
  <2>2. (truth[p].disturbed \/ ~truth[p].touched) \in BOOLEAN
    OBVIOUS
  <2>3. \A q \in Paths :
              /\ truth'[q].touched = truth[q].touched /\ truth'[q].before = truth[q].before
              /\ truth'[q].wrote = truth[q].wrote
              /\ ~truth'[q].disturbed => ~truth[q].disturbed
    <3> DEFINE b == truth[p].disturbed \/ ~truth[p].touched
    <3>1. truth' = [truth EXCEPT ![p].disturbed = b] /\ b \in BOOLEAN
      BY <1>17, <2>2 DEF ApplySkips, Visited
    <3> HIDE DEF b
    <3>2. \A q \in Paths :
                /\ truth'[q].touched = truth[q].touched /\ truth'[q].before = truth[q].before
                /\ truth'[q].wrote = truth[q].wrote
                /\ q # p => truth'[q].disturbed = truth[q].disturbed
      BY <3>1, Disturbs DEF Typed
    <3>3. truth'[p].disturbed = b
      BY <3>1, Disturbs DEF Typed
    <3>4. ~truth'[p].disturbed => ~b
      BY <3>3
    <3> QED
      BY <3>2, <3>4 DEF b
  <2> QED
    BY <2>1, <2>3
<1>18. ASSUME NEW p \in Paths, ResumeConflict(p) PROVE Windowed'
  BY <1>18 DEF ResumeConflict
<1>19. ASSUME NEW p \in Paths, ResumeCheck(p) PROVE Windowed'
  BY <1>19 DEF ResumeCheck
<1>20. ASSUME NEW p \in Paths, NEW c \in FileContents, UserEdit(p, c) PROVE Windowed'
  <2>1. UNCHANGED <<tool, pending, saved>>
    BY <1>20 DEF UserEdit
  <2>2. (truth[p].disturbed \/ Delicate(p)) \in BOOLEAN
    OBVIOUS
  <2>3. /\ \A q \in Paths :
              /\ truth'[q].touched = truth[q].touched /\ truth'[q].before = truth[q].before
              /\ truth'[q].wrote = truth[q].wrote
              /\ q # p => truth'[q].disturbed = truth[q].disturbed
        /\ ~truth'[p].disturbed => ~truth[p].disturbed /\ ~Delicate(p)
    <3> DEFINE b == truth[p].disturbed \/ Delicate(p)
    <3>1. truth' = [truth EXCEPT ![p].disturbed = b] /\ b \in BOOLEAN
      BY <1>20, <2>2 DEF UserEdit
    <3> HIDE DEF b
    <3>2. \A q \in Paths :
                /\ truth'[q].touched = truth[q].touched /\ truth'[q].before = truth[q].before
                /\ truth'[q].wrote = truth[q].wrote
                /\ q # p => truth'[q].disturbed = truth[q].disturbed
      BY <3>1, Disturbs DEF Typed
    <3>3. truth'[p].disturbed = b
      BY <3>1, Disturbs DEF Typed
    <3>4. ~truth'[p].disturbed => ~b
      BY <3>3
    <3> QED
      BY <3>2, <3>4 DEF b
  <2>4. \A q \in Paths : q # p => file'[q] = file[q]
    BY <1>20 DEF UserEdit, Typed, TypeOK
  <2>5. \A q \in Paths : ~truth'[q].disturbed => ~truth[q].disturbed /\ (q = p => ~Delicate(p))
    BY <2>3
  <2>6. Captured(pending, truth, file)' /\ \A q \in Paths : Recorded(pending, truth, q)' \/ (tool.pc = "record" /\ tool.path = q)
    BY <2>1, <2>3, <2>4, <2>5 DEF Delicate
  <2>7. tool.pc # "idle" => tool.path \in Paths
    BY DEF OneAtWork
  <2>8. ~truth'[tool.path].disturbed /\ tool.pc # "idle" => tool.path # p
    BY <2>5, <2>7 DEF Delicate
  <2> QED
    BY <2>1, <2>3, <2>4, <2>5, <2>6, <2>7, <2>8
<1>21. ASSUME NEW resume \in BOOLEAN, CrashAndRestart(resume) PROVE Windowed'
  BY <1>21, EmptyWindow DEF CrashAndRestart, Typed, NoTool, Untouched
<1>22. CASE UNCHANGED vars
  BY <1>22 DEF vars
<1> QED
  BY <1>1, <1>2, <1>3, <1>4, <1>5, <1>6, <1>7, <1>8, <1>9, <1>10, <1>12, <1>13, <1>16, <1>17,
     <1>18, <1>19, <1>20, <1>21, <1>22, UndoAt
     DEF Next, AgentStep, RollbackStep, Waiting

\* A checkpoint is written from a faithful window, with what is known of it then.
LEMMA CheckpointsHold == IInv /\ [Next]_vars => CheckpointIsFaithful'
<1> SUFFICES ASSUME IInv, [Next]_vars PROVE CheckpointIsFaithful'
  OBVIOUS
<1> USE DEF IInv, history
<1>1. CASE Finalize
  <2> DEFINE id == budget.ids + 1
  <2>1. tool.pc = "idle" /\ records' = With(records, id, truth)
    BY <1>1, FinalizeAdds DEF Finalize, Idle
  <2>2. ASSUME NEW k \in DOMAIN manifest', NEW p \in DOMAIN manifest'[k],
               Known(records'[k][p])
        PROVE  /\ manifest'[k][p].pre = records'[k][p].before
               /\ records'[k][p].wrote # Absent => manifest'[k][p].post = records'[k][p].wrote
    <3>1. CASE k \in DOMAIN manifest
      <4>1. manifest'[k] = manifest[k] /\ k # id
        BY <1>1, <3>1, FinalizeAdds
      <4>2. records'[k] = records[k]
        BY <2>1, <3>1, <4>1 DEF With, Typed
      <4> QED
        BY <2>2, <3>1, <4>1, <4>2 DEF CheckpointIsFaithful, Known
    <3>2. CASE k \notin DOMAIN manifest
      <4>1. k = id /\ manifest'[k] = [q \in Undoable |-> pending[q]]
        BY <1>1, <3>2, FinalizeAdds
      <4>2. p \in Paths /\ p \in Undoable /\ manifest'[k][p] = pending[p]
        BY <4>1, WindowIs DEF Undoable, Typed, TypeOK
      <4>3. records'[k] = truth
        BY <2>1, <4>1 DEF With
      <4> QED
        BY <2>1, <2>2, <4>2, <4>3 DEF WindowFaithful, Captured, Recorded
    <3> QED
      BY <3>1, <3>2
  <2> QED
    BY <2>2 DEF CheckpointIsFaithful, Known
<1>2. CASE UNCHANGED <<manifest, records>>
  BY <1>2 DEF CheckpointIsFaithful
<1>3. Finalize \/ UNCHANGED <<manifest, records>>
  BY DEF Next, AgentStep, RollbackStep, Waiting, vars, StartTool, Capture, Mutate, MutateFails, RecordPostWrite,
         PersistSession, BeginRollback, Refuse, WriteRecovery, ResumeRestore, ClearRecovery, Check, Apply,
         ApplySkips, ResumeConflict, ResumeCheck, ResumeDelete, Undo, UserEdit, CrashAndRestart
<1> QED
  BY <1>1, <1>2, <1>3

\* A rollback knows what it saw and what it has done.
LEMMA RollingHolds == IInv /\ [Next]_vars => Rolling'
<1> SUFFICES ASSUME IInv, [Next]_vars PROVE Rolling'
  OBVIOUS
<1> USE DEF IInv, history, Rolling
<1>1. CASE job'.pc = "idle"
  BY <1>1
<1>2. CASE UNCHANGED <<file, job, manifest>>
  BY <1>2
<1>3. CASE Mutate
  BY <1>3 DEF Mutate, OneAtWork
<1>6. CASE Finalize
  BY <1>6 DEF Finalize, Idle
<1>8. ASSUME NEW id \in Ids, NEW force \in Flags, BeginRollback(id, force) PROVE Rolling'
  <2>1. CASE id \in DOMAIN recovery
    BY <1>8, <2>1 DEF BeginRollback, NoJob, PlansAreWhole, Typed, TypeOK
  <2>2. CASE id \notin DOMAIN recovery
    BY <1>8, <2>2, EmptyWindow DEF BeginRollback, NoJob
  <2> QED
    BY <2>1, <2>2
<1>10. CASE WriteRecovery
  BY <1>10 DEF WriteRecovery, Checked, Refused, Typed, TypeOK, Jobs
<1>13. ASSUME NEW p \in Paths, Check(p) PROVE Rolling'
  <2>1. /\ job'.pc = "checking" /\ job'.id = job.id /\ job'.raced = job.raced
        /\ job'.todo = job.todo \ {p} /\ job'.current = With(job.current, p, file[p])
        /\ job'.conflicts = job.conflicts \cup (IF Conflicting(p) THEN {p} ELSE {})
        /\ job.pc = "checking" /\ p \in job.todo /\ UNCHANGED <<file, manifest>>
    BY <1>13 DEF Check, Typed, Jobs
  <2>2. /\ DOMAIN job'.current = DOMAIN job.current \cup {p} /\ job'.current[p] = file[p]
        /\ \A q \in DOMAIN job.current \ {p} : job'.current[q] = job.current[q]
    <3>1. job \in Jobs /\ file[p] \in FileContents
      BY DEF Typed, TypeOK
    <3> QED
      BY <2>1, <3>1, SeesOneMore, SMTT(20)
  <2>3. job.todo \subseteq DOMAIN manifest[job.id]
    BY <2>1 DEF Typed, TypeOK
  <2>4. DOMAIN job'.current = DOMAIN manifest[job.id] \ job'.todo
    BY <2>1, <2>2, <2>3
  <2>5. \A q \in DOMAIN job'.current :
           /\ q \notin job.raced => file[q] = job'.current[q]
           /\ job'.current[q] \notin {Absent, manifest[job.id][q].post} => q \in job'.conflicts
    BY <2>1, <2>2 DEF Conflicting, Entry
  <2> QED
    BY <2>1, <2>4, <2>5
<1>16. ASSUME NEW p \in Paths, Undo(p), p \in job.todo, p \in DOMAIN manifest[job.id],
              Apply(p) \/ (job.pc = "restoring" /\ job.at = p) \/ job.pc = "resuming"
       PROVE  Rolling'
  <2> DEFINE m == manifest[job.id]
  <2>1. job.pc \in {"applying", "resuming", "restoring"} /\ job.todo \subseteq DOMAIN m
    BY <1>16 DEF Apply, Typed, TypeOK
  <2>2. /\ job'.id = job.id /\ job'.raced = job.raced /\ job'.conflicts = job.conflicts
        /\ job'.todo = job.todo \ {p} /\ job'.current = job.current /\ job'.force = job.force
        /\ job'.pc = IF job.pc = "restoring" THEN "resuming" ELSE job.pc
        /\ job.failed \subseteq job'.failed /\ manifest' = manifest
        /\ p \in job'.failed \/ file'[p] = m[p].pre
        /\ \A q \in Paths : q # p => file'[q] = file[q]
    <3>1. CASE file' = [file EXCEPT ![p] = Entry(p).pre] /\ Visited(p, TRUE)
      BY <1>16, <3>1 DEF Undo, Visited, Entry, Typed, TypeOK, Jobs
    <3>2. CASE UNCHANGED file /\ job' = [job EXCEPT !.todo = @ \ {p}, !.at = Absent, !.failed = @ \cup {p},
                                                    !.pc = IF @ = "restoring" THEN "resuming" ELSE @]
      BY <1>16, <3>2 DEF Undo, Typed, Jobs
    <3> QED
      BY <1>16, <3>1, <3>2 DEF Undo
  <2>3. DOMAIN m \subseteq Paths /\ DOMAIN job.current \subseteq Paths
    BY <2>1, WindowIs, CurrentIs DEF Typed, TypeOK
  <2>4. \A q \in DOMAIN m \ job'.todo :
           file'[q] = m[q].pre \/ q \in job'.conflicts \cup job'.failed \cup job'.raced
    BY <2>1, <2>2, <2>3
  <2>5. job'.pc = "applying" => job.pc = "applying"
    BY <2>1, <2>2
  <2>6. job'.pc \notin {"checking", "restoring"}
    BY <2>1, <2>2
  <2> QED
    BY <2>1, <2>2, <2>3, <2>4, <2>5, <2>6
<1>17. ASSUME NEW p \in Paths, ApplySkips(p) PROVE Rolling'
  BY <1>17 DEF ApplySkips, Visited, Entry, Typed, TypeOK, Jobs
<1>18. ASSUME NEW p \in Paths, ResumeConflict(p) PROVE Rolling'
  BY <1>18 DEF ResumeConflict, Typed, TypeOK, Jobs
<1>19. ASSUME NEW p \in Paths, ResumeCheck(p) PROVE Rolling'
  BY <1>19 DEF ResumeCheck, StillOurs, Entry, Typed, TypeOK, Jobs
<1>20. ASSUME NEW p \in Paths, NEW c \in FileContents, UserEdit(p, c) PROVE Rolling'
  BY <1>20 DEF UserEdit, Typed, TypeOK, Jobs
<1> QED
  <2>1. (\E op \in Ops, p, d \in Paths, c \in FileContents : StartTool(op, p, d, c))
           \/ Capture \/ MutateFails \/ RecordPostWrite \/ PersistSession \/ UNCHANGED vars
        => UNCHANGED <<file, job, manifest>>
    BY DEF StartTool, Capture, MutateFails, RecordPostWrite, PersistSession, vars
  <2>2. Refuse \/ ClearRecovery \/ (\E resume \in BOOLEAN : CrashAndRestart(resume)) => job'.pc = "idle"
    BY DEF Refuse, ClearRecovery, CrashAndRestart, NoJob
  <2> QED
    BY <2>1, <2>2, <1>1, <1>2, <1>3, <1>6, <1>8, <1>10, <1>13, <1>16, <1>17, <1>18, <1>19, <1>20, UndoAt
       DEF Next, AgentStep, RollbackStep, Waiting

LEMMA Invariance == Spec => []IInv
<1>1. IInv /\ [Next]_vars => IInv'
  BY TypedHolds, BooksHold, WindowsHold, CheckpointsHold, RollingHolds DEF IInv
<1> QED
  BY InitHolds, <1>1, PTL DEF Spec

\* Whatever the tools, the user, the crashes and the rollbacks do: every window and
\* every checkpoint has its pre-images in the blob store, a checkpoint records what each
\* undisturbed file held before and what the agent left there, and a half-done rollback
\* has a recovery plan that lists all it still has to visit.
THEOREM StateIsSound == Spec => []CheckpointsSound
<1>1. IInv => CheckpointsSound
  BY DEF IInv, Typed, CheckpointsSound
<1> QED
  BY Invariance, <1>1, PTL

-----------------------------------------------------------------------------
\* A rollback step without --force changes a file only from what the agent left there,
\* what an earlier part of the rollback restored, or nothing.
LEMMA KeepsUserWork ==
  ASSUME IInv, [Next]_vars, NEW p \in Paths,
         RollbackChanges(p), ~job.force, job.pc # "resuming"
  PROVE  HoldsKnownContent(p)
<1> USE DEF IInv, history
<1>1. job.pc \in {"applying", "restoring"} /\ tool.pc = "idle"
  BY DEF RollbackChanges, OneAtWork, Typed, Tools
<1>2. PICK q \in Paths : /\ Undo(q) /\ q \in job.todo /\ q \in DOMAIN manifest[job.id]
                         /\ Apply(q) \/ (job.pc = "restoring" /\ job.at = q)
  <2>1. \/ ResumeRestore \/ \E q \in Paths : Apply(q) \/ ResumeDelete(q)
    <3>1. ~Capture /\ ~Mutate /\ ~MutateFails /\ ~RecordPostWrite
      BY <1>1 DEF Capture, Mutate, MutateFails, RecordPostWrite
    <3>2. ASSUME NEW q \in Paths, NEW c \in FileContents, UserEdit(q, c) PROVE FALSE
      BY <3>2, <1>1 DEF UserEdit, RollbackChanges, Typed, TypeOK, Jobs
    <3>3. file' # file
      BY DEF RollbackChanges
    <3>4. QED
      BY <3>1, <3>2, <3>3 DEF Next, AgentStep, RollbackStep, Waiting, vars, StartTool, Finalize,
         PersistSession, BeginRollback, Refuse, WriteRecovery, ClearRecovery, Check,
         ApplySkips, ResumeConflict, ResumeCheck, CrashAndRestart
  <2> QED
    BY <1>1, <2>1, UndoAt
<1>3. q = p
  BY <1>2 DEF Undo, RollbackChanges, Typed, TypeOK
<1>4. CASE job.pc = "restoring"
  BY <1>2, <1>3, <1>4 DEF Rolling, RollbackChanges, HoldsKnownContent, Entry, Apply
<1>5. CASE job.pc = "applying"
  <2>1. /\ p \in DOMAIN job.current /\ job.conflicts = {} /\ p \in job.todo
        /\ file[p] = job.current[p]
    BY <1>2, <1>3, <1>5 DEF Rolling, RollbackChanges
  <2> QED
    BY <2>1, <1>5 DEF Rolling, HoldsKnownContent, Entry
<1> QED
  BY <1>1, <1>4, <1>5

\* A rollback that reports has every file at its pre-image, save those it names.
LEMMA Completes ==
  ASSUME IInv, [Next]_vars, job.pc \in {"applying", "resuming"}, recovery' # recovery,
         NEW p \in DOMAIN manifest[job.id]
  PROVE  file[p] = manifest[job.id][p].pre \/ p \in job.conflicts \cup job.failed \cup job.raced
<1>1. job.todo = {}
  BY DEF Next, AgentStep, RollbackStep, Waiting, vars, history, StartTool, Capture, Mutate, MutateFails, RecordPostWrite,
         Finalize, Idle, PersistSession, BeginRollback, Refuse, Checked, WriteRecovery, ResumeRestore, ClearRecovery, Check,
         Apply, ApplySkips, ResumeConflict, ResumeCheck, ResumeDelete, Undo, UserEdit, CrashAndRestart
<1> QED
  BY <1>1 DEF IInv, Rolling

\* What a rollback does to the workspace: without --force it overwrites only what is
\* the agent's, and when it reports its result every file is restored or named.
THEOREM RollbackIsSound == Spec => RollbackSound
<1>1. IInv /\ [Next]_vars =>
        [\A p \in Paths : RollbackChanges(p) /\ ~job.force /\ job.pc # "resuming" => HoldsKnownContent(p)]_vars
  BY KeepsUserWork
<1>2. IInv /\ [Next]_vars =>
        [job.pc \in {"applying", "resuming"} /\ recovery' # recovery =>
            \A p \in DOMAIN manifest[job.id] :
               \/ file[p] = manifest[job.id][p].pre
               \/ p \in job.conflicts \cup job.failed \cup job.raced]_vars
  BY Completes
<1>3. Spec => UserWorkKept
  BY <1>1, Invariance, PTL DEF Spec, UserWorkKept
<1>4. Spec => RollbackCompletes
  BY <1>2, Invariance, PTL DEF Spec, RollbackCompletes
<1> QED
  BY <1>3, <1>4 DEF RollbackSound
=============================================================================
