---------------------------- MODULE Checkpoints ----------------------------
(***************************************************************************)
(* Local undo (session/checkpoints.ts): the CheckpointRecorder that the    *)
(* mutating tools call around their writes, the checkpoints it finalizes,  *)
(* /rollback with its recovery manifest, and pruning.  The user edits the  *)
(* same files at any time, and the process may crash between two awaits.   *)
(*                                                                         *)
(* A content stands for its sha256, so a blob is the content itself, and   *)
(* Absent is the sha of a file that is not there.  Only paths that pass    *)
(* the sensitive-path and workspace checks are modelled: the others are    *)
(* skipped by every operation.                                             *)
(***************************************************************************)
EXTENDS Naturals, FiniteSets
LOCAL INSTANCE TLC

CONSTANTS
    Paths,             \* workspace files
    Contents,          \* file contents
    Secrets,           \* the contents redactSecrets would change
    Absent,            \* no such file
    Mode,              \* config.checkpoints: "manual" or "auto"
    Keep,              \* checkpoints pruneCheckpoints keeps
    Ops,               \* the tools the agent uses
    Flags,             \* the values of --force the user gives
    MaxTools, MaxUserEdits, MaxCheckpoints,       \* bounds
    MaxRollbacks, MaxCrashes, MaxFaults           \* bounds

ASSUME CheckpointAssumption ==
    /\ Absent \notin Contents
    /\ Secrets \subseteq Contents
    /\ Mode \in {"manual", "auto"}
    /\ Keep \in Nat \ {0}
    /\ Ops \subseteq {"write", "delete_file", "patch_delete", "rename"}
    /\ Flags \subseteq BOOLEAN
    /\ {MaxTools, MaxUserEdits, MaxCheckpoints, MaxRollbacks, MaxCrashes, MaxFaults} \subseteq Nat

VARIABLES
    file,        \* file[p]: the content of p on disk
    tool,        \* the mutating tool at work
    pending,     \* the recorder's window: pending[p] = [pre, post]
    blobs,       \* the blob store
    manifest,    \* manifest[id]: the files of checkpoint id
    recovery,    \* recovery[id]: the paths recovery.json of id plans
    job,         \* the rollback at work
    saved,       \* pendingCheckpoint of the saved session (and history of that moment)
    truth,       \* history: what really happened to each path in this window
    records,     \* history: records[id] = truth when id was finalized
    unvisited,   \* history: unvisited[id]: planned files phase 2 has yet to reach
    budget       \* what the bounds leave

history == <<truth, records, unvisited>>
vars == <<file, tool, pending, blobs, manifest, recovery, job, saved, history, budget>>

FileContents == Contents \cup {Absent}
Ids == 1 .. MaxCheckpoints

\* A function extended or shortened at one argument.
With(f, x, v) == [y \in DOMAIN f \cup {x} |-> IF y = x THEN v ELSE f[y]]
Without(f, x) == [y \in DOMAIN f \ {x} |-> f[y]]

Empty == [p \in {} |-> Absent]

NoTool == [pc |-> "idle", op |-> "none", path |-> Absent, dest |-> Absent, content |-> Absent]
NoJob  == [pc |-> "idle", id |-> 0, force |-> FALSE, todo |-> {}, current |-> Empty,
           conflicts |-> {}, at |-> Absent, touched |-> {}, raced |-> {}, failed |-> {}]

\* Nothing happened to a path yet in this window.
Untouched == [touched |-> FALSE, before |-> Absent, wrote |-> Absent,
              deleted |-> FALSE, disturbed |-> FALSE]

Init ==
    /\ file \in [Paths -> FileContents]
    /\ tool = NoTool
    /\ pending = Empty
    /\ blobs = {}
    /\ manifest = Empty
    /\ recovery = Empty
    /\ job = NoJob
    /\ truth = [p \in Paths |-> Untouched]
    /\ saved = [pending |-> Empty, truth |-> truth, file |-> file]
    /\ records = Empty
    /\ unvisited = [id \in Ids |-> {}]
    /\ budget = [tools |-> MaxTools, edits |-> MaxUserEdits, ids |-> 0,
                 rollbacks |-> MaxRollbacks, crashes |-> MaxCrashes, faults |-> MaxFaults]

Idle == tool.pc = "idle" /\ job.pc = "idle"

-----------------------------------------------------------------------------
(* The mutating tools: write_file and edit_file, delete_file, a delete of   *)
(* apply_patch, and rename_file, each between the awaits that matter.       *)

StartTool(op, p, d, c) ==
    /\ Idle
    /\ budget.tools > 0
    /\ IF op = "write" THEN c # Absent ELSE c = Absent /\ file[p] # Absent
    /\ (op = "rename") <=> (d # p)
    /\ tool' = [pc |-> "capture", op |-> op, path |-> p, dest |-> d, content |-> c]
    /\ budget' = [budget EXCEPT !.tools = @ - 1]
    /\ UNCHANGED <<file, pending, blobs, manifest, recovery, job, saved, history>>

\* The paths the tool captures: rename_file also captures an existing target.
ToCapture == {tool.path} \cup (IF file[tool.dest] # Absent THEN {tool.dest} ELSE {})

\* Mutated form of NewlyCaptured: the last pre-image wins.
AlwaysCaptured(S) == {p \in S : file[p] \notin Secrets}

\* Mutated form of NewBlobs: a path some checkpoint already holds is not stored again.
UnknownBlobs(new) ==
    {file[p] : p \in {q \in new : \A id \in DOMAIN manifest : q \notin DOMAIN manifest[id]}}
        \ {Absent}

\* writeBlob(): each existing pre-image goes to the blob store, before the entry is set.
NewBlobs(new) == {file[p] : p \in new} \ {Absent}

\* capture(): the first pre-image of a path wins, and a secret one is not taken.
NewlyCaptured(S) == {p \in S \ DOMAIN pending : file[p] \notin Secrets}

Capture ==
    /\ tool.pc = "capture"
    /\ LET new == NewlyCaptured(ToCapture) IN
       /\ pending' = [p \in DOMAIN pending \cup new |->
                        IF p \in new THEN [pre |-> file[p], post |-> Absent] ELSE pending[p]]
       /\ blobs' = blobs \cup NewBlobs(new)
    /\ tool' = [tool EXCEPT !.pc = "write"]
    /\ UNCHANGED <<file, manifest, recovery, job, saved, history, budget>>

\* The agent changes the paths in S; only a write has a content to remember.
AgentChanged(S) ==
    [p \in Paths |->
        IF p \notin S THEN truth[p]
        ELSE [truth[p] EXCEPT
                !.touched = TRUE,
                !.before  = IF truth[p].touched THEN @ ELSE file[p],
                !.wrote   = IF tool.op = "write" THEN tool.content ELSE Absent,
                !.deleted = (tool.op = "delete_file"),
                !.disturbed = @ \/ (tool.op = "rename" /\ p \notin DOMAIN pending)]]

Mutate ==
    /\ tool.pc = "write"
    /\ \/ tool.op = "write" /\ file' = [file EXCEPT ![tool.path] = tool.content]
       \/ /\ tool.op # "write" /\ file[tool.path] # Absent
          /\ file' = [file EXCEPT ![tool.dest] = file[tool.path], ![tool.path] = Absent]
    /\ truth' = AgentChanged({tool.path, tool.dest})
    /\ tool' = IF tool.op \in {"write", "patch_delete"} THEN [tool EXCEPT !.pc = "record"]
                                                        ELSE NoTool
    /\ UNCHANGED <<pending, blobs, manifest, recovery, job, saved, records, unvisited, budget>>

\* The write fails, or the file to delete is gone by now: the tool reports an error.
MutateFails ==
    /\ tool.pc = "write"
    /\ \/ budget.faults > 0 /\ budget' = [budget EXCEPT !.faults = @ - 1]
       \/ tool.op # "write" /\ file[tool.path] = Absent /\ UNCHANGED budget
    /\ tool' = NoTool
    /\ UNCHANGED <<file, pending, blobs, manifest, recovery, job, saved, history>>

\* recordPostWrite(): a file that is gone has no sha.
RecordPostWrite ==
    /\ tool.pc = "record"
    /\ pending' = IF tool.path \in DOMAIN pending
                  THEN [pending EXCEPT ![tool.path].post = file[tool.path]] ELSE pending
    /\ tool' = NoTool
    /\ UNCHANGED <<file, blobs, manifest, recovery, job, saved, history, budget>>

-----------------------------------------------------------------------------
(* Checkpoints.                                                             *)

\* Mutated form of Undoable: every captured entry goes into the manifest.
EveryCaptured == DOMAIN pending

\* Only entries the agent actually wrote are finalized.
Undoable == {p \in DOMAIN pending : pending[p].post # Absent}

\* pruneCheckpoints(): the Keep newest checkpoints survive.
Pruned(m) == {id \in DOMAIN m : Cardinality({k \in DOMAIN m : k >= id}) <= Keep}

\* finalize(), and in auto mode the pruning that follows it in the same finally block.
Finalize ==
    /\ Idle
    /\ Undoable # {}
    /\ budget.ids < MaxCheckpoints
    /\ LET id   == budget.ids + 1
           all  == With(manifest, id, [p \in Undoable |-> pending[p]])
           kept == IF Mode = "auto" THEN Pruned(all) ELSE DOMAIN all
       IN  /\ manifest' = [k \in kept |-> all[k]]
           /\ recovery' = [k \in kept \cap DOMAIN recovery |-> recovery[k]]
           /\ records' = With(records, id, truth)
           /\ budget' = [budget EXCEPT !.ids = id]
    /\ pending' = Empty
    /\ truth' = [p \in Paths |-> Untouched]
    /\ UNCHANGED <<file, tool, blobs, job, saved, unvisited>>

\* The session is saved between tool calls.
PersistSession ==
    /\ Idle
    /\ saved' = [pending |-> pending, truth |-> truth, file |-> file]
    /\ pending # saved.pending
    /\ UNCHANGED <<file, tool, pending, blobs, manifest, recovery, job, history, budget>>

-----------------------------------------------------------------------------
(* rollback() and resumeRollback().                                         *)

\* Mutated form of BeginRollback: resuming consumes recovery.json at once.
BeginRollbackConsuming(id, force) ==
    /\ Idle
    /\ id \in DOMAIN manifest
    /\ budget.rollbacks > 0
    /\ budget' = [budget EXCEPT !.rollbacks = @ - 1]
    /\ job' = IF id \in DOMAIN recovery
              THEN [NoJob EXCEPT !.pc = "resuming", !.id = id, !.todo = recovery[id]]
              ELSE [NoJob EXCEPT !.pc = "checking", !.id = id, !.force = force,
                                 !.todo = DOMAIN manifest[id]]
    /\ recovery' = Without(recovery, id)
    /\ UNCHANGED <<file, tool, pending, blobs, manifest, saved, history>>

\* A recovery.json left by a crash is resumed, and --force is then ignored.
BeginRollback(id, force) ==
    /\ Idle
    /\ id \in DOMAIN manifest
    /\ budget.rollbacks > 0
    /\ budget' = [budget EXCEPT !.rollbacks = @ - 1]
    /\ job' = IF id \in DOMAIN recovery
              THEN [NoJob EXCEPT !.pc = "resuming", !.id = id, !.todo = recovery[id]]
              ELSE [NoJob EXCEPT !.pc = "checking", !.id = id, !.force = force,
                                 !.todo = DOMAIN manifest[id]]
    /\ UNCHANGED <<file, tool, pending, blobs, manifest, recovery, saved, history>>

Entry(p) == manifest[job.id][p]

\* Phase 1, one file: someone else's content is a conflict.
Conflicting(p) == file[p] \notin {Absent, Entry(p).post}

Check(p) ==
    /\ job.pc = "checking" /\ p \in job.todo
    /\ job' = [job EXCEPT !.todo = @ \ {p}, !.current = With(@, p, file[p]),
                          !.conflicts = @ \cup (IF Conflicting(p) THEN {p} ELSE {})]
    /\ UNCHANGED <<file, tool, pending, blobs, manifest, recovery, saved, history, budget>>

Checked == job.pc = "checking" /\ job.todo = {}

\* Mutated form of Refused: a conflict only spares its own file.
NeverRefused == FALSE

\* A conflict refuses the whole rollback unless it is forced.
Refused == job.conflicts # {} /\ ~job.force

Refuse ==
    /\ Checked /\ Refused
    /\ job' = NoJob
    /\ UNCHANGED <<file, tool, pending, blobs, manifest, recovery, saved, history, budget>>

\* Mutated form of RecoveryPlan: only the files to restore are planned.
RestoresOnly == {p \in DOMAIN manifest[job.id] : Entry(p).pre # Absent}

\* The files phase 2 will act on, as recovery.json lists them.
RecoveryPlan == {p \in DOMAIN manifest[job.id] : job.force \/ p \notin job.conflicts}

WriteRecovery ==
    /\ Checked /\ ~Refused
    /\ recovery' = With(recovery, job.id, RecoveryPlan)
    /\ unvisited' = [unvisited EXCEPT ![job.id] = DOMAIN manifest[job.id]]
    /\ job' = [job EXCEPT !.pc = "applying", !.todo = DOMAIN manifest[job.id]]
    /\ UNCHANGED <<file, tool, pending, blobs, manifest, saved, truth, records, budget>>

\* A path whose pre-image was taken, or is about to be, but that is not yet written.
Delicate(p) == (~truth[p].touched /\ p \in DOMAIN pending) \/ p \in {tool.path, tool.dest}

\* The rollback is done with p, and changed it or not.
Visited(p, changed) ==
    /\ unvisited' = [unvisited EXCEPT ![job.id] = @ \ {p}]
    /\ truth' = [truth EXCEPT ![p].disturbed = @ \/ ~truth[p].touched]
    /\ job' = [job EXCEPT !.todo = @ \ {p}, !.at = Absent,
                          !.pc = IF @ = "restoring" THEN "resuming" ELSE @,
                          !.touched = @ \cup (IF changed THEN {p} ELSE {})]

\* The restore or the delete of p; a missing blob and an I/O error skip the file.
Undo(p) ==
    \/ /\ Entry(p).pre \in blobs \cup {Absent}
       /\ file' = [file EXCEPT ![p] = Entry(p).pre]
       /\ Visited(p, TRUE)
       /\ UNCHANGED <<tool, pending, blobs, manifest, recovery, saved, records, budget>>
    \/ /\ IF Entry(p).pre \in blobs \cup {Absent}
             THEN budget.faults > 0 /\ budget' = [budget EXCEPT !.faults = @ - 1]
             ELSE UNCHANGED budget
       /\ unvisited' = [unvisited EXCEPT ![job.id] = @ \ {p}]
       /\ job' = [job EXCEPT !.todo = @ \ {p}, !.at = Absent, !.failed = @ \cup {p},
                             !.pc = IF @ = "restoring" THEN "resuming" ELSE @]
       /\ UNCHANGED <<file, tool, pending, blobs, manifest, recovery, saved, truth, records>>

\* Phase 2, one file; a file the agent created and phase 1 did not find is skipped.
Apply(p) ==
    /\ job.pc = "applying" /\ p \in job.todo
    /\ Entry(p).pre = Absent => job.current[p] # Absent
    /\ Undo(p)

ApplySkips(p) ==
    /\ job.pc = "applying" /\ p \in job.todo
    /\ Entry(p).pre = Absent /\ job.current[p] = Absent
    /\ Visited(p, FALSE)
    /\ UNCHANGED <<file, tool, pending, blobs, manifest, recovery, saved, records, budget>>

\* Mutated form of StillOurs: the resumed restore trusts its plan.
AnythingIsOurs(p) == TRUE

\* The resumed restore checks again that the file is the agent's or already restored.
StillOurs(p) == file[p] \in {Absent, Entry(p).post, Entry(p).pre}

ResumeConflict(p) ==
    /\ job.pc = "resuming" /\ p \in job.todo
    /\ Entry(p).pre # Absent /\ ~StillOurs(p)
    /\ unvisited' = [unvisited EXCEPT ![job.id] = @ \ {p}]
    /\ job' = [job EXCEPT !.todo = @ \ {p}, !.conflicts = @ \cup {p}]
    /\ UNCHANGED <<file, tool, pending, blobs, manifest, recovery, saved, truth, records, budget>>

ResumeCheck(p) ==
    /\ job.pc = "resuming" /\ p \in job.todo
    /\ Entry(p).pre # Absent /\ StillOurs(p)
    /\ job' = [job EXCEPT !.pc = "restoring", !.at = p]
    /\ UNCHANGED <<file, tool, pending, blobs, manifest, recovery, saved, history, budget>>

ResumeRestore == job.pc = "restoring" /\ Undo(job.at)

\* The resumed delete checks nothing.
ResumeDelete(p) ==
    /\ job.pc = "resuming" /\ p \in job.todo
    /\ Entry(p).pre = Absent
    /\ Undo(p)

\* Every planned file was visited: recovery.json is removed and the result returned.
ClearRecovery ==
    /\ job.pc \in {"applying", "resuming"} /\ job.todo = {}
    /\ recovery' = Without(recovery, job.id)
    /\ unvisited' = [unvisited EXCEPT ![job.id] = {}]
    /\ job' = NoJob
    /\ UNCHANGED <<file, tool, pending, blobs, manifest, saved, truth, records, budget>>

-----------------------------------------------------------------------------
(* The user and the process.                                                *)

UserEdit(p, c) ==
    /\ budget.edits > 0 /\ c # file[p]
    /\ file' = [file EXCEPT ![p] = c]
    /\ truth' = [truth EXCEPT ![p].disturbed = @ \/ Delicate(p)]
    /\ job' = IF job.pc = "idle" THEN job ELSE [job EXCEPT !.raced = @ \cup {p}]
    /\ budget' = [budget EXCEPT !.edits = @ - 1]
    /\ UNCHANGED <<tool, pending, blobs, manifest, recovery, saved, records, unvisited>>

\* The process dies; the next one resumes the saved session or starts a new one.
CrashAndRestart(resume) ==
    /\ budget.crashes > 0
    /\ budget' = [budget EXCEPT !.crashes = @ - 1]
    /\ tool' = NoTool
    /\ job' = NoJob
    /\ pending' = IF resume THEN saved.pending ELSE Empty
    /\ truth' = [p \in Paths |->
                    IF ~resume THEN Untouched
                    ELSE [saved.truth[p] EXCEPT !.disturbed = @ \/ file[p] # saved.file[p]]]
    /\ UNCHANGED <<file, blobs, manifest, recovery, saved, records, unvisited>>

AgentStep ==
    \/ \E op \in Ops, p, d \in Paths, c \in FileContents : StartTool(op, p, d, c)
    \/ Capture \/ Mutate \/ MutateFails \/ RecordPostWrite

RollbackStep ==
    \/ \E id \in Ids, force \in Flags : BeginRollback(id, force)
    \/ Refuse \/ WriteRecovery \/ ResumeRestore \/ ClearRecovery
    \/ \E p \in Paths : \/ Check(p) \/ Apply(p) \/ ApplySkips(p)
                        \/ ResumeConflict(p) \/ ResumeCheck(p) \/ ResumeDelete(p)

\* Nothing is at work and the user does nothing: the program waits.
Waiting == Idle /\ UNCHANGED vars

Next ==
    \/ AgentStep
    \/ Finalize \/ PersistSession
    \/ RollbackStep
    \/ \E p \in Paths, c \in FileContents : UserEdit(p, c)
    \/ \E resume \in BOOLEAN : CrashAndRestart(resume)
    \/ Waiting

Spec == Init /\ [][Next]_vars

-----------------------------------------------------------------------------
(* Properties.                                                              *)

Entries == [pre : FileContents, post : FileContents]
Windows == UNION {[S -> Entries] : S \in SUBSET Paths}

\* Types: a window maps some paths to entries, a plan lists paths of its checkpoint,
\* and a rollback works on a checkpoint that exists.
TypeOK ==
    /\ file \in [Paths -> FileContents]
    /\ pending \in Windows /\ saved.pending \in Windows
    /\ blobs \subseteq Contents
    /\ DOMAIN manifest \subseteq Ids
    /\ \A id \in DOMAIN manifest :
           manifest[id] \in Windows /\ \A p \in DOMAIN manifest[id] : manifest[id][p].post # Absent
    /\ DOMAIN recovery \subseteq DOMAIN manifest
    /\ \A id \in DOMAIN recovery : recovery[id] \subseteq DOMAIN manifest[id]
    /\ job.pc # "idle" => job.id \in DOMAIN manifest /\ job.todo \subseteq DOMAIN manifest[job.id]
    /\ job.pc = "restoring" => job.at \in job.todo

\* A pre-image the recorder, the saved session or a checkpoint refers to is in the
\* blob store, so that rollback never skips a file for want of its blob: across
\* crashes, resumed sessions, pruning and checkpoints that share a content.
EveryUndoIsBacked ==
    LET Backed(w) == \A p \in DOMAIN w : w[p].pre \in blobs \cup {Absent} IN
    /\ Backed(pending) /\ Backed(saved.pending)
    /\ \A id \in DOMAIN manifest : Backed(manifest[id])

\* A checkpoint records what each file held before the agent first changed it in the
\* window, and what the agent last wrote there, unless a secret kept it from being
\* captured, the agent renamed another file onto it (a new target is not captured), or
\* somebody changed it between the capture and the write.
CheckpointIsFaithful ==
    \A id \in DOMAIN manifest : \A p \in DOMAIN manifest[id] :
        LET t == records[id][p] IN
        t.touched /\ ~t.disturbed /\ t.before \notin Secrets =>
            /\ manifest[id][p].pre = t.before
            /\ t.wrote # Absent => manifest[id][p].post = t.wrote

\* The rollback step changes p, which is not one the user is editing meanwhile.
RollbackChanges(p) ==
    /\ job.pc \in {"applying", "resuming", "restoring"}
    /\ job' # job /\ job'.raced = job.raced
    /\ file'[p] # file[p] /\ p \notin job.raced

HoldsKnownContent(p) == file[p] \in {Absent, Entry(p).post, Entry(p).pre}

\* Rollback without --force overwrites or deletes a file only if it holds what the agent
\* left there or what the rollback already restored, resumed restores included: what
\* the user wrote after the checkpoint stays.  Resumed deletes are left out here.
UserWorkKept ==
    [][\A p \in Paths :
          RollbackChanges(p) /\ ~job.force /\ job.pc # "resuming" => HoldsKnownContent(p)]_vars

\* When a rollback reports its result, be it after a crash in the middle and a resume,
\* every file of the checkpoint is back at its pre-image, save those it reports as
\* conflicts or skipped and those edited while it ran.
RollbackCompletes ==
    [][job.pc \in {"applying", "resuming"} /\ recovery' # recovery =>
          \A p \in DOMAIN manifest[job.id] :
              \/ file[p] = manifest[job.id][p].pre
              \/ p \in job.conflicts \cup job.failed \cup job.raced]_vars

\* While a checkpoint is half rolled back, its recovery.json lists every file still to
\* visit, so that the next call can finish the work.
HalfDoneIsPlanned ==
    \A id \in DOMAIN manifest :
        unvisited[id] # {} => id \in DOMAIN recovery /\ unvisited[id] \subseteq recovery[id]

\* What every state of the stacks and of the checkpoints on disk satisfies.
CheckpointsSound ==
    /\ TypeOK
    /\ EveryUndoIsBacked
    /\ CheckpointIsFaithful
    /\ HalfDoneIsPlanned

\* What a rollback does to the workspace, also one a crash or a failing write
\* cuts and a later process resumes.
RollbackSound == UserWorkKept /\ RollbackCompletes

\* For TLC: paths are alike, and so are the contents that are not secrets.
Symmetry == Permutations(Paths) \cup Permutations(Contents \ Secrets)
=============================================================================
