------------------------------ MODULE UndoRedo ------------------------------
(***************************************************************************)
(* /undo and /redo: the two stacks (cli/undoRedo.ts), the entry each turn  *)
(* with file changes pushes (cli/repl.ts, runTask) and its application     *)
(* file by file (session/undoApply.ts), from the slash commands.           *)
(*                                                                         *)
(* An entry carries the code's files, path by path the content to put      *)
(* back (Absent: delete), and history fields: the turn it belongs          *)
(* to, its goal (the workspace it is meant to bring back) and, once an     *)
(* attempt to apply it failed halfway, the workspace of before the first;  *)
(* torn marks the reverse of such an entry.                                *)
(***************************************************************************)
EXTENDS Naturals, Sequences, SequencesExt

CONSTANTS
    Paths, Contents, Absent,
    MaxDepth,                            \* undoState.maxDepth
    MaxTurns, MaxUserEdits, MaxMoves, MaxFaults    \* bounds

ASSUME UndoAssumption ==
    /\ Absent \notin Contents
    /\ MaxDepth \in Nat \ {0}
    /\ {MaxTurns, MaxUserEdits, MaxMoves, MaxFaults} \subseteq Nat

VARIABLES
    file,         \* file[p]: the content of p on disk
    undoStack,    \* undoState.undoStack, the most recent last
    redoStack,    \* undoState.redoStack, likewise
    apply,        \* the applyUndoEntry at work
    budget        \* what the bounds leave; budget.turn numbers the turns

vars == <<file, undoStack, redoStack, apply, budget>>

FileContents == Contents \cup {Absent}

Idle == apply.for = "none"
NoApply == [for |-> "none", todo |-> {}, reverse |-> [p \in {} |-> Absent],
            start |-> [p \in Paths |-> Absent], raced |-> {}]

\* The entry being applied.
Entry == IF apply.for = "undo" THEN Last(undoStack) ELSE Last(redoStack)

Init ==
    /\ file \in [Paths -> FileContents]
    /\ undoStack = <<>>
    /\ redoStack = <<>>
    /\ apply = NoApply
    /\ budget = [turn |-> 0, edits |-> MaxUserEdits, moves |-> MaxMoves, faults |-> MaxFaults]

\* pushTurn(): the oldest entries are evicted beyond maxDepth.
Bounded(s) == IF Len(s) > MaxDepth THEN SubSeq(s, Len(s) - MaxDepth + 1, Len(s)) ELSE s

\* A turn that wrote the files of `after` ends: the entry of its pre-images is pushed.
\* The redo stack stays: runTask does not call onNewMutation.
TurnEnds(after) ==
    /\ Idle
    /\ budget.turn < MaxTurns
    /\ file' = [p \in Paths |-> IF p \in DOMAIN after THEN after[p] ELSE file[p]]
    /\ undoStack' = Bounded(Append(undoStack,
                        [files |-> [p \in DOMAIN after |-> file[p]],
                         turn |-> budget.turn + 1, goal |-> file, torn |-> FALSE, first |-> <<>>]))
    /\ budget' = [budget EXCEPT !.turn = @ + 1]
    /\ UNCHANGED <<redoStack, apply>>

\* /undo or /redo takes the top entry of its stack.
BeginApply(dir) ==
    /\ Idle
    /\ budget.moves > 0
    /\ IF dir = "undo" THEN undoStack # <<>> ELSE redoStack # <<>>
    /\ apply' = [NoApply EXCEPT
                    !.for = dir, !.start = file,
                    !.todo = DOMAIN (IF dir = "undo" THEN Last(undoStack) ELSE Last(redoStack)).files]
    /\ budget' = [budget EXCEPT !.moves = @ - 1]
    /\ UNCHANGED <<file, undoStack, redoStack>>

\* Mutated form of Snapshot: the reverse entry holds the pre-image again.
SnapshotPreImage(p) == Entry.files[p]

\* The reverse entry remembers the content about to be replaced.
Snapshot(p) == file[p]

\* Mutated form of ReverseWith: a file that is gone is not remembered.
ReverseOfExisting(p) ==
    IF file[p] = Absent THEN apply.reverse
    ELSE [q \in DOMAIN apply.reverse \cup {p} |->
             IF q = p THEN Snapshot(p) ELSE apply.reverse[q]]

\* reverseFiles once p is snapshotted, whether it exists or not.
ReverseWith(p) ==
    [q \in DOMAIN apply.reverse \cup {p} |-> IF q = p THEN Snapshot(p) ELSE apply.reverse[q]]

\* One file: snapshot, then restore or delete.
ApplyFile(p) ==
    /\ p \in apply.todo
    /\ file' = [file EXCEPT ![p] = Entry.files[p]]
    /\ apply' = [apply EXCEPT !.todo = @ \ {p}, !.reverse = ReverseWith(p)]
    /\ UNCHANGED <<undoStack, redoStack, budget>>

\* A read, write or rename throws: the command ends and undoState is not updated.
ApplyFails ==
    /\ apply.todo # {}
    /\ budget.faults > 0
    /\ budget' = [budget EXCEPT !.faults = @ - 1]
    /\ LET Torn(s) == [s EXCEPT ![Len(s)].first = IF @ = <<>> THEN <<apply.start>> ELSE @] IN
       /\ undoStack' = IF apply.for = "undo" THEN Torn(undoStack) ELSE undoStack
       /\ redoStack' = IF apply.for = "redo" THEN Torn(redoStack) ELSE redoStack
    /\ apply' = NoApply
    /\ UNCHANGED file

\* The entry moves to the other stack as its reverse; redo() evicts nothing.
EndApply ==
    /\ ~Idle /\ apply.todo = {}
    /\ LET reverse == [files |-> apply.reverse, turn |-> Entry.turn,
                       goal |-> [p \in Paths |-> IF Entry.first # <<>> THEN Entry.first[1][p]
                                                ELSE IF p \in apply.raced \cap DOMAIN apply.reverse THEN apply.reverse[p]
                                                ELSE apply.start[p]],
                       torn |-> Entry.first # <<>>, first |-> <<>>]
       IN  IF apply.for = "undo"
           THEN undoStack' = Front(undoStack) /\ redoStack' = Append(redoStack, reverse)
           ELSE redoStack' = Front(redoStack) /\ undoStack' = Append(undoStack, reverse)
    /\ apply' = NoApply
    /\ UNCHANGED <<file, budget>>

UserEdit(p, c) ==
    /\ budget.edits > 0 /\ c # file[p]
    /\ file' = [file EXCEPT ![p] = c]
    /\ apply' = IF Idle THEN apply ELSE [apply EXCEPT !.raced = @ \cup {p}]
    /\ budget' = [budget EXCEPT !.edits = @ - 1]
    /\ UNCHANGED <<undoStack, redoStack>>

\* The REPL waits for the next line.
Waiting == Idle /\ UNCHANGED vars

Next ==
    \/ \E S \in (SUBSET Paths) \ {{}} : \E after \in [S -> Contents] : TurnEnds(after)
    \/ \E dir \in {"undo", "redo"} : BeginApply(dir)
    \/ \E p \in Paths : ApplyFile(p)
    \/ ApplyFails
    \/ EndApply
    \/ \E p \in Paths, c \in FileContents : UserEdit(p, c)
    \/ Waiting

Spec == Init /\ [][Next]_vars

-----------------------------------------------------------------------------
(* Properties.                                                              *)

EntryOK(e) ==
    /\ DOMAIN e.files \subseteq Paths /\ DOMAIN e.files # {}
    /\ \A p \in DOMAIN e.files : e.files[p] \in FileContents
    /\ e.turn \in 1 .. MaxTurns

\* Types: entries map paths to contents, the files still to apply are the entry's, and
\* together with the reverse they are all of them.
TypeOK ==
    /\ file \in [Paths -> FileContents]
    /\ \A i \in DOMAIN undoStack : EntryOK(undoStack[i])
    /\ \A i \in DOMAIN redoStack : EntryOK(redoStack[i])
    /\ ~Idle => apply.todo \cup DOMAIN apply.reverse = DOMAIN Entry.files

\* An entry that never failed halfway holds, for each of its files, what the workspace held
\* at the state it is meant to bring back.
EntriesAreExact ==
    \A s \in {undoStack, redoStack} : \A i \in DOMAIN s :
        s[i].torn \/ \A p \in DOMAIN s[i].files : s[i].files[p] = s[i].goal[p]

\* The stacks are well formed, and what they hold is what the turns replaced.
UndoSound == TypeOK /\ EntriesAreExact

\* A whole /undo gives each file of the turn what it held before that turn, and a whole
\* /redo what it held before the undo, over any sequence of turns, undos, redos, user
\* edits and evictions -- unless an earlier attempt at that entry failed halfway.
WholeMoveIsExact ==
    [][EndApply /\ ~Entry.torn =>
          \A p \in DOMAIN Entry.files : p \in apply.raced \/ file[p] = Entry.goal[p]]_vars
=============================================================================
