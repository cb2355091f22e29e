---------------------------- MODULE Session_proofs ----------------------------
(***************************************************************************)
(* The properties of what a session keeps, for every value of the          *)
(* constants: the undo and redo stacks (UndoRedo), the event log           *)
(* (SessionLog), the prompt (ReplSession), the reading of a command and    *)
(* the gate (Permissions), and the composition of them that MCSession      *)
(* runs, whose steps are steps of each part (PartSteps).                   *)
(*                                                                         *)
(* Undo and redo.  The inductive invariant adds to the properties: stacks  *)
(* are sequences of well-typed entries (UndoTyped), and an entry half      *)
(* applied (HalfApplied) has put back the files it is done with and        *)
(* remembers what they held when the command began, up to those the user   *)
(* edited meanwhile.                                                       *)
(*                                                                         *)
(* Event log.  Project is a recursive function over the lines:             *)
(* ProjectAppend says that one line more is one Apply more (each fact      *)
(* about all prefixes is proved at its least counterexample).              *)
(* Plays(bs, s, t) says that the bodies bs make t of s; BodiesPlay, that   *)
(* the diff of two sessions plays from the one to the other; Replays, that *)
(* stamped rows behind a log do, when their seqs are above the log's.      *)
(* WrittenFits says that whatever part of the rows an append leaves, the   *)
(* log keeps its lines and its order.  The invariant is then that a        *)
(* process that has read the log is past its seqs (FileFits) and, unless   *)
(* it lost or must repeat a row, knows what the log says (Tracks).         *)
(*                                                                         *)
(* Prompt.  The invariant says where a side thread is between and in its   *)
(* runs (SidesFit), that each thread was told what the snapshot says until *)
(* a command severs them (SnapsFit), and that a thread holds what the main *)
(* thread held when it was forked (TurnsFit).                              *)
(*                                                                         *)
(* Commands.  What a shell makes of the word at a place depends on the     *)
(* words before it only (PrefixSame).  Accounts(r, i, s) says that segment *)
(* s holds the word at place i of line r in the right part; the invariant  *)
(* ReadsRight, that every word read so far is accounted for by the open    *)
(* segment when no operator came after it, by a closed one otherwise.      *)
(***************************************************************************)
EXTENDS MCSession, NaturalsInduction, SequenceTheorems, WellFoundedInduction, TLAPS

-----------------------------------------------------------------------------
(* Undo and redo.                                                           *)

\* What the lemmas need of UndoAssumption.
UndoCounts == {MaxDepth, MaxTurns, MaxUserEdits, MaxMoves, MaxFaults} \subseteq Nat

Maps == UNION {[S -> FileContents] : S \in SUBSET Paths}
Workspaces == [Paths -> FileContents]
Entries == [files : Maps, turn : 1 .. MaxTurns, goal : Workspaces, torn : BOOLEAN,
            first : {<<>>} \cup {<<w>> : w \in Workspaces}]
Applies == [for : {"none", "undo", "redo"}, todo : SUBSET Paths, reverse : Maps,
            start : Workspaces, raced : SUBSET Paths]
Budgets == [turn : 0 .. MaxTurns, edits : Nat, moves : Nat, faults : Nat]

\* An entry has files, and leads to its goal unless it is torn.
Sound(e) ==
    /\ DOMAIN e.files # {}
    /\ e.torn \/ \A p \in DOMAIN e.files : e.files[p] = e.goal[p]

Stacked(s) == s \in Seq(Entries) /\ \A i \in 1 .. Len(s) : Sound(s[i])

UndoTyped ==
    /\ file \in Workspaces /\ apply \in Applies /\ budget \in Budgets
    /\ Stacked(undoStack) /\ Stacked(redoStack)

\* The command at work has an entry, whose files are done or still to do; a file it is done
\* with is as the entry says and was snapshotted as it was at the start, one still to do is
\* as it was at the start -- unless the user edited it.
HalfApplied ==
    /\ Idle => apply.todo = {}
    /\ apply.for = "undo" => undoStack # <<>>
    /\ apply.for = "redo" => redoStack # <<>>
    /\ ~Idle =>
          /\ apply.todo \cup DOMAIN apply.reverse = DOMAIN Entry.files
          /\ \A p \in Paths \ apply.raced :
                /\ p \in apply.todo => file[p] = apply.start[p]
                /\ p \in DOMAIN apply.reverse \ apply.todo =>
                      file[p] = Entry.files[p] /\ apply.reverse[p] = apply.start[p]

UndoInv == UndoTyped /\ HalfApplied

-----------------------------------------------------------------------------
(* Maps and stacks.                                                         *)

\* A map is a function from some paths to contents.
LEMMA MapIs ==
  ASSUME NEW m \in Maps
  PROVE  DOMAIN m \subseteq Paths /\ \A p \in DOMAIN m : m[p] \in FileContents
<1>1. PICK S \in SUBSET Paths : m \in [S -> FileContents]
  BY DEF Maps
<1> QED
  BY <1>1

LEMMA IsMap ==
  ASSUME NEW S \in SUBSET Paths, NEW m \in [S -> FileContents]
  PROVE  m \in Maps
BY DEF Maps

LEMMA EmptyMap == [p \in {} |-> Absent] \in Maps
<1>1. [p \in {} |-> Absent] \in [{} -> FileContents]
  OBVIOUS
<1> QED
  BY <1>1, IsMap

\* The four things the program does to a stack leave a stack.
LEMMA Pushed ==
  ASSUME NEW s, Stacked(s), NEW e \in Entries, Sound(e)
  PROVE  Stacked(Append(s, e))
<1>1. s \in Seq(Entries) /\ Append(s, e) \in Seq(Entries) /\ Len(Append(s, e)) = Len(s) + 1
  BY DEF Stacked
<1>2. ASSUME NEW i \in 1 .. Len(Append(s, e)) PROVE Sound(Append(s, e)[i])
  <2>1. Append(s, e)[i] = IF i = Len(s) + 1 THEN e ELSE s[i]
    BY <1>1, <1>2
  <2> QED
    BY <1>1, <1>2, <2>1 DEF Stacked
<1> QED
  BY <1>1, <1>2 DEF Stacked

LEMMA Popped ==
  ASSUME NEW s, Stacked(s), s # <<>>
  PROVE  /\ Stacked(Front(s))
         /\ Last(s) \in Entries /\ Sound(Last(s))
<1>1. s \in Seq(Entries) /\ Len(s) \in Nat \ {0}
  BY DEF Stacked
<1>2. Last(s) \in Entries /\ Sound(Last(s))
  BY <1>1 DEF Stacked, Last
<1>3. /\ Front(s) \in Seq(Entries) /\ Len(Front(s)) = Len(s) - 1
      /\ \A i \in 1 .. Len(s) - 1 : Front(s)[i] = s[i]
  BY <1>1, SubSeqProperties DEF Front
<1> QED
  BY <1>1, <1>2, <1>3 DEF Stacked

LEMMA Evicted ==
  ASSUME NEW s, Stacked(s), UndoCounts
  PROVE  Stacked(Bounded(s))
<1>1. CASE Len(s) > MaxDepth
  <2>1. s \in Seq(Entries) /\ Len(s) \in Nat /\ MaxDepth \in Nat
    BY DEF Stacked, UndoCounts
  <2> DEFINE t == SubSeq(s, Len(s) - MaxDepth + 1, Len(s))
  <2>2. /\ t \in Seq(Entries) /\ Len(t) = IF MaxDepth = 0 THEN 0 ELSE MaxDepth
        /\ \A i \in 1 .. MaxDepth : t[i] = s[Len(s) - MaxDepth + i]
    BY <1>1, <2>1, SubSeqProperties
  <2>3. ASSUME NEW i \in 1 .. Len(t) PROVE Sound(t[i])
    <3>1. i \in 1 .. MaxDepth /\ Len(s) - MaxDepth + i \in 1 .. Len(s)
      BY <1>1, <2>1, <2>2
    <3>2. t[i] = s[Len(s) - MaxDepth + i]
      BY <2>2, <3>1
    <3> HIDE DEF t
    <3> QED
      BY <3>1, <3>2 DEF Stacked
  <2> QED
    BY <1>1, <2>2, <2>3 DEF Stacked, Bounded
<1> QED
  BY <1>1 DEF Bounded

LEMMA Marked ==
  ASSUME NEW s, Stacked(s), s # <<>>, NEW w \in Workspaces
  PROVE  Stacked([s EXCEPT ![Len(s)].first = IF @ = <<>> THEN <<w>> ELSE @])
<1> DEFINE e == s[Len(s)]
           f == [e EXCEPT !.first = IF @ = <<>> THEN <<w>> ELSE @]
           t == [s EXCEPT ![Len(s)] = f]
<1>1. s \in Seq(Entries) /\ Len(s) \in Nat \ {0} /\ Len(s) \in 1 .. Len(s)
  BY DEF Stacked
<1>2. e \in Entries /\ Sound(e)
  BY <1>1 DEF Stacked
<1>3. f \in Entries /\ f.files = e.files /\ f.goal = e.goal /\ f.torn = e.torn
  BY <1>2 DEF Entries
<1>4. Sound(f)
  BY <1>2, <1>3 DEF Sound
<1>5. t \in Seq(Entries) /\ Len(t) = Len(s) /\ \A i \in 1 .. Len(s) : t[i] = IF i = Len(s) THEN f ELSE s[i]
  BY <1>1, <1>3
<1>6. Stacked(t)
  BY <1>4, <1>5, <1>1 DEF Stacked
<1> QED
  BY <1>6

\* The entry at work is on its stack.
LEMMA EntryIs ==
  ASSUME UndoInv, ~Idle
  PROVE  Entry \in Entries /\ Sound(Entry) /\ DOMAIN Entry.files \subseteq Paths
<1>1. apply.for \in {"undo", "redo"}
  BY DEF UndoInv, UndoTyped, Applies, Idle
<1>2. Entry \in Entries /\ Sound(Entry)
  BY <1>1, Popped DEF UndoInv, UndoTyped, HalfApplied, Entry
<1> QED
  BY <1>2, MapIs DEF Entries
-----------------------------------------------------------------------------
(* The invariant.                                                           *)

LEMMA UndoInitHolds == UndoCounts /\ Init => UndoInv
<1> SUFFICES ASSUME UndoCounts, Init PROVE UndoInv
  OBVIOUS
<1> USE DEF Init, UndoCounts
<1>1. NoApply \in Applies /\ NoApply.for = "none" /\ NoApply.todo = {}
  BY EmptyMap DEF NoApply, Applies, Workspaces, FileContents
<1>2. Stacked(<<>>)
  BY EmptySeq DEF Stacked
<1>3. file \in Workspaces /\ budget \in Budgets
  BY DEF Workspaces, Budgets
<1> QED
  BY <1>1, <1>2, <1>3 DEF UndoInv, UndoTyped, HalfApplied, Idle

\* A turn pushes an entry whose goal is the workspace it replaced.
LEMMA TurnHolds ==
  ASSUME UndoCounts, UndoInv, NEW S \in (SUBSET Paths) \ {{}}, NEW after \in [S -> Contents], TurnEnds(after)
  PROVE  UndoInv'
<1> USE DEF TurnEnds
<1> DEFINE e == [files |-> [p \in DOMAIN after |-> file[p]], turn |-> budget.turn + 1,
                 goal |-> file, torn |-> FALSE, first |-> <<>>]
<1>1. file' \in Workspaces
  BY DEF UndoInv, UndoTyped, Workspaces, FileContents
<1>2. budget' \in Budgets /\ budget.turn + 1 \in 1 .. MaxTurns
  <2>1. budget \in Budgets /\ budget.turn < MaxTurns /\ MaxTurns \in Nat
    BY DEF UndoInv, UndoTyped, UndoCounts
  <2> QED
    BY <2>1 DEF Budgets
<1>3. e \in Entries
  <2>1. [p \in DOMAIN after |-> file[p]] \in [S -> FileContents]
    BY DEF UndoInv, UndoTyped, Workspaces
  <2>2. e.files \in Maps
    BY <2>1, IsMap
  <2> QED
    BY <1>2, <2>2 DEF Entries, UndoInv, UndoTyped
<1>4. Sound(e)
  <2>1. DOMAIN after = S /\ S # {}
    OBVIOUS
  <2>2. e.files = [p \in DOMAIN after |-> file[p]] /\ e.goal = file
    OBVIOUS
  <2> QED
    BY <2>1, <2>2 DEF Sound
<1>5. Stacked(Append(undoStack, e))
  BY <1>3, <1>4, Pushed DEF UndoInv, UndoTyped
<1>6. Stacked(undoStack')
  BY <1>5, Evicted
<1>7. UNCHANGED <<redoStack, apply>> /\ Idle
  OBVIOUS
<1> QED
  BY <1>1, <1>2, <1>6, <1>7 DEF UndoInv, UndoTyped, HalfApplied, Idle

\* An apply begins with every file of its entry to do.
LEMMA BeginHolds ==
  ASSUME UndoInv, NEW dir \in {"undo", "redo"}, BeginApply(dir)
  PROVE  UndoInv'
<1> USE DEF BeginApply
<1> DEFINE s == IF dir = "undo" THEN undoStack ELSE redoStack
<1>1. s # <<>> /\ Stacked(s)
  BY DEF UndoInv, UndoTyped
<1>2. Last(s) \in Entries /\ DOMAIN Last(s).files \subseteq Paths
  BY <1>1, Popped, MapIs DEF Entries
<1>3. /\ apply' \in Applies /\ apply'.for = dir /\ apply'.start = file
      /\ apply'.todo = DOMAIN Last(s).files /\ apply'.reverse = [p \in {} |-> Absent]
  BY <1>2, EmptyMap DEF NoApply, Applies, UndoInv, UndoTyped
<1>4. budget' \in Budgets
  BY DEF UndoInv, UndoTyped, Budgets
<1>5. Entry' = Last(s)
  BY <1>3 DEF Entry
<1>6. UndoTyped'
  BY <1>3, <1>4 DEF UndoInv, UndoTyped, Stacked
<1>7. HalfApplied'
  BY <1>1, <1>3, <1>5 DEF HalfApplied, Idle
<1> QED
  BY <1>6, <1>7 DEF UndoInv

\* One file more is as the entry says, and remembered as it was.
LEMMA FileHolds ==
  ASSUME UndoInv, NEW p \in Paths, ApplyFile(p)
  PROVE  UndoInv'
<1> USE DEF ApplyFile
<1>1. ~Idle /\ apply \in Applies /\ file \in Workspaces
  BY DEF UndoInv, UndoTyped, HalfApplied
<1>2. Entry.files[p] \in FileContents /\ p \in DOMAIN Entry.files
  BY <1>1, EntryIs, MapIs DEF Entries, UndoInv, HalfApplied
<1>3. /\ ReverseWith(p) \in Maps
      /\ DOMAIN ReverseWith(p) = DOMAIN apply.reverse \cup {p}
      /\ ReverseWith(p)[p] = file[p]
      /\ \A q \in DOMAIN apply.reverse \ {p} : ReverseWith(p)[q] = apply.reverse[q]
  <2>1. apply.reverse \in Maps
    BY <1>1 DEF Applies
  <2>2. ReverseWith(p) \in [DOMAIN apply.reverse \cup {p} -> FileContents]
    BY <1>1, <2>1, MapIs DEF ReverseWith, Snapshot, Workspaces
  <2>3. DOMAIN apply.reverse \cup {p} \in SUBSET Paths
    BY <2>1, MapIs
  <2> QED
    BY <2>2, <2>3, IsMap DEF ReverseWith, Snapshot
<1>4. /\ apply' \in Applies /\ apply'.for = apply.for /\ apply'.start = apply.start
      /\ apply'.raced = apply.raced
      /\ apply'.todo = apply.todo \ {p} /\ apply'.reverse = ReverseWith(p)
  BY <1>1, <1>3 DEF Applies
<1>5. file' \in Workspaces /\ \A q \in Paths : file'[q] = IF q = p THEN Entry.files[p] ELSE file[q]
  BY <1>1, <1>2 DEF Workspaces
<1>6. UNCHANGED <<undoStack, redoStack, budget>> /\ Entry' = Entry
  BY <1>4 DEF Entry
<1>7. UndoTyped'
  BY <1>4, <1>5, <1>6 DEF UndoInv, UndoTyped, Stacked
<1>8. HalfApplied'
  <2>1. apply'.todo \cup DOMAIN apply'.reverse = DOMAIN Entry'.files
    BY <1>1, <1>3, <1>4, <1>6 DEF UndoInv, HalfApplied
  <2>2. ASSUME NEW q \in Paths \ apply'.raced
        PROVE  /\ q \in apply'.todo => file'[q] = apply'.start[q]
               /\ q \in DOMAIN apply'.reverse \ apply'.todo =>
                     file'[q] = Entry'.files[q] /\ apply'.reverse[q] = apply'.start[q]
    <3>1. /\ q \in apply.todo => file[q] = apply.start[q]
          /\ q \in DOMAIN apply.reverse \ apply.todo =>
                file[q] = Entry.files[q] /\ apply.reverse[q] = apply.start[q]
      BY <1>1, <1>4 DEF UndoInv, HalfApplied
    <3>2. CASE q = p
      BY <1>2, <1>3, <1>4, <1>5, <1>6, <3>1, <3>2
    <3>3. CASE q # p
      BY <1>3, <1>4, <1>5, <1>6, <3>1, <3>3
    <3> QED
      BY <3>2, <3>3
  <2> QED
    BY <1>1, <1>4, <1>6, <2>1, <2>2 DEF UndoInv, HalfApplied, Idle
<1> QED
  BY <1>7, <1>8 DEF UndoInv

\* A failure leaves the entry on its stack, marked.
LEMMA FailHolds ==
  ASSUME UndoInv, ApplyFails
  PROVE  UndoInv'
<1> USE DEF ApplyFails
<1>1. ~Idle /\ apply \in Applies /\ apply.start \in Workspaces
  BY DEF UndoInv, UndoTyped, HalfApplied, Applies
<1>2. Stacked(undoStack')
  BY <1>1, Marked DEF UndoInv, UndoTyped, HalfApplied
<1>3. Stacked(redoStack')
  BY <1>1, Marked DEF UndoInv, UndoTyped, HalfApplied
<1>4. apply' \in Applies /\ apply'.for = "none" /\ apply'.todo = {}
  BY <1>1, EmptyMap DEF NoApply, Applies, UndoInv, UndoTyped, Workspaces, FileContents
<1>5. budget' \in Budgets
  BY DEF UndoInv, UndoTyped, Budgets
<1> QED
  BY <1>2, <1>3, <1>4, <1>5 DEF UndoInv, UndoTyped, HalfApplied, Idle

\* The end pushes a reverse that leads back to where the command began.
LEMMA EndHolds ==
  ASSUME UndoInv, EndApply
  PROVE  UndoInv'
<1> USE DEF EndApply
<1> DEFINE w == [p \in Paths |-> IF Entry.first # <<>> THEN Entry.first[1][p]
                                 ELSE IF p \in apply.raced \cap DOMAIN apply.reverse THEN apply.reverse[p]
                                 ELSE apply.start[p]]
           r == [files |-> apply.reverse, turn |-> Entry.turn, goal |-> w,
                 torn |-> Entry.first # <<>>, first |-> <<>>]
<1>1. /\ ~Idle /\ apply \in Applies /\ apply.for \in {"undo", "redo"}
      /\ Entry \in Entries /\ Sound(Entry)
  BY EntryIs DEF UndoInv, UndoTyped, Applies, Idle
<1>2. apply.reverse \in Maps /\ DOMAIN apply.reverse = DOMAIN Entry.files
  BY <1>1 DEF Applies, UndoInv, HalfApplied
<1>3. w \in Workspaces
  <2>1. CASE Entry.first # <<>>
    <3>1. PICK v \in Workspaces : Entry.first = <<v>>
      BY <1>1, <2>1 DEF Entries
    <3> QED
      BY <2>1, <3>1 DEF Workspaces
  <2>2. CASE Entry.first = <<>>
    BY <1>1, <1>2, <2>2, MapIs DEF Applies, Workspaces
  <2> QED
    BY <2>1, <2>2
<1>4. r \in Entries
  <2> DEFINE b == Entry.first # <<>>
  <2>1. b \in BOOLEAN
    OBVIOUS
  <2> HIDE DEF b, w
  <2>2. [files |-> apply.reverse, turn |-> Entry.turn, goal |-> w, torn |-> b, first |-> <<>>] \in Entries
    BY <1>1, <1>2, <1>3, <2>1 DEF Entries
  <2> QED
    BY <2>2 DEF b, w
<1>5. Sound(r)
  <2>1. DOMAIN r.files # {}
    BY <1>1, <1>2 DEF Sound
  <2>2. CASE Entry.first # <<>>
    BY <2>1, <2>2 DEF Sound
  <2>3. CASE Entry.first = <<>>
    <3>1. ASSUME NEW p \in DOMAIN apply.reverse PROVE apply.reverse[p] = w[p]
      <4>1. p \in Paths
        BY <1>2, MapIs
      <4>2. p \notin apply.raced => apply.reverse[p] = apply.start[p]
        BY <1>1, <4>1 DEF UndoInv, HalfApplied
      <4> QED
        BY <2>3, <4>1, <4>2
    <3> QED
      BY <2>1, <3>1 DEF Sound
  <2> QED
    BY <2>2, <2>3
<1> HIDE DEF r
<1>6. Stacked(undoStack') /\ Stacked(redoStack')
  <2>1. CASE apply.for = "undo"
    <3>1. undoStack' = Front(undoStack) /\ redoStack' = Append(redoStack, r) /\ undoStack # <<>>
      BY <2>1 DEF r, UndoInv, HalfApplied
    <3> QED
      BY <1>4, <1>5, <3>1, Popped, Pushed DEF UndoInv, UndoTyped
  <2>2. CASE apply.for = "redo"
    <3>1. redoStack' = Front(redoStack) /\ undoStack' = Append(undoStack, r) /\ redoStack # <<>>
      BY <2>2 DEF r, UndoInv, HalfApplied
    <3> QED
      BY <1>4, <1>5, <3>1, Popped, Pushed DEF UndoInv, UndoTyped
  <2> QED
    BY <1>1, <2>1, <2>2
<1>7. apply' \in Applies /\ apply'.for = "none" /\ apply'.todo = {}
  BY EmptyMap DEF NoApply, Applies, Workspaces, FileContents
<1> QED
  BY <1>6, <1>7 DEF UndoInv, UndoTyped, HalfApplied, Idle

\* The user's edit of a file is noted while a command is at work.
LEMMA EditHolds ==
  ASSUME UndoInv, NEW p \in Paths, NEW c \in FileContents, UserEdit(p, c)
  PROVE  UndoInv'
<1> USE DEF UserEdit
<1>1. file' \in Workspaces /\ \A q \in Paths \ {p} : file'[q] = file[q]
  BY DEF UndoInv, UndoTyped, Workspaces
<1>2. budget' \in Budgets
  BY DEF UndoInv, UndoTyped, Budgets
<1>3. /\ apply' \in Applies
      /\ apply' = IF Idle THEN apply ELSE [apply EXCEPT !.raced = @ \cup {p}]
  BY DEF UndoInv, UndoTyped, Applies
<1>4. /\ apply'.for = apply.for /\ apply'.todo = apply.todo
      /\ apply'.reverse = apply.reverse /\ apply'.start = apply.start
      /\ ~Idle => apply'.raced = apply.raced \cup {p}
  BY <1>3 DEF UndoInv, UndoTyped, Applies
<1>5. UNCHANGED <<undoStack, redoStack>> /\ Entry' = Entry
  BY <1>4 DEF Entry
<1>6. UndoTyped'
  BY <1>1, <1>2, <1>3, <1>5 DEF UndoInv, UndoTyped, Stacked
<1>7. HalfApplied'
  BY <1>1, <1>4, <1>5 DEF UndoInv, HalfApplied, Idle
<1> QED
  BY <1>6, <1>7 DEF UndoInv

LEMMA UndoStepHolds == UndoCounts /\ UndoInv /\ [Next]_vars => UndoInv'
<1> SUFFICES ASSUME UndoCounts, UndoInv, [Next]_vars PROVE UndoInv'
  OBVIOUS
<1>1. ASSUME NEW S \in (SUBSET Paths) \ {{}}, NEW after \in [S -> Contents], TurnEnds(after) PROVE UndoInv'
  BY <1>1, TurnHolds
<1>2. ASSUME NEW dir \in {"undo", "redo"}, BeginApply(dir) PROVE UndoInv'
  BY <1>2, BeginHolds
<1>3. ASSUME NEW p \in Paths, ApplyFile(p) PROVE UndoInv'
  BY <1>3, FileHolds
<1>4. ASSUME NEW p \in Paths, NEW c \in FileContents, UserEdit(p, c) PROVE UndoInv'
  BY <1>4, EditHolds
<1>5. CASE UNCHANGED vars
  BY <1>5 DEF vars, UndoInv, UndoTyped, Stacked, HalfApplied, Idle, Entry
<1> QED
  BY <1>1, <1>2, <1>3, <1>4, <1>5, FailHolds, EndHolds DEF Next, Waiting
-----------------------------------------------------------------------------
(* The theorems.                                                            *)

LEMMA Invariance == Spec => []UndoInv
<1> UndoCounts
  BY UndoAssumption DEF UndoCounts
<1>1. Init => UndoInv
  BY UndoInitHolds
<1>2. UndoInv /\ [Next]_vars => UndoInv'
  BY UndoStepHolds
<1> QED
  BY <1>1, <1>2, PTL DEF Spec

LEMMA Entails == UndoInv => UndoSound
<1> SUFFICES ASSUME UndoInv PROVE UndoSound
  OBVIOUS
<1>1. ASSUME NEW s, Stacked(s), NEW i \in DOMAIN s
      PROVE  EntryOK(s[i]) /\ (s[i].torn \/ \A p \in DOMAIN s[i].files : s[i].files[p] = s[i].goal[p])
  <2>1. s \in Seq(Entries) /\ i \in 1 .. Len(s)
    BY <1>1 DEF Stacked
  <2>2. s[i] \in Entries /\ Sound(s[i])
    BY <1>1, <2>1 DEF Stacked
  <2>3. s[i].files \in Maps /\ s[i].turn \in 1 .. MaxTurns
    BY <2>2 DEF Entries
  <2> QED
    BY <2>2, <2>3, MapIs DEF EntryOK, Sound
<1>2. TypeOK
  BY <1>1 DEF UndoInv, UndoTyped, HalfApplied, TypeOK, Workspaces
<1>3. EntriesAreExact
  BY <1>1 DEF UndoInv, UndoTyped, EntriesAreExact
<1> QED
  BY <1>2, <1>3 DEF UndoSound

\* In every reachable state the two stacks hold well-formed entries, each with the content
\* its files had in the workspace it leads back to; see UndoSound.
THEOREM StacksAreSound == Spec => []UndoSound
<1>1. Spec => []UndoInv
  BY Invariance
<1> QED
  BY <1>1, Entails, PTL

\* No sequence of turns, undos, redos, evictions, failures and user edits makes a whole
\* /undo or /redo leave a file that the user did not edit meanwhile at another content than
\* the one it promises; see WholeMoveIsExact.
THEOREM MovesAreExact == Spec => WholeMoveIsExact
<1>1. Spec => []UndoInv
  BY Invariance
<1>2. UndoInv /\ [Next]_vars => [EndApply /\ ~Entry.torn =>
          \A p \in DOMAIN Entry.files : p \in apply.raced \/ file[p] = Entry.goal[p]]_vars
  <2> SUFFICES ASSUME UndoInv, EndApply, ~Entry.torn, NEW p \in DOMAIN Entry.files, p \notin apply.raced
               PROVE  file[p] = Entry.goal[p]
    OBVIOUS
  <2>1. ~Idle /\ apply.todo = {}
    BY DEF EndApply
  <2>2. Sound(Entry) /\ p \in Paths
    BY <2>1, EntryIs
  <2>3. file[p] = Entry.files[p]
    BY <2>1, <2>2 DEF UndoInv, HalfApplied
  <2> QED
    BY <2>2, <2>3 DEF Sound
<1> QED
  BY <1>1, <1>2, PTL DEF Spec, WholeMoveIsExact

-----------------------------------------------------------------------------
(* The event log.                                                           *)

LEMMA Least ==
  ASSUME NEW S \in SUBSET Nat, S # {}
  PROVE  \E i \in S : \A j \in S : i <= j
<1> DEFINE R == {ss \in Nat \X Nat : ss[1] < ss[2]}
<1>1. IsWellFoundedOn(R, Nat)
  BY NatLessThanWellFounded, Zenon DEF OpToRel
<1> HIDE DEF R
<1>2. PICK i \in S : \A j \in S : ~(<<j, i>> \in R)
  BY <1>1, WFMin
<1>3. \A j \in S : ~(j < i)
  BY <1>2 DEF R
<1> QED
  BY <1>3


-----------------------------------------------------------------------------
(* The projection row by row.                                               *)

Empty == [seq |-> 0, s |-> Nothing]

\* f is the projection of every prefix of l.
Runs(l, f) == f = [i \in 0 .. Len(l) |-> IF i = 0 THEN Empty ELSE Apply(f[i - 1], l[i])]

LEMMA RunStep ==
  ASSUME NEW l, Len(l) \in Nat, NEW f, Runs(l, f)
  PROVE  f[0] = Empty /\ \A i \in 1 .. Len(l) : f[i] = Apply(f[i - 1], l[i])
<1>1. 0 \in 0 .. Len(l) /\ \A i \in 1 .. Len(l) : i \in 0 .. Len(l) /\ i # 0
  OBVIOUS
<1>2. \A i \in 0 .. Len(l) : f[i] = IF i = 0 THEN Empty ELSE Apply(f[i - 1], l[i])
  BY Zenon DEF Runs
<1> QED
  BY <1>1, <1>2, Zenon

\* Two runs agree as long as their rows do.
LEMMA RunsAgree ==
  ASSUME NEW l, NEW k, Len(l) \in Nat, Len(k) \in Nat, NEW f, NEW g, Runs(l, f), Runs(k, g),
         NEW n \in Nat, n <= Len(l), n <= Len(k), \A i \in 1 .. n : l[i] = k[i]
  PROVE  f[n] = g[n]
<1> SUFFICES ASSUME f[n] # g[n] PROVE FALSE
  OBVIOUS
<1> DEFINE S == {i \in 0 .. n : f[i] # g[i]}
<1>1. S \in SUBSET Nat /\ n \in S
  OBVIOUS
<1>2. PICK i \in S : \A j \in S : i <= j
  BY <1>1, Least
<1>3. f[0] = Empty /\ g[0] = Empty
  BY RunStep
<1>4. i \in 1 .. n /\ i - 1 \in 0 .. n /\ i - 1 \notin S
  <2>1. i \in 0 .. n /\ i # 0
    BY <1>3
  <2>2. ~(i <= i - 1)
    BY <2>1
  <2> QED
    BY <1>2, <2>1, <2>2
<1>5. f[i - 1] = g[i - 1] /\ l[i] = k[i]
  BY <1>4
<1>6. f[i] = Apply(f[i - 1], l[i]) /\ g[i] = Apply(g[i - 1], k[i])
  <2>1. i \in 1 .. Len(l) /\ i \in 1 .. Len(k)
    BY <1>4
  <2> QED
    BY <2>1, RunStep
<1> QED
  BY <1>5, <1>6

\* One row more.
LEMMA RunExtends ==
  ASSUME NEW l, NEW k, Len(l) \in Nat, Len(k) = Len(l) + 1, NEW f, Runs(l, f),
         \A i \in 1 .. Len(l) : k[i] = l[i]
  PROVE  LET g == [i \in 0 .. Len(k) |-> IF i = Len(k) THEN Apply(f[Len(l)], k[Len(k)]) ELSE f[i]]
         IN  Runs(k, g)
<1> DEFINE g == [i \in 0 .. Len(k) |-> IF i = Len(k) THEN Apply(f[Len(l)], k[Len(k)]) ELSE f[i]]
           h == [i \in 0 .. Len(k) |-> IF i = 0 THEN Empty ELSE Apply(g[i - 1], k[i])]
<1>1. \A i \in 0 .. Len(l) : g[i] = f[i]
  OBVIOUS
<1>2. g[Len(k)] = Apply(f[Len(l)], k[Len(k)])
  OBVIOUS
<1>3. ASSUME NEW i \in 0 .. Len(k) PROVE g[i] = h[i]
  <2>1. CASE i = 0
    <3>1. g[0] = f[0] /\ h[0] = Empty
      BY <1>1, <2>1
    <3> QED
      BY <2>1, <3>1, RunStep
  <2>2. CASE i \in 1 .. Len(l)
    <3>1. i - 1 \in 0 .. Len(l) /\ i \in 0 .. Len(l) /\ i # 0
      BY <2>2
    <3>2. h[i] = Apply(g[i - 1], k[i])
      BY <3>1
    <3> HIDE DEF g, h
    <3> QED
      BY <1>1, <2>2, <3>1, <3>2, RunStep
  <2>3. CASE i = Len(k)
    <3>1. i - 1 = Len(l) /\ Len(l) \in 0 .. Len(l) /\ i # 0
      BY <2>3
    <3>2. h[i] = Apply(g[i - 1], k[i])
      BY <2>3, <3>1
    <3> HIDE DEF g, h
    <3> QED
      BY <1>1, <1>2, <2>3, <3>1, <3>2
  <2> QED
    BY <2>1, <2>2, <2>3
<1>4. g = h
  <2>1. g = [i \in 0 .. Len(k) |-> g[i]] /\ h = [i \in 0 .. Len(k) |-> h[i]]
    OBVIOUS
  <2> HIDE DEF g, h
  <2> QED
    BY <1>3, <2>1
<1> QED
  BY <1>4 DEF Runs

LEMMA RunExists ==
  ASSUME NEW M, NEW l \in Seq(M)
  PROVE  \E f : Runs(l, f)
<1> DEFINE S == {n \in Nat : \E k \in Seq(M) : Len(k) = n /\ ~ \E f : Runs(k, f)}
<1> SUFFICES ASSUME S # {} PROVE FALSE
  OBVIOUS
<1>1. PICK n \in S : \A j \in S : n <= j
  BY Least
<1>2. n \in Nat
  OBVIOUS
<1>3. PICK k \in Seq(M) : Len(k) = n /\ ~ \E f : Runs(k, f)
  OBVIOUS
<1>4. CASE n = 0
  <2> DEFINE f == [i \in 0 .. 0 |-> Empty]
  <2>1. Runs(k, f)
    <3>1. [i \in 0 .. Len(k) |-> IF i = 0 THEN Empty ELSE Apply(f[i - 1], k[i])] = [i \in 0 .. 0 |-> Empty]
      BY <1>3, <1>4
    <3> QED
      BY <3>1 DEF Runs
  <2> QED
    BY <1>3, <2>1
<1>5. CASE n # 0
  <2> DEFINE l2 == SubSeq(k, 1, n - 1)
  <2>1. l2 \in Seq(M) /\ Len(l2) = n - 1 /\ \A i \in 1 .. n - 1 : k[i] = l2[i]
    BY <1>2, <1>3, <1>5
  <2> HIDE DEF l2
  <2>2. n - 1 \in Nat /\ ~(n <= n - 1)
    BY <1>2, <1>5
  <2>3. n - 1 \notin S
    BY <1>1, <2>2
  <2>4. PICK f : Runs(l2, f)
    BY <2>1, <2>2, <2>3
  <2>5. Len(l2) \in Nat /\ Len(k) = Len(l2) + 1
    BY <1>2, <1>3, <2>1, <2>2
  <2>6. \E g : Runs(k, g)
    BY <2>1, <2>4, <2>5, RunExtends
  <2> QED
    BY <1>3, <2>6
<1> QED
  BY <1>4, <1>5

LEMMA ProjectRuns ==
  ASSUME NEW M, NEW l \in Seq(M)
  PROVE  \E f : Runs(l, f) /\ Project(l) = f[Len(l)]
<1> DEFINE E(f) == f = [i \in 0 .. Len(l) |-> IF i = 0 THEN [seq |-> 0, s |-> Nothing] ELSE Apply(f[i - 1], l[i])]
           c == CHOOSE f : E(f)
<1>1. \E f : E(f)
  BY RunExists DEF Runs, Empty
<1>2. E(c)
  BY <1>1, Zenon
<1>3. Project(l) = c[Len(l)]
  BY Zenon DEF Project
<1>4. Runs(l, c)
  BY <1>2 DEF Runs, Empty
<1> HIDE DEF c
<1> QED
  BY <1>3, <1>4

LEMMA ProjectEmpty == Project(<<>>) = Empty
<1>1. PICK f : Runs(<<>>, f) /\ Project(<<>>) = f[Len(<<>>)]
  <2>1. <<>> \in Seq({})
    OBVIOUS
  <2> QED
    BY <2>1, ProjectRuns
<1>2. Len(<<>>) = 0
  OBVIOUS
<1> QED
  BY <1>1, <1>2, RunStep

LEMMA ProjectAppend ==
  ASSUME NEW M, NEW l \in Seq(M), NEW e \in M
  PROVE  Project(Append(l, e)) = Apply(Project(l), e)
<1> DEFINE k == Append(l, e)
<1>1. k \in Seq(M) /\ Len(k) = Len(l) + 1 /\ k[Len(k)] = e /\ \A i \in 1 .. Len(l) : k[i] = l[i]
  OBVIOUS
<1>2. Len(l) \in Nat /\ Len(k) \in Nat
  BY <1>1
<1> HIDE DEF k
<1>3. PICK f : Runs(l, f) /\ Project(l) = f[Len(l)]
  BY ProjectRuns
<1>4. PICK g : Runs(k, g) /\ Project(k) = g[Len(k)]
  BY <1>1, ProjectRuns
<1>5. g[Len(l)] = f[Len(l)]
  <2>1. Len(l) <= Len(l) /\ Len(l) <= Len(k)
    BY <1>1, <1>2
  <2> QED
    BY <1>1, <1>2, <1>3, <1>4, <2>1, RunsAgree
<1>6. g[Len(k)] = Apply(g[Len(l)], e)
  <2>1. Len(k) \in 1 .. Len(k) /\ Len(k) - 1 = Len(l)
    BY <1>1, <1>2
  <2> QED
    BY <1>1, <1>2, <1>4, <2>1, RunStep
<1> QED
  BY <1>3, <1>4, <1>5, <1>6 DEF k

-----------------------------------------------------------------------------
(* What one row does.                                                       *)

\* SessionAssumption: a session is no Nothing; the bounds are numbers.
Counts == {MaxMessages, MaxSaves, MaxStops} \subseteq Nat /\ Nothing \notin Sessions

\* A row of the program, and a line of the file.
Proper(e) ==
    /\ e.type \in {"started", "appended", "replaced", "reads", "allReads", "field"}
    /\ e.type \in {"started", "field"} => e.value \in Values
    /\ e.type = "appended" => e.value \in 1 .. MaxMessages
    /\ e.type = "replaced" => e.value \in Seq(1 .. MaxMessages)
    /\ e.type \in {"reads", "allReads"} => e.value \in SUBSET (1 .. MaxMessages)
Lines == {Garbage} \cup
    {e \in [seq : Nat \ {0}, type : {"started", "appended", "replaced", "reads", "allReads", "field"},
            value : Values \cup (1 .. MaxMessages) \cup Seq(1 .. MaxMessages) \cup SUBSET (1 .. MaxMessages)] :
        Proper(e)}

Projections == [seq : Nat, s : Sessions \cup {Nothing}]

\* What a row whose seq grows makes of a session.
Effect(s, e) ==
    IF e.type = "started" THEN Session(<<>>, {}, e.value)
    ELSE IF s = Nothing THEN s
    ELSE CASE e.type = "appended" -> Session(Append(s.messages, e.value), s.reads, s.field)
           [] e.type = "replaced" -> Session(e.value, s.reads, s.field)
           [] e.type = "reads"    -> Session(s.messages, s.reads \cup e.value, s.field)
           [] e.type = "allReads" -> Session(s.messages, e.value, s.field)
           [] e.type = "field"    -> Session(s.messages, s.reads, e.value)

LEMMA SessionTyped ==
  ASSUME NEW m \in Seq(1 .. MaxMessages), NEW r \in SUBSET (1 .. MaxMessages), NEW v \in Values
  PROVE  Session(m, r, v) \in Sessions
BY DEF Session, Sessions

LEMMA EffectTyped ==
  ASSUME NEW s \in Sessions \cup {Nothing}, NEW e, Proper(e)
  PROVE  Effect(s, e) \in Sessions \cup {Nothing}
<1>1. CASE e.type = "started"
  <2>1. e.value \in Values /\ Effect(s, e) = Session(<<>>, {}, e.value)
    BY <1>1 DEF Effect, Proper
  <2>2. <<>> \in Seq(1 .. MaxMessages) /\ {} \in SUBSET (1 .. MaxMessages)
    OBVIOUS
  <2> QED
    BY <2>1, <2>2, SessionTyped
<1>2. CASE e.type # "started" /\ s = Nothing
  BY <1>2 DEF Effect
<1>3. CASE e.type # "started" /\ s # Nothing
  <2>1. s \in Sessions
    BY <1>3
  <2>2. s.messages \in Seq(1 .. MaxMessages) /\ s.reads \in SUBSET (1 .. MaxMessages) /\ s.field \in Values
    BY <2>1 DEF Sessions
  <2>3. CASE e.type = "appended"
    <3>1. Append(s.messages, e.value) \in Seq(1 .. MaxMessages)
      BY <2>2, <2>3 DEF Proper
    <3> QED
      BY <1>3, <2>2, <2>3, <3>1, SessionTyped DEF Effect
  <2>4. CASE e.type = "replaced"
    BY <1>3, <2>2, <2>4, SessionTyped DEF Effect, Proper
  <2>5. CASE e.type = "reads"
    <3>1. s.reads \cup e.value \in SUBSET (1 .. MaxMessages)
      BY <2>2, <2>5 DEF Proper
    <3> QED
      BY <1>3, <2>2, <2>5, <3>1, SessionTyped DEF Effect
  <2>6. CASE e.type = "allReads"
    BY <1>3, <2>2, <2>6, SessionTyped DEF Effect, Proper
  <2>7. CASE e.type = "field"
    BY <1>3, <2>2, <2>7, SessionTyped DEF Effect, Proper
  <2> QED
    BY <1>3, <2>3, <2>4, <2>5, <2>6, <2>7 DEF Proper
<1> QED
  BY <1>1, <1>2, <1>3

\* A row whose seq does not grow changes nothing; another has its effect.
LEMMA ApplyIs ==
  ASSUME NEW p \in Projections, NEW e, e.seq \in Nat, e.seq > p.seq => Proper(e)
  PROVE  Apply(p, e) = IF e.seq <= p.seq THEN p ELSE [seq |-> e.seq, s |-> Effect(p.s, e)]
<1>1. CASE e.seq <= p.seq
  BY <1>1 DEF Apply
<1>2. CASE ~(e.seq <= p.seq)
  <2>0. Proper(e)
    BY <1>2 DEF Projections
  <2>1. CASE e.type = "started"
    BY <1>2, <2>1 DEF Apply, Effect
  <2>2. CASE e.type # "started" /\ p.s = Nothing
    BY <1>2, <2>2 DEF Apply, Effect, Projections
  <2>3. CASE e.type # "started" /\ p.s # Nothing
    <3>1. p.s \in Sessions
      BY <2>3 DEF Projections
    <3> DEFINE q == p.s
    <3>2. q \in Sessions /\ q = p.s
      BY <3>1
    <3> HIDE DEF q
    <3>3. CASE e.type = "appended"
      <4>1. Apply(p, e) = [seq |-> e.seq, s |-> [q EXCEPT !.messages = Append(@, e.value)]]
        BY <1>2, <2>3, <3>2, <3>3 DEF Apply
      <4> DEFINE a == Append(q.messages, e.value)
      <4>2. Apply(p, e) = [seq |-> e.seq, s |-> [q EXCEPT !.messages = a]]
        BY <4>1
      <4>3. Effect(p.s, e) = Session(a, q.reads, q.field)
        BY <2>3, <3>2, <3>3 DEF Effect
      <4> HIDE DEF a
      <4> QED
        BY <1>2, <3>2, <4>2, <4>3 DEF Session, Sessions
    <3>4. CASE e.type = "replaced"
      <4>1. Apply(p, e) = [seq |-> e.seq, s |-> [q EXCEPT !.messages = e.value]]
        BY <1>2, <2>3, <3>2, <3>4 DEF Apply
      <4> QED
        BY <1>2, <2>3, <3>2, <3>4, <4>1 DEF Effect, Session, Sessions
    <3>5. CASE e.type = "reads"
      <4>1. Apply(p, e) = [seq |-> e.seq, s |-> [q EXCEPT !.reads = @ \cup e.value]]
        BY <1>2, <2>3, <3>2, <3>5 DEF Apply
      <4> DEFINE a == q.reads \cup e.value
      <4>2. Apply(p, e) = [seq |-> e.seq, s |-> [q EXCEPT !.reads = a]]
        BY <4>1
      <4>3. Effect(p.s, e) = Session(q.messages, a, q.field)
        BY <2>3, <3>2, <3>5 DEF Effect
      <4> HIDE DEF a
      <4> QED
        BY <1>2, <3>2, <4>2, <4>3 DEF Session, Sessions
    <3>6. CASE e.type = "allReads"
      <4>1. Apply(p, e) = [seq |-> e.seq, s |-> [q EXCEPT !.reads = e.value]]
        BY <1>2, <2>3, <3>2, <3>6 DEF Apply
      <4> QED
        BY <1>2, <2>3, <3>2, <3>6, <4>1 DEF Effect, Session, Sessions
    <3>7. CASE e.type = "field"
      <4>1. Apply(p, e) = [seq |-> e.seq, s |-> [q EXCEPT !.field = e.value]]
        BY <1>2, <2>3, <3>2, <3>7 DEF Apply
      <4> QED
        BY <1>2, <2>3, <3>2, <3>7, <4>1 DEF Effect, Session, Sessions
    <3> QED
      BY <2>0, <2>3, <3>3, <3>4, <3>5, <3>6, <3>7 DEF Proper
  <2> QED
    BY <2>1, <2>2, <2>3
<1> QED
  BY <1>1, <1>2

LEMMA LineIs ==
  ASSUME NEW e \in Lines
  PROVE  e.seq \in Nat /\ (e.seq > 0 => Proper(e)) /\ (e.seq = 0 => e = Garbage)
BY DEF Lines, Garbage

LEMMA ApplyTyped ==
  ASSUME NEW p \in Projections, NEW e \in Lines
  PROVE  /\ Apply(p, e) \in Projections /\ p.seq <= Apply(p, e).seq /\ e.seq <= Apply(p, e).seq
         /\ Apply(p, e).seq \in {p.seq, e.seq}
<1>1. p.seq \in Nat /\ p.s \in Sessions \cup {Nothing}
  BY DEF Projections
<1>2. e.seq \in Nat /\ (e.seq > p.seq => Proper(e))
  BY <1>1, LineIs
<1>3. Apply(p, e) = IF e.seq <= p.seq THEN p ELSE [seq |-> e.seq, s |-> Effect(p.s, e)]
  BY <1>2, ApplyIs
<1>4. CASE e.seq <= p.seq
  BY <1>1, <1>3, <1>4
<1>5. CASE ~(e.seq <= p.seq)
  <2>1. Effect(p.s, e) \in Sessions \cup {Nothing}
    BY <1>1, <1>2, <1>5, EffectTyped
  <2> QED
    BY <1>1, <1>2, <1>3, <1>5, <2>1 DEF Projections
<1> QED
  BY <1>4, <1>5

\* The projection is a session or none, and its seq is the highest of the rows.
LEMMA ProjectTyped ==
  ASSUME NEW l \in Seq(Lines)
  PROVE  /\ Project(l) \in Projections /\ \A i \in DOMAIN l : l[i].seq <= Project(l).seq
         /\ Project(l).seq = 0 \/ \E i \in DOMAIN l : l[i].seq = Project(l).seq
<1>1. PICK f : Runs(l, f) /\ Project(l) = f[Len(l)]
  BY ProjectRuns
<1> DEFINE Fine(i) == /\ f[i] \in Projections /\ \A j \in 1 .. i : l[j].seq <= f[i].seq
                      /\ f[i].seq = 0 \/ \E j \in 1 .. i : l[j].seq = f[i].seq
           S == {i \in 0 .. Len(l) : ~Fine(i)}
<1>2. S = {}
  <2> SUFFICES ASSUME S # {} PROVE FALSE
    OBVIOUS
  <2>1. PICK i \in S : \A j \in S : i <= j
    <3>1. S \in SUBSET Nat
      OBVIOUS
    <3> QED
      BY <3>1, Least
  <2>2. f[0] = Empty
    BY <1>1, RunStep
  <2>3. Empty \in Projections /\ Empty.seq = 0
    BY DEF Empty, Projections
  <2>4. i # 0
    BY <2>2, <2>3
  <2>5. i \in 1 .. Len(l) /\ i - 1 \in 0 .. Len(l) /\ ~(i <= i - 1)
    BY <2>4
  <2>6. Fine(i - 1)
    BY <2>1, <2>5
  <2>7. f[i] = Apply(f[i - 1], l[i]) /\ l[i] \in Lines
    BY <1>1, <2>5, RunStep
  <2>8. /\ f[i] \in Projections /\ f[i - 1].seq <= f[i].seq /\ l[i].seq <= f[i].seq
        /\ f[i].seq \in {f[i - 1].seq, l[i].seq}
    BY <2>6, <2>7, ApplyTyped
  <2>9. ASSUME NEW j \in 1 .. i PROVE l[j].seq <= f[i].seq
    <3>1. CASE j = i
      BY <2>8, <3>1
    <3>2. CASE j # i
      <4>1. j \in 1 .. i - 1 /\ j \in 1 .. Len(l)
        BY <2>5, <3>2
      <4>2. l[j].seq <= f[i - 1].seq
        BY <2>6, <4>1
      <4>3. l[j].seq \in Nat /\ f[i - 1].seq \in Nat /\ f[i].seq \in Nat
        <5>1. l[j] \in Lines
          BY <4>1
        <5> QED
          BY <2>6, <2>8, <5>1, LineIs DEF Projections
      <4> QED
        BY <2>8, <4>2, <4>3
    <3> QED
      BY <3>1, <3>2
  <2>10. f[i].seq = 0 \/ \E j \in 1 .. i : l[j].seq = f[i].seq
    <3>1. CASE f[i].seq = l[i].seq
      <4>1. i \in 1 .. i
        BY <2>5
      <4> QED
        BY <3>1, <4>1
    <3>2. CASE f[i].seq = f[i - 1].seq
      <4>1. \A j \in 1 .. i - 1 : j \in 1 .. i
        BY <2>5
      <4>2. f[i - 1].seq = 0 \/ \E j \in 1 .. i - 1 : l[j].seq = f[i - 1].seq
        BY <2>6
      <4> QED
        BY <3>2, <4>1, <4>2
    <3> QED
      BY <2>8, <3>1, <3>2
  <2> QED
    BY <2>8, <2>9, <2>10
<1>3. Fine(Len(l))
  <2>1. Len(l) \in 0 .. Len(l)
    OBVIOUS
  <2> QED
    BY <1>2, <2>1
<1> QED
  BY <1>1, <1>3

-----------------------------------------------------------------------------
(* The rows a save writes lead from the projection to the session.          *)

\* The bodies bs make t of s.
Plays(bs, s, t) ==
    \E T : /\ T[0] = s /\ T[Len(bs)] = t
           /\ \A k \in 1 .. Len(bs) : T[k] = Effect(T[k - 1], bs[k])

LEMMA PlaysNothing == \A s : Plays(<<>>, s, s)
<1> SUFFICES ASSUME NEW s PROVE Plays(<<>>, s, s)
  OBVIOUS
<1> DEFINE T == [k \in {0} |-> s]
<1>1. T[0] = s /\ Len(<<>>) = 0
  OBVIOUS
<1> HIDE DEF T
<1> QED
  BY <1>1 DEF Plays

LEMMA PlaysOne ==
  ASSUME NEW b, NEW s
  PROVE  Plays(<<b>>, s, Effect(s, b))
<1> DEFINE T == [k \in {0, 1} |-> IF k = 0 THEN s ELSE Effect(s, b)]
<1>1. T[0] = s /\ T[1] = Effect(s, b) /\ Len(<<b>>) = 1 /\ <<b>>[1] = b
  OBVIOUS
<1> HIDE DEF T
<1>2. \A k \in 1 .. 1 : k = 1 /\ k - 1 = 0
  OBVIOUS
<1> QED
  BY <1>1, <1>2 DEF Plays

LEMMA PlaysBoth ==
  ASSUME NEW M, NEW a \in Seq(M), NEW b \in Seq(M), NEW s, NEW t, NEW u, Plays(a, s, t), Plays(b, t, u)
  PROVE  Plays(a \o b, s, u)
<1>1. PICK T : /\ T[0] = s /\ T[Len(a)] = t
               /\ \A k \in 1 .. Len(a) : T[k] = Effect(T[k - 1], a[k])
  BY DEF Plays
<1>2. PICK U : /\ U[0] = t /\ U[Len(b)] = u
               /\ \A k \in 1 .. Len(b) : U[k] = Effect(U[k - 1], b[k])
  BY DEF Plays
<1> DEFINE c == a \o b
           V == [k \in 0 .. Len(a) + Len(b) |-> IF k <= Len(a) THEN T[k] ELSE U[k - Len(a)]]
<1>3. /\ Len(c) = Len(a) + Len(b) /\ Len(a) \in Nat /\ Len(b) \in Nat
      /\ \A k \in 1 .. Len(a) : c[k] = a[k]
      /\ \A k \in Len(a) + 1 .. Len(c) : c[k] = b[k - Len(a)]
  <2>1. Len(c) = Len(a) + Len(b) /\ \A k \in 1 .. Len(a) + Len(b) : c[k] = IF k <= Len(a) THEN a[k] ELSE b[k - Len(a)]
    BY ConcatProperties
  <2>2. Len(a) \in Nat /\ Len(b) \in Nat
    OBVIOUS
  <2> HIDE DEF c
  <2>3. ASSUME NEW k \in 1 .. Len(a) PROVE c[k] = a[k]
    <3>1. k \in 1 .. Len(a) + Len(b) /\ k <= Len(a)
      BY <2>2
    <3> QED
      BY <2>1, <3>1
  <2>4. ASSUME NEW k \in Len(a) + 1 .. Len(c) PROVE c[k] = b[k - Len(a)]
    <3>1. k \in 1 .. Len(a) + Len(b) /\ ~(k <= Len(a))
      BY <2>1, <2>2
    <3> QED
      BY <2>1, <3>1
  <2> QED
    BY <2>1, <2>2, <2>3, <2>4
<1>4. /\ \A k \in 0 .. Len(a) : V[k] = T[k]
      /\ \A k \in 0 .. Len(b) : V[Len(a) + k] = U[k]
  <2>1. \A k \in 0 .. Len(a) : V[k] = T[k]
    BY <1>3
  <2>2. ASSUME NEW k \in 0 .. Len(b) PROVE V[Len(a) + k] = U[k]
    <3>1. CASE k = 0
      <4>1. Len(a) + k = Len(a) /\ Len(a) \in 0 .. Len(a)
        BY <1>3, <3>1
      <4>2. V[Len(a) + k] = V[Len(a)]
        BY <4>1
      <4> HIDE DEF V
      <4> QED
        BY <1>1, <1>2, <2>1, <3>1, <4>1, <4>2
    <3>2. CASE k # 0
      <4>1. Len(a) + k \in 0 .. Len(a) + Len(b) /\ ~(Len(a) + k <= Len(a)) /\ (Len(a) + k) - Len(a) = k
        BY <1>3, <3>2
      <4> QED
        BY <4>1
    <3> QED
      BY <3>1, <3>2
  <2> QED
    BY <2>1, <2>2
<1> HIDE DEF c, V
<1>5. V[0] = s /\ V[Len(c)] = u
  <2>1. 0 \in 0 .. Len(a) /\ Len(b) \in 0 .. Len(b)
    BY <1>3
  <2> QED
    BY <1>1, <1>2, <1>3, <1>4, <2>1
<1>6. ASSUME NEW k \in 1 .. Len(c) PROVE V[k] = Effect(V[k - 1], c[k])
  <2>1. CASE k \in 1 .. Len(a)
    <3>1. k \in 0 .. Len(a) /\ k - 1 \in 0 .. Len(a)
      BY <1>3, <2>1
    <3> QED
      BY <1>1, <1>3, <1>4, <2>1, <3>1
  <2>2. CASE k \in Len(a) + 1 .. Len(c)
    <3> DEFINE i == k - Len(a)
    <3>1. /\ i \in 1 .. Len(b) /\ i \in 0 .. Len(b) /\ i - 1 \in 0 .. Len(b)
          /\ k = Len(a) + i /\ k - 1 = Len(a) + (i - 1)
      BY <1>3, <2>2
    <3>2. c[k] = b[i]
      BY <1>3, <2>2
    <3> HIDE DEF i
    <3>3. V[k] = U[i] /\ V[k - 1] = U[i - 1]
      BY <1>4, <3>1
    <3> QED
      BY <1>2, <3>1, <3>2, <3>3
  <2> QED
    BY <1>3, <2>1, <2>2
<1> QED
  BY <1>5, <1>6 DEF c, Plays

LEMMA OneMore ==
  ASSUME NEW M, NEW l \in Seq(M), NEW k \in 1 .. Len(l)
  PROVE  SubSeq(l, 1, k) = Append(SubSeq(l, 1, k - 1), l[k]) /\ SubSeq(l, 1, k - 1) \in Seq(M)
<1>1. 1 \in 1 .. Len(l) /\ k \in 1 .. Len(l) /\ k \in Int /\ k - 1 \in Int
  OBVIOUS
<1>2. SubSeq(l, 1, k) = SubSeq(l, 1, k - 1) \o <<l[k]>>
  BY <1>1, SubSeqRecursiveSecond
<1>3. SubSeq(l, 1, k - 1) \in Seq(M)
  <2>1. \A i \in 1 .. k - 1 : l[i] \in M
    OBVIOUS
  <2> QED
    BY <1>1, <2>1, SubSeqProperties
<1> DEFINE a == SubSeq(l, 1, k - 1)
<1>4. a \o <<l[k]>> = Append(a, l[k])
  <2>1. a \in Seq(M)
    BY <1>3
  <2> HIDE DEF a
  <2> QED
    BY <2>1
<1> QED
  BY <1>2, <1>3, <1>4

\* The messages after the first n, one row each.
LEMMA PlaysAppended ==
  ASSUME Counts, NEW m \in Seq(1 .. MaxMessages), NEW n \in 0 .. Len(m),
         NEW r \in SUBSET (1 .. MaxMessages), NEW v \in Values
  PROVE  LET bs == [i \in 1 .. Len(m) - n |-> Row("appended", m[n + i])]
         IN  Plays(bs, Session(SubSeq(m, 1, n), r, v), Session(m, r, v))
<1> DEFINE bs == [i \in 1 .. Len(m) - n |-> Row("appended", m[n + i])]
           T == [k \in 0 .. Len(m) - n |-> Session(SubSeq(m, 1, n + k), r, v)]
<1>1. Len(m) \in Nat /\ n \in Nat /\ Len(m) - n \in Nat
  OBVIOUS
<1>2. Len(bs) = Len(m) - n
  BY <1>1
<1>3. T[0] = Session(SubSeq(m, 1, n), r, v) /\ T[Len(bs)] = Session(m, r, v)
  <2>1. 0 \in 0 .. Len(m) - n /\ Len(m) - n \in 0 .. Len(m) - n /\ n + 0 = n /\ n + (Len(m) - n) = Len(m)
    BY <1>1
  <2>2. SubSeq(m, 1, Len(m)) = m
    OBVIOUS
  <2>3. T[0] = Session(SubSeq(m, 1, n + 0), r, v)
        /\ T[Len(m) - n] = Session(SubSeq(m, 1, n + (Len(m) - n)), r, v)
    BY <2>1
  <2> HIDE DEF bs, T
  <2> QED
    BY <1>2, <2>1, <2>2, <2>3
<1>4. ASSUME NEW k \in 1 .. Len(bs) PROVE T[k] = Effect(T[k - 1], bs[k])
  <2>1. k \in 1 .. Len(m) - n /\ k \in 0 .. Len(m) - n /\ k - 1 \in 0 .. Len(m) - n /\ n + k \in 1 .. Len(m)
    BY <1>1, <1>2
  <2> DEFINE old == SubSeq(m, 1, n + k - 1)
  <2>2. SubSeq(m, 1, n + k) = Append(old, m[n + k]) /\ old \in Seq(1 .. MaxMessages)
    <3> DEFINE j == n + k
    <3>1. j \in 1 .. Len(m)
      BY <2>1
    <3> HIDE DEF j
    <3>2. SubSeq(m, 1, j) = Append(SubSeq(m, 1, j - 1), m[j]) /\ SubSeq(m, 1, j - 1) \in Seq(1 .. MaxMessages)
      BY <3>1, OneMore
    <3> QED
      BY <3>2 DEF j
  <2>3. T[k - 1] = Session(old, r, v)
    <3>1. n + (k - 1) = n + k - 1
      BY <1>1, <2>1
    <3>2. T[k - 1] = Session(SubSeq(m, 1, n + (k - 1)), r, v)
      BY <2>1
    <3> HIDE DEF T
    <3> QED
      BY <3>1, <3>2
  <2>4. T[k] = Session(Append(old, m[n + k]), r, v)
    <3>1. T[k] = Session(SubSeq(m, 1, n + k), r, v)
      BY <2>1
    <3> HIDE DEF T, old
    <3> QED
      BY <2>2, <3>1
  <2>5. bs[k].type = "appended" /\ bs[k].value = m[n + k]
    BY <2>1 DEF Row
  <2> HIDE DEF old, T, bs
  <2>6. T[k - 1] # Nothing
    BY <2>2, <2>3, SessionTyped DEF Counts
  <2>7. Effect(T[k - 1], bs[k]) = Session(Append(T[k - 1].messages, bs[k].value), T[k - 1].reads, T[k - 1].field)
    BY <2>5, <2>6 DEF Effect
  <2>8. T[k - 1].messages = old /\ T[k - 1].reads = r /\ T[k - 1].field = v
    BY <2>3 DEF Session
  <2> QED
    BY <2>4, <2>5, <2>7, <2>8
<1> HIDE DEF T
<1> QED
  BY <1>3, <1>4 DEF Plays

Changes ==
    {e \in [type : {"started", "appended", "replaced", "reads", "allReads", "field"},
            value : Values \cup (1 .. MaxMessages) \cup Seq(1 .. MaxMessages) \cup SUBSET (1 .. MaxMessages)] :
        Proper(e)}

LEMMA RowChanges ==
  /\ \A v \in Values : Row("started", v) \in Changes /\ Row("field", v) \in Changes
  /\ \A i \in 1 .. MaxMessages : Row("appended", i) \in Changes
  /\ \A m \in Seq(1 .. MaxMessages) : Row("replaced", m) \in Changes
  /\ \A r \in SUBSET (1 .. MaxMessages) : Row("reads", r) \in Changes /\ Row("allReads", r) \in Changes
<1>1. \A v \in Values : Row("started", v) \in Changes /\ Row("field", v) \in Changes
  BY DEF Row, Changes, Proper
<1>2. \A i \in 1 .. MaxMessages : Row("appended", i) \in Changes
  BY DEF Row, Changes, Proper
<1>3. \A m \in Seq(1 .. MaxMessages) : Row("replaced", m) \in Changes
  BY DEF Row, Changes, Proper
<1>4. \A r \in SUBSET (1 .. MaxMessages) : Row("reads", r) \in Changes /\ Row("allReads", r) \in Changes
  BY DEF Row, Changes, Proper
<1> QED
  BY <1>1, <1>2, <1>3, <1>4

LEMMA MessagesPlay ==
  ASSUME Counts, NEW p \in Seq(1 .. MaxMessages), NEW m \in Seq(1 .. MaxMessages),
         NEW r \in SUBSET (1 .. MaxMessages), NEW v \in Values
  PROVE  MessageEvents(p, m) \in Seq(Changes) /\ Plays(MessageEvents(p, m), Session(p, r, v), Session(m, r, v))
<1>1. CASE IsPrefix(p, m)
  <2> DEFINE bs == [i \in 1 .. Len(m) - Len(p) |-> Row("appended", m[Len(p) + i])]
  <2>1. MessageEvents(p, m) = bs
    BY <1>1 DEF MessageEvents
  <2>2. Len(p) \in 0 .. Len(m) /\ SubSeq(p, 1, Len(p)) = SubSeq(m, 1, Len(p))
    BY <1>1 DEF IsPrefix
  <2>3. SubSeq(m, 1, Len(p)) = p
    BY <2>2, SubSeqFull
  <2>4. Plays(bs, Session(SubSeq(m, 1, Len(p)), r, v), Session(m, r, v))
    BY <2>2, PlaysAppended
  <2>5. bs \in Seq(Changes)
    <3>1. \A i \in 1 .. Len(m) - Len(p) : Row("appended", m[Len(p) + i]) \in Changes
      <4>1. ASSUME NEW i \in 1 .. Len(m) - Len(p) PROVE m[Len(p) + i] \in 1 .. MaxMessages
        <5>1. Len(p) + i \in 1 .. Len(m)
          BY <2>2
        <5>2. \A j \in 1 .. Len(m) : m[j] \in 1 .. MaxMessages
          BY DEF Counts
        <5> QED
          BY <5>1, <5>2
      <4> QED
        BY <4>1, RowChanges
    <3>2. Len(m) - Len(p) \in Nat
      BY <2>2
    <3> QED
      BY <3>1, <3>2
  <2> HIDE DEF bs
  <2> QED
    BY <2>1, <2>3, <2>4, <2>5
<1>2. CASE ~IsPrefix(p, m)
  <2> DEFINE b == Row("replaced", m)
  <2>1. MessageEvents(p, m) = <<b>>
    BY <1>2 DEF MessageEvents
  <2>2. b \in Changes /\ b.type = "replaced" /\ b.value = m
    BY RowChanges DEF Row
  <2> HIDE DEF b
  <2>3. Session(p, r, v) # Nothing
    BY SessionTyped DEF Counts
  <2>4. Effect(Session(p, r, v), b) = Session(m, r, v)
    BY <2>2, <2>3 DEF Effect, Session
  <2>5. Plays(<<b>>, Session(p, r, v), Effect(Session(p, r, v), b))
    BY PlaysOne
  <2>6. <<b>> \in Seq(Changes)
    BY <2>2
  <2> QED
    BY <2>1, <2>4, <2>5, <2>6
<1> QED
  BY <1>1, <1>2

LEMMA TrackerPlays ==
  ASSUME Counts, NEW m \in Seq(1 .. MaxMessages), NEW v \in Values,
         NEW p \in SUBSET (1 .. MaxMessages), NEW r \in SUBSET (1 .. MaxMessages)
  PROVE  TrackerEvents(p, r) \in Seq(Changes) /\ Plays(TrackerEvents(p, r), Session(m, p, v), Session(m, r, v))
<1>0. Session(m, p, v) # Nothing
  BY SessionTyped DEF Counts
<1>1. CASE r = p
  BY <1>1, PlaysNothing DEF TrackerEvents
<1>2. CASE r # p /\ p \subseteq r
  <2> DEFINE b == Row("reads", r \ p)
  <2>1. TrackerEvents(p, r) = <<b>>
    BY <1>2 DEF TrackerEvents
  <2>2. b \in Changes /\ b.type = "reads" /\ b.value = r \ p
    BY RowChanges DEF Row
  <2> HIDE DEF b
  <2>3. p \cup b.value = r
    BY <1>2, <2>2
  <2>4. Effect(Session(m, p, v), b) = Session(m, r, v)
    BY <1>0, <2>2, <2>3 DEF Effect, Session
  <2>5. Plays(<<b>>, Session(m, p, v), Effect(Session(m, p, v), b))
    BY PlaysOne
  <2>6. <<b>> \in Seq(Changes)
    BY <2>2
  <2> QED
    BY <2>1, <2>4, <2>5, <2>6
<1>3. CASE r # p /\ ~(p \subseteq r)
  <2> DEFINE b == Row("allReads", r)
  <2>1. TrackerEvents(p, r) = <<b>>
    BY <1>3 DEF TrackerEvents
  <2>2. b \in Changes /\ b.type = "allReads" /\ b.value = r
    BY RowChanges DEF Row
  <2> HIDE DEF b
  <2>4. Effect(Session(m, p, v), b) = Session(m, r, v)
    BY <1>0, <2>2 DEF Effect, Session
  <2>5. Plays(<<b>>, Session(m, p, v), Effect(Session(m, p, v), b))
    BY PlaysOne
  <2>6. <<b>> \in Seq(Changes)
    BY <2>2
  <2> QED
    BY <2>1, <2>4, <2>5, <2>6
<1> QED
  BY <1>1, <1>2, <1>3

LEMMA FieldPlays ==
  ASSUME Counts, NEW m \in Seq(1 .. MaxMessages), NEW r \in SUBSET (1 .. MaxMessages), NEW p \in Values, NEW v \in Values
  PROVE  FieldEvents(p, v) \in Seq(Changes) /\ Plays(FieldEvents(p, v), Session(m, r, p), Session(m, r, v))
<1>0. Session(m, r, p) # Nothing
  BY SessionTyped DEF Counts
<1>1. CASE v = p
  BY <1>1, PlaysNothing DEF FieldEvents
<1>2. CASE v # p
  <2> DEFINE b == Row("field", v)
  <2>1. FieldEvents(p, v) = <<b>>
    BY <1>2 DEF FieldEvents
  <2>2. b \in Changes /\ b.type = "field" /\ b.value = v
    BY RowChanges DEF Row
  <2> HIDE DEF b
  <2>4. Effect(Session(m, r, p), b) = Session(m, r, v)
    BY <1>0, <2>2 DEF Effect, Session
  <2>5. Plays(<<b>>, Session(m, r, p), Effect(Session(m, r, p), b))
    BY PlaysOne
  <2>6. <<b>> \in Seq(Changes)
    BY <2>2
  <2> QED
    BY <2>1, <2>4, <2>5, <2>6
<1> QED
  BY <1>1, <1>2

\* diffSnapshotToEvents and the projector are inverse to each other.
LEMMA BodiesPlay ==
  ASSUME Counts, NEW p \in Sessions \cup {Nothing}, NEW t \in Sessions
  PROVE  Bodies(p, t) \in Seq(Changes) /\ Plays(Bodies(p, t), p, t)
<1>1. /\ t.messages \in Seq(1 .. MaxMessages) /\ t.reads \in SUBSET (1 .. MaxMessages) /\ t.field \in Values
      /\ t = Session(t.messages, t.reads, t.field)
  BY DEF Sessions, Session
<1>2. CASE p = Nothing
  <2> DEFINE b == Row("started", t.field)
             a == MessageEvents(<<>>, t.messages)
             c == TrackerEvents({}, t.reads)
  <2>1. Bodies(p, t) = (<<b>> \o a) \o c
    BY <1>2 DEF Bodies
  <2>2. b \in Changes /\ b.type = "started" /\ b.value = t.field
    BY <1>1, RowChanges DEF Row
  <2>3. Effect(p, b) = Session(<<>>, {}, t.field)
    <3> HIDE DEF b
    <3> QED
      BY <2>2 DEF Effect
  <2>4. Plays(<<b>>, p, Session(<<>>, {}, t.field)) /\ <<b>> \in Seq(Changes)
    <3> HIDE DEF b
    <3>1. Plays(<<b>>, p, Effect(p, b))
      BY PlaysOne
    <3> QED
      BY <2>2, <2>3, <3>1
  <2>5. a \in Seq(Changes) /\ Plays(a, Session(<<>>, {}, t.field), Session(t.messages, {}, t.field))
    <3>1. <<>> \in Seq(1 .. MaxMessages) /\ {} \in SUBSET (1 .. MaxMessages)
      OBVIOUS
    <3> QED
      BY <1>1, <3>1, MessagesPlay
  <2>6. c \in Seq(Changes) /\ Plays(c, Session(t.messages, {}, t.field), t)
    <3>1. {} \in SUBSET (1 .. MaxMessages)
      OBVIOUS
    <3>2. c \in Seq(Changes) /\ Plays(c, Session(t.messages, {}, t.field), Session(t.messages, t.reads, t.field))
      BY <1>1, <3>1, TrackerPlays
    <3> HIDE DEF c
    <3> QED
      BY <1>1, <3>2
  <2> HIDE DEF a, b, c
  <2>7. <<b>> \o a \in Seq(Changes) /\ (<<b>> \o a) \o c \in Seq(Changes)
    BY <2>4, <2>5, <2>6
  <2>8. Plays(<<b>> \o a, p, Session(t.messages, {}, t.field))
    BY <2>4, <2>5, PlaysBoth
  <2>9. Plays((<<b>> \o a) \o c, p, t)
    BY <2>6, <2>7, <2>8, PlaysBoth
  <2> QED
    BY <2>1, <2>7, <2>9
<1>3. CASE p # Nothing
  <2> DEFINE a == MessageEvents(p.messages, t.messages)
             b == TrackerEvents(p.reads, t.reads)
             c == FieldEvents(p.field, t.field)
             p1 == Session(t.messages, p.reads, p.field)
             p2 == Session(t.messages, t.reads, p.field)
  <2>1. /\ p.messages \in Seq(1 .. MaxMessages) /\ p.reads \in SUBSET (1 .. MaxMessages) /\ p.field \in Values
        /\ p = Session(p.messages, p.reads, p.field)
    BY <1>3 DEF Sessions, Session
  <2>2. Bodies(p, t) = (a \o b) \o c
    BY <1>3 DEF Bodies
  <2>3. a \in Seq(Changes) /\ Plays(a, p, p1)
    <3>1. a \in Seq(Changes) /\ Plays(a, Session(p.messages, p.reads, p.field), p1)
      BY <1>1, <2>1, MessagesPlay
    <3> HIDE DEF a, p1
    <3> QED
      BY <2>1, <3>1
  <2>4. b \in Seq(Changes) /\ Plays(b, p1, p2)
    BY <1>1, <2>1, TrackerPlays
  <2>5. c \in Seq(Changes) /\ Plays(c, p2, t)
    <3>1. c \in Seq(Changes) /\ Plays(c, p2, Session(t.messages, t.reads, t.field))
      BY <1>1, <2>1, FieldPlays
    <3> HIDE DEF c, p2
    <3> QED
      BY <1>1, <3>1
  <2> HIDE DEF a, b, c, p1, p2
  <2>6. a \o b \in Seq(Changes) /\ (a \o b) \o c \in Seq(Changes)
    BY <2>3, <2>4, <2>5
  <2>7. Plays(a \o b, p, p2)
    BY <2>3, <2>4, PlaysBoth
  <2>8. Plays((a \o b) \o c, p, t)
    BY <2>5, <2>6, <2>7, PlaysBoth
  <2> QED
    BY <2>2, <2>6, <2>8
<1> QED
  BY <1>2, <1>3

LEMMA StampedRows ==
  ASSUME NEW bs \in Seq(Changes), NEW first \in Nat \ {0}
  PROVE  LET rows == Stamped(bs, first)
         IN  /\ rows \in Seq(Lines) /\ Len(rows) = Len(bs)
             /\ \A i \in 1 .. Len(bs) : /\ rows[i].seq = first + i - 1
                                        /\ rows[i].type = bs[i].type /\ rows[i].value = bs[i].value
<1> DEFINE rows == Stamped(bs, first)
<1>1. Len(bs) \in Nat /\ DOMAIN bs = 1 .. Len(bs)
  OBVIOUS
<1>2. rows = [i \in 1 .. Len(bs) |-> [seq |-> first + i - 1, type |-> bs[i].type, value |-> bs[i].value]]
  BY <1>1 DEF Stamped
<1>3. \A i \in 1 .. Len(bs) : [seq |-> first + i - 1, type |-> bs[i].type, value |-> bs[i].value] \in Lines
  <2> SUFFICES ASSUME NEW i \in 1 .. Len(bs)
               PROVE  [seq |-> first + i - 1, type |-> bs[i].type, value |-> bs[i].value] \in Lines
    OBVIOUS
  <2> DEFINE b == bs[i]
             n == first + i - 1
  <2>1. b \in Changes /\ n \in Nat \ {0}
    BY <1>1
  <2> HIDE DEF b, n
  <2>2. [seq |-> n, type |-> b.type, value |-> b.value] \in Lines
    BY <2>1 DEF Changes, Lines, Proper
  <2> QED
    BY <2>2 DEF b, n
<1> HIDE DEF rows
<1>4. rows \in Seq(Lines) /\ Len(rows) = Len(bs)
  BY <1>1, <1>2, <1>3
<1> QED
  BY <1>2, <1>4 DEF rows

\* Rows with fresh seqs behind a log play on from its projection.
LEMMA Replays ==
  ASSUME NEW l \in Seq(Lines), NEW bs \in Seq(Changes), NEW first \in Nat, first > Project(l).seq,
         NEW t, Plays(bs, Project(l).s, t)
  PROVE  Project(l \o Stamped(bs, first)).s = t
<1> DEFINE rows == Stamped(bs, first)
           n == Len(rows)
           R(k) == Project(l \o SubSeq(rows, 1, k))
<1>0. Project(l) \in Projections /\ Project(l).seq \in Nat /\ first \in Nat \ {0}
  BY ProjectTyped DEF Projections
<1>1. /\ rows \in Seq(Lines) /\ n = Len(bs) /\ n \in Nat
      /\ \A i \in 1 .. n : /\ rows[i].seq = first + i - 1
                           /\ rows[i].type = bs[i].type /\ rows[i].value = bs[i].value
  BY <1>0, StampedRows
<1> HIDE DEF rows
<1>2. R(0) = Project(l)
  <2>1. SubSeq(rows, 1, 0) = <<>>
    BY SubSeqEmpty
  <2>2. l \o <<>> = l
    OBVIOUS
  <2> QED
    BY <2>1, <2>2
<1>3. ASSUME NEW k \in 1 .. n PROVE R(k) = Apply(R(k - 1), rows[k])
  <2>1. SubSeq(rows, 1, k) = Append(SubSeq(rows, 1, k - 1), rows[k]) /\ SubSeq(rows, 1, k - 1) \in Seq(Lines)
    BY <1>1, OneMore
  <2> DEFINE a == SubSeq(rows, 1, k - 1)
  <2>2. l \o SubSeq(rows, 1, k) = Append(l \o a, rows[k])
    <3> DEFINE b == SubSeq(rows, 1, k)
               e == rows[k]
    <3>0. e \in Lines
      BY <1>1
    <3>1. a \in Seq(Lines) /\ b = Append(a, e) /\ e \in Lines
      BY <2>1, <3>0, Zenon
    <3> HIDE DEF a, b, e
    <3>2. l \o Append(a, e) = Append(l \o a, e)
      BY <3>1
    <3> QED
      BY <3>1, <3>2 DEF b, e
  <2>3. l \o a \in Seq(Lines) /\ rows[k] \in Lines
    BY <1>1, <2>1
  <2> HIDE DEF a
  <2>4. Project(Append(l \o a, rows[k])) = Apply(Project(l \o a), rows[k])
    BY <2>3, ProjectAppend
  <2> QED
    BY <2>2, <2>4 DEF a
<1> HIDE DEF R
<1>4. PICK T : /\ T[0] = Project(l).s /\ T[n] = t
               /\ \A k \in 1 .. n : T[k] = Effect(T[k - 1], bs[k])
  BY <1>1 DEF Plays
<1> DEFINE Fine(k) == R(k) \in Projections /\ R(k).seq < first + k /\ R(k).s = T[k]
           S == {k \in 0 .. n : ~Fine(k)}
<1>5. S = {}
  <2> SUFFICES ASSUME S # {} PROVE FALSE
    OBVIOUS
  <2>1. PICK k \in S : \A j \in S : k <= j
    <3>1. S \in SUBSET Nat
      BY <1>1
    <3> QED
      BY <3>1, Least
  <2>2. k # 0
    BY <1>0, <1>2, <1>4
  <2>3. k \in 1 .. n /\ k - 1 \in 0 .. n /\ ~(k <= k - 1) /\ first + (k - 1) = first + k - 1
    BY <1>0, <1>1, <2>2
  <2>4. Fine(k - 1)
    BY <2>1, <2>3
  <2>5. rows[k].seq = first + k - 1 /\ rows[k].type = bs[k].type /\ rows[k].value = bs[k].value
    BY <1>1, <2>3
  <2>6. rows[k] \in Lines
    BY <1>1, <2>3
  <2> DEFINE p == R(k - 1)
             e == rows[k]
  <2>7. p \in Projections /\ e.seq \in Nat /\ e \in Lines /\ p.seq < e.seq /\ p.seq \in Nat
    BY <1>0, <2>3, <2>4, <2>5, <2>6 DEF Projections
  <2>8. Proper(e)
    BY <2>7, LineIs
  <2> HIDE DEF p, e
  <2>9. Apply(p, e) = [seq |-> e.seq, s |-> Effect(p.s, e)]
    <3>1. Apply(p, e) = IF e.seq <= p.seq THEN p ELSE [seq |-> e.seq, s |-> Effect(p.s, e)]
      BY <2>7, <2>8, ApplyIs
    <3> QED
      BY <2>7, <3>1
  <2>10. R(k) = Apply(p, e)
    BY <1>3, <2>3 DEF p, e
  <2>11. Effect(p.s, e) = Effect(T[k - 1], bs[k])
    <3>1. p.s = T[k - 1] /\ e.type = bs[k].type /\ e.value = bs[k].value
      BY <2>4, <2>5 DEF p, e
    <3> QED
      BY <3>1 DEF Effect
  <2>12. R(k).s = T[k]
    BY <1>4, <2>3, <2>9, <2>10, <2>11
  <2>13. R(k).seq < first + k
    <3>1. e.seq = first + k - 1
      BY <2>5 DEF e
    <3> QED
      BY <1>0, <2>3, <2>9, <2>10, <3>1
  <2>14. R(k) \in Projections
    BY <2>7, <2>10, ApplyTyped
  <2> QED
    BY <2>12, <2>13, <2>14
<1>6. Fine(n)
  <2>1. n \in 0 .. n
    BY <1>1
  <2> HIDE DEF n
  <2> QED
    BY <1>5, <2>1
<1>7. R(n) = Project(l \o rows)
  BY <1>1, SubSeqFull DEF R
<1> QED
  BY <1>4, <1>6, <1>7 DEF rows

-----------------------------------------------------------------------------
(* What an append leaves of the file.                                       *)

\* A torn file ends in a line that does not parse.
TornLine == torn => log # <<>> /\ log[Len(log)] = Garbage

\* Rows, or all but the first of them when it joined the torn line, and the line
\* that was being written.
LEMMA WrittenIs ==
  ASSUME log \in Seq(Lines), TornLine, NEW rows \in Seq(Lines), NEW k \in 0 .. Len(rows), NEW half \in BOOLEAN
  PROVE  \E ys \in Seq(Lines), a \in {0, 1} :
           /\ Written(rows, k, half) = log \o ys
           /\ \A i \in 1 .. Len(ys) : ys[i] = Garbage \/ (i + a \in 1 .. Len(rows) /\ ys[i] = rows[i + a])
           /\ half \/ (torn /\ k = 0) => Written(rows, k, half) # <<>>
                                          /\ Written(rows, k, half)[Len(Written(rows, k, half))] = Garbage
           /\ (~torn \/ k = 0) /\ ~half => ys = SubSeq(rows, 1, k)
<1>0. Garbage \in Lines /\ Len(rows) \in Nat /\ Len(log) \in Nat /\ k \in Nat
  BY DEF Lines
<1> DEFINE a == IF torn /\ k > 0 THEN 1 ELSE 0
           xs == IF torn /\ k > 0 THEN Tail(SubSeq(rows, 1, k)) ELSE SubSeq(rows, 1, k)
           gs == IF half /\ ~(torn /\ k = 0) THEN <<Garbage>> ELSE <<>>
           ys == xs \o gs
           W  == Written(rows, k, half)
<1>1. \A i \in 1 .. k : rows[i] \in Lines
  BY <1>0
<1>2. /\ SubSeq(rows, 1, k) \in Seq(Lines) /\ Len(SubSeq(rows, 1, k)) = k
      /\ \A i \in 1 .. k : SubSeq(rows, 1, k)[i] = rows[i]
  BY <1>0, <1>1
<1>3. /\ xs \in Seq(Lines) /\ Len(xs) = k - a
      /\ \A i \in 1 .. k - a : i + a \in 1 .. Len(rows) /\ xs[i] = rows[i + a]
  <2>1. CASE torn /\ k > 0
    <3> DEFINE q == SubSeq(rows, 1, k)
    <3>1. q \in Seq(Lines) /\ Len(q) = k /\ k > 0 /\ \A i \in 1 .. k : q[i] = rows[i]
      BY <1>2, <2>1
    <3> HIDE DEF q
    <3>2. Tail(q) \in Seq(Lines) /\ Len(Tail(q)) = k - 1 /\ \A i \in 1 .. k - 1 : Tail(q)[i] = q[i + 1]
      BY <1>0, <3>1
    <3>3. a = 1 /\ xs = Tail(q)
      BY <2>1 DEF q
    <3> HIDE DEF a, xs
    <3> QED
      BY <1>0, <3>1, <3>2, <3>3
  <2>2. CASE ~(torn /\ k > 0)
    <3>1. a = 0 /\ xs = SubSeq(rows, 1, k)
      BY <2>2
    <3> HIDE DEF a, xs
    <3> QED
      BY <1>0, <1>2, <3>1
  <2> QED
    BY <2>1, <2>2
<1>4. gs \in Seq(Lines) /\ (gs = <<>> \/ gs = <<Garbage>>)
  BY <1>0
<1>5. W = (log \o xs) \o gs
  <2>1. CASE torn /\ k > 0
    <3>1. Front(log) \o <<Garbage>> = log
      <4>1. log # <<>> /\ log[Len(log)] = Garbage
        BY <2>1 DEF TornLine
      <4>2. Len(log) \in 1 .. Len(log)
        BY <1>0, <4>1
      <4>3. SubSeq(log, 1, Len(log)) = Append(SubSeq(log, 1, Len(log) - 1), log[Len(log)])
            /\ SubSeq(log, 1, Len(log) - 1) \in Seq(Lines)
        BY <4>2, OneMore
      <4>4. SubSeq(log, 1, Len(log)) = log
        BY SubSeqFull
      <4> DEFINE fr == SubSeq(log, 1, Len(log) - 1)
      <4>5. fr \in Seq(Lines) /\ log = Append(fr, Garbage)
        BY <4>1, <4>3, <4>4
      <4> HIDE DEF fr
      <4>6. fr \o <<Garbage>> = Append(fr, Garbage)
        BY <1>0, <4>5
      <4> QED
        BY <4>5, <4>6 DEF fr, Front
    <3> QED
      BY <2>1, <3>1 DEF Written
  <2>2. CASE ~(torn /\ k > 0)
    BY <2>2 DEF Written
  <2> QED
    BY <2>1, <2>2
<1> HIDE DEF a, xs, gs, W
<1>6. W = log \o ys /\ ys \in Seq(Lines)
  <2>1. (log \o xs) \o gs = log \o (xs \o gs)
    <3>1. log \in Seq(Lines) /\ xs \in Seq(Lines) /\ gs \in Seq(Lines)
      BY <1>3, <1>4
    <3> QED
      BY <3>1, ConcatAssociative, SMTT(20)
  <2> QED
    BY <1>3, <1>4, <1>5, <2>1
<1>7. a \in {0, 1} /\ Len(xs) \in Nat
  BY <1>3 DEF a
<1>8. ASSUME NEW i \in 1 .. Len(ys)
      PROVE  ys[i] = Garbage \/ (i + a \in 1 .. Len(rows) /\ ys[i] = rows[i + a])
  <2>1. CASE gs = <<>>
    <3>1. ys = xs
      BY <1>3, <2>1
    <3> HIDE DEF ys
    <3> QED
      BY <1>3, <3>1
  <2>2. CASE gs = <<Garbage>>
    <3>1. ys = Append(xs, Garbage)
      BY <1>3, <2>2
    <3>2. Len(ys) = Len(xs) + 1 /\ ys[Len(xs) + 1] = Garbage /\ \A j \in 1 .. Len(xs) : ys[j] = xs[j]
      BY <1>0, <1>3, <3>1
    <3> HIDE DEF ys
    <3>3. i \in 1 .. Len(xs) \/ i = Len(xs) + 1
      BY <1>7, <3>2
    <3> QED
      BY <1>3, <3>2, <3>3
  <2> QED
    BY <1>4, <2>1, <2>2
<1>9. half \/ (torn /\ k = 0) => W # <<>> /\ W[Len(W)] = Garbage
  <2>1. CASE half /\ ~(torn /\ k = 0)
    <3> DEFINE v == log \o xs
    <3>1. v \in Seq(Lines) /\ W = Append(v, Garbage)
      <4>1. gs = <<Garbage>>
        BY <2>1 DEF gs
      <4>2. v \in Seq(Lines)
        BY <1>3
      <4> HIDE DEF v
      <4>3. v \o <<Garbage>> = Append(v, Garbage)
        BY <1>0, <4>2
      <4> QED
        BY <1>5, <4>1, <4>2, <4>3 DEF v
    <3> HIDE DEF v
    <3> QED
      BY <1>0, <3>1
  <2>2. CASE torn /\ k = 0
    <3>1. gs = <<>> /\ xs = <<>>
      <4>1. SubSeq(rows, 1, 0) = <<>>
        BY SubSeqEmpty
      <4> QED
        BY <2>2, <4>1 DEF gs, xs
    <3>2. W = log
      BY <1>5, <3>1
    <3> QED
      BY <2>2, <3>2 DEF TornLine
  <2> QED
    BY <2>1, <2>2
<1>10. (~torn \/ k = 0) /\ ~half => ys = SubSeq(rows, 1, k)
  <2> SUFFICES ASSUME ~torn \/ k = 0, ~half PROVE ys = SubSeq(rows, 1, k)
    OBVIOUS
  <2>1. gs = <<>> /\ xs = SubSeq(rows, 1, k)
    BY DEF gs, xs
  <2> QED
    BY <1>3, <2>1
<1> HIDE DEF ys
<1>11. /\ ys \in Seq(Lines) /\ a \in {0, 1}
       /\ W = log \o ys
       /\ \A i \in 1 .. Len(ys) : ys[i] = Garbage \/ (i + a \in 1 .. Len(rows) /\ ys[i] = rows[i + a])
       /\ half \/ (torn /\ k = 0) => W # <<>> /\ W[Len(W)] = Garbage
       /\ (~torn \/ k = 0) /\ ~half => ys = SubSeq(rows, 1, k)
  BY <1>6, <1>7, <1>8, <1>9, <1>10
<1> QED
  BY <1>11 DEF W

Ordered(l) == \A i, j \in DOMAIN l : i < j /\ l[i].seq > 0 /\ l[j].seq > 0 => l[i].seq < l[j].seq

\* An append of fresh rows keeps the order, and leaves what is there alone.
LEMMA WrittenFits ==
  ASSUME log \in Seq(Lines), TornLine, Ordered(log), NEW rows \in Seq(Lines), NEW k \in 0 .. Len(rows),
         NEW half \in BOOLEAN, NEW first \in Nat \ {0}, \A i \in DOMAIN log : log[i].seq < first,
         \A i \in 1 .. Len(rows) : rows[i].seq = first + i - 1
  PROVE  LET W == Written(rows, k, half)
         IN  /\ W \in Seq(Lines) /\ Ordered(W)
             /\ \A i \in DOMAIN W : W[i].seq < first + Len(rows)
             /\ half \/ (torn /\ k = 0) => W # <<>> /\ W[Len(W)] = Garbage
             /\ Len(W) >= Len(log) /\ \A i \in DOMAIN log : W[i] = log[i]
<1> DEFINE W == Written(rows, k, half)
<1>1. PICK ys \in Seq(Lines), a \in {0, 1} :
        /\ W = log \o ys
        /\ \A i \in 1 .. Len(ys) : ys[i] = Garbage \/ (i + a \in 1 .. Len(rows) /\ ys[i] = rows[i + a])
        /\ half \/ (torn /\ k = 0) => W # <<>> /\ W[Len(W)] = Garbage
        /\ (~torn \/ k = 0) /\ ~half => ys = SubSeq(rows, 1, k)
  BY WrittenIs
<1> HIDE DEF W
<1>2. /\ W \in Seq(Lines) /\ Len(W) = Len(log) + Len(ys) /\ DOMAIN W = 1 .. Len(W)
      /\ Len(log) \in Nat /\ Len(ys) \in Nat /\ Len(rows) \in Nat /\ DOMAIN log = 1 .. Len(log)
  BY <1>1
<1>3. \A i \in 1 .. Len(log) : W[i] = log[i]
  <2>1. \A i \in 1 .. Len(log) + Len(ys) : (log \o ys)[i] = IF i <= Len(log) THEN log[i] ELSE ys[i - Len(log)]
    BY ConcatProperties
  <2> QED
    BY <1>1, <1>2, <2>1
<1>4. ASSUME NEW i \in DOMAIN W, i > Len(log)
      PROVE  LET n == i - Len(log) IN n \in 1 .. Len(ys) /\ W[i] = ys[n]
  <2>1. \A j \in 1 .. Len(log) + Len(ys) : (log \o ys)[j] = IF j <= Len(log) THEN log[j] ELSE ys[j - Len(log)]
    BY ConcatProperties
  <2>2. i \in 1 .. Len(log) + Len(ys) /\ ~(i <= Len(log)) /\ i - Len(log) \in 1 .. Len(ys)
    BY <1>2, <1>4
  <2> QED
    BY <1>1, <2>1, <2>2
\* A new row has its own seq, from first on.
<1>5. ASSUME NEW i \in DOMAIN W, i > Len(log), W[i].seq > 0
      PROVE  /\ i - Len(log) + a \in 1 .. Len(rows)
             /\ W[i].seq = first + (i - Len(log) + a) - 1
  <2> DEFINE n == i - Len(log)
  <2>1. n \in 1 .. Len(ys) /\ W[i] = ys[n]
    BY <1>4, <1>5
  <2>2. Garbage.seq = 0
    BY DEF Garbage
  <2> HIDE DEF n
  <2>3. n + a \in 1 .. Len(rows) /\ W[i] = rows[n + a]
    BY <1>1, <1>5, <2>1, <2>2
  <2> QED
    BY <2>3 DEF n
<1>6. \A i \in DOMAIN W : W[i].seq \in Nat
  <2>1. \A i \in DOMAIN W : W[i] \in Lines
    BY <1>2
  <2> QED
    BY <2>1, LineIs
<1>7. ASSUME NEW i \in DOMAIN W PROVE W[i].seq < first + Len(rows)
  <2>1. CASE i <= Len(log)
    <3>1. i \in DOMAIN log /\ W[i] = log[i] /\ log[i].seq < first
      BY <1>2, <1>3, <2>1
    <3> QED
      BY <1>2, <1>6, <3>1
  <2>2. CASE i > Len(log) /\ W[i].seq > 0
    <3> DEFINE x == i - Len(log) + a
    <3>1. x \in 1 .. Len(rows) /\ W[i].seq = first + x - 1
      BY <1>5, <2>2
    <3> HIDE DEF x
    <3> QED
      BY <1>2, <3>1
  <2>3. CASE i > Len(log) /\ ~(W[i].seq > 0)
    BY <1>2, <1>6, <2>3
  <2> QED
    BY <1>2, <2>1, <2>2, <2>3
<1>8. ASSUME NEW i \in DOMAIN W, NEW j \in DOMAIN W, i < j, W[i].seq > 0, W[j].seq > 0
      PROVE  W[i].seq < W[j].seq
  <2>1. CASE j <= Len(log)
    <3>1. i \in DOMAIN log /\ j \in DOMAIN log /\ W[i] = log[i] /\ W[j] = log[j]
      BY <1>2, <1>3, <1>8, <2>1
    <3> QED
      BY <1>8, <3>1 DEF Ordered
  <2>2. CASE i <= Len(log) /\ j > Len(log)
    <3>1. i \in DOMAIN log /\ W[i] = log[i] /\ log[i].seq < first
      BY <1>2, <1>3, <2>2
    <3>2. j - Len(log) + a \in 1 .. Len(rows) /\ W[j].seq = first + (j - Len(log) + a) - 1
      BY <1>5, <1>8, <2>2
    <3> QED
      BY <1>2, <1>6, <3>1, <3>2, SMTT(20)
  <2>3. CASE i > Len(log) /\ j > Len(log)
    <3>1. W[i].seq = first + (i - Len(log) + a) - 1
      BY <1>5, <1>8, <2>3
    <3>2. W[j].seq = first + (j - Len(log) + a) - 1
      BY <1>5, <1>8, <2>3
    <3> QED
      BY <1>2, <1>8, <3>1, <3>2
  <2> QED
    BY <1>2, <1>8, <2>1, <2>2, <2>3
<1>9. Len(W) >= Len(log) /\ \A i \in DOMAIN log : W[i] = log[i]
  BY <1>2, <1>3
<1>10. Ordered(W)
  BY <1>8 DEF Ordered
<1> QED
  BY <1>1, <1>2, <1>7, <1>9, <1>10 DEF W

-----------------------------------------------------------------------------
(* The inductive invariant.                                                 *)

Typed ==
    /\ live \in Sessions /\ snapshot \in Sessions \cup {Nothing} /\ projected \in Sessions \cup {Nothing}
    /\ save \in Stages
    /\ torn \in BOOLEAN /\ inited \in BOOLEAN /\ spoiled \in BOOLEAN
    /\ nextSeq \in Nat \ {0}
    /\ saves \in 0 .. MaxSaves /\ stops \in 0 .. MaxStops

\* Every line is a row or unreadable, the rows are in the order of their seqs, and
\* a process that has read the log is past all of them.
FileFits ==
    /\ log \in Seq(Lines) /\ TornLine /\ Ordered(log)
    /\ inited => \A i \in DOMAIN log : log[i].seq < nextSeq

\* A process whose rows were all written once knows what its log says.
Tracks == inited /\ ~spoiled => Project(log).s = projected

IInv == Typed /\ FileFits /\ Tracks

LEMMA InitHolds ==
  ASSUME Counts, LogInit
  PROVE  IInv
<1>1. PICK v \in Values : live = Session(<<>>, {}, v)
  BY DEF LogInit
<1>2. live \in Sessions
  <2>1. <<>> \in Seq(1 .. MaxMessages) /\ {} \in SUBSET (1 .. MaxMessages)
    OBVIOUS
  <2> QED
    BY <1>1, <2>1, SessionTyped
<1>3. Typed
  <2>1. 0 \in 0 .. MaxSaves /\ 0 \in 0 .. MaxStops /\ 1 \in Nat \ {0}
    BY DEF Counts
  <2> QED
    BY <1>2, <2>1 DEF LogInit, Typed, Stages
<1>4. FileFits
  BY DEF LogInit, FileFits, TornLine, Ordered
<1>5. Tracks
  BY DEF LogInit, Tracks
<1> QED
  BY <1>3, <1>4, <1>5 DEF IInv

LEMMA ChangedTyped ==
  ASSUME NEW s \in Sessions, NEW t \in Changed(s)
  PROVE  t \in Sessions
<1>1. s.messages \in Seq(1 .. MaxMessages) /\ s.reads \in SUBSET (1 .. MaxMessages) /\ s.field \in Values
  BY DEF Sessions
<1>2. CASE \E m \in (1 .. MaxMessages) \ ToSet(s.messages) :
             t = [s EXCEPT !.messages = Append(@, m), !.reads = @ \cup {m}]
  <2>1. PICK m \in 1 .. MaxMessages : t = [s EXCEPT !.messages = Append(@, m), !.reads = @ \cup {m}]
    BY <1>2
  <2> DEFINE a == Append(s.messages, m)
             r == s.reads \cup {m}
  <2>2. a \in Seq(1 .. MaxMessages) /\ r \in SUBSET (1 .. MaxMessages)
    BY <1>1
  <2>3. t = [s EXCEPT !.messages = a, !.reads = r]
    BY <2>1
  <2> HIDE DEF a, r
  <2> QED
    BY <2>2, <2>3 DEF Sessions
<1>3. CASE s.messages # <<>> /\ t = [s EXCEPT !.messages = Tail(@)]
  <2> DEFINE a == Tail(s.messages)
  <2>1. a \in Seq(1 .. MaxMessages)
    BY <1>1, <1>3, HeadTailProperties
  <2>2. t = [s EXCEPT !.messages = a]
    BY <1>3
  <2> HIDE DEF a
  <2> QED
    BY <2>1, <2>2 DEF Sessions
<1>4. CASE t = [s EXCEPT !.reads = {}] \/ t = s
  BY <1>4 DEF Sessions
<1>5. CASE \E v \in Values : t = [s EXCEPT !.field = v]
  BY <1>5 DEF Sessions
<1> QED
  BY <1>2, <1>3, <1>4, <1>5 DEF Changed

\* What the append of this process starts from.
LEMMA RowsFresh ==
  ASSUME Counts, IInv
  PROVE  /\ FirstSeq \in Nat \ {0} /\ \A i \in DOMAIN log : log[i].seq < FirstSeq
         /\ Baseline \in Sessions \cup {Nothing}
         /\ NewRows \in Seq(Lines)
         /\ \A i \in 1 .. Len(NewRows) : NewRows[i].seq = FirstSeq + i - 1
         /\ ~spoiled \/ ~inited => Baseline = Project(log).s
         /\ ~spoiled \/ ~inited => (NewRows = <<>> => live = Project(log).s)
<1>1. Project(log) \in Projections /\ \A i \in DOMAIN log : log[i].seq <= Project(log).seq
  BY ProjectTyped DEF IInv, FileFits
<1>2. Project(log).seq \in Nat /\ Project(log).s \in Sessions \cup {Nothing}
  BY <1>1 DEF Projections
<1>3. FirstSeq \in Nat \ {0} /\ \A i \in DOMAIN log : log[i].seq < FirstSeq
  <2>1. CASE inited
    BY <2>1 DEF IInv, Typed, FileFits, FirstSeq
  <2>2. CASE ~inited
    <3>1. \A i \in DOMAIN log : log[i].seq \in Nat
      <4>1. \A i \in DOMAIN log : log[i] \in Lines
        BY DEF IInv, FileFits
      <4> QED
        BY <4>1, LineIs
    <3>2. FirstSeq = Project(log).seq + 1
      BY <2>2 DEF FirstSeq
    <3> QED
      BY <1>1, <1>2, <3>1, <3>2
  <2> QED
    BY <2>1, <2>2
<1>4. Baseline \in Sessions \cup {Nothing} /\ (~spoiled \/ ~inited => Baseline = Project(log).s)
  BY <1>2 DEF IInv, Typed, Tracks, Baseline
<1> DEFINE bs == Bodies(Baseline, live)
<1>5. bs \in Seq(Changes) /\ Plays(bs, Baseline, live)
  BY <1>4, BodiesPlay DEF IInv, Typed
<1> HIDE DEF bs
<1>6. NewRows = Stamped(bs, FirstSeq)
  BY DEF NewRows, bs
<1>7. /\ NewRows \in Seq(Lines) /\ Len(NewRows) = Len(bs)
      /\ \A i \in 1 .. Len(NewRows) : NewRows[i].seq = FirstSeq + i - 1
  BY <1>3, <1>5, <1>6, StampedRows
<1>8. NewRows = <<>> => live = Baseline
  <2> SUFFICES ASSUME NewRows = <<>> PROVE live = Baseline
    OBVIOUS
  <2>1. Len(bs) = 0
    BY <1>7
  <2> QED
    BY <1>5, <2>1 DEF Plays
<1> QED
  BY <1>3, <1>4, <1>7, <1>8

\* Rows written whole behind a log that is whole replay to the session.
LEMMA RowsReplay ==
  ASSUME Counts, IInv, ~spoiled \/ ~inited
  PROVE  Project(log \o NewRows).s = live
<1>1. Project(log).seq \in Nat /\ FirstSeq \in Nat \ {0} /\ Baseline = Project(log).s
      /\ log \in Seq(Lines) /\ Baseline \in Sessions \cup {Nothing}
  BY RowsFresh, ProjectTyped DEF IInv, FileFits, Projections
<1>2. FirstSeq > Project(log).seq
  <2>1. CASE Project(log).seq = 0
    BY <1>1, <2>1
  <2>2. CASE \E i \in DOMAIN log : log[i].seq = Project(log).seq
    BY <2>2, RowsFresh
  <2> QED
    BY <1>1, <2>1, <2>2, ProjectTyped
<1> DEFINE bs == Bodies(Baseline, live)
<1>3. bs \in Seq(Changes) /\ Plays(bs, Baseline, live)
  BY <1>1, BodiesPlay DEF IInv, Typed
<1> HIDE DEF bs
<1>4. Project(log \o Stamped(bs, FirstSeq)).s = live
  BY <1>1, <1>2, <1>3, Replays
<1> QED
  BY <1>4 DEF NewRows, bs

\* What a process that ends, or fails to append, or appends, leaves of the log.
LEMMA AppendFits ==
  ASSUME Counts, IInv, NEW k \in 0 .. Len(NewRows), NEW half \in BOOLEAN,
         log' = Written(NewRows, k, half), torn' = (half \/ (torn /\ k = 0))
  PROVE  /\ log' \in Seq(Lines) /\ TornLine' /\ Ordered(log')
         /\ \A i \in DOMAIN log' : log'[i].seq < FirstSeq + Len(NewRows)
         /\ Len(log') >= Len(log) /\ \A i \in DOMAIN log : log'[i] = log[i]
<1>1. /\ FirstSeq \in Nat \ {0} /\ \A i \in DOMAIN log : log[i].seq < FirstSeq
      /\ NewRows \in Seq(Lines)
      /\ \A i \in 1 .. Len(NewRows) : NewRows[i].seq = FirstSeq + i - 1
  BY RowsFresh
<1>2. log \in Seq(Lines) /\ TornLine /\ Ordered(log)
  BY DEF IInv, FileFits
<1> DEFINE rows == NewRows
           first == FirstSeq
           W == Written(rows, k, half)
<1>3. /\ W \in Seq(Lines) /\ Ordered(W)
      /\ \A i \in DOMAIN W : W[i].seq < first + Len(rows)
      /\ half \/ (torn /\ k = 0) => W # <<>> /\ W[Len(W)] = Garbage
      /\ Len(W) >= Len(log) /\ \A i \in DOMAIN log : W[i] = log[i]
  <2> HIDE DEF rows, first
  <2>1. /\ first \in Nat \ {0} /\ \A i \in DOMAIN log : log[i].seq < first
        /\ rows \in Seq(Lines) /\ k \in 0 .. Len(rows)
        /\ \A i \in 1 .. Len(rows) : rows[i].seq = first + i - 1
    BY <1>1 DEF rows, first
  <2> QED
    BY <1>2, <2>1, WrittenFits
<1>4. log' = W
  OBVIOUS
<1> HIDE DEF W
<1>5. TornLine'
  BY <1>3, <1>4 DEF TornLine
<1> QED
  BY <1>3, <1>4, <1>5

LEMMA StepHolds ==
  ASSUME Counts, IInv, [LogNext]_logVars
  PROVE  IInv'
<1> USE DEF IInv
<1>1. CASE StartSave
  <2>1. live' \in Sessions
    BY <1>1, ChangedTyped DEF StartSave, Typed
  <2>2. saves + 1 \in 0 .. MaxSaves
    BY <1>1 DEF StartSave, Typed, Counts
  <2>3. Typed'
    BY <1>1, <2>1, <2>2 DEF StartSave, Typed, Stages
  <2>4. FileFits' /\ Tracks'
    BY <1>1 DEF StartSave, FileFits, TornLine, Tracks
  <2> QED
    BY <2>3, <2>4
<1>2. CASE RenameSnapshot
  <2>1. Typed'
    BY <1>2 DEF RenameSnapshot, Typed, Stages
  <2>2. FileFits' /\ Tracks'
    BY <1>2 DEF RenameSnapshot, FileFits, TornLine, Tracks
  <2> QED
    BY <2>1, <2>2
<1>3. CASE AppendEvents
  <2>1. /\ FirstSeq \in Nat \ {0} /\ NewRows \in Seq(Lines) /\ Len(NewRows) \in Nat
        /\ FirstSeq + Len(NewRows) \in Nat \ {0}
        /\ (NewRows = <<>> <=> Len(NewRows) = 0)
    BY RowsFresh
  <2>2. /\ log' = Written(NewRows, Len(NewRows), FALSE)
        /\ torn' = (FALSE \/ (torn /\ Len(NewRows) = 0))
        /\ inited' = TRUE /\ nextSeq' = FirstSeq + Len(NewRows) /\ projected' = live
        /\ spoiled' = (spoiled \/ (torn /\ NewRows # <<>>))
    BY <1>3, <2>1 DEF AppendEvents
  <2>3. FileFits'
    <3> DEFINE k == Len(NewRows)
    <3>1. k \in 0 .. Len(NewRows)
      BY <2>1
    <3>2. log' = Written(NewRows, k, FALSE) /\ torn' = (FALSE \/ (torn /\ k = 0))
      BY <2>2
    <3> HIDE DEF k
    <3>3. /\ log' \in Seq(Lines) /\ TornLine' /\ Ordered(log')
          /\ \A i \in DOMAIN log' : log'[i].seq < FirstSeq + Len(NewRows)
      BY <3>1, <3>2, AppendFits
    <3> QED
      BY <2>2, <3>3 DEF FileFits
  <2>4. Typed'
    <3>1. torn' \in BOOLEAN /\ spoiled' \in BOOLEAN
      BY <2>2 DEF Typed
    <3> QED
      BY <1>3, <2>1, <2>2, <3>1 DEF AppendEvents, Typed, Stages
  <2>5. Tracks'
    <3> SUFFICES ASSUME ~spoiled' PROVE Project(log').s = live
      BY <2>2 DEF Tracks
    <3>1. ~spoiled /\ (~torn \/ NewRows = <<>>)
      BY <2>2 DEF Typed
    <3>2. log' = log \o NewRows
      <4> DEFINE rows == NewRows
                 k == Len(NewRows)
      <4>1. rows \in Seq(Lines) /\ k \in 0 .. Len(rows) /\ (~torn \/ k = 0) /\ k = Len(rows)
        BY <2>1, <3>1
      <4>2. log \in Seq(Lines) /\ TornLine
        BY DEF FileFits
      <4> HIDE DEF rows, k
      <4>3. Written(rows, k, FALSE) = log \o SubSeq(rows, 1, k)
        <5>1. PICK ys \in Seq(Lines), a \in {0, 1} :
                /\ Written(rows, k, FALSE) = log \o ys
                /\ (~torn \/ k = 0) /\ ~FALSE => ys = SubSeq(rows, 1, k)
          BY <4>1, <4>2, WrittenIs
        <5> QED
          BY <4>1, <5>1
      <4>4. SubSeq(rows, 1, k) = rows
        BY <4>1, SubSeqFull
      <4> QED
        BY <2>2, <4>3, <4>4 DEF rows, k
    <3> QED
      BY <3>1, <3>2, RowsReplay
  <2> QED
    BY <2>3, <2>4, <2>5
<1>4. CASE AppendFails
  <2>0. PICK k \in 0 .. Len(NewRows) - 1, half \in BOOLEAN :
          /\ log' = Written(NewRows, k, half)
          /\ torn' = (half \/ (torn /\ k = 0))
          /\ spoiled' = (spoiled \/ k > 0 \/ half)
    BY <1>4 DEF AppendFails
  <2>1. /\ FirstSeq \in Nat \ {0} /\ NewRows \in Seq(Lines) /\ Len(NewRows) \in Nat
        /\ FirstSeq + Len(NewRows) \in Nat \ {0} /\ k \in 0 .. Len(NewRows)
        /\ Baseline \in Sessions \cup {Nothing}
    BY RowsFresh
  <2>2. inited' = TRUE /\ nextSeq' = FirstSeq + Len(NewRows) /\ projected' = Baseline
    BY <1>4 DEF AppendFails
  <2>3. FileFits'
    <3>1. /\ log' \in Seq(Lines) /\ TornLine' /\ Ordered(log')
          /\ \A i \in DOMAIN log' : log'[i].seq < FirstSeq + Len(NewRows)
      BY <2>0, <2>1, AppendFits
    <3> QED
      BY <2>2, <3>1 DEF FileFits
  <2>4. Typed'
    <3>1. torn' \in BOOLEAN /\ spoiled' \in BOOLEAN
      BY <2>0 DEF Typed
    <3>2. stops + 1 \in 0 .. MaxStops
      BY <1>4 DEF AppendFails, Typed, Counts
    <3> QED
      BY <1>4, <2>1, <2>2, <3>1, <3>2 DEF AppendFails, Typed, Stages
  <2>5. Tracks'
    <3> SUFFICES ASSUME ~spoiled' PROVE Project(log').s = Baseline
      BY <2>2 DEF Tracks
    <3>1. ~spoiled /\ k = 0 /\ ~half
      <4>1. ~spoiled /\ ~(k > 0) /\ ~half
        BY <2>0, Zenon
      <4> QED
        BY <2>1, <4>1
    <3>2. log' = log
      <4>1. log \in Seq(Lines) /\ TornLine
        BY DEF FileFits
      <4> DEFINE rows == NewRows
      <4>2. rows \in Seq(Lines) /\ 0 \in 0 .. Len(rows)
        BY <2>1
      <4> HIDE DEF rows
      <4>3. PICK ys \in Seq(Lines), a \in {0, 1} :
              /\ Written(rows, 0, FALSE) = log \o ys
              /\ (~torn \/ 0 = 0) /\ ~FALSE => ys = SubSeq(rows, 1, 0)
        BY <4>1, <4>2, WrittenIs
      <4>4. SubSeq(rows, 1, 0) = <<>> /\ log \o <<>> = log
        BY <4>1, SubSeqEmpty
      <4> QED
        BY <2>0, <3>1, <4>3, <4>4 DEF rows
    <3> QED
      BY <3>1, <3>2, RowsFresh
  <2> QED
    BY <2>3, <2>4, <2>5
<1>5. CASE CrashAndResume
  <2>1. log' \in Seq(Lines) /\ TornLine' /\ Ordered(log') /\ torn' \in BOOLEAN
    <3>1. CASE UNCHANGED <<log, torn>>
      BY <3>1 DEF FileFits, TornLine, Typed
    <3>2. CASE \E k \in 0 .. Len(NewRows), half \in BOOLEAN :
                 log' = Written(NewRows, k, half) /\ torn' = (half \/ (torn /\ k = 0))
      <4>1. PICK k \in 0 .. Len(NewRows), half \in BOOLEAN :
              log' = Written(NewRows, k, half) /\ torn' = (half \/ (torn /\ k = 0))
        BY <3>2
      <4>2. torn' \in BOOLEAN
        BY <4>1 DEF Typed
      <4> QED
        BY <4>1, <4>2, AppendFits
    <3> QED
      BY <1>5, <3>1, <3>2 DEF CrashAndResume
  <2>2. inited' = FALSE
    BY <1>5 DEF CrashAndResume
  <2>3. stops + 1 \in 0 .. MaxStops
    BY <1>5 DEF CrashAndResume, Typed, Counts
  <2>4. Typed'
    <3>1. /\ snapshot # Nothing /\ live' = snapshot /\ snapshot' = snapshot /\ projected' = Nothing /\ nextSeq' = 1
          /\ save' = "none" /\ stops' = stops + 1 /\ spoiled' = FALSE /\ saves' = saves
      BY <1>5 DEF CrashAndResume
    <3>2. 1 \in Nat \ {0}
      OBVIOUS
    <3> QED
      BY <2>1, <2>2, <2>3, <3>1, <3>2 DEF Typed, Stages
  <2> QED
    BY <2>1, <2>2, <2>4 DEF FileFits, Tracks
<1>6. CASE UNCHANGED logVars
  BY <1>6 DEF logVars, Typed, FileFits, TornLine, Tracks
<1> QED
  BY <1>1, <1>2, <1>3, <1>4, <1>5, <1>6 DEF LogNext, AllSaved

\* The log, the process that appends to it and the snapshot fit together.
THEOREM LogInvariant == LogSpec => []IInv
<1> Counts
  BY SessionAssumption DEF Counts
<1>1. LogInit => IInv
  BY InitHolds
<1>2. IInv /\ [LogNext]_logVars => IInv'
  BY StepHolds
<1> QED
  BY <1>1, <1>2, PTL DEF LogSpec

\* SessionStore.save and the event log: after a save the events replay to the
\* snapshot that was saved, whatever crashes, torn lines and failed appends came
\* before, except in a process that lost or must repeat a row, and no two rows
\* share a seq, also across processes.
THEOREM LogIsSound == LogSpec => []LogSound
<1>1. LogSpec => []IInv
  BY LogInvariant
<1>2. IInv => LogSound
  <2> SUFFICES ASSUME IInv PROVE LogSound
    OBVIOUS
  <2>1. LogTypeOK
    BY DEF IInv, Typed, LogTypeOK
  <2>2. LogReplaysToSnapshot
    BY DEF IInv, Tracks, LogReplaysToSnapshot
  <2>3. RowsAreOrdered
    BY DEF IInv, FileFits, Ordered, RowsAreOrdered
  <2> QED
    BY <2>1, <2>2, <2>3 DEF LogSound
<1> QED
  BY <1>1, <1>2, PTL

\* appendFile never takes a row back: compaction, /new and a crash leave every
\* line that was written in the log.
THEOREM LogIsKept == LogSpec => LogOnlyGrows
<1> Counts
  BY SessionAssumption DEF Counts
<1> DEFINE Grows == /\ Len(log') >= Len(log)
                    /\ \A i \in DOMAIN log : log'[i] = log[i] \/ (torn /\ i = Len(log))
<1>1. IInv /\ [LogNext]_logVars => [Grows]_logVars
  <2> SUFFICES ASSUME IInv, [LogNext]_logVars PROVE Grows
    OBVIOUS
  <2>0. Len(log) \in Nat
    BY DEF IInv, FileFits
  <2>1. CASE log' = log
    BY <2>0, <2>1
  <2>2. CASE \E k \in 0 .. Len(NewRows), half \in BOOLEAN :
               log' = Written(NewRows, k, half) /\ torn' = (half \/ (torn /\ k = 0))
    BY <2>2, AppendFits
  <2>3. log' = log \/ \E k \in 0 .. Len(NewRows), half \in BOOLEAN :
                        log' = Written(NewRows, k, half) /\ torn' = (half \/ (torn /\ k = 0))
    <3>1. /\ Len(NewRows) \in Nat /\ Len(NewRows) \in 0 .. Len(NewRows)
          /\ \A k \in 0 .. Len(NewRows) - 1 : k \in 0 .. Len(NewRows)
          /\ (NewRows = <<>> <=> Len(NewRows) = 0)
      BY RowsFresh
    <3>2. CASE AppendEvents
      <4>1. /\ log' = Written(NewRows, Len(NewRows), FALSE)
            /\ torn' = (FALSE \/ (torn /\ Len(NewRows) = 0))
        BY <3>1, <3>2 DEF AppendEvents
      <4> QED
        BY <3>1, <4>1
    <3>3. CASE AppendFails
      BY <3>1, <3>3 DEF AppendFails
    <3>4. CASE CrashAndResume
      BY <3>4 DEF CrashAndResume
    <3>5. CASE StartSave \/ RenameSnapshot \/ UNCHANGED logVars
      BY <3>5 DEF StartSave, RenameSnapshot, logVars
    <3> QED
      BY <3>2, <3>3, <3>4, <3>5 DEF LogNext, AllSaved
  <2> QED
    BY <2>1, <2>2, <2>3
<1>2. LogSpec => []IInv
  BY LogInvariant
<1> QED
  BY <1>1, <1>2, PTL DEF LogSpec, LogOnlyGrows

-----------------------------------------------------------------------------
(* The prompt.                                                              *)

\* What the lemmas need of ReplAssumption.
ReplCounts ==
    /\ {MaxTyped, MaxCrashes} \subseteq Nat /\ MaxSessions \in Nat \ {0}
    /\ None \notin ApprovalModes \cup Repl!Files \cup Repl!Sides \cup Repl!Runs

Memories == [id : Repl!Ids, conv : Repl!Convs, mode : ApprovalModes \cup {None},
             snap : ApprovalModes \cup {None}]
SavedFiles == [Repl!Ids -> Repl!Files \cup {None}]

ReplData ==
    /\ mem \in Memories /\ side \in Repl!Sides \cup {None} /\ run \in Repl!Runs \cup {None}
    /\ phase \in {"off", "investigating", "awaiting-approval", "executing"}
    /\ files \in SavedFiles
    /\ typed \in 0 .. MaxTyped /\ prompted \subseteq Repl!Turns /\ crashes \in 0 .. MaxCrashes
ReplFlags == asking \in BOOLEAN /\ up \in BOOLEAN /\ severed \in BOOLEAN

\* A side thread is set aside exactly while a run of one goes on, between runs it
\* may be; the question of plan mode is asked of the main thread.
SidesFit ==
    /\ run # None => (run.thread \in {"side", "quick"} <=> side # None)
    /\ asking => run = None /\ side = None

\* A session without a mode, as a file made by a goal is, was told none.
ModesFit ==
    /\ mem.mode = None => mem.snap = None
    /\ \A i \in Repl!Ids : files[i] # None /\ files[i].mode = None => files[i].snap = None

\* Unless a command severed them, the threads were told what the snapshot says.
SnapsFit ==
    ~severed => /\ Repl!Told(mem.conv) = mem.snap
                /\ side # None => Repl!Told(side.main) = mem.snap /\ Repl!Told(side.conv) = mem.snap

\* A thread holds what the main thread held when it was forked, which is in memory
\* again between its runs; prompts are numbered as they are typed.
TurnsFit ==
    /\ prompted \subseteq 1 .. typed
    /\ side # None => side.main.turns \subseteq side.conv.turns
    /\ side # None /\ run = None => mem.conv = side.main
    /\ run # None /\ run.thread \in {"side", "quick"} => side.main.turns \subseteq mem.conv.turns

ReplInv ==
    /\ ReplData /\ ReplFlags /\ SidesFit /\ ModesFit /\ SnapsFit /\ TurnsFit
    /\ Repl!ModeIsTold /\ Repl!PromptsAreSaved /\ Repl!PlanGate

\* The operators that make a session or a file of another keep its form.
LEMMA SavedTyped ==
    ASSUME NEW m \in Memories, NEW fs \in SavedFiles
    PROVE  Repl!Saved(m, fs) \in SavedFiles
BY DEF Memories, SavedFiles, Repl!Saved, Repl!Files

LEMMA WithTurnTyped ==
    ASSUME NEW m \in Memories, NEW t \in Repl!Turns
    PROVE  Repl!WithTurn(m, t) \in Memories
BY DEF Memories, Repl!WithTurn, Repl!Convs

LEMMA EpochTyped ==
    ASSUME NEW m \in Memories
    PROVE  Repl!FreshEpoch(m) \in Memories /\ Repl!Reconciled(m) \in Memories
BY DEF Memories, Repl!FreshEpoch, Repl!Reconciled, Repl!Convs

LEMMA StartedTyped ==
    ASSUME ReplData, NEW thread \in {"main", "side", "quick", "plan", "command"}
    PROVE  Repl!Started(thread) \in Repl!Runs
BY DEF ReplData, Memories, Repl!Started, Repl!Effective, Repl!Runs

LEMMA NextTyped ==
    ASSUME ReplCounts, ReplData, Repl!CanType
    PROVE  Repl!NextTurn \in Repl!Turns /\ Repl!NextTurn \in 0 .. MaxTyped
BY DEF ReplCounts, ReplData, Repl!CanType, Repl!NextTurn, Repl!Turns

LEMMA ForgottenTyped ==
    ASSUME ReplCounts, ReplData, ReplFlags, NEW stays \in BOOLEAN, Repl!Forgotten(stays)
    PROVE  /\ mem' \in Memories /\ side' \in Repl!Sides \cup {None} /\ run' \in Repl!Runs \cup {None}
           /\ phase' \in {"off", "investigating", "awaiting-approval", "executing"}
           /\ crashes' \in 0 .. MaxCrashes
<1>1. CASE stays
  BY <1>1 DEF ReplData, Repl!Forgotten
<1>2. CASE ~stays
  <2>1. Repl!Conv(None, None, {}) \in Repl!Convs
    BY DEF Repl!Conv, Repl!Convs
  <2>2. mem' = [id |-> 1, conv |-> Repl!Conv(None, None, {}), mode |-> None, snap |-> None]
    BY <1>2, Zenon DEF Repl!Forgotten
  <2>3. mem' \in Memories
    BY <2>1, <2>2 DEF ReplCounts, Memories, Repl!Ids
  <2> QED
    BY <1>2, <2>3 DEF ReplCounts, ReplData, Repl!Forgotten
<1> QED
  BY <1>1, <1>2
LEMMA DataStep ==
    ASSUME ReplCounts, ReplData, ReplFlags, SidesFit, [Repl!Next]_repl
    PROVE  ReplData'
<1> USE DEF ReplData
<1>1. CASE Repl!Submit
  <2>1. mem' \in Memories /\ files' \in SavedFiles /\ run' \in Repl!Runs
    BY <1>1, NextTyped, WithTurnTyped, SavedTyped, StartedTyped DEF Repl!Submit
  <2> QED
    BY <1>1, <2>1, NextTyped DEF Repl!Submit
<1>2. CASE Repl!OpenSide
  <2>1. mem.conv \in Repl!Convs
    BY DEF Memories
  <2> QED
    BY <1>2, <2>1 DEF Repl!OpenSide, Repl!Sides
<1>3. CASE Repl!AskOnTheSide
  <2>1. mem' \in Memories /\ run' \in Repl!Runs
    BY <1>3, NextTyped, WithTurnTyped, StartedTyped DEF Repl!AskOnTheSide
  <2>2. side' \in Repl!Sides
    BY <1>3 DEF Repl!AskOnTheSide, Repl!Sides, Memories
  <2> QED
    BY <1>3, <2>1, <2>2, NextTyped DEF Repl!AskOnTheSide
<1>4. CASE Repl!SubmitSide
  <2>1. [mem EXCEPT !.conv = side.conv] \in Memories
    BY <1>4 DEF Repl!SubmitSide, Memories, Repl!Sides
  <2>2. mem' \in Memories /\ run' \in Repl!Runs
    BY <1>4, <2>1, NextTyped, WithTurnTyped, StartedTyped DEF Repl!SubmitSide
  <2> QED
    BY <1>4, <2>2, NextTyped DEF Repl!SubmitSide
<1>5. CASE Repl!ReturnToMain
  <2>1. mem' \in Memories
    BY <1>5 DEF Repl!ReturnToMain, Memories, Repl!Sides
  <2> QED
    BY <1>5, <2>1 DEF Repl!ReturnToMain
<1>6. CASE Repl!CallModel
  <2>1. mem' \in Memories
    BY <1>6, EpochTyped, Zenon DEF Repl!CallModel
  <2>2. files' \in SavedFiles
    BY <1>6, <2>1, SavedTyped, Zenon DEF Repl!CallModel
  <2>3. run' \in Repl!Runs
    BY <1>6 DEF Repl!CallModel, Repl!Runs
  <2>4. UNCHANGED <<phase, side, typed, prompted, crashes>>
    BY <1>6, Zenon DEF Repl!CallModel
  <2> QED
    BY <2>1, <2>2, <2>3, <2>4
<1>7. CASE Repl!RunEnds
  <2>1. mem' \in Memories /\ side' \in Repl!Sides \cup {None}
    BY <1>7 DEF Repl!RunEnds, SidesFit, Memories, Repl!Sides, ReplCounts
  <2>2. phase' \in {"off", "investigating", "awaiting-approval", "executing"}
    BY <1>7, Zenon DEF Repl!RunEnds
  <2>3. run' = None /\ UNCHANGED <<files, typed, prompted, crashes>>
    BY <1>7, Zenon DEF Repl!RunEnds
  <2> QED
    BY <2>1, <2>2, <2>3
<1>8. CASE Repl!ApprovePlan
  <2>1. mem' \in Memories /\ files' \in SavedFiles
    BY <1>8, NextTyped, WithTurnTyped, SavedTyped DEF Repl!ApprovePlan
  <2>2. run' \in Repl!Runs
    BY <1>8 DEF Repl!ApprovePlan, Repl!Runs, Memories
  <2> QED
    BY <1>8, <2>1, <2>2, NextTyped DEF Repl!ApprovePlan
<1>9. CASE Repl!RejectPlan
  <2>1. phase' = "investigating" /\ UNCHANGED <<mem, side, run, files, typed, prompted, crashes>>
    BY <1>9, Zenon DEF Repl!RejectPlan
  <2> QED
    BY <2>1
<1>10. CASE Repl!PlanModeCommand
  BY <1>10 DEF Repl!PlanModeCommand
<1>11. CASE Repl!ModeCommand
  <2>1. mem' \in Memories
    BY <1>11 DEF Repl!ModeCommand, Memories
  <2> QED
    BY <1>11, <2>1 DEF Repl!ModeCommand
<1>12. CASE Repl!ClearCommand
  <2>1. mem' \in Memories
    BY <1>12 DEF Repl!ClearCommand, Memories, Repl!Convs
  <2> QED
    BY <1>12, <2>1 DEF Repl!ClearCommand
<1>13. CASE Repl!NewCommand
  <2>1. PICK i \in Repl!Ids : mem' = [mem EXCEPT !.id = i, !.conv = Repl!Conv(None, None, {})]
    BY <1>13, Zenon DEF Repl!NewCommand
  <2>2. mem' \in Memories
    BY <2>1 DEF Memories, Repl!Conv, Repl!Convs
  <2>3. files' \in SavedFiles
    BY <1>13, SavedTyped DEF Repl!NewCommand
  <2>4. UNCHANGED <<phase, side, run, typed, prompted, crashes>>
    BY <1>13, Zenon DEF Repl!NewCommand
  <2> QED
    BY <2>2, <2>3, <2>4
<1>14. CASE Repl!ForkCommand
  <2>1. files[mem.id] \in Repl!Files
    BY <1>14 DEF Repl!ForkCommand, SavedFiles, Memories
  <2>2. files' \in SavedFiles
    BY <1>14, <2>1 DEF Repl!ForkCommand, SavedFiles, Repl!Files
  <2> QED
    BY <1>14, <2>2 DEF Repl!ForkCommand
<1>15. CASE Repl!SaveCommand
  BY <1>15, SavedTyped DEF Repl!SaveCommand
<1>16. CASE Repl!CompactCommand
  BY <1>16, SavedTyped, EpochTyped DEF Repl!CompactCommand
<1>17. CASE Repl!GoalCommand
  <2>1. files' \in SavedFiles
    BY <1>17 DEF Repl!GoalCommand, SavedFiles, Repl!Files, Repl!Conv, Repl!Convs
  <2> QED
    BY <1>17, <2>1 DEF Repl!GoalCommand
<1>18. CASE Repl!PlanCommand
  <2>1. mem' \in Memories /\ files' \in SavedFiles
    BY <1>18, NextTyped, WithTurnTyped, SavedTyped DEF Repl!PlanCommand
  <2> QED
    BY <1>18, <2>1, NextTyped DEF Repl!PlanCommand
<1>19. CASE Repl!AgentCommand
  <2>1. mem' \in Memories /\ run' \in Repl!Runs
    BY <1>19, NextTyped, WithTurnTyped, StartedTyped DEF Repl!AgentCommand
  <2> QED
    BY <1>19, <2>1, NextTyped DEF Repl!AgentCommand
<1>20. CASE Repl!ArchiveCommand
  <2>1. PICK i \in Repl!Ids : Repl!Forgotten(i # mem.id)
    BY <1>20, Zenon DEF Repl!ArchiveCommand
  <2>2. UNCHANGED <<files, typed, prompted>>
    BY <1>20, Zenon DEF Repl!ArchiveCommand
  <2> QED
    BY <2>1, <2>2, ForgottenTyped
<1>21. CASE Repl!DeleteCommand
  <2>1. PICK i \in Repl!Ids : files' = [files EXCEPT ![i] = None] /\ Repl!Forgotten(i # mem.id)
    BY <1>21, Zenon DEF Repl!DeleteCommand
  <2>2. UNCHANGED <<typed, prompted>>
    BY <1>21, Zenon DEF Repl!DeleteCommand
  <2>3. files' \in SavedFiles
    BY <2>1 DEF SavedFiles
  <2> QED
    BY <2>1, <2>2, <2>3, ForgottenTyped
<1>22. CASE Repl!Gone
  <2>1. Repl!Forgotten(FALSE) /\ UNCHANGED <<files, typed, prompted>>
    BY <1>22, Zenon DEF Repl!Gone
  <2> QED
    BY <2>1, ForgottenTyped
<1>23. CASE Repl!Resume
  <2>1. PICK i \in Repl!Ids : files[i] # None /\ mem' = Repl!Resumed(i)
    BY <1>23, Zenon DEF Repl!Resume
  <2>2. files[i] \in Repl!Files
    BY <2>1 DEF SavedFiles
  <2>3. mem' \in Memories
    BY <2>1, <2>2 DEF Repl!Resumed, Repl!Files, Repl!Convs, Memories
  <2>4. phase' = "off" /\ side' = None /\ run' = None /\ UNCHANGED <<files, typed, prompted, crashes>>
    BY <1>23, Zenon DEF Repl!Resume
  <2> QED
    BY <2>3, <2>4
<1>24. CASE Repl!Idle \/ UNCHANGED repl
  BY <1>24 DEF Repl!Idle, Repl!sessionVars, repl
<1> QED
  BY <1>1, <1>2, <1>3, <1>4, <1>5, <1>6, <1>7, <1>8, <1>9, <1>10, <1>11, <1>12, <1>13, <1>14, <1>15, <1>16, <1>17, <1>18, <1>19, <1>20, <1>21, <1>22, <1>23, <1>24 DEF Repl!Next


\* What the agent loop tells the model: the mode it is in, unless nothing changed;
\* and it keeps the turns.
LEMMA CallTells ==
    ASSUME ReplCounts, ReplInv, Repl!CallModel
    PROVE  /\ mem'.id = mem.id /\ mem'.mode = mem.mode /\ mem'.snap = mem.mode
           /\ mem'.conv.turns = mem.conv.turns
           /\ mem' # mem \/ Repl!Told(mem.conv) = mem.snap => Repl!Told(mem'.conv) = mem'.snap
<1> mem \in Memories
  BY DEF ReplInv, ReplData
<1>1. PICK m \in {mem, Repl!FreshEpoch(mem)} : mem' = Repl!Reconciled(m)
  BY Zenon DEF Repl!CallModel
<1>2. /\ m \in Memories /\ m.id = mem.id /\ m.mode = mem.mode /\ m.conv.turns = mem.conv.turns
      /\ m.mode = None => m.snap = None
      /\ m # mem \/ Repl!Told(mem.conv) = mem.snap => Repl!Told(m.conv) = m.snap
  <2>1. CASE m = mem
    BY <2>1 DEF ReplInv, ModesFit
  <2>2. CASE m = Repl!FreshEpoch(mem)
    BY <2>2, EpochTyped DEF Memories, Repl!FreshEpoch, Repl!Convs, Repl!Told
  <2> QED
    BY <2>1, <2>2
<1>3. CASE m.snap = m.mode
  BY <1>1, <1>2, <1>3 DEF Repl!Reconciled
<1>4. CASE m.snap # m.mode
  <2>1. mem' = [m EXCEPT !.conv.update = m.mode, !.snap = m.mode] /\ m.mode # None
    BY <1>1, <1>2, <1>4 DEF Repl!Reconciled
  <2> QED
    BY <1>2, <2>1 DEF Memories, Repl!Convs, Repl!Told
<1> QED
  BY <1>3, <1>4

\* A saved session's file has its turns.
LEMMA SavedTurns ==
    ASSUME ReplCounts, NEW m \in Memories, NEW fs \in SavedFiles
    PROVE  LET f == Repl!Saved(m, fs)[m.id] IN f # None /\ f.conv = m.conv
<1>1. Repl!Saved(m, fs)[m.id] = [conv |-> m.conv, mode |-> m.mode, snap |-> m.snap]
  BY DEF Memories, SavedFiles, Repl!Saved
<1>2. Repl!Saved(m, fs)[m.id] \in Repl!Files
  BY <1>1 DEF Memories, Repl!Files
<1> QED
  BY <1>1, <1>2 DEF ReplCounts

LEMMA WithTurnTurns ==
    ASSUME NEW m \in Memories, NEW t
    PROVE  /\ Repl!WithTurn(m, t).id = m.id
           /\ Repl!WithTurn(m, t).conv.turns = m.conv.turns \cup {t}
BY DEF Memories, Repl!Convs, Repl!WithTurn

LEMMA FlagsStep ==
    ASSUME ReplCounts, ReplInv, [Repl!Next]_repl
    PROVE  ReplFlags'
<1> USE DEF ReplCounts, ReplInv, ReplFlags, ReplFlags
<1>1. CASE Repl!Submit
  BY <1>1 DEF Repl!Submit, Repl!OnMain, Repl!AtPrompt, Repl!CanType, Repl!NextTurn, Repl!WithTurn, Repl!Saved, Repl!Started, Repl!Effective
<1>2. CASE Repl!OpenSide
  BY <1>2 DEF Repl!OpenSide, Repl!AtPrompt
<1>3. CASE Repl!AskOnTheSide
  BY <1>3 DEF Repl!AskOnTheSide, Repl!AtPrompt, Repl!CanType, Repl!NextTurn, Repl!WithTurn, Repl!Started, Repl!Effective
<1>4. CASE Repl!SubmitSide
  BY <1>4 DEF Repl!SubmitSide, Repl!AtPrompt, Repl!CanType, Repl!NextTurn, Repl!WithTurn, Repl!Started, Repl!Effective
<1>5. CASE Repl!ReturnToMain
  BY <1>5 DEF Repl!ReturnToMain, Repl!AtPrompt
<1>6. CASE Repl!CallModel
  BY <1>6 DEF Repl!CallModel, Repl!Saved
<1>7. CASE Repl!RunEnds
  BY <1>7 DEF Repl!RunEnds
<1>8. CASE Repl!ApprovePlan
  BY <1>8 DEF Repl!ApprovePlan, Repl!CanType, Repl!NextTurn, Repl!WithTurn, Repl!Saved
<1>9. CASE Repl!RejectPlan
  BY <1>9 DEF Repl!RejectPlan
<1>10. CASE Repl!PlanModeCommand
  BY <1>10 DEF Repl!PlanModeCommand, Repl!OnMain, Repl!AtPrompt
<1>11. CASE Repl!ModeCommand
  BY <1>11 DEF Repl!ModeCommand, Repl!OnMain, Repl!AtPrompt
<1>12. CASE Repl!ClearCommand
  BY <1>12 DEF Repl!ClearCommand, Repl!OnMain, Repl!AtPrompt
<1>13. CASE Repl!NewCommand
  BY <1>13 DEF Repl!NewCommand, Repl!OnMain, Repl!AtPrompt, Repl!Saved, Repl!Conv
<1>14. CASE Repl!ForkCommand
  BY <1>14 DEF Repl!ForkCommand, Repl!OnMain, Repl!AtPrompt
<1>15. CASE Repl!SaveCommand
  BY <1>15 DEF Repl!SaveCommand, Repl!OnMain, Repl!AtPrompt, Repl!Saved
<1>16. CASE Repl!CompactCommand
  BY <1>16 DEF Repl!CompactCommand, Repl!OnMain, Repl!AtPrompt, Repl!Saved
<1>17. CASE Repl!GoalCommand
  BY <1>17 DEF Repl!GoalCommand, Repl!OnMain, Repl!AtPrompt, Repl!Conv
<1>18. CASE Repl!PlanCommand
  BY <1>18 DEF Repl!PlanCommand, Repl!OnMain, Repl!AtPrompt, Repl!CanType, Repl!NextTurn, Repl!WithTurn, Repl!Saved
<1>19. CASE Repl!AgentCommand
  BY <1>19 DEF Repl!AgentCommand, Repl!OnMain, Repl!AtPrompt, Repl!CanType, Repl!NextTurn, Repl!WithTurn, Repl!Started, Repl!Effective
<1>20. CASE Repl!ArchiveCommand
  BY <1>20 DEF Repl!ArchiveCommand, Repl!OnMain, Repl!AtPrompt, Repl!Forgotten, Repl!Conv
<1>21. CASE Repl!DeleteCommand
  BY <1>21 DEF Repl!DeleteCommand, Repl!OnMain, Repl!AtPrompt, Repl!Forgotten, Repl!Conv
<1>22. CASE Repl!Gone
  BY <1>22 DEF Repl!Gone, Repl!Forgotten, Repl!Conv
<1>23. CASE Repl!Resume
  BY <1>23 DEF Repl!Resume, Repl!Resumed
<1>24. CASE Repl!Idle
  BY <1>24 DEF Repl!Idle, Repl!sessionVars
<1>25. CASE UNCHANGED repl
  BY <1>25 DEF repl
<1> QED
  BY <1>1, <1>2, <1>3, <1>4, <1>5, <1>6, <1>7, <1>8, <1>9, <1>10, <1>11, <1>12, <1>13, <1>14, <1>15, <1>16, <1>17, <1>18, <1>19, <1>20, <1>21, <1>22, <1>23, <1>24, <1>25 DEF Repl!Next

LEMMA SidesStep ==
    ASSUME ReplCounts, ReplInv, [Repl!Next]_repl
    PROVE  SidesFit'
<1> USE DEF ReplCounts, ReplInv, SidesFit, ReplData, Memories, SavedFiles, Repl!Sides,
        Repl!Runs
<1>1. CASE Repl!Submit
  BY <1>1 DEF Repl!Submit, Repl!OnMain, Repl!AtPrompt, Repl!CanType, Repl!NextTurn, Repl!WithTurn, Repl!Saved, Repl!Started, Repl!Effective
<1>2. CASE Repl!OpenSide
  BY <1>2 DEF Repl!OpenSide, Repl!AtPrompt
<1>3. CASE Repl!AskOnTheSide
  BY <1>3 DEF Repl!AskOnTheSide, Repl!AtPrompt, Repl!CanType, Repl!NextTurn, Repl!WithTurn, Repl!Started, Repl!Effective
<1>4. CASE Repl!SubmitSide
  BY <1>4 DEF Repl!SubmitSide, Repl!AtPrompt, Repl!CanType, Repl!NextTurn, Repl!WithTurn, Repl!Started, Repl!Effective
<1>5. CASE Repl!ReturnToMain
  BY <1>5 DEF Repl!ReturnToMain, Repl!AtPrompt
<1>6. CASE Repl!CallModel
  BY <1>6 DEF Repl!CallModel, Repl!Saved
<1>7. CASE Repl!RunEnds
  BY <1>7 DEF Repl!RunEnds
<1>8. CASE Repl!ApprovePlan
  BY <1>8 DEF Repl!ApprovePlan, Repl!CanType, Repl!NextTurn, Repl!WithTurn, Repl!Saved
<1>9. CASE Repl!RejectPlan
  BY <1>9 DEF Repl!RejectPlan
<1>10. CASE Repl!PlanModeCommand
  BY <1>10 DEF Repl!PlanModeCommand, Repl!OnMain, Repl!AtPrompt
<1>11. CASE Repl!ModeCommand
  BY <1>11 DEF Repl!ModeCommand, Repl!OnMain, Repl!AtPrompt
<1>12. CASE Repl!ClearCommand
  BY <1>12 DEF Repl!ClearCommand, Repl!OnMain, Repl!AtPrompt
<1>13. CASE Repl!NewCommand
  BY <1>13 DEF Repl!NewCommand, Repl!OnMain, Repl!AtPrompt, Repl!Saved, Repl!Conv
<1>14. CASE Repl!ForkCommand
  BY <1>14 DEF Repl!ForkCommand, Repl!OnMain, Repl!AtPrompt
<1>15. CASE Repl!SaveCommand
  BY <1>15 DEF Repl!SaveCommand, Repl!OnMain, Repl!AtPrompt, Repl!Saved
<1>16. CASE Repl!CompactCommand
  BY <1>16 DEF Repl!CompactCommand, Repl!OnMain, Repl!AtPrompt, Repl!Saved
<1>17. CASE Repl!GoalCommand
  BY <1>17 DEF Repl!GoalCommand, Repl!OnMain, Repl!AtPrompt, Repl!Conv
<1>18. CASE Repl!PlanCommand
  BY <1>18 DEF Repl!PlanCommand, Repl!OnMain, Repl!AtPrompt, Repl!CanType, Repl!NextTurn, Repl!WithTurn, Repl!Saved
<1>19. CASE Repl!AgentCommand
  BY <1>19 DEF Repl!AgentCommand, Repl!OnMain, Repl!AtPrompt, Repl!CanType, Repl!NextTurn, Repl!WithTurn, Repl!Started, Repl!Effective
<1>20. CASE Repl!ArchiveCommand
  BY <1>20 DEF Repl!ArchiveCommand, Repl!OnMain, Repl!AtPrompt, Repl!Forgotten, Repl!Conv
<1>21. CASE Repl!DeleteCommand
  BY <1>21 DEF Repl!DeleteCommand, Repl!OnMain, Repl!AtPrompt, Repl!Forgotten, Repl!Conv
<1>22. CASE Repl!Gone
  BY <1>22 DEF Repl!Gone, Repl!Forgotten, Repl!Conv
<1>23. CASE Repl!Resume
  BY <1>23 DEF Repl!Resume, Repl!Resumed
<1>24. CASE Repl!Idle
  BY <1>24 DEF Repl!Idle, Repl!sessionVars
<1>25. CASE UNCHANGED repl
  BY <1>25 DEF repl
<1> QED
  BY <1>1, <1>2, <1>3, <1>4, <1>5, <1>6, <1>7, <1>8, <1>9, <1>10, <1>11, <1>12, <1>13, <1>14, <1>15, <1>16, <1>17, <1>18, <1>19, <1>20, <1>21, <1>22, <1>23, <1>24, <1>25 DEF Repl!Next

LEMMA ModesStep ==
    ASSUME ReplCounts, ReplInv, [Repl!Next]_repl
    PROVE  ModesFit'
<1> USE DEF ReplCounts, ReplInv, ModesFit, ReplData, Memories, SavedFiles, Repl!Files,
        Repl!Ids, Repl!Convs, Repl!FreshEpoch, Repl!Reconciled, Repl!Conv
<1>1. CASE Repl!Submit
  BY <1>1 DEF Repl!Submit, Repl!OnMain, Repl!AtPrompt, Repl!CanType, Repl!NextTurn, Repl!WithTurn, Repl!Saved, Repl!Started, Repl!Effective
<1>2. CASE Repl!OpenSide
  BY <1>2 DEF Repl!OpenSide, Repl!AtPrompt
<1>3. CASE Repl!AskOnTheSide
  BY <1>3 DEF Repl!AskOnTheSide, Repl!AtPrompt, Repl!CanType, Repl!NextTurn, Repl!WithTurn, Repl!Started, Repl!Effective
<1>4. CASE Repl!SubmitSide
  BY <1>4 DEF Repl!SubmitSide, Repl!AtPrompt, Repl!CanType, Repl!NextTurn, Repl!WithTurn, Repl!Started, Repl!Effective
<1>5. CASE Repl!ReturnToMain
  BY <1>5 DEF Repl!ReturnToMain, Repl!AtPrompt
<1>6. CASE Repl!CallModel
  BY <1>6 DEF Repl!CallModel, Repl!Saved
<1>7. CASE Repl!RunEnds
  BY <1>7 DEF Repl!RunEnds
<1>8. CASE Repl!ApprovePlan
  BY <1>8 DEF Repl!ApprovePlan, Repl!CanType, Repl!NextTurn, Repl!WithTurn, Repl!Saved
<1>9. CASE Repl!RejectPlan
  BY <1>9 DEF Repl!RejectPlan
<1>10. CASE Repl!PlanModeCommand
  BY <1>10 DEF Repl!PlanModeCommand, Repl!OnMain, Repl!AtPrompt
<1>11. CASE Repl!ModeCommand
  BY <1>11 DEF Repl!ModeCommand, Repl!OnMain, Repl!AtPrompt
<1>12. CASE Repl!ClearCommand
  BY <1>12 DEF Repl!ClearCommand, Repl!OnMain, Repl!AtPrompt
<1>13. CASE Repl!NewCommand
  BY <1>13 DEF Repl!NewCommand, Repl!OnMain, Repl!AtPrompt, Repl!Saved
<1>14. CASE Repl!ForkCommand
  BY <1>14 DEF Repl!ForkCommand, Repl!OnMain, Repl!AtPrompt
<1>15. CASE Repl!SaveCommand
  BY <1>15 DEF Repl!SaveCommand, Repl!OnMain, Repl!AtPrompt, Repl!Saved
<1>16. CASE Repl!CompactCommand
  BY <1>16 DEF Repl!CompactCommand, Repl!OnMain, Repl!AtPrompt, Repl!Saved
<1>17. CASE Repl!GoalCommand
  BY <1>17 DEF Repl!GoalCommand, Repl!OnMain, Repl!AtPrompt
<1>18. CASE Repl!PlanCommand
  BY <1>18 DEF Repl!PlanCommand, Repl!OnMain, Repl!AtPrompt, Repl!CanType, Repl!NextTurn, Repl!WithTurn, Repl!Saved
<1>19. CASE Repl!AgentCommand
  BY <1>19 DEF Repl!AgentCommand, Repl!OnMain, Repl!AtPrompt, Repl!CanType, Repl!NextTurn, Repl!WithTurn, Repl!Started, Repl!Effective
<1>20. CASE Repl!ArchiveCommand
  BY <1>20 DEF Repl!ArchiveCommand, Repl!OnMain, Repl!AtPrompt, Repl!Forgotten
<1>21. CASE Repl!DeleteCommand
  BY <1>21 DEF Repl!DeleteCommand, Repl!OnMain, Repl!AtPrompt, Repl!Forgotten
<1>22. CASE Repl!Gone
  BY <1>22 DEF Repl!Gone, Repl!Forgotten
<1>23. CASE Repl!Resume
  BY <1>23 DEF Repl!Resume, Repl!Resumed
<1>24. CASE Repl!Idle
  BY <1>24 DEF Repl!Idle, Repl!sessionVars
<1>25. CASE UNCHANGED repl
  BY <1>25 DEF repl
<1> QED
  BY <1>1, <1>2, <1>3, <1>4, <1>5, <1>6, <1>7, <1>8, <1>9, <1>10, <1>11, <1>12, <1>13, <1>14, <1>15, <1>16, <1>17, <1>18, <1>19, <1>20, <1>21, <1>22, <1>23, <1>24, <1>25 DEF Repl!Next

LEMMA SnapsStep ==
    ASSUME ReplCounts, ReplInv, [Repl!Next]_repl
    PROVE  SnapsFit'
<1>1. CASE Repl!CallModel
  <2>1. UNCHANGED side
    BY <1>1, Zenon DEF Repl!CallModel
  <2>2. CASE run.thread \in {"side", "quick"}
    <3>1. ~severed' => ~severed /\ mem'.snap = mem.snap
      BY <1>1, <2>2, Zenon DEF Repl!CallModel
    <3> QED
      BY <1>1, <2>1, <3>1, CallTells DEF ReplInv, SnapsFit
  <2>3. CASE run.thread \notin {"side", "quick"}
    <3>1. side' = None
      BY <1>1, <2>1, <2>3 DEF Repl!CallModel, ReplInv, SidesFit
    <3>2. ~severed' => ~severed \/ mem' # mem
      BY <1>1, <2>3, Zenon DEF Repl!CallModel
    <3> QED
      BY <1>1, <3>1, <3>2, CallTells DEF ReplInv, SnapsFit
  <2> QED
    BY <2>2, <2>3
<1> USE DEF ReplCounts, ReplInv, SnapsFit, SidesFit, ModesFit, ReplData, Memories,
        SavedFiles, Repl!Sides, Repl!Convs, Repl!Told, Repl!FreshEpoch,
        Repl!Reconciled, Repl!Conv
<1>2. CASE Repl!Submit
  BY <1>2 DEF Repl!Submit, Repl!OnMain, Repl!AtPrompt, Repl!CanType, Repl!NextTurn, Repl!WithTurn, Repl!Saved, Repl!Started, Repl!Effective
<1>3. CASE Repl!OpenSide
  BY <1>3 DEF Repl!OpenSide, Repl!AtPrompt
<1>4. CASE Repl!AskOnTheSide
  BY <1>4 DEF Repl!AskOnTheSide, Repl!AtPrompt, Repl!CanType, Repl!NextTurn, Repl!WithTurn, Repl!Started, Repl!Effective
<1>5. CASE Repl!SubmitSide
  BY <1>5 DEF Repl!SubmitSide, Repl!AtPrompt, Repl!CanType, Repl!NextTurn, Repl!WithTurn, Repl!Started, Repl!Effective
<1>6. CASE Repl!ReturnToMain
  BY <1>6 DEF Repl!ReturnToMain, Repl!AtPrompt
<1>7. CASE Repl!RunEnds
  BY <1>7 DEF Repl!RunEnds
<1>8. CASE Repl!ApprovePlan
  BY <1>8 DEF Repl!ApprovePlan, Repl!CanType, Repl!NextTurn, Repl!WithTurn, Repl!Saved
<1>9. CASE Repl!RejectPlan
  BY <1>9 DEF Repl!RejectPlan
<1>10. CASE Repl!PlanModeCommand
  BY <1>10 DEF Repl!PlanModeCommand, Repl!OnMain, Repl!AtPrompt
<1>11. CASE Repl!ModeCommand
  BY <1>11 DEF Repl!ModeCommand, Repl!OnMain, Repl!AtPrompt
<1>12. CASE Repl!ClearCommand
  BY <1>12 DEF Repl!ClearCommand, Repl!OnMain, Repl!AtPrompt
<1>13. CASE Repl!NewCommand
  BY <1>13 DEF Repl!NewCommand, Repl!OnMain, Repl!AtPrompt, Repl!Saved
<1>14. CASE Repl!ForkCommand
  BY <1>14 DEF Repl!ForkCommand, Repl!OnMain, Repl!AtPrompt
<1>15. CASE Repl!SaveCommand
  BY <1>15 DEF Repl!SaveCommand, Repl!OnMain, Repl!AtPrompt, Repl!Saved
<1>16. CASE Repl!CompactCommand
  BY <1>16 DEF Repl!CompactCommand, Repl!OnMain, Repl!AtPrompt, Repl!Saved
<1>17. CASE Repl!GoalCommand
  BY <1>17 DEF Repl!GoalCommand, Repl!OnMain, Repl!AtPrompt
<1>18. CASE Repl!PlanCommand
  BY <1>18 DEF Repl!PlanCommand, Repl!OnMain, Repl!AtPrompt, Repl!CanType, Repl!NextTurn, Repl!WithTurn, Repl!Saved
<1>19. CASE Repl!AgentCommand
  BY <1>19 DEF Repl!AgentCommand, Repl!OnMain, Repl!AtPrompt, Repl!CanType, Repl!NextTurn, Repl!WithTurn, Repl!Started, Repl!Effective
<1>20. CASE Repl!ArchiveCommand
  BY <1>20 DEF Repl!ArchiveCommand, Repl!OnMain, Repl!AtPrompt, Repl!Forgotten
<1>21. CASE Repl!DeleteCommand
  BY <1>21 DEF Repl!DeleteCommand, Repl!OnMain, Repl!AtPrompt, Repl!Forgotten
<1>22. CASE Repl!Gone
  BY <1>22 DEF Repl!Gone, Repl!Forgotten
<1>23. CASE Repl!Resume
  BY <1>23 DEF Repl!Resume, Repl!Resumed
<1>24. CASE Repl!Idle
  BY <1>24 DEF Repl!Idle, Repl!sessionVars
<1>25. CASE UNCHANGED repl
  BY <1>25 DEF repl
<1> QED
  BY <1>1, <1>2, <1>3, <1>4, <1>5, <1>6, <1>7, <1>8, <1>9, <1>10, <1>11, <1>12, <1>13, <1>14, <1>15, <1>16, <1>17, <1>18, <1>19, <1>20, <1>21, <1>22, <1>23, <1>24, <1>25 DEF Repl!Next

LEMMA TurnsStep ==
    ASSUME ReplCounts, ReplInv, [Repl!Next]_repl
    PROVE  TurnsFit'
<1>1. CASE Repl!AskOnTheSide
  <2>1. side' = [main |-> mem.conv, conv |-> mem.conv] /\ mem' = Repl!WithTurn(mem, Repl!NextTurn)
        /\ run' = Repl!Started("quick") /\ typed' = typed + 1 /\ UNCHANGED prompted
    BY <1>1, Zenon DEF Repl!AskOnTheSide, Repl!NextTurn
  <2>2. run' # None
    BY <2>1, StartedTyped DEF ReplCounts, ReplInv
  <2>3. mem.conv.turns \subseteq mem'.conv.turns
    BY <2>1, WithTurnTurns DEF ReplInv, ReplData
  <2> QED
    BY <2>1, <2>2, <2>3 DEF ReplCounts, ReplInv, ReplData, TurnsFit
<1>2. CASE Repl!SubmitSide
  <2>1. /\ mem' = Repl!WithTurn([mem EXCEPT !.conv = side.conv], Repl!NextTurn) /\ side # None
        /\ run' = Repl!Started("side") /\ typed' = typed + 1 /\ UNCHANGED <<side, prompted>>
    BY <1>2, Zenon DEF Repl!SubmitSide, Repl!NextTurn
  <2>2. run' # None
    BY <2>1, StartedTyped DEF ReplCounts, ReplInv
  <2>3. side.conv.turns \subseteq mem'.conv.turns
    <3>1. [mem EXCEPT !.conv = side.conv] \in Memories /\ [mem EXCEPT !.conv = side.conv].conv = side.conv
      BY <2>1 DEF ReplInv, ReplData, Memories, Repl!Sides
    <3> QED
      BY <2>1, <3>1, WithTurnTurns
  <2> QED
    BY <2>1, <2>2, <2>3 DEF ReplCounts, ReplInv, ReplData, TurnsFit
<1>3. CASE Repl!CallModel
  <2>1. run # None /\ run'.thread = run.thread /\ UNCHANGED <<side, typed, prompted>>
    BY <1>3 DEF Repl!CallModel, ReplInv, ReplData, Repl!Runs
  <2>2. run' # None
    BY <1>3, <2>1 DEF Repl!CallModel, ReplCounts, ReplInv, ReplData, Repl!Runs
  <2> QED
    BY <1>3, <2>1, <2>2, CallTells DEF ReplInv, TurnsFit
<1> USE DEF ReplCounts, ReplInv, TurnsFit, SidesFit, ReplData, Memories, SavedFiles,
        Repl!Turns, Repl!Sides, Repl!Runs, Repl!Convs, Repl!FreshEpoch,
        Repl!Reconciled, Repl!Conv
<1>4. CASE Repl!Submit
  BY <1>4 DEF Repl!Submit, Repl!OnMain, Repl!AtPrompt, Repl!CanType, Repl!NextTurn, Repl!WithTurn, Repl!Saved, Repl!Started, Repl!Effective
<1>5. CASE Repl!OpenSide
  BY <1>5 DEF Repl!OpenSide, Repl!AtPrompt
<1>6. CASE Repl!ReturnToMain
  BY <1>6 DEF Repl!ReturnToMain, Repl!AtPrompt
<1>7. CASE Repl!RunEnds
  BY <1>7 DEF Repl!RunEnds
<1>8. CASE Repl!ApprovePlan
  BY <1>8 DEF Repl!ApprovePlan, Repl!CanType, Repl!NextTurn, Repl!WithTurn, Repl!Saved
<1>9. CASE Repl!RejectPlan
  BY <1>9 DEF Repl!RejectPlan
<1>10. CASE Repl!PlanModeCommand
  BY <1>10 DEF Repl!PlanModeCommand, Repl!OnMain, Repl!AtPrompt
<1>11. CASE Repl!ModeCommand
  BY <1>11 DEF Repl!ModeCommand, Repl!OnMain, Repl!AtPrompt
<1>12. CASE Repl!ClearCommand
  BY <1>12 DEF Repl!ClearCommand, Repl!OnMain, Repl!AtPrompt
<1>13. CASE Repl!NewCommand
  BY <1>13 DEF Repl!NewCommand, Repl!OnMain, Repl!AtPrompt, Repl!Saved
<1>14. CASE Repl!ForkCommand
  BY <1>14 DEF Repl!ForkCommand, Repl!OnMain, Repl!AtPrompt
<1>15. CASE Repl!SaveCommand
  BY <1>15 DEF Repl!SaveCommand, Repl!OnMain, Repl!AtPrompt, Repl!Saved
<1>16. CASE Repl!CompactCommand
  BY <1>16 DEF Repl!CompactCommand, Repl!OnMain, Repl!AtPrompt, Repl!Saved
<1>17. CASE Repl!GoalCommand
  BY <1>17 DEF Repl!GoalCommand, Repl!OnMain, Repl!AtPrompt
<1>18. CASE Repl!PlanCommand
  BY <1>18 DEF Repl!PlanCommand, Repl!OnMain, Repl!AtPrompt, Repl!CanType, Repl!NextTurn, Repl!WithTurn, Repl!Saved
<1>19. CASE Repl!AgentCommand
  BY <1>19 DEF Repl!AgentCommand, Repl!OnMain, Repl!AtPrompt, Repl!CanType, Repl!NextTurn, Repl!WithTurn, Repl!Started, Repl!Effective
<1>20. CASE Repl!ArchiveCommand
  BY <1>20 DEF Repl!ArchiveCommand, Repl!OnMain, Repl!AtPrompt, Repl!Forgotten
<1>21. CASE Repl!DeleteCommand
  BY <1>21 DEF Repl!DeleteCommand, Repl!OnMain, Repl!AtPrompt, Repl!Forgotten
<1>22. CASE Repl!Gone
  BY <1>22 DEF Repl!Gone, Repl!Forgotten
<1>23. CASE Repl!Resume
  BY <1>23 DEF Repl!Resume, Repl!Resumed
<1>24. CASE Repl!Idle
  BY <1>24 DEF Repl!Idle, Repl!sessionVars
<1>25. CASE UNCHANGED repl
  BY <1>25 DEF repl
<1> QED
  BY <1>1, <1>2, <1>3, <1>4, <1>5, <1>6, <1>7, <1>8, <1>9, <1>10, <1>11, <1>12, <1>13, <1>14, <1>15, <1>16, <1>17, <1>18, <1>19, <1>20, <1>21, <1>22, <1>23, <1>24, <1>25 DEF Repl!Next

LEMMA ToldStep ==
    ASSUME ReplCounts, ReplInv, [Repl!Next]_repl
    PROVE  Repl!ModeIsTold'
<1>1. CASE Repl!CallModel
  <2>1. SnapsFit'
    BY <1>1, SnapsStep
  <2> QED
    BY <1>1, <2>1, CallTells DEF SnapsFit, Repl!ModeIsTold
<1> USE DEF ReplCounts, ReplInv, SnapsFit, SidesFit, ModesFit, ReplData, Memories,
        SavedFiles, Repl!Runs, Repl!Convs, Repl!Told, Repl!FreshEpoch, Repl!Reconciled,
        Repl!ModeIsTold
<1>2. CASE Repl!Submit
  BY <1>2 DEF Repl!Submit, Repl!OnMain, Repl!AtPrompt, Repl!CanType, Repl!NextTurn, Repl!WithTurn, Repl!Saved, Repl!Started, Repl!Effective
<1>3. CASE Repl!OpenSide
  BY <1>3 DEF Repl!OpenSide, Repl!AtPrompt
<1>4. CASE Repl!AskOnTheSide
  BY <1>4 DEF Repl!AskOnTheSide, Repl!AtPrompt, Repl!CanType, Repl!NextTurn, Repl!WithTurn, Repl!Started, Repl!Effective
<1>5. CASE Repl!SubmitSide
  BY <1>5 DEF Repl!SubmitSide, Repl!AtPrompt, Repl!CanType, Repl!NextTurn, Repl!WithTurn, Repl!Started, Repl!Effective
<1>6. CASE Repl!ReturnToMain
  BY <1>6 DEF Repl!ReturnToMain, Repl!AtPrompt
<1>7. CASE Repl!RunEnds
  BY <1>7 DEF Repl!RunEnds
<1>8. CASE Repl!ApprovePlan
  BY <1>8 DEF Repl!ApprovePlan, Repl!CanType, Repl!NextTurn, Repl!WithTurn, Repl!Saved
<1>9. CASE Repl!RejectPlan
  BY <1>9 DEF Repl!RejectPlan
<1>10. CASE Repl!PlanModeCommand
  BY <1>10 DEF Repl!PlanModeCommand, Repl!OnMain, Repl!AtPrompt
<1>11. CASE Repl!ModeCommand
  BY <1>11 DEF Repl!ModeCommand, Repl!OnMain, Repl!AtPrompt
<1>12. CASE Repl!ClearCommand
  BY <1>12 DEF Repl!ClearCommand, Repl!OnMain, Repl!AtPrompt
<1>13. CASE Repl!NewCommand
  BY <1>13 DEF Repl!NewCommand, Repl!OnMain, Repl!AtPrompt, Repl!Saved, Repl!Conv
<1>14. CASE Repl!ForkCommand
  BY <1>14 DEF Repl!ForkCommand, Repl!OnMain, Repl!AtPrompt
<1>15. CASE Repl!SaveCommand
  BY <1>15 DEF Repl!SaveCommand, Repl!OnMain, Repl!AtPrompt, Repl!Saved
<1>16. CASE Repl!CompactCommand
  BY <1>16 DEF Repl!CompactCommand, Repl!OnMain, Repl!AtPrompt, Repl!Saved
<1>17. CASE Repl!GoalCommand
  BY <1>17 DEF Repl!GoalCommand, Repl!OnMain, Repl!AtPrompt, Repl!Conv
<1>18. CASE Repl!PlanCommand
  BY <1>18 DEF Repl!PlanCommand, Repl!OnMain, Repl!AtPrompt, Repl!CanType, Repl!NextTurn, Repl!WithTurn, Repl!Saved
<1>19. CASE Repl!AgentCommand
  BY <1>19 DEF Repl!AgentCommand, Repl!OnMain, Repl!AtPrompt, Repl!CanType, Repl!NextTurn, Repl!WithTurn, Repl!Started, Repl!Effective
<1>20. CASE Repl!ArchiveCommand
  BY <1>20 DEF Repl!ArchiveCommand, Repl!OnMain, Repl!AtPrompt, Repl!Forgotten, Repl!Conv
<1>21. CASE Repl!DeleteCommand
  BY <1>21 DEF Repl!DeleteCommand, Repl!OnMain, Repl!AtPrompt, Repl!Forgotten, Repl!Conv
<1>22. CASE Repl!Gone
  BY <1>22 DEF Repl!Gone, Repl!Forgotten, Repl!Conv
<1>23. CASE Repl!Resume
  BY <1>23 DEF Repl!Resume, Repl!Resumed
<1>24. CASE Repl!Idle
  BY <1>24 DEF Repl!Idle, Repl!sessionVars
<1>25. CASE UNCHANGED repl
  BY <1>25 DEF repl
<1> QED
  BY <1>1, <1>2, <1>3, <1>4, <1>5, <1>6, <1>7, <1>8, <1>9, <1>10, <1>11, <1>12, <1>13, <1>14, <1>15, <1>16, <1>17, <1>18, <1>19, <1>20, <1>21, <1>22, <1>23, <1>24, <1>25 DEF Repl!Next

LEMMA PromptsStep ==
    ASSUME ReplCounts, ReplInv, [Repl!Next]_repl
    PROVE  Repl!PromptsAreSaved'
<1>1. CASE Repl!Submit
  <2>1. files' = Repl!Saved(mem', files) /\ mem' = Repl!WithTurn(mem, Repl!NextTurn) /\ side' = None
    BY <1>1 DEF Repl!Submit, Repl!OnMain, ReplInv, SidesFit
  <2>2. mem' \in Memories /\ files \in SavedFiles
    BY <1>1, DataStep DEF ReplInv, ReplData
  <2>3. files'[mem'.id] # None /\ files'[mem'.id].conv = mem'.conv
    BY <2>1, <2>2, SavedTurns
  <2> QED
    BY <2>1, <2>3 DEF Repl!PromptsAreSaved, Repl!Main
<1>2. CASE Repl!OpenSide
  <2>1. side' # None /\ side'.main = mem.conv
    BY <1>2, DataStep DEF ReplCounts, ReplInv, ReplData, Memories, Repl!OpenSide, Repl!Sides
  <2>2. Repl!Main' = Repl!Main /\ UNCHANGED <<mem, files, up, prompted>>
    BY <1>2, <2>1 DEF Repl!OpenSide, Repl!AtPrompt, ReplInv, TurnsFit, Repl!Main
  <2> QED
    BY <2>2 DEF ReplInv, Repl!PromptsAreSaved
<1>3. CASE Repl!AskOnTheSide
  <2>1. side' # None /\ side'.main = mem.conv
    BY <1>3, DataStep DEF ReplCounts, ReplInv, ReplData, Memories, Repl!AskOnTheSide, Repl!Sides
  <2>2. Repl!Main' = Repl!Main
    BY <1>3, <2>1 DEF Repl!AskOnTheSide, Repl!AtPrompt, ReplInv, TurnsFit, Repl!Main
  <2>3. mem'.id = mem.id /\ UNCHANGED <<files, up, prompted>>
    BY <1>3, WithTurnTurns DEF ReplInv, ReplData, Repl!AskOnTheSide
  <2> QED
    BY <2>2, <2>3 DEF ReplInv, Repl!PromptsAreSaved
<1>4. CASE Repl!CallModel
  <2>1. files' = Repl!Saved(mem', files) /\ UNCHANGED <<side, up, prompted>> /\ run # None
    BY <1>4, Zenon DEF Repl!CallModel
  <2>2. mem' \in Memories /\ files \in SavedFiles
    BY <1>4, DataStep DEF ReplInv, ReplData
  <2>3. files'[mem'.id] # None /\ files'[mem'.id].conv = mem'.conv
    BY <2>1, <2>2, SavedTurns
  <2>4. Repl!Main'.turns \subseteq mem'.conv.turns
    <3>1. CASE side = None
      BY <2>1, <3>1 DEF Repl!Main
    <3>2. CASE side # None
      BY <1>4, <2>1, <3>2, CallTells DEF ReplInv, SidesFit, TurnsFit, Repl!Main
    <3> QED
      BY <3>1, <3>2
  <2> QED
    BY <2>3, <2>4 DEF Repl!PromptsAreSaved
<1>5. CASE Repl!ApprovePlan
  <2>1. files' = Repl!Saved(mem', files) /\ mem' = Repl!WithTurn(mem, Repl!NextTurn) /\ side' = None
    BY <1>5 DEF Repl!ApprovePlan, Repl!OnMain, ReplInv, SidesFit
  <2>2. mem' \in Memories /\ files \in SavedFiles
    BY <1>5, DataStep DEF ReplInv, ReplData
  <2>3. files'[mem'.id] # None /\ files'[mem'.id].conv = mem'.conv
    BY <2>1, <2>2, SavedTurns
  <2> QED
    BY <2>1, <2>3 DEF Repl!PromptsAreSaved, Repl!Main
<1>6. CASE Repl!CompactCommand
  <2>1. files' = Repl!Saved(mem', files) /\ side' = None
    BY <1>6 DEF Repl!CompactCommand, Repl!OnMain
  <2>2. mem' \in Memories /\ files \in SavedFiles
    BY <1>6, DataStep DEF ReplInv, ReplData
  <2>3. files'[mem'.id] # None /\ files'[mem'.id].conv = mem'.conv
    BY <2>1, <2>2, SavedTurns
  <2> QED
    BY <2>1, <2>3 DEF Repl!PromptsAreSaved, Repl!Main
<1>7. CASE Repl!PlanCommand
  <2>1. files' = Repl!Saved(mem', files) /\ mem' = Repl!WithTurn(mem, Repl!NextTurn) /\ side' = None
    BY <1>7 DEF Repl!PlanCommand, Repl!OnMain, ReplInv, SidesFit
  <2>2. mem' \in Memories /\ files \in SavedFiles
    BY <1>7, DataStep DEF ReplInv, ReplData
  <2>3. files'[mem'.id] # None /\ files'[mem'.id].conv = mem'.conv
    BY <2>1, <2>2, SavedTurns
  <2> QED
    BY <2>1, <2>3 DEF Repl!PromptsAreSaved, Repl!Main
<1> USE DEF ReplCounts, ReplInv, TurnsFit, SidesFit, ReplData, Memories, SavedFiles,
        Repl!Turns, Repl!Ids, Repl!Files, Repl!Sides, Repl!Convs, Repl!Main,
        Repl!FreshEpoch, Repl!Reconciled, Repl!PromptsAreSaved
<1>8. CASE Repl!SubmitSide
  BY <1>8 DEF Repl!SubmitSide, Repl!AtPrompt, Repl!CanType, Repl!NextTurn, Repl!WithTurn, Repl!Started, Repl!Effective
<1>9. CASE Repl!ReturnToMain
  BY <1>9 DEF Repl!ReturnToMain, Repl!AtPrompt
<1>10. CASE Repl!RunEnds
  BY <1>10 DEF Repl!RunEnds
<1>11. CASE Repl!RejectPlan
  BY <1>11 DEF Repl!RejectPlan
<1>12. CASE Repl!PlanModeCommand
  BY <1>12 DEF Repl!PlanModeCommand, Repl!OnMain, Repl!AtPrompt
<1>13. CASE Repl!ModeCommand
  BY <1>13 DEF Repl!ModeCommand, Repl!OnMain, Repl!AtPrompt
<1>14. CASE Repl!ClearCommand
  BY <1>14 DEF Repl!ClearCommand, Repl!OnMain, Repl!AtPrompt
<1>15. CASE Repl!NewCommand
  BY <1>15 DEF Repl!NewCommand, Repl!OnMain, Repl!AtPrompt, Repl!Saved, Repl!Conv
<1>16. CASE Repl!ForkCommand
  BY <1>16 DEF Repl!ForkCommand, Repl!OnMain, Repl!AtPrompt
<1>17. CASE Repl!SaveCommand
  BY <1>17 DEF Repl!SaveCommand, Repl!OnMain, Repl!AtPrompt, Repl!Saved
<1>18. CASE Repl!GoalCommand
  BY <1>18 DEF Repl!GoalCommand, Repl!OnMain, Repl!AtPrompt, Repl!Conv
<1>19. CASE Repl!AgentCommand
  BY <1>19 DEF Repl!AgentCommand, Repl!OnMain, Repl!AtPrompt, Repl!CanType, Repl!NextTurn, Repl!WithTurn, Repl!Started, Repl!Effective
<1>20. CASE Repl!ArchiveCommand
  BY <1>20 DEF Repl!ArchiveCommand, Repl!OnMain, Repl!AtPrompt, Repl!Forgotten, Repl!Conv
<1>21. CASE Repl!DeleteCommand
  BY <1>21 DEF Repl!DeleteCommand, Repl!OnMain, Repl!AtPrompt, Repl!Forgotten, Repl!Conv
<1>22. CASE Repl!Gone
  BY <1>22 DEF Repl!Gone, Repl!Forgotten, Repl!Conv
<1>23. CASE Repl!Resume
  BY <1>23 DEF Repl!Resume, Repl!Resumed
<1>24. CASE Repl!Idle
  BY <1>24 DEF Repl!Idle, Repl!sessionVars
<1>25. CASE UNCHANGED repl
  BY <1>25 DEF repl
<1> QED
  BY <1>1, <1>2, <1>3, <1>4, <1>5, <1>6, <1>7, <1>8, <1>9, <1>10, <1>11, <1>12, <1>13, <1>14, <1>15, <1>16, <1>17, <1>18, <1>19, <1>20, <1>21, <1>22, <1>23, <1>24, <1>25 DEF Repl!Next

LEMMA GateStep ==
    ASSUME ReplCounts, ReplInv, [Repl!Next]_repl
    PROVE  Repl!PlanGate'
<1>1. CASE Repl!ApprovePlan
  <2>1. ~asking' /\ phase' = "executing"
    BY <1>1, Zenon DEF Repl!ApprovePlan
  <2>2. run' = [thread |-> "plan", mode |-> mem.mode, called |-> FALSE]
    BY <1>1, Zenon DEF Repl!ApprovePlan
  <2>3. run' \in Repl!Runs
    BY <2>2 DEF ReplInv, ReplData, Memories, Repl!Runs
  <2>4. run' # None /\ run'.thread = "plan"
    BY <2>2, <2>3 DEF ReplCounts
  <2> QED
    BY <2>1, <2>4 DEF Repl!PlanGate
<1> USE DEF ReplCounts, ReplInv, SidesFit, ReplData, Memories, SavedFiles, Repl!Runs,
        Repl!PlanGate
<1>2. CASE Repl!Submit
  BY <1>2 DEF Repl!Submit, Repl!OnMain, Repl!AtPrompt, Repl!CanType, Repl!NextTurn, Repl!WithTurn, Repl!Saved, Repl!Started, Repl!Effective
<1>3. CASE Repl!OpenSide
  BY <1>3 DEF Repl!OpenSide, Repl!AtPrompt
<1>4. CASE Repl!AskOnTheSide
  BY <1>4 DEF Repl!AskOnTheSide, Repl!AtPrompt, Repl!CanType, Repl!NextTurn, Repl!WithTurn, Repl!Started, Repl!Effective
<1>5. CASE Repl!SubmitSide
  BY <1>5 DEF Repl!SubmitSide, Repl!AtPrompt, Repl!CanType, Repl!NextTurn, Repl!WithTurn, Repl!Started, Repl!Effective
<1>6. CASE Repl!ReturnToMain
  BY <1>6 DEF Repl!ReturnToMain, Repl!AtPrompt
<1>7. CASE Repl!CallModel
  BY <1>7 DEF Repl!CallModel, Repl!Saved
<1>8. CASE Repl!RunEnds
  BY <1>8 DEF Repl!RunEnds
<1>9. CASE Repl!RejectPlan
  BY <1>9 DEF Repl!RejectPlan
<1>10. CASE Repl!PlanModeCommand
  BY <1>10 DEF Repl!PlanModeCommand, Repl!OnMain, Repl!AtPrompt
<1>11. CASE Repl!ModeCommand
  BY <1>11 DEF Repl!ModeCommand, Repl!OnMain, Repl!AtPrompt
<1>12. CASE Repl!ClearCommand
  BY <1>12 DEF Repl!ClearCommand, Repl!OnMain, Repl!AtPrompt
<1>13. CASE Repl!NewCommand
  BY <1>13 DEF Repl!NewCommand, Repl!OnMain, Repl!AtPrompt, Repl!Saved, Repl!Conv
<1>14. CASE Repl!ForkCommand
  BY <1>14 DEF Repl!ForkCommand, Repl!OnMain, Repl!AtPrompt
<1>15. CASE Repl!SaveCommand
  BY <1>15 DEF Repl!SaveCommand, Repl!OnMain, Repl!AtPrompt, Repl!Saved
<1>16. CASE Repl!CompactCommand
  BY <1>16 DEF Repl!CompactCommand, Repl!OnMain, Repl!AtPrompt, Repl!Saved
<1>17. CASE Repl!GoalCommand
  BY <1>17 DEF Repl!GoalCommand, Repl!OnMain, Repl!AtPrompt, Repl!Conv
<1>18. CASE Repl!PlanCommand
  BY <1>18 DEF Repl!PlanCommand, Repl!OnMain, Repl!AtPrompt, Repl!CanType, Repl!NextTurn, Repl!WithTurn, Repl!Saved
<1>19. CASE Repl!AgentCommand
  BY <1>19 DEF Repl!AgentCommand, Repl!OnMain, Repl!AtPrompt, Repl!CanType, Repl!NextTurn, Repl!WithTurn, Repl!Started, Repl!Effective
<1>20. CASE Repl!ArchiveCommand
  BY <1>20 DEF Repl!ArchiveCommand, Repl!OnMain, Repl!AtPrompt, Repl!Forgotten, Repl!Conv
<1>21. CASE Repl!DeleteCommand
  BY <1>21 DEF Repl!DeleteCommand, Repl!OnMain, Repl!AtPrompt, Repl!Forgotten, Repl!Conv
<1>22. CASE Repl!Gone
  BY <1>22 DEF Repl!Gone, Repl!Forgotten, Repl!Conv
<1>23. CASE Repl!Resume
  BY <1>23 DEF Repl!Resume, Repl!Resumed
<1>24. CASE Repl!Idle
  BY <1>24 DEF Repl!Idle, Repl!sessionVars
<1>25. CASE UNCHANGED repl
  BY <1>25 DEF repl
<1> QED
  BY <1>1, <1>2, <1>3, <1>4, <1>5, <1>6, <1>7, <1>8, <1>9, <1>10, <1>11, <1>12, <1>13, <1>14, <1>15, <1>16, <1>17, <1>18, <1>19, <1>20, <1>21, <1>22, <1>23, <1>24, <1>25 DEF Repl!Next


LEMMA TypedIsTyped == ReplData /\ ReplFlags => Repl!TypeOK
BY DEF ReplData, ReplFlags, Memories, SavedFiles, Repl!TypeOK

LEMMA ReplBegins ==
    ASSUME ReplCounts, Repl!Init
    PROVE  ReplInv
<1>1. PICK m \in ApprovalModes : mem = [id |-> 1, conv |-> Repl!Conv(m, None, {}), mode |-> m, snap |-> m]
  BY Zenon DEF Repl!Init
<1>2. /\ phase = "off" /\ side = None /\ run = None /\ asking = FALSE
      /\ files = [i \in Repl!Ids |-> None]
      /\ up = TRUE /\ typed = 0 /\ prompted = {} /\ severed = FALSE /\ crashes = 0
  BY Zenon DEF Repl!Init
<1>3. ReplData
  BY <1>1, <1>2 DEF ReplCounts, ReplData, Memories, SavedFiles, Repl!Conv, Repl!Convs, Repl!Ids, Repl!Turns
<1>4. ReplFlags
  BY <1>2, Zenon DEF ReplFlags
<1>5. SidesFit /\ ModesFit /\ SnapsFit /\ TurnsFit
  BY <1>1, <1>2 DEF ReplCounts, SidesFit, ModesFit, SnapsFit, TurnsFit, Repl!Conv, Repl!Told
<1>6. Repl!ModeIsTold /\ Repl!PromptsAreSaved /\ Repl!PlanGate
  BY <1>2 DEF Repl!ModeIsTold, Repl!PromptsAreSaved, Repl!PlanGate
<1> QED
  BY <1>3, <1>4, <1>5, <1>6 DEF ReplInv

LEMMA ReplSteps ==
    ASSUME ReplCounts, ReplInv, [Repl!Next]_repl
    PROVE  ReplInv'
BY FlagsStep, DataStep, SidesStep, ModesStep, SnapsStep, TurnsStep, ToldStep, PromptsStep, GateStep
   DEF ReplInv

\* A step changes the file of no other session, and /new leaves its session whole.
LEMMA OthersStep ==
    ASSUME ReplCounts, ReplInv, [Repl!Next]_repl
    PROVE  Repl!OthersUntouched \/ UNCHANGED repl
<1> mem \in Memories /\ files \in SavedFiles
  BY DEF ReplInv, ReplData
<1>1. CASE UNCHANGED files /\ (mem'.id = mem.id \/ ~up \/ ~up')
  BY <1>1 DEF Repl!OthersUntouched
<1>2. CASE \E m \in Memories : m.id = mem.id /\ mem'.id = mem.id /\ files' = Repl!Saved(m, files)
  BY <1>2 DEF SavedFiles, Repl!Saved, Repl!OthersUntouched
<1> HIDE DEF Repl!OthersUntouched
<1>3. mem' \in Memories
  BY DataStep DEF ReplInv, ReplData
<1>4. CASE Repl!Submit \/ Repl!ApprovePlan \/ Repl!PlanCommand
  BY <1>2, <1>3, <1>4, WithTurnTurns DEF Repl!Submit, Repl!ApprovePlan, Repl!PlanCommand
<1>5. CASE Repl!CallModel
  <2>1. files' = Repl!Saved(mem', files)
    BY <1>5, Zenon DEF Repl!CallModel
  <2> QED
    BY <1>2, <1>3, <1>5, <2>1, CallTells
<1>6. CASE Repl!CompactCommand
  BY <1>2, <1>3, <1>6 DEF Repl!CompactCommand, Repl!FreshEpoch, Memories
<1>7. CASE Repl!SaveCommand
  BY <1>2, <1>7 DEF Repl!SaveCommand
<1>8. CASE Repl!OpenSide \/ Repl!ReturnToMain \/ Repl!RejectPlan \/ Repl!PlanModeCommand \/ Repl!ModeCommand
           \/ Repl!ClearCommand \/ UNCHANGED repl
  BY <1>1, <1>8 DEF Repl!OpenSide, Repl!ReturnToMain, Repl!RejectPlan, Repl!PlanModeCommand,
        Repl!ModeCommand, Repl!ClearCommand, repl, Memories
<1>9. CASE Repl!AskOnTheSide \/ Repl!AgentCommand
  BY <1>1, <1>9, WithTurnTurns DEF Repl!AskOnTheSide, Repl!AgentCommand
<1>10. CASE Repl!SubmitSide
  <2>1. side \in Repl!Sides
    BY <1>10 DEF ReplInv, ReplData, Repl!SubmitSide
  <2>2. [mem EXCEPT !.conv = side.conv] \in Memories /\ [mem EXCEPT !.conv = side.conv].id = mem.id
    BY <2>1 DEF Memories, Repl!Sides
  <2> QED
    BY <1>1, <1>10, <2>2, WithTurnTurns DEF Repl!SubmitSide
<1>11. CASE Repl!RunEnds
  <2>1. mem'.id = mem.id
    BY <1>11 DEF Repl!RunEnds, Memories
  <2>2. UNCHANGED files
    BY <1>11, Zenon DEF Repl!RunEnds
  <2> QED
    BY <1>1, <2>1, <2>2
<1>12. CASE Repl!NewCommand
  <2>1. PICK i \in Repl!Ids : /\ files[i] = None /\ files' = Repl!Saved(mem, files)
                              /\ mem' = [mem EXCEPT !.id = i, !.conv = Repl!Conv(None, None, {})]
    BY <1>12, Zenon DEF Repl!NewCommand
  <2>2. files'[mem.id] # None /\ files'[mem.id].conv = mem.conv
    BY <2>1, SavedTurns
  <2>3. \A j \in Repl!Ids \ {mem.id} : files'[j] = files[j]
    BY <2>1 DEF SavedFiles, Repl!Saved
  <2> QED
    BY <2>2, <2>3 DEF Repl!OthersUntouched
<1>13. CASE Repl!ForkCommand
  BY <1>13 DEF Repl!ForkCommand, Repl!OthersUntouched, SavedFiles
<1>14. CASE Repl!GoalCommand
  BY <1>14 DEF Repl!GoalCommand, Repl!OthersUntouched, SavedFiles, Memories
<1>15. CASE Repl!ArchiveCommand \/ Repl!Gone
  <2>1. UNCHANGED files
    BY <1>15, Zenon DEF Repl!ArchiveCommand, Repl!Gone
  <2>2. mem' = mem \/ ~up'
    BY <1>15 DEF Repl!ArchiveCommand, Repl!Gone, Repl!Forgotten
  <2> QED
    BY <1>1, <2>1, <2>2
<1>16. CASE Repl!DeleteCommand
  <2>1. \E i \in Repl!Ids : files' = [files EXCEPT ![i] = None]
    BY <1>16, Zenon DEF Repl!DeleteCommand
  <2>2. mem' = mem \/ ~up'
    BY <1>16 DEF Repl!DeleteCommand, Repl!Forgotten
  <2> QED
    BY <2>1, <2>2 DEF Repl!OthersUntouched, SavedFiles
<1>17. CASE Repl!Resume
  <2>1. ~up /\ UNCHANGED files
    BY <1>17, Zenon DEF Repl!Resume
  <2> QED
    BY <1>1, <2>1
<1>18. CASE Repl!Idle
  BY <1>1, <1>18 DEF Repl!Idle, Repl!sessionVars
<1> QED
  BY <1>4, <1>5, <1>6, <1>7, <1>8, <1>9, <1>10, <1>11, <1>12, <1>13, <1>14, <1>15, <1>16, <1>17, <1>18
     DEF Repl!Next

-----------------------------------------------------------------------------
(* Commands and permissions.                                                *)

\* The classes of tokens are disjoint.
LEMMA TokenClasses ==
    /\ Command!Operators \cap Command!Words = {} /\ ">" \notin Command!Words \cup Command!Operators
    /\ Command!Assignments \subseteq Command!Words
    /\ Command!Tokens = Command!Words \cup Command!Operators \cup {">"}
BY DEF Command!Tokens, Command!Operators, Command!Words, Command!ReadOnlyCmds, Command!Dangerous,
       Command!Shells, Command!Assignments, Command!PathWords, Command!Flags, Command!Expansions

\* Target, Before, Argument and Leads of Permissions, of any line r.
IsTarget(r, i) == i > 1 /\ r[i] \in Command!Words /\ r[i - 1] = ">"
Prior(r, i) ==
    {j \in 1 .. i - 1 : /\ r[j] \in Command!Words /\ ~IsTarget(r, j)
                        /\ \A k \in j .. i : r[k] \notin Command!Operators}
IsArg(r, i) == /\ r[i] \in Command!Words /\ ~IsTarget(r, i)
               /\ \E j \in Prior(r, i) \cup {i} : r[j] \notin Command!Assignments
IsLead(r, i) == IsArg(r, i) /\ \A j \in Prior(r, i) : r[j] \in Command!Assignments

\* A line that may still become well formed; one without a redirection; a place
\* behind the last operator, and those whose words count for the next one.
Fine(r) == \A i \in 1 .. Len(r) - 1 : r[i] = ">" => r[i + 1] \in Command!Words
Direct(r) == \A i \in 1 .. Len(r) : r[i] # ">"
Now(r, i) == \A k \in i .. Len(r) : r[k] \notin Command!Operators
Current(r) == {j \in 1 .. Len(r) : r[j] \in Command!Words /\ ~IsTarget(r, j) /\ Now(r, j)}

\* The segment s accounts for the word at i, and for a direct line its arguments
\* are what follows its head.
Slice(a, r, i) == i + Len(a) - 1 <= Len(r) /\ \A k \in 1 .. Len(a) : r[i + k - 1] = a[k]
Accounts(r, i, s) ==
    /\ IsTarget(r, i) => r[i] \in s.targets
    /\ ~IsTarget(r, i) /\ ~IsArg(r, i) => r[i] \in s.assigns
    /\ IsLead(r, i) => s.argv # <<>> /\ s.argv[1] = r[i]
    /\ IsArg(r, i) /\ ~IsLead(r, i) =>
         \E h \in Prior(r, i), k \in 2 .. Len(s.argv) :
             IsLead(r, h) /\ s.argv[1] = r[h] /\ s.argv[k] = r[i]
    /\ IsLead(r, i) /\ Direct(r) => Slice(s.argv, r, i)

Segments == [argv : Seq(Command!Words), assigns : SUBSET Command!Words, targets : SUBSET Command!Words]
Readings == [read : Seq(Command!Tokens), open : Segments, redirecting : BOOLEAN,
             commands : Seq(Segments), done : BOOLEAN]

\* The segments among which the one of a place is: the open one, or the closed ones.
SegmentsAt(c, i) == IF ~c.done /\ Now(c.read, i) THEN {c.open} ELSE ToSet(c.commands)

ReadsRight(c) ==
    /\ \A i \in 1 .. Len(c.read) : c.read[i] \in Command!Words =>
           \E s \in SegmentsAt(c, i) : Accounts(c.read, i, s)
    /\ ~c.done =>
        /\ c.redirecting <=> c.read # <<>> /\ c.read[Len(c.read)] = ">"
        /\ IF c.open.argv = <<>> THEN \A j \in Current(c.read) : c.read[j] \in Command!Assignments
                                 ELSE \E j \in Current(c.read) : IsLead(c.read, j)
        /\ Direct(c.read) => \A i \in Current(c.read) : IsLead(c.read, i) =>
               i + Len(c.open.argv) - 1 = Len(c.read)

CmdInv == cmd \in Readings /\ (cmd.done => cmd.open = Command!NoCommand)
            /\ (Fine(cmd.read) => ReadsRight(cmd))

-----------------------------------------------------------------------------

\* What the places behind i hold does not matter for what i is.
LEMMA PrefixSame ==
    ASSUME NEW r \in Seq(Command!Tokens), NEW t \in Command!Tokens, NEW i \in 1 .. Len(r)
    PROVE  LET q == Append(r, t) IN
           /\ q[i] = r[i] /\ (IsTarget(q, i) <=> IsTarget(r, i)) /\ Prior(q, i) = Prior(r, i)
           /\ (IsArg(q, i) <=> IsArg(r, i)) /\ (IsLead(q, i) <=> IsLead(r, i))
<1> DEFINE q == Append(r, t)
<1>1. \A k \in 1 .. Len(r) : q[k] = r[k]
  OBVIOUS
<1> HIDE DEF q
<1>2. \A k \in 1 .. i : IsTarget(q, k) <=> IsTarget(r, k)
  BY <1>1 DEF IsTarget
<1>3. Prior(q, i) = Prior(r, i)
  BY <1>1, <1>2 DEF Prior
<1>4. IsArg(q, i) <=> IsArg(r, i)
  BY <1>1, <1>2, <1>3 DEF IsArg, Prior
<1>5. IsLead(q, i) <=> IsLead(r, i)
  BY <1>1, <1>3, <1>4 DEF IsLead, Prior
<1> QED
  BY <1>1, <1>2, <1>3, <1>4, <1>5 DEF q

\* What one token more makes of the line.
LEMMA OneTokenMore ==
    ASSUME NEW r \in Seq(Command!Tokens), NEW t \in Command!Tokens
    PROVE  LET q == Append(r, t) n == Len(r) IN
           /\ Len(q) = n + 1 /\ q[n + 1] = t
           /\ Fine(q) <=> Fine(r) /\ (r # <<>> /\ r[n] = ">" => t \in Command!Words)
           /\ Direct(q) <=> Direct(r) /\ t # ">"
           /\ \A i \in 1 .. n : Now(q, i) <=> Now(r, i) /\ t \notin Command!Operators
           /\ t \notin Command!Operators => Prior(q, n + 1) = Current(r)
           /\ IsTarget(q, n + 1) <=> t \in Command!Words /\ r # <<>> /\ r[n] = ">"
<1> DEFINE q == Append(r, t) n == Len(r)
<1>1. /\ n \in Nat /\ Len(q) = n + 1 /\ q[n + 1] = t /\ \A k \in 1 .. n : q[k] = r[k]
      /\ r # <<>> <=> n > 0
  OBVIOUS
<1> HIDE DEF q, n
<1>2. Fine(q) <=> Fine(r) /\ (r # <<>> /\ r[n] = ">" => t \in Command!Words)
  <2>1. Fine(r) <=> \A i \in 1 .. n - 1 : q[i] = ">" => q[i + 1] \in Command!Words
    BY <1>1 DEF Fine, n
  <2>2. Fine(q) <=> \A i \in 1 .. n : q[i] = ">" => q[i + 1] \in Command!Words
    BY <1>1 DEF Fine
  <2> QED
    BY <1>1, <2>1, <2>2
<1>3. Direct(q) <=> Direct(r) /\ t # ">"
  BY <1>1 DEF Direct, n
<1>4. \A i \in 1 .. n : Now(q, i) <=> Now(r, i) /\ t \notin Command!Operators
  BY <1>1 DEF Now, n
<1>5. ASSUME t \notin Command!Operators PROVE Prior(q, n + 1) = Current(r)
  <2>1. \A j \in 1 .. n : IsTarget(q, j) <=> IsTarget(r, j)
    BY <1>1 DEF IsTarget
  <2>2. \A j \in 1 .. n : (\A k \in j .. n + 1 : q[k] \notin Command!Operators) <=> Now(r, j)
    BY <1>1, <1>5 DEF Now, n
  <2>3. Prior(q, n + 1) = {j \in 1 .. n : /\ q[j] \in Command!Words /\ ~IsTarget(q, j)
                              /\ \A k \in j .. n + 1 : q[k] \notin Command!Operators}
    BY <1>1 DEF Prior
  <2> QED
    BY <1>1, <2>1, <2>2, <2>3 DEF Current, n
<1>6. IsTarget(q, n + 1) <=> t \in Command!Words /\ r # <<>> /\ r[n] = ">"
  BY <1>1 DEF IsTarget
<1> QED
  BY <1>1, <1>2, <1>3, <1>4, <1>5, <1>6 DEF q, n

\* A segment that grows at its end still accounts for what it did.
Extends(s, u) ==
    /\ s.targets \subseteq u.targets /\ s.assigns \subseteq u.assigns
    /\ Len(s.argv) <= Len(u.argv) /\ \A k \in 1 .. Len(s.argv) : u.argv[k] = s.argv[k]

LEMMA StillAccounts ==
    ASSUME NEW r \in Seq(Command!Tokens), NEW t \in Command!Tokens, NEW i \in 1 .. Len(r),
           NEW s \in Segments, NEW u \in Segments, Extends(s, u), Accounts(r, i, s),
           IsLead(r, i) /\ Direct(Append(r, t)) => Slice(u.argv, Append(r, t), i)
    PROVE  Accounts(Append(r, t), i, u)
<1> DEFINE q == Append(r, t)
<1>1. /\ q[i] = r[i] /\ (IsTarget(q, i) <=> IsTarget(r, i)) /\ Prior(q, i) = Prior(r, i)
      /\ (IsArg(q, i) <=> IsArg(r, i)) /\ (IsLead(q, i) <=> IsLead(r, i))
  BY PrefixSame
<1>2. \A h \in Prior(r, i) : q[h] = r[h] /\ (IsLead(q, h) <=> IsLead(r, h))
  <2> TAKE h \in Prior(r, i)
  <2>1. h \in 1 .. Len(r)
    BY DEF Prior
  <2> QED
    BY <2>1, PrefixSame
<1> HIDE DEF q
<1>3. s.argv \in Seq(Command!Words) /\ u.argv \in Seq(Command!Words)
  BY DEF Segments
<1>4. s.argv # <<>> => u.argv # <<>> /\ u.argv[1] = s.argv[1]
  BY <1>3 DEF Extends
<1>5. IsArg(q, i) /\ ~IsLead(q, i) =>
         \E h \in Prior(q, i), k \in 2 .. Len(u.argv) :
             IsLead(q, h) /\ u.argv[1] = q[h] /\ u.argv[k] = q[i]
  <2> SUFFICES ASSUME IsArg(q, i), ~IsLead(q, i)
               PROVE  \E h \in Prior(q, i), k \in 2 .. Len(u.argv) :
                         IsLead(q, h) /\ u.argv[1] = q[h] /\ u.argv[k] = q[i]
    OBVIOUS
  <2>1. PICK h \in Prior(r, i), k \in 2 .. Len(s.argv) :
             IsLead(r, h) /\ s.argv[1] = r[h] /\ s.argv[k] = r[i]
    BY <1>1 DEF Accounts
  <2>2. k \in 2 .. Len(u.argv) /\ u.argv[k] = s.argv[k] /\ s.argv # <<>>
    BY <1>3, <2>1 DEF Extends
  <2> QED
    BY <1>1, <1>2, <1>4, <2>1, <2>2
<1>6. IsLead(q, i) /\ Direct(q) => Slice(u.argv, q, i)
  BY <1>1 DEF q
<1>7. /\ IsTarget(q, i) => q[i] \in u.targets
      /\ ~IsTarget(q, i) /\ ~IsArg(q, i) => q[i] \in u.assigns
      /\ IsLead(q, i) => u.argv # <<>> /\ u.argv[1] = q[i]
  BY <1>1, <1>4 DEF Accounts, Extends
<1>8. Accounts(q, i, u)
  BY <1>5, <1>6, <1>7 DEF Accounts
<1> QED
  BY <1>8 DEF q

LEMMA NoCommandIs == Command!NoCommand \in Segments
BY DEF Command!NoCommand, Segments

\* A segment without words accounts for none.
LEMMA NoneAccounts ==
    ASSUME NEW r, NEW i, r[i] \in Command!Words
    PROVE  ~Accounts(r, i, Command!NoCommand)
<1>1. ~IsArg(r, i) \/ IsLead(r, i) \/ (IsArg(r, i) /\ ~IsLead(r, i))
  OBVIOUS
<1>2. 2 .. Len(<<>>) = {}
  OBVIOUS
<1> QED
  BY <1>1, <1>2 DEF Accounts, Command!NoCommand

\* The slice of a segment grows with its last word, and is not touched by others.
LEMMA SliceGrows ==
    ASSUME NEW r \in Seq(Command!Tokens), NEW t \in Command!Tokens, NEW i \in 1 .. Len(r),
           NEW a \in Seq(Command!Words), Slice(a, r, i)
    PROVE  /\ Slice(a, Append(r, t), i)
           /\ i + Len(a) - 1 = Len(r) => Slice(Append(a, t), Append(r, t), i)
<1> DEFINE q == Append(r, t) b == Append(a, t)
<1>1. /\ Len(q) = Len(r) + 1 /\ q[Len(r) + 1] = t /\ \A k \in 1 .. Len(r) : q[k] = r[k]
      /\ Len(b) = Len(a) + 1 /\ b[Len(a) + 1] = t /\ \A k \in 1 .. Len(a) : b[k] = a[k]
      /\ Len(a) \in Nat /\ Len(r) \in Nat
  OBVIOUS
<1> HIDE DEF q, b
<1>2. Slice(a, q, i)
  BY <1>1 DEF Slice
<1>3. i + Len(a) - 1 = Len(r) => Slice(b, q, i)
  <2> SUFFICES ASSUME i + Len(a) - 1 = Len(r), NEW k \in 1 .. Len(b) PROVE q[i + k - 1] = b[k]
    BY <1>1 DEF Slice
  <2>1. CASE k \in 1 .. Len(a)
    BY <1>1, <1>2, <2>1 DEF Slice
  <2>2. CASE k = Len(a) + 1
    <3>1. i + k - 1 = Len(r) + 1
      BY <1>1, <2>2
    <3> QED
      BY <1>1, <2>2, <3>1
  <2> QED
    BY <1>1, <2>1, <2>2
<1> QED
  BY <1>2, <1>3 DEF q, b

\* An operator ends the open segment.
LEMMA FlushKeeps ==
    ASSUME NEW c \in Readings
    PROVE  /\ Command!Flushed(c) \in Readings /\ Command!Flushed(c).open = Command!NoCommand
           /\ Command!Flushed(c).read = c.read /\ Command!Flushed(c).done = c.done
           /\ Command!Flushed(c).redirecting = c.redirecting
           /\ ToSet(c.commands) \subseteq ToSet(Command!Flushed(c).commands)
           /\ c.open # Command!NoCommand => c.open \in ToSet(Command!Flushed(c).commands)
<1>1. CASE c.open = Command!NoCommand
  BY <1>1 DEF Command!Flushed
<1>2. CASE c.open # Command!NoCommand
  <2>1. Command!Flushed(c) = [c EXCEPT !.commands = Append(@, c.open), !.open = Command!NoCommand]
    BY <1>2 DEF Command!Flushed
  <2>2. Command!Flushed(c).commands = Append(c.commands, c.open)
    BY <2>1 DEF Readings
  <2>3. c.commands \in Seq(Segments) /\ c.open \in Segments
    BY DEF Readings
  <2>4. /\ ToSet(c.commands) \subseteq ToSet(Append(c.commands, c.open))
        /\ c.open \in ToSet(Append(c.commands, c.open))
    <3>1. \A k \in 1 .. Len(c.commands) : Append(c.commands, c.open)[k] = c.commands[k]
      BY <2>3
    <3>2. Append(c.commands, c.open)[Len(c.commands) + 1] = c.open
      BY <2>3
    <3>3. DOMAIN c.commands = 1 .. Len(c.commands) /\ Len(c.commands) \in Nat
          /\ DOMAIN Append(c.commands, c.open) = 1 .. Len(c.commands) + 1
      BY <2>3
    <3> QED
      BY <3>1, <3>2, <3>3 DEF ToSet
  <2>5. Append(c.commands, c.open) \in Seq(Segments)
    BY <2>3
  <2> QED
    BY <2>1, <2>2, <2>4, <2>5, NoCommandIs DEF Readings
<1> QED
  BY <1>1, <1>2

LEMMA SegmentsTyped ==
    ASSUME NEW c \in Readings, NEW i, NEW s \in SegmentsAt(c, i)
    PROVE  s \in Segments
<1>1. ToSet(c.commands) \subseteq Segments /\ c.open \in Segments
  BY DEF Readings, ToSet
<1> QED
  BY <1>1 DEF SegmentsAt

\* A word that was accounted for is so after the flush, by a closed segment.
LEMMA FlushAccounts ==
    ASSUME NEW c \in Readings, ReadsRight(c), NEW i \in 1 .. Len(c.read), c.read[i] \in Command!Words
    PROVE  \E s \in ToSet(Command!Flushed(c).commands) : s \in Segments /\ Accounts(c.read, i, s)
<1>1. PICK s \in SegmentsAt(c, i) : Accounts(c.read, i, s)
  BY DEF ReadsRight
<1>2. s # Command!NoCommand
  BY <1>1, NoneAccounts
<1>3. s \in ToSet(Command!Flushed(c).commands)
  BY <1>1, <1>2, FlushKeeps DEF SegmentsAt
<1> QED
  BY <1>1, <1>3, SegmentsTyped

LEMMA OperatorStep ==
    ASSUME cmd \in Readings, Fine(cmd.read) => ReadsRight(cmd), NEW t \in Command!Tokens,
           Command!ReadOperator(t)
    PROVE  CmdInv'
<1> DEFINE r == cmd.read q == Append(r, t) f == Command!Flushed(cmd)
<1>1. /\ ~cmd.done /\ t \in Command!Operators /\ cmd' = [f EXCEPT !.read = Append(@, t)]
  BY Zenon DEF Command!ReadOperator, Command!Reading
<1>2. /\ f \in Readings /\ f.open = Command!NoCommand /\ f.read = r /\ f.done = cmd.done
      /\ f.redirecting = cmd.redirecting
  BY FlushKeeps
<1>3. r \in Seq(Command!Tokens) /\ q \in Seq(Command!Tokens)
  BY DEF Readings
<1> HIDE DEF r, q, f
<1>4. /\ cmd' \in Readings /\ cmd'.read = q /\ cmd'.open = Command!NoCommand /\ cmd'.done = cmd.done
      /\ cmd'.redirecting = cmd.redirecting /\ cmd'.commands = f.commands
  BY <1>1, <1>2, <1>3 DEF Readings, q
<1>5. t \notin Command!Words /\ t # ">"
  BY <1>1, TokenClasses
<1>6. /\ Len(q) = Len(r) + 1 /\ q[Len(r) + 1] = t /\ Len(r) \in Nat
      /\ Fine(q) => Fine(r) /\ ~(r # <<>> /\ r[Len(r)] = ">")
      /\ \A i \in 1 .. Len(r) : ~Now(q, i)
      /\ \A i \in 1 .. Len(r) : q[i] = r[i]
  BY <1>1, <1>3, <1>5, OneTokenMore, PrefixSame DEF q
<1>7. ASSUME Fine(q) PROVE ReadsRight(cmd')
  <2>1. ReadsRight(cmd)
    BY <1>6, <1>7 DEF r
  <2>2. ~Now(q, Len(r) + 1)
    BY <1>1, <1>6 DEF Now
  <2>3. ASSUME NEW i \in 1 .. Len(q), q[i] \in Command!Words
        PROVE  \E s \in SegmentsAt(cmd', i) : Accounts(q, i, s)
    <3>1. i \in 1 .. Len(r) /\ r[i] \in Command!Words
      BY <1>5, <1>6, <2>3
    <3>2. PICK s \in ToSet(f.commands) : s \in Segments /\ Accounts(r, i, s)
      BY <2>1, <3>1, FlushAccounts DEF r, f
    <3>3. SegmentsAt(cmd', i) = ToSet(f.commands)
      BY <1>4, <1>6, <3>1 DEF SegmentsAt
    <3>4. IsLead(r, i) /\ Direct(q) => Slice(s.argv, q, i)
      <4>1. IsLead(r, i) /\ Direct(q) => Slice(s.argv, r, i)
        BY <1>3, <3>2, OneTokenMore DEF Accounts, q
      <4> QED
        BY <1>3, <3>1, <3>2, <4>1, SliceGrows DEF Segments, q
    <3>5. Extends(s, s)
      BY DEF Extends
    <3>6. Accounts(q, i, s)
      BY <1>3, <3>1, <3>2, <3>4, <3>5, StillAccounts DEF q
    <3> QED
      BY <3>2, <3>3, <3>6
  <2>4. Current(q) = {}
    BY <1>6, <2>2 DEF Current
  <2>5. cmd'.redirecting <=> q # <<>> /\ q[Len(q)] = ">"
    <3>1. ~cmd.redirecting
      BY <1>1, <1>6, <1>7, <2>1, Zenon DEF ReadsRight, r
    <3>2. ~(q # <<>> /\ q[Len(q)] = ">")
      BY <1>5, <1>6
    <3> QED
      BY <1>4, <3>1, <3>2, Zenon
  <2>6. cmd'.open.argv = <<>>
    BY <1>4 DEF Command!NoCommand
  <2> QED
    BY <1>4, <2>3, <2>4, <2>5, <2>6 DEF ReadsRight
<1> QED
  BY <1>1, <1>4, <1>7 DEF CmdInv

LEMMA RedirectStep ==
    ASSUME cmd \in Readings, Fine(cmd.read) => ReadsRight(cmd), NEW t \in Command!Tokens,
           Command!ReadRedirect(t)
    PROVE  CmdInv'
<1> DEFINE r == cmd.read q == Append(r, t)
<1>1. ~cmd.done /\ t = ">" /\ cmd' = [cmd EXCEPT !.read = Append(@, t), !.redirecting = TRUE]
  BY Zenon DEF Command!ReadRedirect, Command!Reading
<1>2. r \in Seq(Command!Tokens) /\ q \in Seq(Command!Tokens)
  BY DEF Readings
<1> HIDE DEF r, q
<1>3. /\ cmd'.read = q /\ cmd'.open = cmd.open /\ cmd'.done = cmd.done
      /\ cmd'.redirecting = TRUE /\ cmd'.commands = cmd.commands
  BY <1>1, <1>2 DEF Readings, q, r
<1>4. cmd' \in Readings
  BY <1>1, <1>2 DEF Readings, q, r
<1>5. t \notin Command!Words /\ t \notin Command!Operators
  BY <1>1, TokenClasses
<1>6. /\ Len(q) = Len(r) + 1 /\ q[Len(r) + 1] = t /\ Len(r) \in Nat /\ ~Direct(q)
      /\ Fine(q) => Fine(r)
      /\ \A i \in 1 .. Len(r) : Now(q, i) <=> Now(r, i)
      /\ \A i \in 1 .. Len(r) : q[i] = r[i] /\ (IsTarget(q, i) <=> IsTarget(r, i)) /\ (IsLead(q, i) <=> IsLead(r, i))
  BY <1>1, <1>2, <1>5, OneTokenMore, PrefixSame DEF q
<1>7. ASSUME Fine(q) PROVE ReadsRight(cmd')
  <2>1. ReadsRight(cmd)
    BY <1>6, <1>7 DEF r
  <2>2. Current(q) = Current(r)
    BY <1>5, <1>6 DEF Current
  <2>3. ASSUME NEW i \in 1 .. Len(q), q[i] \in Command!Words
        PROVE  \E s \in SegmentsAt(cmd', i) : Accounts(q, i, s)
    <3>1. i \in 1 .. Len(r) /\ r[i] \in Command!Words
      BY <1>5, <1>6, <2>3
    <3>2. PICK s \in SegmentsAt(cmd, i) : Accounts(r, i, s)
      BY <2>1, <3>1 DEF ReadsRight, r
    <3>3. SegmentsAt(cmd', i) = SegmentsAt(cmd, i)
      BY <1>3, <1>6, <3>1 DEF SegmentsAt, r
    <3>4. s \in Segments /\ Extends(s, s)
      BY <3>2, SegmentsTyped DEF Extends
    <3>5. Accounts(q, i, s)
      BY <1>2, <1>6, <3>1, <3>2, <3>4, StillAccounts DEF q
    <3> QED
      BY <3>2, <3>3, <3>5
  <2>4. cmd'.redirecting <=> q # <<>> /\ q[Len(q)] = ">"
    <3>1. q # <<>> /\ q[Len(q)] = ">"
      BY <1>1, <1>6
    <3> QED
      BY <1>3, <3>1, Zenon
  <2>5. IF cmd'.open.argv = <<>> THEN \A j \in Current(q) : q[j] \in Command!Assignments
                                  ELSE \E j \in Current(q) : IsLead(q, j)
    BY <1>1, <1>3, <1>6, <2>1, <2>2 DEF ReadsRight, Current, r
  <2> QED
    BY <1>3, <1>6, <2>3, <2>4, <2>5 DEF ReadsRight
<1> QED
  BY <1>1, <1>3, <1>4, <1>7 DEF CmdInv

\* A word: the segment that takes it accounts for it, and for what it did before.
LEMMA WordReads ==
    ASSUME NEW c \in Readings, NEW d \in Readings, NEW t \in Command!Words,
           ReadsRight(c), ~c.done, ~d.done, ~d.redirecting,
           d.read = Append(c.read, t), d.commands = c.commands,
           Extends(c.open, d.open), Accounts(d.read, Len(d.read), d.open),
           d.open.argv = c.open.argv \/ d.open.argv = Append(c.open.argv, t),
           d.open.argv = c.open.argv /\ Direct(d.read) => c.open.argv = <<>>,
           IF d.open.argv = <<>> THEN t \in Command!Assignments \/ IsTarget(d.read, Len(d.read))
           ELSE c.open.argv # <<>> \/ IsLead(d.read, Len(d.read))
    PROVE  ReadsRight(d)
<1> DEFINE r == c.read q == d.read n == Len(r)
<1>1. /\ r \in Seq(Command!Tokens) /\ q \in Seq(Command!Tokens) /\ t \in Command!Tokens
      /\ t \notin Command!Operators /\ t # ">" /\ q = Append(r, t)
      /\ c.open \in Segments /\ d.open \in Segments
      /\ c.open.argv \in Seq(Command!Words) /\ d.open.argv \in Seq(Command!Words)
  BY TokenClasses DEF Readings, Segments
<1> HIDE DEF r, q, n
<1>2. /\ Len(q) = n + 1 /\ q[n + 1] = t /\ n \in Nat
      /\ Direct(q) <=> Direct(r)
      /\ \A i \in 1 .. n : Now(q, i) <=> Now(r, i)
      /\ \A i \in 1 .. n : q[i] = r[i] /\ (IsTarget(q, i) <=> IsTarget(r, i)) /\ (IsLead(q, i) <=> IsLead(r, i))
  BY <1>1, OneTokenMore, PrefixSame DEF n
<1>3. Now(q, n + 1)
  BY <1>1, <1>2 DEF Now
<1>4. Current(q) = Current(r) \cup (IF IsTarget(q, n + 1) THEN {} ELSE {n + 1})
  <2>1. \A j \in 1 .. n + 1 : j \in 1 .. n \/ j = n + 1
    BY <1>2
  <2> QED
    BY <1>2, <1>3, <2>1 DEF Current, n
<1>5. ASSUME NEW i \in 1 .. Len(q), q[i] \in Command!Words
      PROVE  \E s \in SegmentsAt(d, i) : Accounts(q, i, s)
  <2>1. CASE i = n + 1
    BY <1>2, <1>3, <2>1 DEF SegmentsAt, q
  <2>2. CASE i \in 1 .. n
    <3>1. PICK s \in SegmentsAt(c, i) : Accounts(r, i, s)
      BY <1>2, <1>5, <2>2 DEF ReadsRight, r, n
    <3>2. s \in Segments
      BY <3>1, SegmentsTyped
    <3>3. CASE Now(q, i)
      <4>1. s = c.open /\ SegmentsAt(d, i) = {d.open}
        BY <1>2, <2>2, <3>1, <3>3 DEF SegmentsAt, r, q
      <4>2. IsLead(r, i) /\ Direct(q) => Slice(d.open.argv, q, i)
        <5> SUFFICES ASSUME IsLead(r, i), Direct(q) PROVE Slice(d.open.argv, q, i)
          OBVIOUS
        <5>1. Slice(c.open.argv, r, i) /\ c.open.argv # <<>>
          BY <1>2, <3>1, <4>1 DEF Accounts
        <5>2. d.open.argv = Append(c.open.argv, t)
          BY <5>1 DEF q
        <5>3. i \in Current(r)
          BY <1>2, <1>5, <2>2, <3>3 DEF Current, n, IsLead, IsArg
        <5>4. i + Len(c.open.argv) - 1 = n
          BY <1>2, <5>3 DEF ReadsRight, r, n
        <5> QED
          BY <1>1, <2>2, <5>1, <5>2, <5>4, SliceGrows DEF n
      <4> QED
        BY <1>1, <2>2, <3>1, <4>1, <4>2, StillAccounts DEF n
    <3>4. CASE ~Now(q, i)
      <4>1. s \in SegmentsAt(d, i)
        BY <1>2, <2>2, <3>1, <3>4 DEF SegmentsAt, r, q
      <4>2. IsLead(r, i) /\ Direct(q) => Slice(s.argv, q, i)
        <5>1. IsLead(r, i) /\ Direct(q) => Slice(s.argv, r, i)
          BY <1>2, <3>1 DEF Accounts
        <5> QED
          BY <1>1, <2>2, <3>2, <5>1, SliceGrows DEF Segments, n
      <4>3. Extends(s, s)
        BY DEF Extends
      <4> QED
        BY <1>1, <2>2, <3>1, <3>2, <4>1, <4>2, <4>3, StillAccounts DEF n
    <3> QED
      BY <3>3, <3>4
  <2> QED
    BY <1>2, <2>1, <2>2
<1>6. d.redirecting <=> q # <<>> /\ q[Len(q)] = ">"
  <2>1. ~(q[Len(q)] = ">")
    BY <1>1, <1>2
  <2> QED
    BY <2>1, Zenon
<1>7. IF d.open.argv = <<>> THEN \A j \in Current(q) : q[j] \in Command!Assignments
                             ELSE \E j \in Current(q) : IsLead(q, j)
  <2>1. CASE d.open.argv = <<>>
    <3>1. c.open.argv = <<>>
      BY <1>1, <2>1 DEF Extends
    <3>2. \A j \in Current(r) : q[j] \in Command!Assignments
      BY <1>2, <3>1 DEF ReadsRight, Current, r, n
    <3> QED
      BY <1>2, <1>4, <2>1, <3>2 DEF q
  <2>2. CASE d.open.argv # <<>>
    <3>1. CASE c.open.argv # <<>>
      BY <1>2, <1>4, <2>2, <3>1 DEF ReadsRight, Current, r, n
    <3>2. CASE IsLead(q, n + 1)
      BY <1>4, <2>2, <3>2 DEF IsLead, IsArg
    <3> QED
      BY <1>2, <2>2, <3>1, <3>2 DEF q
  <2> QED
    BY <2>1, <2>2
<1>8. ASSUME Direct(q), NEW i \in Current(q), IsLead(q, i) PROVE i + Len(d.open.argv) - 1 = Len(q)
  <2>1. CASE i = n + 1
    <3>1. d.open.argv # <<>> /\ Slice(d.open.argv, q, n + 1)
      BY <1>2, <1>8, <2>1 DEF Accounts, q
    <3>2. Len(d.open.argv) \in Nat \ {0}
      BY <1>1, <3>1
    <3>3. n + 1 + Len(d.open.argv) - 1 <= n + 1
      BY <1>2, <3>1 DEF Slice
    <3>4. \A m \in Nat, l \in Nat \ {0} : m + 1 + l - 1 <= m + 1 => m + 1 + l - 1 = m + 1
      OBVIOUS
    <3>5. n + 1 + Len(d.open.argv) - 1 = n + 1
      BY <1>2, <3>2, <3>3, <3>4, Zenon
    <3> QED
      BY <1>2, <2>1, <3>5
  <2>2. CASE i \in Current(r)
    <3>1. i \in 1 .. n
      BY <2>2 DEF Current, n
    <3>2. IsLead(r, i) /\ Direct(r)
      BY <1>2, <1>8, <3>1
    <3>3. i + Len(c.open.argv) - 1 = n
      BY <2>2, <3>2 DEF ReadsRight, r, n
    <3>4. PICK s \in SegmentsAt(c, i) : Accounts(r, i, s)
      BY <2>2, <3>1 DEF ReadsRight, Current, r, n
    <3>5. s = c.open
      BY <2>2, <3>4 DEF SegmentsAt, Current, r
    <3>6. c.open.argv # <<>>
      BY <3>2, <3>4, <3>5 DEF Accounts
    <3>7. d.open.argv = Append(c.open.argv, t)
      BY <1>8, <3>6 DEF q
    <3>8. Len(d.open.argv) = Len(c.open.argv) + 1 /\ Len(c.open.argv) \in Nat
      BY <1>1, <3>7
    <3> QED
      BY <1>2, <3>1, <3>3, <3>8
  <2> QED
    BY <1>4, <1>8, <2>1, <2>2
<1> QED
  BY <1>5, <1>6, <1>7, <1>8 DEF ReadsRight, q

\* A leading word is no assignment, and what is open behind it has it first.
LEMMA LeadIsOpen ==
    ASSUME NEW c \in Readings, ReadsRight(c), ~c.done, NEW j \in Current(c.read), IsLead(c.read, j)
    PROVE  c.read[j] \notin Command!Assignments /\ c.open.argv # <<>> /\ c.open.argv[1] = c.read[j]
<1>1. j \in 1 .. Len(c.read) /\ c.read[j] \in Command!Words /\ Now(c.read, j)
  BY DEF Current
<1>2. PICK s \in SegmentsAt(c, j) : Accounts(c.read, j, s)
  BY <1>1 DEF ReadsRight
<1>3. s = c.open
  BY <1>1, <1>2 DEF SegmentsAt
<1>4. c.read[j] \notin Command!Assignments
  BY DEF IsLead, IsArg
<1> QED
  BY <1>2, <1>3, <1>4 DEF Accounts

\* The state after a word: what is read, and one part of the open segment.
LEMMA WordTyped ==
    ASSUME cmd \in Readings, NEW t \in Command!Tokens, Command!ReadWord(t)
    PROVE  /\ t \in Command!Words /\ ~cmd.done /\ cmd' \in Readings
           /\ cmd'.read = Append(cmd.read, t) /\ cmd'.redirecting = FALSE
           /\ cmd'.commands = cmd.commands /\ cmd'.done = cmd.done
           /\ cmd'.open =
                IF cmd.redirecting THEN [cmd.open EXCEPT !.targets = @ \cup {t}]
                ELSE IF t \in Command!Assignments /\ cmd.open.argv = <<>>
                     THEN [cmd.open EXCEPT !.assigns = @ \cup {t}]
                     ELSE [cmd.open EXCEPT !.argv = Append(@, t)]
<1> DEFINE c == [cmd EXCEPT !.read = Append(@, t), !.redirecting = FALSE]
           o == IF cmd.redirecting THEN [cmd.open EXCEPT !.targets = @ \cup {t}]
                ELSE IF t \in Command!Assignments /\ cmd.open.argv = <<>>
                     THEN [cmd.open EXCEPT !.assigns = @ \cup {t}]
                     ELSE [cmd.open EXCEPT !.argv = Append(@, t)]
<1>1. /\ ~cmd.done /\ t \in Command!Words
      /\ cmd' = CASE cmd.redirecting -> [c EXCEPT !.open.targets = @ \cup {t}]
                    [] ~cmd.redirecting /\ t \in Command!Assignments /\ cmd.open.argv = <<>> ->
                           [c EXCEPT !.open.assigns = @ \cup {t}]
                    [] OTHER -> [c EXCEPT !.open.argv = Append(@, t)]
  BY Zenon DEF Command!ReadWord, Command!Reading
<1>2. /\ c \in Readings /\ c.open = cmd.open /\ c.read = Append(cmd.read, t)
      /\ c.redirecting = FALSE /\ c.commands = cmd.commands /\ c.done = cmd.done
  <2>1. Append(cmd.read, t) \in Seq(Command!Tokens)
    BY DEF Readings
  <2> QED
    BY <2>1, Zenon DEF Readings
<1>3. o \in Segments
  <2>1. /\ cmd.open \in Segments /\ cmd.open.argv \in Seq(Command!Words)
        /\ cmd.open.targets \cup {t} \subseteq Command!Words
        /\ cmd.open.assigns \cup {t} \subseteq Command!Words
    BY <1>1 DEF Readings, Segments
  <2>2. Append(cmd.open.argv, t) \in Seq(Command!Words)
    BY <1>1, <2>1
  <2>3. [cmd.open EXCEPT !.argv = Append(@, t)] \in Segments
    BY <2>1, <2>2 DEF Segments
  <2>4. [cmd.open EXCEPT !.targets = @ \cup {t}] \in Segments
    BY <2>1 DEF Segments
  <2>5. [cmd.open EXCEPT !.assigns = @ \cup {t}] \in Segments
    BY <2>1 DEF Segments
  <2> QED
    BY <2>3, <2>4, <2>5, Zenon
<1> HIDE DEF c
<1>4. cmd' = [c EXCEPT !.open = o]
  BY <1>1, <1>2 DEF Readings
<1> HIDE DEF o
<1>5. /\ cmd' \in Readings /\ cmd'.open = o /\ cmd'.read = c.read
      /\ cmd'.redirecting = c.redirecting /\ cmd'.commands = c.commands /\ cmd'.done = c.done
  BY <1>2, <1>3, <1>4 DEF Readings
<1> QED
  BY <1>1, <1>2, <1>5 DEF o

LEMMA WordStep ==
    ASSUME cmd \in Readings, Fine(cmd.read) => ReadsRight(cmd), NEW t \in Command!Tokens,
           Command!ReadWord(t)
    PROVE  CmdInv'
<1> DEFINE r == cmd.read q == Append(r, t) n == Len(r) o == cmd.open u == cmd'.open
<1>1. /\ t \in Command!Words /\ ~cmd.done /\ cmd' \in Readings
      /\ cmd'.read = q /\ cmd'.redirecting = FALSE
      /\ cmd'.commands = cmd.commands /\ cmd'.done = cmd.done
  BY WordTyped
<1>2. u = IF cmd.redirecting THEN [o EXCEPT !.targets = @ \cup {t}]
          ELSE IF t \in Command!Assignments /\ o.argv = <<>>
               THEN [o EXCEPT !.assigns = @ \cup {t}]
               ELSE [o EXCEPT !.argv = Append(@, t)]
  BY WordTyped
<1>3. /\ o \in Segments /\ u \in Segments /\ r \in Seq(Command!Tokens) /\ q \in Seq(Command!Tokens)
      /\ o.argv \in Seq(Command!Words) /\ t \notin Command!Operators /\ t # ">"
  BY <1>1, TokenClasses DEF Readings, Segments
<1> HIDE DEF r, q, n, o, u
<1>4. /\ Len(q) = n + 1 /\ q[n + 1] = t /\ n \in Nat
      /\ Fine(q) => Fine(r)
      /\ Direct(q) <=> Direct(r)
      /\ Prior(q, n + 1) = Current(r)
      /\ IsTarget(q, n + 1) <=> r # <<>> /\ r[n] = ">"
      /\ \A i \in 1 .. n : q[i] = r[i] /\ (IsLead(q, i) <=> IsLead(r, i))
  BY <1>1, <1>3, OneTokenMore, PrefixSame DEF q, n
<1>5. ASSUME ReadsRight(cmd), Extends(o, u), Accounts(q, n + 1, u),
             u.argv = o.argv \/ u.argv = Append(o.argv, t),
             u.argv = o.argv /\ Direct(q) => o.argv = <<>>,
             u.argv = <<>> => t \in Command!Assignments \/ IsTarget(q, n + 1),
             u.argv # <<>> => o.argv # <<>> \/ IsLead(q, n + 1)
      PROVE  ReadsRight(cmd')
  <2> DEFINE d == cmd'
  <2>1. /\ d \in Readings /\ ~d.done /\ ~d.redirecting /\ d.read = q /\ d.commands = cmd.commands
        /\ d.open = u /\ Len(d.read) = n + 1 /\ d.read = Append(cmd.read, t) /\ cmd.open = o
    BY <1>1, <1>4 DEF q, r, u, o
  <2> HIDE DEF d
  <2>2. /\ Extends(cmd.open, d.open) /\ Accounts(d.read, Len(d.read), d.open)
        /\ d.open.argv = cmd.open.argv \/ d.open.argv = Append(cmd.open.argv, t)
        /\ d.open.argv = cmd.open.argv /\ Direct(d.read) => cmd.open.argv = <<>>
        /\ IF d.open.argv = <<>> THEN t \in Command!Assignments \/ IsTarget(d.read, Len(d.read))
           ELSE cmd.open.argv # <<>> \/ IsLead(d.read, Len(d.read))
    BY <1>5, <2>1
  <2>3. ReadsRight(d)
    BY <1>1, <1>5, <2>1, <2>2, WordReads
  <2> QED
    BY <2>3 DEF d
<1>6. ASSUME Fine(q) PROVE ReadsRight(cmd')
  <2>1. ReadsRight(cmd)
    BY <1>4, <1>6 DEF r
  <2>2. cmd.redirecting <=> IsTarget(q, n + 1)
    BY <1>1, <1>4, <2>1 DEF ReadsRight, r, n
  <2>3. CASE cmd.redirecting
    <3>1. u = [o EXCEPT !.targets = @ \cup {t}]
      BY <1>2, <2>3
    <3>2. /\ u.argv = o.argv /\ u.assigns = o.assigns /\ u.targets = o.targets \cup {t}
      BY <1>3, <3>1 DEF Segments
    <3>3. Extends(o, u)
      BY <3>2 DEF Extends
    <3>4. ~Direct(q)
      BY <1>4, <2>2, <2>3, <1>3 DEF Direct, n
    <3>5. ~IsArg(q, n + 1) /\ ~IsLead(q, n + 1)
      BY <2>2, <2>3 DEF IsArg, IsLead
    <3>6. Accounts(q, n + 1, u)
      BY <1>4, <2>2, <2>3, <3>2, <3>5 DEF Accounts
    <3> QED
      BY <1>5, <2>1, <2>2, <2>3, <3>2, <3>3, <3>4, <3>6
  <2>4. CASE ~cmd.redirecting /\ t \in Command!Assignments /\ o.argv = <<>>
    <3>1. u = [o EXCEPT !.assigns = @ \cup {t}]
      BY <1>2, <2>4
    <3>2. /\ u.argv = o.argv /\ u.targets = o.targets /\ u.assigns = o.assigns \cup {t}
      BY <1>3, <3>1 DEF Segments
    <3>3. Extends(o, u)
      BY <3>2 DEF Extends
    <3>4. \A j \in Current(r) : q[j] \in Command!Assignments
      BY <1>1, <1>4, <2>1, <2>4 DEF ReadsRight, Current, r, n, o
    <3>5. ~IsArg(q, n + 1) /\ ~IsLead(q, n + 1)
      BY <1>4, <2>4, <3>4 DEF IsArg, IsLead
    <3>6. Accounts(q, n + 1, u)
      BY <1>4, <2>2, <2>4, <3>2, <3>5 DEF Accounts
    <3> QED
      BY <1>5, <2>1, <2>4, <3>2, <3>3, <3>6
  <2>5. CASE ~cmd.redirecting /\ ~(t \in Command!Assignments /\ o.argv = <<>>)
    <3>1. u = [o EXCEPT !.argv = Append(@, t)]
      BY <1>2, <2>5
    <3>2. /\ u.argv = Append(o.argv, t) /\ u.targets = o.targets /\ u.assigns = o.assigns
      BY <1>3, <3>1 DEF Segments
    <3>3. /\ Len(u.argv) = Len(o.argv) + 1 /\ u.argv[Len(o.argv) + 1] = t /\ Len(o.argv) \in Nat
          /\ \A k \in 1 .. Len(o.argv) : u.argv[k] = o.argv[k]
      BY <1>1, <1>3, <3>2
    <3>9. u.argv # <<>> /\ u.argv # o.argv
      BY <3>3
    <3>4. Extends(o, u)
      BY <3>2, <3>3 DEF Extends
    <3>5. CASE o.argv = <<>>
      <4>1. \A j \in Current(r) : q[j] \in Command!Assignments
        BY <1>1, <1>4, <2>1, <3>5 DEF ReadsRight, Current, r, n, o
      <4>2. IsLead(q, n + 1)
        BY <1>1, <1>4, <2>2, <2>5, <3>5, <4>1 DEF IsArg, IsLead
      <4>3. Len(u.argv) = 1 /\ u.argv[1] = q[n + 1]
        BY <1>4, <3>3, <3>5
      <4>4. Slice(u.argv, q, n + 1)
        BY <1>4, <4>3 DEF Slice
      <4>5. Accounts(q, n + 1, u)
        BY <2>2, <2>5, <3>3, <3>9, <4>2, <4>3, <4>4 DEF Accounts, IsLead
      <4> QED
        BY <1>5, <2>1, <3>2, <3>3, <3>4, <3>5, <3>9, <4>2, <4>5
    <3>6. CASE o.argv # <<>>
      <4>1. PICK h \in Current(r) : IsLead(r, h)
        BY <1>1, <2>1, <3>6 DEF ReadsRight, r, o
      <4>2. r[h] \notin Command!Assignments /\ o.argv[1] = r[h]
        BY <1>1, <2>1, <4>1, LeadIsOpen DEF r, o
      <4>3. h \in 1 .. n
        BY <4>1 DEF Current, n
      <4>4. IsLead(q, h) /\ q[h] = r[h] /\ h \in Prior(q, n + 1)
        BY <1>4, <4>1, <4>3
      <4>5. IsArg(q, n + 1) /\ ~IsLead(q, n + 1)
        BY <1>1, <1>4, <2>2, <2>5, <4>2, <4>4 DEF IsArg, IsLead
      <4>6. Len(o.argv) > 0
        BY <1>3, <3>6
      <4>7. Len(u.argv) \in 2 .. Len(u.argv) /\ u.argv[Len(u.argv)] = q[n + 1] /\ u.argv[1] = q[h]
        BY <1>4, <3>3, <4>2, <4>4, <4>6
      <4>8. Accounts(q, n + 1, u)
        BY <2>2, <2>5, <4>4, <4>5, <4>7 DEF Accounts
      <4> QED
        BY <1>5, <2>1, <3>2, <3>3, <3>4, <3>6, <3>9, <4>8
    <3> QED
      BY <3>5, <3>6
  <2> QED
    BY <2>3, <2>4, <2>5
<1> QED
  BY <1>1, <1>6 DEF CmdInv

\* At the end of the line what is open is closed.
LEMMA EndStep ==
    ASSUME CmdInv, Command!EndOfInput
    PROVE  CmdInv'
<1> DEFINE r == cmd.read f == Command!Flushed(cmd)
<1>1. ~cmd.done /\ cmd' = [f EXCEPT !.done = TRUE] /\ cmd \in Readings
  BY DEF CmdInv, Command!EndOfInput
<1>2. f \in Readings /\ f.open = Command!NoCommand /\ f.read = r
  BY <1>1, FlushKeeps
<1> HIDE DEF r, f
<1>3. /\ cmd'.read = r /\ cmd'.open = Command!NoCommand /\ cmd'.done = TRUE
      /\ cmd'.commands = f.commands
  BY <1>1, <1>2 DEF Readings
<1>4. cmd' \in Readings
  BY <1>1, <1>2 DEF Readings
<1>5. ASSUME Fine(r) PROVE ReadsRight(cmd')
  <2>1. ReadsRight(cmd)
    BY <1>5 DEF CmdInv, r
  <2>2. ASSUME NEW i \in 1 .. Len(r), r[i] \in Command!Words
        PROVE  \E s \in SegmentsAt(cmd', i) : Accounts(r, i, s)
    <3>1. SegmentsAt(cmd', i) = ToSet(f.commands)
      BY <1>3 DEF SegmentsAt
    <3> QED
      BY <1>1, <2>1, <2>2, <3>1, FlushAccounts DEF r, f
  <2> QED
    BY <1>3, <2>2 DEF ReadsRight
<1> QED
  BY <1>3, <1>4, <1>5 DEF CmdInv

LEMMA CommandBegins == Command!Init => CmdInv
<1> SUFFICES ASSUME Command!Init PROVE CmdInv
  OBVIOUS
<1>1. cmd = [read |-> <<>>, open |-> Command!NoCommand, redirecting |-> FALSE,
             commands |-> <<>>, done |-> FALSE]
  BY DEF Command!Init
<1>2. cmd \in Readings
  BY <1>1, NoCommandIs DEF Readings
<1>3. ReadsRight(cmd)
  BY <1>1 DEF ReadsRight, Current, Command!NoCommand
<1> QED
  BY <1>1, <1>2, <1>3 DEF CmdInv

LEMMA CommandSteps == CmdInv /\ [Command!Next]_cmd => CmdInv'
<1> SUFFICES ASSUME CmdInv, [Command!Next]_cmd PROVE CmdInv'
  OBVIOUS
<1>1. cmd \in Readings /\ (Fine(cmd.read) => ReadsRight(cmd))
  BY DEF CmdInv
<1>2. CASE UNCHANGED cmd
  BY <1>2 DEF CmdInv, ReadsRight, SegmentsAt
<1>3. ASSUME NEW t \in Command!Tokens, Command!ReadOperator(t) PROVE CmdInv'
  BY <1>1, <1>3, OperatorStep
<1>4. ASSUME NEW t \in Command!Tokens, Command!ReadRedirect(t) PROVE CmdInv'
  BY <1>1, <1>4, RedirectStep
<1>5. ASSUME NEW t \in Command!Tokens, Command!ReadWord(t) PROVE CmdInv'
  BY <1>1, <1>5, WordStep
<1>6. CASE Command!EndOfInput
  BY <1>6, EndStep
<1> QED
  BY <1>2, <1>3, <1>4, <1>5, <1>6 DEF Command!Next, Command!Idle

\* What Permissions says of a place of the line that was read.
LEMMA PlacesAgree ==
    ASSUME NEW i
    PROVE  /\ Command!At(i) = cmd.read[i] /\ (Command!Target(i) <=> IsTarget(cmd.read, i))
           /\ Command!Before(i) = Prior(cmd.read, i)
           /\ (Command!Argument(i) <=> IsArg(cmd.read, i)) /\ (Command!Leads(i) <=> IsLead(cmd.read, i))
<1>1. \A j : Command!At(j) = cmd.read[j] /\ (Command!Target(j) <=> IsTarget(cmd.read, j))
  BY DEF Command!At, Command!Target, IsTarget
<1>2. Command!Before(i) = Prior(cmd.read, i)
  BY <1>1 DEF Command!Before, Prior
<1>3. Command!Argument(i) <=> IsArg(cmd.read, i)
  BY <1>1, <1>2 DEF Command!Argument, IsArg
<1>4. Command!Leads(i) <=> IsLead(cmd.read, i)
  BY <1>1, <1>2, <1>3 DEF Command!Leads, IsLead
<1> QED
  BY <1>1, <1>2, <1>3, <1>4

\* A simple command has one head.
LEMMA OneHead ==
    ASSUME NEW r, NEW i \in Nat, NEW g \in Prior(r, i), NEW h \in Prior(r, i),
           IsLead(r, g), IsLead(r, h)
    PROVE  g = h
<1>1. r[g] \notin Command!Assignments /\ r[h] \notin Command!Assignments
  BY DEF IsLead, IsArg
<1>2. g \in 1 .. i - 1 /\ h \in 1 .. i - 1
  BY DEF Prior
<1>3. ASSUME g < h PROVE FALSE
  <2>1. g \in Prior(r, h)
    BY <1>2, <1>3 DEF Prior
  <2> QED
    BY <1>1, <2>1 DEF IsLead
<1>4. ASSUME h < g PROVE FALSE
  <2>1. h \in Prior(r, g)
    BY <1>2, <1>4 DEF Prior
  <2> QED
    BY <1>1, <2>1 DEF IsLead
<1> QED
  BY <1>2, <1>3, <1>4

LEMMA SameSet == \A s : Command!ToSet(s) = ToSet(s)
BY Zenon DEF Command!ToSet, ToSet

\* The operands and flags that are inspected.
LEMMA Inspected ==
    ASSUME NEW s \in Segments, NEW k \in 2 .. Len(s.argv), s.argv[1] # "git" \/ k > 2
    PROVE  s.argv[k] \in Command!Arguments(s)
<1> DEFINE a == s.argv
           first == IF a # <<>> /\ a[1] = "git" THEN 3 ELSE 2
           b == SubSeq(a, first, Len(a))
<1>1. a \in Seq(Command!Words) /\ Len(a) \in Nat /\ first \in {2, 3} /\ k \in first .. Len(a)
  BY DEF Segments
<1> HIDE DEF first
<1>2. first - 1 \in Nat /\ first \in 1 .. Len(a) + 1
  BY <1>1
<1>3. /\ b \in Seq(Command!Words) /\ Len(b) = Len(a) - first + 1
      /\ \A j \in 1 .. Len(a) - first + 1 : b[j] = a[first + j - 1]
  BY <1>1, <1>2, SubSeqProperties
<1>4. k - first + 1 \in 1 .. Len(b) /\ first + (k - first + 1) - 1 = k
  BY <1>1, <1>3
<1>5. b[k - first + 1] = a[k]
  BY <1>1, <1>3, <1>4
<1>6. DOMAIN b = 1 .. Len(b)
  BY <1>3
<1>7. a[k] \in ToSet(b)
  BY <1>4, <1>5, <1>6 DEF ToSet
<1> QED
  BY <1>7, SameSet, Zenon DEF Command!Arguments, first

\* The verdict is one of three.
LEMMA Verdicts == Command!Classified(cmd) \in {"deny", "ask", "allow"}
BY DEF Command!Classified

\* A line that destroys or runs other code is denied.
LEMMA DestroyersDenied ==
    ASSUME CmdInv, cmd.done, Fine(cmd.read), Command!Destructive
    PROVE  Command!Classified(cmd) = "deny"
<1> DEFINE r == cmd.read
<1>1. cmd \in Readings /\ ReadsRight(cmd) /\ r \in Seq(Command!Tokens)
  BY DEF CmdInv, Readings
<1>2. PICK i \in 1 .. Len(r) :
        \/ r[i] = "$(x)"
        \/ IsLead(r, i) /\ r[i] \in {"rm", "sh"}
        \/ IsTarget(r, i) /\ r[i] = "/abs"
        \/ r[i] = "GIT_X=1" /\ ~IsTarget(r, i) /\ ~IsArg(r, i)
        \/ r[i] = "--pre" /\ IsArg(r, i) /\ ~IsLead(r, i) /\ r[Command!HeadOf(i)] # "git"
  BY PlacesAgree DEF Command!Destructive, Command!Places, Command!At
<1>3. r[i] \in ToSet(r)
  BY <1>1 DEF ToSet
<1>4. r[i] \in {"GIT_X=1", "--pre"} => r[i] \in Command!Words
  BY DEF Command!Words, Command!Assignments, Command!Flags
<1>5. r[i] \in Command!Words => \E s \in ToSet(cmd.commands) : s \in Segments /\ Accounts(r, i, s)
  BY <1>1, SegmentsTyped DEF ReadsRight, SegmentsAt
<1>6. CASE r[i] = "$(x)"
  BY <1>3, <1>6, SameSet DEF Command!Classified, Command!DenyHazard
<1>7. CASE IsLead(r, i) /\ r[i] \in {"rm", "sh"}
  <2>1. PICK s \in ToSet(cmd.commands) : Accounts(r, i, s)
    BY <1>5, <1>7 DEF IsLead, IsArg
  <2>2. s.argv # <<>> /\ s.argv[1] \in Command!Dangerous \cup Command!Shells
    BY <1>7, <2>1 DEF Accounts, Command!Dangerous, Command!Shells
  <2> QED
    BY <2>1, <2>2, SameSet DEF Command!Classified, Command!DenyHazard
<1>8. CASE IsTarget(r, i) /\ r[i] = "/abs"
  <2>1. PICK s \in ToSet(cmd.commands) : Accounts(r, i, s)
    BY <1>5, <1>8 DEF IsTarget
  <2>2. "/abs" \in s.targets
    BY <1>8, <2>1 DEF Accounts
  <2> QED
    BY <2>1, <2>2, SameSet DEF Command!Classified
<1>9. CASE r[i] = "GIT_X=1" /\ ~IsTarget(r, i) /\ ~IsArg(r, i)
  <2>1. PICK s \in ToSet(cmd.commands) : Accounts(r, i, s)
    BY <1>4, <1>5, <1>9
  <2>2. "GIT_X=1" \in s.assigns
    BY <1>9, <2>1 DEF Accounts
  <2> QED
    BY <2>1, <2>2, SameSet DEF Command!Classified, Command!DenyHazard
<1>10. CASE r[i] = "--pre" /\ IsArg(r, i) /\ ~IsLead(r, i) /\ r[Command!HeadOf(i)] # "git"
  <2>1. PICK s \in ToSet(cmd.commands) : s \in Segments /\ Accounts(r, i, s)
    BY <1>4, <1>5, <1>10
  <2>2. PICK h \in Prior(r, i), k \in 2 .. Len(s.argv) :
             IsLead(r, h) /\ s.argv[1] = r[h] /\ s.argv[k] = r[i]
    BY <1>10, <2>1 DEF Accounts
  <2>3. Command!HeadOf(i) \in Prior(r, i) \cup {i} /\ IsLead(r, Command!HeadOf(i))
    BY <2>2, PlacesAgree, Zenon DEF Command!HeadOf
  <2>4. Command!HeadOf(i) = h
    BY <1>10, <2>2, <2>3, OneHead
  <2>5. s.argv[k] \in Command!Arguments(s)
    BY <1>10, <2>1, <2>2, <2>4, Inspected
  <2> QED
    BY <1>10, <2>1, <2>2, <2>5, SameSet DEF Command!Classified, Command!DenyHazard
<1> QED
  BY <1>2, <1>6, <1>7, <1>8, <1>9, <1>10

\* A line that is allowed only reads.
LEMMA AllowedOnlyReads ==
    ASSUME CmdInv, cmd.done, Fine(cmd.read), Command!Classified(cmd) = "allow"
    PROVE  Command!Harmless
<1> DEFINE r == cmd.read
<1>1. cmd \in Readings /\ ReadsRight(cmd) /\ r \in Seq(Command!Tokens)
  BY DEF CmdInv, Readings
<1>2. /\ ~Command!DenyHazard(cmd) /\ ~Command!AskHazard(cmd)
      /\ \A s \in ToSet(cmd.commands) : Command!ReadOnlySegment(s)
  BY SameSet DEF Command!Classified
<1>3. \A i \in 1 .. Len(r) : r[i] \in ToSet(r)
  BY <1>1 DEF ToSet
<1>4. \A i \in 1 .. Len(r) : r[i] \notin {">", "&", "$V", "$(x)"}
  BY <1>2, <1>3, SameSet DEF Command!DenyHazard, Command!AskHazard
<1>5. Direct(r) /\ \A i \in 1 .. Len(r) : ~IsTarget(r, i)
  BY <1>1, <1>4 DEF Direct, IsTarget
<1>6. ASSUME NEW i \in 1 .. Len(r), r[i] \in Command!Words
      PROVE  \E s \in ToSet(cmd.commands) : s \in Segments /\ Accounts(r, i, s)
  BY <1>1, <1>6, SegmentsTyped DEF ReadsRight, SegmentsAt
<1>7. ASSUME NEW i \in 1 .. Len(r), IsLead(r, i), r[i] # "ls"
      PROVE  r[i] = "git" /\ i < Len(r) /\ r[i + 1] = "status"
  <2>1. PICK s \in ToSet(cmd.commands) : s \in Segments /\ Accounts(r, i, s)
    BY <1>6, <1>7 DEF IsLead, IsArg
  <2>2. /\ s.argv[1] = r[i] /\ Slice(s.argv, r, i)
    BY <1>5, <1>7, <2>1 DEF Accounts
  <2>3. s.argv[1] = "git" /\ Len(s.argv) > 1 /\ s.argv[2] = "status"
    BY <1>2, <1>7, <2>1, <2>2 DEF Command!ReadOnlySegment, Command!ReadOnlyCmds
  <2>4. Len(s.argv) \in Nat /\ 2 \in 1 .. Len(s.argv)
    BY <2>1, <2>3 DEF Segments
  <2>5. i + Len(s.argv) - 1 <= Len(r) /\ r[i + 2 - 1] = s.argv[2]
    BY <2>2, <2>4 DEF Slice
  <2>6. i + 2 - 1 = i + 1 /\ i < Len(r)
    BY <1>1, <2>3, <2>4, <2>5
  <2> QED
    BY <2>2, <2>3, <2>5, <2>6
<1>8. ASSUME NEW i \in 1 .. Len(r), r[i] \in Command!Assignments PROVE IsArg(r, i)
  <2> SUFFICES ASSUME ~IsArg(r, i) PROVE FALSE
    OBVIOUS
  <2>1. PICK s \in ToSet(cmd.commands) : Accounts(r, i, s)
    BY <1>6, <1>8, TokenClasses
  <2>2. r[i] \in s.assigns
    BY <1>5, <2>1 DEF Accounts
  <2> QED
    BY <1>2, <2>1, <2>2, SameSet DEF Command!AskHazard
<1>9. ASSUME NEW i \in 1 .. Len(r), IsArg(r, i), ~IsLead(r, i)
      PROVE  r[i] \notin {"/abs", ".env", "-R", "--pre"}
  <2>1. PICK s \in ToSet(cmd.commands) : s \in Segments /\ Accounts(r, i, s)
    BY <1>6, <1>9 DEF IsArg
  <2>2. PICK h \in Prior(r, i), k \in 2 .. Len(s.argv) :
             IsLead(r, h) /\ s.argv[1] = r[h] /\ s.argv[k] = r[i]
    BY <1>9, <2>1 DEF Accounts
  <2>3. CASE s.argv[1] = "git" /\ k = 2
    <3>1. r[i] = "status"
      BY <1>2, <2>1, <2>2, <2>3 DEF Command!ReadOnlySegment, Command!ReadOnlyCmds
    <3> QED
      BY <3>1
  <2>4. CASE s.argv[1] # "git" \/ k > 2
    <3>1. r[i] \in Command!Arguments(s)
      BY <2>1, <2>2, <2>4, Inspected
    <3> QED
      BY <1>2, <2>1, <3>1, SameSet DEF Command!DenyHazard, Command!AskHazard
  <2> QED
    BY <2>2, <2>3, <2>4
<1> HIDE DEF r
<1>10. \A i \in Command!Places :
        /\ r[i] \notin {">", "&", "$V", "$(x)"}
        /\ IsLead(r, i) /\ r[i] # "ls" => r[i] = "git" /\ i < Len(r) /\ r[i + 1] = "status"
        /\ r[i] \in Command!Assignments => IsArg(r, i)
        /\ IsArg(r, i) /\ ~IsLead(r, i) => r[i] \notin {"/abs", ".env", "-R", "--pre"}
  BY <1>4, <1>7, <1>8, <1>9 DEF Command!Places, r
<1> QED
  BY <1>10, PlacesAgree DEF Command!Harmless, Command!At, r

\* The answer of the gate, by mode: the stricter ones are behind the laxer ones.
LEMMA GateHolds ==
    ASSUME NEW v \in {"deny", "ask", "allow"}, NEW check \in BOOLEAN,
           NEW call \in Command!Calls, NEW answer \in Command!Answers
    PROVE  LET R(i) == Command!Runs(call, Command!Modes[i], v, check, answer)
           IN  /\ (R(1) => R(2)) /\ (R(2) => R(3)) /\ (R(3) => R(4))
               /\ call.kind = "execute" /\ call.mcp = "off" => ~R(1) /\ ~R(2) /\ ~R(3) /\ ~R(4)
               /\ call.kind = "execute" /\ v = "deny" => ~R(1) /\ ~R(2) /\ ~R(3)
               /\ call.kind = "execute" /\ answer = "headless" /\ v = "ask" /\ ~check =>
                      ~R(1) /\ ~R(2) /\ ~R(3)
<1> DEFINE R(i) == Command!Runs(call, Command!Modes[i], v, check, answer)
           P(m) == Command!Permission(call, m, v)
           G(p) == p = "allow" \/ (p = "ask" /\ (answer = "yes" \/ (answer = "headless" /\ call.kind = "execute" /\ check)))
<1>1. /\ R(1) <=> G(P("readonly")) 
      /\ R(2) <=> G(P("ask"))
      /\ R(3) <=> G(P("auto"))
      /\ R(4) <=> G(P("yolo"))
  BY DEF Command!Runs, Command!Modes
<1>2. call.kind \in {"read-only", "session", "mutate", "execute"} /\ call.mcp \in {"none", "off", "on"}
  BY DEF Command!Calls
<1>3. /\ P("readonly") = "deny" \/ (P("readonly") = "allow" /\ P("ask") = "allow")
      /\ P("ask") = "deny" \/ P("ask") = P("auto") \/ (P("ask") = "ask" /\ P("auto") = "allow")
      /\ P("auto") = "deny" \/ P("yolo") = "allow"
  <2>1. CASE call.mcp = "off" /\ call.kind = "execute"
    BY <2>1 DEF Command!Permission
  <2>2. CASE call.kind \in {"read-only", "session"}
    BY <2>2 DEF Command!Permission
  <2>3. CASE call.kind = "mutate"
    BY <2>3 DEF Command!Permission
  <2>4. CASE call.kind = "execute" /\ call.mcp # "off"
    BY <2>4 DEF Command!Permission
  <2> QED
    BY <1>2, <2>1, <2>2, <2>3, <2>4
<1>4. ASSUME call.kind = "execute"
      PROVE  /\ call.mcp = "off" => /\ P("readonly") = "deny" /\ P("ask") = "deny"
                                    /\ P("auto") = "deny" /\ P("yolo") = "deny"
             /\ v = "deny" => P("readonly") = "deny" /\ P("ask") = "deny" /\ P("auto") = "deny"
             /\ v = "ask" => /\ P("readonly") = "deny" /\ P("ask") \in {"deny", "ask"}
                             /\ P("auto") \in {"deny", "ask"}
  BY <1>2, <1>4 DEF Command!Permission
<1>5. ~G("deny") /\ G("allow") /\ (answer = "headless" /\ ~check => ~G("ask"))
  BY DEF Command!Answers
<1> HIDE DEF R, P, G
<1>6. (R(1) => R(2)) /\ (R(2) => R(3)) /\ (R(3) => R(4))
  BY <1>1, <1>3, <1>5
<1>7. /\ call.kind = "execute" /\ call.mcp = "off" => ~R(1) /\ ~R(2) /\ ~R(3) /\ ~R(4)
      /\ call.kind = "execute" /\ v = "deny" => ~R(1) /\ ~R(2) /\ ~R(3)
  BY <1>1, <1>4, <1>5
<1>8. call.kind = "execute" /\ answer = "headless" /\ v = "ask" /\ ~check => ~R(1) /\ ~R(2) /\ ~R(3)
  BY <1>1, <1>4, <1>5
<1> QED
  BY <1>6, <1>7, <1>8 DEF R

LEMMA GateOrdered == Command!GateIsOrdered
<1> DEFINE v == Command!Classified(cmd) check == Command!IsConfiguredCheck(cmd)
<1> SUFFICES ASSUME cmd.done, NEW call \in Command!Calls, NEW answer \in Command!Answers
             PROVE  LET runs == {i \in 1 .. 4 : Command!Runs(call, Command!Modes[i], v, check, answer)}
                    IN  /\ \A i \in runs : i .. 4 \subseteq runs
                        /\ call.kind = "execute" =>
                            /\ call.mcp = "off" => runs = {}
                            /\ v = "deny" => runs \subseteq {4}
                            /\ answer = "headless" /\ v = "ask" /\ cmd.read \notin ConfiguredChecks
                                   => runs \subseteq {4}
  BY Zenon DEF Command!GateIsOrdered
<1>1. v \in {"deny", "ask", "allow"}
  BY Verdicts
<1>3. check <=> cmd.read \in ConfiguredChecks
  BY Zenon DEF Command!IsConfiguredCheck
<1>2. check \in BOOLEAN
  <2>1. (cmd.read \in ConfiguredChecks) \in BOOLEAN
    OBVIOUS
  <2> QED
    BY <2>1, Zenon DEF Command!IsConfiguredCheck
<1> HIDE DEF v, check
<1> DEFINE R(i) == Command!Runs(call, Command!Modes[i], v, check, answer)
<1>4. /\ (R(1) => R(2)) /\ (R(2) => R(3)) /\ (R(3) => R(4))
      /\ call.kind = "execute" /\ call.mcp = "off" => ~R(1) /\ ~R(2) /\ ~R(3) /\ ~R(4)
      /\ call.kind = "execute" /\ v = "deny" => ~R(1) /\ ~R(2) /\ ~R(3)
      /\ call.kind = "execute" /\ answer = "headless" /\ v = "ask" /\ ~check => ~R(1) /\ ~R(2) /\ ~R(3)
  BY <1>1, <1>2, GateHolds, Zenon
<1> HIDE DEF R
<1> DEFINE runs == {i \in 1 .. 4 : R(i)}
<1>5. \A i \in runs : i .. 4 \subseteq runs
  <2> SUFFICES ASSUME NEW i \in 1 .. 4, R(i), NEW j \in i .. 4 PROVE R(j)
    OBVIOUS
  <2>1. i \in {1, 2, 3, 4} /\ j \in {1, 2, 3, 4} /\ i <= j
    OBVIOUS
  <2> QED
    BY <1>4, <2>1
<1>6. call.kind = "execute" =>
        /\ call.mcp = "off" => runs = {}
        /\ v = "deny" => runs \subseteq {4}
        /\ answer = "headless" /\ v = "ask" /\ cmd.read \notin ConfiguredChecks => runs \subseteq {4}
  <2>1. \A i \in 1 .. 4 : i \in {1, 2, 3, 4}
    OBVIOUS
  <2> QED
    BY <1>3, <1>4, <2>1
<1> QED
  BY <1>5, <1>6, Zenon DEF R

LEMMA PermissionsFollow == CmdInv => Command!PermissionsSound
<1> SUFFICES ASSUME CmdInv PROVE Command!PermissionsSound
  OBVIOUS
<1>1. Command!TypeOK
  BY DEF CmdInv, Readings, Command!TypeOK
<1>2. Command!CommandsAreReadRight
  <2> SUFFICES ASSUME cmd.done, Command!WellFormed
               PROVE  /\ Command!Destructive => Command!Classified(cmd) = "deny"
                      /\ Command!Classified(cmd) = "allow" => Command!Harmless
    BY DEF Command!CommandsAreReadRight
  <2>1. Fine(cmd.read)
    BY DEF CmdInv, Readings, Fine, Command!WellFormed, Command!Places, Command!At
  <2> QED
    BY <2>1, DestroyersDenied, AllowedOnlyReads
<1> QED
  BY <1>1, <1>2, GateOrdered DEF Command!PermissionsSound

-----------------------------------------------------------------------------
(* The parts together, as MCSession runs them.                              *)

\* A step of the composition is a step of each part, or leaves it as it is.
LEMMA PartSteps ==
    ASSUME [PartsNext]_parts
    PROVE  [Next]_vars /\ [LogNext]_logVars /\ [Repl!Next]_repl /\ [Command!Next]_cmd
<1>1. CASE PartsNext
  BY <1>1, Zenon DEF PartsNext, Takes
<1>2. CASE UNCHANGED parts
  <2>1. UNCHANGED vars /\ UNCHANGED logVars /\ UNCHANGED repl /\ UNCHANGED cmd
    BY <1>2, Zenon DEF parts
  <2> QED
    BY <2>1
<1> QED
  BY <1>1, <1>2

LEMMA PartsRun == PartsSpec => Spec /\ LogSpec
<1>1. PartsInit => Init /\ LogInit
  BY DEF PartsInit
<1>2. [PartsNext]_parts => [Next]_vars /\ [LogNext]_logVars
  BY PartSteps
<1> QED
  BY <1>1, <1>2, PTL DEF PartsSpec, Spec, LogSpec

LEMMA PromptInvariant == PartsSpec => []ReplInv
<1> ReplCounts
  BY ReplAssumption DEF ReplCounts
<1>1. PartsInit => ReplInv
  BY ReplBegins DEF PartsInit
<1>2. ReplInv /\ [PartsNext]_parts => ReplInv'
  BY PartSteps, ReplSteps
<1> QED
  BY <1>1, <1>2, PTL DEF PartsSpec

\* However the prompt's commands are ordered, and wherever the process dies: the
\* agent has been told the mode that is in force, what was prompted is in a file
\* unless the user deleted it, and while a plan waits nothing is written.
THEOREM PromptIsSound == PartsSpec => []SessionSound
<1>1. PartsSpec => []ReplInv
  BY PromptInvariant
<1>2. ReplInv => SessionSound
  BY TypedIsTyped DEF ReplInv, SessionSound, Repl!SessionSound
<1> QED
  BY <1>1, <1>2, PTL

\* An undo or redo that ends has put back every file it did not lose to the user,
\* a log row is never taken back, and a line typed into one session changes the
\* conversation of no other.
THEOREM SessionStepsHold == PartsSpec => SessionSteps
<1>1. PartsSpec => WholeMoveIsExact
  BY PartsRun, MovesAreExact, PTL
<1>2. PartsSpec => LogOnlyGrows
  BY PartsRun, LogIsKept, PTL
<1>3. ReplInv /\ [PartsNext]_parts => [Repl!OthersUntouched]_(Repl!sessionVars)
  <2> SUFFICES ASSUME ReplInv, [PartsNext]_parts
               PROVE  Repl!OthersUntouched \/ UNCHANGED repl
    BY Zenon DEF repl, Repl!sessionVars
  <2>1. ReplCounts
    BY ReplAssumption DEF ReplCounts
  <2> QED
    BY <2>1, PartSteps, OthersStep
<1>4. PartsSpec => Repl!SessionSteps
  BY PromptInvariant, <1>3, PTL DEF PartsSpec, Repl!SessionSteps
<1> QED
  BY <1>1, <1>2, <1>4, Zenon DEF SessionSteps

\* Whatever the command line: one that destroys or runs other code is denied, one
\* that is allowed only reads; and no mode runs what a laxer one does not.
THEOREM PermissionsAreSound == PartsSpec => []PermissionsSound
<1>1. PartsInit => CmdInv
  BY CommandBegins DEF PartsInit
<1>2. CmdInv /\ [PartsNext]_parts => CmdInv'
  BY PartSteps, CommandSteps
<1>3. CmdInv => PermissionsSound
  BY PermissionsFollow DEF PermissionsSound
<1> QED
  BY <1>1, <1>2, <1>3, PTL DEF PartsSpec
=============================================================================
