--------------------------- MODULE Delegation_proofs ---------------------------
(***************************************************************************)
(* Four safety properties of Delegation for every plan, by two inductive   *)
(* invariants.  IInv: no copy of the plan claims a patch the real tree     *)
(* does not hold (AppliedIsInTree), and the file a run leaves behind is    *)
(* the plan in its memory (RunIsSaved).                                    *)
(*                                                                         *)
(* For the latter, a save that is still to take its snapshot is enough to  *)
(* repair whatever the file holds; once there is none, the one snapshot    *)
(* being written is the plan (LastSnapshot), or the file is (LastFile).    *)
(* The rest of the invariant says who can still save: one writer of the    *)
(* queue at a time (OneWriter), one worker at a time in a run that is not  *)
(* parallel (OneByOneAlone), and nobody between batches and at the end     *)
(* (Settled).  JInv, in the second half, is inductive relative to IInv and *)
(* gives PlanSound and ConflictsSound: the order workers start in, which   *)
(* of them run together, and what is marked when a batch closes.           *)
(***************************************************************************)
EXTENDS Delegation, FiniteSetTheorems, NaturalsInduction, TLAPS

Busy(w)    == step[w] \notin {"off", "done", "lost"}
Pending(w) == step[w] \in Unqueued \cup {"working", "queued", "caught"}
Writing(w) == step[w] \in {"writing", "rewriting"}
NoFuture   == \A w \in Writers : ~Pending(w)

\* p is a plan and claims only what is in t.
HonestIn(p, t) ==
    /\ p = [w \in DOMAIN p |-> p[w]] /\ DOMAIN p \subseteq Workers
    /\ \A w \in DOMAIN p : p[w] = "applied" => w \in t

CopiesHonest ==
    /\ HonestIn(disk, tree) /\ HonestIn(plan, tree) /\ HonestIn(other.plan, tree)
    /\ \A w \in Writers : HonestIn(snap[w], tree)
    /\ other = [op |-> other.op, worker |-> other.worker, plan |-> other.plan]
    /\ other.op = "applied" => other.worker \in tree

Shape ==
    /\ step \in [Writers -> Steps] /\ DOMAIN snap = Writers
    /\ queue \in Seq(Writers)
    /\ mode \in {"sequential", "parallel", "byHand"}
    /\ runner \in {"idle", "between", "batch", "marking", "done"}
    /\ clean \in BOOLEAN

In(w, q) == \E i \in 1 .. Len(q) : q[i] = w

OneWriter ==
    \A w \in Writers : /\ step[w] \in Queued => In(w, queue)
                       /\ Writing(w) => w = Head(queue)

OneByOneAlone ==
    mode # "parallel" =>
        /\ \A v, w \in Writers : Busy(v) /\ Busy(w) => v = w
        /\ batches \in Seq(SUBSET Workers)
        /\ \A i \in 1 .. Len(batches) : \A v, w \in batches[i] : v = w

Settled == runner \in {"idle", "between", "done"} => \A w \in Writers : ~Busy(w)

Marking ==
    /\ runner = "marking" => mode = "parallel" /\ \A w \in Workers : ~Busy(w)
    /\ Busy(Main) => runner = "marking"

InMode ==
    /\ \A w \in Writers : step[w] \in {"caught", "rewriting"} => mode = "sequential"
    /\ mode = "byHand" => \A w \in Writers : step[w] \notin Queued

LastSnapshot == NoFuture => \A w \in Writers : Writing(w) => snap[w] = plan

LastFile == NoFuture /\ clean /\ (\A w \in Writers : ~Writing(w)) => disk = plan

ByHandFile ==
    mode = "byHand" =>
        \A w \in Writers : /\ step[w] \in {"opened", "closed"} => snap[w] = plan
                           /\ step[w] = "working" /\ clean => disk = plan

IInv ==
    /\ CopiesHonest /\ Shape /\ OneWriter /\ OneByOneAlone
    /\ Settled /\ Marking /\ InMode
    /\ LastSnapshot /\ LastFile /\ ByHandFile
-----------------------------------------------------------------------------
USE DelegationAssumption

\* An untouched plan has no worker in it.
LEMMA NoPlanHonest == \A t : HonestIn(NoPlan, t)
  BY DEF HonestIn, NoPlan

\* A copy stays honest when one status changes, to "applied" only for a worker
\* in the tree, and when the tree grows.
LEMMA HonestExcept ==
  \A p, t, w, s : HonestIn(p, t) /\ (s = "applied" => w \in t) => HonestIn([p EXCEPT ![w] = s], t)
  BY DEF HonestIn

LEMMA HonestGrows == \A p, t, u : HonestIn(p, t) /\ t \subseteq u => HonestIn(p, u)
  BY DEF HonestIn

\* What joining and leaving the queue keeps.
LEMMA QueueMoves ==
  ASSUME NEW q \in Seq(Writers), NEW w \in Writers
  PROVE  /\ Append(q, w) \in Seq(Writers) /\ In(w, Append(q, w))
         /\ \A v : In(v, q) => In(v, Append(q, w)) /\ Head(Append(q, w)) = Head(q)
         /\ \A v : In(v, q) => Tail(q) \in Seq(Writers) /\ (v # Head(q) => In(v, Tail(q)))
<1>1. Append(q, w) \in Seq(Writers) /\ Len(Append(q, w)) = Len(q) + 1
      /\ Append(q, w)[Len(q) + 1] = w /\ \A i \in 1 .. Len(q) : Append(q, w)[i] = q[i]
  OBVIOUS
<1>2. ASSUME NEW v, In(v, q)
      PROVE  In(v, Append(q, w)) /\ Head(Append(q, w)) = Head(q)
             /\ Tail(q) \in Seq(Writers) /\ (v # Head(q) => In(v, Tail(q)))
  <2>1. PICK i \in 1 .. Len(q) : q[i] = v
    BY <1>2 DEF In
  <2>2. q # <<>> /\ Len(q) \in Nat \ {0} /\ Head(q) = q[1]
    BY <2>1
  <2>3. Tail(q) \in Seq(Writers) /\ Len(Tail(q)) = Len(q) - 1
        /\ \A j \in 1 .. Len(q) - 1 : Tail(q)[j] = q[j + 1]
    BY <2>2
  <2>4. ASSUME v # Head(q) PROVE In(v, Tail(q))
    <3>1. i - 1 \in 1 .. Len(q) - 1 /\ Tail(q)[i - 1] = v
      BY <2>1, <2>2, <2>3, <2>4
    <3> QED
      BY <2>3, <3>1 DEF In
  <2>5. In(v, Append(q, w)) /\ Head(Append(q, w)) = Append(q, w)[1]
    BY <1>1, <2>1 DEF In
  <2> QED
    BY <1>1, <2>2, <2>3, <2>4, <2>5
<1>3. In(w, Append(q, w))
  BY <1>1 DEF In
<1> QED
  BY <1>1, <1>2, <1>3

LEMMA InitHolds == Init => IInv
<1> SUFFICES ASSUME Init PROVE IInv
  OBVIOUS
<1> USE DEF Init
<1>1. CopiesHonest
  <2>1. HonestIn(disk, tree)
    BY DEF HonestIn
  <2>2. other = [op |-> "none", worker |-> Main, plan |-> NoPlan]
    BY DEF NoOne
  <2> QED
    BY <2>1, <2>2, NoPlanHonest DEF CopiesHonest
<1>2. Shape
  <2>1. step \in [Writers -> Steps] /\ DOMAIN snap = Writers
    BY DEF Steps
  <2>2. queue \in Seq(Writers)
    OBVIOUS
  <2> QED
    BY <2>1, <2>2 DEF Shape
<1>3. OneWriter /\ OneByOneAlone /\ Settled /\ Marking /\ InMode
      /\ LastSnapshot /\ LastFile /\ ByHandFile
  BY DEF OneWriter, Steps, OneByOneAlone, Settled, Marking, InMode, LastSnapshot, LastFile, ByHandFile, NoFuture, Pending, Writing, Busy, Queued, Unqueued, Writers
<1> QED
  BY <1>1, <1>2, <1>3 DEF IInv

\* The steps that start a run.
Starting == RunAll \/ \E w \in Workers : RunOneHeadless(w) \/ RunOneByHand(w)

\* A run in mode m starts from an honest plan p, and outside parallel mode with
\* at most one worker per batch.
StartsWith(m, p, bs) ==
    /\ m \in {"sequential", "parallel", "byHand"}
    /\ Starts(m, p, bs)
    /\ HonestIn(p, tree)
    /\ m # "parallel" => /\ bs \in Seq(SUBSET Workers)
                         /\ \A i \in 1 .. Len(bs) : \A v, w \in bs[i] : v = w

\* A run starts from the file, or from one worker of it.
LEMMA StartMoves == IInv /\ Starting => \E m, p, bs : StartsWith(m, p, bs)
<1> SUFFICES ASSUME IInv, Starting PROVE \E m, p, bs : StartsWith(m, p, bs)
  OBVIOUS
<1>1. \A p : OneByOne(p) \in Seq(SUBSET Workers)
             /\ \A i \in 1 .. Len(OneByOne(p)) : \A v, w \in OneByOne(p)[i] : v = w
  BY DEF OneByOne
<1>2. HonestIn(disk, tree)
  BY DEF IInv, CopiesHonest
<1>3. ASSUME RunAll PROVE \E m, p, bs : StartsWith(m, p, bs)
  <2>1. CASE Starts("sequential", disk, OneByOne(disk))
    <3>1. StartsWith("sequential", disk, OneByOne(disk))
      BY <1>1, <1>2, <2>1 DEF StartsWith
    <3> QED
      BY <3>1
  <2>2. ASSUME NEW bs \in BuildRunnableBatches(disk), Starts("parallel", disk, bs)
        PROVE  \E m, p, cs : StartsWith(m, p, cs)
    <3>1. StartsWith("parallel", disk, bs)
      BY <1>2, <2>2 DEF StartsWith
    <3> QED
      BY <3>1
  <2> QED
    BY <1>3, <2>1, <2>2 DEF RunAll
<1>4. ASSUME NEW w \in Workers, RunOneHeadless(w) PROVE \E m, p, bs : StartsWith(m, p, bs)
  <2> DEFINE view == [v \in {w} |-> disk[w]]
  <2>1. Starts("sequential", view, OneByOne(view))
    BY <1>4 DEF RunOneHeadless
  <2>2. HonestIn(view, tree)
    BY <1>2, <1>4 DEF RunOneHeadless, HonestIn
  <2> HIDE DEF view
  <2>3. StartsWith("sequential", view, OneByOne(view))
    BY <1>1, <2>1, <2>2 DEF StartsWith
  <2> QED
    BY <2>3
<1>5. ASSUME NEW w \in Workers, RunOneByHand(w) PROVE \E m, p, bs : StartsWith(m, p, bs)
  <2>1. <<{w}>> \in Seq(SUBSET Workers) /\ Len(<<{w}>>) = 1 /\ <<{w}>>[1] = {w}
    OBVIOUS
  <2>2. StartsWith("byHand", disk, <<{w}>>)
    BY <1>2, <1>5, <2>1 DEF RunOneByHand, StartsWith
  <2> QED
    BY <2>2
<1> QED
  BY <1>3, <1>4, <1>5 DEF Starting

\* The steps of the other process.
OtherMoves ==
    \/ \E w \in Workers : ApplyLoads(w) \/ DiscardLoads(w)
    \/ GitApplies \/ ApplyRefused \/ ApplySaves \/ DiscardSaves \/ OtherDies

\* Every step keeps the invariant, one case per action.
LEMMA StepHolds == IInv /\ [Next]_vars => IInv'
<1> SUFFICES ASSUME IInv, [Next]_vars PROVE IInv'
  OBVIOUS
<1> USE DEF IInv
<1>1. ASSUME Starting
      PROVE  IInv'
  <2>s. PICK m, p, bs : StartsWith(m, p, bs)
    BY <1>1, StartMoves
  <2>0. /\ m \in {"sequential", "parallel", "byHand"}
        /\ Starts(m, p, bs) /\ HonestIn(p, tree)
        /\ m # "parallel" => /\ bs \in Seq(SUBSET Workers)
                             /\ \A i \in 1 .. Len(bs) : \A v, w \in bs[i] : v = w
    BY <2>s DEF StartsWith
  <2>1. CopiesHonest'
    BY <2>0 DEF CopiesHonest, Shape, Starts
  <2>2. Shape'
    BY <2>0 DEF Shape, Steps, Queued, Unqueued, Writers, OneWriter, Starts
  <2>3. OneWriter'
    BY <2>0 DEF OneWriter, Writing, Queued, Shape, Writers, Busy, Settled, Marking, Starts
  <2>4. OneByOneAlone'
    BY <2>0 DEF OneByOneAlone, Busy, Shape, Settled, Marking, Writers, Starts
  <2>5. Settled'
    BY <2>0 DEF Settled, Busy, Shape, Marking, OneByOneAlone, InMode, Queued, Writers, Starts
  <2>6. Marking'
    BY <2>0 DEF Marking, Busy, Shape, Settled, InMode, Queued, Writers, CopiesHonest, HonestIn, Starts
  <2>7. InMode'
    BY <2>0 DEF InMode, Queued, Shape, Marking, Settled, Busy, Starts
  <2>8. LastSnapshot'
    BY <2>0 DEF LastSnapshot, NoFuture, Pending, Writing, Queued, Unqueued, Shape, OneWriter, Settled, Marking, OneByOneAlone, InMode, Busy, Writers, Starts
  <2>9. LastFile'
    BY <2>0 DEF LastFile, NoFuture, Pending, Writing, Queued, Unqueued, Shape, Settled, Marking, OneByOneAlone, InMode, Busy, LastSnapshot, ByHandFile, Writers, Starts
  <2>10. ByHandFile'
    BY <2>0 DEF ByHandFile, Shape, OneByOneAlone, Busy, InMode, Settled, Marking, Writers, Starts
  <2> QED
    BY <2>1, <2>2, <2>3, <2>4, <2>5, <2>6, <2>7, <2>8, <2>9, <2>10
<1>2. ASSUME LaunchBatch
      PROVE  IInv'
  <2>1. CopiesHonest'
    BY <1>2 DEF CopiesHonest, HonestIn, LaunchBatch, bounds
  <2>2. Shape'
    BY <1>2 DEF Shape, Steps, Queued, Unqueued, Writers, OneWriter, LaunchBatch, bounds
  <2>3. OneWriter'
    BY <1>2 DEF OneWriter, Writing, Queued, Shape, Writers, Busy, Settled, Marking, LaunchBatch, bounds
  <2>4. OneByOneAlone'
    BY <1>2 DEF OneByOneAlone, Busy, Shape, Settled, Marking, Writers, LaunchBatch, bounds
  <2>5. Settled'
    BY <1>2 DEF Settled, Busy, Shape, Marking, OneByOneAlone, InMode, Queued, Writers, LaunchBatch, bounds
  <2>6. Marking'
    BY <1>2 DEF Marking, Busy, Shape, Settled, InMode, Queued, Writers, CopiesHonest, HonestIn, LaunchBatch, bounds
  <2>7. InMode'
    BY <1>2 DEF InMode, Queued, Shape, Marking, Settled, Busy, LaunchBatch, bounds
  <2>8. LastSnapshot'
    BY <1>2 DEF LastSnapshot, NoFuture, Pending, Writing, Queued, Unqueued, Shape, OneWriter, Settled, Marking, OneByOneAlone, InMode, Busy, Writers, LaunchBatch, bounds
  <2>9. LastFile'
    <3>1. CASE Head(batches) \cap DOMAIN plan = {}
      <4>1. plan' = plan /\ step' = [w \in Writers |-> "off"] /\ UNCHANGED <<disk, clean>>
        BY <1>2, <3>1 DEF LaunchBatch, CopiesHonest, HonestIn
      <4>2. \A w \in Writers : ~Busy(w)
        BY <1>2 DEF LaunchBatch, Settled
      <4> QED
        BY <4>1, <4>2 DEF LastFile, NoFuture, Pending, Writing, Busy, Unqueued
    <3>2. CASE Head(batches) \cap DOMAIN plan # {}
      <4>1. PICK w \in Writers : step'[w] = "opening"
        BY <1>2, <3>2 DEF LaunchBatch, CopiesHonest, HonestIn, Writers
      <4> QED
        BY <4>1 DEF LastFile, NoFuture, Pending, Unqueued
    <3> QED
      BY <3>1, <3>2
  <2>10. ByHandFile'
    BY <1>2 DEF ByHandFile, Shape, OneByOneAlone, Busy, InMode, Settled, Marking, Writers, LaunchBatch, bounds
  <2> QED
    BY <2>1, <2>2, <2>3, <2>4, <2>5, <2>6, <2>7, <2>8, <2>9, <2>10
<1>3. ASSUME NEW w \in Writers, SaveSnaps(w)
      PROVE  IInv'
  <2>0. /\ step[w] \in {"queued", "caught"} => w = Head(queue)
        /\ \/ step[w] = "opening" /\ step' = [step EXCEPT ![w] = "opened"]
           \/ step[w] = "closing" /\ step' = [step EXCEPT ![w] = "closed"]
           \/ step[w] = "queued" /\ step' = [step EXCEPT ![w] = "writing"]
           \/ step[w] = "caught" /\ step' = [step EXCEPT ![w] = "rewriting"]
        /\ snap' = [snap EXCEPT ![w] = plan]
        /\ UNCHANGED <<disk, plan, mode, runner, batches, queue, tree, other, clean>>
    <3>1. /\ DOMAIN AfterSnap = {"opening", "closing", "queued", "caught"}
          /\ AfterSnap["opening"] = "opened" /\ AfterSnap["closing"] = "closed"
          /\ AfterSnap["queued"] = "writing" /\ AfterSnap["caught"] = "rewriting"
      BY DEF AfterSnap
    <3>2. step' = [step EXCEPT ![w] = AfterSnap[step[w]]]
      BY <1>3 DEF SaveSnaps
    <3> QED
      BY <1>3, <3>1, <3>2 DEF SaveSnaps, Turn, Queued, bounds
  <2>1. CopiesHonest'
    BY <2>0, NoPlanHonest, HonestExcept DEF CopiesHonest, Shape
  <2>2. Shape'
    BY <2>0, QueueMoves DEF Shape, Steps, Queued, Unqueued, Writers, OneWriter
  <2>3. OneWriter'
    BY <2>0, QueueMoves DEF OneWriter, Writing, Queued, Shape, Writers, Busy, Settled, Marking
  <2>4. OneByOneAlone'
    <3>1. \A v \in Writers : Busy(v)' => Busy(v)
      BY <2>0 DEF Busy, Shape
    <3> QED
      BY <2>0, <3>1 DEF OneByOneAlone
  <2>5. Settled'
    BY <2>0 DEF Settled, Busy, Shape, Marking, OneByOneAlone, InMode, Queued, Writers
  <2>6. Marking'
    BY <2>0 DEF Marking, Busy, Shape, Settled, InMode, Queued, Writers, CopiesHonest, HonestIn
  <2>7. InMode'
    BY <2>0 DEF InMode, Queued, Shape, Marking, Settled, Busy
  <2>8. LastSnapshot'
    BY <2>0 DEF LastSnapshot, NoFuture, Pending, Writing, Queued, Unqueued, Shape, OneWriter, Settled, Marking, OneByOneAlone, InMode, Busy, Writers
  <2>9. LastFile'
    BY <2>0 DEF LastFile, NoFuture, Pending, Writing, Queued, Unqueued, Shape, Settled, Marking, OneByOneAlone, InMode, Busy, LastSnapshot, ByHandFile, Writers
  <2>10. ByHandFile'
    BY <2>0 DEF ByHandFile, Shape, OneByOneAlone, Busy, InMode, Settled, Marking, Writers
  <2> QED
    BY <2>1, <2>2, <2>3, <2>4, <2>5, <2>6, <2>7, <2>8, <2>9, <2>10
<1>4. ASSUME NEW w \in Writers, SaveLands(w)
      PROVE  IInv'
  <2>0. /\ \/ /\ step[w] = "opened" /\ step' = [step EXCEPT ![w] = "working"]
              /\ UNCHANGED <<queue, runner>>
           \/ /\ step[w] = "closed" /\ mode = "byHand" /\ step' = [step EXCEPT ![w] = "done"]
              /\ runner' = "done" /\ UNCHANGED queue
           \/ /\ step[w] = "closed" /\ mode # "byHand" /\ step' = [step EXCEPT ![w] = "queued"]
              /\ queue' = Append(queue, w) /\ UNCHANGED runner
           \/ /\ step[w] \in {"writing", "rewriting"} /\ w # Main
              /\ step' = [step EXCEPT ![w] = "done"]
              /\ queue' = Tail(queue) /\ UNCHANGED runner
           \/ /\ step[w] = "writing" /\ w = Main /\ step' = [step EXCEPT ![w] = "off"]
              /\ queue' = Tail(queue) /\ runner' = "between"
        /\ disk' = snap[w] /\ clean' = TRUE /\ snap' = [snap EXCEPT ![w] = NoPlan]
        /\ UNCHANGED <<plan, mode, batches, tree, other>>
    BY <1>4 DEF SaveLands, Returns, Ends, Dequeue, InMode, Queued
  <2>q. /\ Append(queue, w) \in Seq(Writers) /\ In(w, Append(queue, w))
        /\ \A v : In(v, queue) => In(v, Append(queue, w)) /\ Head(Append(queue, w)) = Head(queue)
        /\ \A v : In(v, queue) => Tail(queue) \in Seq(Writers) /\ (v # Head(queue) => In(v, Tail(queue)))
    BY <2>0, QueueMoves DEF Shape
  <2>1. CopiesHonest'
    BY <2>0, NoPlanHonest, HonestExcept DEF CopiesHonest, Shape
  <2>2. Shape'
    <3>1. step' \in [Writers -> Steps]
      BY <2>0 DEF Shape, Steps, Queued, Unqueued
    <3>2. queue' \in Seq(Writers)
      BY <2>0, <2>q DEF Shape, OneWriter, Queued
    <3> QED
      BY <2>0, <3>1, <3>2 DEF Shape
  <2>3. OneWriter'
    <3>1. ASSUME NEW v \in Writers, step'[v] \in Queued PROVE In(v, queue')
      <4>1. \/ UNCHANGED queue /\ step[v] \in Queued
            \/ queue' = Append(queue, w) /\ (v # w => step[v] \in Queued)
            \/ queue' = Tail(queue) /\ Writing(w) /\ v # w /\ step[v] \in Queued
        BY <2>0, <3>1 DEF Shape, Queued, Unqueued, Writing
      <4>2. CASE UNCHANGED queue /\ step[v] \in Queued
        BY <4>2 DEF OneWriter
      <4>3. CASE queue' = Append(queue, w) /\ (v # w => step[v] \in Queued)
        BY <4>3, <2>q DEF OneWriter
      <4>4. CASE queue' = Tail(queue) /\ Writing(w) /\ v # w /\ step[v] \in Queued
        BY <4>4, <2>q DEF OneWriter
      <4> QED
        BY <4>1, <4>2, <4>3, <4>4
    <3>2. ASSUME NEW v \in Writers, Writing(v)' PROVE v = Head(queue')
      BY <2>0, <3>2, <2>q DEF Shape, OneWriter, Queued, Writing
    <3> QED
      BY <3>1, <3>2 DEF OneWriter
  <2>4. OneByOneAlone'
    BY <2>0 DEF OneByOneAlone, Busy, Shape, Settled, Marking, Writers
  <2>5. Settled'
    BY <2>0 DEF Settled, Busy, Shape, Marking, OneByOneAlone, InMode, Queued, Writers
  <2>6. Marking'
    BY <2>0 DEF Marking, Busy, Shape, Settled, InMode, Queued, Writers, CopiesHonest, HonestIn
  <2>7. InMode'
    BY <2>0 DEF InMode, Queued, Shape, Marking, Settled, Busy
  <2>8. LastSnapshot'
    BY <2>0 DEF LastSnapshot, NoFuture, Pending, Writing, Queued, Unqueued, Shape, OneWriter, Settled, Marking, OneByOneAlone, InMode, Busy, Writers
  <2>9. LastFile'
    BY <2>0 DEF LastFile, NoFuture, Pending, Writing, Queued, Unqueued, Shape, Settled, Marking, OneByOneAlone, InMode, Busy, LastSnapshot, ByHandFile, Writers
  <2>10. ByHandFile'
    BY <2>0 DEF ByHandFile, Shape, OneByOneAlone, Busy, InMode, Settled, Marking, Writers
  <2> QED
    BY <2>1, <2>2, <2>3, <2>4, <2>5, <2>6, <2>7, <2>8, <2>9, <2>10
<1>5. ASSUME NEW w \in Writers, SaveFails(w)
      PROVE  IInv'
  <2>0. /\ \/ /\ step[w] \in {"opened", "closed"} /\ mode = "byHand"
              /\ step' = [step EXCEPT ![w] = "lost"]
              /\ runner' = "done" /\ UNCHANGED <<plan, queue>>
           \/ /\ step[w] \in {"opened", "closed"} /\ mode # "byHand"
              /\ step' = [step EXCEPT ![w] = IF mode = "parallel" THEN "queued" ELSE "caught"]
              /\ plan' = [plan EXCEPT ![w] = "failed"]
              /\ queue' = Append(queue, w) /\ UNCHANGED runner
           \/ /\ step[w] = "writing" /\ mode = "parallel" /\ w # Main
              /\ step' = [step EXCEPT ![w] = "lost"]
              /\ queue' = Tail(queue) /\ UNCHANGED <<plan, runner>>
           \/ /\ step[w] = "writing" /\ mode = "sequential"
              /\ step' = [step EXCEPT ![w] = "caught"]
              /\ plan' = [plan EXCEPT ![w] = "failed"] /\ UNCHANGED <<queue, runner>>
           \/ /\ step[w] \in {"writing", "rewriting"} /\ (step[w] = "rewriting" \/ w = Main)
              /\ step' = [step EXCEPT ![w] = "lost"]
              /\ queue' = Tail(queue) /\ runner' = "done" /\ UNCHANGED plan
        /\ clean' = FALSE /\ snap' = [snap EXCEPT ![w] = NoPlan]
        /\ UNCHANGED <<disk, mode, batches, tree, other>>
    BY <1>5 DEF SaveFails, Throws, QueuedSaveFails, Ends, Dequeue
  <2>q. /\ Append(queue, w) \in Seq(Writers) /\ In(w, Append(queue, w))
        /\ \A v : In(v, queue) => In(v, Append(queue, w)) /\ Head(Append(queue, w)) = Head(queue)
        /\ \A v : In(v, queue) => Tail(queue) \in Seq(Writers) /\ (v # Head(queue) => In(v, Tail(queue)))
    BY <2>0, QueueMoves DEF Shape
  <2>1. CopiesHonest'
    <3>1. HonestIn(plan, tree) /\ HonestIn([plan EXCEPT ![w] = "failed"], tree)
      <4>1. HonestIn(plan, tree)
        BY DEF CopiesHonest
      <4> QED
        BY <4>1, HonestExcept
    <3>2. HonestIn(plan', tree)
      BY <2>0, <3>1
    <3>3. \A v \in Writers : HonestIn(snap'[v], tree)
      BY <2>0, NoPlanHonest DEF CopiesHonest, Shape
    <3> QED
      BY <2>0, <3>2, <3>3 DEF CopiesHonest
  <2>2. Shape'
    <3>1. step' \in [Writers -> Steps]
      BY <2>0 DEF Shape, Steps, Queued, Unqueued
    <3>2. queue' \in Seq(Writers)
      BY <2>0, <2>q DEF Shape, OneWriter, Queued
    <3> QED
      BY <2>0, <3>1, <3>2 DEF Shape
  <2>3. OneWriter'
    <3>1. ASSUME NEW v \in Writers, step'[v] \in Queued PROVE In(v, queue')
      <4>1. \/ UNCHANGED queue /\ step[v] \in Queued
            \/ queue' = Append(queue, w) /\ (v # w => step[v] \in Queued)
            \/ queue' = Tail(queue) /\ Writing(w) /\ v # w /\ step[v] \in Queued
        BY <2>0, <3>1 DEF Shape, Queued, Unqueued, Writing
      <4>2. CASE UNCHANGED queue /\ step[v] \in Queued
        BY <4>2 DEF OneWriter
      <4>3. CASE queue' = Append(queue, w) /\ (v # w => step[v] \in Queued)
        BY <4>3, <2>q DEF OneWriter
      <4>4. CASE queue' = Tail(queue) /\ Writing(w) /\ v # w /\ step[v] \in Queued
        BY <4>4, <2>q DEF OneWriter
      <4> QED
        BY <4>1, <4>2, <4>3, <4>4
    <3>2. ASSUME NEW v \in Writers, Writing(v)' PROVE v = Head(queue')
      BY <2>0, <3>2, <2>q DEF Shape, OneWriter, Queued, Writing
    <3> QED
      BY <3>1, <3>2 DEF OneWriter
  <2>4. OneByOneAlone'
    BY <2>0 DEF OneByOneAlone, Busy, Shape, Settled, Marking, Writers
  <2>5. Settled'
    BY <2>0 DEF Settled, Busy, Shape, Marking, OneByOneAlone, InMode, Queued, Writers
  <2>6. Marking'
    BY <2>0 DEF Marking, Busy, Shape, Settled, InMode, Queued, Writers, CopiesHonest, HonestIn
  <2>7. InMode'
    BY <2>0 DEF InMode, Queued, Shape, Marking, Settled, Busy
  <2>8. LastSnapshot'
    BY <2>0 DEF LastSnapshot, NoFuture, Pending, Writing, Queued, Unqueued, Shape, OneWriter, Settled, Marking, OneByOneAlone, InMode, Busy, Writers
  <2>9. LastFile'
    BY <2>0 DEF LastFile, NoFuture, Pending, Writing, Queued, Unqueued, Shape, Settled, Marking, OneByOneAlone, InMode, Busy, LastSnapshot, ByHandFile, Writers
  <2>10. ByHandFile'
    BY <2>0 DEF ByHandFile, Shape, OneByOneAlone, Busy, InMode, Settled, Marking, Writers
  <2> QED
    BY <2>1, <2>2, <2>3, <2>4, <2>5, <2>6, <2>7, <2>8, <2>9, <2>10
<1>6. ASSUME NEW w \in Workers, WorktreeFails(w)
      PROVE  IInv'
  <2>0. /\ step[w] = "working"
        /\ \/ /\ mode = "byHand" /\ step' = [step EXCEPT ![w] = "lost"]
              /\ runner' = "done" /\ UNCHANGED <<plan, queue>>
           \/ /\ mode # "byHand"
              /\ step' = [step EXCEPT ![w] = IF mode = "parallel" THEN "queued" ELSE "caught"]
              /\ plan' = [plan EXCEPT ![w] = "failed"]
              /\ queue' = Append(queue, w) /\ UNCHANGED runner
        /\ w \in Writers
        /\ UNCHANGED <<disk, snap, mode, batches, tree, other, clean>>
    BY <1>6 DEF WorktreeFails, Throws, Ends, Writers
  <2>q. /\ Append(queue, w) \in Seq(Writers) /\ In(w, Append(queue, w))
        /\ \A v : In(v, queue) => In(v, Append(queue, w)) /\ Head(Append(queue, w)) = Head(queue)
        /\ \A v : In(v, queue) => Tail(queue) \in Seq(Writers) /\ (v # Head(queue) => In(v, Tail(queue)))
    BY <2>0, QueueMoves DEF Shape
  <2>1. CopiesHonest'
    <3>1. HonestIn(plan, tree) /\ HonestIn([plan EXCEPT ![w] = "failed"], tree)
      <4>1. HonestIn(plan, tree)
        BY DEF CopiesHonest
      <4> QED
        BY <4>1, HonestExcept
    <3>2. HonestIn(plan', tree)
      BY <2>0, <3>1
    <3>3. \A v \in Writers : HonestIn(snap'[v], tree)
      BY <2>0, NoPlanHonest DEF CopiesHonest, Shape
    <3> QED
      BY <2>0, <3>2, <3>3 DEF CopiesHonest
  <2>2. Shape'
    <3>1. step' \in [Writers -> Steps]
      BY <2>0 DEF Shape, Steps, Queued, Unqueued
    <3>2. queue' \in Seq(Writers)
      BY <2>0, <2>q DEF Shape, OneWriter, Queued
    <3> QED
      BY <2>0, <3>1, <3>2 DEF Shape
  <2>3. OneWriter'
    <3>1. ASSUME NEW v \in Writers, step'[v] \in Queued PROVE In(v, queue')
      BY <2>0, <3>1, <2>q, ZenonT(30) DEF Shape, OneWriter, Queued, Writing
    <3>2. ASSUME NEW v \in Writers, Writing(v)' PROVE v = Head(queue')
      BY <2>0, <3>2, <2>q DEF Shape, OneWriter, Queued, Writing
    <3> QED
      BY <3>1, <3>2 DEF OneWriter
  <2>4. OneByOneAlone'
    BY <2>0 DEF OneByOneAlone, Busy, Shape, Settled, Marking, Writers
  <2>5. Settled'
    BY <2>0 DEF Settled, Busy, Shape, Marking, OneByOneAlone, InMode, Queued, Writers
  <2>6. Marking'
    BY <2>0 DEF Marking, Busy, Shape, Settled, InMode, Queued, Writers, CopiesHonest, HonestIn
  <2>7. InMode'
    BY <2>0 DEF InMode, Queued, Shape, Marking, Settled, Busy
  <2>8. LastSnapshot'
    BY <2>0 DEF LastSnapshot, NoFuture, Pending, Writing, Queued, Unqueued, Shape, OneWriter, Settled, Marking, OneByOneAlone, InMode, Busy, Writers
  <2>9. LastFile'
    BY <2>0 DEF LastFile, NoFuture, Pending, Writing, Queued, Unqueued, Shape, Settled, Marking, OneByOneAlone, InMode, Busy, LastSnapshot, ByHandFile, Writers
  <2>10. ByHandFile'
    BY <2>0 DEF ByHandFile, Shape, OneByOneAlone, Busy, InMode, Settled, Marking, Writers
  <2> QED
    BY <2>1, <2>2, <2>3, <2>4, <2>5, <2>6, <2>7, <2>8, <2>9, <2>10
<1>7. ASSUME NEW w \in Workers, NEW r \in Results(w), Solves(w, r)
      PROVE  IInv'
  <2>0. /\ step[w] = "working" /\ step' = [step EXCEPT ![w] = "closing"]
        /\ \E s \in {"passed", "failed"} : plan' = [plan EXCEPT ![w] = s]
        /\ w \in Writers
        /\ UNCHANGED <<disk, snap, mode, runner, batches, queue, tree, other, clean>>
    BY <1>7 DEF Solves, Writers
  <2>1. CopiesHonest'
    <3>1. PICK s \in {"passed", "failed"} : plan' = [plan EXCEPT ![w] = s]
      BY <2>0
    <3>2. HonestIn(plan, tree)
      BY DEF CopiesHonest
    <3>3. s # "applied"
      BY <3>1
    <3>4. HonestIn([plan EXCEPT ![w] = s], tree)
      BY <3>2, <3>3, HonestExcept
    <3> QED
      BY <2>0, <3>1, <3>4 DEF CopiesHonest
  <2>2. Shape'
    BY <2>0, QueueMoves DEF Shape, Steps, Queued, Unqueued, Writers, OneWriter
  <2>3. OneWriter'
    BY <2>0, QueueMoves DEF OneWriter, Writing, Queued, Shape, Writers, Busy, Settled, Marking
  <2>4. OneByOneAlone'
    BY <2>0 DEF OneByOneAlone, Busy, Shape, Settled, Marking, Writers
  <2>5. Settled'
    BY <2>0 DEF Settled, Busy, Shape, Marking, OneByOneAlone, InMode, Queued, Writers
  <2>6. Marking'
    BY <2>0 DEF Marking, Busy, Shape, Settled, InMode, Queued, Writers, CopiesHonest, HonestIn
  <2>7. InMode'
    BY <2>0 DEF InMode, Queued, Shape, Marking, Settled, Busy
  <2>8. LastSnapshot'
    BY <2>0 DEF LastSnapshot, NoFuture, Pending, Writing, Queued, Unqueued, Shape, OneWriter, Settled, Marking, OneByOneAlone, InMode, Busy, Writers
  <2>9. LastFile'
    BY <2>0 DEF LastFile, NoFuture, Pending, Writing, Queued, Unqueued, Shape, Settled, Marking, OneByOneAlone, InMode, Busy, LastSnapshot, ByHandFile, Writers
  <2>10. ByHandFile'
    BY <2>0 DEF ByHandFile, Shape, OneByOneAlone, Busy, InMode, Settled, Marking, Writers
  <2> QED
    BY <2>1, <2>2, <2>3, <2>4, <2>5, <2>6, <2>7, <2>8, <2>9, <2>10
<1>8. ASSUME SettleBatch
      PROVE  IInv'
  <2>0. /\ runner = "batch" /\ \A w \in Workers : ~Busy(w)
        /\ \/ /\ mode = "parallel" /\ runner' = "marking"
              /\ plan' = [w \in DOMAIN plan |-> IF w \in Conflicting THEN "conflict" ELSE plan[w]]
              /\ step' = [step EXCEPT ![Main] = "queued"] /\ queue' = Append(queue, Main)
           \/ runner' = "between" /\ UNCHANGED <<plan, step, queue>>
        /\ Main \in Writers
        /\ UNCHANGED <<disk, snap, mode, batches, tree, other, clean>>
    BY <1>8 DEF SettleBatch, Busy, Writers
  <2>q. /\ Append(queue, Main) \in Seq(Writers) /\ In(Main, Append(queue, Main))
        /\ \A v : In(v, queue) => In(v, Append(queue, Main)) /\ Head(Append(queue, Main)) = Head(queue)
        /\ \A v : In(v, queue) => Tail(queue) \in Seq(Writers) /\ (v # Head(queue) => In(v, Tail(queue)))
    BY <2>0, QueueMoves DEF Shape
  <2>1. CopiesHonest'
    BY <2>0 DEF CopiesHonest, HonestIn
  <2>2. Shape'
    <3>1. step' \in [Writers -> Steps]
      BY <2>0 DEF Shape, Steps, Queued, Unqueued
    <3>2. queue' \in Seq(Writers)
      BY <2>0, <2>q DEF Shape, OneWriter, Queued
    <3> QED
      BY <2>0, <3>1, <3>2 DEF Shape
  <2>3. OneWriter'
    <3>1. ASSUME NEW v \in Writers, step'[v] \in Queued PROVE In(v, queue')
      <4>1. \/ UNCHANGED queue /\ step[v] \in Queued
            \/ queue' = Append(queue, Main) /\ (v # Main => step[v] \in Queued)
        BY <2>0, <3>1 DEF Shape, Queued, Unqueued, Writing
      <4>2. CASE UNCHANGED queue /\ step[v] \in Queued
        BY <4>2 DEF OneWriter
      <4>3. CASE queue' = Append(queue, Main) /\ (v # Main => step[v] \in Queued)
        BY <4>3, <2>q DEF OneWriter
      <4> QED
        BY <4>1, <4>2, <4>3
    <3>2. ASSUME NEW v \in Writers, Writing(v)' PROVE v = Head(queue')
      BY <2>0, <3>2, <2>q DEF Shape, OneWriter, Queued, Writing
    <3> QED
      BY <3>1, <3>2 DEF OneWriter
  <2>4. OneByOneAlone'
    BY <2>0 DEF OneByOneAlone, Busy, Shape, Settled, Marking, Writers
  <2>5. Settled'
    BY <2>0 DEF Settled, Busy, Shape, Marking, OneByOneAlone, InMode, Queued, Writers
  <2>6. Marking'
    BY <2>0 DEF Marking, Busy, Shape, Settled, InMode, Queued, Writers, CopiesHonest, HonestIn
  <2>7. InMode'
    BY <2>0 DEF InMode, Queued, Shape, Marking, Settled, Busy
  <2>8. LastSnapshot'
    BY <2>0 DEF LastSnapshot, NoFuture, Pending, Writing, Queued, Unqueued, Shape, OneWriter, Settled, Marking, OneByOneAlone, InMode, Busy, Writers
  <2>9. LastFile'
    BY <2>0 DEF LastFile, NoFuture, Pending, Writing, Queued, Unqueued, Shape, Settled, Marking, OneByOneAlone, InMode, Busy, LastSnapshot, ByHandFile, Writers
  <2>10. ByHandFile'
    BY <2>0 DEF ByHandFile, Shape, OneByOneAlone, Busy, InMode, Settled, Marking, Writers
  <2> QED
    BY <2>1, <2>2, <2>3, <2>4, <2>5, <2>6, <2>7, <2>8, <2>9, <2>10
<1>9. ASSUME RunEnds
      PROVE  IInv'
  <2>1. CopiesHonest'
    BY <1>9 DEF CopiesHonest, Shape, RunEnds, bounds
  <2>2. Shape'
    BY <1>9 DEF Shape, Steps, Queued, Unqueued, Writers, OneWriter, RunEnds, bounds
  <2>3. OneWriter'
    BY <1>9 DEF OneWriter, Writing, Queued, Shape, Writers, Busy, Settled, Marking, RunEnds, bounds
  <2>4. OneByOneAlone'
    BY <1>9 DEF OneByOneAlone, Busy, Shape, Settled, Marking, Writers, RunEnds, bounds
  <2>5. Settled'
    BY <1>9 DEF Settled, Busy, Shape, Marking, OneByOneAlone, InMode, Queued, Writers, RunEnds, bounds
  <2>6. Marking'
    BY <1>9 DEF Marking, Busy, Shape, Settled, InMode, Queued, Writers, CopiesHonest, HonestIn, RunEnds, bounds
  <2>7. InMode'
    BY <1>9 DEF InMode, Queued, Shape, Marking, Settled, Busy, RunEnds, bounds
  <2>8. LastSnapshot'
    BY <1>9 DEF LastSnapshot, NoFuture, Pending, Writing, Queued, Unqueued, Shape, OneWriter, Settled, Marking, OneByOneAlone, InMode, Busy, Writers, RunEnds, bounds
  <2>9. LastFile'
    BY <1>9 DEF LastFile, NoFuture, Pending, Writing, Queued, Unqueued, Shape, Settled, Marking, OneByOneAlone, InMode, Busy, LastSnapshot, ByHandFile, Writers, RunEnds, bounds
  <2>10. ByHandFile'
    BY <1>9 DEF ByHandFile, Shape, OneByOneAlone, Busy, InMode, Settled, Marking, Writers, RunEnds, bounds
  <2> QED
    BY <2>1, <2>2, <2>3, <2>4, <2>5, <2>6, <2>7, <2>8, <2>9, <2>10
<1>10. ASSUME Exits \/ Crash
      PROVE  IInv'
  <2>0. /\ plan' = NoPlan /\ mode' = "sequential" /\ runner' = "idle" /\ batches' = <<>>
        /\ step' = [w \in Writers |-> "off"] /\ snap' = [w \in Writers |-> NoPlan]
        /\ queue' = <<>> /\ clean' = FALSE
        /\ UNCHANGED <<disk, tree, other>>
    BY <1>10 DEF Exits, Crash, Forgets
  <2>1. CopiesHonest'
    BY <2>0, NoPlanHonest, HonestExcept DEF CopiesHonest, Shape
  <2>2. Shape'
    <3>1. queue' \in Seq(Writers)
      BY <2>0
    <3>2. step' \in [Writers -> Steps] /\ DOMAIN snap' = Writers
      BY <2>0 DEF Steps
    <3> QED
      BY <2>0, <3>1, <3>2 DEF Shape
  <2>3. OneWriter'
    BY <2>0, QueueMoves DEF OneWriter, Writing, Queued, Shape, Writers, Busy, Settled, Marking
  <2>4. OneByOneAlone'
    <3>1. batches' \in Seq(SUBSET Workers) /\ Len(batches') = 0
      BY <2>0
    <3> QED
      BY <2>0, <3>1 DEF OneByOneAlone, Busy
  <2>5. Settled'
    BY <2>0 DEF Settled, Busy, Shape, Marking, OneByOneAlone, InMode, Queued, Writers
  <2>6. Marking'
    BY <2>0 DEF Marking, Busy, Shape, Settled, InMode, Queued, Writers, CopiesHonest, HonestIn
  <2>7. InMode'
    BY <2>0 DEF InMode, Queued, Shape, Marking, Settled, Busy
  <2>8. LastSnapshot'
    BY <2>0 DEF LastSnapshot, NoFuture, Pending, Writing, Queued, Unqueued, Shape, OneWriter, Settled, Marking, OneByOneAlone, InMode, Busy, Writers
  <2>9. LastFile'
    BY <2>0 DEF LastFile, NoFuture, Pending, Writing, Queued, Unqueued, Shape, Settled, Marking, OneByOneAlone, InMode, Busy, LastSnapshot, ByHandFile, Writers
  <2>10. ByHandFile'
    BY <2>0 DEF ByHandFile, Shape, OneByOneAlone, Busy, InMode, Settled, Marking, Writers
  <2> QED
    BY <2>1, <2>2, <2>3, <2>4, <2>5, <2>6, <2>7, <2>8, <2>9, <2>10
<1>11. ASSUME OtherMoves
      PROVE  IInv'
  <2>1. CopiesHonest'
    <3>1. ASSUME NEW w \in Workers, Loads("apply", w) \/ Loads("discard", w) PROVE CopiesHonest'
      BY <3>1 DEF Loads, CopiesHonest, driver
    <3>2. CASE GitApplies
      BY <3>2, HonestGrows DEF GitApplies, CopiesHonest, driver
    <3>3. CASE ApplyRefused \/ OtherDies
      BY <3>3, NoPlanHonest DEF ApplyRefused, OtherDies, NoOne, CopiesHonest, driver
    <3>4. CASE ApplySaves
      BY <3>4, NoPlanHonest, HonestExcept DEF ApplySaves, OtherSaves, NoOne, CopiesHonest, driver
    <3>5. CASE DiscardSaves
      BY <3>5, NoPlanHonest, HonestExcept DEF DiscardSaves, OtherSaves, NoOne, CopiesHonest, driver
    <3> QED
      BY <1>11, <3>1, <3>2, <3>3, <3>4, <3>5 DEF OtherMoves, ApplyLoads, DiscardLoads
  <2>2. Shape'
    BY <1>11 DEF Shape, Steps, Queued, Unqueued, Writers, OneWriter, OtherMoves, Loads, OtherSaves, ApplyLoads, GitApplies, ApplyRefused, ApplySaves, DiscardLoads, DiscardSaves, OtherDies, driver, bounds
  <2>3. OneWriter'
    BY <1>11 DEF OneWriter, Writing, Queued, Shape, Writers, Busy, Settled, Marking, OtherMoves, Loads, OtherSaves, ApplyLoads, GitApplies, ApplyRefused, ApplySaves, DiscardLoads, DiscardSaves, OtherDies, driver, bounds
  <2>4. OneByOneAlone'
    BY <1>11 DEF OneByOneAlone, Busy, Shape, Settled, Marking, Writers, OtherMoves, Loads, OtherSaves, ApplyLoads, GitApplies, ApplyRefused, ApplySaves, DiscardLoads, DiscardSaves, OtherDies, driver, bounds
  <2>5. Settled'
    BY <1>11 DEF Settled, Busy, Shape, Marking, OneByOneAlone, InMode, Queued, Writers, OtherMoves, Loads, OtherSaves, ApplyLoads, GitApplies, ApplyRefused, ApplySaves, DiscardLoads, DiscardSaves, OtherDies, driver, bounds
  <2>6. Marking'
    BY <1>11 DEF Marking, Busy, Shape, Settled, InMode, Queued, Writers, CopiesHonest, HonestIn, OtherMoves, Loads, OtherSaves, ApplyLoads, GitApplies, ApplyRefused, ApplySaves, DiscardLoads, DiscardSaves, OtherDies, driver, bounds
  <2>7. InMode'
    BY <1>11 DEF InMode, Queued, Shape, Marking, Settled, Busy, OtherMoves, Loads, OtherSaves, ApplyLoads, GitApplies, ApplyRefused, ApplySaves, DiscardLoads, DiscardSaves, OtherDies, driver, bounds
  <2>8. LastSnapshot'
    BY <1>11 DEF LastSnapshot, NoFuture, Pending, Writing, Queued, Unqueued, Shape, OneWriter, Settled, Marking, OneByOneAlone, InMode, Busy, Writers, OtherMoves, Loads, OtherSaves, ApplyLoads, GitApplies, ApplyRefused, ApplySaves, DiscardLoads, DiscardSaves, OtherDies, driver, bounds
  <2>9. LastFile'
    BY <1>11 DEF LastFile, NoFuture, Pending, Writing, Queued, Unqueued, Shape, Settled, Marking, OneByOneAlone, InMode, Busy, LastSnapshot, ByHandFile, Writers, OtherMoves, Loads, OtherSaves, ApplyLoads, GitApplies, ApplyRefused, ApplySaves, DiscardLoads, DiscardSaves, OtherDies, driver, bounds
  <2>10. ByHandFile'
    BY <1>11 DEF ByHandFile, Shape, OneByOneAlone, Busy, InMode, Settled, Marking, Writers, OtherMoves, Loads, OtherSaves, ApplyLoads, GitApplies, ApplyRefused, ApplySaves, DiscardLoads, DiscardSaves, OtherDies, driver, bounds
  <2> QED
    BY <2>1, <2>2, <2>3, <2>4, <2>5, <2>6, <2>7, <2>8, <2>9, <2>10
<1>12. ASSUME UNCHANGED vars
      PROVE  IInv'
  <2>1. CopiesHonest'
    BY <1>12 DEF CopiesHonest, Shape, vars, driver, bounds
  <2>2. Shape'
    BY <1>12 DEF Shape, Steps, Queued, Unqueued, Writers, OneWriter, vars, driver, bounds
  <2>3. OneWriter'
    BY <1>12 DEF OneWriter, Writing, Queued, Shape, Writers, Busy, Settled, Marking, vars, driver, bounds
  <2>4. OneByOneAlone'
    BY <1>12 DEF OneByOneAlone, Busy, Shape, Settled, Marking, Writers, vars, driver, bounds
  <2>5. Settled'
    BY <1>12 DEF Settled, Busy, Shape, Marking, OneByOneAlone, InMode, Queued, Writers, vars, driver, bounds
  <2>6. Marking'
    BY <1>12 DEF Marking, Busy, Shape, Settled, InMode, Queued, Writers, CopiesHonest, HonestIn, vars, driver, bounds
  <2>7. InMode'
    BY <1>12 DEF InMode, Queued, Shape, Marking, Settled, Busy, vars, driver, bounds
  <2>8. LastSnapshot'
    BY <1>12 DEF LastSnapshot, NoFuture, Pending, Writing, Queued, Unqueued, Shape, OneWriter, Settled, Marking, OneByOneAlone, InMode, Busy, Writers, vars, driver, bounds
  <2>9. LastFile'
    BY <1>12 DEF LastFile, NoFuture, Pending, Writing, Queued, Unqueued, Shape, Settled, Marking, OneByOneAlone, InMode, Busy, LastSnapshot, ByHandFile, Writers, vars, driver, bounds
  <2>10. ByHandFile'
    BY <1>12 DEF ByHandFile, Shape, OneByOneAlone, Busy, InMode, Settled, Marking, Writers, vars, driver, bounds
  <2> QED
    BY <2>1, <2>2, <2>3, <2>4, <2>5, <2>6, <2>7, <2>8, <2>9, <2>10
<1> QED
  BY <1>1, <1>2, <1>3, <1>4, <1>5, <1>6, <1>7, <1>8, <1>9, <1>10, <1>11, <1>12 DEF Next, Progress, Starting, OtherMoves, Idle

LEMMA Invariance == Spec => []IInv
<1> QED
  BY InitHolds, StepHolds, PTL DEF Spec

\* No copy of the plan says that a worker is applied whose patch is not in the
\* real tree, for every plan, every number of workers and any saves, crashes
\* and lost updates of two processes (applyWorker marks a worker last).
THEOREM AppliedInTree == Spec => []AppliedIsInTree
<1>1. ASSUME IInv PROVE AppliedIsInTree
  <2> SUFFICES ASSUME NEW p \in {disk, plan, other.plan} \cup Range(snap),
                      NEW w \in DOMAIN p, p[w] = "applied"
               PROVE  w \in tree
    BY DEF AppliedIsInTree
  <2>1. ASSUME p \in Range(snap) PROVE HonestIn(p, tree)
    BY <1>1, <2>1 DEF IInv, Range, CopiesHonest, Shape
  <2>2. HonestIn(p, tree)
    BY <1>1, <2>1 DEF IInv, CopiesHonest
  <2> QED
    BY <2>2 DEF HonestIn
<1> QED
  BY <1>1, Invariance, PTL

\* When a run ends and it wrote plan.json last, the file is the plan in memory,
\* however its queued and unqueued saves interleaved and whichever failed
\* (PlanSaveQueue.enqueue, runWorker's two savePlan calls).
THEOREM RunLeavesItsPlan == Spec => []RunIsSaved
<1>1. ASSUME IInv PROVE RunIsSaved
  <2> SUFFICES ASSUME runner = "done", clean PROVE disk = plan
    BY DEF RunIsSaved
  <2>1. \A w \in Writers : ~Busy(w)
    BY <1>1 DEF IInv, Settled
  <2>2. NoFuture /\ \A w \in Writers : ~Writing(w)
    BY <2>1 DEF NoFuture, Pending, Writing, Busy, Unqueued
  <2> QED
    BY <1>1, <2>2 DEF IInv, LastFile
<1> QED
  BY <1>1, Invariance, PTL

-----------------------------------------------------------------------------
(* PlanSound and ConflictsSound.  Their inductive invariant, on top of the  *)
(* first one: nobody saves twice at a time (NoneTwice), a runner at rest    *)
(* has no worker (AtRest), every worker that runs or is still to run has    *)
(* its dependencies in the tree (Ready) and room in its batch (Packing),    *)
(* and results of closed batches share no file (Marks).                     *)

Inside == {w \in Writers : step[w] \in Queued}
Open == IF runner = "batch" THEN Batch ELSE {}

NoneTwice == \A i, j \in 1 .. Len(queue) : queue[i] = queue[j] => i = j

AtRest ==
    /\ other.op # "none" => other.worker # Main
    /\ step[Main] \in {"off", "queued", "writing", "lost"}
    /\ runner = "idle" => recorded = {} /\ \A w \in Writers : step[w] = "off"
    /\ Batch \cup recorded \subseteq DOMAIN plan

ReadyToRun(S) == \A w \in S : DependsOn[w] \subseteq tree

Ready ==
    mode # "byHand" => ReadyToRun(Batch) /\ \A i \in DOMAIN batches : ReadyToRun(batches[i])

Packed(S) ==
    /\ Cardinality(S) <= MaxConcurrency
    /\ \A v, w \in S : v # w => WorkerLockSet(v) \cap WorkerLockSet(w) = {}

Packing == Packed(Batch) /\ \A i \in DOMAIN batches : Packed(batches[i])

Apart(S) ==
    \A v \in recorded \ S, w \in DOMAIN plan \ S :
        v # w /\ plan[v] = "passed" /\ plan[w] = "passed" => run[v].files \cap run[w].files = {}

Marks ==
    mode = "parallel" /\ ~saveFailed =>
        /\ Apart(Open)
        /\ \A w \in Workers : step[w] # "lost" /\ (step[w] = "done" => w \in recorded)

JInv == TypeOK /\ NoneTwice /\ AtRest /\ Ready /\ Packing /\ Marks

-----------------------------------------------------------------------------
(* The greedy placement of buildRunnableBatches.                            *)

LEMMA WorkersFinite == IsFiniteSet(Workers) /\ Main \in Writers
<1>1. Order \in [1 .. Len(Order) -> Workers] /\ Len(Order) \in Nat
  OBVIOUS
<1>2. \A w \in Workers : \E i \in 1 .. Len(Order) : Order[i] = w
  BY <1>1 DEF Range
<1>3. Order \in Surjection(1 .. Len(Order), Workers)
  BY <1>1, <1>2 DEF Surjection
<1>4. IsFiniteSet(1 .. Len(Order))
  BY <1>1, FS_Interval
<1> QED
  BY <1>3, <1>4, FS_Surjection DEF Writers

\* The well-founded order on the naturals, as a least element of any set of them.
LEMMA Least ==
  ASSUME NEW T \in SUBSET Nat, T # {}
  PROVE  \E m \in T : \A k \in T : m <= k
<1> DEFINE R == {ss \in Nat \X Nat : ss[1] < ss[2]}
<1>1. IsWellFoundedOn(R, Nat)
  BY NatLessThanWellFounded, Zenon DEF OpToRel
<1> HIDE DEF R
<1>2. PICK m \in T : \A k \in T : ~(<<k, m>> \in R)
  BY <1>1, WFMin
<1>3. \A k \in T : ~(k < m)
  BY <1>2 DEF R
<1> QED
  BY <1>3

\* Of several workers one comes after the others in the order.
LEMMA LastOf ==
  ASSUME NEW S \in SUBSET Workers, S # {}
  PROVE  \E w \in S : \A v \in S \ {w} : Before(v, w)
<1> DEFINE T == {Len(Order) - i : i \in {j \in 1 .. Len(Order) : Order[j] \in S}}
<1>1. Len(Order) \in Nat /\ \A w \in Workers : \E i \in 1 .. Len(Order) : Order[i] = w
  BY DEF Range
<1>2. T \in SUBSET Nat /\ T # {}
  BY <1>1, SMTT(20)
<1>3. PICK m \in T : \A k \in T : m <= k
  BY <1>2, Least
<1>4. PICK i \in 1 .. Len(Order) : Order[i] \in S /\ m = Len(Order) - i
  BY <1>3
<1>5. ASSUME NEW v \in S \ {Order[i]} PROVE Before(v, Order[i])
  <2>1. PICK j \in 1 .. Len(Order) : Order[j] = v
    BY <1>1
  <2>2. Len(Order) - j \in T /\ m <= Len(Order) - j
    BY <1>3, <2>1
  <2>3. j < i
    BY <1>1, <1>4, <2>1, <2>2, SMTT(20)
  <2> QED
    BY <2>1, <2>3 DEF Before
<1> QED
  BY <1>4, <1>5

LEMMA SinglePacked == \A S : (\A v, w \in S : v = w) => Packed(S)
<1> SUFFICES ASSUME NEW S, \A v, w \in S : v = w PROVE Packed(S)
  OBVIOUS
<1>0. MaxConcurrency \in Nat \ {0}
  OBVIOUS
<1>1. CASE S = {}
  <2>1. Cardinality(S) = 0
    BY <1>1, FS_EmptySet
  <2> QED
    BY <1>0, <1>1, <2>1 DEF Packed
<1>2. CASE S # {}
  <2>1. PICK w \in S : TRUE
    BY <1>2
  <2>2. S = {w}
    BY <2>1
  <2>3. Cardinality(S) = 1
    BY <2>2, FS_Singleton
  <2> QED
    BY <1>0, <2>3 DEF Packed
<1> QED
  BY <1>1, <1>2

\* A subset of a packed set of workers is packed.
LEMMA PackedSubset ==
  ASSUME NEW S \in SUBSET Workers, Packed(S), NEW T \in SUBSET S
  PROVE  Packed(T)
<1>1. IsFiniteSet(S)
  BY WorkersFinite, FS_Subset
<1>2. Cardinality(T) <= Cardinality(S) /\ Cardinality(T) \in Nat /\ Cardinality(S) \in Nat
  BY <1>1, FS_Subset, FS_CardinalityType
<1> QED
  BY <1>2 DEF Packed

\* The workers of one batch of a first-fit placement are packed.
Members(slot, i) == {w \in DOMAIN slot : slot[w] = i}

LEMMA FirstFitPacks ==
  ASSUME NEW P \in SUBSET Workers, NEW slot \in [P -> DOMAIN Order], FirstFit(slot), NEW i
  PROVE  Packed(Members(slot, i))
<1> DEFINE S == {w \in P : slot[w] = i}
<1>0. Members(slot, i) = S
  BY DEF Members
<1>1. ASSUME NEW v \in S, NEW w \in S, Before(v, w)
      PROVE  WorkerLockSet(v) \cap WorkerLockSet(w) = {}
  <2>1. v \in Beside(slot, slot[w], w)
    BY <1>1 DEF Beside
  <2> QED
    BY <1>1, <2>1 DEF FirstFit, Fits
<1>2. ASSUME NEW v \in S, NEW w \in S, v # w
      PROVE  WorkerLockSet(v) \cap WorkerLockSet(w) = {}
  <2>0. {v, w} \in SUBSET Workers /\ {v, w} # {}
    OBVIOUS
  <2>1. PICK a \in {v, w} : \A b \in {v, w} \ {a} : Before(b, a)
    BY <2>0, LastOf
  <2>2. Before(v, w) \/ Before(w, v)
    BY <1>2, <2>1
  <2> QED
    BY <1>1, <2>2
<1>3. Cardinality(S) <= MaxConcurrency
  <2>1. CASE S = {}
    <3> HIDE DEF S
    <3>1. Cardinality(S) = 0 /\ MaxConcurrency \in Nat
      BY <2>1, FS_EmptySet
    <3> QED
      BY <3>1
  <2>2. CASE S # {}
    <3>1. PICK w \in S : \A v \in S \ {w} : Before(v, w)
      BY <2>2, LastOf
    <3>2. S \ {w} \subseteq Beside(slot, i, w) /\ Beside(slot, i, w) \subseteq Workers
      BY <3>1 DEF Beside
    <3>3. Cardinality(Beside(slot, i, w)) < MaxConcurrency
      BY <3>1 DEF FirstFit, Fits
    <3>4. IsFiniteSet(S) /\ IsFiniteSet(Beside(slot, i, w))
      BY <3>2, WorkersFinite, FS_Subset
    <3> HIDE DEF S
    <3>5. /\ Cardinality(S \ {w}) = Cardinality(S) - 1
          /\ Cardinality(S \ {w}) <= Cardinality(Beside(slot, i, w))
      <4>1. Cardinality(S \ {w}) = Cardinality(S) - 1
        BY <3>1, <3>4, FS_RemoveElement
      <4>2. S \ {w} \in SUBSET Beside(slot, i, w)
        BY <3>2
      <4> QED
        BY <3>4, <4>1, <4>2, FS_Subset
    <3>6. Cardinality(S) \in Nat /\ Cardinality(Beside(slot, i, w)) \in Nat
      BY <3>4, FS_CardinalityType
    <3> QED
      BY <3>3, <3>5, <3>6
  <2> QED
    BY <2>1, <2>2
<1> QED
  BY <1>0, <1>2, <1>3 DEF Packed

\* buildRunnableBatches: packed batches of runnable workers.
LEMMA Batched ==
  ASSUME NEW p \in Plans, NEW bs \in BuildRunnableBatches(p)
  PROVE  /\ bs \in Seq(SUBSET Workers)
         /\ \A i \in DOMAIN bs : bs[i] \subseteq RunnableWorkers(p) /\ Packed(bs[i])
<1>1. RunnableWorkers(p) \in SUBSET Workers
  BY DEF RunnableWorkers, Plans
<1>2. PICK slot \in [RunnableWorkers(p) -> DOMAIN Order] :
        FirstFit(slot) /\ bs = [i \in 1 .. Cardinality(Range(slot)) |-> Members(slot, i)]
  BY DEF BuildRunnableBatches, Members
<1>3. Cardinality(Range(slot)) \in Nat
  <2>1. Range(slot) \subseteq 1 .. Len(Order) /\ Len(Order) \in Nat
    BY DEF Range
  <2>2. IsFiniteSet(1 .. Len(Order))
    BY <2>1, FS_Interval
  <2>3. IsFiniteSet(Range(slot))
    BY <2>1, <2>2, FS_Subset
  <2> QED
    BY <2>3, FS_CardinalityType
<1>4. ASSUME NEW i \in 1 .. Cardinality(Range(slot))
      PROVE  Members(slot, i) \subseteq RunnableWorkers(p) /\ Packed(Members(slot, i))
  <2>1. Members(slot, i) \subseteq RunnableWorkers(p)
    BY DEF Members
  <2>2. Packed(Members(slot, i))
    BY <1>1, <1>2, FirstFitPacks
  <2> QED
    BY <2>1, <2>2
<1>5. bs \in Seq(SUBSET Workers)
  <2>1. \A i \in 1 .. Cardinality(Range(slot)) : Members(slot, i) \in SUBSET Workers
    BY <1>1, <1>4
  <2> QED
    BY <1>2, <1>3, <2>1
<1> QED
  BY <1>2, <1>4, <1>5

\* What the program does to a plan leaves a plan of the same workers: it sets the status
\* of one worker, or of several.
LEMMA PlanKept ==
  ASSUME NEW p \in Plans, NEW q, NEW s \in Status,
         \/ \E w : q = [p EXCEPT ![w] = s]
         \/ /\ DOMAIN q = DOMAIN p /\ q = [w \in DOMAIN q |-> q[w]]
            /\ \A w \in DOMAIN p : q[w] \in {s, p[w]}
  PROVE  q \in Plans /\ DOMAIN q = DOMAIN p /\ DOMAIN p \subseteq Workers
<1>1. PICK W \in SUBSET Workers : p \in [W -> Status]
  BY DEF Plans
<1>2. q \in [W -> Status]
  BY <1>1
<1> QED
  BY <1>1, <1>2 DEF Plans

LEMMA EmptyPlan == NoPlan \in Plans /\ DOMAIN NoPlan = {}
<1>1. NoPlan \in [{} -> Status]
  BY DEF NoPlan
<1> QED
  BY <1>1 DEF Plans

\* A run starts with batches that may run and fit.
LaunchesWith(m, p, bs) ==
    /\ Starts(m, p, bs)
    /\ m \in {"sequential", "parallel", "byHand"}
    /\ p \in Plans /\ bs \in Seq(SUBSET Workers)
    /\ \A i \in DOMAIN bs : Packed(bs[i]) /\ (m # "byHand" => ReadyToRun(bs[i]))

LEMMA RunnableAreReady ==
  ASSUME NEW p \in Plans, HonestIn(p, tree), Closed(p)
  PROVE  ReadyToRun(RunnableWorkers(p))
BY DEF ReadyToRun, RunnableWorkers, HonestIn, Closed, Plans

LEMMA OneByOneLaunches ==
  ASSUME NEW p \in Plans, HonestIn(p, tree), Closed(p)
  PROVE  /\ OneByOne(p) \in Seq(SUBSET Workers)
         /\ \A i \in DOMAIN OneByOne(p) : Packed(OneByOne(p)[i]) /\ ReadyToRun(OneByOne(p)[i])
<1>1. OneByOne(p) \in Seq(SUBSET Workers) /\ DOMAIN OneByOne(p) = DOMAIN Order
  BY DEF OneByOne
<1>2. ASSUME NEW i \in DOMAIN Order PROVE Packed(OneByOne(p)[i]) /\ ReadyToRun(OneByOne(p)[i])
  <2>1. OneByOne(p)[i] = {Order[i]} \cap RunnableWorkers(p)
    BY DEF OneByOne
  <2>2. Packed(OneByOne(p)[i])
    BY <2>1, SinglePacked
  <2> QED
    BY <2>1, <2>2, RunnableAreReady DEF ReadyToRun
<1> QED
  BY <1>1, <1>2

LEMMA StartLaunches == IInv /\ JInv /\ Starting => \E m, p, bs : LaunchesWith(m, p, bs)
<1> SUFFICES ASSUME IInv, JInv, Starting PROVE \E m, p, bs : LaunchesWith(m, p, bs)
  OBVIOUS
<1>1. HonestIn(disk, tree) /\ disk \in Plans
  BY DEF IInv, CopiesHonest, JInv, TypeOK
<1>2. ASSUME RunAll PROVE \E m, p, bs : LaunchesWith(m, p, bs)
  <2>1. CASE Starts("sequential", disk, OneByOne(disk))
    <3>1. LaunchesWith("sequential", disk, OneByOne(disk))
      BY <1>1, <1>2, <2>1, OneByOneLaunches DEF LaunchesWith, RunAll
    <3> QED
      BY <3>1
  <2>2. ASSUME NEW bs \in BuildRunnableBatches(disk), Starts("parallel", disk, bs)
        PROVE  \E m, p, cs : LaunchesWith(m, p, cs)
    <3>1. ReadyToRun(RunnableWorkers(disk))
      BY <1>1, <1>2, RunnableAreReady DEF RunAll
    <3>2. bs \in Seq(SUBSET Workers) /\ \A i \in DOMAIN bs : Packed(bs[i]) /\ ReadyToRun(bs[i])
      BY <1>1, <3>1, Batched DEF ReadyToRun
    <3>3. LaunchesWith("parallel", disk, bs)
      BY <1>1, <2>2, <3>2 DEF LaunchesWith
    <3> QED
      BY <3>3
  <2> QED
    BY <1>2, <2>1, <2>2 DEF RunAll
<1>3. ASSUME NEW w \in Workers, RunOneHeadless(w) PROVE \E m, p, bs : LaunchesWith(m, p, bs)
  <2> DEFINE view == [v \in {w} |-> disk[w]]
  <2>1. Starts("sequential", view, OneByOne(view)) /\ Closed(view) /\ w \in DOMAIN disk
    BY <1>3 DEF RunOneHeadless
  <2>2. HonestIn(view, tree)
    BY <1>1, <2>1 DEF HonestIn
  <2>3. view \in Plans
    <3>1. disk[w] \in Status
      BY <1>1, <2>1 DEF Plans
    <3>2. view \in [{w} -> Status] /\ {w} \in SUBSET Workers
      BY <3>1
    <3> QED
      BY <3>2 DEF Plans
  <2> HIDE DEF view
  <2>4. LaunchesWith("sequential", view, OneByOne(view))
    BY <2>1, <2>2, <2>3, OneByOneLaunches DEF LaunchesWith
  <2> QED
    BY <2>4
<1>4. ASSUME NEW w \in Workers, RunOneByHand(w) PROVE \E m, p, bs : LaunchesWith(m, p, bs)
  <2>1. <<{w}>> \in Seq(SUBSET Workers) /\ DOMAIN <<{w}>> = {1} /\ <<{w}>>[1] = {w}
    OBVIOUS
  <2>2. LaunchesWith("byHand", disk, <<{w}>>)
    BY <1>1, <1>4, <2>1, SinglePacked DEF RunOneByHand, LaunchesWith
  <2> QED
    BY <2>2
<1> QED
  BY <1>2, <1>3, <1>4 DEF Starting

-----------------------------------------------------------------------------
(* Every step keeps PlanSound's and ConflictsSound's invariant, one conjunct *)
(* at a time.  The first invariant holds before and after the step.          *)

\* The plan in memory, the texts being written, the file and the other process's copy.
PlansTyped ==
    /\ disk \in Plans /\ plan \in Plans /\ snap \in [Writers -> Plans]
    /\ other \in [op : {"none", "apply", "applied", "discard"}, worker : Writers, plan : Plans]

LEMMA PlansHold == JInv /\ IInv /\ [Next]_vars => PlansTyped'
<1> SUFFICES ASSUME JInv, IInv, [Next]_vars PROVE PlansTyped'
  OBVIOUS
<1>0. PlansTyped
  BY DEF JInv, TypeOK, PlansTyped
<1> USE DEF PlansTyped
<1>s. {"failed", "passed", "running", "conflict", "applied", "discarded"} \subseteq Status
  BY DEF Status
<1>1. ASSUME Starting PROVE PlansTyped'
  <2>1. PICK m, p, bs : LaunchesWith(m, p, bs)
    BY <1>1, StartLaunches
  <2> QED
    BY <1>0, <2>1 DEF LaunchesWith, Starts
<1>2. ASSUME LaunchBatch PROVE PlansTyped'
  <2>1. /\ DOMAIN plan' = DOMAIN plan /\ plan' = [w \in DOMAIN plan' |-> plan'[w]]
        /\ \A w \in DOMAIN plan : plan'[w] \in {"running", plan[w]}
    BY <1>2 DEF LaunchBatch
  <2>3. plan' \in Plans
    BY <1>0, <1>s, <2>1, PlanKept
  <2>4. UNCHANGED <<disk, snap, other>>
    BY <1>2 DEF LaunchBatch
  <2> QED
    BY <1>0, <2>3, <2>4
<1>3. ASSUME NEW w \in Writers, SaveSnaps(w) PROVE PlansTyped'
  BY <1>0, <1>3 DEF SaveSnaps
<1>4. ASSUME NEW w \in Writers, Throws(w) PROVE plan' \in Plans
  <2>1. plan' = plan \/ \E v : plan' = [plan EXCEPT ![v] = "failed"]
    BY <1>4 DEF Throws
  <2>2. ASSUME NEW v, plan' = [plan EXCEPT ![v] = "failed"] PROVE plan' \in Plans
    BY <1>0, <1>s, <2>2, PlanKept
  <2> QED
    BY <1>0, <2>1, <2>2
<1>5. ASSUME NEW w \in Writers, SaveLands(w) PROVE PlansTyped'
  <2>1. disk' = snap[w] /\ snap' = [snap EXCEPT ![w] = NoPlan] /\ UNCHANGED other
    BY <1>5 DEF SaveLands
  <2>2. UNCHANGED plan
    BY <1>5 DEF SaveLands, Returns
  <2> QED
    BY <1>0, <2>1, <2>2, EmptyPlan
<1>6. ASSUME NEW w \in Writers, SaveFails(w) PROVE PlansTyped'
  <2>1. snap' = [snap EXCEPT ![w] = NoPlan] /\ UNCHANGED <<disk, other>>
    BY <1>6 DEF SaveFails
  <2>2. plan' \in Plans
    <3>1. CASE Throws(w)
      BY <1>4, <3>1
    <3>2. CASE QueuedSaveFails(w)
      <4>1. plan' = plan \/ \E v : plan' = [plan EXCEPT ![v] = "failed"]
        BY <3>2 DEF QueuedSaveFails
      <4> QED
        BY <1>0, <1>s, <4>1, PlanKept
    <3> QED
      BY <1>6, <3>1, <3>2 DEF SaveFails
  <2> QED
    BY <1>0, <2>1, <2>2, EmptyPlan
<1>7. ASSUME NEW w \in Workers, WorktreeFails(w) PROVE PlansTyped'
  BY <1>0, <1>4, <1>7 DEF WorktreeFails, Writers
<1>8. ASSUME NEW w \in Workers, NEW r \in Results(w), Solves(w, r) PROVE PlansTyped'
  <2>1. plan' \in Plans
    <3>1. PICK s \in {"failed", "passed"} : plan' = [plan EXCEPT ![w] = s]
      BY <1>8 DEF Solves
    <3> QED
      BY <1>0, <1>s, <3>1, PlanKept
  <2> QED
    BY <1>0, <1>8, <2>1 DEF Solves
<1>9. ASSUME SettleBatch PROVE PlansTyped'
  <2>1. plan' \in Plans
    <3>1. \/ plan' = plan
          \/ /\ DOMAIN plan' = DOMAIN plan /\ plan' = [w \in DOMAIN plan' |-> plan'[w]]
             /\ \A w \in DOMAIN plan : plan'[w] \in {"conflict", plan[w]}
      BY <1>9 DEF SettleBatch
    <3> QED
      BY <1>0, <1>s, <3>1, PlanKept
  <2> QED
    BY <1>0, <1>9, <2>1 DEF SettleBatch
<1>10. ASSUME RunEnds PROVE PlansTyped'
  BY <1>0, <1>10 DEF RunEnds
<1>11. ASSUME Exits \/ Crash PROVE PlansTyped'
  BY <1>0, <1>11, EmptyPlan DEF Exits, Crash, Forgets
<1>12. ASSUME OtherMoves PROVE PlansTyped'
  <2>0. UNCHANGED <<plan, snap>>
    BY <1>12 DEF OtherMoves, ApplyLoads, DiscardLoads, Loads, GitApplies, ApplyRefused, ApplySaves, DiscardSaves, OtherSaves, OtherDies, driver
  <2>n. NoOne \in [op : {"none", "apply", "applied", "discard"}, worker : Writers, plan : Plans]
    BY EmptyPlan, WorkersFinite DEF NoOne
  <2>1. ASSUME NEW w \in Workers, Loads("apply", w) \/ Loads("discard", w) PROVE PlansTyped'
    BY <1>0, <2>0, <2>1 DEF Loads, Writers
  <2>2. CASE GitApplies
    BY <1>0, <2>0, <2>2 DEF GitApplies
  <2>3. CASE ApplyRefused \/ OtherDies
    BY <1>0, <2>0, <2>3, <2>n DEF ApplyRefused, OtherDies
  <2>4. CASE ApplySaves \/ DiscardSaves
    <3>1. disk' \in Plans /\ other' = NoOne
      <4>1. \E v, s : s \in {"applied", "discarded"} /\ disk' = [other.plan EXCEPT ![v] = s]
        BY <2>4 DEF ApplySaves, DiscardSaves, OtherSaves
      <4>2. other.plan \in Plans
        BY <1>0
      <4>3. disk' \in Plans
        BY <1>s, <4>1, <4>2, PlanKept
      <4> QED
        BY <2>4, <4>3 DEF ApplySaves, DiscardSaves, OtherSaves
    <3> QED
      BY <1>0, <2>0, <2>n, <3>1
  <2> QED
    BY <1>12, <2>1, <2>2, <2>3, <2>4 DEF OtherMoves, ApplyLoads, DiscardLoads
<1>13. CASE UNCHANGED vars
  BY <1>0, <1>13 DEF vars, driver
<1> QED
  BY <1>1, <1>2, <1>3, <1>5, <1>6, <1>7, <1>8, <1>9, <1>10, <1>11, <1>12, <1>13
     DEF Next, Progress, Starting, OtherMoves, Idle

\* What the driver and the workers keep beside their plans.
RestTyped ==
    /\ batches \in Seq(SUBSET Workers)
    /\ recorded \subseteq Workers
    /\ run \in [Workers -> [passed : BOOLEAN, files : SUBSET Files]]
    /\ tree \subseteq Workers
    /\ saveFailed \in BOOLEAN

LEMMA RestHolds == JInv /\ IInv /\ [Next]_vars => RestTyped'
<1> SUFFICES ASSUME JInv, IInv, [Next]_vars PROVE RestTyped'
  OBVIOUS
<1>0. RestTyped
  BY DEF JInv, TypeOK, RestTyped
<1> USE DEF RestTyped
<1>1. ASSUME Starting PROVE RestTyped'
  <2>1. PICK m, p, bs : LaunchesWith(m, p, bs)
    BY <1>1, StartLaunches
  <2> QED
    BY <1>0, <2>1 DEF LaunchesWith, Starts
<1>2. ASSUME LaunchBatch PROVE RestTyped'
  BY <1>0, <1>2 DEF LaunchBatch
<1>3. ASSUME NEW w \in Writers, SaveSnaps(w) PROVE RestTyped'
  BY <1>0, <1>3 DEF SaveSnaps
<1>4. ASSUME NEW w \in Writers, Throws(w) \/ QueuedSaveFails(w) PROVE recorded' = recorded
  BY <1>4 DEF Throws, QueuedSaveFails, Ends
<1>5. ASSUME NEW w \in Writers, SaveLands(w) PROVE RestTyped'
  <2>1. recorded' = recorded \/ (w # Main /\ recorded' = recorded \cup {w})
    BY <1>5 DEF SaveLands, Returns, Ends, JInv, AtRest
  <2>2. UNCHANGED <<batches, run, tree, saveFailed>>
    BY <1>5 DEF SaveLands
  <2> QED
    BY <1>0, <2>1, <2>2 DEF Writers
<1>6. ASSUME NEW w \in Writers, SaveFails(w) PROVE RestTyped'
  BY <1>0, <1>4, <1>6 DEF SaveFails
<1>7. ASSUME NEW w \in Workers, WorktreeFails(w) PROVE RestTyped'
  BY <1>0, <1>4, <1>7 DEF WorktreeFails, Writers
<1>8. ASSUME NEW w \in Workers, NEW r \in Results(w), Solves(w, r) PROVE RestTyped'
  <2>1. r \in [passed : BOOLEAN, files : SUBSET Files]
    <3>1. Patches[w] \subseteq SUBSET Files
      OBVIOUS
    <3>2. CASE r = NoRun
      BY <3>2 DEF NoRun
    <3>3. CASE r \in [passed : {TRUE}, files : Patches[w]]
      BY <3>1, <3>3
    <3> QED
      BY <1>8, <3>2, <3>3 DEF Results
  <2> QED
    BY <1>0, <1>8, <2>1 DEF Solves
<1>9. ASSUME SettleBatch \/ RunEnds PROVE RestTyped'
  BY <1>0, <1>9 DEF SettleBatch, RunEnds
<1>10. ASSUME Exits \/ Crash PROVE RestTyped'
  <2>1. batches' = <<>> /\ recorded' = {} /\ saveFailed' = FALSE /\ UNCHANGED <<run, tree>>
    BY <1>10 DEF Exits, Crash, Forgets
  <2>2. batches' \in Seq(SUBSET Workers)
    BY <2>1
  <2> QED
    BY <1>0, <2>1, <2>2
<1>11. ASSUME OtherMoves PROVE RestTyped'
  <2>1. UNCHANGED <<batches, recorded, run, saveFailed>>
    BY <1>11 DEF OtherMoves, ApplyLoads, DiscardLoads, Loads, GitApplies, ApplyRefused, ApplySaves, DiscardSaves, OtherSaves, OtherDies, driver
  <2>2. tree' = tree \/ (tree' = tree \cup {other.worker} /\ other.worker # Main)
    BY <1>11 DEF OtherMoves, ApplyLoads, DiscardLoads, Loads, GitApplies, ApplyRefused, ApplySaves, DiscardSaves, OtherSaves, OtherDies, JInv, AtRest
  <2> QED
    BY <1>0, <2>1, <2>2 DEF JInv, TypeOK, Writers
<1>12. CASE UNCHANGED vars
  BY <1>0, <1>12 DEF vars, driver
<1> QED
  BY <1>1, <1>2, <1>3, <1>5, <1>6, <1>7, <1>8, <1>9, <1>10, <1>11, <1>12
     DEF Next, Progress, Starting, OtherMoves, Idle

\* The steps of one promise, or of the driver's own save, move that writer alone; they
\* start no worker, and plan no other.
WriterMoves(w) ==
    \/ SaveSnaps(w) \/ SaveLands(w) \/ SaveFails(w)
    \/ w \in Workers /\ (WorktreeFails(w) \/ \E r \in Results(w) : Solves(w, r))

MovesAlone(w) ==
    /\ step[w] # "off" /\ (w # Main => step'[w] # "off")
    /\ step' = [step EXCEPT ![w] = step'[w]]
    /\ step'[Main] \in {"off", "queued", "writing", "lost"}
    /\ UNCHANGED <<mode, batches, tree, other>>
    /\ DOMAIN plan' = DOMAIN plan
    /\ recorded' = recorded \/ (w # Main /\ recorded' = recorded \cup {w})
    /\ runner # "idle" /\ runner' # "idle"

LEMMA Alone ==
  ASSUME IInv, JInv, NEW w \in Writers, WriterMoves(w)
  PROVE  MovesAlone(w)
<1>0. /\ step \in [Writers -> Steps] /\ Main \in Writers
      /\ step[Main] \in {"off", "queued", "writing", "lost"}
      /\ runner = "idle" => step[w] = "off"
      /\ Busy(Main) => mode = "parallel"
      /\ \A v, s : DOMAIN [plan EXCEPT ![v] = s] = DOMAIN plan
  BY WorkersFinite DEF IInv, Shape, JInv, AtRest, Marking
<1> USE DEF MovesAlone
<1>1. CASE SaveSnaps(w)
  <2>1. /\ DOMAIN AfterSnap = {"opening", "closing", "queued", "caught"}
        /\ AfterSnap["opening"] = "opened" /\ AfterSnap["closing"] = "closed"
        /\ AfterSnap["queued"] = "writing" /\ AfterSnap["caught"] = "rewriting"
    BY DEF AfterSnap
  <2>2. /\ step[w] \in {"opening", "closing", "queued", "caught"}
        /\ step' = [step EXCEPT ![w] = AfterSnap[step[w]]]
        /\ UNCHANGED <<mode, batches, tree, other, plan, recorded, runner>>
    BY <1>1, <2>1 DEF SaveSnaps, Turn
  <2> QED
    BY <1>0, <2>1, <2>2
<1>2. ASSUME Throws(w), step[w] \in {"opened", "closed", "working"}, UNCHANGED <<mode, batches, tree, other>>
      PROVE  MovesAlone(w)
  BY <1>0, <1>2 DEF Throws, Ends
<1>3. CASE SaveLands(w)
  <2>1. UNCHANGED <<mode, batches, tree, other, plan>>
    BY <1>3 DEF SaveLands, Returns
  <2>2. CASE step[w] = "opened"
    BY <1>0, <1>3, <2>1, <2>2 DEF SaveLands
  <2>3. CASE step[w] = "closed"
    BY <1>0, <1>3, <2>1, <2>3 DEF SaveLands, Returns, Ends
  <2>4. CASE step[w] \in {"writing", "rewriting"}
    BY <1>0, <1>3, <2>1, <2>4 DEF SaveLands, Ends
  <2> QED
    BY <1>3, <2>2, <2>3, <2>4 DEF SaveLands
<1>4. CASE SaveFails(w)
  <2>1. UNCHANGED <<mode, batches, tree, other>>
    BY <1>4 DEF SaveFails
  <2>2. CASE step[w] \in {"opened", "closed"} /\ Throws(w)
    BY <1>2, <2>1, <2>2
  <2>3. CASE step[w] \in {"writing", "rewriting"} /\ QueuedSaveFails(w)
    <3>1. w = Main => mode = "parallel" /\ step[w] = "writing"
      BY <1>0, <2>3 DEF Busy
    <3> QED
      BY <1>0, <2>1, <2>3, <3>1 DEF QueuedSaveFails, Ends
  <2> QED
    BY <1>4, <2>2, <2>3 DEF SaveFails
<1>5. CASE w \in Workers /\ WorktreeFails(w)
  BY <1>2, <1>5 DEF WorktreeFails
<1>6. ASSUME w \in Workers, NEW r \in Results(w), Solves(w, r) PROVE MovesAlone(w)
  BY <1>0, <1>6 DEF Solves
<1> QED
  BY <1>1, <1>3, <1>4, <1>5, <1>6 DEF WriterMoves

LEMMA SameBatch ==
  ASSUME IInv, JInv, NEW w \in Writers, WriterMoves(w)
  PROVE  Batch' = Batch
<1>1. MovesAlone(w) /\ step \in [Writers -> Steps]
  BY Alone DEF IInv, Shape
<1>2. \A v \in Workers : step'[v] # "off" <=> step[v] # "off"
  BY <1>1, DelegationAssumption DEF MovesAlone, Writers
<1> QED
  BY <1>2 DEF Batch

LEMMA RestingHolds == JInv /\ IInv /\ [Next]_vars => AtRest'
<1> SUFFICES ASSUME JInv, IInv, [Next]_vars PROVE AtRest'
  OBVIOUS
<1>0. AtRest /\ step \in [Writers -> Steps] /\ DOMAIN plan \subseteq Workers
  BY DEF JInv, IInv, Shape, CopiesHonest, HonestIn
<1> USE DEF AtRest
<1>1. ASSUME Starting PROVE AtRest'
  <2>1. PICK m, p, bs : LaunchesWith(m, p, bs)
    BY <1>1, StartLaunches
  <2>2. Batch = {} /\ UNCHANGED <<other, step, recorded>> /\ recorded = {} /\ runner' = "between" /\ Batch' = Batch
    BY <1>0, <2>1 DEF LaunchesWith, Starts, Batch, Writers
  <2> QED
    BY <1>0, <2>2
<1>2. ASSUME LaunchBatch PROVE AtRest'
  <2>1. /\ Batch' \subseteq DOMAIN plan /\ DOMAIN plan' = DOMAIN plan
        /\ step'[Main] = "off" /\ runner' = "batch" /\ UNCHANGED <<other, recorded>>
    BY <1>0, <1>2, WorkersFinite, DelegationAssumption DEF LaunchBatch, Batch, Writers
  <2> QED
    BY <1>0, <2>1
<1>3. ASSUME NEW w \in Writers, WriterMoves(w) PROVE AtRest'
  <2>1. MovesAlone(w) /\ Batch' = Batch
    BY <1>3, Alone, SameBatch
  <2>2. w # Main => w \in Batch
    BY <2>1 DEF MovesAlone, Batch, Writers
  <2> QED
    BY <1>0, <2>1, <2>2 DEF MovesAlone
<1>4. ASSUME SettleBatch PROVE AtRest'
  <2>1. Batch' = Batch
    BY <1>0, <1>4, DelegationAssumption DEF SettleBatch, Batch, Writers
  <2>2. DOMAIN plan' = DOMAIN plan /\ runner' # "idle" /\ UNCHANGED <<other, recorded>>
    BY <1>4 DEF SettleBatch
  <2>3. step'[Main] \in {"off", "queued", "writing", "lost"}
    BY <1>0, <1>4, WorkersFinite DEF SettleBatch
  <2> QED
    BY <1>0, <2>1, <2>2, <2>3
<1>5. ASSUME RunEnds PROVE AtRest'
  BY <1>0, <1>5 DEF RunEnds, Batch
<1>6. ASSUME Exits \/ Crash PROVE AtRest'
  <2>1. step' = [w \in Writers |-> "off"] /\ recorded' = {} /\ UNCHANGED other
    BY <1>6 DEF Exits, Crash, Forgets
  <2>2. Batch' = {}
    BY <2>1 DEF Batch, Writers
  <2> QED
    BY <1>0, <2>1, <2>2, WorkersFinite
<1>7. ASSUME OtherMoves PROVE AtRest'
  <2>1. UNCHANGED <<step, runner, recorded, plan>> /\ Batch' = Batch
    BY <1>7 DEF OtherMoves, ApplyLoads, DiscardLoads, Loads, GitApplies, ApplyRefused, ApplySaves, DiscardSaves, OtherSaves, OtherDies, driver, Batch
  <2>2. other'.op # "none" => other'.worker # Main
    BY <1>0, <1>7, DelegationAssumption DEF OtherMoves, ApplyLoads, DiscardLoads, Loads, GitApplies, ApplyRefused, ApplySaves, DiscardSaves, OtherSaves, OtherDies, NoOne, JInv, TypeOK
  <2> QED
    BY <1>0, <2>1, <2>2
<1>8. CASE UNCHANGED vars
  BY <1>0, <1>8 DEF vars, driver, Batch
<1> QED
  BY <1>1, <1>2, <1>3, <1>4, <1>5, <1>6, <1>7, <1>8
     DEF Next, Progress, Starting, OtherMoves, WriterMoves, Idle, Writers

\* q holds each writer of I once, and no other.
OneEach(q, I) ==
    /\ q \in Seq(Writers) /\ Range(q) = I /\ Len(q) = Cardinality(I)
    /\ \A i, j \in 1 .. Len(q) : q[i] = q[j] => i = j

LEMMA NobodyQueues == OneEach(<<>>, {})
<1>1. <<>> \in Seq(Writers) /\ Len(<<>>) = 0 /\ Range(<<>>) = {}
  BY DEF Range
<1> QED
  BY <1>1, FS_EmptySet DEF OneEach

LEMMA Joins ==
  ASSUME NEW q, NEW I \in SUBSET Writers, OneEach(q, I), NEW w \in Writers \ I
  PROVE  OneEach(Append(q, w), I \cup {w})
<1>1. /\ q \in Seq(Writers) /\ Len(q) \in Nat
      /\ Append(q, w) \in Seq(Writers) /\ Len(Append(q, w)) = Len(q) + 1
      /\ \A i \in 1 .. Len(q) + 1 : Append(q, w)[i] = IF i = Len(q) + 1 THEN w ELSE q[i]
      /\ DOMAIN q = 1 .. Len(q) /\ DOMAIN Append(q, w) = 1 .. Len(q) + 1
  BY DEF OneEach
<1>2. \A i \in 1 .. Len(q) : q[i] \in I
  BY <1>1 DEF OneEach, Range
<1>3. Range(Append(q, w)) = I \cup {w}
  <2>1. ASSUME NEW v \in I PROVE v \in Range(Append(q, w))
    <3>1. PICK i \in 1 .. Len(q) : q[i] = v
      BY <1>1 DEF OneEach, Range
    <3>2. i \in 1 .. Len(q) + 1 /\ Append(q, w)[i] = v
      BY <1>1, <3>1
    <3> QED
      BY <1>1, <3>2 DEF Range
  <2>2. w \in Range(Append(q, w))
    <3>1. Len(q) + 1 \in DOMAIN Append(q, w) /\ Append(q, w)[Len(q) + 1] = w
      BY <1>1
    <3> QED
      BY <3>1 DEF Range
  <2>3. ASSUME NEW v \in Range(Append(q, w)) PROVE v \in I \cup {w}
    BY <1>1, <1>2 DEF Range
  <2> QED
    BY <2>1, <2>2, <2>3
<1>4. \A i, j \in 1 .. Len(q) + 1 : Append(q, w)[i] = Append(q, w)[j] => i = j
  BY <1>1, <1>2 DEF OneEach
<1>5. IsFiniteSet(I)
  <2>1. IsFiniteSet(Writers)
    BY WorkersFinite, FS_AddElement DEF Writers
  <2> QED
    BY <2>1, FS_Subset
<1>6. Cardinality(I \cup {w}) = Cardinality(I) + 1
  BY <1>5, FS_AddElement
<1> QED
  BY <1>1, <1>3, <1>4, <1>6 DEF OneEach

LEMMA Leaves ==
  ASSUME NEW q, NEW I \in SUBSET Writers, OneEach(q, I), q # <<>>
  PROVE  OneEach(Tail(q), I \ {Head(q)})
<1>1. /\ q \in Seq(Writers) /\ Len(q) \in Nat \ {0}
      /\ Tail(q) \in Seq(Writers) /\ Len(Tail(q)) = Len(q) - 1
      /\ \A i \in 1 .. Len(q) - 1 : Tail(q)[i] = q[i + 1]
      /\ DOMAIN q = 1 .. Len(q) /\ DOMAIN Tail(q) = 1 .. Len(q) - 1
      /\ Head(q) = q[1]
  BY DEF OneEach
<1>2. \A i \in 1 .. Len(q) : q[i] \in I
  BY <1>1 DEF OneEach, Range
<1>3. Range(Tail(q)) = I \ {Head(q)}
  <2>1. ASSUME NEW v \in I \ {Head(q)} PROVE v \in Range(Tail(q))
    <3>1. PICK i \in 1 .. Len(q) : q[i] = v
      BY <1>1 DEF OneEach, Range
    <3>2. i - 1 \in 1 .. Len(q) - 1 /\ Tail(q)[i - 1] = v
      BY <1>1, <3>1
    <3> QED
      BY <1>1, <3>2 DEF Range
  <2>2. ASSUME NEW v \in Range(Tail(q)) PROVE v \in I \ {Head(q)}
    <3>1. PICK i \in 1 .. Len(q) - 1 : Tail(q)[i] = v
      BY <1>1, <2>2 DEF Range
    <3>2. i + 1 \in 1 .. Len(q) /\ 1 \in 1 .. Len(q) /\ q[i + 1] = v
      BY <1>1, <3>1
    <3>3. q[i + 1] # q[1]
      BY <1>1, <3>2 DEF OneEach
    <3> QED
      BY <1>1, <1>2, <3>2, <3>3
  <2> QED
    BY <2>1, <2>2
<1>4. \A i, j \in 1 .. Len(q) - 1 : Tail(q)[i] = Tail(q)[j] => i = j
  <2>1. ASSUME NEW i \in 1 .. Len(q) - 1, NEW j \in 1 .. Len(q) - 1, Tail(q)[i] = Tail(q)[j] PROVE i = j
    <3>1. i + 1 \in 1 .. Len(q) /\ j + 1 \in 1 .. Len(q) /\ q[i + 1] = q[j + 1]
      BY <1>1, <2>1
    <3>2. i + 1 = j + 1
      BY <3>1 DEF OneEach
    <3> QED
      BY <3>2
  <2> QED
    BY <2>1
<1>5. Head(q) \in I
  BY <1>1, <1>2
<1>6. IsFiniteSet(I)
  <2>1. IsFiniteSet(Writers)
    BY WorkersFinite, FS_AddElement DEF Writers
  <2> QED
    BY <2>1, FS_Subset
<1>7. Cardinality(I \ {Head(q)}) = Cardinality(I) - 1
  BY <1>5, <1>6, FS_RemoveElement
<1> QED
  BY <1>1, <1>3, <1>4, <1>7 DEF OneEach

LEMMA QueueIsInside ==
  ASSUME JInv
  PROVE  OneEach(queue, Inside)
BY DEF JInv, TypeOK, NoneTwice, Inside, OneEach

LEMMA QueueHolds == JInv /\ IInv /\ [Next]_vars => OneEach(queue, Inside)'
<1> SUFFICES ASSUME JInv, IInv, [Next]_vars PROVE OneEach(queue', Inside')
  OBVIOUS
<1>0. /\ OneEach(queue, Inside) /\ Inside \subseteq Writers
      /\ step \in [Writers -> Steps] /\ Main \in Writers
      /\ \A w \in Writers : step[w] \in {"writing", "rewriting"} => w = Head(queue) /\ queue # <<>>
  BY QueueIsInside, WorkersFinite DEF Inside, IInv, Shape, OneWriter, Writing, In, Queued
<1>1. CASE UNCHANGED queue /\ Inside' = Inside
  BY <1>0, <1>1
<1>2. ASSUME NEW w \in Writers, step[w] \notin Queued, step'[w] \in Queued,
             step' = [step EXCEPT ![w] = step'[w]], queue' = Append(queue, w)
      PROVE  OneEach(queue', Inside')
  <2>1. Inside' = Inside \cup {w} /\ w \notin Inside
    BY <1>0, <1>2 DEF Inside
  <2> QED
    BY <1>0, <1>2, <2>1, Joins
<1>3. ASSUME NEW w \in Writers, step[w] \in {"writing", "rewriting"}, step'[w] \notin Queued,
             step' = [step EXCEPT ![w] = step'[w]], queue' = Tail(queue)
      PROVE  OneEach(queue', Inside')
  <2>1. Inside' = Inside \ {w} /\ w = Head(queue)
    BY <1>0, <1>3 DEF Inside
  <2> QED
    BY <1>0, <1>3, <2>1, Leaves
<1>4. ASSUME NEW w \in Writers, step' = [step EXCEPT ![w] = step'[w]], UNCHANGED queue,
             step[w] \in Queued <=> step'[w] \in Queued
      PROVE  OneEach(queue', Inside')
  <2>1. Inside' = Inside
    BY <1>0, <1>4 DEF Inside
  <2> QED
    BY <1>1, <1>4, <2>1
<1>5. ASSUME Starting PROVE OneEach(queue', Inside')
  <2>1. PICK m, p, bs : LaunchesWith(m, p, bs)
    BY <1>5, StartLaunches
  <2> QED
    BY <1>1, <2>1 DEF LaunchesWith, Starts, Inside
<1>6. ASSUME LaunchBatch PROVE OneEach(queue', Inside')
  <2>1. Inside = {}
    BY <1>6 DEF LaunchBatch, IInv, Settled, Busy, Inside, Queued
  <2>2. Inside' = {}
    BY <1>6 DEF LaunchBatch, Inside, Queued
  <2> QED
    BY <1>1, <1>6, <2>1, <2>2 DEF LaunchBatch
<1>7. ASSUME NEW w \in Writers, SaveSnaps(w) PROVE OneEach(queue', Inside')
  <2>1. /\ DOMAIN AfterSnap = {"opening", "closing", "queued", "caught"}
        /\ AfterSnap["opening"] = "opened" /\ AfterSnap["closing"] = "closed"
        /\ AfterSnap["queued"] = "writing" /\ AfterSnap["caught"] = "rewriting"
    BY DEF AfterSnap
  <2>2. /\ step[w] \in {"opening", "closing", "queued", "caught"}
        /\ step' = [step EXCEPT ![w] = AfterSnap[step[w]]] /\ UNCHANGED queue
    BY <1>7, <2>1 DEF SaveSnaps, Turn
  <2>3. step' = [step EXCEPT ![w] = step'[w]] /\ (step[w] \in Queued <=> step'[w] \in Queued)
    BY <1>0, <2>1, <2>2 DEF Queued
  <2> QED
    BY <1>4, <2>2, <2>3
<1>8. ASSUME NEW w \in Writers, Throws(w), step[w] \in {"opened", "closed", "working"}
      PROVE  OneEach(queue', Inside')
  <2>1. CASE mode = "byHand"
    <3>1. step' = [step EXCEPT ![w] = "lost"] /\ UNCHANGED queue
      BY <1>8, <2>1 DEF Throws, Ends
    <3> QED
      BY <1>0, <1>4, <1>8, <3>1 DEF Queued
  <2>2. CASE mode # "byHand"
    <3>1. \E s \in {"queued", "caught"} : step' = [step EXCEPT ![w] = s]
      BY <1>8, <2>2 DEF Throws
    <3>2. queue' = Append(queue, w)
      BY <1>8, <2>2 DEF Throws
    <3> QED
      BY <1>0, <1>2, <1>8, <3>1, <3>2 DEF Queued
  <2> QED
    BY <2>1, <2>2
<1>9. ASSUME NEW w \in Writers, SaveLands(w) PROVE OneEach(queue', Inside')
  <2>1. \/ step[w] = "opened" /\ step' = [step EXCEPT ![w] = "working"] /\ UNCHANGED queue
        \/ step[w] = "closed" /\ step' = [step EXCEPT ![w] = "done"] /\ UNCHANGED queue
        \/ step[w] = "closed" /\ step' = [step EXCEPT ![w] = "queued"] /\ queue' = Append(queue, w)
        \/ /\ step[w] \in {"writing", "rewriting"} /\ queue' = Tail(queue)
           /\ \E s \in {"done", "off"} : step' = [step EXCEPT ![w] = s]
    BY <1>9 DEF SaveLands, Returns, Ends, Dequeue
  <2> QED
    BY <1>0, <1>2, <1>3, <1>4, <2>1 DEF Queued
<1>10. ASSUME NEW w \in Writers, SaveFails(w) PROVE OneEach(queue', Inside')
  <2>1. CASE step[w] \in {"opened", "closed"} /\ Throws(w)
    BY <1>8, <2>1
  <2>2. CASE step[w] \in {"writing", "rewriting"} /\ QueuedSaveFails(w)
    <3>1. \/ step' = [step EXCEPT ![w] = "lost"] /\ queue' = Tail(queue)
          \/ step[w] = "writing" /\ step' = [step EXCEPT ![w] = "caught"] /\ UNCHANGED queue
      BY <2>2 DEF QueuedSaveFails, Ends, Dequeue
    <3> QED
      BY <1>0, <1>3, <1>4, <2>2, <3>1 DEF Queued
  <2> QED
    BY <1>10, <2>1, <2>2 DEF SaveFails
<1>11. ASSUME NEW w \in Workers, WorktreeFails(w) PROVE OneEach(queue', Inside')
  BY <1>8, <1>11 DEF WorktreeFails, Writers
<1>12. ASSUME NEW w \in Workers, NEW r \in Results(w), Solves(w, r) PROVE OneEach(queue', Inside')
  <2>1. step[w] = "working" /\ step' = [step EXCEPT ![w] = "closing"] /\ UNCHANGED queue /\ w \in Writers
    BY <1>12 DEF Solves, Writers
  <2> QED
    BY <1>0, <1>4, <2>1 DEF Queued
<1>13. ASSUME SettleBatch PROVE OneEach(queue', Inside')
  <2>1. CASE UNCHANGED <<step, queue>>
    BY <1>1, <2>1 DEF Inside
  <2>2. CASE step' = [step EXCEPT ![Main] = "queued"] /\ queue' = Append(queue, Main)
    <3>1. ~Busy(Main)
      BY <1>13 DEF SettleBatch, IInv, Marking
    <3> QED
      BY <1>0, <1>2, <2>2, <3>1 DEF Busy, Queued
  <2> QED
    BY <1>13, <2>1, <2>2 DEF SettleBatch
<1>14. ASSUME RunEnds \/ OtherMoves \/ UNCHANGED vars PROVE OneEach(queue', Inside')
  <2>1. UNCHANGED <<step, queue>>
    BY <1>14 DEF RunEnds, OtherMoves, ApplyLoads, DiscardLoads, Loads, GitApplies, ApplyRefused, ApplySaves, DiscardSaves, OtherSaves, OtherDies, driver, vars
  <2> QED
    BY <1>1, <2>1 DEF Inside
<1>15. ASSUME Exits \/ Crash PROVE OneEach(queue', Inside')
  <2>1. queue' = <<>> /\ Inside' = {}
    BY <1>15 DEF Exits, Crash, Forgets, Inside, Queued
  <2> QED
    BY <2>1, NobodyQueues
<1> QED
  BY <1>5, <1>6, <1>7, <1>9, <1>10, <1>11, <1>12, <1>13, <1>14, <1>15
     DEF Next, Progress, Starting, OtherMoves, Idle

LEMMA ReadyHolds == JInv /\ IInv /\ [Next]_vars => Ready'
<1> SUFFICES ASSUME JInv, IInv, [Next]_vars PROVE Ready'
  OBVIOUS
<1>0. Ready /\ batches \in Seq(SUBSET Workers)
  BY DEF JInv, TypeOK
<1>1. ASSUME UNCHANGED <<mode, batches>>, Batch' \subseteq Batch, tree \subseteq tree' PROVE Ready'
  BY <1>0, <1>1 DEF Ready, ReadyToRun
<1>2. ASSUME Starting PROVE Ready'
  <2>1. PICK m, p, bs : LaunchesWith(m, p, bs)
    BY <1>2, StartLaunches
  <2>2. Batch' = {} /\ mode' = m /\ batches' = bs /\ UNCHANGED tree
    BY <2>1 DEF LaunchesWith, Starts, Batch, JInv, AtRest, Writers
  <2> QED
    BY <2>1, <2>2 DEF LaunchesWith, Ready, ReadyToRun
<1>3. ASSUME LaunchBatch PROVE Ready'
  <2>1. /\ batches # <<>> /\ batches' = Tail(batches) /\ UNCHANGED <<mode, tree>>
        /\ Batch' \subseteq Head(batches)
    BY <1>3 DEF LaunchBatch, Batch, Writers
  <2>2. /\ 1 \in DOMAIN batches /\ Head(batches) = batches[1]
        /\ \A i \in DOMAIN Tail(batches) : i + 1 \in DOMAIN batches /\ Tail(batches)[i] = batches[i + 1]
    BY <1>0, <2>1
  <2> QED
    BY <1>0, <2>1, <2>2 DEF Ready, ReadyToRun
<1>4. ASSUME NEW w \in Writers, WriterMoves(w) PROVE Ready'
  BY <1>1, <1>4, Alone, SameBatch DEF MovesAlone
<1>5. ASSUME SettleBatch PROVE Ready'
  <2>1. Batch' \subseteq Batch /\ UNCHANGED <<mode, batches, tree>>
    BY <1>5, DelegationAssumption DEF SettleBatch, Batch, Writers, IInv, Shape
  <2> QED
    BY <1>1, <2>1
<1>6. ASSUME Exits \/ Crash PROVE Ready'
  <2>1. batches' = <<>> /\ Batch' = {}
    BY <1>6 DEF Exits, Crash, Forgets, Batch, Writers
  <2> QED
    BY <2>1 DEF Ready, ReadyToRun
<1>7. ASSUME RunEnds \/ OtherMoves \/ UNCHANGED vars PROVE Ready'
  <2>1. UNCHANGED <<mode, batches, step>> /\ tree \subseteq tree'
    BY <1>7 DEF RunEnds, OtherMoves, ApplyLoads, DiscardLoads, Loads, GitApplies, ApplyRefused, ApplySaves, DiscardSaves, OtherSaves, OtherDies, driver, vars
  <2> QED
    BY <1>1, <2>1 DEF Batch
<1> QED
  BY <1>2, <1>3, <1>4, <1>5, <1>6, <1>7
     DEF Next, Progress, Starting, OtherMoves, WriterMoves, Idle, Writers

LEMMA PackingHolds == JInv /\ IInv /\ [Next]_vars => Packing'
<1> SUFFICES ASSUME JInv, IInv, [Next]_vars PROVE Packing'
  OBVIOUS
<1>0. Packing /\ batches \in Seq(SUBSET Workers) /\ Batch \subseteq Workers /\ Packed({})
  BY SinglePacked DEF JInv, TypeOK, Batch
<1>1. ASSUME UNCHANGED batches, Batch' = Batch PROVE Packing'
  BY <1>0, <1>1 DEF Packing
<1>2. ASSUME Starting PROVE Packing'
  <2>1. PICK m, p, bs : LaunchesWith(m, p, bs)
    BY <1>2, StartLaunches
  <2>2. Batch' = {} /\ batches' = bs
    BY <2>1 DEF LaunchesWith, Starts, Batch, JInv, AtRest, Writers
  <2> QED
    BY <1>0, <2>1, <2>2 DEF LaunchesWith, Packing
<1>3. ASSUME LaunchBatch PROVE Packing'
  <2>1. /\ batches # <<>> /\ batches' = Tail(batches)
        /\ Batch' \subseteq Head(batches)
    BY <1>3 DEF LaunchBatch, Batch, Writers
  <2>2. /\ 1 \in DOMAIN batches /\ Head(batches) = batches[1] /\ Head(batches) \in SUBSET Workers
        /\ \A i \in DOMAIN Tail(batches) : i + 1 \in DOMAIN batches /\ Tail(batches)[i] = batches[i + 1]
    BY <1>0, <2>1
  <2>3. Packed(Head(batches))
    BY <1>0, <2>2 DEF Packing
  <2>4. Packed(Batch')
    <3> HIDE DEF Packed, Batch
    <3> QED
      BY <2>1, <2>2, <2>3, PackedSubset
  <2> QED
    BY <1>0, <2>1, <2>2, <2>4 DEF Packing
<1>4. ASSUME NEW w \in Writers, WriterMoves(w) PROVE Packing'
  BY <1>1, <1>4, Alone, SameBatch DEF MovesAlone
<1>5. ASSUME SettleBatch PROVE Packing'
  <2>1. Batch' = Batch /\ UNCHANGED batches
    BY <1>5, DelegationAssumption DEF SettleBatch, Batch, Writers, IInv, Shape
  <2> QED
    BY <1>1, <2>1
<1>6. ASSUME Exits \/ Crash PROVE Packing'
  <2>1. batches' = <<>> /\ Batch' = {}
    BY <1>6 DEF Exits, Crash, Forgets, Batch, Writers
  <2> QED
    BY <1>0, <2>1 DEF Packing
<1>7. ASSUME RunEnds \/ OtherMoves \/ UNCHANGED vars PROVE Packing'
  <2>1. UNCHANGED <<batches, step>>
    BY <1>7 DEF RunEnds, OtherMoves, ApplyLoads, DiscardLoads, Loads, GitApplies, ApplyRefused, ApplySaves, DiscardSaves, OtherSaves, OtherDies, driver, vars
  <2> QED
    BY <1>1, <2>1 DEF Batch
<1> QED
  BY <1>2, <1>3, <1>4, <1>5, <1>6, <1>7
     DEF Next, Progress, Starting, OtherMoves, WriterMoves, Idle, Writers

\* In a parallel run without a rejected save, a worker's own step touches that worker's
\* status and files only, and records it when it is done; the driver's save touches neither.
MovesInRun(w) ==
    /\ \A v \in DOMAIN plan \ {w} : plan'[v] = plan[v]
    /\ \A v \in Workers \ {w} : run'[v] = run[v]
    /\ step'[w] # "lost" /\ (w # Main /\ step'[w] = "done" => w \in recorded')
    /\ IF w = Main THEN UNCHANGED <<plan, run, recorded>> /\ Open = {} /\ Open' = {}
       ELSE Open = Batch /\ Open' = Batch'

LEMMA InRun ==
  ASSUME IInv, JInv, NEW w \in Writers, WriterMoves(w), mode = "parallel", saveFailed' = FALSE
  PROVE  saveFailed = FALSE /\ MovesInRun(w)
<1>0. /\ MovesAlone(w) /\ step \in [Writers -> Steps] /\ saveFailed \in BOOLEAN
      /\ run = [v \in Workers |-> run[v]] /\ plan = [v \in DOMAIN plan |-> plan[v]]
      /\ step[Main] \in {"off", "queued", "writing", "lost"} /\ Main \notin Workers
  BY Alone, DelegationAssumption DEF IInv, Shape, JInv, TypeOK, AtRest, CopiesHonest, HonestIn
<1>1. w # Main => step[w] = "off" \/ step[w] \in {"done", "lost"} \/ runner = "batch"
  BY <1>0 DEF IInv, Settled, Marking, Busy, Shape, Writers
<1>2. w = Main => step[w] \in {"off", "lost"} \/ runner = "marking"
  BY <1>0 DEF IInv, Marking, Busy
<1>3. CASE SaveSnaps(w)
  <2>1. /\ DOMAIN AfterSnap = {"opening", "closing", "queued", "caught"}
        /\ AfterSnap["opening"] = "opened" /\ AfterSnap["closing"] = "closed"
        /\ AfterSnap["queued"] = "writing" /\ AfterSnap["caught"] = "rewriting"
    BY DEF AfterSnap
  <2>2. /\ step[w] \in {"opening", "closing", "queued", "caught"}
        /\ step' = [step EXCEPT ![w] = AfterSnap[step[w]]]
        /\ UNCHANGED <<plan, recorded, runner, run, saveFailed>>
    BY <1>3, <2>1 DEF SaveSnaps, Turn
  <2>3. step'[w] \in {"opened", "closed", "writing", "rewriting"}
    BY <1>0, <2>1, <2>2
  <2> QED
    BY <1>0, <1>1, <1>2, <2>2, <2>3 DEF MovesInRun, Open
<1>4. ASSUME Throws(w), step[w] \in {"opened", "closed", "working"}, UNCHANGED run
      PROVE  MovesInRun(w)
  <2>1. /\ plan' = [plan EXCEPT ![w] = "failed"] /\ step' = [step EXCEPT ![w] = "queued"]
        /\ UNCHANGED <<runner, recorded>> /\ w # Main
    BY <1>0, <1>4 DEF Throws
  <2> QED
    BY <1>0, <1>1, <1>4, <2>1 DEF MovesInRun, Open
<1>5. CASE SaveLands(w)
  <2>1. UNCHANGED <<plan, run, saveFailed>>
    BY <1>5 DEF SaveLands, Returns
  <2>2. CASE step[w] = "opened"
    BY <1>0, <1>1, <1>5, <2>1, <2>2 DEF SaveLands, MovesInRun, Open
  <2>3. CASE step[w] = "closed"
    BY <1>0, <1>1, <1>5, <2>1, <2>3 DEF SaveLands, Returns, MovesInRun, Open
  <2>4. CASE step[w] \in {"writing", "rewriting"} /\ w # Main
    BY <1>0, <1>1, <1>5, <2>1, <2>4 DEF SaveLands, Ends, MovesInRun, Open
  <2>5. CASE step[w] = "writing" /\ w = Main
    BY <1>0, <1>2, <1>5, <2>1, <2>5 DEF SaveLands, MovesInRun, Open
  <2> QED
    BY <1>5, <2>2, <2>3, <2>4, <2>5 DEF SaveLands
<1>6. CASE SaveFails(w)
  BY <1>6 DEF SaveFails
<1>7. CASE w \in Workers /\ WorktreeFails(w)
  BY <1>4, <1>7 DEF WorktreeFails
<1>8. ASSUME w \in Workers, NEW r \in Results(w), Solves(w, r) PROVE MovesInRun(w)
  <2>1. /\ \E s : plan' = [plan EXCEPT ![w] = s]
        /\ run' = [run EXCEPT ![w] = r] /\ step' = [step EXCEPT ![w] = "closing"]
        /\ UNCHANGED <<runner, recorded>> /\ step[w] = "working"
    BY <1>8 DEF Solves
  <2> QED
    BY <1>0, <1>1, <1>8, <2>1 DEF MovesInRun, Open
<1>9. CASE UNCHANGED saveFailed
  BY <1>3, <1>5, <1>6, <1>7, <1>8, <1>9 DEF WriterMoves
<1>10. UNCHANGED saveFailed
  BY <1>6 DEF WriterMoves, SaveSnaps, SaveLands, WorktreeFails, Solves
<1> QED
  BY <1>9, <1>10

LEMMA MarksHold == JInv /\ IInv /\ [Next]_vars => Marks'
<1> SUFFICES ASSUME JInv, IInv, [Next]_vars, mode' = "parallel", saveFailed' = FALSE
             PROVE  /\ Apart(Open)'
                    /\ \A w \in Workers : step'[w] # "lost" /\ (step'[w] = "done" => w \in recorded')
  BY RestHolds DEF Marks, RestTyped
<1>0. /\ AtRest /\ Marks /\ step \in [Writers -> Steps]
      /\ saveFailed \in BOOLEAN /\ Main \notin Workers /\ Workers \subseteq Writers
      /\ DOMAIN plan \subseteq Workers /\ plan = [w \in DOMAIN plan |-> plan[w]]
      /\ Batch \subseteq DOMAIN plan /\ recorded \subseteq DOMAIN plan
  BY DelegationAssumption DEF JInv, TypeOK, IInv, Shape, CopiesHonest, HonestIn, Writers, AtRest
<1> DEFINE Goal == /\ Apart(Open)'
                   /\ \A w \in Workers : step'[w] # "lost" /\ (step'[w] = "done" => w \in recorded')
<1>1. ASSUME Starting PROVE Goal
  <2>1. recorded' = {} /\ UNCHANGED step /\ \A w \in Workers : step[w] = "off"
    BY <1>0, <1>1, StartLaunches DEF LaunchesWith, Starts, AtRest
  <2> QED
    BY <1>0, <2>1 DEF Apart
<1>2. ASSUME LaunchBatch PROVE Goal
  <2>1. /\ Open = {} /\ UNCHANGED <<mode, saveFailed, recorded, run>>
        /\ Open' = Batch' /\ DOMAIN plan' = DOMAIN plan
    BY <1>2 DEF LaunchBatch, Open
  <2>2. \A w \in DOMAIN plan : w \notin Batch' => plan'[w] = plan[w]
    BY <1>0, <1>2 DEF LaunchBatch, Batch
  <2>3. \A w \in Workers : step'[w] \in {"off", "opening"}
    BY <1>0, <1>2 DEF LaunchBatch
  <2>4. Apart({})
    BY <1>0, <2>1 DEF Marks
  <2>5. Apart(Open)'
    BY <1>0, <2>1, <2>2, <2>4 DEF Apart
  <2> QED
    BY <2>3, <2>5
<1>3. ASSUME NEW w \in Writers, WriterMoves(w) PROVE Goal
  <2>1. MovesAlone(w) /\ Batch' = Batch
    BY <1>3, Alone, SameBatch
  <2>2. saveFailed = FALSE /\ MovesInRun(w) /\ mode = "parallel"
    BY <1>3, <2>1, InRun DEF MovesAlone
  <2>3. Apart(Open) /\ \A v \in Workers : step[v] # "lost" /\ (step[v] = "done" => v \in recorded)
    BY <1>0, <2>2 DEF Marks
  <2>4. \A v \in Workers : step'[v] # "lost" /\ (step'[v] = "done" => v \in recorded')
    BY <1>0, <2>1, <2>2, <2>3 DEF MovesAlone, MovesInRun
  <2>5. CASE w = Main
    BY <2>2, <2>3, <2>4, <2>5 DEF MovesInRun, Apart
  <2>6. CASE w # Main
    <3>1. Open = Batch /\ Open' = Batch /\ w \in Batch /\ DOMAIN plan' = DOMAIN plan
      BY <1>0, <2>1, <2>2, <2>6 DEF MovesInRun, MovesAlone, Batch, Writers
    <3>2. recorded' \ Batch = recorded \ Batch
      BY <2>1, <3>1 DEF MovesAlone
    <3>3. /\ \A v \in DOMAIN plan \ Batch : plan'[v] = plan[v]
          /\ \A v \in Workers \ Batch : run'[v] = run[v]
      BY <2>2, <3>1 DEF MovesInRun
    <3>4. Apart(Open)'
      BY <1>0, <2>3, <3>1, <3>2, <3>3 DEF Apart
    <3> QED
      BY <2>4, <3>4
  <2> QED
    BY <2>5, <2>6
<1>4. ASSUME SettleBatch PROVE Goal
  <2>1. /\ UNCHANGED <<mode, saveFailed, recorded, run>> /\ runner = "batch" /\ Open = Batch /\ Open' = {}
        /\ DOMAIN plan' = DOMAIN plan
        /\ \A w \in Workers : step'[w] = step[w]
    BY <1>0, <1>4 DEF SettleBatch, Open
  <2>2. Apart(Batch) /\ \A v \in Workers : step[v] # "lost" /\ (step[v] = "done" => v \in recorded)
    BY <1>0, <2>1 DEF Marks
  <2>3. Batch \subseteq recorded
    BY <1>4, <2>2 DEF SettleBatch, Batch
  <2>4. ASSUME NEW v \in DOMAIN plan, plan'[v] = "passed" PROVE plan[v] = "passed" /\ v \notin Conflicting
    BY <1>0, <1>4, <2>1, <2>4 DEF SettleBatch
  <2>5. ASSUME NEW v \in recorded, NEW w \in DOMAIN plan, v # w, plan'[v] = "passed", plan'[w] = "passed"
        PROVE  run[v].files \cap run[w].files = {}
    <3>1. /\ v \in Passed /\ w \in Passed /\ plan[v] = "passed" /\ plan[w] = "passed"
          /\ v \notin Conflicting
      BY <1>0, <2>4, <2>5 DEF Passed
    <3>2. CASE v \in Batch \/ w \in Batch
      <4>1. {v, w} \cap NewlyPassed # {}
        BY <2>3, <3>1, <3>2 DEF NewlyPassed
      <4> QED
        BY <2>5, <3>1, <4>1 DEF Conflicting
    <3>3. CASE v \notin Batch /\ w \notin Batch
      BY <2>2, <2>5, <3>1, <3>3 DEF Apart
    <3> QED
      BY <3>2, <3>3
  <2>6. Apart(Open)'
    BY <2>1, <2>5 DEF Apart
  <2> QED
    BY <2>1, <2>2, <2>6
<1>5. ASSUME Exits \/ Crash PROVE Goal
  BY <1>5 DEF Exits, Crash, Forgets
<1>6. ASSUME RunEnds \/ OtherMoves \/ UNCHANGED vars PROVE Goal
  <2>1. UNCHANGED <<mode, saveFailed, recorded, run, plan, step>>
    BY <1>6 DEF RunEnds, OtherMoves, ApplyLoads, DiscardLoads, Loads, GitApplies, ApplyRefused, ApplySaves, DiscardSaves, OtherSaves, OtherDies, driver, vars
  <2>2. Open' = Open
    BY <1>6, <2>1 DEF RunEnds, OtherMoves, ApplyLoads, DiscardLoads, Loads, GitApplies, ApplyRefused, ApplySaves, DiscardSaves, OtherSaves, OtherDies, driver, vars, Open, Batch
  <2> QED
    BY <1>0, <2>1, <2>2 DEF Marks, Apart
<1> QED
  BY <1>1, <1>2, <1>3, <1>4, <1>5, <1>6
     DEF Next, Progress, Starting, OtherMoves, WriterMoves, Idle, Writers

-----------------------------------------------------------------------------
(* The second invariant, and the two properties it was made for.            *)

LEMMA JInitHolds == Init => JInv
<1> SUFFICES ASSUME Init PROVE JInv
  OBVIOUS
<1> USE DEF Init
<1>1. NoPlan \in Plans /\ DOMAIN NoPlan = {}
  BY EmptyPlan
<1>2. disk \in Plans
  <2>1. disk \in [Workers -> Status]
    BY DEF Status
  <2> QED
    BY <2>1 DEF Plans
<1>3. /\ queue = <<>> /\ OneEach(queue, {}) /\ Inside = {} /\ Batch = {}
      /\ step \in [Writers -> Steps]
  BY NobodyQueues DEF Inside, Queued, Batch, Steps, Writers
<1>4. run \in [Workers -> [passed : BOOLEAN, files : SUBSET Files]]
  BY DEF NoRun
<1>5. other \in [op : {"none", "apply", "applied", "discard"}, worker : Writers, plan : Plans]
  BY <1>1, WorkersFinite DEF NoOne
<1>6. batches \in Seq(SUBSET Workers) /\ DOMAIN batches = {} /\ Packed({})
  BY SinglePacked
<1>7. TypeOK /\ NoneTwice
  BY <1>1, <1>2, <1>3, <1>4, <1>5, <1>6 DEF TypeOK, OneEach, NoneTwice, Inside
<1>8. AtRest
  BY <1>3, WorkersFinite DEF AtRest, NoOne
<1> QED
  BY <1>3, <1>6, <1>7, <1>8 DEF JInv, Ready, ReadyToRun, Packing, Marks

LEMMA JStepHolds == JInv /\ IInv /\ [Next]_vars => JInv'
<1> SUFFICES ASSUME JInv, IInv, [Next]_vars PROVE JInv'
  OBVIOUS
<1>1. PlansTyped' /\ RestTyped' /\ AtRest' /\ Ready' /\ Packing' /\ Marks'
  BY PlansHold, RestHolds, RestingHolds, ReadyHolds, PackingHolds, MarksHold
<1>2. Shape'
  BY StepHolds DEF IInv
<1>3. OneEach(queue, Inside)'
  BY QueueHolds
<1>4. TypeOK' /\ NoneTwice'
  BY <1>1, <1>2, <1>3 DEF TypeOK, NoneTwice, PlansTyped, RestTyped, Shape, OneEach, Inside
<1> QED
  BY <1>1, <1>4 DEF JInv

LEMMA JInvariance == Spec => []JInv
<1>1. JInv /\ IInv /\ [Next]_vars => JInv'
  BY JStepHolds
<1> QED
  BY <1>1, JInitHolds, Invariance, PTL DEF Spec

\* For every plan, order and number of workers: the driver starts a worker only
\* when the patches it depends on are in the real tree, no copy of the plan
\* claims a patch that is not, and a run that wrote plan.json last left its own
\* plan there (runnableWorkers, applyWorker, PlanSaveQueue).
THEOREM PlanIsSound == Spec => []PlanSound
<1>1. ASSUME IInv, JInv PROVE TypeOK /\ DependenciesInTree
  <2>1. Active \subseteq Batch
    BY DEF Active, Batch
  <2> QED
    BY <1>1, <2>1 DEF JInv, Ready, ReadyToRun, DependenciesInTree
<1> QED
  BY <1>1, Invariance, JInvariance, AppliedInTree, RunLeavesItsPlan, PTL DEF PlanSound

\* For every set of lock paths and every maxConcurrency: the workers of a batch
\* never share a path and are never too many (buildRunnableBatches), and a
\* parallel run that ends without a rejected save leaves no two passed workers
\* of which it ran one, whose patches touch one file (runRunnableConcurrent).
THEOREM BatchesAreSound == Spec => []ConflictsSound
<1>1. ASSUME JInv PROVE ActiveAreDisjoint
  <2>1. Active \in SUBSET Batch /\ Batch \in SUBSET Workers /\ Packed(Batch)
    BY <1>1 DEF Active, Batch, JInv, Packing
  <2>2. Packed(Active)
    BY <2>1, PackedSubset
  <2> QED
    BY <2>2 DEF Packed, ActiveAreDisjoint
<1>2. ASSUME JInv PROVE ConflictsMarked
  BY <1>2 DEF JInv, Marks, Apart, Open, ConflictsMarked
<1> QED
  BY <1>1, <1>2, JInvariance, PTL DEF ConflictsSound
=============================================================================
