---------------------- MODULE StreamingExecutor_proofs ----------------------
(***************************************************************************)
(* The streaming turn is correct for every number of calls and every read  *)
(* concurrency: its inductive invariant, the safety properties that follow *)
(* from it, and that it implements ToolSchedule.                           *)
(***************************************************************************)
EXTENDS StreamingExecutor, FiniteSetTheorems, SequenceTheorems, TLAPS

-----------------------------------------------------------------------------
(* The inductive invariant, in named parts.                                *)

\* The pump works on an accepted call unless it waits for one or has ended.
PumpInv ==
    /\ pump.i <= entries + 1
    /\ pump.pc \in {"authorizing", "queued", "granted", "exclusive"} => pump.i <= entries

\* Calls before the pump's are decided, and only reads of them are still
\* under way; the pump's own call is where the pump is; later ones are idle.
BodyInv ==
    \A i \in Calls :
        /\ i < pump.i =>
              /\ body[i] \in {"running", "returned", "recorded", "settled"}
              /\ body[i] # "settled" => i \in Reads
        /\ i = pump.i =>
              /\ pump.pc \in {"waiting", "authorizing", "ended"}
                    => body[i] = "idle" /\ kind[i] = "unknown"
              /\ pump.pc \in {"queued", "granted"} => body[i] = "idle" /\ i \in Reads
              /\ pump.pc = "exclusive" =>
                    body[i] \in {"draining", "running", "returned"} /\ i \in Exclusives
        /\ i > pump.i => body[i] = "idle" /\ kind[i] = "unknown"

\* What a call came to is known once its body has returned.
OutcomeInv ==
    \A i \in Calls :
        /\ body[i] \in {"idle", "draining", "running"} <=> outcome[i] = "none"
        /\ body[i] = "returned" => outcome[i] # "blocked"

\* No read starts while an exclusive call drains, so none is left when it runs.
DrainInv ==
    /\ \A i \in Calls : body[i] = "draining" => InFlightReads \subseteq drainSet
    /\ \A i \in Exclusives : body[i] = "running" => InFlightReads = {}

\* A failed exclusive call has aborted the executor, and the pump no longer
\* authorizes anything.
FailInv ==
    AbortSiblingExecuteOnError =>
        \A i \in Exclusives :
            (body[i] = "settled" /\ outcome[i] \in {"error", "aborted", "unwritable"}) =>
                /\ childAborted
                /\ pump.pc \in {"waiting", "ended"}
                /\ \A j \in Calls : i < j => outcome[j] \in {"none", "blocked"}
                                             /\ body[j] \in {"idle", "settled"}

\* Before the recorder starts nothing is in the history, and a stream that
\* delivered nothing has left no call behind.
TurnInv ==
    /\ turn \in {"streaming", "fallback"} => history = <<>> /\ (~hadContent => entries = 0)
    /\ turn = "fallback" => ~hadContent
    /\ turn \in {"recording", "next"} => finished
    /\ turn = "next" => Len(history) = entries /\ ~stopRequested

\* The history is a prefix of the recorded results.
HistoryInv ==
    /\ Len(history) <= entries
    /\ \A k \in 1 .. Len(history) :
          k \in Recorded /\ history[k] = [index |-> k, outcome |-> outcome[k]]

IInv == /\ TypeOK /\ PumpInv /\ BodyInv /\ OutcomeInv /\ DrainInv
        /\ PermitsConserved /\ FailInv /\ TurnInv /\ HistoryInv

USE DEF Calls, consumerVars, bodyVars, abortVars

LEMMA TextDeltaPreserves ==
  ASSUME IInv, TextDelta
  PROVE  IInv'
<1> USE ExecutorAssumption DEF IInv, TextDelta
<1>1. TypeOK'
  BY DEF TypeOK, PumpStates, Outcomes, Kinds, TurnOver
<1>2. PumpInv'
  BY DEF TypeOK, PumpInv, TurnInv
<1>3. BodyInv'
  BY DEF TypeOK, PumpInv, BodyInv, TurnInv, Reads, Exclusives, Kinds, LaneFor
<1>4. OutcomeInv'
  BY DEF TypeOK, PumpInv, BodyInv, OutcomeInv
<1>5. DrainInv'
  BY DEF TypeOK, PumpInv, BodyInv, DrainInv, InFlightReads, Running, Reads, Exclusives, Kinds, LaneFor
<1>6. FailInv'
  BY DEF TypeOK, PumpInv, BodyInv, FailInv, OutcomeInv, TurnInv, Reads, Exclusives, Kinds, LaneFor
<1>7. TurnInv'
  BY DEF TypeOK, PumpInv, BodyInv, TurnInv, HistoryInv, TurnOver
<1>8. HistoryInv'
  BY DEF TypeOK, PumpInv, BodyInv, OutcomeInv, TurnInv, HistoryInv, Recorded
<1>9. Holding' = Holding
  BY DEF TypeOK, PumpInv, BodyInv, Holding, Reads, Exclusives, Kinds, LaneFor
<1>10. PermitsConserved'
  BY <1>9 DEF TypeOK, PermitsConserved
<1>11. QED
  BY <1>1, <1>2, <1>3, <1>4, <1>5, <1>6, <1>7, <1>8, <1>10

LEMMA ToolCallCompletePreserves ==
  ASSUME IInv, ToolCallComplete
  PROVE  IInv'
<1> USE ExecutorAssumption DEF IInv, ToolCallComplete
<1>1. TypeOK'
  BY DEF TypeOK, PumpStates, Outcomes, Kinds, TurnOver
<1>2. PumpInv'
  BY DEF TypeOK, PumpInv, TurnInv
<1>3. BodyInv'
  BY DEF TypeOK, PumpInv, BodyInv, TurnInv, Reads, Exclusives, Kinds, LaneFor
<1>4. OutcomeInv'
  BY DEF TypeOK, PumpInv, BodyInv, OutcomeInv
<1>5. DrainInv'
  BY DEF TypeOK, PumpInv, BodyInv, DrainInv, InFlightReads, Running, Reads, Exclusives, Kinds, LaneFor
<1>6. FailInv'
  BY DEF TypeOK, PumpInv, BodyInv, FailInv, OutcomeInv, TurnInv, Reads, Exclusives, Kinds, LaneFor
<1>7. TurnInv'
  BY DEF TypeOK, PumpInv, BodyInv, TurnInv, HistoryInv, TurnOver
<1>8. HistoryInv'
  BY DEF TypeOK, PumpInv, BodyInv, OutcomeInv, TurnInv, HistoryInv, Recorded
<1>9. Holding' = Holding
  BY DEF TypeOK, PumpInv, BodyInv, Holding, Reads, Exclusives, Kinds, LaneFor
<1>10. PermitsConserved'
  BY <1>9 DEF TypeOK, PermitsConserved
<1>11. QED
  BY <1>1, <1>2, <1>3, <1>4, <1>5, <1>6, <1>7, <1>8, <1>10

LEMMA StreamDonePreserves ==
  ASSUME IInv, StreamDone
  PROVE  IInv'
<1> USE ExecutorAssumption DEF IInv, StreamDone
<1>1. TypeOK'
  BY DEF TypeOK, PumpStates, Outcomes, Kinds, TurnOver
<1>2. PumpInv'
  BY DEF TypeOK, PumpInv, TurnInv
<1>3. BodyInv'
  BY DEF TypeOK, PumpInv, BodyInv, TurnInv, Reads, Exclusives, Kinds, LaneFor
<1>4. OutcomeInv'
  BY DEF TypeOK, PumpInv, BodyInv, OutcomeInv
<1>5. DrainInv'
  BY DEF TypeOK, PumpInv, BodyInv, DrainInv, InFlightReads, Running, Reads, Exclusives, Kinds, LaneFor
<1>6. FailInv'
  BY DEF TypeOK, PumpInv, BodyInv, FailInv, OutcomeInv, TurnInv, Reads, Exclusives, Kinds, LaneFor
<1>7. TurnInv'
  BY DEF TypeOK, PumpInv, BodyInv, TurnInv, HistoryInv, TurnOver
<1>8. HistoryInv'
  BY DEF TypeOK, PumpInv, BodyInv, OutcomeInv, TurnInv, HistoryInv, Recorded
<1>9. Holding' = Holding
  BY DEF TypeOK, PumpInv, BodyInv, Holding, Reads, Exclusives, Kinds, LaneFor
<1>10. PermitsConserved'
  BY <1>9 DEF TypeOK, PermitsConserved
<1>11. QED
  BY <1>1, <1>2, <1>3, <1>4, <1>5, <1>6, <1>7, <1>8, <1>10

LEMMA StreamFailsPreserves ==
  ASSUME IInv, StreamFails
  PROVE  IInv'
<1> USE ExecutorAssumption DEF IInv, StreamFails
<1>1. TypeOK'
  BY DEF TypeOK, PumpStates, Outcomes, Kinds, TurnOver
<1>2. PumpInv'
  BY DEF TypeOK, PumpInv, TurnInv
<1>3. BodyInv'
  BY DEF TypeOK, PumpInv, BodyInv, TurnInv, Reads, Exclusives, Kinds, LaneFor
<1>4. OutcomeInv'
  BY DEF TypeOK, PumpInv, BodyInv, OutcomeInv
<1>5. DrainInv'
  BY DEF TypeOK, PumpInv, BodyInv, DrainInv, InFlightReads, Running, Reads, Exclusives, Kinds, LaneFor
<1>6. FailInv'
  BY DEF TypeOK, PumpInv, BodyInv, FailInv, OutcomeInv, TurnInv, Reads, Exclusives, Kinds, LaneFor
<1>7. TurnInv'
  BY DEF TypeOK, PumpInv, BodyInv, TurnInv, HistoryInv, TurnOver
<1>8. HistoryInv'
  BY DEF TypeOK, PumpInv, BodyInv, OutcomeInv, TurnInv, HistoryInv, Recorded
<1>9. Holding' = Holding
  BY DEF TypeOK, PumpInv, BodyInv, Holding, Reads, Exclusives, Kinds, LaneFor
<1>10. PermitsConserved'
  BY <1>9 DEF TypeOK, PermitsConserved
<1>11. QED
  BY <1>1, <1>2, <1>3, <1>4, <1>5, <1>6, <1>7, <1>8, <1>10

LEMMA ChatResolvesPreserves ==
  ASSUME IInv, NEW n \in 0 .. MaxCalls, ChatResolves(n)
  PROVE  IInv'
<1> USE ExecutorAssumption DEF IInv
<1>1. /\ entries = 0 /\ history = <<>>
      /\ \A i \in Calls : body[i] = "idle" /\ kind[i] = "unknown"
  <2>1. entries = 0 /\ history = <<>>
    BY DEF ChatResolves, TurnInv
  <2>2. pump.i = 1 /\ pump.pc \in {"waiting", "ended"}
    BY <2>1 DEF TypeOK, PumpStates, PumpInv
  <2>3. QED
    BY <2>1, <2>2 DEF BodyInv
<1>2. /\ entries' = n /\ finished' = TRUE /\ permits' = ReadConcurrency
      /\ pump' = [pc |-> "waiting", i |-> 1] /\ childAborted' = userAborted
      /\ turn' \in {"returned", "recording"}
      /\ UNCHANGED <<hadContent, bodyVars, userAborted, stopRequested, history>>
  BY DEF ChatResolves
<1>3. TypeOK'
  BY <1>2 DEF TypeOK, PumpStates, TurnOver
<1>4. PumpInv' /\ BodyInv' /\ OutcomeInv'
  BY <1>1, <1>2 DEF TypeOK, PumpInv, BodyInv, OutcomeInv
<1>5. DrainInv' /\ FailInv'
  BY <1>1, <1>2 DEF DrainInv, FailInv, Exclusives
<1>6. TurnInv' /\ HistoryInv'
  BY <1>1, <1>2 DEF TypeOK, TurnInv, HistoryInv
<1>7. PermitsConserved'
  <2>1. Holding' = {}
    BY <1>1, <1>2 DEF Holding, Reads
  <2>2. QED
    BY <1>2, <2>1, FS_EmptySet DEF PermitsConserved
<1>8. QED
  BY <1>3, <1>4, <1>5, <1>6, <1>7

LEMMA ChatThrowsPreserves ==
  ASSUME IInv, ChatThrows
  PROVE  IInv'
<1> USE ExecutorAssumption DEF IInv, ChatThrows
<1>1. TypeOK'
  BY DEF TypeOK, PumpStates, Outcomes, Kinds, TurnOver
<1>2. PumpInv'
  BY DEF TypeOK, PumpInv, TurnInv
<1>3. BodyInv'
  BY DEF TypeOK, PumpInv, BodyInv, TurnInv, Reads, Exclusives, Kinds, LaneFor
<1>4. OutcomeInv'
  BY DEF TypeOK, PumpInv, BodyInv, OutcomeInv
<1>5. DrainInv'
  BY DEF TypeOK, PumpInv, BodyInv, DrainInv, InFlightReads, Running, Reads, Exclusives, Kinds, LaneFor
<1>6. FailInv'
  BY DEF TypeOK, PumpInv, BodyInv, FailInv, OutcomeInv, TurnInv, Reads, Exclusives, Kinds, LaneFor
<1>7. TurnInv'
  BY DEF TypeOK, PumpInv, BodyInv, TurnInv, HistoryInv, TurnOver
<1>8. HistoryInv'
  BY DEF TypeOK, PumpInv, BodyInv, OutcomeInv, TurnInv, HistoryInv, Recorded
<1>9. Holding' = Holding
  BY DEF TypeOK, PumpInv, BodyInv, Holding, Reads, Exclusives, Kinds, LaneFor
<1>10. PermitsConserved'
  BY <1>9 DEF TypeOK, PermitsConserved
<1>11. QED
  BY <1>1, <1>2, <1>3, <1>4, <1>5, <1>6, <1>7, <1>8, <1>10

LEMMA PumpEndsPreserves ==
  ASSUME IInv, PumpEnds
  PROVE  IInv'
<1> USE ExecutorAssumption DEF IInv, PumpEnds
<1>1. TypeOK'
  BY DEF TypeOK, PumpStates, Outcomes, Kinds, TurnOver
<1>2. PumpInv'
  BY DEF TypeOK, PumpInv, TurnInv
<1>3. BodyInv'
  BY DEF TypeOK, PumpInv, BodyInv, TurnInv, Reads, Exclusives, Kinds, LaneFor
<1>4. OutcomeInv'
  BY DEF TypeOK, PumpInv, BodyInv, OutcomeInv
<1>5. DrainInv'
  BY DEF TypeOK, PumpInv, BodyInv, DrainInv, InFlightReads, Running, Reads, Exclusives, Kinds, LaneFor
<1>6. FailInv'
  BY DEF TypeOK, PumpInv, BodyInv, FailInv, OutcomeInv, TurnInv, Reads, Exclusives, Kinds, LaneFor
<1>7. TurnInv'
  BY DEF TypeOK, PumpInv, BodyInv, TurnInv, HistoryInv, TurnOver
<1>8. HistoryInv'
  BY DEF TypeOK, PumpInv, BodyInv, OutcomeInv, TurnInv, HistoryInv, Recorded
<1>9. Holding' = Holding
  BY DEF TypeOK, PumpInv, BodyInv, Holding, Reads, Exclusives, Kinds, LaneFor
<1>10. PermitsConserved'
  BY <1>9 DEF TypeOK, PermitsConserved
<1>11. QED
  BY <1>1, <1>2, <1>3, <1>4, <1>5, <1>6, <1>7, <1>8, <1>10

\* A call that is blocked in its turn, whoever decides it: its entry is
\* recorded and the pump moves on.
LEMMA BlockCurrentPreserves ==
  ASSUME IInv, pump.pc \in {"waiting", "authorizing"}, pump.i <= entries,
         Record(pump.i, "blocked", "settled"), pump' = NextIndex,
         kind' \in [Calls -> Kinds \cup {"unknown"}],
         \A j \in Calls : j # pump.i => kind'[j] = kind[j],
         stopRequested' \in BOOLEAN,
         UNCHANGED <<consumerVars, permits, drainSet, abortVars, history>>
  PROVE  IInv'
<1> USE ExecutorAssumption DEF IInv
<1>1. pump.i \in Calls /\ body[pump.i] = "idle" /\ outcome[pump.i] = "none"
  BY DEF TypeOK, PumpInv, BodyInv, OutcomeInv
<1>2. /\ body' = [body EXCEPT ![pump.i] = "settled"]
      /\ outcome' = [outcome EXCEPT ![pump.i] = "blocked"]
      /\ pump' = [pc |-> "waiting", i |-> pump.i + 1]
  BY <1>1 DEF Record, Recorded, NextIndex, TypeOK
<1>3. TypeOK'
  BY <1>1, <1>2 DEF TypeOK, PumpStates, Outcomes
<1>4. PumpInv'
  BY <1>1, <1>2 DEF TypeOK, PumpInv
<1>5. BodyInv'
  BY <1>1, <1>2 DEF TypeOK, BodyInv, Reads, Exclusives, Kinds, LaneFor
<1>6. OutcomeInv'
  BY <1>1, <1>2 DEF TypeOK, OutcomeInv
<1>7. DrainInv'
  <2>1. InFlightReads' = InFlightReads
    BY <1>1, <1>2 DEF TypeOK, InFlightReads, Running, Reads
  <2>2. QED
    BY <1>1, <1>2, <2>1 DEF TypeOK, DrainInv, Exclusives
<1>8. FailInv'
  BY <1>1, <1>2 DEF TypeOK, BodyInv, FailInv, Exclusives
<1>9. HistoryInv'
  <2>1. \A k \in 1 .. Len(history) : k \in Recorded /\ k \in Calls /\ k # pump.i
    BY <1>1 DEF HistoryInv, Recorded
  <2>2. \A k \in 1 .. Len(history) : body'[k] = body[k] /\ outcome'[k] = outcome[k]
    BY <1>2, <2>1 DEF TypeOK
  <2>3. QED
    BY <2>1, <2>2 DEF HistoryInv, Recorded
<1>10. TurnInv'
  <2>1. ASSUME turn = "next" PROVE FALSE
    <3>1. Len(history) = entries
      BY <2>1 DEF TurnInv
    <3>2. pump.i \in 1 .. Len(history)
      BY <1>1, <3>1
    <3>3. QED
      BY <1>1, <3>2 DEF HistoryInv, Recorded
  <2> QED
    BY <2>1 DEF TurnInv, TurnOver
<1>11. Holding' = Holding
  <2>1. pump.pc # "granted" /\ pump'.pc # "granted"
    BY <1>2
  <2>2. \A j \in Calls : j # pump.i => kind'[j] = kind[j] /\ body'[j] = body[j]
    BY <1>2 DEF TypeOK
  <2>3. body[pump.i] = "idle" /\ body'[pump.i] = "settled"
    BY <1>1, <1>2 DEF TypeOK
  <2>4. QED
    BY <2>1, <2>2, <2>3 DEF Holding, Reads
<1>12. PermitsConserved'
  BY <1>2, <1>11 DEF PermitsConserved
<1>13. QED
  BY <1>3, <1>4, <1>5, <1>6, <1>7, <1>8, <1>9, <1>10, <1>12

LEMMA TakeEntryPreserves ==
  ASSUME IInv, TakeEntry
  PROVE  IInv'
<1>1. CASE childAborted
  BY <1>1, BlockCurrentPreserves DEF TakeEntry, IInv, TypeOK
<1>2. CASE ~childAborted
  <2> USE ExecutorAssumption DEF IInv
  <2>1. /\ pump.pc = "waiting" /\ pump.i \in Calls /\ pump.i <= entries
        /\ pump' = [pc |-> "authorizing", i |-> pump.i]
        /\ UNCHANGED <<consumerVars, permits, bodyVars, abortVars, stopRequested, history>>
    BY <1>2 DEF TakeEntry, TypeOK
  <2>2. TypeOK' /\ PumpInv' /\ BodyInv' /\ OutcomeInv'
    BY <2>1 DEF TypeOK, PumpStates, PumpInv, BodyInv, OutcomeInv, Reads, Exclusives
  <2>3. DrainInv' /\ TurnInv' /\ HistoryInv'
    BY <2>1 DEF DrainInv, InFlightReads, Running, Reads, Exclusives, TurnInv, HistoryInv, Recorded
  <2>4. FailInv'
    BY <1>2, <2>1 DEF FailInv, Exclusives
  <2>5. Holding' = Holding
    BY <2>1 DEF Holding, Reads
  <2>6. PermitsConserved'
    BY <2>1, <2>5 DEF PermitsConserved
  <2>7. QED
    BY <2>2, <2>3, <2>4, <2>6
<1>3. QED
  BY <1>1, <1>2

LEMMA AuthorizeBlocksPreserves ==
  ASSUME IInv, NEW stop \in BOOLEAN, AuthorizeBlocks(stop)
  PROVE  IInv'
BY BlockCurrentPreserves DEF AuthorizeBlocks, IInv, TypeOK, PumpInv

\* The calls that hold a permit are finitely many.
LEMMA HoldingFinite ==
  ASSUME TypeOK
  PROVE  IsFiniteSet(Holding) /\ Cardinality(Holding) \in Nat
<1>1. IsFiniteSet(Calls)
  BY ExecutorAssumption, FS_Interval
<1>2. IsFiniteSet(Calls \cup {pump.i})
  BY <1>1, FS_AddElement
<1>3. Holding \subseteq Calls \cup {pump.i}
  BY DEF Holding, Reads
<1>4. QED
  BY <1>2, <1>3, FS_Subset, FS_CardinalityType

LEMMA AuthorizeReadPreserves ==
  ASSUME IInv, NEW k \in Kinds, AuthorizeRead(k)
  PROVE  IInv'
<1> USE ExecutorAssumption DEF IInv
<1>1. /\ pump.i \in Calls /\ body[pump.i] = "idle" /\ pump.i <= entries
      /\ pump.pc = "authorizing" /\ LaneFor(k) = "read"
      /\ kind' = [kind EXCEPT ![pump.i] = k]
      /\ UNCHANGED <<consumerVars, body, outcome, drainSet, abortVars, stopRequested, history>>
  BY DEF AuthorizeRead, TypeOK, PumpInv, BodyInv
<1>2. \/ permits > 0 /\ permits' = permits - 1 /\ pump' = [pc |-> "granted", i |-> pump.i]
      \/ permits = 0 /\ permits' = permits /\ pump' = [pc |-> "queued", i |-> pump.i]
  BY DEF AuthorizeRead, TypeOK
<1>3. pump'.i = pump.i /\ pump'.pc \in {"granted", "queued"}
  BY <1>2
<1>4. TypeOK'
  BY <1>1, <1>2 DEF TypeOK, PumpStates
<1>5. PumpInv' /\ OutcomeInv'
  BY <1>1, <1>3 DEF TypeOK, PumpInv, OutcomeInv
<1>6. BodyInv'
  BY <1>1, <1>3 DEF TypeOK, BodyInv, Reads, Exclusives
<1>7. DrainInv' /\ TurnInv' /\ HistoryInv'
  <2>1. InFlightReads' = InFlightReads
    BY <1>1 DEF TypeOK, InFlightReads, Running, Reads
  <2>2. DrainInv'
    BY <1>1, <2>1 DEF TypeOK, DrainInv, Exclusives
  <2>3. TurnInv' /\ HistoryInv'
    BY <1>1 DEF TypeOK, TurnInv, HistoryInv, Recorded
  <2>4. QED
    BY <2>2, <2>3
<1>8. FailInv'
  BY <1>1 DEF TypeOK, FailInv, Exclusives
<1>9. PermitsConserved'
  <2>1. CASE permits > 0
    <3>1. Holding' = Holding \cup {pump.i} /\ pump.i \notin Holding
      BY <1>1, <1>2, <2>1 DEF TypeOK, Holding, Reads
    <3>2. Cardinality(Holding') = Cardinality(Holding) + 1
      BY <3>1, HoldingFinite, FS_AddElement
    <3>3. QED
      BY <1>2, <2>1, <3>2, HoldingFinite DEF TypeOK, PermitsConserved
  <2>2. CASE permits = 0
    <3>1. Holding' = Holding
      BY <1>1, <1>2, <2>2 DEF TypeOK, Holding, Reads
    <3>2. QED
      BY <1>2, <2>2, <3>1 DEF PermitsConserved
  <2>3. QED
    BY <2>1, <2>2 DEF TypeOK
<1>10. QED
  BY <1>4, <1>5, <1>6, <1>7, <1>8, <1>9

LEMMA AuthorizeExclusivePreserves ==
  ASSUME IInv, NEW k \in Kinds, AuthorizeExclusive(k)
  PROVE  IInv'
<1>1. CASE childAborted
  <2>1. kind' = [kind EXCEPT ![pump.i] = k] /\ k \in Kinds
    BY DEF AuthorizeExclusive
  <2>2. kind' \in [Calls -> Kinds \cup {"unknown"}] /\ \A j \in Calls : j # pump.i => kind'[j] = kind[j]
    BY <2>1 DEF IInv, TypeOK
  <2>3. QED
    BY <1>1, <2>2, BlockCurrentPreserves DEF AuthorizeExclusive, IInv, TypeOK, PumpInv
<1>2. CASE ~childAborted
  <2> USE ExecutorAssumption DEF IInv
  <2>1. /\ pump.i \in Calls /\ body[pump.i] = "idle" /\ outcome[pump.i] = "none" /\ pump.i <= entries
        /\ pump.pc = "authorizing" /\ LaneFor(k) = "exclusive"
        /\ kind' = [kind EXCEPT ![pump.i] = k]
        /\ body' = [body EXCEPT ![pump.i] = "draining"]
        /\ drainSet' = InFlightReads
        /\ pump' = [pc |-> "exclusive", i |-> pump.i]
        /\ UNCHANGED <<consumerVars, permits, outcome, abortVars, stopRequested, history>>
    BY <1>2 DEF AuthorizeExclusive, ReadsToDrain, TypeOK, PumpInv, BodyInv, OutcomeInv
  <2>2. TypeOK'
    BY <2>1 DEF TypeOK, PumpStates, InFlightReads, Running
  <2>3. PumpInv' /\ OutcomeInv'
    BY <2>1 DEF TypeOK, PumpInv, OutcomeInv
  <2>4. BodyInv'
    BY <2>1 DEF TypeOK, BodyInv, Reads, Exclusives
  <2>5. DrainInv'
    <3>1. InFlightReads' = InFlightReads
      BY <2>1 DEF TypeOK, InFlightReads, Running, Reads
    <3>2. QED
      BY <2>1, <3>1 DEF TypeOK, DrainInv, Exclusives
  <2>6. FailInv'
    BY <1>2, <2>1 DEF TypeOK, FailInv, Exclusives
  <2>7. TurnInv' /\ HistoryInv'
    BY <2>1 DEF TypeOK, TurnInv, HistoryInv, Recorded
  <2>8. Holding' = Holding
    BY <2>1 DEF TypeOK, Holding, Reads
  <2>9. PermitsConserved'
    BY <2>1, <2>8 DEF PermitsConserved
  <2>10. QED
    BY <2>2, <2>3, <2>4, <2>5, <2>6, <2>7, <2>9
<1>3. QED
  BY <1>1, <1>2

LEMMA LaunchReadPreserves ==
  ASSUME IInv, LaunchRead
  PROVE  IInv'
<1> USE ExecutorAssumption DEF IInv
<1>1. /\ pump.i \in Calls /\ pump.i \in Reads /\ pump.i <= entries
      /\ body[pump.i] = "idle" /\ outcome[pump.i] = "none" /\ pump.pc = "granted"
      /\ pump' = [pc |-> "waiting", i |-> pump.i + 1]
      /\ UNCHANGED <<consumerVars, permits, kind, drainSet, abortVars, stopRequested, history>>
  BY DEF LaunchRead, NextIndex, TypeOK, PumpInv, BodyInv, OutcomeInv
<1>2. \/ /\ childAborted
         /\ body' = [body EXCEPT ![pump.i] = "recorded"]
         /\ outcome' = [outcome EXCEPT ![pump.i] = "blocked"]
      \/ /\ ~childAborted
         /\ body' = [body EXCEPT ![pump.i] = "running"]
         /\ outcome' = outcome
  BY <1>1 DEF LaunchRead, Record, Recorded
<1>3. TypeOK'
  <2>1. pump' \in [pc : PumpStates, i : 1 .. (MaxCalls + 1)]
    BY <1>1 DEF PumpStates
  <2>2. /\ body' \in [Calls -> {"idle", "draining", "running", "returned", "recorded", "settled"}]
        /\ outcome' \in [Calls -> Outcomes]
    BY <1>2 DEF TypeOK, Outcomes
  <2>3. QED
    BY <1>1, <2>1, <2>2 DEF TypeOK
<1>4. PumpInv'
  BY <1>1 DEF TypeOK, PumpInv
<1>5. BodyInv'
  BY <1>1, <1>2 DEF TypeOK, BodyInv, Reads, Exclusives
<1>6. OutcomeInv'
  BY <1>1, <1>2 DEF TypeOK, OutcomeInv
<1>7. DrainInv'
  <2>1. \A i \in Calls : body'[i] # "draining"
    <3>1. \A i \in Calls : body[i] # "draining"
      <4> SUFFICES ASSUME NEW i \in Calls PROVE body[i] # "draining"
        OBVIOUS
      <4>1. CASE i < pump.i
        BY <4>1 DEF BodyInv
      <4>2. CASE i = pump.i
        BY <1>1, <4>2
      <4>3. CASE i > pump.i
        BY <4>3 DEF BodyInv
      <4>4. QED
        BY <1>1, <4>1, <4>2, <4>3
    <3>2. QED
      BY <1>2, <3>1 DEF TypeOK
  <2>2. \A i \in Exclusives' : body'[i] # "running"
    <3>1. \A i \in Exclusives : i \notin Reads /\ body[i] # "running"
      <4>1. \A i \in Exclusives : i \in Calls /\ i \notin Reads
        BY DEF Exclusives, Reads
      <4>2. SUFFICES ASSUME NEW i \in Exclusives PROVE body[i] # "running"
        BY <4>1
      <4>3. CASE i < pump.i
        BY <4>1, <4>3 DEF BodyInv
      <4>4. CASE i = pump.i
        BY <1>1, <4>4
      <4>5. CASE i > pump.i
        BY <4>1, <4>5 DEF BodyInv
      <4>6. QED
        BY <1>1, <4>1, <4>3, <4>4, <4>5
    <3>2. QED
      BY <1>1, <1>2, <3>1 DEF TypeOK, Exclusives
  <2>3. QED
    BY <2>1, <2>2 DEF DrainInv, Exclusives
<1>8. FailInv'
  BY <1>1, <1>2 DEF TypeOK, BodyInv, FailInv, Reads, Exclusives
<1>9. TurnInv'
  BY <1>1 DEF TurnInv
<1>10. HistoryInv'
  <2>1. \A k \in 1 .. Len(history) : k # pump.i /\ k \in Calls
    BY <1>1 DEF TypeOK, HistoryInv, Recorded
  <2>2. \A k \in 1 .. Len(history) : body'[k] = body[k] /\ outcome'[k] = outcome[k]
    BY <1>1, <1>2, <2>1 DEF TypeOK
  <2>3. QED
    BY <1>1, <2>1, <2>2 DEF HistoryInv, Recorded
<1>11. Holding' = Holding
  BY <1>1, <1>2 DEF TypeOK, Holding, Reads
<1>12. PermitsConserved'
  BY <1>1, <1>11 DEF PermitsConserved
<1>13. QED
  BY <1>3, <1>4, <1>5, <1>6, <1>7, <1>8, <1>9, <1>10, <1>12

LEMMA DrainedAndRunPreserves ==
  ASSUME IInv, NEW i \in Calls, DrainedAndRun(i)
  PROVE  IInv'
<1> USE ExecutorAssumption DEF IInv, DrainedAndRun
<1>1. TypeOK'
  BY DEF TypeOK, PumpStates, Outcomes, Kinds, TurnOver
<1>2. PumpInv'
  BY DEF TypeOK, PumpInv, TurnInv
<1>3. BodyInv'
  BY DEF TypeOK, PumpInv, BodyInv, TurnInv, Reads, Exclusives, Kinds, LaneFor
<1>4. OutcomeInv'
  BY DEF TypeOK, PumpInv, BodyInv, OutcomeInv
<1>5. DrainInv'
  <2>1. i = pump.i /\ pump.pc = "exclusive"
    BY SMTT(20) DEF TypeOK, PumpStates, BodyInv
  <2>2. i \notin Reads
    BY <2>1 DEF BodyInv, Reads, Exclusives
  <2>3. UNCHANGED <<kind, drainSet>> /\ body' = [body EXCEPT ![i] = "running"]
    OBVIOUS
  <2>4. InFlightReads' = InFlightReads /\ InFlightReads = {}
    BY <2>2, <2>3 DEF TypeOK, DrainInv, InFlightReads, Running, Reads
  <2>5. \A j \in Calls : body'[j] # "draining"
    BY <2>1, <2>3, SMTT(20) DEF TypeOK, BodyInv
  <2>6. QED
    BY <2>4, <2>5 DEF DrainInv
<1>6. FailInv'
  BY DEF TypeOK, PumpInv, BodyInv, FailInv, OutcomeInv, TurnInv, Reads, Exclusives, Kinds, LaneFor
<1>7. TurnInv'
  BY DEF TypeOK, PumpInv, BodyInv, TurnInv, HistoryInv, TurnOver
<1>8. HistoryInv'
  BY DEF TypeOK, PumpInv, BodyInv, OutcomeInv, TurnInv, HistoryInv, Recorded
<1>9. Holding' = Holding
  <2>1. i = pump.i /\ pump.pc = "exclusive"
    BY SMTT(20) DEF TypeOK, PumpStates, BodyInv
  <2>2. i \notin Reads
    BY <2>1 DEF BodyInv, Reads, Exclusives
  <2>3. UNCHANGED <<pump, kind>> /\ \A j \in Calls : j # i => body'[j] = body[j]
    BY DEF TypeOK
  <2>4. QED
    BY <2>1, <2>2, <2>3 DEF Holding, Reads
<1>10. PermitsConserved'
  BY <1>9 DEF TypeOK, PermitsConserved
<1>11. QED
  BY <1>1, <1>2, <1>3, <1>4, <1>5, <1>6, <1>7, <1>8, <1>10

LEMMA DrainedButUnwritablePreserves ==
  ASSUME IInv, NEW i \in Calls, DrainedButUnwritable(i)
  PROVE  IInv'
<1> USE ExecutorAssumption DEF IInv, DrainedButUnwritable
<1>1. TypeOK'
  BY DEF TypeOK, PumpStates, Outcomes, Kinds, TurnOver
<1>2. PumpInv'
  BY DEF TypeOK, PumpInv, TurnInv
<1>3. BodyInv'
  BY DEF TypeOK, PumpInv, BodyInv, TurnInv, Reads, Exclusives, Kinds, LaneFor
<1>4. OutcomeInv'
  BY DEF TypeOK, PumpInv, BodyInv, OutcomeInv
<1>5. DrainInv'
  BY DEF TypeOK, PumpInv, BodyInv, DrainInv, InFlightReads, Running, Reads, Exclusives, Kinds, LaneFor
<1>6. FailInv'
  BY DEF TypeOK, PumpInv, BodyInv, FailInv, OutcomeInv, TurnInv, Reads, Exclusives, Kinds, LaneFor
<1>7. TurnInv'
  BY DEF TypeOK, PumpInv, BodyInv, TurnInv, HistoryInv, TurnOver
<1>8. HistoryInv'
  BY DEF TypeOK, PumpInv, BodyInv, OutcomeInv, TurnInv, HistoryInv, Recorded
<1>9. Holding' = Holding
  <2>1. i = pump.i /\ pump.pc = "exclusive"
    BY SMTT(20) DEF TypeOK, PumpStates, BodyInv
  <2>2. i \notin Reads
    BY <2>1 DEF BodyInv, Reads, Exclusives
  <2>3. UNCHANGED <<pump, kind>> /\ \A j \in Calls : j # i => body'[j] = body[j]
    BY DEF TypeOK
  <2>4. QED
    BY <2>1, <2>2, <2>3 DEF Holding, Reads
<1>10. PermitsConserved'
  BY <1>9 DEF TypeOK, PermitsConserved
<1>11. QED
  BY <1>1, <1>2, <1>3, <1>4, <1>5, <1>6, <1>7, <1>8, <1>10

LEMMA BodyReturnsPreserves ==
  ASSUME IInv, NEW i \in Calls, NEW o \in {"ok", "error", "aborted"}, BodyReturns(i, o)
  PROVE  IInv'
<1> USE ExecutorAssumption DEF IInv, BodyReturns
<1>1. TypeOK'
  BY DEF TypeOK, PumpStates, Outcomes, Kinds, TurnOver
<1>2. PumpInv'
  BY DEF TypeOK, PumpInv, TurnInv
<1>3. BodyInv'
  BY DEF TypeOK, PumpInv, BodyInv, TurnInv, Reads, Exclusives, Kinds, LaneFor
<1>4. OutcomeInv'
  BY DEF TypeOK, PumpInv, BodyInv, OutcomeInv
<1>5. DrainInv'
  BY DEF TypeOK, PumpInv, BodyInv, DrainInv, InFlightReads, Running, Reads, Exclusives, Kinds, LaneFor
<1>6. FailInv'
  BY DEF TypeOK, PumpInv, BodyInv, FailInv, OutcomeInv, TurnInv, Reads, Exclusives, Kinds, LaneFor
<1>7. TurnInv'
  BY DEF TypeOK, PumpInv, BodyInv, TurnInv, HistoryInv, TurnOver
<1>8. HistoryInv'
  BY ZenonT(30) DEF TypeOK, PumpInv, BodyInv, OutcomeInv, TurnInv, HistoryInv, Recorded
<1>9. Holding' = Holding
  BY DEF TypeOK, PumpInv, BodyInv, Holding, Reads, Exclusives, Kinds, LaneFor
<1>10. PermitsConserved'
  BY <1>9 DEF TypeOK, PermitsConserved
<1>11. QED
  BY <1>1, <1>2, <1>3, <1>4, <1>5, <1>6, <1>7, <1>8, <1>10

LEMMA RecordReadPreserves ==
  ASSUME IInv, NEW i \in Calls, RecordRead(i)
  PROVE  IInv'
<1> USE ExecutorAssumption DEF IInv, RecordRead
<1>1. TypeOK'
  BY DEF TypeOK, PumpStates, Outcomes, Kinds, TurnOver
<1>2. PumpInv'
  BY DEF TypeOK, PumpInv, TurnInv
<1>3. BodyInv'
  BY DEF TypeOK, PumpInv, BodyInv, TurnInv, Reads, Exclusives, Kinds, LaneFor
<1>4. OutcomeInv'
  BY DEF TypeOK, PumpInv, BodyInv, OutcomeInv
<1>5. DrainInv'
  BY DEF TypeOK, PumpInv, BodyInv, DrainInv, InFlightReads, Running, Reads, Exclusives, Kinds, LaneFor
<1>6. FailInv'
  BY SMTT(20) DEF TypeOK, PumpInv, BodyInv, FailInv, OutcomeInv, TurnInv, Reads, Exclusives, Kinds, LaneFor
<1>7. TurnInv'
  BY DEF TypeOK, PumpInv, BodyInv, TurnInv, HistoryInv, TurnOver
<1>8. HistoryInv'
  BY DEF TypeOK, PumpInv, BodyInv, OutcomeInv, TurnInv, HistoryInv, Recorded
<1>9. Holding' = Holding
  BY DEF TypeOK, PumpInv, BodyInv, Holding, Reads, Exclusives, Kinds, LaneFor
<1>10. PermitsConserved'
  BY <1>9 DEF TypeOK, PermitsConserved
<1>11. QED
  BY <1>1, <1>2, <1>3, <1>4, <1>5, <1>6, <1>7, <1>8, <1>10

LEMMA ReleaseReadPreserves ==
  ASSUME IInv, NEW i \in Calls, ReleaseRead(i)
  PROVE  IInv'
<1> USE ExecutorAssumption DEF IInv
<1>1. /\ i \in Reads /\ i < pump.i /\ body[i] = "recorded"
      /\ body' = [body EXCEPT ![i] = "settled"]
      /\ UNCHANGED <<consumerVars, kind, outcome, drainSet, abortVars, stopRequested, history>>
  <2>1. body[i] = "recorded" /\ i \in Nat /\ pump.i \in Nat
    BY DEF ReleaseRead, TypeOK
  <2>2. i < pump.i
    <3>1. i # pump.i
      BY <2>1 DEF BodyInv, TypeOK, PumpStates
    <3>2. QED
      BY <2>1, <3>1 DEF BodyInv
  <2>3. i \in Reads
    BY <2>1, <2>2 DEF BodyInv
  <2>4. QED
    BY <2>1, <2>2, <2>3 DEF ReleaseRead
<1>2. \/ pump.pc = "queued" /\ pump' = [pc |-> "granted", i |-> pump.i] /\ permits' = permits
      \/ pump.pc # "queued" /\ permits' = permits + 1 /\ pump' = pump
  BY DEF ReleaseRead, ReleasePermit, TypeOK
<1>3. PermitsConserved' /\ permits' \in 0 .. ReadConcurrency
  <2>1. i \in Holding
    BY <1>1 DEF Holding
  <2>2. IsFiniteSet(Holding \ {i}) /\ Cardinality(Holding \ {i}) = Cardinality(Holding) - 1
    BY <2>1, HoldingFinite, FS_RemoveElement
  <2>3. CASE pump.pc = "queued"
    <3>1. Holding' = (Holding \ {i}) \cup {pump.i} /\ pump.i \notin Holding \ {i}
      BY <1>1, <1>2, <2>3 DEF TypeOK, BodyInv, Holding, Reads
    <3>2. Cardinality(Holding') = Cardinality(Holding)
      <4>1. Cardinality((Holding \ {i}) \cup {pump.i}) = Cardinality(Holding \ {i}) + 1
        BY <2>2, <3>1, FS_AddElement
      <4>2. QED
        BY <2>2, <3>1, <4>1, HoldingFinite
    <3>3. QED
      BY <1>2, <2>3, <3>2 DEF TypeOK, PermitsConserved
  <2>4. CASE pump.pc # "queued"
    <3>1. Holding' = Holding \ {i}
      BY <1>1, <1>2, <2>4 DEF TypeOK, Holding, Reads
    <3>2. Cardinality(Holding') \in Nat
      BY <2>2, <3>1, FS_CardinalityType
    <3>3. QED
      <4>1. permits \in Nat /\ Cardinality(Holding) \in Nat /\ permits + Cardinality(Holding) = ReadConcurrency
        BY HoldingFinite DEF TypeOK, PermitsConserved
      <4>2. Cardinality(Holding') = Cardinality(Holding) - 1 /\ permits' = permits + 1 /\ pump'.pc # "queued"
        BY <1>2, <2>2, <2>4, <3>1
      <4>3. QED
        BY <3>2, <4>1, <4>2 DEF PermitsConserved
  <2>5. QED
    BY <2>3, <2>4
<1>4. TypeOK'
  BY <1>1, <1>2, <1>3 DEF TypeOK, PumpStates
<1>5. PumpInv' /\ OutcomeInv'
  BY <1>1, <1>2 DEF TypeOK, PumpInv, OutcomeInv
<1>6. BodyInv'
  BY <1>1, <1>2 DEF TypeOK, BodyInv, Reads, Exclusives
<1>7. DrainInv' /\ TurnInv' /\ HistoryInv'
  <2>1. InFlightReads' = InFlightReads
    BY <1>1 DEF TypeOK, InFlightReads, Running, Reads
  <2>2. DrainInv'
    BY <1>1, <2>1 DEF TypeOK, DrainInv, Exclusives
  <2>3. TurnInv' /\ HistoryInv'
    BY <1>1 DEF TypeOK, TurnInv, HistoryInv, Recorded
  <2>4. QED
    BY <2>2, <2>3
<1>8. FailInv'
  BY <1>1, <1>2 DEF TypeOK, FailInv, Reads, Exclusives
<1>9. QED
  BY <1>3, <1>4, <1>5, <1>6, <1>7, <1>8

LEMMA RecordExclusivePreserves ==
  ASSUME IInv, NEW i \in Calls, RecordExclusive(i)
  PROVE  IInv'
<1> USE ExecutorAssumption DEF IInv
<1>1. /\ i \in Exclusives /\ i \notin Reads /\ i = pump.i /\ pump.pc = "exclusive" /\ i <= entries
      /\ body[i] = "returned" /\ outcome[i] \notin {"none", "blocked"}
      /\ body' = [body EXCEPT ![i] = "settled"]
      /\ pump' = [pc |-> "waiting", i |-> i + 1]
      /\ UNCHANGED <<consumerVars, permits, kind, outcome, drainSet, userAborted, stopRequested, history>>
  <2>1. i \in Exclusives /\ i \notin Reads /\ body[i] = "returned"
    BY DEF RecordExclusive, Reads, Exclusives
  <2>2. i = pump.i /\ pump.pc = "exclusive"
    BY <2>1 DEF TypeOK, PumpStates, BodyInv
  <2>3. QED
    BY <2>1, <2>2 DEF RecordExclusive, NextIndex, TypeOK, PumpInv, OutcomeInv
<1>2. /\ childAborted' \in BOOLEAN
      /\ childAborted => childAborted'
      /\ AbortSiblingExecuteOnError /\ outcome[i] # "ok" => childAborted'
  BY DEF RecordExclusive, IsExecuteError, TypeOK
<1>3. TypeOK'
  BY <1>1, <1>2 DEF TypeOK, PumpStates
<1>4. PumpInv' /\ OutcomeInv'
  BY <1>1 DEF TypeOK, PumpInv, OutcomeInv
<1>5. BodyInv'
  BY <1>1 DEF TypeOK, BodyInv, Reads, Exclusives
<1>6. DrainInv' /\ TurnInv' /\ HistoryInv'
  <2>1. InFlightReads' = InFlightReads
    BY <1>1 DEF TypeOK, InFlightReads, Running, Reads
  <2>2. DrainInv'
    BY <1>1, <2>1 DEF TypeOK, DrainInv, Exclusives
  <2>3. TurnInv' /\ HistoryInv'
    BY <1>1 DEF TypeOK, TurnInv, HistoryInv, Recorded
  <2>4. QED
    BY <2>2, <2>3
<1>7. FailInv'
  <2>1. \A j \in Calls : i < j => outcome[j] = "none" /\ body[j] = "idle"
    BY <1>1 DEF TypeOK, BodyInv, OutcomeInv
  <2>2. SUFFICES ASSUME AbortSiblingExecuteOnError, NEW f \in Exclusives,
                        body'[f] = "settled", outcome[f] \in {"error", "aborted", "unwritable"}
                 PROVE  /\ childAborted'
                        /\ \A j \in Calls : f < j => /\ outcome[j] \in {"none", "blocked"}
                                                     /\ body'[j] \in {"idle", "settled"}
    BY <1>1 DEF FailInv, Exclusives
  <2>3. CASE f = i
    BY <1>1, <1>2, <2>1, <2>2, <2>3 DEF TypeOK
  <2>4. CASE f # i
    BY <1>1, <2>2, <2>4 DEF TypeOK, FailInv, Exclusives
  <2>5. QED
    BY <2>3, <2>4
<1>8. Holding' = Holding
  <2>1. pump.pc # "granted" /\ pump'.pc # "granted" /\ \A j \in Calls : j # i => body'[j] = body[j]
    BY <1>1 DEF TypeOK
  <2>2. QED
    BY <1>1, <2>1 DEF Holding, Reads
<1>9. PermitsConserved'
  BY <1>1, <1>8 DEF PermitsConserved
<1>10. QED
  BY <1>3, <1>4, <1>5, <1>6, <1>7, <1>9

LEMMA RecordUpdatePreserves ==
  ASSUME IInv, RecordUpdate
  PROVE  IInv'
<1> USE ExecutorAssumption DEF IInv
<1> DEFINE next == Len(history) + 1
<1>1. /\ turn = "recording" /\ next \in Calls /\ next \in Recorded
      /\ UNCHANGED <<entries, finished, hadContent, pump, permits, bodyVars, abortVars, stopRequested>>
  BY DEF RecordUpdate, Recorded
<1>2. next <= entries /\ outcome[next] \in Outcomes \ {"none"}
  <2>1. next < pump.i
    BY <1>1, SMTT(20) DEF TypeOK, PumpStates, BodyInv, Recorded
  <2>2. QED
    BY <1>1, <2>1 DEF TypeOK, PumpInv, OutcomeInv, Recorded
<1>3. \/ turn' = "returned" /\ history' = history
      \/ turn' = turn /\ history' = Append(history, [index |-> next, outcome |-> outcome[next]])
  BY DEF RecordUpdate
<1>4. /\ history' \in Seq([index : Calls, outcome : Outcomes \ {"none"}])
      /\ Len(history') \in {Len(history), next} /\ Len(history') <= entries
      /\ \A k \in 1 .. Len(history') :
            history'[k] = IF k = next THEN [index |-> next, outcome |-> outcome[next]] ELSE history[k]
  <2>1. [index |-> next, outcome |-> outcome[next]] \in [index : Calls, outcome : Outcomes \ {"none"}]
    BY <1>1, <1>2
  <2>2. history \in Seq([index : Calls, outcome : Outcomes \ {"none"}]) /\ Len(history) \in Nat
    BY DEF TypeOK
  <2>3. CASE history' = history
    BY <1>2, <2>2, <2>3 DEF HistoryInv
  <2>4. CASE history' = Append(history, [index |-> next, outcome |-> outcome[next]])
    <3>1. /\ history' \in Seq([index : Calls, outcome : Outcomes \ {"none"}])
          /\ Len(history') = next
          /\ \A k \in 1 .. next : history'[k] = IF k = next THEN [index |-> next, outcome |-> outcome[next]]
                                                            ELSE history[k]
      BY <2>1, <2>2, <2>4
    <3>2. QED
      BY <1>2, <3>1
  <2>5. QED
    BY <1>3, <2>3, <2>4
<1>5. TypeOK'
  BY <1>1, <1>2, <1>3, <1>4 DEF TypeOK, TurnOver
<1>6. PumpInv' /\ BodyInv' /\ OutcomeInv' /\ DrainInv' /\ FailInv'
  BY <1>1 DEF PumpInv, BodyInv, OutcomeInv, DrainInv, FailInv, InFlightReads, Running, Reads, Exclusives
<1>7. TurnInv'
  BY <1>1, <1>3 DEF TurnInv
<1>8. HistoryInv'
  <2>1. \A k \in 1 .. Len(history') : k = next \/ k \in 1 .. Len(history)
    BY <1>4, SMTT(20) DEF TypeOK
  <2>2. \A k \in 1 .. Len(history') : k \in Recorded /\ history'[k] = [index |-> k, outcome |-> outcome[k]]
    BY <1>1, <1>4, <2>1 DEF HistoryInv
  <2>3. QED
    BY <1>1, <1>4, <2>2 DEF HistoryInv, Recorded
<1>9. PermitsConserved'
  BY <1>1 DEF PermitsConserved, Holding, Reads
<1>10. QED
  BY <1>5, <1>6, <1>7, <1>8, <1>9

LEMMA TurnEndsPreserves ==
  ASSUME IInv, TurnEnds
  PROVE  IInv'
<1> USE ExecutorAssumption DEF IInv, TurnEnds, UpdatesExhausted
<1>1. TypeOK'
  BY DEF TypeOK, PumpStates, Outcomes, Kinds, TurnOver
<1>2. PumpInv'
  BY DEF TypeOK, PumpInv, TurnInv
<1>3. BodyInv'
  BY DEF TypeOK, PumpInv, BodyInv, TurnInv, Reads, Exclusives, Kinds, LaneFor
<1>4. OutcomeInv'
  BY DEF TypeOK, PumpInv, BodyInv, OutcomeInv
<1>5. DrainInv'
  BY DEF TypeOK, PumpInv, BodyInv, DrainInv, InFlightReads, Running, Reads, Exclusives, Kinds, LaneFor
<1>6. FailInv'
  BY DEF TypeOK, PumpInv, BodyInv, FailInv, OutcomeInv, TurnInv, Reads, Exclusives, Kinds, LaneFor
<1>7. TurnInv'
  BY DEF TypeOK, PumpInv, BodyInv, TurnInv, HistoryInv, TurnOver
<1>8. HistoryInv'
  BY DEF TypeOK, PumpInv, BodyInv, OutcomeInv, TurnInv, HistoryInv, Recorded
<1>9. Holding' = Holding
  BY DEF TypeOK, PumpInv, BodyInv, Holding, Reads, Exclusives, Kinds, LaneFor
<1>10. PermitsConserved'
  BY <1>9 DEF TypeOK, PermitsConserved
<1>11. QED
  BY <1>1, <1>2, <1>3, <1>4, <1>5, <1>6, <1>7, <1>8, <1>10

LEMMA UserAbortPreserves ==
  ASSUME IInv, UserAbort
  PROVE  IInv'
<1> USE ExecutorAssumption DEF IInv, UserAbort
<1>1. TypeOK'
  BY DEF TypeOK, PumpStates, Outcomes, Kinds, TurnOver
<1>2. PumpInv'
  BY DEF TypeOK, PumpInv, TurnInv
<1>3. BodyInv'
  BY DEF TypeOK, PumpInv, BodyInv, TurnInv, Reads, Exclusives, Kinds, LaneFor
<1>4. OutcomeInv'
  BY DEF TypeOK, PumpInv, BodyInv, OutcomeInv
<1>5. DrainInv'
  BY DEF TypeOK, PumpInv, BodyInv, DrainInv, InFlightReads, Running, Reads, Exclusives, Kinds, LaneFor
<1>6. FailInv'
  BY DEF TypeOK, PumpInv, BodyInv, FailInv, OutcomeInv, TurnInv, Reads, Exclusives, Kinds, LaneFor
<1>7. TurnInv'
  BY DEF TypeOK, PumpInv, BodyInv, TurnInv, HistoryInv, TurnOver
<1>8. HistoryInv'
  BY DEF TypeOK, PumpInv, BodyInv, OutcomeInv, TurnInv, HistoryInv, Recorded
<1>9. Holding' = Holding
  BY DEF TypeOK, PumpInv, BodyInv, Holding, Reads, Exclusives, Kinds, LaneFor
<1>10. PermitsConserved'
  BY <1>9 DEF TypeOK, PermitsConserved
<1>11. QED
  BY <1>1, <1>2, <1>3, <1>4, <1>5, <1>6, <1>7, <1>8, <1>10

LEMMA IdlePreserves ==
  ASSUME IInv, Idle
  PROVE  IInv'
<1> USE ExecutorAssumption DEF IInv, Idle, vars
<1>1. TypeOK'
  BY DEF TypeOK, PumpStates, Outcomes, Kinds, TurnOver
<1>2. PumpInv'
  BY DEF TypeOK, PumpInv, TurnInv
<1>3. BodyInv'
  BY DEF TypeOK, PumpInv, BodyInv, TurnInv, Reads, Exclusives, Kinds, LaneFor
<1>4. OutcomeInv'
  BY DEF TypeOK, PumpInv, BodyInv, OutcomeInv
<1>5. DrainInv'
  BY DEF TypeOK, PumpInv, BodyInv, DrainInv, InFlightReads, Running, Reads, Exclusives, Kinds, LaneFor
<1>6. FailInv'
  BY DEF TypeOK, PumpInv, BodyInv, FailInv, OutcomeInv, TurnInv, Reads, Exclusives, Kinds, LaneFor
<1>7. TurnInv'
  BY DEF TypeOK, PumpInv, BodyInv, TurnInv, HistoryInv, TurnOver
<1>8. HistoryInv'
  BY DEF TypeOK, PumpInv, BodyInv, OutcomeInv, TurnInv, HistoryInv, Recorded
<1>9. Holding' = Holding
  BY DEF TypeOK, PumpInv, BodyInv, Holding, Reads, Exclusives, Kinds, LaneFor
<1>10. PermitsConserved'
  BY <1>9 DEF TypeOK, PermitsConserved
<1>11. QED
  BY <1>1, <1>2, <1>3, <1>4, <1>5, <1>6, <1>7, <1>8, <1>10

-----------------------------------------------------------------------------
(* The theorems.                                                           *)

LEMMA InitInv == Init => IInv
<1> SUFFICES ASSUME Init PROVE IInv
  OBVIOUS
<1> USE ExecutorAssumption DEF Init
<1>1. TypeOK
  <2>1. history \in Seq([index : Calls, outcome : Outcomes \ {"none"}]) /\ Len(history) = 0
    OBVIOUS
  <2>2. pump \in [pc : PumpStates, i : 1 .. (MaxCalls + 1)] /\ turn = "streaming"
    BY DEF PumpStates
  <2>3. /\ kind \in [Calls -> Kinds \cup {"unknown"}]
        /\ body \in [Calls -> {"idle", "draining", "running", "returned", "recorded", "settled"}]
        /\ outcome \in [Calls -> Outcomes]
    BY DEF Outcomes
  <2>4. entries \in 0 .. MaxCalls /\ permits \in 0 .. ReadConcurrency /\ Len(history) <= MaxCalls
    BY <2>1
  <2>5. QED
    BY <2>1, <2>2, <2>3, <2>4 DEF TypeOK
<1>2. PumpInv /\ BodyInv /\ OutcomeInv
  BY DEF PumpInv, BodyInv, OutcomeInv
<1>3. DrainInv /\ FailInv /\ TurnInv /\ HistoryInv
  BY DEF DrainInv, FailInv, TurnInv, HistoryInv, Exclusives
<1>4. Holding = {}
  BY DEF Holding, Reads
<1>5. PermitsConserved
  BY <1>4, FS_EmptySet DEF PermitsConserved
<1>6. QED
  BY <1>1, <1>2, <1>3, <1>5 DEF IInv

LEMMA StepInv == IInv /\ [Next]_vars => IInv'
<1> SUFFICES ASSUME IInv, [Next]_vars PROVE IInv'
  OBVIOUS
<1>1. CASE Stream
  BY <1>1, TextDeltaPreserves, ToolCallCompletePreserves, StreamDonePreserves,
     StreamFailsPreserves, ChatResolvesPreserves, ChatThrowsPreserves DEF Stream
<1>2. CASE Pump
  BY <1>2, PumpEndsPreserves, TakeEntryPreserves, AuthorizeBlocksPreserves,
     AuthorizeReadPreserves, AuthorizeExclusivePreserves, LaunchReadPreserves DEF Pump
<1>3. ASSUME NEW i \in Calls, Execution(i) PROVE IInv'
  BY <1>3, DrainedAndRunPreserves, DrainedButUnwritablePreserves, BodyReturnsPreserves,
     RecordReadPreserves, ReleaseReadPreserves, RecordExclusivePreserves DEF Execution
<1>4. CASE Recorder
  BY <1>4, RecordUpdatePreserves, TurnEndsPreserves DEF Recorder
<1>5. CASE UserAbort
  BY <1>5, UserAbortPreserves
<1>6. CASE Idle
  BY <1>6, IdlePreserves
<1>7. CASE UNCHANGED vars
  BY <1>7 DEF vars, IInv, TypeOK, PumpInv, BodyInv, OutcomeInv, DrainInv, PermitsConserved,
     FailInv, TurnInv, HistoryInv, Holding, InFlightReads, Running, Reads, Exclusives, Recorded
<1>8. QED
  BY <1>1, <1>2, <1>3, <1>4, <1>5, <1>6, <1>7 DEF Next

\* The inductive invariant holds throughout a turn.
THEOREM Invariance == Spec => []IInv
<1>1. QED
  BY InitInv, StepInv, PTL DEF Spec

\* Every state of a turn is well typed; free permits stay in 0..ReadConcurrency.
THEOREM TypeCorrect == Spec => []TypeOK
<1>1. IInv => TypeOK
  BY DEF IInv
<1>2. QED
  BY Invariance, <1>1, PTL

\* release() and acquire() lose and make no permit, through the hand-off to the
\* queued pump and the abort of a read that was already granted one.
THEOREM PermitsNeverLost == Spec => []PermitsConserved
<1>1. IInv => PermitsConserved
  BY DEF IInv
<1>2. QED
  BY Invariance, <1>1, PTL

\* An exclusive call runs alone: the snapshot drainReads takes is enough, since
\* the pump launches no read while it awaits the exclusive call.
THEOREM ExclusiveRunsAlone == Spec => []ExclusiveAlone
<1>1. IInv => ExclusiveAlone
  <2> SUFFICES ASSUME IInv, NEW i \in Running \cap Exclusives, NEW j \in Running
                 PROVE  j = i
    BY DEF ExclusiveAlone
  <2>2. i \notin Reads /\ i \in Calls /\ body[i] = "running" /\ InFlightReads = {}
    <3>1. i \in Calls /\ body[i] = "running" /\ i \in Exclusives
      BY DEF Running
    <3>2. i \notin Reads
      BY <3>1 DEF Reads, Exclusives
    <3>3. QED
      BY <3>1, <3>2 DEF IInv, DrainInv
  <2>3. i = pump.i
    BY <2>2, ExecutorAssumption DEF IInv, TypeOK, BodyInv
  <2>4. j \notin Reads /\ j \in Calls /\ body[j] = "running"
    BY <2>2 DEF InFlightReads, Running
  <2>5. j = pump.i
    BY <2>4, ExecutorAssumption DEF IInv, TypeOK, BodyInv
  <2>6. QED
    BY <2>3, <2>5
<1>2. QED
  BY Invariance, <1>1, PTL

\* After a failed exclusive call nothing later in the message runs.
THEOREM FailureIsFinal == Spec => []FailureStopsLater
<1>1. IInv => FailureStopsLater
  BY DEF IInv, FailInv, FailureStopsLater
<1>2. QED
  BY Invariance, <1>1, PTL

\* The loop goes on to the next model call with a complete, ordered history
\* and nothing running.
THEOREM NextTurnIsQuiet == Spec => []NextTurnQuiet
<1>1. IInv => NextTurnQuiet
  <2> SUFFICES ASSUME IInv, turn = "next" PROVE NextTurnQuiet
    BY DEF NextTurnQuiet
  <2> USE ExecutorAssumption DEF IInv
  <2>1. Len(history) = entries /\ ~stopRequested /\ entries \in 0 .. MaxCalls
    BY DEF TurnInv, TypeOK
  <2>2. \A i \in 1 .. entries : i \in Recorded /\ history[i] = [index |-> i, outcome |-> outcome[i]]
    BY <2>1 DEF HistoryInv
  <2>3. history = [i \in 1 .. entries |-> [index |-> i, outcome |-> outcome[i]]]
    <3>1. history \in [1 .. Len(history) -> [index : Calls, outcome : Outcomes \ {"none"}]]
      BY LenProperties DEF TypeOK
    <3>2. QED
      BY <2>1, <2>2, <3>1
  <2>4. Running = {}
    <3>1. SUFFICES ASSUME NEW i \in Running PROVE FALSE
      OBVIOUS
    <3>2. i \in Calls /\ body[i] = "running"
      BY DEF Running
    <3>3. i > entries
      BY <2>1, <2>2, <3>2 DEF Recorded
    <3>4. i = pump.i /\ pump.pc = "exclusive"
      BY <2>1, <3>2, <3>3 DEF TypeOK, PumpStates, PumpInv, BodyInv
    <3>5. QED
      BY <2>1, <3>3, <3>4 DEF TypeOK, PumpInv
  <2>5. QED
    BY <2>1, <2>2, <2>3, <2>4 DEF NextTurnQuiet
<1>2. QED
  BY Invariance, <1>1, PTL

\* No step turns a blocked call into one that runs, or reports a call that is
\* running as blocked.
THEOREM BlockedNeverRuns == Spec => BlockedNeverRan
<1>1. IInv /\ [Next]_vars =>
        [\A i \in Calls : /\ (body[i] = "running" => outcome'[i] # "blocked")
                          /\ (outcome[i] = "blocked" => body'[i] # "running")]_vars
  <2>1. SUFFICES ASSUME IInv, Next, NEW i \in Calls
                 PROVE  /\ (body[i] = "running" => outcome'[i] # "blocked")
                        /\ (outcome[i] = "blocked" => body'[i] # "running")
    OBVIOUS
  <2>2. (body[i] = "running" => outcome[i] = "none") /\ (outcome[i] = "blocked" => body[i] # "running" /\ body[i] # "draining")
    BY <2>1 DEF IInv, OutcomeInv
  <2>3. CASE Stream \/ Recorder \/ UserAbort \/ Idle
    BY <2>2, <2>3 DEF Stream, TextDelta, ToolCallComplete, StreamDone, StreamFails, ChatResolves,
       ChatThrows, Recorder, RecordUpdate, TurnEnds, UserAbort, Idle, vars
  <2>4. CASE Pump
    <3>1. pump.i \in Calls => body[pump.i] # "running" \/ pump.pc \in {"exclusive", "waiting", "ended"}
      BY <2>1 DEF IInv, TypeOK, PumpStates, BodyInv
    <3>2. UNCHANGED <<body, outcome>> \/
          (/\ pump.i <= entries /\ pump.pc \in {"waiting", "authorizing", "granted"}
           /\ \A j \in Calls : j # pump.i => body'[j] = body[j] /\ outcome'[j] = outcome[j])
      BY <2>1, <2>4 DEF Pump, PumpEnds, TakeEntry, AuthorizeBlocks, AuthorizeRead, AuthorizeExclusive,
         LaunchRead, Record, IInv, TypeOK, PumpInv
    <3>3. CASE i # pump.i
      BY <2>2, <3>2, <3>3
    <3>4. CASE i = pump.i
      <4>1. (body[i] = "idle" /\ outcome[i] = "none") \/ UNCHANGED <<body, outcome>>
        BY <2>1, <3>2, <3>4 DEF IInv, OutcomeInv, BodyInv
      <4>2. QED
        BY <2>2, <4>1
    <3>5. QED
      BY <3>3, <3>4
  <2>5. ASSUME NEW j \in Calls, Execution(j)
        PROVE  /\ (body[i] = "running" => outcome'[i] # "blocked")
               /\ (outcome[i] = "blocked" => body'[i] # "running")
    BY <2>1, <2>2, <2>5 DEF Execution, DrainedAndRun, DrainedButUnwritable, BodyReturns, RecordRead,
       ReleaseRead, RecordExclusive, IInv, TypeOK
  <2>6. QED
    BY <2>1, <2>3, <2>4, <2>5 DEF Next
<1>2. QED
  BY Invariance, <1>1, PTL DEF Spec, BlockedNeverRan

-----------------------------------------------------------------------------
(* Refinement.                                                             *)

USE DEF Schedule!Calls

\* A step that changes neither the entries nor any call's state or outcome is
\* a stutter of the schedule, unless it records a result.
LEMMA ScheduleStutters ==
  ASSUME UNCHANGED <<entries, kind, body, outcome, history>>
  PROVE  UNCHANGED Schedule!svars
BY DEF Schedule!svars, SchedulePhase, StartedExclusives, Exclusives

\* What the schedule sees of a call.
LEMMA SchedulePhases ==
  ASSUME IInv, NEW i \in Calls
  PROVE  /\ SchedulePhase \in [Calls -> {"absent", "pending", "running", "settled"}]
         /\ SchedulePhase[i] = "running" <=> body[i] = "running"
         /\ SchedulePhase[i] = "settled" <=> body[i] \in {"returned", "recorded", "settled"}
         /\ SchedulePhase[i] = "pending" <=> body[i] \in {"idle", "draining"} /\ i <= entries
BY DEF IInv, TypeOK, SchedulePhase

\* One call changes: the schedule sees its phase change and no other.
LEMMA SchedulePhaseChange ==
  ASSUME IInv, IInv', NEW i \in Calls, entries' = entries,
         \A j \in Calls : j # i => body'[j] = body[j]
  PROVE  SchedulePhase' = [SchedulePhase EXCEPT ![i] = SchedulePhase'[i]]
BY DEF IInv, TypeOK, SchedulePhase

\* The accepted calls arrive.
LEMMA ArrivalRefines ==
  ASSUME IInv, entries' \in Calls, entries < entries', UNCHANGED <<kind, body, outcome, history>>
  PROVE  Schedule!Arrive(entries')
<1> USE ExecutorAssumption
<1>1. /\ entries \in Nat /\ entries' \in Nat
      /\ body \in [Calls -> {"idle", "draining", "running", "returned", "recorded", "settled"}]
      /\ pump.i \in Nat
  BY DEF IInv, TypeOK
<1>2. \A i \in Calls : i > entries => body[i] = "idle"
  BY <1>1 DEF IInv, TypeOK, PumpStates, PumpInv, BodyInv
<1>3. entries' \in Calls /\ SchedulePhase[entries'] = "absent"
  BY <1>1, <1>2 DEF SchedulePhase
<1>4. SchedulePhase' = [i \in Calls |-> IF i <= entries' /\ SchedulePhase[i] = "absent"
                                        THEN "pending" ELSE SchedulePhase[i]]
  BY <1>1, <1>2 DEF SchedulePhase
<1>5. UNCHANGED <<StartedExclusives, Len(history)>>
  BY DEF StartedExclusives, Exclusives
<1>6. QED
  BY <1>1, <1>3, <1>4, <1>5 DEF Schedule!Arrive

\* A call that is blocked in its turn settles without running.
LEMMA BlockRefines ==
  ASSUME IInv, IInv', pump.i \in Calls, pump.i <= entries, body[pump.i] = "idle",
         body' \in {[body EXCEPT ![pump.i] = "settled"], [body EXCEPT ![pump.i] = "recorded"]},
         outcome' = [outcome EXCEPT ![pump.i] = "blocked"],
         \A j \in Calls : j # pump.i => kind'[j] = kind[j],
         UNCHANGED <<entries, history>>
  PROVE  Schedule!Block(pump.i)
<1> DEFINE p == pump.i
<1>1. \A j \in Calls : j # p => body'[j] = body[j] /\ outcome'[j] = outcome[j]
  BY DEF IInv, TypeOK
<1>2. body'[p] \in {"settled", "recorded"} /\ outcome'[p] = "blocked"
  BY DEF IInv, TypeOK
<1>3. SchedulePhase[p] = "pending" /\ SchedulePhase'[p] = "settled"
  BY <1>2 DEF SchedulePhase
<1>4. SchedulePhase' = [SchedulePhase EXCEPT ![p] = "settled"]
  BY <1>1, <1>3, SchedulePhaseChange
<1>5. \A j \in 1 .. (p - 1) : SchedulePhase[j] \in {"running", "settled"}
  BY ExecutorAssumption, SchedulePhases DEF IInv, TypeOK, BodyInv
<1>6. StartedExclusives' = StartedExclusives
  BY <1>1, <1>2 DEF StartedExclusives, Exclusives
<1>7. QED
  BY <1>3, <1>4, <1>5, <1>6 DEF Schedule!Block

\* A read is launched: everything before it is decided, nothing exclusive runs,
\* and its permit leaves room for it.
LEMMA LaunchReadRefines ==
  ASSUME IInv, IInv', LaunchRead
  PROVE  Schedule!SNext
<1> DEFINE p == pump.i
<1>1. /\ p \in Calls /\ p \in Reads /\ p <= entries /\ body[p] = "idle"
      /\ outcome[p] = "none" /\ pump.pc = "granted"
  BY ExecutorAssumption DEF LaunchRead, IInv, TypeOK, PumpInv, BodyInv, OutcomeInv
<1>2. CASE childAborted
  <2>1. body' = [body EXCEPT ![p] = "recorded"] /\ outcome' = [outcome EXCEPT ![p] = "blocked"]
    BY <1>1, <1>2 DEF LaunchRead, Record, Recorded
  <2>2. Schedule!Block(p)
    BY <1>1, <2>1, BlockRefines DEF LaunchRead
  <2>3. QED
    BY <1>1, <2>2 DEF Schedule!SNext
<1>3. CASE ~childAborted
  <2>1. /\ body' = [body EXCEPT ![p] = "running"]
        /\ UNCHANGED <<entries, kind, outcome, history>>
    BY <1>3 DEF LaunchRead
  <2>2. SchedulePhase[p] = "pending" /\ SchedulePhase'[p] = "running"
    BY <1>1, <2>1 DEF IInv, TypeOK, SchedulePhase
  <2>3. SchedulePhase' = [SchedulePhase EXCEPT ![p] = "running"]
    BY <1>1, <2>1, <2>2, SchedulePhaseChange DEF IInv, TypeOK
  <2>4. \A j \in 1 .. (p - 1) : SchedulePhase[j] \in {"running", "settled"}
    BY <1>1, ExecutorAssumption, SchedulePhases DEF IInv, TypeOK, BodyInv
  <2>5. Schedule!In("running") = Running
    BY SchedulePhases DEF Schedule!In, Running
  <2>6. \A j \in Running : j \in Reads
    <3> SUFFICES ASSUME NEW j \in Running PROVE j \in Reads
      OBVIOUS
    <3>1. j \in Calls /\ body[j] = "running" /\ j \in Nat /\ p \in Nat
      BY <1>1, ExecutorAssumption DEF Running
    <3>2. j < p
      BY <1>1, <3>1 DEF IInv, BodyInv
    <3>3. QED
      BY <3>1, <3>2 DEF IInv, BodyInv
  <2>7. Running \cap StartedExclusives = {}
    BY <2>6 DEF StartedExclusives, Reads, Exclusives
  <2>8. Cardinality(Running) < ReadConcurrency
    <3>1. Running \subseteq Holding \ {p} /\ p \in Holding
      BY <1>1, <2>6 DEF Running, Holding
    <3>2. IsFiniteSet(Holding) /\ IsFiniteSet(Holding \ {p}) /\ Cardinality(Holding \ {p}) = Cardinality(Holding) - 1
      BY <3>1, HoldingFinite, FS_RemoveElement DEF IInv
    <3>3. IsFiniteSet(Running) /\ Cardinality(Running) <= Cardinality(Holding \ {p}) /\ Cardinality(Running) \in Nat
      BY <3>1, <3>2, FS_Subset, FS_CardinalityType
    <3>4. Cardinality(Holding) <= ReadConcurrency /\ Cardinality(Holding) \in Nat
      BY HoldingFinite, ExecutorAssumption DEF IInv, TypeOK, PermitsConserved
    <3>5. QED
      BY <3>2, <3>3, <3>4, ExecutorAssumption
  <2>9. UNCHANGED StartedExclusives
    <3>1. p \notin Exclusives /\ Exclusives' = Exclusives
      BY <1>1, <2>1 DEF Reads, Exclusives
    <3>2. \A j \in Exclusives : body'[j] = body[j] /\ outcome'[j] = outcome[j]
      BY <2>1, <3>1 DEF Exclusives, IInv, TypeOK
    <3>3. QED
      BY <3>1, <3>2 DEF StartedExclusives
  <2>10. Schedule!StartRead(p)
    <3>1. Schedule!In("running") \cap StartedExclusives = {}
      BY <2>5, <2>7
    <3>2. Schedule!Cardinality(Schedule!In("running")) < ReadConcurrency
      BY <2>5, <2>8 DEF Cardinality, Schedule!Cardinality
    <3>3. UNCHANGED Len(history)
      BY <2>1
    <3>4. QED
      BY <2>2, <2>3, <2>4, <2>9, <3>1, <3>2, <3>3 DEF Schedule!StartRead
  <2>11. QED
    BY <1>1, <2>10 DEF Schedule!SNext
<1>4. QED
  BY <1>2, <1>3

\* A drained exclusive call starts: every earlier call is over.
LEMMA DrainedRefines ==
  ASSUME IInv, IInv', NEW i \in Calls, DrainedAndRun(i) \/ DrainedButUnwritable(i)
  PROVE  Schedule!SNext
<1>1. body[i] = "draining" /\ outcome[i] = "none" /\ InFlightReads = {}
  BY DEF DrainedAndRun, DrainedButUnwritable, IInv, OutcomeInv, DrainInv
<1>2. i = pump.i /\ pump.pc = "exclusive" /\ i \in Exclusives /\ i <= entries
  <2>1. i \in Nat /\ pump.i \in Nat /\ pump.pc \in PumpStates /\ entries \in Nat
    BY ExecutorAssumption DEF IInv, TypeOK
  <2>2. i = pump.i
    BY <1>1, <2>1 DEF IInv, BodyInv
  <2>3. pump.pc = "exclusive"
    BY <1>1, <2>1, <2>2 DEF IInv, BodyInv, PumpStates
  <2>4. QED
    BY <2>2, <2>3 DEF IInv, BodyInv, PumpInv
<1>3. \A j \in 1 .. (i - 1) : SchedulePhase[j] = "settled"
  <2>1. \A j \in 1 .. (i - 1) : j \in Calls /\ j < pump.i
    BY <1>2, ExecutorAssumption
  <2>2. \A j \in 1 .. (i - 1) : body[j] \in {"returned", "recorded", "settled"}
    BY <1>1, <2>1 DEF IInv, BodyInv, InFlightReads, Running
  <2>3. QED
    BY <2>1, <2>2, SchedulePhases
<1>4. \A j \in Calls : j # i => body'[j] = body[j] /\ outcome'[j] = outcome[j]
  BY DEF DrainedAndRun, DrainedButUnwritable, IInv, TypeOK
<1>5. UNCHANGED <<entries, kind, history>>
  BY DEF DrainedAndRun, DrainedButUnwritable
<1>6. SchedulePhase[i] = "pending"
  BY <1>1, <1>2, SchedulePhases
<1>7. CASE DrainedAndRun(i)
  <2>1. body'[i] = "running" /\ outcome'[i] = "none"
    BY <1>1, <1>7 DEF DrainedAndRun, IInv, TypeOK
  <2>2. SchedulePhase' = [SchedulePhase EXCEPT ![i] = "running"]
    BY <1>4, <1>5, <2>1, SchedulePhaseChange DEF SchedulePhase
  <2>3. StartedExclusives' = StartedExclusives \cup {i}
    BY <1>2, <1>4, <1>5, <2>1 DEF StartedExclusives, Exclusives
  <2>4. Schedule!StartExclusive(i)
    BY <1>3, <1>5, <1>6, <2>2, <2>3 DEF Schedule!StartExclusive
  <2>5. QED
    BY <2>4 DEF Schedule!SNext
<1>8. CASE DrainedButUnwritable(i)
  <2>1. body'[i] = "returned" /\ outcome'[i] = "unwritable"
    BY <1>8 DEF DrainedButUnwritable, IInv, TypeOK
  <2>2. SchedulePhase' = [SchedulePhase EXCEPT ![i] = "settled"]
    BY <1>4, <1>5, <2>1, SchedulePhaseChange DEF SchedulePhase
  <2>3. StartedExclusives' = StartedExclusives
    BY <1>1, <1>4, <1>5, <2>1 DEF StartedExclusives, Exclusives
  <2>4. Schedule!Block(i)
    BY <1>3, <1>5, <1>6, <2>2, <2>3 DEF Schedule!Block
  <2>5. QED
    BY <2>4 DEF Schedule!SNext
<1>9. QED
  BY <1>7, <1>8

\* An invocation returns; what happens to its result later is not visible.
LEMMA CompletionRefines ==
  ASSUME IInv, IInv', NEW i \in Calls, Execution(i), ~DrainedAndRun(i), ~DrainedButUnwritable(i)
  PROVE  Schedule!SNext \/ UNCHANGED Schedule!svars
<1>1. /\ \A j \in Calls : j # i => body'[j] = body[j] /\ outcome'[j] = outcome[j]
      /\ UNCHANGED <<entries, kind, history>>
  BY DEF Execution, BodyReturns, RecordRead, ReleaseRead, RecordExclusive, IInv, TypeOK
<1>2. CASE body[i] = "running"
  <2>1. body'[i] = "returned" /\ outcome'[i] \in {"ok", "error", "aborted"} /\ outcome[i] = "none"
    BY <1>2 DEF Execution, BodyReturns, RecordRead, ReleaseRead, RecordExclusive, IInv, TypeOK, OutcomeInv
  <2>2. SchedulePhase' = [SchedulePhase EXCEPT ![i] = "settled"]
    BY <1>1, <2>1, SchedulePhaseChange DEF SchedulePhase
  <2>3. StartedExclusives' = StartedExclusives
    BY <1>1, <1>2, <2>1 DEF StartedExclusives, Exclusives
  <2>4. Schedule!Finish(i)
    BY <1>1, <1>2, <2>2, <2>3, SchedulePhases DEF Schedule!Finish
  <2>5. QED
    BY <2>4 DEF Schedule!SNext
<1>3. CASE body[i] # "running"
  <2>1. /\ body[i] \in {"returned", "recorded"} /\ body'[i] \in {"recorded", "settled"}
        /\ outcome'[i] = outcome[i]
    BY <1>3 DEF Execution, BodyReturns, RecordRead, ReleaseRead, RecordExclusive, IInv, TypeOK
  <2>2. SchedulePhase' = SchedulePhase
    <3>1. SchedulePhase[i] = "settled" /\ SchedulePhase'[i] = "settled"
      BY <2>1 DEF SchedulePhase
    <3>2. SchedulePhase' = [SchedulePhase EXCEPT ![i] = SchedulePhase[i]]
      BY <1>1, <3>1, SchedulePhaseChange
    <3>3. QED
      BY <3>2, SchedulePhases
  <2>3. StartedExclusives' = StartedExclusives
    BY <1>1, <2>1 DEF StartedExclusives, Exclusives
  <2>4. QED
    BY <1>1, <2>2, <2>3 DEF Schedule!svars
<1>4. QED
  BY <1>2, <1>3

\* A result is recorded into the history: the schedule hands it out.
LEMMA RecordingRefines ==
  ASSUME IInv, IInv', RecordUpdate
  PROVE  Schedule!SNext \/ UNCHANGED Schedule!svars
<1>1. UNCHANGED <<entries, kind, body, outcome>>
  BY DEF RecordUpdate
<1>2. CASE UNCHANGED history
  BY <1>1, <1>2, ScheduleStutters
<1>3. CASE ~UNCHANGED history
  <2>1. Len(history') = Len(history) + 1 /\ Len(history) + 1 \in Recorded
    BY <1>3 DEF RecordUpdate, IInv, TypeOK
  <2>2. SchedulePhase[Len(history) + 1] = "settled" /\ Len(history) + 1 \in Calls
    BY <2>1, SchedulePhases DEF Recorded
  <2>3. UNCHANGED <<SchedulePhase, StartedExclusives>>
    BY <1>1 DEF SchedulePhase, StartedExclusives, Exclusives
  <2>4. Schedule!Emit
    BY <2>1, <2>2, <2>3 DEF Schedule!Emit, Schedule!In
  <2>5. QED
    BY <2>4 DEF Schedule!SNext
<1>4. QED
  BY <1>2, <1>3

\* A turn starts as a schedule starts.
LEMMA InitRefines == Init => Schedule!SInit
BY DEF Init, Schedule!SInit, SchedulePhase, StartedExclusives, Exclusives, Kinds

LEMMA StepRefines ==
  IInv /\ IInv' /\ [Next]_vars => [Schedule!SNext]_Schedule!svars
<1> SUFFICES ASSUME IInv, IInv', [Next]_vars
             PROVE  Schedule!SNext \/ UNCHANGED Schedule!svars
  OBVIOUS
<1> USE ExecutorAssumption
<1>1. CASE Stream
  <2>1. UNCHANGED <<kind, body, outcome, history>>
    BY <1>1 DEF Stream, TextDelta, ToolCallComplete, StreamDone, StreamFails, ChatResolves, ChatThrows
  <2>2. entries' = entries \/ (entries' \in Calls /\ entries < entries')
    <3>1. ASSUME NEW n \in 0 .. MaxCalls, ChatResolves(n) PROVE entries' = n /\ entries = 0
      BY <3>1 DEF ChatResolves, IInv, TurnInv
    <3>2. QED
      BY <1>1, <3>1 DEF Stream, TextDelta, ToolCallComplete, StreamDone, StreamFails, ChatThrows,
         IInv, TypeOK
  <2>3. CASE entries' = entries
    BY <2>1, <2>3, ScheduleStutters
  <2>4. CASE entries' \in Calls /\ entries < entries'
    BY <2>1, <2>4, ArrivalRefines DEF Schedule!SNext
  <2>5. QED
    BY <2>2, <2>3, <2>4
<1>2. CASE Pump
  <2>1. CASE PumpEnds \/ \E k \in Kinds : AuthorizeRead(k)
    <3>1. CASE PumpEnds
      BY <3>1, ScheduleStutters DEF PumpEnds
    <3>2. ASSUME NEW k \in Kinds, AuthorizeRead(k) PROVE UNCHANGED Schedule!svars
      <4>1. UNCHANGED <<entries, body, outcome, history>> /\ pump.i \in Calls
        BY <3>2 DEF AuthorizeRead, IInv, TypeOK, PumpInv
      <4>2. SchedulePhase' = SchedulePhase
        BY <4>1 DEF SchedulePhase
      <4>3. body[pump.i] = "idle" /\ \A j \in Calls : j # pump.i => kind'[j] = kind[j]
        BY <3>2, <4>1 DEF AuthorizeRead, IInv, TypeOK, BodyInv
      <4>4. StartedExclusives' = StartedExclusives
        BY <4>1, <4>3 DEF StartedExclusives, Exclusives
      <4>5. QED
        BY <4>1, <4>2, <4>4 DEF Schedule!svars
    <3>3. QED
      BY <2>1, <3>1, <3>2
  <2>2. ASSUME TakeEntry \/ (\E stop \in BOOLEAN : AuthorizeBlocks(stop))
               \/ (\E k \in Kinds : AuthorizeExclusive(k))
        PROVE  Schedule!SNext \/ UNCHANGED Schedule!svars
    <3>1. pump.i \in Calls /\ pump.i <= entries /\ body[pump.i] = "idle" /\ pump.i \notin Recorded
      BY <2>2 DEF TakeEntry, AuthorizeBlocks, AuthorizeExclusive, IInv, TypeOK, PumpInv, BodyInv, Recorded
    <3>2. UNCHANGED <<entries, history>> /\ \A j \in Calls : j # pump.i => kind'[j] = kind[j]
      BY <2>2 DEF TakeEntry, AuthorizeBlocks, AuthorizeExclusive, IInv, TypeOK
    <3>3. CASE Record(pump.i, "blocked", "settled")
      <4>1. Schedule!Block(pump.i)
        BY <3>1, <3>2, <3>3, BlockRefines DEF Record
      <4>2. QED
        BY <3>1, <4>1 DEF Schedule!SNext
    <3>4. CASE TakeEntry /\ ~Record(pump.i, "blocked", "settled")
      BY <3>4, ScheduleStutters DEF TakeEntry
    <3>5. ASSUME NEW k \in Kinds, AuthorizeExclusive(k), ~Record(pump.i, "blocked", "settled")
          PROVE  UNCHANGED Schedule!svars
      <4>1. body' = [body EXCEPT ![pump.i] = "draining"] /\ outcome' = outcome
        BY <3>5 DEF AuthorizeExclusive
      <4>2. \A j \in Calls : j # pump.i => body'[j] = body[j]
        BY <4>1 DEF IInv, TypeOK
      <4>3. body'[pump.i] = "draining"
        BY <3>1, <4>1 DEF IInv, TypeOK
      <4>4. SchedulePhase' = SchedulePhase
        <5>1. SchedulePhase[pump.i] = "pending" /\ SchedulePhase'[pump.i] = "pending"
          BY <3>1, <3>2, <4>3 DEF SchedulePhase
        <5>2. SchedulePhase' = [SchedulePhase EXCEPT ![pump.i] = SchedulePhase[pump.i]]
          BY <3>1, <3>2, <4>2, <5>1, SchedulePhaseChange
        <5>3. QED
          BY <3>1, <5>2, SchedulePhases
      <4>5. StartedExclusives' = StartedExclusives
        BY <3>1, <3>2, <4>1, <4>2, <4>3 DEF StartedExclusives, Exclusives
      <4>6. QED
        BY <3>2, <4>4, <4>5 DEF Schedule!svars
    <3>6. QED
      BY <2>2, <3>3, <3>4, <3>5 DEF AuthorizeBlocks
  <2>3. CASE LaunchRead
    BY <2>3, LaunchReadRefines
  <2>4. QED
    BY <1>2, <2>1, <2>2, <2>3 DEF Pump
<1>3. ASSUME NEW i \in Calls, Execution(i) PROVE Schedule!SNext \/ UNCHANGED Schedule!svars
  BY <1>3, DrainedRefines, CompletionRefines
<1>4. CASE Recorder
  BY <1>4, RecordingRefines, ScheduleStutters DEF Recorder, TurnEnds
<1>5. CASE UserAbort \/ Idle \/ UNCHANGED vars
  BY <1>5, ScheduleStutters DEF UserAbort, Idle, vars
<1>6. QED
  BY <1>1, <1>2, <1>3, <1>4, <1>5 DEF Next

\* The streaming turn implements the schedule of ToolSchedule, for every
\* number of calls and every read concurrency.
THEOREM Refinement == Spec => ImplementsSchedule
<1>1. QED
  BY InitRefines, StepRefines, Invariance, PTL DEF Spec, ImplementsSchedule, Schedule!SSpec

\* Every state of a streamed turn is sound: the invariants above together.
THEOREM TurnIsSound == Spec => []TurnSound
<1>1. TurnSound <=> /\ TypeOK /\ ExclusiveAlone /\ PermitsConserved
                    /\ FailureStopsLater /\ NextTurnQuiet
  BY DEF TurnSound
<1> QED
  BY <1>1, TypeCorrect, PermitsNeverLost, ExclusiveRunsAlone, FailureIsFinal, NextTurnIsQuiet, PTL
=============================================================================
