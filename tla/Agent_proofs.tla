----------------------------- MODULE Agent_proofs -----------------------------
(***************************************************************************)
(* LoopSound of AgentLoop for every bound on tasks, turns, calls, retries, *)
(* recoveries and crashes, GitSound and GitSteps of GitCommands for any    *)
(* files, edits and trees, and ProviderSound of ProviderStream for streams *)
(* of any length.                                                          *)
(*                                                                         *)
(* A history only grows at its end, by messages with fresh or awaited ids, *)
(* or is thinned: compaction, a collapse and a new epoch keep some of its  *)
(* messages, in their order, and put in messages that call nothing.  What  *)
(* is sent is paired in every history whose results have different ids and *)
(* follow their calls (InOrder), and thinning keeps that.  The rest of the *)
(* loop's invariant says what the queue holds: the unanswered calls of the *)
(* last assistant message, each once (Awaited).                            *)
(*                                                                         *)
(* No sequence of git commands loses an edit because edits are numbered as *)
(* they are made (Numbered): what is committed, here or at the remote, is  *)
(* recorded, and what a tree or the stash holds was made.  What a command  *)
(* takes from the working tree or the stash is then recorded, put into the *)
(* other of the two, or given up at a prompt that asks for the whole word. *)
(***************************************************************************)
EXTENDS MCAgent, FiniteSetTheorems, NaturalsInduction, SequenceTheorems, TLAPS

-----------------------------------------------------------------------------
(* The agent loop. *)


\* What the lemmas need of AgentAssumption.
Bounds == {MaxTasks, MaxTurns, MaxCalls, MaxRetries, MaxOverflow, MaxCrashes} \subseteq Nat

Roles == {"user", "summary", "assistant", "tool", "note", "update"}

\* A message of a session that submitted t tasks and gave n calls an id.
Messages(t, n) == [role : Roles, task : 0 .. t, calls : Seq(1 .. n), id : 0 .. n]

InCalls == pc \in {"calls", "gate", "body"}

Scalars ==
    /\ pc \in {"idle", "turn", "stream", "chat", "sleep", "calls", "gate", "body"}
    /\ task \in 0 .. MaxTasks /\ turn \in 0 .. MaxTurns
    /\ (pc \notin {"idle", "turn"} => turn < MaxTurns) /\ (pc = "idle" => turn = 0)
    /\ attempt \in 0 .. MaxRetries /\ overflows \in 0 .. MaxOverflow
    /\ aborted \in BOOLEAN /\ nudged \in BOOLEAN /\ reminded \in BOOLEAN
    /\ lastInvalid \in Signatures \cup {None}
    /\ crashes \in 0 .. MaxCrashes /\ origin \in 0 .. task /\ issued \in Nat

\* A result has an id of its own and stands behind its call.
InOrder(m) ==
    /\ \A i \in DOMAIN m : m[i].role # "assistant" => m[i].calls = <<>>
    /\ \A i, j \in DOMAIN m : m[i].role = "tool" /\ m[j].role = "tool" /\ m[i].id = m[j].id => i = j
    /\ \A i, j \in DOMAIN m : m[j].role = "tool" /\ m[j].id \in Elements(m[i].calls) => i < j

\* A history of t tasks and n calls that opens with the task o, or a summary of it.
Good(m, t, n, o) ==
    /\ m \in Seq(Messages(t, n)) /\ m # <<>>
    /\ m[1].role \in {"user", "summary"} /\ m[1].task = o
    /\ InOrder(m)

Histories ==
    /\ messages = <<>> \/ Good(messages, task, issued, origin)
    /\ saved = <<>> \/ Good(saved, task, issued, origin)
    /\ (messages = <<>> => saved = <<>>) /\ (pc # "idle" => messages # <<>>)

\* p is the last assistant message, and what it called for is answered or in q.
LastAsks(m, p, q) ==
    /\ m[p].role = "assistant" /\ \A i \in DOMAIN m : m[i].role = "assistant" => i <= p
    /\ Elements(m[p].calls) \subseteq Answered(m) \cup Elements(q)

Awaited ==
    /\ queue \in Seq(1 .. issued) /\ Len(queue) <= MaxCalls
    /\ ~InCalls => queue = <<>>
    /\ pc \in {"gate", "body"} => queue # <<>>
    /\ \A i, j \in DOMAIN queue : queue[i] = queue[j] => i = j
    /\ Elements(queue) \cap Answered(messages) = {}
    /\ InCalls \/ (pc = "turn" /\ turn > 0) => \E p \in DOMAIN messages : LastAsks(messages, p, queue)

Started ==
    /\ unsaved \subseteq (IF pc = "body" THEN {Head(queue)} ELSE {})
    /\ lateStarts \in {0, 1}
    /\ lateStarts = 1 => aborted /\ pc # "gate"

IInv == Scalars /\ Histories /\ Awaited /\ Started

-----------------------------------------------------------------------------
(* The least and the greatest of a set of positions.                        *)

LEMMA Least ==
  ASSUME NEW S \in SUBSET Nat, S # {}
  PROVE  \E i \in S : \A j \in S : i <= j
<1> DEFINE R == {ss \in Nat \X Nat : ss[1] < ss[2]}
<1>1. IsWellFoundedOn(R, Nat)
  BY NatLessThanWellFounded, Zenon DEF OpToRel
<1> HIDE DEF R
<1>2. PICK i \in S : \A j \in S : ~(<<j, i>> \in R)
  BY <1>1, WFMin
<1>3. \A j \in S : ~(j < i)
  BY <1>2 DEF R
<1> QED
  BY <1>3

LEMMA Greatest ==
  ASSUME NEW n \in Nat, NEW S \in SUBSET (0 .. n), S # {}
  PROVE  \E i \in S : \A j \in S : j <= i
<1> DEFINE T == {n - i : i \in S}
<1>1. T \in SUBSET Nat /\ T # {}
  <2>1. \A i \in S : n - i \in Nat
    OBVIOUS
  <2>2. PICK i \in S : TRUE
    OBVIOUS
  <2>3. n - i \in T
    BY <2>2
  <2> QED
    BY <2>1, <2>3
<1>2. PICK k \in T : \A j \in T : k <= j
  BY <1>1, Least
<1>3. PICK i \in S : k = n - i
  BY <1>2
<1>4. ASSUME NEW j \in S PROVE j <= i
  <2>1. n - i <= n - j
    BY <1>2, <1>3
  <2> QED
    BY <2>1
<1> QED
  BY <1>4

LEMMA FirstIs ==
  ASSUME NEW S \in SUBSET Nat, NEW i \in S, \A j \in S : i <= j
  PROVE  First(S) = i
<1>1. First(S) \in S /\ \A j \in S : First(S) <= j
  <2> DEFINE P(k) == k \in S /\ \A j \in S : k <= j
  <2>1. P(CHOOSE k : P(k))
    BY Zenon
  <2> QED
    BY <2>1, Zenon DEF First
<1>2. First(S) <= i /\ i <= First(S) /\ First(S) \in Nat /\ i \in Nat
  BY <1>1
<1> QED
  BY <1>2

LEMMA LastIs ==
  ASSUME NEW S \in SUBSET Nat, NEW i \in S, \A j \in S : i >= j
  PROVE  Last(S) = i
<1>1. Last(S) \in S /\ \A j \in S : Last(S) >= j
  BY DEF Last
<1>2. Last(S) >= i /\ i >= Last(S) /\ Last(S) \in Nat /\ i \in Nat
  BY <1>1
<1> QED
  BY <1>2

-----------------------------------------------------------------------------
(* Thinning.                                                                *)

\* A message that calls nothing and answers nothing.
Inert(x) == x.role \notin {"assistant", "tool"} /\ x.calls = <<>>

\* t is some of the messages of m in their order, g[i] the place of the i-th, and
\* inert messages (g[i] = 0).
ThinsBy(t, m, g) ==
    /\ g \in [DOMAIN t -> Nat]
    /\ \A i \in DOMAIN t : IF g[i] = 0 THEN Inert(t[i]) ELSE g[i] \in DOMAIN m /\ t[i] = m[g[i]]
    /\ \A i, j \in DOMAIN t : i < j /\ g[i] # 0 /\ g[j] # 0 => g[i] < g[j]

LEMMA ThinInOrder ==
  ASSUME NEW m, NEW t, NEW g, DOMAIN t \subseteq Nat, InOrder(m), ThinsBy(t, m, g)
  PROVE  InOrder(t)
<1>1. ASSUME NEW i \in DOMAIN t, NEW j \in DOMAIN t, t[i].role = "tool", t[j].role = "tool", t[i].id = t[j].id
      PROVE  i = j
  <2>1. g[i] # 0 /\ g[j] # 0
    BY <1>1 DEF ThinsBy, Inert
  <2>2. g[i] = g[j]
    BY <1>1, <2>1 DEF ThinsBy, InOrder
  <2> QED
    BY <2>1, <2>2 DEF ThinsBy
<1>2. ASSUME NEW i \in DOMAIN t, NEW j \in DOMAIN t, t[j].role = "tool", t[j].id \in Elements(t[i].calls)
      PROVE  i < j
  <2>1. g[i] # 0 /\ g[j] # 0
    BY <1>2 DEF ThinsBy, Inert, Elements
  <2>2. g[i] < g[j] /\ g[i] \in Nat /\ g[j] \in Nat
    BY <1>2, <2>1 DEF ThinsBy, InOrder
  <2> QED
    BY <2>1, <2>2 DEF ThinsBy
<1>3. \A i \in DOMAIN t : t[i].role # "assistant" => t[i].calls = <<>>
  BY DEF ThinsBy, InOrder, Inert
<1> QED
  BY <1>1, <1>2, <1>3 DEF InOrder

\* One message stands for the first ones of a history.
LEMMA Headed ==
  ASSUME NEW M, NEW m \in Seq(M), NEW x \in M, Inert(x), NEW s \in 1 .. Len(m) + 1, InOrder(m)
  PROVE  LET t == <<x>> \o SubSeq(m, s, Len(m)) IN t \in Seq(M) /\ t # <<>> /\ t[1] = x /\ InOrder(t)
<1> DEFINE t == <<x>> \o SubSeq(m, s, Len(m))
           g == [i \in DOMAIN t |-> IF i = 1 THEN 0 ELSE i + s - 2]
<1>1. /\ t \in Seq(M) /\ Len(t) = Len(m) - s + 2 /\ t[1] = x /\ DOMAIN t = 1 .. Len(t)
      /\ \A i \in 2 .. Len(t) : t[i] = m[i + s - 2] /\ i + s - 2 \in DOMAIN m
  OBVIOUS
<1> HIDE DEF t
<1>2. ThinsBy(t, m, g)
  BY <1>1 DEF ThinsBy
<1>3. InOrder(t)
  BY <1>1, <1>2, ThinInOrder, SMTT(20)
<1> QED
  BY <1>1, <1>3 DEF t

\* One message stands for the messages after the a-th and before the b-th.
LEMMA Spliced ==
  ASSUME NEW M, NEW m \in Seq(M), NEW x \in M, Inert(x), NEW a \in 1 .. Len(m), NEW b \in a + 1 .. Len(m) + 1,
         InOrder(m)
  PROVE  LET t == SubSeq(m, 1, a) \o <<x>> \o SubSeq(m, b, Len(m))
         IN  t \in Seq(M) /\ Len(t) = a + 1 + Len(m) - b + 1 /\ t[1] = m[1] /\ InOrder(t)
<1> DEFINE t == SubSeq(m, 1, a) \o <<x>> \o SubSeq(m, b, Len(m))
           g == [i \in DOMAIN t |-> IF i <= a THEN i ELSE IF i = a + 1 THEN 0 ELSE i + b - a - 2]
<1>1. /\ t \in Seq(M) /\ Len(t) = a + 1 + Len(m) - b + 1 /\ DOMAIN t = 1 .. Len(t)
      /\ \A i \in 1 .. a : t[i] = m[i] /\ i \in DOMAIN m
      /\ t[a + 1] = x
      /\ \A i \in a + 2 .. Len(t) : t[i] = m[i + b - a - 2] /\ i + b - a - 2 \in DOMAIN m
  <2> DEFINE u == SubSeq(m, 1, a)
             v == SubSeq(m, b, Len(m))
             ux == u \o <<x>>
  <2>1. u \in Seq(M) /\ Len(u) = a /\ \A i \in 1 .. a : u[i] = m[i]
    OBVIOUS
  <2>2. v \in Seq(M) /\ Len(v) = Len(m) - b + 1 /\ \A i \in 1 .. Len(v) : v[i] = m[i + b - 1]
    OBVIOUS
  <2> HIDE DEF u, v
  <2>3. ux \in Seq(M) /\ Len(ux) = a + 1 /\ ux[a + 1] = x /\ \A i \in 1 .. a : ux[i] = m[i]
    BY <2>1
  <2> HIDE DEF ux
  <2>4. t = ux \o v
    BY DEF ux, u, v
  <2>5. /\ t \in Seq(M) /\ Len(t) = Len(ux) + Len(v) /\ \A i \in 1 .. Len(ux) : t[i] = ux[i]
        /\ \A i \in Len(ux) + 1 .. Len(t) : t[i] = v[i - Len(ux)]
    <3> HIDE DEF t
    <3>1. /\ t \in Seq(M) /\ Len(t) = Len(ux) + Len(v)
          /\ \A i \in 1 .. Len(ux) + Len(v) : t[i] = IF i <= Len(ux) THEN ux[i] ELSE v[i - Len(ux)]
      BY <2>2, <2>3, <2>4, ConcatProperties
    <3>2. ASSUME NEW i \in 1 .. Len(ux) PROVE t[i] = ux[i]
      <4>1. i \in 1 .. Len(ux) + Len(v) /\ i <= Len(ux)
        BY <2>2, <2>3
      <4> QED
        BY <3>1, <4>1
    <3>3. ASSUME NEW i \in Len(ux) + 1 .. Len(t) PROVE t[i] = v[i - Len(ux)]
      <4>1. i \in 1 .. Len(ux) + Len(v) /\ ~(i <= Len(ux))
        BY <2>2, <2>3, <3>1
      <4> QED
        BY <3>1, <4>1
    <3> QED
      BY <3>1, <3>2, <3>3
  <2> HIDE DEF t
  <2> QED
    BY <2>2, <2>3, <2>5
<1> HIDE DEF t
<1>2. /\ g \in [DOMAIN t -> Nat] /\ g[a + 1] = 0
      /\ \A i \in 1 .. a : g[i] = i
      /\ \A i \in a + 2 .. Len(t) : g[i] = i + b - a - 2
  BY <1>1
<1> HIDE DEF g
<1>3. \A i \in DOMAIN t : i \in 1 .. a \/ i = a + 1 \/ i \in a + 2 .. Len(t)
  BY <1>1
<1>4. ASSUME NEW i \in DOMAIN t
      PROVE  IF g[i] = 0 THEN Inert(t[i]) ELSE g[i] \in DOMAIN m /\ t[i] = m[g[i]]
  <2>1. CASE i \in 1 .. a
    BY <1>1, <1>2, <2>1
  <2>2. CASE i = a + 1
    BY <1>1, <1>2, <2>2
  <2>3. CASE i \in a + 2 .. Len(t)
    <3>1. g[i] = i + b - a - 2 /\ t[i] = m[i + b - a - 2] /\ i + b - a - 2 \in DOMAIN m
      BY <1>1, <1>2, <2>3
    <3> QED
      BY <3>1
  <2> QED
    BY <1>3, <2>1, <2>2, <2>3
<1>5. ASSUME NEW i \in DOMAIN t, NEW j \in DOMAIN t, i < j, g[i] # 0, g[j] # 0 PROVE g[i] < g[j]
  <2>1. i \in 1 .. a \/ i \in a + 2 .. Len(t)
    BY <1>2, <1>3, <1>5
  <2>2. j \in 1 .. a \/ j \in a + 2 .. Len(t)
    BY <1>2, <1>3, <1>5
  <2>3. CASE i \in 1 .. a /\ j \in 1 .. a
    BY <1>2, <1>5, <2>3
  <2>4. CASE i \in 1 .. a /\ j \in a + 2 .. Len(t)
    <3>1. g[i] = i /\ g[j] = j + b - a - 2
      BY <1>2, <2>4
    <3> QED
      BY <2>4, <3>1
  <2>5. CASE i \in a + 2 .. Len(t) /\ j \in a + 2 .. Len(t)
    <3>1. g[i] = i + b - a - 2 /\ g[j] = j + b - a - 2
      BY <1>2, <2>5
    <3> QED
      BY <1>5, <2>5, <3>1
  <2> QED
    BY <1>5, <2>1, <2>2, <2>3, <2>4, <2>5
<1>6. ThinsBy(t, m, g)
  BY <1>2, <1>4, <1>5 DEF ThinsBy
<1>7. InOrder(t)
  <2>1. DOMAIN t \subseteq Nat
    BY <1>1
  <2> QED
    BY <1>6, <2>1, ThinInOrder, Zenon
<1>8. t[1] = m[1]
  BY <1>1
<1> QED
  BY <1>1, <1>7, <1>8, Zenon DEF t

\* The members of S up to p; the i-th smallest of S is the one with i of them.
UpTo(S, p) == {q \in S : q <= p}

LEMMA Bounded ==
  ASSUME NEW n \in Nat, NEW S \in SUBSET (0 .. n)
  PROVE  IsFiniteSet(S) /\ Cardinality(S) \in Nat /\ \A x \in S : x \in Nat
<1>1. IsFiniteSet(0 .. n)
  BY FS_Interval
<1>2. IsFiniteSet(S)
  BY <1>1, FS_Subset
<1>3. \A x \in S : x \in 0 .. n
  BY Zenon
<1> QED
  BY <1>2, <1>3, FS_CardinalityType

LEMMA Ranked ==
  ASSUME NEW n \in Nat, NEW S \in SUBSET (0 .. n), NEW i \in 1 .. Cardinality(S)
  PROVE  Nth(S, i) \in S /\ Cardinality(UpTo(S, Nth(S, i))) = i
<1>1. IsFiniteSet(S) /\ Cardinality(S) \in Nat /\ \A x \in S : x \in Nat
  BY Bounded
<1>2. \A p : /\ IsFiniteSet(UpTo(S, p)) /\ Cardinality(UpTo(S, p)) \in Nat
             /\ IsFiniteSet(UpTo(S, p) \ {p})
             /\ (p \in UpTo(S, p) => Cardinality(UpTo(S, p) \ {p}) = Cardinality(UpTo(S, p)) - 1)
  <2> SUFFICES ASSUME NEW p
               PROVE  /\ IsFiniteSet(UpTo(S, p)) /\ Cardinality(UpTo(S, p)) \in Nat
                      /\ IsFiniteSet(UpTo(S, p) \ {p})
                      /\ (p \in UpTo(S, p) => Cardinality(UpTo(S, p) \ {p}) = Cardinality(UpTo(S, p)) - 1)
    OBVIOUS
  <2>1. UpTo(S, p) \in SUBSET S
    BY DEF UpTo
  <2> QED
    BY <1>1, <2>1, FS_Subset, FS_CardinalityType, FS_RemoveElement
<1> DEFINE T == {p \in S : Cardinality(UpTo(S, p)) >= i}
<1>3. T # {}
  <2>1. S # {}
    <3>1. S = {} => Cardinality(S) = 0
      BY FS_EmptySet
    <3> QED
      BY <3>1
  <2>2. PICK p \in S : \A q \in S : q <= p
    BY <2>1, Greatest
  <2>3. UpTo(S, p) = S
    BY <2>2 DEF UpTo
  <2> QED
    BY <1>1, <2>2, <2>3
<1>4. PICK p \in T : \A q \in T : p <= q
  <2>1. T \in SUBSET Nat
    BY <1>1
  <2> QED
    BY <1>3, <2>1, Least
<1>5. Cardinality(UpTo(S, p)) = i
  <2>1. p \in UpTo(S, p) /\ Cardinality(UpTo(S, p)) >= i
    BY <1>4 DEF UpTo
  <2>3. Cardinality(UpTo(S, p)) \in Nat
    BY <1>2
  <2>2. ASSUME Cardinality(UpTo(S, p)) > i PROVE FALSE
    <3> DEFINE U == UpTo(S, p) \ {p}
    <3>1. IsFiniteSet(U) /\ Cardinality(U) = Cardinality(UpTo(S, p)) - 1
      BY <1>2, <2>1
    <3>2. U # {}
      <4>1. U = {} => Cardinality(U) = 0
        BY FS_EmptySet
      <4> HIDE DEF U
      <4> QED
        BY <1>2, <2>2, <3>1, <4>1
    <3>3. U \in SUBSET (0 .. n)
      BY DEF UpTo
    <3>4. PICK r \in U : \A q \in U : q <= r
      BY <3>2, <3>3, Greatest
    <3>5. r \in S /\ r \in Nat /\ p \in Nat /\ r < p
      BY <1>1, <1>4, <3>4 DEF UpTo
    <3>9. UpTo(S, r) = U
      <4>1. ASSUME NEW q \in U PROVE q \in UpTo(S, r)
        BY <3>4, <4>1 DEF UpTo
      <4>2. ASSUME NEW q \in UpTo(S, r) PROVE q \in U
        BY <1>1, <3>5, <4>2 DEF UpTo
      <4> QED
        BY <4>1, <4>2
    <3>6. Cardinality(UpTo(S, r)) >= i
      <4> HIDE DEF U
      <4> QED
        BY <1>1, <2>2, <2>3, <3>1, <3>9
    <3>7. r \in T
      BY <3>5, <3>6
    <3>8. p <= r /\ p \in Nat /\ r \in Nat
      BY <1>4, <3>5, <3>7
    <3> QED
      BY <3>5, <3>8
  <2> QED
    BY <1>1, <2>1, <2>2, <2>3
<1>6. \E k \in S : Cardinality({q \in S : q <= k}) = i
  BY <1>4, <1>5 DEF UpTo
<1> QED
  BY <1>6 DEF Nth, UpTo

LEMMA RanksGrow ==
  ASSUME NEW n \in Nat, NEW S \in SUBSET (0 .. n),
         NEW i \in 1 .. Cardinality(S), NEW j \in 1 .. Cardinality(S), i < j
  PROVE  Nth(S, i) < Nth(S, j)
<1>1. /\ Nth(S, i) \in Nat /\ Cardinality(UpTo(S, Nth(S, i))) = i
      /\ Nth(S, j) \in Nat /\ Cardinality(UpTo(S, Nth(S, j))) = j
  BY Ranked, Bounded
<1>0. \A x \in S : x \in Nat
  BY Bounded
<1>2. ASSUME Nth(S, j) <= Nth(S, i) PROVE FALSE
  <2>1. UpTo(S, Nth(S, j)) \in SUBSET UpTo(S, Nth(S, i))
    <3> DEFINE a == Nth(S, j)
               b == Nth(S, i)
    <3>1. a \in Nat /\ b \in Nat /\ a <= b
      BY <1>1, <1>2
    <3> HIDE DEF a, b
    <3>2. ASSUME NEW q \in UpTo(S, a) PROVE q \in UpTo(S, b)
      <4>1. q \in S /\ q \in Nat /\ q <= a
        BY <1>0 DEF UpTo
      <4>2. q <= b
        BY <3>1, <4>1
      <4> QED
        BY <4>1, <4>2 DEF UpTo
    <3> QED
      BY <3>2 DEF a, b
  <2>2. IsFiniteSet(UpTo(S, Nth(S, i)))
    <3>1. UpTo(S, Nth(S, i)) \in SUBSET S
      BY DEF UpTo
    <3> QED
      BY <3>1, Bounded, FS_Subset
  <2>3. Cardinality(UpTo(S, Nth(S, j))) <= Cardinality(UpTo(S, Nth(S, i)))
    BY <2>1, <2>2, FS_Subset
  <2> QED
    BY <1>1, <2>3
<1> QED
  BY <1>1, <1>2

LEMMA FirstRank ==
  ASSUME NEW n \in Nat, NEW S \in SUBSET (0 .. n), NEW a \in S, \A q \in S : a <= q
  PROVE  Cardinality(S) \in Nat \ {0} /\ Nth(S, 1) = a
<1>1. /\ IsFiniteSet(S) /\ Cardinality(S) \in Nat /\ (Cardinality(S) = 0 => S = {})
      /\ \A x \in S : x \in Nat
  BY Bounded, FS_EmptySet
<1>2. 1 \in 1 .. Cardinality(S)
  BY <1>1
<1>3. Nth(S, 1) \in S /\ Cardinality(UpTo(S, Nth(S, 1))) = 1
  BY <1>2, Ranked
<1>4. a \in UpTo(S, Nth(S, 1)) /\ Nth(S, 1) \in UpTo(S, Nth(S, 1))
  <2> DEFINE p == Nth(S, 1)
  <2>1. p \in S /\ p \in Nat /\ a <= p
    BY <1>1, <1>3
  <2> HIDE DEF p
  <2>2. a \in UpTo(S, p) /\ p \in UpTo(S, p)
    BY <2>1 DEF UpTo
  <2> QED
    BY <2>2 DEF p
<1>5. IsFiniteSet(UpTo(S, Nth(S, 1)))
  <2>1. UpTo(S, Nth(S, 1)) \in SUBSET S
    BY DEF UpTo
  <2> QED
    BY <1>1, <2>1, FS_Subset
<1>6. \E x : UpTo(S, Nth(S, 1)) = {x}
  BY <1>3, <1>5, FS_Singleton
<1> QED
  BY <1>1, <1>4, <1>6

\* A new epoch thins the history and keeps its first message.
LEMMA FreshThins ==
  ASSUME NEW M, NEW m \in Seq(M), InOrder(m), m # <<>>, m[1].role # "update"
  PROVE  FreshEpoch(m) \in Seq(M) /\ FreshEpoch(m) # <<>> /\ FreshEpoch(m)[1] = m[1] /\ InOrder(FreshEpoch(m))
<1> DEFINE kept == DOMAIN m \ Positions(m, {"update"})
           t == FreshEpoch(m)
           g == [i \in 1 .. Cardinality(kept) |-> Nth(kept, i)]
<1>1. Len(m) \in Nat /\ DOMAIN m = 1 .. Len(m) /\ 1 \in DOMAIN m
  OBVIOUS
<1>2. kept \in SUBSET (0 .. Len(m)) /\ kept \subseteq DOMAIN m /\ 1 \in kept /\ \A q \in kept : 1 <= q
  BY <1>1 DEF Positions
<1>3. t = [i \in 1 .. Cardinality(kept) |-> m[Nth(kept, i)]]
  BY DEF FreshEpoch
<1> HIDE DEF kept, t
<1>4. Cardinality(kept) \in Nat \ {0} /\ Nth(kept, 1) = 1
  BY <1>1, <1>2, FirstRank
<1>5. \A i \in 1 .. Cardinality(kept) : Nth(kept, i) \in DOMAIN m
  BY <1>1, <1>2, Ranked
<1>6. \A i, j \in 1 .. Cardinality(kept) : i < j => Nth(kept, i) < Nth(kept, j)
  BY <1>1, <1>2, RanksGrow
<1>7. /\ DOMAIN t = 1 .. Cardinality(kept) /\ DOMAIN t \subseteq Nat
      /\ \A i \in DOMAIN t : t[i] = m[g[i]] /\ g[i] = Nth(kept, i) /\ g[i] \in DOMAIN m
  BY <1>3, <1>4, <1>5
<1>8. g \in [DOMAIN t -> Nat] /\ \A i \in DOMAIN t : g[i] # 0
  BY <1>1, <1>5, <1>7
<1>9. \A i, j \in DOMAIN t : i < j => g[i] < g[j]
  BY <1>6, <1>7
<1>10. t \in Seq(M) /\ Len(t) = Cardinality(kept)
  <2>1. \A i \in 1 .. Cardinality(kept) : m[Nth(kept, i)] \in M
    BY <1>1, <1>5
  <2> QED
    BY <1>3, <1>4, <2>1
<1> HIDE DEF g
<1>11. ThinsBy(t, m, g)
  BY <1>7, <1>8, <1>9 DEF ThinsBy
<1>12. InOrder(t)
  BY <1>7, <1>11, ThinInOrder, Zenon
<1>13. t[1] = m[1] /\ t # <<>>
  BY <1>3, <1>4, <1>10
<1> QED
  BY <1>10, <1>12, <1>13 DEF t

-----------------------------------------------------------------------------
(* What the loop makes of a good history is a good history.                 *)

LEMMA TailsInside ==
  ASSUME NEW M, NEW m \in Seq(M), NEW s \in TailStarts(m)
  PROVE  s \in 1 .. Len(m) + 1
<1>1. PICK i \in 1 .. Len(m) + 1 : s = SnapBack(m, i)
  BY DEF TailStarts
<1>2. CASE i > Len(m)
  BY <1>1, <1>2 DEF SnapBack
<1>3. CASE ~(i > Len(m))
  <2> DEFINE S == {1} \cup {j \in 1 .. i : m[j].role # "tool"}
  <2>1. S \in SUBSET (0 .. i) /\ S # {} /\ i \in Nat
    OBVIOUS
  <2>2. PICK k \in S : \A j \in S : j <= k
    BY <2>1, Greatest
  <2>3. Last(S) = k
    BY <2>1, <2>2, LastIs
  <2>4. s = k
    BY <1>1, <1>3, <2>3 DEF SnapBack
  <2> QED
    BY <1>3, <2>2, <2>4
<1> QED
  BY <1>2, <1>3

LEMMA InertOnes ==
  ASSUME NEW t \in Nat, NEW n \in Nat
  PROVE  /\ User(0) \in Messages(t, n) /\ Inert(User(0))
         /\ Note \in Messages(t, n) /\ Inert(Note)
         /\ Update \in Messages(t, n) /\ Inert(Update)
         /\ \A k \in 0 .. t : /\ User(k) \in Messages(t, n) /\ Inert(User(k))
                              /\ Summary(k) \in Messages(t, n) /\ Inert(Summary(k))
BY DEF User, Note, Update, Summary, Message, Messages, Roles, Inert

LEMMA CollapsedGood ==
  ASSUME NEW t \in Nat, NEW n \in Nat, NEW o, NEW m, Good(m, t, n, o),
         NEW s \in 1 .. Len(m) + 1, NEW c \in Collapsed(m, s)
  PROVE  Good(c[1], t, n, o) /\ c[2] \in 1 .. Len(c[1]) + 1
<1>0. /\ m \in Seq(Messages(t, n)) /\ Len(m) \in Nat /\ DOMAIN m = 1 .. Len(m) /\ InOrder(m) /\ m # <<>>
      /\ m[1].role \in {"user", "summary"} /\ m[1].task = o
  BY DEF Good
<1>1. CASE c = <<m, s>>
  BY <1>1
<1>2. CASE c # <<m, s>>
  <2>1. PICK i \in Positions(m, {"assistant"}), j \in 1 .. s - 1 :
          /\ i < j
          /\ c = <<SubSeq(m, 1, i - 1) \o <<User(0)>> \o SubSeq(m, j + 1, Len(m)), s - (j - i)>>
    BY <1>2 DEF Collapsed
  <2> DEFINE a == i - 1
             b == j + 1
             u == SubSeq(m, 1, a) \o <<User(0)>> \o SubSeq(m, b, Len(m))
  <2>2. i \in 2 .. Len(m) /\ j \in Nat /\ s \in Nat /\ j < s /\ s <= Len(m) + 1
    BY <1>0, <2>1 DEF Positions
  <2>3. a \in 1 .. Len(m) /\ b \in a + 1 .. Len(m) + 1
    BY <1>0, <2>1, <2>2
  <2>4. User(0) \in Messages(t, n) /\ Inert(User(0))
    BY InertOnes
  <2>5. u \in Seq(Messages(t, n)) /\ Len(u) = a + 1 + Len(m) - b + 1 /\ u[1] = m[1] /\ InOrder(u)
    <3> HIDE DEF a, b
    <3> QED
      BY <1>0, <2>3, <2>4, Spliced
  <2>6. c[1] = u /\ c[2] = s - (j - i)
    BY <2>1
  <2> HIDE DEF u
  <2>7. Len(u) \in Nat \ {0} /\ c[2] \in 1 .. Len(u) + 1
    <3>1. Len(u) = i - 1 + 1 + Len(m) - (j + 1) + 1
      BY <2>5
    <3>2. c[2] = s - (j - i)
      BY <2>6
    <3>3. Len(m) \in Nat /\ i < j
      BY <1>0, <2>1
    <3>4. c[2] \in Nat /\ 1 <= c[2] /\ c[2] <= Len(u) + 1
      BY <2>2, <3>1, <3>2, <3>3
    <3> QED
      BY <2>2, <3>1, <3>3, <3>4
  <2>8. u # <<>>
    BY <2>5, <2>7
  <2> QED
    BY <1>0, <2>5, <2>6, <2>7, <2>8 DEF Good
<1> QED
  BY <1>1, <1>2

LEMMA SummarizedGood ==
  ASSUME NEW t \in Nat, NEW n \in Nat, NEW o \in 0 .. t, NEW m, Good(m, t, n, o), NEW s \in 1 .. Len(m) + 1
  PROVE  Good(Summarized(m, s), t, n, o)
<1>0. /\ m \in Seq(Messages(t, n)) /\ Len(m) \in Nat /\ InOrder(m) /\ m # <<>>
      /\ m[1].role \in {"user", "summary"} /\ m[1].task = o
  BY DEF Good
<1>1. CASE s < 3
  BY <1>1 DEF Summarized
<1>2. CASE ~(s < 3)
  <2> DEFINE older == SubSeq(m, 1, s - 1)
             users == Positions(older, {"user", "summary"})
  <2>1. older[1] = m[1] /\ Len(older) = s - 1 /\ DOMAIN older = 1 .. s - 1
    BY <1>0, <1>2
  <2> HIDE DEF older
  <2>2. 1 \in users /\ users \in SUBSET Nat /\ \A j \in users : 1 <= j
    BY <1>0, <1>2, <2>1 DEF Positions
  <2>3. First(users) = 1
    BY <2>2, FirstIs
  <2>4. TaskOf(older) = o
    BY <1>0, <2>1, <2>2, <2>3 DEF TaskOf
  <2> DEFINE u == <<Summary(o)>> \o SubSeq(m, s, Len(m))
  <2>5. Summarized(m, s) = u
    BY <1>2, <2>4 DEF Summarized, older
  <2>6. Summary(o) \in Messages(t, n) /\ Inert(Summary(o))
    BY InertOnes
  <2>7. u \in Seq(Messages(t, n)) /\ u # <<>> /\ u[1] = Summary(o) /\ InOrder(u)
    BY <1>0, <2>6, Headed
  <2> HIDE DEF u
  <2>8. Summary(o).role = "summary" /\ Summary(o).task = o
    BY DEF Summary, Message
  <2> QED
    BY <2>5, <2>7, <2>8 DEF Good
<1> QED
  BY <1>1, <1>2

LEMMA CompactionGood ==
  ASSUME NEW t \in Nat, NEW n \in Nat, NEW o \in 0 .. t, NEW m, Good(m, t, n, o), NEW u \in Compactions(m)
  PROVE  Good(u, t, n, o)
<1>1. PICK s \in TailStarts(m) : \E c \in Collapsed(m, s) : u \in {c[1], Summarized(c[1], c[2])}
  BY DEF Compactions
<1>5. PICK c \in Collapsed(m, s) : u \in {c[1], Summarized(c[1], c[2])}
  BY <1>1
<1>2. s \in 1 .. Len(m) + 1
  BY TailsInside DEF Good
<1>3. Good(c[1], t, n, o) /\ c[2] \in 1 .. Len(c[1]) + 1
  BY <1>2, CollapsedGood
<1>4. Good(Summarized(c[1], c[2]), t, n, o)
  BY <1>3, SummarizedGood
<1> QED
  BY <1>3, <1>4, <1>5

LEMMA EpochGood ==
  ASSUME NEW t, NEW n, NEW o, NEW m, Good(m, t, n, o)
  PROVE  Good(FreshEpoch(m), t, n, o)
<1>1. m[1].role # "update"
  BY DEF Good
<1> QED
  BY <1>1, FreshThins DEF Good

LEMMA GoodLater ==
  ASSUME NEW m, NEW t \in Nat, NEW n \in Nat, NEW o, Good(m, t, n, o),
         NEW t2 \in Nat, NEW n2 \in Nat, t <= t2, n <= n2
  PROVE  Good(m, t2, n2, o)
<1>1. 0 .. t \subseteq 0 .. t2 /\ 1 .. n \subseteq 1 .. n2 /\ 0 .. n \subseteq 0 .. n2
  OBVIOUS
<1>2. Seq(1 .. n) \subseteq Seq(1 .. n2)
  BY <1>1
<1>3. Messages(t, n) \subseteq Messages(t2, n2)
  BY <1>1, <1>2 DEF Messages
<1>4. m \in Seq(Messages(t2, n2))
  BY <1>3 DEF Good
<1> QED
  BY <1>4 DEF Good

\* A message that answers an awaited call, or makes fresh ones, or neither.
LEMMA AppendGood ==
  ASSUME NEW m, NEW t \in Nat, NEW n \in Nat, NEW o, Good(m, t, n, o), NEW x \in Messages(t, n),
         x.role # "assistant" => x.calls = <<>>,
         x.role = "tool" => x.id \notin Answered(m),
         Elements(x.calls) \cap Answered(m) = {}
  PROVE  /\ Good(Append(m, x), t, n, o)
         /\ Answered(Append(m, x)) = Answered(m) \cup (IF x.role = "tool" THEN {x.id} ELSE {})
<1> DEFINE u == Append(m, x)
<1>1. m \in Seq(Messages(t, n)) /\ Len(m) \in Nat \ {0} /\ InOrder(m) /\ m[1].role \in {"user", "summary"} /\ m[1].task = o
  BY DEF Good
<1>2. /\ u \in Seq(Messages(t, n)) /\ u # <<>> /\ DOMAIN u = 1 .. Len(m) + 1 /\ DOMAIN m = 1 .. Len(m)
      /\ u[Len(m) + 1] = x /\ \A i \in DOMAIN m : u[i] = m[i]
  BY <1>1
<1>3. \A i \in DOMAIN u : i \in DOMAIN m \/ i = Len(m) + 1
  BY <1>1, <1>2
<1> HIDE DEF u
<1>4. Answered(u) = Answered(m) \cup (IF x.role = "tool" THEN {x.id} ELSE {})
  <2>1. \A i \in DOMAIN m : i \in DOMAIN u
    BY <1>1, <1>2
  <2>2. Len(m) + 1 \in DOMAIN u
    BY <1>1, <1>2
  <2> QED
    BY <1>2, <1>3, <2>1, <2>2 DEF Answered, Positions
<1>5. \A i \in DOMAIN m : m[i].role = "tool" => m[i].id \in Answered(m)
  BY DEF Answered, Positions
<1>6. InOrder(u)
  <2>1. \A i \in DOMAIN u : u[i].role # "assistant" => u[i].calls = <<>>
    BY <1>1, <1>2, <1>3 DEF InOrder
  <2>2. \A i, j \in DOMAIN u : u[i].role = "tool" /\ u[j].role = "tool" /\ u[i].id = u[j].id => i = j
    BY <1>1, <1>2, <1>3, <1>5 DEF InOrder
  <2>3. ASSUME NEW i \in DOMAIN u, NEW j \in DOMAIN u, u[j].role = "tool", u[j].id \in Elements(u[i].calls)
        PROVE  i < j
    <3>1. CASE i \in DOMAIN m /\ j \in DOMAIN m
      BY <1>1, <1>2, <2>3, <3>1 DEF InOrder
    <3>2. CASE i \in DOMAIN m /\ j = Len(m) + 1
      BY <1>1, <1>2, <3>2
    <3>3. CASE i = Len(m) + 1 /\ j \in DOMAIN m
      BY <1>2, <1>5, <2>3, <3>3
    <3>4. CASE i = Len(m) + 1 /\ j = Len(m) + 1
      BY <1>2, <2>3, <3>4 DEF Elements
    <3> QED
      BY <1>3, <3>1, <3>2, <3>3, <3>4
  <2> QED
    BY <2>1, <2>2, <2>3 DEF InOrder
<1>7. u[1] = m[1]
  BY <1>1, <1>2
<1>8. Good(u, t, n, o)
  BY <1>1, <1>2, <1>6, <1>7 DEF Good
<1> QED
  BY <1>4, <1>8 DEF u

LEMMA InertGood ==
  ASSUME NEW m, NEW t \in Nat, NEW n \in Nat, NEW o, Good(m, t, n, o), NEW x \in Messages(t, n), Inert(x)
  PROVE  Good(Append(m, x), t, n, o) /\ Answered(Append(m, x)) = Answered(m)
<1>1. x.role # "tool" /\ x.calls = <<>> /\ Elements(x.calls) = {}
  BY DEF Inert, Elements
<1>2. Elements(x.calls) \cap Answered(m) = {}
  BY <1>1
<1>3. /\ Good(Append(m, x), t, n, o)
      /\ Answered(Append(m, x)) = Answered(m) \cup (IF x.role = "tool" THEN {x.id} ELSE {})
  BY <1>1, <1>2, AppendGood, Zenon
<1> QED
  BY <1>1, <1>3

LEMMA ResultGood ==
  ASSUME NEW m, NEW t \in Nat, NEW n \in Nat, NEW o, Good(m, t, n, o), NEW c \in 1 .. n, c \notin Answered(m)
  PROVE  Good(Append(m, Result(c)), t, n, o) /\ Answered(Append(m, Result(c))) = Answered(m) \cup {c}
<1> DEFINE x == Result(c)
<1>1. x \in Messages(t, n) /\ x.role = "tool" /\ x.calls = <<>> /\ x.id = c
  BY DEF Result, Message, Messages, Roles
<1>2. Elements(x.calls) = {}
  BY <1>1 DEF Elements
<1> HIDE DEF x
<1>3. /\ Good(Append(m, x), t, n, o)
      /\ Answered(Append(m, x)) = Answered(m) \cup (IF x.role = "tool" THEN {x.id} ELSE {})
  BY <1>1, <1>2, AppendGood
<1> QED
  BY <1>1, <1>3 DEF x

\* The assistant's message with fresh calls is the last one that asks.
LEMMA AsksGood ==
  ASSUME NEW m, NEW t \in Nat, NEW n \in Nat, NEW o, Good(m, t, n, o), NEW k \in Nat,
         NEW cs \in Seq(1 .. n + k), \A c \in Elements(cs) : c \in n + 1 .. n + k
  PROVE  LET u == Append(m, Assistant(cs))
         IN  /\ Good(u, t, n + k, o) /\ Answered(u) = Answered(m)
             /\ Elements(cs) \cap Answered(u) = {}
             /\ \E p \in DOMAIN u : LastAsks(u, p, cs)
<1> DEFINE u  == Append(m, Assistant(cs))
<1>1. Good(m, t, n + k, o)
  BY GoodLater
<1>2. ASSUME NEW c \in Answered(m) PROVE c \in 0 .. n
  <2>1. PICK i \in DOMAIN m : c = m[i].id
    BY DEF Answered, Positions
  <2>2. m[i] \in Messages(t, n)
    BY DEF Good
  <2> QED
    BY <2>1, <2>2 DEF Messages
<1>4. Elements(cs) \cap Answered(m) = {}
  <2>1. ASSUME NEW c \in Elements(cs), c \in Answered(m) PROVE FALSE
    <3>1. c \in n + 1 .. n + k /\ c \in 0 .. n
      BY <1>2, <2>1
    <3> QED
      BY <3>1
  <2> QED
    BY <2>1
<1>5. /\ Assistant(cs) \in Messages(t, n + k) /\ Assistant(cs).role = "assistant"
      /\ Assistant(cs).calls = cs
  BY DEF Assistant, Message, Messages, Roles
<1>6. Good(u, t, n + k, o) /\ Answered(u) = Answered(m)
  <2> DEFINE x == Assistant(cs)
  <2>1. /\ x \in Messages(t, n + k) /\ x.role # "tool" /\ (x.role # "assistant" => x.calls = <<>>)
        /\ Elements(x.calls) \cap Answered(m) = {}
    BY <1>4, <1>5
  <2> HIDE DEF x
  <2>2. /\ Good(Append(m, x), t, n + k, o)
        /\ Answered(Append(m, x)) = Answered(m) \cup (IF x.role = "tool" THEN {x.id} ELSE {})
    <3>1. n + k \in Nat
      OBVIOUS
    <3> QED
      BY <1>1, <2>1, <3>1, AppendGood, Zenon
  <2> QED
    BY <2>1, <2>2 DEF x
<1>7. Len(m) + 1 \in DOMAIN u /\ u[Len(m) + 1] = Assistant(cs) /\ \A i \in DOMAIN u : i <= Len(m) + 1
  BY DEF Good
<1> HIDE DEF u
<1>8. LastAsks(u, Len(m) + 1, cs)
  BY <1>5, <1>7 DEF LastAsks
<1> QED
  BY <1>4, <1>6, <1>7, <1>8 DEF u

\* Whoever asked last still does when something else is appended.
LEMMA StillAsks ==
  ASSUME NEW M, NEW m \in Seq(M), NEW p \in DOMAIN m, NEW q, LastAsks(m, p, q),
         NEW x, x.role # "assistant", NEW r,
         Answered(m) \cup Elements(q) \subseteq Answered(Append(m, x)) \cup Elements(r)
  PROVE  p \in DOMAIN Append(m, x) /\ LastAsks(Append(m, x), p, r)
<1> DEFINE u == Append(m, x)
<1>1. /\ DOMAIN u = 1 .. Len(m) + 1 /\ DOMAIN m = 1 .. Len(m) /\ Len(m) \in Nat
      /\ u[Len(m) + 1] = x /\ \A i \in DOMAIN m : u[i] = m[i]
  OBVIOUS
<1> HIDE DEF u
<1>2. p \in DOMAIN u /\ u[p] = m[p]
  BY <1>1
<1>3. \A i \in DOMAIN u : u[i].role = "assistant" => i \in DOMAIN m /\ m[i].role = "assistant"
  BY <1>1
<1>4. Elements(m[p].calls) \subseteq Answered(u) \cup Elements(r)
  BY DEF LastAsks, u
<1>5. LastAsks(u, p, r)
  BY <1>2, <1>3, <1>4 DEF LastAsks
<1> QED
  BY <1>2, <1>5 DEF u

\* The response is pushed, after the reminder if there is one.
LEMMA ResponseGood ==
  ASSUME NEW m, NEW t \in Nat, NEW n \in Nat, NEW o, Good(m, t, n, o), NEW k \in Nat,
         NEW cs \in Seq(1 .. n + k), \A c \in Elements(cs) : c \in n + 1 .. n + k, NEW reminds \in BOOLEAN
  PROVE  LET u  == m \o (IF reminds THEN <<Note>> ELSE <<>>) \o <<Assistant(cs)>>
         IN  /\ Good(u, t, n + k, o)
             /\ Elements(cs) \cap Answered(u) = {}
             /\ \E p \in DOMAIN u : LastAsks(u, p, cs)
<1> DEFINE v  == m \o (IF reminds THEN <<Note>> ELSE <<>>)
           u  == v \o <<Assistant(cs)>>
<1>1. Good(v, t, n, o)
  <2>1. CASE reminds
    <3>1. v = Append(m, Note)
      BY <2>1 DEF Good
    <3>2. Note \in Messages(t, n) /\ Inert(Note)
      BY InertOnes
    <3> QED
      BY <3>1, <3>2, InertGood, Zenon
  <2>2. CASE ~reminds
    <3>1. v = m
      BY <2>2 DEF Good
    <3> QED
      BY <3>1
  <2> QED
    BY <2>1, <2>2
<1> HIDE DEF v
<1>2. u = Append(v, Assistant(cs))
  BY <1>1 DEF Good
<1> HIDE DEF u
<1>3. /\ Good(u, t, n + k, o) /\ Answered(u) = Answered(v)
      /\ Elements(cs) \cap Answered(u) = {}
      /\ \E p \in DOMAIN u : LastAsks(u, p, cs)
  <2>1. LET u2 == Append(v, Assistant(cs))
        IN  /\ Good(u2, t, n + k, o) /\ Answered(u2) = Answered(v)
            /\ Elements(cs) \cap Answered(u2) = {}
            /\ \E p \in DOMAIN u2 : LastAsks(u2, p, cs)
    BY <1>1, AsksGood
  <2> QED
    BY <1>2, <2>1
<1> QED
  BY <1>3 DEF u, v

\* The result of the first of the awaited calls is pushed, with a note or without.
LEMMA RecordGood ==
  ASSUME NEW m, NEW t \in Nat, NEW n \in Nat, NEW o, Good(m, t, n, o),
         NEW q \in Seq(1 .. n), q # <<>>, \A i, j \in DOMAIN q : q[i] = q[j] => i = j,
         Elements(q) \cap Answered(m) = {}, NEW p \in DOMAIN m, LastAsks(m, p, q),
         NEW extra \in {<<>>, <<Note>>}
  PROVE  LET r == Tail(q)
             u == m \o <<Result(Head(q))>> \o extra
         IN  /\ Good(u, t, n, o)
             /\ r \in Seq(1 .. n) /\ Len(r) <= Len(q) /\ \A i, j \in DOMAIN r : r[i] = r[j] => i = j
             /\ Elements(r) \cap Answered(u) = {}
             /\ \E k \in DOMAIN u : LastAsks(u, k, r)
<1> DEFINE c == Head(q)
           r == Tail(q)
           v == m \o <<Result(c)>>
           u == v \o extra
<1>1. /\ c \in 1 .. n /\ c \in Elements(q) /\ r \in Seq(1 .. n) /\ Len(r) <= Len(q)
      /\ \A i, j \in DOMAIN r : r[i] = r[j] => i = j
  BY SMTT(20) DEF Elements
<1>2. Elements(q) = Elements(r) \cup {c} /\ c \notin Elements(r)
  <2>1. Len(q) \in Nat \ {0} /\ DOMAIN q = 1 .. Len(q) /\ DOMAIN r = 1 .. Len(q) - 1 /\ c = q[1]
        /\ \A i \in DOMAIN r : r[i] = q[i + 1]
    OBVIOUS
  <2> HIDE DEF r, c
  <2>2. ASSUME NEW i \in DOMAIN q, i # 1 PROVE i - 1 \in DOMAIN r /\ q[i] = r[i - 1]
    <3>1. i - 1 \in DOMAIN r /\ (i - 1) + 1 = i
      BY <2>1, <2>2
    <3> QED
      BY <2>1, <3>1
  <2>3. \A i \in DOMAIN r : i + 1 \in DOMAIN q /\ i + 1 # 1 /\ r[i] = q[i + 1]
    BY <2>1
  <2>4. 1 \in DOMAIN q
    BY <2>1
  <2>5. \A i \in DOMAIN r : r[i] # c
    BY <2>1, <2>3, <2>4
  <2>6. ASSUME NEW x \in Elements(q) PROVE x \in Elements(r) \cup {c}
    <3>1. PICK i \in DOMAIN q : x = q[i]
      BY DEF Elements
    <3>2. CASE i = 1
      BY <2>1, <3>1, <3>2
    <3>3. CASE i # 1
      BY <2>2, <3>1, <3>3 DEF Elements
    <3> QED
      BY <3>2, <3>3
  <2>7. ASSUME NEW x \in Elements(r) \cup {c} PROVE x \in Elements(q)
    BY <2>1, <2>3, <2>4, <2>7 DEF Elements
  <2>8. c \notin Elements(r)
    BY <2>5 DEF Elements
  <2> QED
    BY <2>6, <2>7, <2>8
<1> HIDE DEF c, r
<1>3. v = Append(m, Result(c))
  BY DEF Good
<1>4. c \notin Answered(m)
  BY <1>1
<1>5. Good(v, t, n, o) /\ Answered(v) = Answered(m) \cup {c}
  <2>1. /\ Good(Append(m, Result(c)), t, n, o)
        /\ Answered(Append(m, Result(c))) = Answered(m) \cup {c}
    BY <1>1, <1>4, ResultGood
  <2> QED
    BY <1>3, <2>1
<1>6. p \in DOMAIN v /\ LastAsks(v, p, r)
  <2>1. m \in Seq(Messages(t, n))
    BY DEF Good
  <2>2. Result(c).role # "assistant"
    BY DEF Result, Message
  <2>3. Answered(m) \cup Elements(q) \subseteq Answered(v) \cup Elements(r)
    BY <1>2, <1>5
  <2> QED
    <3> DEFINE x == Result(c)
    <3>1. v = Append(m, x) /\ x.role # "assistant"
      BY <1>3, <2>2
    <3> HIDE DEF v, x
    <3>2. Answered(m) \cup Elements(q) \subseteq Answered(Append(m, x)) \cup Elements(r)
      BY <2>3, <3>1
    <3>3. p \in DOMAIN Append(m, x) /\ LastAsks(Append(m, x), p, r)
      BY <2>1, <3>1, <3>2, StillAsks, Zenon
    <3> QED
      BY <3>1, <3>3
<1>7. Elements(r) \cap Answered(v) = {}
  BY <1>2, <1>5
<1> HIDE DEF v
<1>8. /\ Good(u, t, n, o) /\ Elements(r) \cap Answered(u) = {} /\ \E k \in DOMAIN u : LastAsks(u, k, r)
  <2>1. CASE extra = <<Note>>
    <3>1. u = Append(v, Note)
      BY <1>5, <2>1 DEF Good
    <3>2. Note \in Messages(t, n) /\ Inert(Note) /\ Note.role # "assistant"
      BY InertOnes DEF Note, Message
    <3> HIDE DEF u
    <3>3. Good(u, t, n, o) /\ Answered(u) = Answered(v)
      BY <1>5, <3>1, <3>2, InertGood, Zenon
    <3>4. Answered(v) \cup Elements(r) \subseteq Answered(u) \cup Elements(r)
      BY <3>3
    <3>5. v \in Seq(Messages(t, n))
      BY <1>5 DEF Good
    <3>6. p \in DOMAIN u /\ LastAsks(u, p, r)
      BY <1>6, <3>1, <3>2, <3>4, <3>5, StillAsks, Zenon
    <3> QED
      BY <1>7, <3>3, <3>6
  <2>2. CASE extra = <<>>
    <3>1. u = v
      BY <1>5, <2>2 DEF Good
    <3> HIDE DEF u
    <3> QED
      BY <1>5, <1>6, <1>7, <3>1
  <2> QED
    BY <2>1, <2>2
<1> QED
  BY <1>1, <1>8 DEF c, r, u, v

-----------------------------------------------------------------------------
(* The initial state, and every step.                                       *)

LEMMA InitHolds ==
  ASSUME Bounds, Init
  PROVE  IInv
<1>0. \A b \in {MaxTasks, MaxTurns, MaxCalls, MaxRetries, MaxOverflow, MaxCrashes} : b \in Nat /\ 0 \in 0 .. b
  BY DEF Bounds
<1>1. Scalars
  <2>1. 0 \in 0 .. 0 /\ task = 0
    BY DEF Init
  <2> QED
    BY <1>0, <2>1 DEF Init, Scalars
<1>2. Histories
  BY DEF Init, Histories
<1>3. Awaited
  BY DEF Init, Awaited, Bounds, InCalls, Elements
<1>4. Started
  BY DEF Init, Started
<1> QED
  BY <1>1, <1>2, <1>3, <1>4 DEF IInv

LEMMA SameHistory ==
  ASSUME Histories, messages' = messages, saved' = saved, task' = task, issued' = issued, origin' = origin,
         pc' # "idle" => messages # <<>>
  PROVE  Histories'
BY DEF Histories

LEMMA EndsHolds ==
  ASSUME Bounds, IInv, Ends, Histories', task' = task, issued' \in Nat, origin' = origin,
         crashes' \in 0 .. MaxCrashes
  PROVE  IInv'
<1>0. \A b \in {MaxTurns, MaxRetries, MaxOverflow} : b \in Nat /\ 0 \in 0 .. b
  BY DEF Bounds
<1>1. Scalars'
  BY <1>0 DEF IInv, Ends, Scalars
<1>2. Awaited'
  BY DEF Ends, Awaited, Bounds, InCalls, Elements
<1>3. Started'
  BY DEF Ends, Started
<1> QED
  BY <1>1, <1>2, <1>3 DEF IInv

LEMMA EndsSame ==
  ASSUME Bounds, IInv, Ends, UNCHANGED <<history, session>>
  PROVE  IInv'
<1>1. Histories'
  BY SameHistory DEF IInv, Ends, history, session
<1> QED
  BY <1>1, EndsHolds DEF IInv, Scalars, session

\* Steps between the calls of the provider: the history may be another good one.
LEMMA RequestsHold ==
  ASSUME Bounds, IInv, ~InCalls, pc # "idle", pc' \in {"stream", "chat", "sleep"}, turn < MaxTurns,
         Histories', UNCHANGED <<turn, queue, flags, observed, session>>,
         attempt' \in 0 .. MaxRetries, overflows' \in 0 .. MaxOverflow
  PROVE  IInv'
<1>1. Scalars'
  BY DEF IInv, Scalars, flags, session
<1>2. Awaited'
  BY DEF IInv, Scalars, Awaited, Bounds, InCalls, Elements, session
<1>3. Started'
  BY DEF IInv, Started, InCalls, flags, observed
<1> QED
  BY <1>1, <1>2, <1>3 DEF IInv

LEMMA RecordsHold ==
  ASSUME Bounds, IInv, InCalls, queue # <<>>, NEW extra \in {<<>>, <<Note>>}, Records(Call, extra),
         UNCHANGED <<counters, aborted, reminded, lateStarts, session>>,
         lastInvalid' \in Signatures \cup {None}, nudged' \in BOOLEAN
  PROVE  IInv'
<1>1. Good(messages, task, issued, origin) /\ task \in Nat /\ issued \in Nat
  BY DEF IInv, Histories, Scalars, InCalls, Bounds
<1>2. PICK p \in DOMAIN messages : LastAsks(messages, p, queue)
  BY DEF IInv, Awaited
<1>3. /\ queue \in Seq(1 .. issued) /\ \A i, j \in DOMAIN queue : queue[i] = queue[j] => i = j
      /\ Elements(queue) \cap Answered(messages) = {} /\ Len(queue) <= MaxCalls
  BY DEF IInv, Awaited
<1>4. /\ messages' = messages \o <<Result(Head(queue))>> \o extra /\ saved' = messages'
      /\ unsaved' = unsaved \ {Head(queue)} /\ queue' = Tail(queue) /\ pc' = "calls"
  BY DEF Records, Call
<1>5. task' = task /\ issued' = issued /\ origin' = origin
  BY DEF session
<1>6. /\ Good(messages', task, issued, origin)
      /\ queue' \in Seq(1 .. issued) /\ Len(queue') <= Len(queue)
      /\ \A i, j \in DOMAIN queue' : queue'[i] = queue'[j] => i = j
      /\ Elements(queue') \cap Answered(messages') = {}
      /\ \E k \in DOMAIN messages' : LastAsks(messages', k, queue')
  <2>1. LET r == Tail(queue)
            u == messages \o <<Result(Head(queue))>> \o extra
        IN  /\ Good(u, task, issued, origin)
            /\ r \in Seq(1 .. issued) /\ Len(r) <= Len(queue) /\ \A i, j \in DOMAIN r : r[i] = r[j] => i = j
            /\ Elements(r) \cap Answered(u) = {}
            /\ \E k \in DOMAIN u : LastAsks(u, k, r)
    BY <1>1, <1>2, <1>3, RecordGood
  <2> QED
    BY <1>4, <2>1
<1>7. Histories'
  <2>1. messages' # <<>>
    BY <1>6 DEF Good
  <2> QED
    BY <1>4, <1>5, <1>6, <2>1 DEF Histories
<1>8. Awaited'
  <2>1. Len(queue') <= MaxCalls
    BY <1>3, <1>6 DEF Bounds
  <2> QED
    BY <1>4, <1>5, <1>6, <2>1 DEF Awaited, InCalls
<1>9. Scalars'
  BY <1>4 DEF IInv, Scalars, InCalls, counters, session
<1>10. Started'
  BY <1>4 DEF IInv, Started
<1> QED
  BY <1>7, <1>8, <1>9, <1>10 DEF IInv

LEMMA SubmitHolds ==
  ASSUME Bounds, IInv, Submit
  PROVE  IInv'
<1>1. /\ task \in Nat /\ MaxTasks \in Nat /\ task + 1 \in 0 .. MaxTasks /\ issued \in Nat /\ issued' = issued
      /\ task' = task + 1 /\ messages' = Append(messages, User(task + 1)) /\ saved' = saved
  BY DEF IInv, Scalars, Bounds, Submit
<1>2. User(task + 1) \in Messages(task + 1, issued) /\ Inert(User(task + 1))
  BY <1>1, InertOnes
<1>3. User(task + 1).role = "user" /\ User(task + 1).task = task + 1
  BY DEF User, Message
<1>4. Histories' /\ origin' \in 0 .. task' /\ Answered(messages') \subseteq Answered(messages)
  <2>1. CASE messages = <<>>
    <3> DEFINE x == User(task + 1)
    <3>1. messages' = <<x>> /\ origin' = task + 1 /\ saved = <<>>
      BY <1>1, <2>1 DEF Submit, IInv, Histories
    <3>2. x.role = "user" /\ x.task = task + 1 /\ x.calls = <<>> /\ x \in Messages(task + 1, issued)
      BY <1>2, <1>3 DEF Inert
    <3> HIDE DEF x
    <3>3. InOrder(<<x>>)
      BY <3>2 DEF InOrder, Elements
    <3>4. Good(<<x>>, task + 1, issued, task + 1)
      BY <3>2, <3>3 DEF Good
    <3>5. Answered(<<x>>) = {}
      BY <3>2 DEF Answered, Positions
    <3>6. <<x>> # <<>> /\ task + 1 \in 0 .. task + 1
      BY <1>1
    <3> QED
      BY <1>1, <3>1, <3>4, <3>5, <3>6 DEF Histories
  <2>2. CASE messages # <<>>
    <3>1. Good(messages, task, issued, origin) /\ (saved = <<>> \/ Good(saved, task, issued, origin))
      BY <2>2 DEF IInv, Histories
    <3>2. task + 1 \in Nat /\ task <= task + 1 /\ issued <= issued
      BY <1>1
    <3>3. Good(messages, task + 1, issued, origin) /\ (saved = <<>> \/ Good(saved, task + 1, issued, origin))
      BY <1>1, <3>1, <3>2, GoodLater
    <3>4. Good(messages', task + 1, issued, origin) /\ Answered(messages') = Answered(messages)
      <4> DEFINE x == User(task + 1)
      <4>1. x \in Messages(task + 1, issued) /\ Inert(x) /\ messages' = Append(messages, x)
        BY <1>1, <1>2
      <4> HIDE DEF x
      <4>2. Good(Append(messages, x), task + 1, issued, origin) /\ Answered(Append(messages, x)) = Answered(messages)
        BY <1>1, <3>2, <3>3, <4>1, InertGood, ZenonT(30)
      <4> QED
        BY <4>1, <4>2
    <3>5. origin' = origin /\ origin \in 0 .. task + 1
      BY <1>1, <2>2 DEF Submit, IInv, Scalars
    <3>6. messages' # <<>>
      BY <3>4 DEF Good
    <3> QED
      BY <1>1, <3>3, <3>4, <3>5, <3>6 DEF Histories
  <2> QED
    BY <2>1, <2>2
<1>5. Scalars'
  BY <1>1, <1>4 DEF IInv, Scalars, Submit, locals, counters, flags
<1>6. Awaited'
  <2>1. queue' = <<>> /\ queue = <<>> /\ pc' = "turn" /\ turn' = 0
    BY DEF IInv, Awaited, InCalls, Submit, locals, counters, Scalars
  <2> QED
    BY <1>1, <2>1 DEF IInv, Awaited, InCalls, Elements
<1>7. Started'
  BY DEF IInv, Started, Submit, locals, observed, flags
<1> QED
  BY <1>4, <1>5, <1>6, <1>7 DEF IInv

LEMMA ProjectHolds ==
  ASSUME Bounds, IInv, Project
  PROVE  IInv'
<1>0. /\ Good(messages, task, issued, origin) /\ task \in Nat /\ issued \in Nat /\ origin \in 0 .. task
      /\ task' = task /\ issued' = issued /\ origin' = origin
  BY DEF IInv, Histories, Scalars, Project, Bounds, session
<1>1. Histories'
  <2>1. CASE UNCHANGED history
    <3>1. messages # <<>>
      BY <1>0 DEF Good
    <3> QED
      BY <1>0, <2>1, <3>1, SameHistory DEF IInv, history
  <2>2. CASE \E m \in Compactions(messages) \ {messages} : messages' = FreshEpoch(m) /\ saved' = messages'
    <3>1. PICK m \in Compactions(messages) : messages' = FreshEpoch(m) /\ saved' = messages'
      BY <2>2
    <3>2. Good(FreshEpoch(m), task, issued, origin)
      BY <1>0, CompactionGood, EpochGood
    <3>3. FreshEpoch(m) # <<>>
      BY <3>2 DEF Good
    <3> QED
      BY <1>0, <3>1, <3>2, <3>3 DEF Histories
  <2>3. CASE messages' = Append(messages, Update) /\ saved' = messages'
    <3>1. Good(Append(messages, Update), task, issued, origin)
      BY <1>0, InertOnes, InertGood
    <3>2. Append(messages, Update) # <<>>
      BY <3>1 DEF Good
    <3> QED
      BY <1>0, <2>3, <3>1, <3>2 DEF Histories
  <2> QED
    BY <2>1, <2>2, <2>3 DEF Project
<1> QED
  BY <1>1, RequestsHold DEF Project, locals, counters, InCalls, IInv, Scalars

LEMMA ResponseHolds ==
  ASSUME Bounds, IInv, Response
  PROVE  IInv'
<1>1. PICK n \in 0 .. MaxCalls, reminds \in BOOLEAN : Responds([i \in 1 .. n |-> issued + i], reminds)
  BY DEF Response
<1> DEFINE cs == [i \in 1 .. n |-> issued + i]
<1>2. /\ Good(messages, task, issued, origin) /\ task \in Nat /\ issued \in Nat /\ n \in Nat
      /\ task' = task /\ origin' = origin /\ crashes' = crashes
  BY <1>1 DEF IInv, Histories, Scalars, Responds, Bounds
<1>3. /\ cs \in Seq(1 .. issued + n) /\ Len(cs) = n
      /\ \A i, j \in DOMAIN cs : cs[i] = cs[j] => i = j
  BY <1>2
<1>4. /\ messages' = messages \o (IF reminds THEN <<Note>> ELSE <<>>) \o <<Assistant(cs)>>
      /\ saved' = messages' /\ issued' = issued + n
  BY <1>1, <1>3 DEF Responds
<1>5. /\ Good(messages', task, issued + n, origin)
      /\ Elements(cs) \cap Answered(messages') = {}
      /\ \E p \in DOMAIN messages' : LastAsks(messages', p, cs)
  <2>1. \A c \in Elements(cs) : c \in issued + 1 .. issued + n
    BY <1>2 DEF Elements
  <2> HIDE DEF cs
  <2>2. LET u == messages \o (IF reminds THEN <<Note>> ELSE <<>>) \o <<Assistant(cs)>>
        IN  /\ Good(u, task, issued + n, origin)
            /\ Elements(cs) \cap Answered(u) = {}
            /\ \E p \in DOMAIN u : LastAsks(u, p, cs)
    BY <1>2, <1>3, <2>1, ResponseGood
  <2> QED
    BY <1>4, <2>2
<1>6. Histories' /\ issued' \in Nat
  <2>1. messages' # <<>>
    BY <1>5 DEF Good
  <2> QED
    BY <1>2, <1>4, <1>5, <2>1 DEF Histories
<1>7. IF cs = <<>>
      THEN Ends
      ELSE /\ pc' = "calls" /\ queue' = cs /\ attempt' = 0 /\ overflows' = 0
           /\ reminded' = (reminded \/ reminds)
           /\ UNCHANGED <<turn, aborted, lastInvalid, nudged, observed>>
  BY <1>1 DEF Responds
<1> HIDE DEF cs
<1>8. CASE cs = <<>>
  BY <1>2, <1>6, <1>7, <1>8, EndsHolds DEF IInv, Scalars
<1>9. CASE cs # <<>>
  <2>1. pc \in {"stream", "chat"}
    BY <1>1 DEF Responds
  <2>2. Scalars'
    <3>1. \A b \in {MaxRetries, MaxOverflow} : 0 \in 0 .. b
      BY DEF Bounds
    <3> QED
      BY <1>2, <1>6, <1>7, <1>9, <2>1, <3>1 DEF IInv, Scalars
  <2>3. Awaited'
    <3>1. /\ queue' \in Seq(1 .. issued') /\ Len(queue') <= MaxCalls /\ queue' # <<>> /\ pc' = "calls"
          /\ \A i, j \in DOMAIN queue' : queue'[i] = queue'[j] => i = j
      BY <1>3, <1>4, <1>7, <1>9 DEF Bounds
    <3>2. /\ Elements(queue') \cap Answered(messages') = {}
          /\ \E p \in DOMAIN messages' : LastAsks(messages', p, queue')
      BY <1>5, <1>7, <1>9
    <3> QED
      BY <3>1, <3>2 DEF Awaited, InCalls
  <2>4. Started'
    BY <1>7, <1>9, <2>1 DEF IInv, Started, observed
  <2> QED
    BY <1>6, <2>2, <2>3, <2>4 DEF IInv
<1> QED
  BY <1>8, <1>9

LEMMA OverflowHolds ==
  ASSUME Bounds, IInv, Overflow
  PROVE  IInv'
<1>0. /\ Good(messages, task, issued, origin) /\ task \in Nat /\ issued \in Nat /\ origin \in 0 .. task
      /\ task' = task /\ issued' = issued /\ origin' = origin /\ crashes' = crashes
      /\ overflows + 1 \in 0 .. MaxOverflow
      /\ 0 \in 0 .. MaxRetries /\ pc \in {"stream", "chat"} /\ turn < MaxTurns
  BY DEF IInv, Histories, Scalars, Overflow, Fails, Bounds, session
<1>1. PICK m \in Compactions(messages) :
        \/ /\ messages' = FreshEpoch(m) /\ saved' = messages'
           /\ pc' = "stream" /\ overflows' = overflows + 1 /\ attempt' = 0
           /\ UNCHANGED <<turn, queue, flags, observed>>
        \/ messages' = m /\ UNCHANGED saved /\ Ends
  BY DEF Overflow
<1>2. Good(m, task, issued, origin) /\ Good(FreshEpoch(m), task, issued, origin)
  BY <1>0, CompactionGood, EpochGood
<1>3. m # <<>> /\ FreshEpoch(m) # <<>>
  BY <1>2 DEF Good
<1>4. CASE /\ messages' = FreshEpoch(m) /\ saved' = messages'
           /\ pc' = "stream" /\ overflows' = overflows + 1 /\ attempt' = 0
           /\ UNCHANGED <<turn, queue, flags, observed>>
  <2>1. Histories'
    BY <1>0, <1>2, <1>3, <1>4 DEF Histories
  <2>2. UNCHANGED session
    BY DEF Overflow
  <2> QED
    BY <1>0, <1>4, <2>1, <2>2, RequestsHold DEF InCalls
<1>5. CASE messages' = m /\ UNCHANGED saved /\ Ends
  <2>1. Histories'
    BY <1>0, <1>2, <1>3, <1>5 DEF IInv, Histories
  <2> QED
    BY <1>0, <1>5, <2>1, EndsHolds DEF IInv, Scalars
<1> QED
  BY <1>1, <1>4, <1>5

LEMMA StepHolds ==
  ASSUME Bounds, IInv, [Next]_vars
  PROVE  IInv'
<1>1. CASE Submit
  BY <1>1, SubmitHolds
<1>2. CASE StopsAtTurn \/ Throws \/ StopsAtCall \/ AuthorizeThrows \/ BodyAborts
  <2>1. Ends /\ UNCHANGED <<history, session>>
    BY <1>2 DEF StopsAtTurn, Throws, StopsAtCall, AuthorizeThrows, BodyAborts
  <2> QED
    BY <2>1, EndsSame
<1>3. CASE Project
  BY <1>3, ProjectHolds
<1>4. CASE Response
  BY <1>4, ResponseHolds
<1>5. CASE FallsBack
  <2>1. messages # <<>> /\ turn < MaxTurns /\ attempt \in 0 .. MaxRetries /\ overflows \in 0 .. MaxOverflow
    BY <1>5 DEF FallsBack, IInv, Histories, Scalars
  <2>2. Histories'
    BY <1>5, <2>1, SameHistory DEF IInv, FallsBack, history, session
  <2> QED
    BY <1>5, <2>1, <2>2, RequestsHold DEF FallsBack, InCalls, locals, counters
<1>6. CASE Transient
  <2>1. /\ messages # <<>> /\ turn < MaxTurns /\ attempt + 1 \in 0 .. MaxRetries /\ overflows \in 0 .. MaxOverflow
    BY <1>6 DEF Transient, AttemptsLeft, IInv, Histories, Scalars, Bounds
  <2>2. Histories'
    BY <1>6, <2>1, SameHistory DEF IInv, Transient, history, session
  <2> QED
    BY <1>6, <2>1, <2>2, RequestsHold DEF Transient, InCalls
<1>7. CASE Wakes
  <2>1. CASE aborted
    BY <1>7, <2>1, EndsSame DEF Wakes
  <2>2. CASE ~aborted
    <3>1. messages # <<>> /\ turn < MaxTurns /\ attempt \in 0 .. MaxRetries /\ overflows \in 0 .. MaxOverflow
      BY <1>7 DEF Wakes, IInv, Histories, Scalars
    <3>2. Histories'
      BY <1>7, <3>1, SameHistory DEF IInv, Wakes, history, session
    <3> QED
      BY <1>7, <2>2, <3>1, <3>2, RequestsHold DEF Wakes, InCalls, locals, counters
  <2> QED
    BY <2>1, <2>2
<1>8. CASE Overflow
  BY <1>8, OverflowHolds
<1>9. CASE TurnEnds
  <2>1. pc = "calls" /\ queue = <<>> /\ pc' = "turn" /\ turn' = turn + 1 /\ turn + 1 \in 0 .. MaxTurns
        /\ UNCHANGED <<history, attempt, overflows, queue, flags, observed, session>>
    BY <1>9 DEF TurnEnds, IInv, Scalars, Bounds
  <2>2. Histories'
    BY <2>1, SameHistory DEF IInv, Histories, history, session
  <2>3. Scalars'
    BY <2>1 DEF IInv, Scalars, flags, session
  <2>4. Awaited'
    BY <2>1 DEF IInv, Awaited, InCalls, history, session
  <2>5. Started'
    BY <2>1 DEF IInv, Started, flags, observed
  <2> QED
    BY <2>2, <2>3, <2>4, <2>5 DEF IInv
<1>10. CASE Unbuildable
  <2>1. lastInvalid' \in Signatures \cup {None}
    BY <1>10 DEF Unbuildable, IInv, Scalars
  <2> QED
    BY <1>10, <2>1, RecordsHold DEF Unbuildable, RecordsBlocked, InCalls, IInv, Scalars
<1>11. CASE Built
  <2>1. pc = "calls" /\ queue # <<>> /\ ~aborted /\ lastInvalid' = None
        /\ UNCHANGED <<counters, aborted, nudged, reminded, lateStarts, session>>
    BY <1>11 DEF Built
  <2>2. CASE pc' = "gate" /\ UNCHANGED <<history, queue, unsaved>>
    <3>1. messages # <<>>
      BY <2>1 DEF IInv, Histories
    <3>2. Histories'
      BY <2>1, <2>2, <3>1, SameHistory DEF IInv, history, session
    <3>3. Scalars'
      BY <2>1, <2>2 DEF IInv, Scalars, counters, session
    <3>4. Awaited'
      BY <2>1, <2>2 DEF IInv, Awaited, InCalls, history, session
    <3>5. Started'
      BY <2>1, <2>2 DEF IInv, Started
    <3> QED
      BY <3>2, <3>3, <3>4, <3>5 DEF IInv
  <2>3. CASE RecordsBlocked(Call)
    BY <2>1, <2>3, RecordsHold DEF RecordsBlocked, InCalls, IInv, Scalars
  <2> QED
    BY <1>11, <2>2, <2>3 DEF Built
<1>12. CASE GateCloses
  <2>1. queue # <<>>
    BY <1>12 DEF GateCloses, IInv, Awaited
  <2> QED
    BY <1>12, <2>1, RecordsHold DEF GateCloses, RecordsBlocked, InCalls, IInv, Scalars, flags
<1>13. CASE GateOpens
  <2>1. /\ pc = "gate" /\ pc' = "body" /\ unsaved' = unsaved \cup {Head(queue)}
        /\ lateStarts' = (IF aborted THEN lateStarts + 1 ELSE lateStarts)
        /\ UNCHANGED <<history, counters, queue, flags, session>>
    BY <1>13 DEF GateOpens, Call
  <2>2. messages # <<>>
    BY <2>1 DEF IInv, Histories
  <2>3. Histories'
    BY <2>1, <2>2, SameHistory DEF IInv, history, session
  <2>4. Scalars'
    BY <2>1 DEF IInv, Scalars, counters, flags, session
  <2>5. Awaited'
    BY <2>1 DEF IInv, Awaited, InCalls, history, session
  <2>6. Started'
    BY <2>1 DEF IInv, Started, Scalars, flags
  <2> QED
    BY <2>3, <2>4, <2>5, <2>6 DEF IInv
<1>14. CASE \E nudges \in BOOLEAN : BodyReturns(nudges)
  <2>1. PICK nudges \in BOOLEAN : BodyReturns(nudges)
    BY <1>14
  <2>2. queue # <<>> /\ InCalls /\ nudged' \in BOOLEAN
    BY <2>1 DEF BodyReturns, IInv, Awaited, InCalls, Scalars
  <2>3. PICK extra \in {<<>>, <<Note>>} : Records(Call, extra)
    BY <2>1 DEF BodyReturns
  <2> QED
    BY <2>1, <2>2, <2>3, RecordsHold DEF BodyReturns, IInv, Scalars
<1>15. CASE Abort
  <2>1. Histories'
    BY <1>15, SameHistory DEF Abort, IInv, Histories, history, session
  <2>2. Scalars'
    BY <1>15 DEF Abort, IInv, Scalars, counters, session
  <2>3. Awaited'
    BY <1>15 DEF Abort, IInv, Awaited, InCalls, history, counters, session
  <2>4. Started'
    BY <1>15 DEF Abort, IInv, Started, observed
  <2> QED
    BY <2>1, <2>2, <2>3, <2>4 DEF IInv
<1>16. CASE CrashAndResume
  <2>1. crashes' \in 0 .. MaxCrashes /\ issued \in Nat
    BY <1>16 DEF CrashAndResume, IInv, Scalars, Bounds
  <2>2. Histories'
    BY <1>16 DEF CrashAndResume, IInv, Histories, Ends
  <2> QED
    BY <1>16, <2>1, <2>2, EndsHolds DEF CrashAndResume
<1>17. CASE UNCHANGED vars
  <2>1. Histories'
    BY <1>17, SameHistory DEF IInv, Histories, vars, history, session
  <2>2. Scalars'
    BY <1>17 DEF IInv, Scalars, vars, history, locals, counters, flags, session
  <2>3. Awaited'
    BY <1>17 DEF IInv, Awaited, InCalls, vars, history, locals, counters, session
  <2>4. Started'
    BY <1>17 DEF IInv, Started, vars, locals, flags, observed
  <2> QED
    BY <2>1, <2>2, <2>3, <2>4 DEF IInv
<1> QED
  BY <1>1, <1>2, <1>3, <1>4, <1>5, <1>6, <1>7, <1>8, <1>9, <1>10, <1>11, <1>12, <1>13, <1>14, <1>15, <1>16,
     <1>17 DEF Next, Loop, Waiting

\* Histories, queue and flags fit together in every reachable state.
THEOREM LoopInvariant == Spec => []IInv
<1> Bounds
  BY AgentAssumption DEF Bounds
<1>1. Init => IInv
  BY InitHolds
<1>2. IInv /\ [Next]_vars => IInv'
  BY StepHolds
<1> QED
  BY <1>1, <1>2, PTL DEF Spec

-----------------------------------------------------------------------------
(* What the invariant says of the session.                                  *)

LEMMA MessagesTyped ==
  ASSUME NEW t \in Nat, NEW n \in Nat, NEW m \in Seq(Messages(t, n)), NEW i \in DOMAIN m
  PROVE  /\ m[i].role \in Roles /\ m[i].task \in 0 .. t
         /\ Elements(m[i].calls) \cup {m[i].id} \subseteq 0 .. n
<1>1. m[i] \in Messages(t, n)
  OBVIOUS
<1>2. m[i].role \in Roles /\ m[i].task \in 0 .. t /\ m[i].calls \in Seq(1 .. n) /\ m[i].id \in 0 .. n
  BY <1>1 DEF Messages
<1> DEFINE cs == m[i].calls
<1>3. \A k \in DOMAIN cs : cs[k] \in 1 .. n
  BY <1>2
<1> HIDE DEF cs
<1>4. Elements(cs) \subseteq 0 .. n
  BY <1>3 DEF Elements
<1> QED
  BY <1>2, <1>4 DEF cs

LEMMA InvTyped ==
  ASSUME Bounds, IInv
  PROVE  TypeOK
<1>1. task \in Nat /\ issued \in Nat
  BY DEF IInv, Scalars, Bounds
<1>2. ASSUME NEW m \in {messages, saved}, NEW i \in DOMAIN m
      PROVE  /\ m[i].role \in {"user", "summary", "assistant", "tool", "note", "update"}
             /\ m[i].task \in 0 .. task
             /\ Elements(m[i].calls) \cup {m[i].id} \subseteq 0 .. issued
  <2>1. m \in Seq(Messages(task, issued))
    BY DEF IInv, Histories, Good
  <2> QED
    BY <1>1, <2>1, MessagesTyped DEF Roles
<1>6. queue \in Seq(1 .. issued) /\ Len(queue) <= MaxCalls /\ (pc = "body" => queue # <<>>)
  BY DEF IInv, Awaited
<1>3. Elements(queue) \subseteq 1 .. issued
  <2>1. \A i \in DOMAIN queue : queue[i] \in 1 .. issued
    BY <1>1, <1>6
  <2> QED
    BY <2>1 DEF Elements
<1>4. unsaved \subseteq 1 .. issued /\ lateStarts \in Nat
  <2>1. pc = "body" => Head(queue) \in 1 .. issued
    BY <1>1, <1>6
  <2> QED
    BY <2>1 DEF IInv, Started
<1>5. /\ pc \in {"idle", "turn", "stream", "chat", "sleep", "calls", "gate", "body"}
      /\ task \in 0 .. MaxTasks /\ turn \in 0 .. MaxTurns
      /\ attempt \in 0 .. MaxRetries /\ overflows \in 0 .. MaxOverflow
      /\ {aborted, nudged, reminded} \subseteq BOOLEAN
      /\ lastInvalid \in Signatures \cup {None}
      /\ crashes \in 0 .. MaxCrashes /\ origin \in 0 .. task
  BY DEF IInv, Scalars
<1> QED
  BY <1>2, <1>3, <1>4, <1>5, <1>6 DEF TypeOK

\* In a history in order, a result that has a call in it is sent after it, and a
\* call that is sent has its one result.
LEMMA InvPaired ==
  ASSUME IInv
  PROVE  PairedRequest
<1> SUFFICES ASSUME pc \in {"stream", "chat"} PROVE PairedRequest
  BY DEF PairedRequest
<1> DEFINE kept    == Kept(messages)
           results == kept \cap Positions(messages, {"tool"})
<1>1. InOrder(messages) /\ Len(messages) \in Nat /\ DOMAIN messages = 1 .. Len(messages)
  BY DEF IInv, Histories, Good
<1>2. \A j \in DOMAIN messages : KeptCalls(messages, j) # {} => j \in kept
  <2> SUFFICES ASSUME NEW j \in DOMAIN messages, KeptCalls(messages, j) # {} PROVE j \in kept
    OBVIOUS
  <2>1. messages[j].calls # <<>>
    BY DEF KeptCalls, Elements
  <2>2. messages[j].role = "assistant"
    BY <1>1, <2>1 DEF InOrder
  <2> QED
    BY <2>2 DEF Kept
<1>3. ASSUME NEW i \in results
      PROVE  \E j \in kept : j < i /\ messages[i].id \in KeptCalls(messages, j)
  <2>1. i \in DOMAIN messages /\ messages[i].role = "tool"
    BY DEF Positions
  <2>2. PICK j \in 1 .. i - 1 : messages[i].id \in KeptCalls(messages, j)
    BY <2>1 DEF Kept
  <2>3. j \in DOMAIN messages /\ j < i
    BY <1>1, <2>1
  <2> QED
    BY <1>2, <2>2, <2>3
<1>4. ASSUME NEW j \in kept, NEW c \in KeptCalls(messages, j)
      PROVE  \E i \in results :
               /\ j < i /\ messages[i].id = c
               /\ \A k \in results : messages[k].id = c => k = i
  <2>1. j \in DOMAIN messages
    BY DEF Kept
  <2>2. PICK i \in DOMAIN messages : messages[i].role = "tool" /\ messages[i].id = c
    BY DEF KeptCalls, Answered, Positions
  <2>3. c \in Elements(messages[j].calls)
    BY DEF KeptCalls
  <2>4. j < i
    BY <1>1, <2>1, <2>2, <2>3 DEF InOrder
  <2>5. i \in results
    <3>1. j \in 1 .. i - 1
      BY <1>1, <2>1, <2>4
    <3> QED
      BY <2>2, <3>1 DEF Kept, Positions
  <2>6. \A k \in results : messages[k].id = c => k = i
    BY <1>1, <2>2 DEF InOrder, Positions
  <2> QED
    BY <2>2, <2>4, <2>5, <2>6
<1> QED
  BY <1>3, <1>4 DEF PairedRequest

LEMMA InvAnswered ==
  ASSUME IInv
  PROVE  EveryCallAnswered
<1> SUFFICES ASSUME pc = "turn", turn > 0 PROVE EveryCallAnswered
  BY DEF EveryCallAnswered
<1> DEFINE asked == Positions(messages, {"assistant"})
<1>1. PICK p \in DOMAIN messages : LastAsks(messages, p, queue)
  BY DEF IInv, Awaited
<1>2. Elements(queue) = {}
  BY DEF IInv, Awaited, InCalls, Elements
<1>3. p \in asked /\ asked \in SUBSET Nat /\ \A i \in asked : p >= i
  <2>1. messages \in Seq(Messages(task, issued))
    BY DEF IInv, Histories, Good
  <2> QED
    BY <1>1, <2>1 DEF LastAsks, Positions
<1>4. Last(asked) = p
  BY <1>3, LastIs
<1>5. Elements(messages[p].calls) \subseteq Answered(messages)
  BY <1>1, <1>2 DEF LastAsks
<1> QED
  BY <1>3, <1>4, <1>5 DEF EveryCallAnswered

LEMMA InvTaskKept ==
  ASSUME IInv
  PROVE  OriginalTaskKept
<1> DEFINE users == Positions(messages, {"user", "summary"})
<1> SUFFICES ASSUME users # {} PROVE messages[First(users)].task = origin
  BY DEF OriginalTaskKept
<1>1. Good(messages, task, issued, origin)
  BY DEF IInv, Histories, Positions
<1>2. 1 \in users /\ users \in SUBSET Nat /\ \A j \in users : 1 <= j
  BY <1>1 DEF Good, Positions
<1>3. First(users) = 1
  BY <1>2, FirstIs
<1> QED
  BY <1>1, <1>3 DEF Good

LEMMA InvOneUnsaved ==
  ASSUME IInv
  PROVE  CrashLosesOneResult
<1>1. unsaved = {} \/ unsaved = {Head(queue)}
  BY DEF IInv, Started
<1>2. CASE unsaved = {}
  <2>1. Cardinality(unsaved) = 0
    BY <1>2, FS_EmptySet
  <2> QED
    BY <2>1 DEF CrashLosesOneResult
<1>3. CASE unsaved = {Head(queue)}
  <2>1. Cardinality(unsaved) = 1
    BY <1>3, FS_Singleton
  <2> QED
    BY <2>1 DEF CrashLosesOneResult
<1> QED
  BY <1>1, <1>2, <1>3

\* runAgentLoop with its provider calls, tool calls, compactions, recoveries,
\* aborts and resumes: whatever is sent is a well-formed request in which every
\* result follows its call, no turn starts on an unanswered call, the history opens
\* with the session's first task, a crash loses the result of one tool at most, and
\* after an abort no tool starts but the one that was waiting for approval.
THEOREM LoopIsSound == Spec => []LoopSound
<1> Bounds
  BY AgentAssumption DEF Bounds
<1>1. Spec => []IInv
  BY LoopInvariant
<1>2. IInv => LoopSound
  <2> SUFFICES ASSUME IInv PROVE LoopSound
    OBVIOUS
  <2>1. AbortStopsTools
    BY DEF IInv, Started, AbortStopsTools
  <2> QED
    BY <2>1, InvTyped, InvPaired, InvAnswered, InvOneUnsaved, InvTaskKept DEF LoopSound, HistorySound
<1> QED
  BY <1>1, <1>2, PTL

-----------------------------------------------------------------------------
(* The git commands. *)


Changes == (1 .. MaxEdits) \cup {Marks, Theirs}
Trees == [Files -> SUBSET Changes]

\* Every edit that a sequence of trees holds is in S.
Within(s, S) == \A i \in 1 .. Len(s) : EditsOf(s[i]) \subseteq S

Shapes ==
    /\ commits \in Seq(Trees) /\ commits # <<>>
    /\ stash \in Seq(Trees) /\ upstream \in Seq(Trees)
    /\ index \in Trees /\ work \in Trees
    /\ Len(commits) + Len(stash) <= MaxTrees
    /\ unmerged \subseteq Files /\ gone \subseteq unmerged /\ busy \in BOOLEAN

\* Edits are numbered as they are made; what is committed, here or at the remote,
\* is recorded.
Numbered ==
    /\ edits \in 0 .. MaxEdits
    /\ recorded \subseteq 1 .. edits /\ dropped \subseteq 1 .. edits
    /\ EditsOf(index) \subseteq 1 .. edits /\ EditsOf(work) \subseteq 1 .. edits
    /\ Within(stash, 1 .. edits)
    /\ Within(commits, recorded) /\ Within(upstream, recorded)

GitInv == Shapes /\ Numbered /\ EditsAreKept /\ ToldIsTrue

-----------------------------------------------------------------------------
(* Trees and sequences of them.                                             *)

LEMMA EditIn ==
  ASSUME NEW t, NEW e
  PROVE  e \in EditsOf(t) <=> e \in 1 .. MaxEdits /\ \E f \in Files : e \in t[f]
BY DEF EditsOf, ChangesOf

\* A tree whose files hold what is in t or in u, markers and the change of others.
LEMMA EditsFrom ==
  ASSUME NEW t, NEW u, NEW v,
         \A f \in Files : v[f] \subseteq t[f] \cup u[f] \cup {Marks, Theirs}
  PROVE  EditsOf(v) \subseteq EditsOf(t) \cup EditsOf(u)
<1> SUFFICES ASSUME NEW e \in EditsOf(v) PROVE e \in EditsOf(t) \cup EditsOf(u)
  OBVIOUS
<1>1. PICK f \in Files : e \in v[f]
  BY EditIn
<1>2. e \in 1 .. MaxEdits /\ e \notin {Marks, Theirs}
  BY EditIn, GitAssumption
<1> QED
  BY <1>1, <1>2, EditIn

\* A tree that holds what t holds but for markers.
LEMMA EditsStay ==
  ASSUME NEW t, NEW v, \A f \in Files : t[f] \ {Marks} \subseteq v[f]
  PROVE  EditsOf(t) \subseteq EditsOf(v)
<1> SUFFICES ASSUME NEW e \in EditsOf(t) PROVE e \in EditsOf(v)
  OBVIOUS
<1>1. PICK f \in Files : e \in t[f]
  BY EditIn
<1>2. e \in 1 .. MaxEdits /\ e # Marks
  BY EditIn, GitAssumption
<1> QED
  BY <1>1, <1>2, EditIn

LEMMA NothingHeld ==
  /\ Nothing \in Trees /\ EditsOf(Nothing) = {}
  /\ Shared \in Files
<1>1. \A e : e \notin EditsOf(Nothing)
  BY EditIn DEF Nothing
<1>2. Shared \in Files
  BY GitAssumption DEF Shared
<1> QED
  BY <1>1, <1>2 DEF Nothing, Trees

LEMMA WithTheirs ==
  ASSUME NEW t \in Trees
  PROVE  /\ With(t, Theirs) \in Trees
         /\ With(t, Theirs)[Shared] = t[Shared] \cup {Theirs}
         /\ \A f \in Files : t[f] \subseteq With(t, Theirs)[f] /\ With(t, Theirs)[f] \subseteq t[f] \cup {Theirs}
         /\ EditsOf(With(t, Theirs)) \subseteq EditsOf(t)
<1> DEFINE w == With(t, Theirs)
<1>1. /\ w \in Trees /\ w[Shared] = t[Shared] \cup {Theirs}
      /\ \A f \in Files : t[f] \subseteq w[f] /\ w[f] \subseteq t[f] \cup {Theirs}
  BY NothingHeld DEF With, Trees, Changes
<1> HIDE DEF w
<1>2. EditsOf(w) \subseteq EditsOf(t) \cup EditsOf(t)
  BY <1>1, EditsFrom
<1> QED
  BY <1>1, <1>2 DEF w

LEMMA WithinAppend ==
  ASSUME NEW s \in Seq(Trees), NEW t \in Trees, NEW S, Within(s, S), EditsOf(t) \subseteq S
  PROVE  /\ Append(s, t) \in Seq(Trees) /\ Append(s, t) # <<>> /\ Len(Append(s, t)) = Len(s) + 1
         /\ Append(s, t)[Len(Append(s, t))] = t
         /\ Within(Append(s, t), S)
BY DEF Within

LEMMA WithinPart ==
  ASSUME NEW s \in Seq(Trees), NEW S, Within(s, S), NEW n \in 1 .. Len(s)
  PROVE  /\ SubSeq(s, 1, n) \in Seq(Trees) /\ SubSeq(s, 1, n) # <<>> /\ Len(SubSeq(s, 1, n)) = n
         /\ Within(SubSeq(s, 1, n), S)
<1> DEFINE p == SubSeq(s, 1, n)
<1>1. p \in Seq(Trees) /\ Len(p) = n /\ \A i \in 1 .. n : p[i] = s[i]
  BY SubSeqProperties
<1> HIDE DEF p
<1>2. p # <<>> /\ Within(p, S)
  BY <1>1 DEF Within
<1> QED
  BY <1>1, <1>2 DEF p

LEMMA WithinTail ==
  ASSUME NEW s \in Seq(Trees), s # <<>>, NEW S, Within(s, S)
  PROVE  /\ Tail(s) \in Seq(Trees) /\ Len(Tail(s)) = Len(s) - 1 /\ Within(Tail(s), S)
         /\ \A i \in 1 .. Len(s) - 1 : Tail(s)[i] = s[i + 1]
<1> DEFINE p == Tail(s)
<1>1. p \in Seq(Trees) /\ Len(p) = Len(s) - 1 /\ \A i \in 1 .. Len(s) - 1 : p[i] = s[i + 1]
  BY HeadTailProperties
<1> HIDE DEF p
<1>2. Within(p, S)
  BY <1>1 DEF Within
<1> QED
  BY <1>1, <1>2 DEF p

LEMMA WithinMore ==
  ASSUME NEW s, NEW S, NEW T, Within(s, S), S \subseteq T
  PROVE  Within(s, T)
BY DEF Within

-----------------------------------------------------------------------------
(* What is kept.                                                            *)

\* StillThere of these recorded edits, this working tree and this stash.
EditsHeld(r, w, s) == r \cup EditsOf(w) \cup UNION {EditsOf(s[i]) : i \in 1 .. Len(s)}

LEMMA EditsHeldIs ==
  /\ StillThere = EditsHeld(recorded, work, stash)
  /\ StillThere' = EditsHeld(recorded', work', stash')
BY DEF StillThere, EditsHeld

\* What was recorded stays so, what was in the working tree is recorded or in a
\* tree, and so is what each entry of the stash held.
LEMMA KeptGrows ==
  ASSUME NEW r, NEW w, NEW s, NEW r2, NEW w2, NEW s2,
         r \subseteq EditsHeld(r2, w2, s2), EditsOf(w) \subseteq EditsHeld(r2, w2, s2),
         \A i \in 1 .. Len(s) : EditsOf(s[i]) \subseteq EditsHeld(r2, w2, s2)
  PROVE  EditsHeld(r, w, s) \subseteq EditsHeld(r2, w2, s2)
<1> SUFFICES ASSUME NEW e \in EditsHeld(r, w, s) PROVE e \in EditsHeld(r2, w2, s2)
  OBVIOUS
<1>1. e \in r \/ e \in EditsOf(w) \/ \E i \in 1 .. Len(s) : e \in EditsOf(s[i])
  BY DEF EditsHeld
<1> QED
  BY <1>1

LEMMA KeptHas ==
  ASSUME NEW r, NEW w, NEW s
  PROVE  /\ r \subseteq EditsHeld(r, w, s) /\ EditsOf(w) \subseteq EditsHeld(r, w, s)
         /\ \A i \in 1 .. Len(s) : EditsOf(s[i]) \subseteq EditsHeld(r, w, s)
BY DEF EditsHeld

\* A step that takes nothing away keeps the edits, and so does one that gives up
\* what it takes away.
LEMMA StillKept ==
  ASSUME EditsAreKept, edits' = edits, dropped \subseteq dropped',
         StillThere \subseteq StillThere'
  PROVE  EditsAreKept'
BY DEF EditsAreKept

LEMMA GivenUp ==
  ASSUME edits' = edits, NEW d, dropped' = d \cup ((1 .. edits) \ StillThere')
  PROVE  EditsAreKept'
BY DEF EditsAreKept

-----------------------------------------------------------------------------
(* The invariant.                                                           *)

\* The tip of the branch is a tree whose edits are recorded.
LEMMA HeadIs ==
  ASSUME Shapes, Numbered
  PROVE  /\ Len(commits) \in Nat \ {0} /\ Head_ \in Trees
         /\ EditsOf(Head_) \subseteq recorded /\ EditsOf(Head_) \subseteq 1 .. edits
<1>1. Len(commits) \in Nat \ {0} /\ Len(commits) \in 1 .. Len(commits) /\ commits \in Seq(Trees)
  BY DEF Shapes
<1>2. Head_ \in Trees
  BY <1>1 DEF Head_
<1>3. EditsOf(Head_) \subseteq recorded
  BY <1>1 DEF Numbered, Within, Head_
<1>4. recorded \subseteq 1 .. edits
  BY DEF Numbered
<1> QED
  BY <1>1, <1>2, <1>3, <1>4

LEMMA GitInitHolds == GitInit => GitInv
<1> SUFFICES ASSUME GitInit PROVE GitInv
  OBVIOUS
<1>0. /\ commits = <<Nothing>> /\ index = Nothing /\ work = Nothing /\ stash = <<>>
      /\ unmerged = {} /\ gone = {} /\ busy = FALSE /\ upstream \in {<<>>, commits}
      /\ edits = 0 /\ recorded = {} /\ dropped = {} /\ told = "none"
  BY Zenon DEF GitInit
<1>1. commits \in Seq(Trees) /\ commits # <<>> /\ Len(commits) = 1 /\ commits[1] = Nothing
  BY <1>0, NothingHeld
<1>2. stash \in Seq(Trees) /\ Len(stash) = 0 /\ upstream \in {<<>>, commits} /\ <<>> \in Seq(Trees)
  BY <1>0
<1>3. Shapes
  <2>1. Len(commits) + Len(stash) <= MaxTrees
    BY <1>1, <1>2, GitAssumption
  <2>2. upstream \in Seq(Trees)
    BY <1>1, <1>2
  <2> QED
    BY <1>0, <1>1, <1>2, <2>1, <2>2, NothingHeld DEF Shapes
<1>4. Within(commits, recorded) /\ Within(<<>>, recorded) /\ Within(stash, 1 .. edits)
  BY <1>0, <1>1, <1>2, NothingHeld DEF Within
<1>5. Numbered
  <2>1. Within(upstream, recorded)
    BY <1>0, <1>4
  <2>2. edits \in 0 .. MaxEdits
    BY <1>0, GitAssumption
  <2> QED
    BY <1>0, <1>4, <2>1, <2>2, NothingHeld DEF Numbered
<1>6. EditsAreKept /\ ToldIsTrue
  BY <1>0 DEF EditsAreKept, ToldIsTrue
<1> QED
  BY <1>3, <1>5, <1>6 DEF GitInv


-----------------------------------------------------------------------------
(* One lemma for each action.                                               *)

LEMMA NothingTold == told' = "none" => ToldIsTrue'
BY DEF ToldIsTrue

\* A prompt that asks for the whole word covers what a command takes away.
LEMMA GaveUp ==
  ASSUME GitInv, edits' = edits, NEW reply, GivesUp(reply),
         reply # "yes" => StillThere \subseteq StillThere'
  PROVE  EditsAreKept' /\ dropped' \subseteq 1 .. edits
<1>1. CASE reply = "yes"
  <2>1. dropped' = dropped \cup ((1 .. edits) \ StillThere')
    BY <1>1 DEF GivesUp
  <2> QED
    BY <2>1, GivenUp DEF GitInv, Numbered
<1>2. CASE reply # "yes"
  <2>1. dropped' = dropped
    BY <1>2 DEF GivesUp
  <2> QED
    BY <1>2, <2>1, StillKept DEF GitInv, Numbered
<1> QED
  BY <1>1, <1>2

\* A commit of the working tree, by /commit or by the user's own git.
LEMMA CommitsWork ==
  ASSUME GitInv, Room, commits' = Append(commits, work), index' = work, unmerged' = {}, gone' = {},
         busy' \in BOOLEAN, recorded' = recorded \cup EditsOf(work), told' = "none",
         UNCHANGED <<work, stash, upstream, edits, dropped>>
  PROVE  GitInv'
<1>1. /\ commits \in Seq(Trees) /\ work \in Trees /\ stash \in Seq(Trees) /\ Len(stash) \in Nat
      /\ Within(commits, recorded) /\ Within(upstream, recorded)
      /\ EditsOf(work) \subseteq 1 .. edits
  BY DEF GitInv, Shapes, Numbered
<1>2. Within(commits, recorded') /\ Within(upstream, recorded') /\ EditsOf(work) \subseteq recorded'
  BY <1>1, WithinMore
<1>3. /\ commits' \in Seq(Trees) /\ commits' # <<>> /\ Len(commits') = Len(commits) + 1
      /\ Within(commits', recorded')
  BY <1>1, <1>2, WithinAppend
<1>4. Len(commits') + Len(stash') <= MaxTrees
  <2>1. Len(commits) \in Nat /\ MaxTrees \in Nat /\ Len(commits) + Len(stash) < MaxTrees
    BY <1>1, GitAssumption DEF Room
  <2> QED
    BY <1>1, <1>3, <2>1
<1>5. Shapes'
  BY <1>1, <1>3, <1>4 DEF GitInv, Shapes
<1>6. Numbered'
  BY <1>1, <1>2, <1>3 DEF GitInv, Numbered
<1>7. StillThere \subseteq StillThere'
  BY EditsHeldIs, KeptHas, KeptGrows
<1> QED
  BY <1>5, <1>6, <1>7, StillKept, NothingTold DEF GitInv

LEMMA CommitHolds ==
  ASSUME GitInv, NEW cmd, NEW reply, Commit(cmd, reply)
  PROVE  GitInv'
<1>1. Room /\ commits' = Append(commits, work) /\ index' = work /\ unmerged' = {} /\ gone' = {}
  BY DEF Commit
<1>2. busy' \in BOOLEAN
  BY DEF Commit, GitInv, Shapes
<1>3. recorded' = recorded \cup EditsOf(work) /\ told' = "none"
  BY DEF Commit, Leaves
<1>4. UNCHANGED <<work, stash, upstream, edits, dropped>>
  BY DEF Commit, Leaves, remote
<1> QED
  BY <1>1, <1>2, <1>3, <1>4, CommitsWork

LEMMA CommitByHandHolds ==
  ASSUME GitInv, CommitByHand
  PROVE  GitInv'
<1>1. Room /\ commits' = Append(commits, work) /\ index' = work /\ unmerged' = {} /\ gone' = {}
  BY DEF CommitByHand, GitInv, Shapes
<1>2. busy' \in BOOLEAN
  BY DEF CommitByHand, GitInv, Shapes
<1>3. recorded' = recorded \cup EditsOf(work) /\ told' = "none"
  BY DEF CommitByHand
<1>4. UNCHANGED <<work, stash, upstream, edits, dropped>>
  BY DEF CommitByHand, remote
<1> QED
  BY <1>1, <1>2, <1>3, <1>4, CommitsWork

\* An amended commit leaves what it replaces recorded.
LEMMA AmendHolds ==
  ASSUME GitInv, NEW reply, Amend(reply)
  PROVE  GitInv'
<1>1. /\ commits' = [commits EXCEPT ![Len(commits)] = index]
      /\ recorded' = recorded \cup EditsOf(index) /\ told' = "none"
      /\ UNCHANGED <<index, work, stash, unmerged, gone, busy, upstream, edits, dropped>>
  BY DEF Amend, Leaves, checkout, remote
<1>2. /\ commits \in Seq(Trees) /\ Len(commits) \in Nat \ {0} /\ index \in Trees
      /\ Within(commits, recorded') /\ Within(upstream, recorded')
      /\ EditsOf(index) \subseteq 1 .. edits /\ EditsOf(index) \subseteq recorded'
  BY <1>1, HeadIs, WithinMore DEF GitInv, Shapes, Numbered
<1>3. /\ commits' \in Seq(Trees) /\ Len(commits') = Len(commits)
      /\ \A i \in 1 .. Len(commits) : commits'[i] = IF i = Len(commits) THEN index ELSE commits[i]
  BY <1>1, <1>2
<1>4. commits' # <<>> /\ Within(commits', recorded')
  BY <1>2, <1>3 DEF Within
<1>5. Shapes'
  BY <1>1, <1>3, <1>4 DEF GitInv, Shapes
<1>6. Numbered'
  BY <1>1, <1>2, <1>4 DEF GitInv, Numbered
<1>7. StillThere \subseteq StillThere'
  BY <1>1, EditsHeldIs, KeptHas, KeptGrows
<1> QED
  BY <1>1, <1>5, <1>6, <1>7, StillKept, NothingTold DEF GitInv

\* A hard reset is confirmed with the whole word; the others leave the working tree.
LEMMA ResetHolds ==
  ASSUME GitInv, NEW mode \in {"soft", "mixed", "hard"}, NEW back \in 0 .. 1, NEW reply, Reset(mode, back, reply)
  PROVE  GitInv'
<1> DEFINE tip == Len(commits) - back
<1>1. /\ tip >= 1 /\ commits' = SubSeq(commits, 1, tip) /\ reset(mode, commits[tip])
      /\ unmerged' = {} /\ gone' = {} /\ busy' \in {FALSE, busy}
      /\ UNCHANGED <<stash, upstream, recorded, edits>> /\ told' = "none"
      /\ GivesUp(reply) /\ confirmGitAction(Level("reset", mode), reply)
  BY DEF Reset, Leaves, remote
<1>2. /\ commits \in Seq(Trees) /\ Len(commits) \in Nat \ {0} /\ tip \in 1 .. Len(commits)
      /\ Within(commits, recorded) /\ recorded \subseteq 1 .. edits
      /\ busy' \in BOOLEAN
  <2>1. Len(commits) \in Nat \ {0}
    BY HeadIs DEF GitInv
  <2>2. tip \in 1 .. Len(commits)
    BY <1>1, <2>1
  <2>3. busy' \in BOOLEAN
    BY <1>1 DEF GitInv, Shapes
  <2> QED
    BY <2>1, <2>2, <2>3 DEF GitInv, Shapes, Numbered
<1> HIDE DEF tip
<1>3. commits[tip] \in Trees /\ EditsOf(commits[tip]) \subseteq 1 .. edits
  <2>1. EditsOf(commits[tip]) \subseteq recorded
    BY <1>2 DEF Within
  <2>2. commits[tip] \in Trees
    BY <1>2
  <2> QED
    BY <1>2, <2>1, <2>2
<1>4. /\ commits' \in Seq(Trees) /\ commits' # <<>> /\ Len(commits') = tip /\ Within(commits', recorded)
  BY <1>1, <1>2, WithinPart
<1>5. index' \in {index, commits[tip]} /\ work' \in {work, commits[tip]} /\ (mode # "hard" => work' = work)
  BY <1>1 DEF reset
<1>6. mode = "hard" => reply = "yes"
  BY <1>1 DEF confirmGitAction, Level
<1>7. Shapes'
  <2>1. Len(commits') + Len(stash') <= MaxTrees
    <3>1. Len(commits') <= Len(commits) /\ Len(stash) \in Nat /\ Len(stash') = Len(stash)
      BY <1>1, <1>2, <1>4 DEF GitInv, Shapes
    <3> QED
      BY <1>2, <1>4, <3>1, GitAssumption DEF GitInv, Shapes
  <2> QED
    BY <1>1, <1>2, <1>3, <1>4, <1>5, <2>1 DEF GitInv, Shapes
<1>8. reply # "yes" => StillThere \subseteq StillThere'
  BY <1>1, <1>5, <1>6, EditsHeldIs
<1>9. EditsAreKept' /\ dropped' \subseteq 1 .. edits
  BY <1>1, <1>8, GaveUp
<1>10. Numbered'
  BY <1>1, <1>3, <1>4, <1>5, <1>9 DEF GitInv, Numbered
<1> QED
  BY <1>1, <1>7, <1>9, <1>10, NothingTold DEF GitInv

\* Restoring the working tree is confirmed with the whole word.
LEMMA RestoreHolds ==
  ASSUME GitInv, NEW f \in Files, NEW staged \in BOOLEAN, NEW reply, Restore(f, staged, reply)
  PROVE  GitInv'
<1>1. /\ restore(f, staged) /\ unmerged' = unmerged \ {f} /\ gone' = gone \ {f}
      /\ UNCHANGED <<commits, stash, busy, upstream, recorded, edits>> /\ told' = "none"
      /\ GivesUp(reply)
      /\ confirmGitAction(Level("restore", IF staged THEN "staged" ELSE "work"), reply)
  BY DEF Restore, Leaves, remote
<1>2. /\ index \in Trees /\ work \in Trees /\ Head_ \in Trees
      /\ EditsOf(index) \subseteq 1 .. edits /\ EditsOf(work) \subseteq 1 .. edits
      /\ EditsOf(Head_) \subseteq 1 .. edits
  BY HeadIs DEF GitInv, Shapes, Numbered
<1>3. CASE staged
  <2>1. index' = [index EXCEPT ![f] = Head_[f]] /\ work' = work
    BY <1>1, <1>3 DEF restore
  <2>2. index' \in Trees /\ \A g \in Files : index'[g] \subseteq index[g] \cup Head_[g] \cup {Marks, Theirs}
    BY <1>2, <2>1 DEF Trees
  <2>3. EditsOf(index') \subseteq 1 .. edits
    BY <1>2, <2>2, EditsFrom
  <2>4. EditsAreKept' /\ dropped' \subseteq 1 .. edits
    BY <1>1, <2>1, EditsHeldIs, GaveUp
  <2>5. Shapes'
    BY <1>1, <2>1, <2>2 DEF GitInv, Shapes
  <2>6. Numbered'
    BY <1>1, <2>1, <2>3, <2>4 DEF GitInv, Numbered
  <2> QED
    BY <1>1, <2>4, <2>5, <2>6, NothingTold DEF GitInv
<1>4. CASE ~staged
  <2>1. work' = [work EXCEPT ![f] = index[f]] /\ index' = index
    BY <1>1, <1>4 DEF restore
  <2>2. work' \in Trees /\ \A g \in Files : work'[g] \subseteq work[g] \cup index[g] \cup {Marks, Theirs}
    BY <1>2, <2>1 DEF Trees
  <2>3. EditsOf(work') \subseteq 1 .. edits
    BY <1>2, <2>2, EditsFrom
  <2>4. reply = "yes"
    BY <1>1, <1>4 DEF confirmGitAction, Level
  <2>5. EditsAreKept' /\ dropped' \subseteq 1 .. edits
    BY <1>1, <2>4, GaveUp
  <2>6. Shapes'
    BY <1>1, <2>1, <2>2 DEF GitInv, Shapes
  <2>7. Numbered'
    BY <1>1, <2>1, <2>3, <2>5 DEF GitInv, Numbered
  <2> QED
    BY <1>1, <2>5, <2>6, <2>7, NothingTold DEF GitInv
<1> QED
  BY <1>3, <1>4

\* An index whose files are those of the working tree or of the index.
LEMMA AddIs ==
  ASSUME NEW t \in Trees, index \in Trees, NEW S, NEW E, EditsOf(t) \subseteq E, EditsOf(index) \subseteq E
  PROVE  add(t, S) \in Trees /\ EditsOf(add(t, S)) \subseteq E
<1>1. add(t, S) \in Trees
  BY DEF add, Trees
<1>2. \A g \in Files : add(t, S)[g] \subseteq t[g] \cup index[g] \cup {Marks, Theirs}
  BY DEF add
<1>3. EditsOf(add(t, S)) \subseteq EditsOf(t) \cup EditsOf(index)
  BY <1>2, EditsFrom
<1> QED
  BY <1>1, <1>3

LEMMA StageHolds ==
  ASSUME GitInv, NEW S \in SUBSET Files, Stage(S)
  PROVE  GitInv'
<1>1. /\ index' = add(work, S) /\ unmerged' = unmerged \ S /\ gone' = gone \ S /\ told' = "none"
      /\ UNCHANGED <<commits, work, stash, busy, upstream, recorded, dropped, edits>>
  BY DEF Stage, Leaves, remote
<1>2. index' \in Trees /\ EditsOf(index') \subseteq 1 .. edits
  BY <1>1, AddIs DEF GitInv, Shapes, Numbered
<1>3. Shapes'
  BY <1>1, <1>2 DEF GitInv, Shapes
<1>4. Numbered'
  BY <1>1, <1>2 DEF GitInv, Numbered
<1>5. StillThere \subseteq StillThere'
  BY <1>1, EditsHeldIs
<1> QED
  BY <1>1, <1>3, <1>4, <1>5, StillKept, NothingTold DEF GitInv

\* The stash takes what the working tree gives up.
LEMMA StashSaveHolds ==
  ASSUME GitInv, StashSave
  PROVE  GitInv'
<1>1. /\ Room /\ stash' = <<work>> \o stash /\ index' = Head_ /\ work' = Head_ /\ told' = "none"
      /\ UNCHANGED <<commits, unmerged, gone, busy, upstream, recorded, dropped, edits>>
  BY DEF StashSave, Leaves, remote
<1>2. /\ stash \in Seq(Trees) /\ Len(stash) \in Nat /\ work \in Trees
      /\ Within(stash, 1 .. edits) /\ EditsOf(work) \subseteq 1 .. edits
      /\ Head_ \in Trees /\ EditsOf(Head_) \subseteq 1 .. edits
      /\ Len(commits) \in Nat
  BY HeadIs DEF GitInv, Shapes, Numbered
<1>3. /\ stash' \in Seq(Trees) /\ Len(stash') = Len(stash) + 1 /\ stash'[1] = work
      /\ \A i \in 1 .. Len(stash) : stash'[i + 1] = stash[i]
  <2>1. <<work>> \in Seq(Trees) /\ Len(<<work>>) = 1
    BY <1>2
  <2> QED
    BY <1>1, <1>2, <2>1, ConcatProperties
<1>4. Within(stash', 1 .. edits)
  <2>1. ASSUME NEW i \in 1 .. Len(stash') PROVE EditsOf(stash'[i]) \subseteq 1 .. edits
    <3>1. CASE i = 1
      BY <1>2, <1>3, <3>1
    <3>2. CASE i # 1
      <4>1. i - 1 \in 1 .. Len(stash) /\ stash'[(i - 1) + 1] = stash[i - 1] /\ (i - 1) + 1 = i
        BY <1>2, <1>3, <3>2
      <4> QED
        BY <1>2, <4>1 DEF Within
    <3> QED
      BY <3>1, <3>2
  <2> QED
    BY <2>1 DEF Within
<1>5. Shapes'
  <2>1. Len(commits') + Len(stash') <= MaxTrees
    BY <1>1, <1>2, <1>3, GitAssumption DEF Room
  <2> QED
    BY <1>1, <1>2, <1>3, <2>1 DEF GitInv, Shapes
<1>6. Numbered'
  BY <1>1, <1>2, <1>4 DEF GitInv, Numbered
<1>7. StillThere \subseteq StillThere'
  <2>1. EditsOf(work) \subseteq EditsHeld(recorded', work', stash')
    <3>1. 1 \in 1 .. Len(stash')
      BY <1>2, <1>3
    <3> QED
      BY <1>3, <3>1, KeptHas
  <2>2. ASSUME NEW i \in 1 .. Len(stash) PROVE EditsOf(stash[i]) \subseteq EditsHeld(recorded', work', stash')
    <3>1. i + 1 \in 1 .. Len(stash') /\ stash'[i + 1] = stash[i]
      BY <1>2, <1>3
    <3> QED
      BY <3>1, KeptHas
  <2>3. recorded \subseteq EditsHeld(recorded', work', stash')
    BY <1>1, KeptHas
  <2> QED
    BY <2>1, <2>2, <2>3, KeptGrows, EditsHeldIs
<1> QED
  BY <1>1, <1>5, <1>6, <1>7, StillKept, NothingTold DEF GitInv

\* An entry of the stash that leaves it went into the working tree first.
LEMMA StashPopHolds ==
  ASSUME GitInv, NEW reply, StashPop(reply)
  PROVE  GitInv'
<1>1. /\ stash # <<>> /\ told' = "none"
      /\ UNCHANGED <<commits, index, gone, busy, upstream, recorded, dropped, edits>>
      /\ unmerged = {}
  BY DEF StashPop, Leaves, remote
<1>2. PICK marked \in SUBSET Files :
        /\ work' = [f \in Files |-> (work[f] \cup stash[1][f]) \cup IF f \in marked THEN {Marks} ELSE {}]
        /\ unmerged' = marked
        /\ stash' = IF marked = {} THEN Tail(stash) ELSE stash
  BY DEF StashPop
<1>3. /\ stash \in Seq(Trees) /\ Len(stash) \in Nat \ {0} /\ stash[1] \in Trees /\ work \in Trees
      /\ Within(stash, 1 .. edits) /\ EditsOf(work) \subseteq 1 .. edits /\ 1 \in 1 .. Len(stash)
  BY <1>1 DEF GitInv, Shapes, Numbered
<1>4. EditsOf(stash[1]) \subseteq 1 .. edits
  BY <1>3 DEF Within
<1>5. work' \in Trees
  BY <1>2, <1>3 DEF Trees, Changes
<1>6. /\ \A f \in Files : work'[f] \subseteq work[f] \cup stash[1][f] \cup {Marks, Theirs}
      /\ \A f \in Files : work[f] \ {Marks} \subseteq work'[f] /\ stash[1][f] \ {Marks} \subseteq work'[f]
  BY <1>2
<1>7. EditsOf(work') \subseteq 1 .. edits
  BY <1>3, <1>4, <1>6, EditsFrom
<1>8. EditsOf(work) \subseteq EditsOf(work') /\ EditsOf(stash[1]) \subseteq EditsOf(work')
  BY <1>6, EditsStay
<1>9. /\ stash' \in Seq(Trees) /\ Len(stash') <= Len(stash) /\ Len(stash') \in Nat
      /\ Within(stash', 1 .. edits)
  BY <1>2, <1>3, WithinTail
<1>10. ASSUME NEW i \in 1 .. Len(stash) PROVE EditsOf(stash[i]) \subseteq EditsHeld(recorded', work', stash')
  <2>1. CASE i = 1
    BY <1>8, <2>1, KeptHas
  <2>2. CASE i # 1
    <3>1. CASE stash' = stash
      BY <3>1, KeptHas
    <3>2. CASE stash' = Tail(stash)
      <4>1. i - 1 \in 1 .. Len(stash) - 1 /\ i - 1 \in 1 .. Len(stash') /\ (i - 1) + 1 = i
        BY <1>3, <2>2, <3>2, WithinTail
      <4>2. stash'[i - 1] = stash[i]
        BY <1>3, <3>2, <4>1, WithinTail
      <4> QED
        BY <4>1, <4>2, KeptHas
    <3> QED
      BY <1>2, <3>1, <3>2
  <2> QED
    BY <2>1, <2>2
<1>11. StillThere \subseteq StillThere'
  BY <1>1, <1>8, <1>10, KeptGrows, KeptHas, EditsHeldIs
<1>12. Shapes'
  <2>1. Len(commits') + Len(stash') <= MaxTrees
    BY <1>1, <1>3, <1>9, HeadIs, GitAssumption DEF GitInv, Shapes
  <2>2. gone' = {}
    BY <1>1 DEF GitInv, Shapes
  <2> QED
    BY <1>1, <1>2, <1>5, <1>9, <2>1, <2>2 DEF GitInv, Shapes
<1>13. Numbered'
  BY <1>1, <1>7, <1>9 DEF GitInv, Numbered
<1> QED
  BY <1>1, <1>11, <1>12, <1>13, StillKept, NothingTold DEF GitInv

LEMMA StashDropHolds ==
  ASSUME GitInv, NEW reply, StashDrop(reply)
  PROVE  GitInv'
<1>1. /\ stash # <<>> /\ stash' = Tail(stash) /\ told' = "none"
      /\ UNCHANGED <<commits, index, work, unmerged, gone, busy, upstream, recorded, edits>>
      /\ GivesUp(reply) /\ confirmGitAction(Level("drop", "none"), reply)
  BY DEF StashDrop, Leaves, remote
<1>2. reply = "yes"
  BY <1>1 DEF confirmGitAction, Level
<1>3. /\ stash' \in Seq(Trees) /\ Len(stash') = Len(stash) - 1 /\ Len(stash) \in Nat
      /\ Within(stash', 1 .. edits)
  BY <1>1, WithinTail DEF GitInv, Shapes, Numbered
<1>4. EditsAreKept' /\ dropped' \subseteq 1 .. edits
  BY <1>1, <1>2, GaveUp
<1>5. Shapes'
  <2>1. Len(commits') + Len(stash') <= MaxTrees
    BY <1>1, <1>3, HeadIs, GitAssumption DEF GitInv, Shapes
  <2> QED
    BY <1>1, <1>3, <2>1 DEF GitInv, Shapes
<1>6. Numbered'
  BY <1>1, <1>3, <1>4 DEF GitInv, Numbered
<1> QED
  BY <1>1, <1>4, <1>5, <1>6, NothingTold DEF GitInv

\* What comes in is added to what is there: git refuses over edits of the files it touches.
LEMMA TakesHolds ==
  ASSUME GitInv, NEW theirs \in Trees, EditsOf(theirs) \subseteq recorded, NEW name, Takes(theirs, name),
         upstream' = upstream, ToldIsTrue'
  PROVE  GitInv'
<1> DEFINE touched == {f \in Files : ~(theirs[f] \subseteq Head_[f])}
           both    == {f \in touched : ~(Head_[f] \subseteq theirs[f])}
           merged  == [f \in Files |-> Head_[f] \cup theirs[f]]
<1>1. /\ Room /\ \A f \in touched : work[f] = Head_[f]
      /\ UNCHANGED <<stash, recorded, dropped, edits>>
  BY DEF Takes
<1>2. PICK marked \in SUBSET both, deleted \in SUBSET both :
        /\ deleted \subseteq marked
        /\ work' = [f \in Files |-> IF f \in deleted THEN Head_[f]
                                    ELSE IF f \in marked THEN merged[f] \cup {Marks}
                                    ELSE IF f \in touched THEN merged[f] ELSE work[f]]
        /\ index' = merged /\ unmerged' = marked /\ gone' = deleted /\ busy' = (marked # {})
        /\ commits' = IF marked = {} THEN Append(commits, merged) ELSE commits
  BY Zenon DEF Takes
<1>3. /\ Head_ \in Trees /\ EditsOf(Head_) \subseteq recorded /\ work \in Trees
      /\ EditsOf(work) \subseteq 1 .. edits /\ recorded \subseteq 1 .. edits
      /\ commits \in Seq(Trees) /\ Within(commits, recorded) /\ Len(commits) \in Nat
      /\ commits # <<>> /\ stash \in Seq(Trees) /\ Len(stash) \in Nat
  BY HeadIs DEF GitInv, Shapes, Numbered
<1>4. /\ merged \in Trees /\ \A f \in Files : merged[f] = Head_[f] \cup theirs[f]
      /\ EditsOf(merged) \subseteq recorded
  <2>1. merged \in Trees /\ \A f \in Files : merged[f] \subseteq Head_[f] \cup theirs[f] \cup {Marks, Theirs}
    BY <1>3 DEF Trees
  <2> HIDE DEF merged
  <2>2. EditsOf(merged) \subseteq recorded
    BY <1>3, <2>1, EditsFrom
  <2> QED
    BY <2>1, <2>2 DEF merged
<1> HIDE DEF merged
<1>5. touched \subseteq Files /\ both \subseteq touched
  OBVIOUS
<1> HIDE DEF touched, both
<1>6. work' \in Trees
  BY <1>2, <1>3, <1>4 DEF Trees, Changes
<1>7. ASSUME NEW f \in Files
      PROVE  /\ work'[f] \subseteq merged[f] \cup work[f] \cup {Marks, Theirs}
             /\ work[f] \ {Marks} \subseteq work'[f]
  <2>1. CASE f \in touched
    BY <1>1, <1>2, <1>4, <2>1
  <2>2. CASE f \notin touched
    BY <1>2, <1>5, <2>2
  <2> QED
    BY <2>1, <2>2
<1>8. EditsOf(work') \subseteq 1 .. edits /\ EditsOf(work) \subseteq EditsOf(work')
  <2>1. EditsOf(work') \subseteq EditsOf(merged) \cup EditsOf(work)
    BY <1>7, EditsFrom
  <2>2. EditsOf(work) \subseteq EditsOf(work')
    BY <1>7, EditsStay
  <2> QED
    BY <1>3, <1>4, <2>1, <2>2
<1>9. /\ commits' \in Seq(Trees) /\ commits' # <<>> /\ Within(commits', recorded)
      /\ Len(commits') \in Nat /\ Len(commits') <= Len(commits) + 1
  BY <1>2, <1>3, <1>4, WithinAppend
<1>10. Shapes'
  <2>1. Len(commits') + Len(stash') <= MaxTrees
    BY <1>1, <1>3, <1>9, GitAssumption DEF Room
  <2>2. stash' \in Seq(Trees) /\ upstream' \in Seq(Trees) /\ index' \in Trees
    BY <1>1, <1>2, <1>4 DEF GitInv, Shapes
  <2>3. unmerged' \subseteq Files /\ gone' \subseteq unmerged' /\ busy' \in BOOLEAN
    BY <1>2, <1>5
  <2> QED
    BY <1>6, <1>9, <2>1, <2>2, <2>3 DEF Shapes
<1>11. Numbered'
  BY <1>1, <1>2, <1>3, <1>4, <1>8, <1>9 DEF GitInv, Numbered
<1>12. StillThere \subseteq StillThere'
  BY <1>1, <1>8, KeptGrows, KeptHas, EditsHeldIs
<1> QED
  BY <1>1, <1>10, <1>11, <1>12, StillKept DEF GitInv

\* A change of others alone.
LEMMA TopicIs == With(Nothing, Theirs) \in Trees /\ EditsOf(With(Nothing, Theirs)) = {}
BY NothingHeld, WithTheirs

LEMMA PickHolds ==
  ASSUME GitInv, NEW reply, Pick(reply)
  PROVE  GitInv'
<1>1. Takes(With(Nothing, Theirs), "pick") /\ upstream' = upstream /\ told' = "none"
  BY DEF Pick, remote
<1>2. EditsOf(With(Nothing, Theirs)) \subseteq recorded
  BY TopicIs
<1> QED
  BY <1>1, <1>2, TopicIs, TakesHolds, NothingTold

\* "Merged" is said of a branch whose new tip has the change, "conflicts" while some
\* file is unmerged, be it of an earlier conflict.
LEMMA MergeHolds ==
  ASSUME GitInv, NEW cmd, NEW reply, Merge(cmd, reply)
  PROVE  GitInv'
<1> DEFINE theirs == With(Nothing, Theirs)
<1>1. upstream' = upstream
  BY DEF Merge, remote
<1>2. CASE Takes(theirs, cmd) /\ told' = IF unmerged' = {} THEN "merged" ELSE "conflicts"
  <2>1. ToldIsTrue'
    <3>1. CASE unmerged' = {}
      <4> DEFINE merged == [f \in Files |-> Head_[f] \cup theirs[f]]
      <4>1. commits' = Append(commits, merged)
        BY <1>2, <3>1 DEF Takes
      <4>2. Theirs \in merged[Shared]
        BY NothingHeld, WithTheirs
      <4>3. commits'[Len(commits')] = merged
        <5>1. commits \in Seq(Trees)
          BY DEF GitInv, Shapes
        <5> HIDE DEF merged
        <5> QED
          BY <4>1, <5>1, AppendProperties
      <4>4. Theirs \in ChangesOf(commits'[Len(commits')])
        BY <4>2, <4>3, NothingHeld DEF ChangesOf
      <4> QED
        BY <1>2, <3>1, <4>4 DEF ToldIsTrue, Head_, ChangesOf
    <3>2. CASE unmerged' # {}
      BY <1>2, <3>2 DEF ToldIsTrue
    <3> QED
      BY <3>1, <3>2
  <2>2. EditsOf(theirs) \subseteq recorded /\ theirs \in Trees
    BY TopicIs
  <2> QED
    BY <1>1, <1>2, <2>1, <2>2, TakesHolds
<1>3. CASE /\ UNCHANGED <<commits, checkout, recorded, dropped>>
           /\ Leaves(IF Conflicted THEN "conflicts" ELSE "none")
  <2>1. UNCHANGED <<commits, index, work, stash, unmerged, gone, busy, recorded, dropped, edits>>
    BY <1>3 DEF checkout, Leaves
  <2>2. ToldIsTrue'
    BY <1>3, <2>1 DEF ToldIsTrue, Conflicted, Leaves
  <2>3. Shapes' /\ Numbered'
    BY <1>1, <2>1 DEF GitInv, Shapes, Numbered, Within
  <2>4. EditsAreKept'
    BY <2>1, EditsHeldIs, StillKept DEF GitInv
  <2> QED
    BY <2>2, <2>3, <2>4 DEF GitInv
<1> QED
  BY <1>2, <1>3 DEF Merge

LEMMA PullHolds ==
  ASSUME GitInv, NEW rebase \in BOOLEAN, NEW reply, Pull(rebase, reply)
  PROVE  GitInv'
<1> DEFINE theirs == upstream[Len(upstream)]
           name == IF rebase THEN "rebase" ELSE "merge"
<1>1. upstream # <<>> /\ Takes(theirs, name) /\ upstream' = upstream /\ told' = "none"
  BY DEF Pull
<1>2. theirs \in Trees /\ EditsOf(theirs) \subseteq recorded
  <2>1. upstream \in Seq(Trees) /\ Len(upstream) \in 1 .. Len(upstream) /\ Within(upstream, recorded)
    BY <1>1 DEF GitInv, Shapes, Numbered
  <2>2. EditsOf(theirs) \subseteq recorded
    BY <2>1 DEF Within
  <2>3. theirs \in Trees
    BY <2>1
  <2> QED
    BY <2>2, <2>3
<1> QED
  BY <1>1, <1>2, TakesHolds, NothingTold

\* A revert is refused over edits, so that what it takes out is recorded.
LEMMA RevertHolds ==
  ASSUME GitInv, NEW reply, Revert(reply)
  PROVE  GitInv'
<1> DEFINE n == Len(commits)
           without == [f \in Files |-> IF n > 1 THEN Head_[f] \ (Head_[f] \ commits[n - 1][f]) ELSE Head_[f]]
<1>1. /\ Clean /\ Room /\ commits' = Append(commits, without) /\ index' = without /\ work' = without
      /\ told' = "none" /\ UNCHANGED <<stash, unmerged, gone, busy, upstream, recorded, dropped, edits>>
  BY DEF Revert, Leaves, remote
<1>2. /\ Head_ \in Trees /\ EditsOf(Head_) \subseteq recorded /\ work = Head_
      /\ recorded \subseteq 1 .. edits
      /\ commits \in Seq(Trees) /\ Within(commits, recorded) /\ Len(commits) \in Nat
      /\ stash \in Seq(Trees) /\ Len(stash) \in Nat
  BY <1>1, HeadIs DEF GitInv, Shapes, Numbered, Clean
<1>3. without \in Trees /\ \A f \in Files : without[f] \subseteq Head_[f]
  BY <1>2 DEF Trees
<1> HIDE DEF without
<1>4. EditsOf(without) \subseteq recorded
  <2>1. \A f \in Files : without[f] \subseteq Head_[f] \cup Head_[f] \cup {Marks, Theirs}
    BY <1>3
  <2>2. EditsOf(without) \subseteq EditsOf(Head_) \cup EditsOf(Head_)
    BY <2>1, EditsFrom
  <2> QED
    BY <1>2, <2>2
<1>5. /\ commits' \in Seq(Trees) /\ commits' # <<>> /\ Within(commits', recorded)
      /\ Len(commits') = Len(commits) + 1
  BY <1>1, <1>2, <1>3, <1>4, WithinAppend
<1>6. Shapes'
  <2>1. Len(commits') + Len(stash') <= MaxTrees
    BY <1>1, <1>2, <1>5, GitAssumption DEF Room
  <2> QED
    BY <1>1, <1>3, <1>5, <2>1 DEF GitInv, Shapes
<1>7. Numbered'
  BY <1>1, <1>2, <1>4, <1>5 DEF GitInv, Numbered
<1>8. StillThere \subseteq StillThere'
  <2>1. \A i \in 1 .. Len(stash) : EditsOf(stash[i]) \subseteq EditsHeld(recorded', work', stash')
    BY <1>1, KeptHas
  <2>2. recorded \subseteq EditsHeld(recorded', work', stash') /\ EditsOf(work) \subseteq EditsHeld(recorded', work', stash')
    BY <1>1, <1>2, KeptHas
  <2> QED
    BY <2>1, <2>2, KeptGrows, EditsHeldIs
<1> QED
  BY <1>1, <1>6, <1>7, <1>8, StillKept, NothingTold DEF GitInv

LEMMA ApplyHolds ==
  ASSUME GitInv, NEW reply, Apply(reply)
  PROVE  GitInv'
<1> DEFINE patched == With(work, Theirs)
<1>1. /\ UNCHANGED <<commits, stash, index, gone, busy, upstream, recorded, dropped, edits>> /\ told' = "none"
      /\ unmerged = {} /\ unmerged' \in {unmerged, {Shared}}
      /\ work' \in {patched, [patched EXCEPT ![Shared] = @ \cup {Marks}]}
  BY DEF Apply, Leaves, remote
<1>2. /\ work \in Trees /\ EditsOf(work) \subseteq 1 .. edits /\ Shared \in Files
      /\ patched \in Trees
      /\ \A f \in Files : work[f] \subseteq patched[f] /\ patched[f] \subseteq work[f] \cup {Theirs}
  BY WithTheirs, NothingHeld DEF GitInv, Shapes, Numbered
<1> HIDE DEF patched
<1>3. /\ work' \in Trees
      /\ \A f \in Files : /\ work'[f] \subseteq work[f] \cup work[f] \cup {Marks, Theirs}
                          /\ work[f] \ {Marks} \subseteq work'[f]
  BY <1>1, <1>2 DEF Trees, Changes
<1>4. EditsOf(work') \subseteq 1 .. edits /\ EditsOf(work) \subseteq EditsOf(work')
  <2>1. EditsOf(work') \subseteq EditsOf(work) \cup EditsOf(work)
    BY <1>3, EditsFrom
  <2>2. EditsOf(work) \subseteq EditsOf(work')
    BY <1>3, EditsStay
  <2> QED
    BY <1>2, <2>1, <2>2
<1>5. Shapes'
  BY <1>1, <1>2, <1>3 DEF GitInv, Shapes
<1>6. Numbered'
  BY <1>1, <1>4 DEF GitInv, Numbered
<1>7. StillThere \subseteq StillThere'
  BY <1>1, <1>4, KeptGrows, KeptHas, EditsHeldIs
<1> QED
  BY <1>1, <1>5, <1>6, <1>7, StillKept, NothingTold DEF GitInv

\* The agent takes markers out and nothing else.
LEMMA ResolveHolds ==
  ASSUME GitInv, Resolve
  PROVE  GitInv'
<1> DEFINE still == filesStillConflicted(work')
           resolved == unmerged \ still
<1>1. PICK cleared \in SUBSET (IF isolated THEN {} ELSE Readable) :
        work' = [f \in Files |-> IF f \in cleared THEN work[f] \ {Marks} ELSE work[f]]
  BY DEF Resolve
<1>2. /\ index' = add(work', resolved) /\ unmerged' = still /\ gone' = gone \ resolved
      /\ told' = IF still = {} THEN "resolved" ELSE "none"
      /\ UNCHANGED <<commits, stash, busy, upstream, recorded, dropped, edits>>
  BY DEF Resolve, Leaves, remote
<1>3. /\ work \in Trees /\ index \in Trees
      /\ EditsOf(work) \subseteq 1 .. edits /\ EditsOf(index) \subseteq 1 .. edits
  BY DEF GitInv, Shapes, Numbered
<1>4. /\ work' \in Trees
      /\ \A f \in Files : /\ work'[f] \subseteq work[f] \cup work[f] \cup {Marks, Theirs}
                          /\ work[f] \ {Marks} \subseteq work'[f]
  BY <1>1, <1>3 DEF Trees
<1>5. EditsOf(work') \subseteq 1 .. edits /\ EditsOf(work) \subseteq EditsOf(work')
  <2>1. EditsOf(work') \subseteq EditsOf(work) \cup EditsOf(work)
    BY <1>4, EditsFrom
  <2>2. EditsOf(work) \subseteq EditsOf(work')
    BY <1>4, EditsStay
  <2> QED
    BY <1>3, <2>1, <2>2
<1>6. index' \in Trees /\ EditsOf(index') \subseteq 1 .. edits
  BY <1>2, <1>3, <1>4, <1>5, AddIs
<1>7. still \subseteq unmerged /\ gone \ resolved \subseteq still
  BY DEF filesStillConflicted, GitInv, Shapes
<1> HIDE DEF still, resolved
<1>8. Shapes'
  BY <1>2, <1>4, <1>6, <1>7 DEF GitInv, Shapes
<1>9. Numbered'
  BY <1>2, <1>5, <1>6 DEF GitInv, Numbered
<1>10. StillThere \subseteq StillThere'
  BY <1>2, <1>5, KeptGrows, KeptHas, EditsHeldIs
<1>11. ToldIsTrue'
  BY <1>2 DEF ToldIsTrue
<1> QED
  BY <1>2, <1>8, <1>9, <1>10, <1>11, StillKept DEF GitInv

LEMMA PushHolds ==
  ASSUME GitInv, NEW force \in BOOLEAN, NEW reply, Push(force, reply)
  PROVE  GitInv'
<1>1. /\ upstream' = commits /\ told' = "none"
      /\ UNCHANGED <<commits, index, work, stash, unmerged, gone, busy, recorded, dropped, edits>>
  BY DEF Push, Leaves, checkout
<1>2. Shapes' /\ Numbered'
  BY <1>1 DEF GitInv, Shapes, Numbered, Within
<1> QED
  BY <1>1, <1>2, EditsHeldIs, StillKept, NothingTold DEF GitInv

\* A new edit has a number of its own, and is in the working tree.
LEMMA EditByHandHolds ==
  ASSUME GitInv, NEW f \in Files, EditByHand(f)
  PROVE  GitInv'
<1>1. /\ edits < MaxEdits /\ edits' = edits + 1 /\ work' = [work EXCEPT ![f] = @ \cup {edits + 1}]
      /\ told' = "none"
      /\ UNCHANGED <<commits, index, stash, unmerged, gone, busy, upstream, recorded, dropped>>
  BY DEF EditByHand, remote
<1>2. /\ edits \in Nat /\ MaxEdits \in Nat /\ edits' \in 1 .. MaxEdits
      /\ 1 .. edits' = (1 .. edits) \cup {edits'}
  BY <1>1, GitAssumption DEF GitInv, Numbered
<1>3. work \in Trees /\ EditsOf(work) \subseteq 1 .. edits
  BY DEF GitInv, Shapes, Numbered
<1>4. /\ work' \in Trees /\ edits' \in work'[f]
      /\ \A g \in Files : work[g] \subseteq work'[g] /\ work'[g] \subseteq work[g] \cup {edits'}
  BY <1>1, <1>2, <1>3 DEF Trees, Changes
<1>5. EditsOf(work') = EditsOf(work) \cup {edits'}
  <2>1. ASSUME NEW e PROVE e \in EditsOf(work') <=> e \in EditsOf(work) \/ e = edits'
    <3>1. e \in EditsOf(work') <=> e \in 1 .. MaxEdits /\ \E g \in Files : e \in work'[g]
      BY EditIn
    <3>2. e \in EditsOf(work) <=> e \in 1 .. MaxEdits /\ \E g \in Files : e \in work[g]
      BY EditIn
    <3> QED
      BY <1>2, <1>4, <3>1, <3>2
  <2> QED
    BY <2>1
<1>6. Shapes'
  BY <1>1, <1>4 DEF GitInv, Shapes
<1>7. Numbered'
  <2>1. Within(stash', 1 .. edits') /\ Within(commits', recorded') /\ Within(upstream', recorded')
    <3>1. Within(stash, 1 .. edits')
      BY <1>2, WithinMore DEF GitInv, Numbered
    <3> QED
      BY <1>1, <3>1 DEF GitInv, Numbered
  <2>2. edits' \in 0 .. MaxEdits /\ 1 .. edits \subseteq 1 .. edits' /\ edits' \in 1 .. edits'
    BY <1>2
  <2>3. recorded' \subseteq 1 .. edits' /\ dropped' \subseteq 1 .. edits' /\ EditsOf(index') \subseteq 1 .. edits'
    BY <1>1, <2>2 DEF GitInv, Numbered
  <2>4. EditsOf(work') \subseteq 1 .. edits'
    BY <1>3, <1>5, <2>2
  <2> QED
    BY <2>1, <2>2, <2>3, <2>4 DEF Numbered
<1>8. EditsAreKept'
  <2> DEFINE K == EditsHeld(recorded', work', stash')
  <2>0. /\ recorded' \subseteq K /\ EditsOf(work') \subseteq K
        /\ \A i \in 1 .. Len(stash') : EditsOf(stash'[i]) \subseteq K
    BY KeptHas
  <2> HIDE DEF K
  <2>1. StillThere \subseteq StillThere' /\ EditsOf(work') \subseteq StillThere'
    <3>1. /\ recorded \subseteq K /\ EditsOf(work) \subseteq K
          /\ \A i \in 1 .. Len(stash) : EditsOf(stash[i]) \subseteq K
      BY <1>1, <1>5, <2>0
    <3> QED
      BY <2>0, <3>1, KeptGrows, EditsHeldIs DEF K
  <2> QED
    BY <1>1, <1>2, <1>5, <2>1 DEF GitInv, EditsAreKept
<1> QED
  BY <1>1, <1>6, <1>7, <1>8, NothingTold DEF GitInv

LEMMA AbortByHandHolds ==
  ASSUME GitInv, AbortByHand
  PROVE  GitInv'
<1>1. /\ index' = Head_ /\ work' = Head_ /\ unmerged' = {} /\ gone' = {} /\ busy' = FALSE
      /\ dropped' = dropped \cup ((1 .. edits) \ StillThere') /\ told' = "none"
      /\ UNCHANGED <<commits, stash, upstream, recorded, edits>>
  BY DEF AbortByHand, Leaves, remote
<1>2. Head_ \in Trees /\ EditsOf(Head_) \subseteq 1 .. edits
  BY HeadIs DEF GitInv
<1>3. EditsAreKept'
  BY <1>1, GivenUp
<1>4. Shapes'
  BY <1>1, <1>2 DEF GitInv, Shapes
<1>5. Numbered'
  BY <1>1, <1>2 DEF GitInv, Numbered
<1> QED
  BY <1>1, <1>3, <1>4, <1>5, NothingTold DEF GitInv

LEMMA OthersPushHolds ==
  ASSUME GitInv, OthersPush
  PROVE  GitInv'
<1> DEFINE last == upstream[Len(upstream)]
<1>1. /\ upstream # <<>> /\ upstream' = Append(upstream, With(last, Theirs)) /\ told' = "none"
      /\ UNCHANGED <<commits, index, work, stash, unmerged, gone, busy, recorded, dropped, edits>>
  BY DEF OthersPush, checkout
<1>2. upstream \in Seq(Trees) /\ Within(upstream, recorded) /\ Len(upstream) \in 1 .. Len(upstream)
  BY <1>1 DEF GitInv, Shapes, Numbered
<1>3. last \in Trees /\ EditsOf(last) \subseteq recorded
  <2>1. EditsOf(last) \subseteq recorded
    BY <1>2 DEF Within
  <2>2. last \in Trees
    BY <1>2
  <2> QED
    BY <2>1, <2>2
<1> HIDE DEF last
<1>4. With(last, Theirs) \in Trees /\ EditsOf(With(last, Theirs)) \subseteq recorded
  BY <1>3, WithTheirs
<1>5. upstream' \in Seq(Trees) /\ Within(upstream', recorded)
  BY <1>1, <1>2, <1>4, WithinAppend
<1>6. Shapes' /\ Numbered'
  BY <1>1, <1>5 DEF GitInv, Shapes, Numbered, Within
<1> QED
  BY <1>1, <1>6, EditsHeldIs, StillKept, NothingTold DEF GitInv

LEMMA WaitsHolds ==
  ASSUME GitInv, UNCHANGED gitVars
  PROVE  GitInv'
<1>1. UNCHANGED <<commits, index, work, stash, unmerged, gone, busy, upstream, told, recorded, dropped, edits>>
  BY DEF gitVars, checkout, remote
<1>2. Shapes' /\ Numbered'
  BY <1>1 DEF GitInv, Shapes, Numbered, Within
<1>3. EditsAreKept'
  BY <1>1, EditsHeldIs, StillKept DEF GitInv
<1>4. ToldIsTrue'
  BY <1>1 DEF GitInv, ToldIsTrue, Head_, ChangesOf
<1> QED
  BY <1>2, <1>3, <1>4 DEF GitInv

LEMMA GitStepHolds == GitInv /\ [GitNext]_gitVars => GitInv'
<1> SUFFICES ASSUME GitInv, [GitNext]_gitVars PROVE GitInv'
  OBVIOUS
<1>1. CASE handleGit
  BY <1>1, CommitHolds, AmendHolds, RevertHolds, ApplyHolds, StashPopHolds, StashDropHolds, ResetHolds,
     RestoreHolds, PickHolds, MergeHolds, PullHolds, PushHolds, StageHolds, StashSaveHolds DEF handleGit
<1>2. CASE Resolve
  BY <1>2, ResolveHolds
<1>3. CASE ByHand
  BY <1>3, EditByHandHolds, CommitByHandHolds, AbortByHandHolds, OthersPushHolds DEF ByHand
<1>4. CASE Waits \/ UNCHANGED gitVars
  BY <1>4, WaitsHolds DEF Waits
<1> QED
  BY <1>1, <1>2, <1>3, <1>4 DEF GitNext

-----------------------------------------------------------------------------
(* The theorems.                                                            *)

LEMMA GitInvariance == GitSpec => []GitInv
BY GitInitHolds, GitStepHolds, PTL DEF GitSpec

\* Whatever is typed, and whatever the user's own git and the others do meanwhile: an
\* edit is in the working tree, the stash or a commit unless the whole word was typed
\* to give it up, and what the last command told is so (gitSlashCommands.ts,
\* workspace/git.ts, /resolve).
THEOREM GitIsSound == GitSpec => []GitSound
<1>1. GitInv => GitSound
  <2> SUFFICES ASSUME GitInv PROVE GitSound
    OBVIOUS
  <2>1. GitTypeOK
    BY DEF GitInv, Shapes, Numbered, GitTypeOK
  <2> QED
    BY <2>1 DEF GitInv, GitSound
<1> QED
  BY <1>1, GitInvariance, PTL

\* No push takes away what others pushed and this repository has not seen; no command
\* moves a branch while the edits are isolated; what /resolve stages of a file that was
\* in conflict has no markers.
THEOREM GitStepsHold == GitSpec => GitSteps
<1>1. GitInv /\ [GitNext]_gitVars =>
        [~seen => \A i \in 1 .. Len(upstream) : \E j \in 1 .. Len(upstream') : upstream'[j] = upstream[i]]_gitVars
  <2> SUFFICES ASSUME GitInv, GitNext, ~seen, NEW i \in 1 .. Len(upstream)
               PROVE  \E j \in 1 .. Len(upstream') : upstream'[j] = upstream[i]
    BY DEF gitVars, remote
  <2>1. CASE upstream' = upstream
    BY <2>1
  <2>2. ASSUME NEW force \in BOOLEAN, NEW reply, Push(force, reply)
        PROVE  \E j \in 1 .. Len(upstream') : upstream'[j] = upstream[i]
    <3>1. IsPrefix_(upstream, commits) /\ upstream' = commits
      BY <2>2 DEF Push, Accepted
    <3>2. commits[i] = upstream[i] /\ Len(upstream) <= Len(commits)
      BY <3>1 DEF IsPrefix_
    <3>3. i \in 1 .. Len(commits)
      BY <3>2 DEF GitInv, Shapes
    <3> QED
      BY <3>1, <3>2, <3>3
  <2>3. CASE OthersPush
    <3>1. upstream \in Seq(Trees) /\ With(upstream[Len(upstream)], Theirs) \in Trees
      <4>1. upstream \in Seq(Trees) /\ upstream # <<>>
        BY <2>3 DEF GitInv, Shapes, OthersPush
      <4> QED
        BY <4>1, WithTheirs
    <3>2. upstream' = Append(upstream, With(upstream[Len(upstream)], Theirs))
      BY <2>3 DEF OthersPush
    <3>3. i \in 1 .. Len(upstream') /\ upstream'[i] = upstream[i]
      BY <3>1, <3>2
    <3> QED
      BY <3>3
  <2>4. (\E reply \in Answers, force \in BOOLEAN : Push(force, reply)) \/ OthersPush \/ upstream' = upstream
    BY DEF GitNext, handleGit, ByHand, Waits, gitVars, remote, Commit, Amend, Revert, Apply, StashPop,
       StashDrop, Reset, Restore, Pick, Merge, Pull, Stage, StashSave, Resolve, EditByHand, CommitByHand,
       AbortByHand
  <2> QED
    BY <2>1, <2>2, <2>3, <2>4
<1>2. [GitNext]_gitVars => [isolated /\ ~ByHand => UNCHANGED <<commits, upstream>>]_gitVars
  <2> SUFFICES ASSUME GitNext, isolated, ~ByHand PROVE UNCHANGED <<commits, upstream>>
    BY DEF gitVars, remote
  <2>1. \A cmd \in Mutating : ~Typed(cmd)
    BY DEF Typed
  <2>2. CASE handleGit
    BY <2>1, <2>2 DEF handleGit, Mutating, Commit, Amend, Revert, Apply, Reset, Restore, Pick, Merge,
       Pull, Push, Stage, StashPop, StashDrop, StashSave, remote
  <2>3. CASE Resolve \/ Waits
    BY <2>3 DEF Resolve, Waits, gitVars, remote
  <2> QED
    BY <2>2, <2>3 DEF GitNext
<1>3. GitInv /\ [GitNext]_gitVars => [Resolve => \A f \in unmerged \ unmerged' : Marks \notin index'[f]]_gitVars
  <2> SUFFICES ASSUME GitInv, Resolve, NEW f \in unmerged \ unmerged' PROVE Marks \notin index'[f]
    BY DEF gitVars
  <2> DEFINE still == filesStillConflicted(work')
  <2>1. index' = add(work', unmerged \ still) /\ unmerged' = still /\ f \in Files
    BY DEF Resolve, GitInv, Shapes
  <2>2. f \in unmerged \ still /\ Marks \notin work'[f]
    BY <2>1 DEF filesStillConflicted
  <2> QED
    BY <2>1, <2>2 DEF add
<1> QED
  BY <1>1, <1>2, <1>3, GitInvariance, PTL DEF GitSpec, GitSteps, LeaseHolds, IsolationHolds, ResolvedIsClean

-----------------------------------------------------------------------------
(* The call of the model (ProviderStream)                                  *)

ProviderConstants == MaxIndex \in Nat /\ MaxPieces \in Nat /\ MaxText \in Nat /\ maxRetries \in Nat

\* The first n pieces of the arguments of the i-th call.
Pieces(i, n) == [k \in 1 .. n |-> <<i, k>>]

LEMMA PiecesGrow ==
    ASSUME NEW i \in Nat, NEW n \in Nat
    PROVE  /\ Append(Pieces(i, n), <<i, n + 1>>) = Pieces(i, n + 1)
           /\ Pieces(i, 0) = <<>>
<1>1. Pieces(i, n) \in Seq({i} \X Nat) /\ Len(Pieces(i, n)) = n
  BY DEF Pieces
<1>2. Pieces(i, n + 1) \in Seq({i} \X Nat) /\ Len(Pieces(i, n + 1)) = n + 1
  BY DEF Pieces
<1>3. \A k \in 1 .. n : Pieces(i, n)[k] = <<i, k>>
  BY DEF Pieces
<1>4. \A k \in 1 .. n + 1 : Pieces(i, n + 1)[k] = <<i, k>>
  BY DEF Pieces
<1> DEFINE whole == Append(Pieces(i, n), <<i, n + 1>>)
<1>5. whole \in Seq({i} \X Nat) /\ Len(whole) = n + 1
  <2>1. <<i, n + 1>> \in {i} \X Nat
    OBVIOUS
  <2> QED
    BY <1>1, <2>1
<1>6. \A k \in 1 .. n + 1 : whole[k] = <<i, k>>
  <2> SUFFICES ASSUME NEW k \in 1 .. n + 1 PROVE whole[k] = <<i, k>>
    OBVIOUS
  <2>1. CASE k = n + 1
    BY <1>1, <2>1
  <2>2. CASE k # n + 1
    BY <1>1, <1>3, <2>2
  <2> QED
    BY <2>1, <2>2
<1> HIDE DEF whole
<1>7. whole = Pieces(i, n + 1)
  <2>1. \A k \in 1 .. Len(whole) : whole[k] = Pieces(i, n + 1)[k]
    BY <1>4, <1>5, <1>6
  <2> QED
    BY <1>2, <1>5, <2>1, SeqEqual
<1>8. Pieces(i, 0) = <<>>
  BY DEF Pieces
<1> QED
  BY <1>7, <1>8 DEF whole

\* What the accumulator holds of a call of which the head and n - 1 pieces came.
Entry(a, i, n) == [id |-> i, name |-> a[i].named, extra |-> i, args |-> Pieces(i, n - 1)]

\* The accumulator c holds what was sent of the answer a, and nothing else.
Streamed(a, s, c) ==
    /\ s \in [DOMAIN a -> Nat]
    /\ \A i \in DOMAIN a : s[i] <= a[i].pieces + 1
    /\ DOMAIN c = {i \in DOMAIN a : s[i] > 0}
    /\ \A i \in DOMAIN c : c[i] = Entry(a, i, s[i])

LEMMA AnswerIs ==
    ASSUME ProviderConstants, NEW a \in Model!Answers
    PROVE  /\ DOMAIN a \subseteq 1 .. MaxIndex /\ DOMAIN a \subseteq Nat
           /\ \A i \in DOMAIN a : a[i].pieces \in Nat /\ a[i].named \in BOOLEAN
<1>1. PICK n \in 0 .. MaxIndex : a \in [1 .. n -> [named : BOOLEAN, pieces : 0 .. MaxPieces]]
  BY DEF Model!Answers
<1>2. DOMAIN a = 1 .. n /\ \A i \in 1 .. n : a[i] \in [named : BOOLEAN, pieces : 0 .. MaxPieces]
  BY <1>1
<1> QED
  BY <1>2 DEF ProviderConstants

LEMMA PieceSet ==
    ASSUME NEW i, NEW b, NEW r, NEW p, NEW x, r = [id |-> i, name |-> b, extra |-> i, args |-> p]
    PROVE  [r EXCEPT !.args = Append(@, x)] = [id |-> i, name |-> b, extra |-> i, args |-> Append(p, x)]
  OBVIOUS

\* A delta more is held with what came before it.
LEMMA DeltaHeld ==
    ASSUME ProviderConstants, answer \in Model!Answers, Streamed(answer, sent, acc), NEW i \in DOMAIN answer,
           sent[i] <= answer[i].pieces, acc' = Model!push(Model!Delta(i, sent[i])), sent' = [sent EXCEPT ![i] = @ + 1]
    PROVE  Streamed(answer, sent', acc')
<1>0. /\ i \in Nat /\ answer[i].pieces \in Nat /\ sent \in [DOMAIN answer -> Nat] /\ sent[i] \in Nat
      /\ DOMAIN answer \subseteq Nat
  BY AnswerIs DEF Streamed
<1>1. /\ sent' \in [DOMAIN answer -> Nat] /\ sent'[i] = sent[i] + 1
      /\ \A n \in DOMAIN answer : n # i => sent'[n] = sent[n]
  BY <1>0
<1>2. \A n \in DOMAIN answer : sent'[n] <= answer[n].pieces + 1
  BY <1>0, <1>1 DEF Streamed
<1> DEFINE d == Model!Delta(i, sent[i])
<1>3. d.index = i /\ d.piece = sent[i]
  BY DEF Model!Delta
<1> HIDE DEF d
<1>4. /\ DOMAIN acc' = DOMAIN acc \cup {i}
      /\ \A n \in DOMAIN acc : n # i => acc'[n] = acc[n]
      /\ d.piece = 0 => acc'[i] = [id |-> i, name |-> answer[i].named, extra |-> i, args |-> Model!cur(i).args]
      /\ d.piece # 0 => acc'[i] = [Model!cur(i) EXCEPT !.args = Append(@, <<i, sent[i]>>)]
  <2>1. acc' = Model!push(d)
    BY DEF d
  <2> QED
    BY <1>3, <2>1, Zenon DEF Model!push
<1>5. DOMAIN acc' = {n \in DOMAIN answer : sent'[n] > 0}
  BY <1>0, <1>1, <1>4 DEF Streamed
<1>6. acc'[i] = Entry(answer, i, sent'[i])
  <2>0. sent'[i] - 1 = sent[i] /\ Pieces(i, 0) = <<>>
    <3>1. Pieces(i, 0) = <<>>
      BY <1>0, PiecesGrow, 0 \in Nat
    <3> QED
      BY <1>0, <1>1, <3>1
  <2>1. CASE sent[i] = 0
    <3>1. Model!cur(i) = [id |-> 0, name |-> FALSE, extra |-> 0, args |-> <<>>]
      BY <1>0, <2>1 DEF Model!cur, Streamed, Model!NoCall
    <3>2. acc'[i] = [id |-> i, name |-> answer[i].named, extra |-> i, args |-> <<>>]
      <4>1. acc'[i] = [id |-> i, name |-> answer[i].named, extra |-> i, args |-> Model!cur(i).args]
        BY <1>3, <1>4, <2>1
      <4>2. Model!cur(i).args = <<>>
        BY <3>1
      <4> QED
        BY <4>1, <4>2, Zenon
    <3> QED
      BY <2>0, <2>1, <3>2, Zenon DEF Entry
  <2>2. CASE sent[i] # 0
    <3>1. Model!cur(i) = Entry(answer, i, sent[i])
      BY <1>0, <2>2 DEF Model!cur, Streamed
    <3>2. acc'[i] = [id |-> i, name |-> answer[i].named, extra |-> i, args |-> Append(Pieces(i, sent[i] - 1), <<i, sent[i]>>)]
      <4>1. acc'[i] = [Model!cur(i) EXCEPT !.args = Append(@, <<i, sent[i]>>)]
        BY <1>3, <1>4, <2>2
      <4>2. Model!cur(i) = [id |-> i, name |-> answer[i].named, extra |-> i, args |-> Pieces(i, sent[i] - 1)]
        BY <3>1 DEF Entry
      <4> DEFINE r == Model!cur(i)
                 b == answer[i].named
                 p == Pieces(i, sent[i] - 1)
                 x == <<i, sent[i]>>
      <4>3. r = [id |-> i, name |-> b, extra |-> i, args |-> p] /\ acc'[i] = [r EXCEPT !.args = Append(@, x)]
        BY <4>1, <4>2, Zenon
      <4> HIDE DEF r, b, p, x
      <4>4. acc'[i] = [id |-> i, name |-> b, extra |-> i, args |-> Append(p, x)]
        BY <4>3, PieceSet
      <4> QED
        BY <4>4, Zenon DEF b, p, x
    <3>3. sent[i] - 1 \in Nat /\ sent[i] - 1 + 1 = sent[i]
      BY <1>0, <2>2
    <3>4. Append(Pieces(i, sent[i] - 1), <<i, sent[i]>>) = Pieces(i, sent[i])
      BY <1>0, <3>3, PiecesGrow
    <3> QED
      BY <2>0, <3>2, <3>4, Zenon DEF Entry
  <2> QED
    BY <2>1, <2>2
<1>7. \A n \in DOMAIN acc' : acc'[n] = Entry(answer, n, sent'[n])
  <2> SUFFICES ASSUME NEW n \in DOMAIN acc', n # i PROVE acc'[n] = Entry(answer, n, sent'[n])
    BY <1>6
  <2>1. n \in DOMAIN acc /\ n \in DOMAIN answer
    BY <1>4 DEF Streamed
  <2> QED
    BY <1>1, <1>4, <2>1, Zenon DEF Streamed
<1> QED
  BY <1>1, <1>2, <1>5, <1>7, Zenon DEF Streamed

\* The call that the i-th entry of an accumulator c becomes.
Whole(a, i, r) == [r EXCEPT !.args = IF @ = Pieces(i, a[i].pieces) THEN @ ELSE <<>>]
Called(c, i) == i \in DOMAIN c /\ c[i].name

\* The calls of the entries up to the n-th.
Collects(a, c, n, f) ==
    f = [i \in 0 .. n |-> IF i = 0 THEN <<>> ELSE IF Called(c, i) THEN Append(f[i - 1], Whole(a, i, c[i])) ELSE f[i - 1]]

LEMMA CollectsExist ==
    ASSUME NEW a, NEW c, NEW n \in Nat
    PROVE  \E f : Collects(a, c, n, f)
<1> SUFFICES ASSUME ~\E f : Collects(a, c, n, f) PROVE FALSE
  OBVIOUS
<1> DEFINE S == {m \in 0 .. n : ~\E f : Collects(a, c, m, f)}
<1>1. S \in SUBSET Nat /\ n \in S
  OBVIOUS
<1>2. PICK m \in S : \A j \in S : m <= j
  BY <1>1, Least
<1>3. CASE m = 0
  <2> DEFINE f == [i \in 0 .. 0 |-> <<>>]
  <2>1. \A i \in 0 .. 0 : i = 0
    OBVIOUS
  <2>2. [i \in 0 .. 0 |-> IF i = 0 THEN <<>> ELSE IF Called(c, i) THEN Append(f[i - 1], Whole(a, i, c[i])) ELSE f[i - 1]] = f
    BY <2>1, Zenon
  <2>3. Collects(a, c, 0, f)
    BY <2>2, Zenon DEF Collects
  <2> QED
    BY <1>2, <1>3, <2>3, Zenon
<1>4. CASE m # 0
  <2>1. m \in 1 .. n /\ m - 1 \in 0 .. n /\ ~(m <= m - 1) /\ m - 1 \in Nat
    BY <1>2, <1>4
  <2>2. PICK f : Collects(a, c, m - 1, f)
    BY <1>2, <2>1
  <2> DEFINE last == IF Called(c, m) THEN Append(f[m - 1], Whole(a, m, c[m])) ELSE f[m - 1]
             g == [i \in 0 .. m |-> IF i = m THEN last ELSE f[i]]
             h == [i \in 0 .. m |-> IF i = 0 THEN <<>> ELSE IF Called(c, i) THEN Append(g[i - 1], Whole(a, i, c[i])) ELSE g[i - 1]]
  <2>3. \A i \in 0 .. m - 1 : f[i] = IF i = 0 THEN <<>> ELSE IF Called(c, i) THEN Append(f[i - 1], Whole(a, i, c[i])) ELSE f[i - 1]
    BY <2>2, Zenon DEF Collects
  <2>4. \A i \in 0 .. m : (i # m => i \in 0 .. m - 1) /\ (i # 0 => i - 1 \in 0 .. m /\ i - 1 # m)
    BY <2>1
  <2>5. \A i \in 0 .. m : g[i] = h[i]
    <3> SUFFICES ASSUME NEW i \in 0 .. m PROVE g[i] = h[i]
      OBVIOUS
    <3>1. g[i] = IF i = m THEN last ELSE f[i]
      BY Zenon
    <3>2. h[i] = IF i = 0 THEN <<>> ELSE IF Called(c, i) THEN Append(g[i - 1], Whole(a, i, c[i])) ELSE g[i - 1]
      BY Zenon
    <3>3. i # 0 => g[i - 1] = f[i - 1]
      BY <2>4
    <3> HIDE DEF g, h
    <3>4. CASE i = m
      BY <1>4, <3>1, <3>2, <3>3, <3>4, Zenon
    <3>5. CASE i # m
      <4>1. i \in 0 .. m - 1
        BY <2>4, <3>5
      <4> QED
        BY <2>3, <3>1, <3>2, <3>3, <3>5, <4>1, Zenon
    <3> QED
      BY <3>4, <3>5
  <2>6. g = [i \in 0 .. m |-> g[i]] /\ h = [i \in 0 .. m |-> h[i]]
    OBVIOUS
  <2>7. Collects(a, c, m, g)
    <3>1. h = [i \in 0 .. m |-> IF i = 0 THEN <<>> ELSE IF Called(c, i) THEN Append(g[i - 1], Whole(a, i, c[i])) ELSE g[i - 1]]
      BY Zenon
    <3> HIDE DEF g, h
    <3>2. g = h
      BY <2>5, <2>6
    <3> QED
      BY <3>1, <3>2, Zenon DEF Collects
  <2> HIDE DEF g, h
  <2> QED
    BY <1>2, <2>7, Zenon
<1> QED
  BY <1>3, <1>4

\* The calls of a sequence are those of the entries up to the n-th, in their order.
Collected(a, c, n, s) ==
    /\ Len(s) \in Nat
    /\ \A m \in 1 .. Len(s) : s[m].id \in 1 .. n /\ Called(c, s[m].id) /\ s[m] = Whole(a, s[m].id, c[s[m].id])
    /\ \A m, k \in 1 .. Len(s) : k < m => s[k].id < s[m].id
    /\ \A i \in 1 .. n : Called(c, i) => \E m \in 1 .. Len(s) : s[m].id = i

\* One entry more.
LEMMA OneCollected ==
    ASSUME NEW a, NEW c, NEW n \in Nat, n > 0, NEW S, NEW s \in Seq(S), Collected(a, c, n - 1, s),
           Called(c, n), Whole(a, n, c[n]).id = n, Whole(a, n, c[n]) \in S
    PROVE  Append(s, Whole(a, n, c[n])) \in Seq(S) /\ Collected(a, c, n, Append(s, Whole(a, n, c[n])))
<1> DEFINE x == Whole(a, n, c[n])
           t == Append(s, x)
<1>0. x \in S /\ x.id = n
  OBVIOUS
<1>1. Called(c, x.id) /\ x = Whole(a, x.id, c[x.id])
  BY <1>0, Zenon
<1> HIDE DEF x
<1>2. t \in Seq(S) /\ Len(t) = Len(s) + 1 /\ Len(s) \in Nat /\ t[Len(s) + 1] = x /\ \A m \in 1 .. Len(s) : t[m] = s[m]
  BY <1>0
<1> HIDE DEF t
<1>3. \A m \in 1 .. Len(t) : m = Len(s) + 1 \/ m \in 1 .. Len(s)
  BY <1>2
<1>4. \A m \in 1 .. Len(s) : s[m].id \in 1 .. n - 1
  BY DEF Collected
<1>5. \A m \in 1 .. Len(s) : s[m].id \in 1 .. n /\ s[m].id < n
  BY <1>4
<1>6. \A m \in 1 .. Len(t) : t[m].id \in 1 .. n /\ Called(c, t[m].id) /\ t[m] = Whole(a, t[m].id, c[t[m].id])
  <2> SUFFICES ASSUME NEW m \in 1 .. Len(t)
               PROVE  t[m].id \in 1 .. n /\ Called(c, t[m].id) /\ t[m] = Whole(a, t[m].id, c[t[m].id])
    OBVIOUS
  <2>1. CASE m = Len(s) + 1
    <3>1. n \in 1 .. n
      OBVIOUS
    <3> QED
      BY <1>0, <1>1, <1>2, <2>1, <3>1, Zenon
  <2>2. CASE m \in 1 .. Len(s)
    BY <1>2, <1>5, <2>2, Zenon DEF Collected
  <2> QED
    BY <1>3, <2>1, <2>2
<1>7. \A m, k \in 1 .. Len(t) : k < m => t[k].id < t[m].id
  <2> SUFFICES ASSUME NEW m \in 1 .. Len(t), NEW k \in 1 .. Len(t), k < m PROVE t[k].id < t[m].id
    OBVIOUS
  <2>1. k \in 1 .. Len(s)
    BY <1>2
  <2>2. CASE m = Len(s) + 1
    BY <1>0, <1>2, <1>5, <2>1, <2>2
  <2>3. CASE m \in 1 .. Len(s)
    BY <1>2, <2>1, <2>3, Zenon DEF Collected
  <2> QED
    BY <1>3, <2>2, <2>3
<1>8. \A i \in 1 .. n : Called(c, i) => \E m \in 1 .. Len(t) : t[m].id = i
  <2> SUFFICES ASSUME NEW i \in 1 .. n, Called(c, i) PROVE \E m \in 1 .. Len(t) : t[m].id = i
    OBVIOUS
  <2>1. CASE i = n
    <3>1. Len(s) + 1 \in 1 .. Len(t)
      BY <1>2
    <3> QED
      BY <1>0, <1>2, <2>1, <3>1, Zenon
  <2>2. CASE i # n
    <3>1. i \in 1 .. n - 1
      BY <2>2
    <3>2. PICK m \in 1 .. Len(s) : s[m].id = i
      BY <3>1, Zenon DEF Collected
    <3>3. m \in 1 .. Len(t)
      BY <1>2
    <3> QED
      BY <1>2, <3>2, <3>3, Zenon
  <2> QED
    BY <2>1, <2>2
<1>9. Len(t) \in Nat
  BY <1>2
<1> QED
  BY <1>2, <1>6, <1>7, <1>8, <1>9 DEF Collected, t, x

LEMMA AllCollected ==
    ASSUME NEW a, NEW c, NEW n \in Nat, NEW f, Collects(a, c, n, f), \A i \in 1 .. n : Called(c, i) => c[i].id = i
    PROVE  f[n] \in Seq({Whole(a, i, c[i]) : i \in 1 .. n}) /\ Collected(a, c, n, f[n])
<1> DEFINE S == {Whole(a, i, c[i]) : i \in 1 .. n}
           Right(m) == f[m] \in Seq(S) /\ Collected(a, c, m, f[m])
           Wrong == {m \in 0 .. n : ~Right(m)}
<1>0. \A i \in 1 .. n : Called(c, i) => Whole(a, i, c[i]).id = i
  <2> SUFFICES ASSUME NEW i \in 1 .. n, Called(c, i) PROVE Whole(a, i, c[i]).id = i
    OBVIOUS
  <2>1. c[i].id = i
    OBVIOUS
  <2>2. Whole(a, i, c[i]).id = c[i].id
    BY DEF Whole
  <2> QED
    BY <2>1, <2>2
<1>1. \A i \in 0 .. n : f[i] = IF i = 0 THEN <<>> ELSE IF Called(c, i) THEN Append(f[i - 1], Whole(a, i, c[i])) ELSE f[i - 1]
  BY Zenon DEF Collects
<1>2. \A i \in 1 .. n : Whole(a, i, c[i]) \in S
  OBVIOUS
<1>3. SUFFICES ASSUME Wrong # {} PROVE FALSE
  <2>1. n \in 0 .. n
    OBVIOUS
  <2>2. ASSUME Wrong = {} PROVE f[n] \in Seq(S) /\ Collected(a, c, n, f[n])
    BY <2>1, <2>2, Zenon
  <2> QED
    BY <1>3, <2>2, Zenon
<1> HIDE DEF S
<1>4. PICK m \in Wrong : \A j \in Wrong : m <= j
  <2>1. Wrong \in SUBSET Nat
    OBVIOUS
  <2> HIDE DEF Wrong
  <2> QED
    BY <1>3, <2>1, Least
<1>5. CASE m = 0
  <2>1. f[0] = <<>>
    <3>1. 0 \in 0 .. n
      OBVIOUS
    <3> QED
      BY <1>1, <3>1, Zenon
  <2>2. f[0] \in Seq(S) /\ Len(f[0]) = 0
    BY <2>1
  <2>3. \A i \in 1 .. 0 : FALSE
    OBVIOUS
  <2>4. Collected(a, c, 0, f[0])
    BY <2>2, <2>3 DEF Collected
  <2> QED
    BY <1>4, <1>5, <2>2, <2>4
<1>6. CASE m # 0
  <2>1. m \in 1 .. n /\ m \in 0 .. n /\ m \in Nat /\ m > 0 /\ m - 1 \in 0 .. n /\ ~(m <= m - 1)
    BY <1>4, <1>6
  <2>2. Right(m - 1)
    BY <1>4, <2>1
  <2>3. CASE Called(c, m)
    <3>1. f[m] = Append(f[m - 1], Whole(a, m, c[m]))
      BY <1>1, <1>6, <2>1, <2>3, Zenon
    <3>2. Whole(a, m, c[m]).id = m /\ Whole(a, m, c[m]) \in S
      BY <1>0, <1>2, <2>1, <2>3
    <3>3. Right(m)
      BY <2>1, <2>2, <2>3, <3>1, <3>2, OneCollected
    <3> QED
      BY <1>4, <3>3
  <2>4. CASE ~Called(c, m)
    <3>1. f[m] = f[m - 1]
      BY <1>1, <1>6, <2>1, <2>4, Zenon
    <3>2. \A i \in 1 .. m : Called(c, i) => i \in 1 .. m - 1
      BY <2>1, <2>4
    <3>3. \A i \in 1 .. m - 1 : i \in 1 .. m
      BY <2>1
    <3>4. Collected(a, c, m, f[m])
      BY <2>2, <3>1, <3>2, <3>3 DEF Collected
    <3> QED
      BY <1>4, <2>2, <3>1, <3>4
  <2> QED
    BY <2>3, <2>4
<1> QED
  BY <1>5, <1>6

\* The calls of a response: those that were meant and came whole, in their order.
LEMMA FinalIs ==
    ASSUME ProviderConstants
    PROVE  \E f : Collects(answer, acc, MaxIndex, f) /\ Model!finalize = f[MaxIndex]
<1>1. PICK f : Collects(answer, acc, MaxIndex, f)
  BY CollectsExist DEF ProviderConstants
<1> DEFINE g == CHOOSE f_1 : Collects(answer, acc, MaxIndex, f_1)
<1>2. Collects(answer, acc, MaxIndex, g)
  BY <1>1, Zenon
<1>3. Model!finalize = g[MaxIndex]
  BY Zenon DEF Model!finalize, Model!safeParseArgs, Model!WholeArgs, Collects, Called, Whole, Pieces
<1> QED
  BY <1>2, <1>3, Zenon

\* What CallsAreMeant says of a response, for any calls.
AreMeant(a, s, c) ==
    /\ \A n \in DOMAIN c :
         /\ c[n].id \in DOMAIN a /\ c[n].extra = c[n].id
         /\ c[n].args \in {<<>>, Pieces(c[n].id, a[c[n].id].pieces)}
         /\ \A m \in 1 .. n - 1 : c[m].id < c[n].id
    /\ \A i \in DOMAIN a :
         a[i].named /\ s[i] = a[i].pieces + 1 =>
             \E n \in DOMAIN c : c[n].id = i /\ c[n].args = Pieces(i, a[i].pieces)

LEMMA WholeKeeps ==
    ASSUME NEW a, NEW i, NEW n
    PROVE  /\ Whole(a, i, Entry(a, i, n)).id = i /\ Whole(a, i, Entry(a, i, n)).extra = i
           /\ Whole(a, i, Entry(a, i, n)).args =
                IF Pieces(i, n - 1) = Pieces(i, a[i].pieces) THEN Pieces(i, a[i].pieces) ELSE <<>>
<1> DEFINE p == Pieces(i, n - 1)
           q == Pieces(i, a[i].pieces)
           b == a[i].named
<1> HIDE DEF p, q, b
<1>1. /\ [id |-> i, name |-> b, extra |-> i, args |-> p].args = p
      /\ \A z : LET w == [[id |-> i, name |-> b, extra |-> i, args |-> p] EXCEPT !.args = z]
                IN  w.id = i /\ w.extra = i /\ w.args = z
  OBVIOUS
<1>2. Whole(a, i, Entry(a, i, n)) = [[id |-> i, name |-> b, extra |-> i, args |-> p] EXCEPT !.args = IF p = q THEN p ELSE <<>>]
  BY <1>1, Zenon DEF Whole, Entry, p, q, b
<1>3. /\ Whole(a, i, Entry(a, i, n)).id = i /\ Whole(a, i, Entry(a, i, n)).extra = i
      /\ Whole(a, i, Entry(a, i, n)).args = IF p = q THEN p ELSE <<>>
  BY <1>1, <1>2, Zenon
<1> QED
  BY <1>3, Zenon DEF p, q

LEMMA FinalIsMeant ==
    ASSUME ProviderConstants, answer \in Model!Answers, Streamed(answer, sent, acc)
    PROVE  AreMeant(answer, sent, Model!finalize)
<1>1. PICK f : Collects(answer, acc, MaxIndex, f) /\ Model!finalize = f[MaxIndex]
  BY FinalIs
<1>2. /\ DOMAIN answer \subseteq 1 .. MaxIndex /\ MaxIndex \in Nat
      /\ \A i \in DOMAIN answer : answer[i].pieces \in Nat /\ sent[i] \in Nat
  BY AnswerIs DEF ProviderConstants, Streamed
<1>3. \A i \in DOMAIN acc : i \in DOMAIN answer /\ acc[i] = Entry(answer, i, sent[i])
  BY DEF Streamed
<1>4. \A i \in 1 .. MaxIndex : Called(acc, i) => acc[i].id = i
  BY <1>3 DEF Called, Entry
<1> DEFINE c == f[MaxIndex]
<1>5. Collected(answer, acc, MaxIndex, c) /\ c \in Seq({Whole(answer, i, acc[i]) : i \in 1 .. MaxIndex})
  BY <1>1, <1>2, <1>4, AllCollected
<1> HIDE DEF c
<1>7. DOMAIN c = 1 .. Len(c) /\ Len(c) \in Nat
  BY <1>5
<1>8. ASSUME NEW n \in DOMAIN c
      PROVE  /\ c[n].id \in DOMAIN answer /\ c[n].extra = c[n].id
             /\ c[n].args \in {<<>>, Pieces(c[n].id, answer[c[n].id].pieces)}
             /\ \A m \in 1 .. n - 1 : c[m].id < c[n].id
  <2>1. c[n].id \in DOMAIN acc /\ c[n] = Whole(answer, c[n].id, acc[c[n].id])
    BY <1>5, <1>7, <1>8, Zenon DEF Collected, Called
  <2>2. c[n].id \in DOMAIN answer /\ c[n] = Whole(answer, c[n].id, Entry(answer, c[n].id, sent[c[n].id]))
    BY <1>3, <2>1, Zenon
  <2> DEFINE i == c[n].id
  <2>3. c[n] = Whole(answer, i, Entry(answer, i, sent[i]))
    BY <2>2
  <2> HIDE DEF i
  <2>4. c[n].extra = i /\ c[n].args \in {<<>>, Pieces(i, answer[i].pieces)}
    <3>1. /\ Whole(answer, i, Entry(answer, i, sent[i])).extra = i
          /\ Whole(answer, i, Entry(answer, i, sent[i])).args =
               IF Pieces(i, sent[i] - 1) = Pieces(i, answer[i].pieces) THEN Pieces(i, answer[i].pieces) ELSE <<>>
      BY WholeKeeps
    <3> QED
      BY <2>3, <3>1, Zenon
  <2>5. \A m \in 1 .. n - 1 : m \in 1 .. Len(c) /\ n \in 1 .. Len(c) /\ m < n
    BY <1>7, <1>8
  <2>6. \A m \in 1 .. n - 1 : c[m].id < c[n].id
    BY <1>5, <2>5, Zenon DEF Collected
  <2> QED
    BY <2>2, <2>4, <2>6 DEF i
<1>9. ASSUME NEW i \in DOMAIN answer, answer[i].named, sent[i] = answer[i].pieces + 1
      PROVE  \E n \in DOMAIN c : c[n].id = i /\ c[n].args = Pieces(i, answer[i].pieces)
  <2>1. i \in DOMAIN acc /\ acc[i] = Entry(answer, i, sent[i])
    BY <1>2, <1>3, <1>9 DEF Streamed
  <2>2. Called(acc, i) /\ i \in 1 .. MaxIndex
    BY <1>2, <1>9, <2>1 DEF Called, Entry
  <2>3. PICK n \in 1 .. Len(c) : c[n].id = i
    BY <1>5, <2>2, Zenon DEF Collected
  <2>4. c[n] = Whole(answer, i, Entry(answer, i, sent[i]))
    BY <1>5, <2>1, <2>3, Zenon DEF Collected
  <2>5. Pieces(i, sent[i] - 1) = Pieces(i, answer[i].pieces)
    <3>1. sent[i] - 1 = answer[i].pieces
      BY <1>2, <1>9
    <3> QED
      BY <3>1
  <2>6. c[n].args = Pieces(i, answer[i].pieces)
    <3>1. Whole(answer, i, Entry(answer, i, sent[i])).args =
            IF Pieces(i, sent[i] - 1) = Pieces(i, answer[i].pieces) THEN Pieces(i, answer[i].pieces) ELSE <<>>
      BY WholeKeeps
    <3> QED
      BY <2>4, <2>5, <3>1, Zenon
  <2> QED
    BY <1>7, <2>3, <2>6
<1> QED
  BY <1>1, <1>8, <1>9, Zenon DEF AreMeant, c

\* A call without a stream answers with what was meant.
LEMMA ChatIsMeant ==
    ASSUME ProviderConstants, NEW a \in Model!Answers
    PROVE  AreMeant(a, [i \in DOMAIN a |-> a[i].pieces + 1],
                    [i \in DOMAIN a |-> [id |-> i, name |-> a[i].named, extra |-> i, args |-> Pieces(i, a[i].pieces)]])
<1> DEFINE c == [i \in DOMAIN a |-> [id |-> i, name |-> a[i].named, extra |-> i, args |-> Pieces(i, a[i].pieces)]]
<1>1. DOMAIN c = DOMAIN a
  BY Zenon
<1>2. \A i \in DOMAIN a : c[i].id = i /\ c[i].extra = i /\ c[i].args = Pieces(i, a[i].pieces)
  OBVIOUS
<1>3. PICK k \in 0 .. MaxIndex : DOMAIN a = 1 .. k
  BY DEF Model!Answers
<1>4. \A n \in DOMAIN a : \A m \in 1 .. n - 1 : m \in DOMAIN a /\ m < n
  BY <1>3 DEF ProviderConstants
<1> HIDE DEF c
<1>5. AreMeant(a, [i \in DOMAIN a |-> a[i].pieces + 1], c)
  BY <1>1, <1>2, <1>4, Zenon DEF AreMeant
<1> QED
  BY <1>5 DEF c

\* The inductive invariant of a call of the model: what is on the screen is the text
\* of this attempt, none was there when the attempt began or was repeated, and while
\* it streams the accumulator holds what was sent.
ProviderTyped ==
    /\ step \in {"ask", "stream", "chat", "response", "thrown"}
    /\ tries \in 0 .. maxRetries /\ cancelled \in BOOLEAN
    /\ answer \in Model!Answers
    /\ text \in 0 .. MaxText
    /\ (step \in {"ask", "chat"} => text = 0)

TextIsOf(s, n, t) == s \in Seq(Nat) /\ Len(s) = n /\ \A k \in 1 .. n : s[k] = t

ProviderInv ==
    /\ ProviderConstants /\ ProviderTyped /\ TextIsOf(shown, text, tries)
    /\ (step = "stream" => Streamed(answer, sent, acc))
    /\ (step = "response" => AreMeant(answer, sent, calls))
    /\ Model!RetriedAsTold /\ Model!FatalIsFinal

LEMMA ProviderSuffices == ProviderInv => Model!ProviderSound
<1> SUFFICES ASSUME ProviderInv PROVE Model!ProviderSound
  OBVIOUS
<1>1. Model!TypeOK
  BY DEF ProviderInv, ProviderTyped, TextIsOf, ProviderConstants, Model!TypeOK
<1>2. Model!CallsAreMeant
  <2> SUFFICES ASSUME step = "response" PROVE Model!CallsAreMeant
    BY Zenon DEF Model!CallsAreMeant
  <2>1. AreMeant(answer, sent, calls)
    BY DEF ProviderInv
  <2>2. \A i : Model!WholeArgs(i) = Pieces(i, answer[i].pieces)
    BY Zenon DEF Model!WholeArgs, Pieces
  <2> QED
    BY <2>1, <2>2, Zenon DEF AreMeant, Model!CallsAreMeant
<1>3. Model!ShownOnce
  BY DEF ProviderInv, TextIsOf, Model!ShownOnce
<1>4. Model!BodyIsAccepted
  <2> SUFFICES ASSUME NEW m \in {"pro", "flash"}, NEW effort \in {"none", "high"}, NEW perCall \in BOOLEAN,
                      NEW default \in BOOLEAN
               PROVE  ~({"reasoning", "temperature"} \subseteq
                          Model!reasoningField(m, effort) \cup Model!modelAwareTemperatureField(m, perCall, default))
    BY DEF Model!BodyIsAccepted
  <2>1. CASE Model!supportsReasoningEffort(m)
    BY <2>1 DEF Model!reasoningField, Model!modelAwareTemperatureField
  <2>2. CASE ~Model!supportsReasoningEffort(m)
    BY <2>2 DEF Model!reasoningField, Model!modelAwareTemperatureField, Model!temperatureField
  <2> QED
    BY <2>1, <2>2
<1> QED
  BY <1>1, <1>2, <1>3, <1>4, Zenon DEF ProviderInv, Model!ProviderSound

LEMMA NothingSaid ==
    ASSUME ProviderConstants
    PROVE  /\ <<>> \in Model!Answers /\ \A t : TextIsOf(<<>>, 0, t)
           /\ 0 \in 0 .. maxRetries /\ 0 \in 0 .. MaxText
<1>1. 0 \in 0 .. MaxIndex
  BY DEF ProviderConstants
<1>2. <<>> \in [1 .. 0 -> [named : BOOLEAN, pieces : 0 .. MaxPieces]]
  OBVIOUS
<1>3. <<>> \in Model!Answers
  BY <1>1, <1>2, Zenon DEF Model!Answers
<1>4. \A t : TextIsOf(<<>>, 0, t)
  BY DEF TextIsOf
<1> QED
  BY <1>3, <1>4 DEF ProviderConstants

LEMMA ProviderBegins ==
    ASSUME ProviderConstants, Model!Init
    PROVE  ProviderInv
<1>1. ProviderTyped /\ TextIsOf(shown, text, tries)
  BY NothingSaid, Zenon DEF Model!Init, ProviderTyped
<1>2. Model!RetriedAsTold /\ Model!FatalIsFinal
  BY DEF Model!Init, Model!RetriedAsTold, Model!FatalIsFinal
<1>3. step = "ask"
  BY DEF Model!Init
<1> QED
  BY <1>1, <1>2, <1>3, Zenon DEF ProviderInv

\* What a status is told as tells whether it is tried again.
LEMMA ToldTells ==
    ASSUME NEW s \in Model!Statuses, NEW d \in Model!Details
    PROVE  /\ s \in {"401", "404", "400"} => Model!Fatal(Model!Told(s, d))
           /\ Model!Fatal(Model!Told(s, d)) =>
                s \in {"401", "404", "400"} \/ Model!Told(s, d) \cap {"context_length", "api_key", "400"} # {}
<1> DEFINE m == Model!Told(s, d)
<1>1. /\ s = "401" => m = {"401", "api_key"}
      /\ s = "402" => m = {"402"}
      /\ s = "404" => m = {"404"}
      /\ s = "503" => m = {"503"}
      /\ s = "429" => m = {"429", "rate_limit", d}
      /\ s = "400" => m = {"400", d}
      /\ s = "network" => m = {"request_failed", d}
  BY DEF Model!Told
<1>2. s \in {"401", "402", "404", "400", "429", "503", "network"} /\ d \in {"none", "context_length", "api_key", "400"}
  BY DEF Model!Statuses, Model!Details
<1>3. Model!Fatal(m) <=> m \cap {"context_length", "401", "unauthorized", "api_key", "404", "400", "model_not_found"} # {}
  BY DEF Model!Fatal, Model!isContextOverflowError, Model!isAuthError, Model!isModelError
<1> HIDE DEF m
<1>4. s \in {"401", "404", "400"} => Model!Fatal(m)
  BY <1>1, <1>3
<1>5. ASSUME Model!Fatal(m), s \notin {"401", "404", "400"} PROVE m \cap {"context_length", "api_key", "400"} # {}
  <2>1. m \in {{"402"}, {"503"}, {"429", "rate_limit", d}, {"request_failed", d}}
    BY <1>1, <1>2, <1>5
  <2>2. d \in m /\ d # "none"
    BY <1>2, <1>3, <1>5, <2>1
  <2> QED
    BY <1>2, <2>2
<1> QED
  BY <1>4, <1>5 DEF m

\* The parts of the invariant that a step leaves alone.
LEMMA ProviderStands ==
    ASSUME ProviderInv, UNCHANGED Model!vars
    PROVE  ProviderInv'
<1>1. UNCHANGED <<step, tries, answer, sent, acc, text, shown, calls, words, status, cancelled>>
  BY DEF Model!vars, Model!reply
<1>2. Model!RetriedAsTold' /\ Model!FatalIsFinal'
  BY <1>1 DEF ProviderInv, Model!RetriedAsTold, Model!FatalIsFinal
<1>3. ProviderTyped' /\ ProviderConstants'
  BY <1>1 DEF ProviderInv, ProviderTyped, ProviderConstants
<1> QED
  BY <1>1, <1>2, <1>3, Zenon DEF ProviderInv

LEMMA RequestKeeps ==
    ASSUME ProviderInv, Model!Ask \/ Model!Returns \/ Model!Abort
    PROVE  ProviderInv'
<1>0. ProviderConstants /\ ProviderConstants' /\ ProviderTyped /\ TextIsOf(shown, text, tries)
  BY DEF ProviderInv, ProviderConstants
<1>1. CASE Model!Ask
  <2>1. step = "ask" /\ text = 0 /\ UNCHANGED <<tries, shown, calls, cancelled>>
    BY <1>0, <1>1 DEF Model!Ask, ProviderTyped
  <2>2. CASE Model!Begins("stream")
    <3>1. PICK a \in Model!Answers : answer' = a /\ sent' = [i \in DOMAIN a |-> 0]
      BY <2>2 DEF Model!Begins
    <3>2. acc' = <<>> /\ text' = 0 /\ step' = "stream"
      BY <2>2 DEF Model!Begins
    <3>3. Streamed(a, [i \in DOMAIN a |-> 0], <<>>)
      <4>1. \A i \in DOMAIN a : 0 <= a[i].pieces + 1
        BY <1>0, AnswerIs
      <4>2. DOMAIN <<>> = {}
        OBVIOUS
      <4> QED
        BY <4>1, <4>2 DEF Streamed
    <3>4. ProviderTyped'
      BY <1>0, <2>1, <3>1, <3>2, NothingSaid DEF ProviderTyped
    <3>5. Model!RetriedAsTold' /\ Model!FatalIsFinal'
      BY <3>2 DEF Model!RetriedAsTold, Model!FatalIsFinal
    <3> QED
      BY <1>0, <2>1, <3>1, <3>2, <3>3, <3>4, <3>5 DEF ProviderInv
  <2>3. CASE step' = "chat" /\ UNCHANGED Model!reply
    <3>1. UNCHANGED <<answer, sent, acc, text>>
      BY <2>3 DEF Model!reply
    <3>2. ProviderTyped'
      BY <1>0, <2>1, <2>3, <3>1 DEF ProviderTyped
    <3>3. Model!RetriedAsTold' /\ Model!FatalIsFinal'
      BY <2>3 DEF Model!RetriedAsTold, Model!FatalIsFinal
    <3> QED
      BY <1>0, <2>1, <2>3, <3>1, <3>2, <3>3 DEF ProviderInv
  <2> QED
    BY <1>1, <2>2, <2>3 DEF Model!Ask
<1>2. CASE Model!Returns
  <2>1. step' = "ask" /\ tries' = 0 /\ answer' = <<>> /\ text' = 0 /\ shown' = <<>> /\ cancelled' = FALSE
    BY <1>2 DEF Model!Returns
  <2>2. ProviderTyped' /\ TextIsOf(shown', text', tries')
    BY <1>0, <2>1, NothingSaid DEF ProviderTyped
  <2>3. Model!RetriedAsTold' /\ Model!FatalIsFinal'
    BY <2>1 DEF Model!RetriedAsTold, Model!FatalIsFinal
  <2> QED
    BY <1>0, <2>1, <2>2, <2>3 DEF ProviderInv
<1>3. CASE Model!Abort
  <2>1. /\ step \in {"ask", "stream", "chat"} /\ cancelled' = TRUE
        /\ step' = IF step = "ask" THEN "thrown" ELSE step
        /\ UNCHANGED <<tries, answer, sent, acc, text, shown, calls, words, status>>
    BY <1>3 DEF Model!Abort, Model!reply
  <2>2. ProviderTyped'
    BY <1>0, <2>1 DEF ProviderTyped
  <2>3. Model!RetriedAsTold' /\ Model!FatalIsFinal'
    BY <2>1 DEF ProviderInv, Model!RetriedAsTold, Model!FatalIsFinal
  <2> QED
    BY <1>0, <2>1, <2>2, <2>3 DEF ProviderInv
<1> QED
  BY <1>1, <1>2, <1>3

LEMMA StreamKeeps ==
    ASSUME ProviderInv, Model!Says \/ Model!StreamEnds \/ Model!StreamBreaks \/ (\E i \in DOMAIN answer : Model!SendsCall(i))
    PROVE  ProviderInv'
<1>0. ProviderConstants /\ ProviderConstants' /\ ProviderTyped /\ TextIsOf(shown, text, tries)
  BY DEF ProviderInv, ProviderConstants
<1>1. CASE Model!Says
  <2>1. /\ step = "stream" /\ text < MaxText /\ text' = text + 1 /\ shown' = Append(shown, tries)
        /\ UNCHANGED <<step, tries, answer, sent, acc, calls, words, status, cancelled>>
    BY <1>1 DEF Model!Says
  <2>2. ProviderTyped'
    BY <1>0, <2>1 DEF ProviderTyped, ProviderConstants
  <2>3. TextIsOf(shown', text', tries')
    BY <1>0, <2>1 DEF TextIsOf, ProviderTyped
  <2>4. Model!RetriedAsTold' /\ Model!FatalIsFinal'
    BY <2>1 DEF Model!RetriedAsTold, Model!FatalIsFinal
  <2> QED
    BY <1>0, <2>1, <2>2, <2>3, <2>4 DEF ProviderInv
<1>2. CASE Model!StreamEnds
  <2>1. /\ step = "stream" /\ calls' = Model!finalize /\ step' = "response"
        /\ UNCHANGED <<tries, answer, sent, acc, text, shown, words, status, cancelled>>
    BY <1>2 DEF Model!StreamEnds, Model!reply
  <2>2. AreMeant(answer, sent, calls')
    BY <1>0, <2>1, FinalIsMeant DEF ProviderInv, ProviderTyped
  <2>3. ProviderTyped'
    BY <1>0, <2>1 DEF ProviderTyped
  <2>4. Model!RetriedAsTold' /\ Model!FatalIsFinal'
    BY <2>1 DEF Model!RetriedAsTold, Model!FatalIsFinal
  <2> QED
    BY <1>0, <2>1, <2>2, <2>3, <2>4 DEF ProviderInv
<1>3. CASE Model!StreamBreaks
  <2>1. /\ step = "stream" /\ step' = IF Model!Repeatable THEN "chat" ELSE "thrown"
        /\ UNCHANGED <<tries, answer, sent, acc, text, shown, calls, cancelled>>
    BY <1>3 DEF Model!StreamBreaks, Model!reply
  <2>2. ProviderTyped'
    BY <1>0, <2>1 DEF ProviderTyped, Model!Repeatable
  <2>3. Model!RetriedAsTold' /\ Model!FatalIsFinal'
    BY <2>1 DEF Model!Repeatable, Model!RetriedAsTold, Model!FatalIsFinal
  <2> QED
    BY <1>0, <2>1, <2>2, <2>3 DEF ProviderInv
<1>4. CASE \E i \in DOMAIN answer : Model!SendsCall(i)
  <2>1. PICK i \in DOMAIN answer : Model!SendsCall(i)
    BY <1>4
  <2>2. /\ step = "stream" /\ sent[i] <= answer[i].pieces
        /\ acc' = Model!push(Model!Delta(i, sent[i])) /\ sent' = [sent EXCEPT ![i] = @ + 1]
        /\ UNCHANGED <<step, tries, answer, text, shown, calls, words, status, cancelled>>
    BY <2>1 DEF Model!SendsCall
  <2>3. Streamed(answer, sent', acc')
    BY <1>0, <2>2, DeltaHeld DEF ProviderInv, ProviderTyped
  <2>4. ProviderTyped'
    BY <1>0, <2>2 DEF ProviderTyped
  <2>5. Model!RetriedAsTold' /\ Model!FatalIsFinal'
    BY <2>2 DEF Model!RetriedAsTold, Model!FatalIsFinal
  <2> QED
    BY <1>0, <2>2, <2>3, <2>4, <2>5 DEF ProviderInv
<1> QED
  BY <1>1, <1>2, <1>3, <1>4

LEMMA ChatKeeps ==
    ASSUME ProviderInv, Model!ChatAnswers \/ Model!ChatFails
    PROVE  ProviderInv'
<1>0. ProviderConstants /\ ProviderConstants' /\ ProviderTyped /\ TextIsOf(shown, text, tries)
  BY DEF ProviderInv, ProviderConstants
<1>1. CASE Model!ChatAnswers
  <2>1. step = "chat" /\ text = 0 /\ text' = 0 /\ step' = "response" /\ UNCHANGED <<tries, shown, words, status, cancelled>>
    BY <1>0, <1>1 DEF Model!ChatAnswers, ProviderTyped
  <2>2. PICK a \in Model!Answers :
           /\ answer' = a /\ sent' = [i \in DOMAIN a |-> a[i].pieces + 1]
           /\ calls' = [i \in DOMAIN a |-> [id |-> i, name |-> a[i].named, extra |-> i, args |-> Pieces(i, a[i].pieces)]]
    BY <1>1, Zenon DEF Model!ChatAnswers, Pieces
  <2>3. AreMeant(answer', sent', calls')
    BY <1>0, <2>2, ChatIsMeant
  <2>4. ProviderTyped'
    BY <1>0, <2>1, <2>2 DEF ProviderTyped
  <2>5. Model!RetriedAsTold' /\ Model!FatalIsFinal'
    BY <2>1 DEF Model!RetriedAsTold, Model!FatalIsFinal
  <2> QED
    BY <1>0, <2>1, <2>3, <2>4, <2>5 DEF ProviderInv
<1>2. CASE Model!ChatFails
  <2>1. PICK s \in Model!Statuses, d \in Model!Details :
           /\ words' = Model!Told(s, d) /\ status' = s
           /\ \/ ~cancelled /\ Model!Again(words') /\ step' = "ask" /\ tries' = tries + 1
              \/ ~(~cancelled /\ Model!Again(words')) /\ step' = "thrown" /\ tries' = tries
    BY <1>2, Zenon DEF Model!ChatFails
  <2>2. step = "chat" /\ text = 0 /\ UNCHANGED <<answer, sent, acc, text, shown, calls, cancelled>>
    BY <1>0, <1>2 DEF Model!ChatFails, Model!reply, ProviderTyped
  <2>3. Model!Again(words') <=> ~Model!Fatal(words') /\ tries < maxRetries
    BY DEF Model!Again
  <2>4. /\ s \in {"401", "404", "400"} => Model!Fatal(words')
        /\ Model!Fatal(words') => s \in {"401", "404", "400"} \/ words' \cap {"context_length", "api_key", "400"} # {}
    BY <2>1, ToldTells
  <2>5. ProviderTyped'
    BY <1>0, <2>1, <2>2, <2>3 DEF ProviderTyped, ProviderConstants
  <2>6. TextIsOf(shown', text', tries')
    BY <1>0, <2>2 DEF TextIsOf
  <2>7. Model!RetriedAsTold'
    <3> SUFFICES ASSUME step' = "thrown", ~cancelled
                 PROVE  tries' = maxRetries \/ status' \in {"401", "404", "400"} \/ words' \cap {"context_length", "api_key", "400"} # {}
      BY <2>2 DEF Model!RetriedAsTold
    <3>1. tries' = tries /\ ~Model!Again(words')
      BY <2>1
    <3>2. CASE Model!Fatal(words')
      BY <2>1, <2>4, <3>2
    <3>3. CASE ~Model!Fatal(words')
      BY <1>0, <2>3, <3>1, <3>3 DEF ProviderTyped, ProviderConstants
    <3> QED
      BY <3>2, <3>3
  <2>8. Model!FatalIsFinal'
    <3> SUFFICES ASSUME step' = "ask" PROVE status' \notin {"401", "404", "400"}
      BY DEF Model!FatalIsFinal
    <3>1. Model!Again(words')
      BY <2>1
    <3> QED
      BY <2>1, <2>3, <2>4, <3>1
  <2>9. step' \in {"ask", "thrown"}
    BY <2>1
  <2> QED
    BY <1>0, <2>5, <2>6, <2>7, <2>8, <2>9 DEF ProviderInv
<1> QED
  BY <1>1, <1>2

LEMMA ProviderAlways == PartsSpec => []ProviderInv
<1>1. PartsInit => ProviderInv
  <2>1. ProviderConstants
    BY ProviderAssumption DEF ProviderAssumption, ProviderConstants
  <2> QED
    BY <2>1, ProviderBegins DEF PartsInit
<1>2. ProviderInv /\ [PartsNext]_parts => ProviderInv'
  <2> SUFFICES ASSUME ProviderInv, [PartsNext]_parts
               PROVE  ProviderInv'
    OBVIOUS
  <2>2. Model!Next \/ UNCHANGED Model!vars
    <3>1. CASE PartsNext
      <4>1. Model!Next \/ UNCHANGED model
        BY <3>1, Zenon DEF PartsNext, Moves
      <4> QED
        BY <4>1 DEF model, Model!vars, Model!reply
    <3>2. CASE UNCHANGED parts
      BY <3>2 DEF parts, model, Model!vars, Model!reply
    <3> QED
      BY <3>1, <3>2
  <2>3. CASE Model!Next
    BY <2>3, RequestKeeps, StreamKeeps, ChatKeeps, Zenon DEF Model!Next
  <2> QED
    BY <2>2, <2>3, ProviderStands
<1> QED
  BY <1>1, <1>2, PTL DEF PartsSpec

\* A response holds the calls the model meant, each once and with its own arguments
\* or none, however their deltas were mixed (createToolCallAccumulator); the text on
\* the screen is that of one attempt; a lost connection is tried again until the
\* retries are used up and a rejected key or request is not (withRetry), for any
\* bounds on calls, pieces, text and retries.
THEOREM ProviderIsSound == PartsSpec => []ProviderSound
  BY ProviderSuffices, ProviderAlways, PTL DEF ProviderSound
=============================================================================
