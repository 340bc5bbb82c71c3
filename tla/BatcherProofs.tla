---------------------------- MODULE BatcherProofs ----------------------------
(***************************************************************************)
(* Proofs about Batcher for every set of calls, every list of rows, every  *)
(* budget and both modes.                                                  *)
(***************************************************************************)
EXTENDS Batcher, FiniteSetTheorems, FunctionTheorems, SequenceTheorems, TLAPS

----------------------------------------------------------------------------
\* Slots: the rows of finitely many calls are finitely many pairs.
LEMMA SlotIsPair ==
    ASSUME NEW s \in Slots
    PROVE  /\ s[1] \in Job
           /\ s[2] \in 1..Size[s[1]]
           /\ s[2] \in Nat
           /\ s = <<s[1], s[2]>>
<1>1. PICK j \in Job : s \in {j} \X (1..Size[j])
  BY DEF Slots
<1>2. Size[j] \in Nat
  BY JobAssumption
<1>. QED  BY <1>1, <1>2

LEMMA SlotsFinite == IsFiniteSet(Slots)
<1>. DEFINE f == [j \in Job |-> {j} \X (1..Size[j])]
            T == {{j} \X (1..Size[j]) : j \in Job}
<1>1. f \in Surjection(Job, T)
  BY DEF Surjection
<1>2. IsFiniteSet(T)
  BY <1>1, JobAssumption, FS_Surjection
<1>3. \A R \in T : IsFiniteSet(R)
  <2>1. SUFFICES ASSUME NEW j \in Job PROVE IsFiniteSet({j} \X (1..Size[j]))
    OBVIOUS
  <2>2. IsFiniteSet({j})
    BY FS_Singleton
  <2>3. Size[j] \in Int
    BY JobAssumption
  <2>4. IsFiniteSet(1..Size[j])
    BY <2>3, FS_Interval
  <2>. QED  BY <2>2, <2>4, FS_Product
<1>. QED  BY <1>2, <1>3, FS_UNION DEF Slots

----------------------------------------------------------------------------
\* The order _process packs rows in.  It is strict and total on the rows of
\* jobs this round has taken ...
LEMMA PrecedesIsOrder ==
    ASSUME jobs \in Seq(Job), NEW S \in SUBSET Slots,
           \A s \in S : \E k \in DOMAIN jobs : jobs[k] = s[1]
    PROVE  /\ \A s \in S : ~Precedes(s, s)
           /\ \A s, t, u \in S : Precedes(s, t) /\ Precedes(t, u) => Precedes(s, u)
           /\ \A s, t \in S : s # t => Precedes(s, t) \/ Precedes(t, s)
<1>. DEFINE length(r) == IF Merge THEN Tokens[r] ELSE 0
<1>1. \A s \in S : /\ length(s) \in Nat
                   /\ Arrival(s[1]) \in Nat
                   /\ jobs[Arrival(s[1])] = s[1]
                   /\ s[2] \in Nat
                   /\ s = <<s[1], s[2]>>
  BY SlotIsPair, JobAssumption DEF Arrival
<1>. DEFINE before(s, t) ==
                \/ length(s) < length(t)
                \/ length(s) = length(t) /\ Arrival(s[1]) < Arrival(t[1])
                \/ length(s) = length(t) /\ Arrival(s[1]) = Arrival(t[1]) /\ s[2] < t[2]
<1>2. \A s, t \in S : Precedes(s, t) <=> before(s, t)
  BY DEF Precedes
<1>. HIDE DEF length
<1>3. \A s \in S : ~before(s, s)
  BY <1>1
<1>4. \A s, t, u \in S : before(s, t) /\ before(t, u) => before(s, u)
  BY <1>1
<1>5. \A s, t \in S : s # t => before(s, t) \/ before(t, s)
  BY <1>1
<1>. HIDE DEF before
<1>. QED  BY <1>2, <1>3, <1>4, <1>5

\* ... so every row has a place of its own, and laying the rows out by place
\* lists each of them: sorting and packing lose no row.
LEMMA ArrangedListsAll ==
    ASSUME jobs \in Seq(Job), NEW S \in SUBSET Slots,
           \A s \in S : \E k \in DOMAIN jobs : jobs[k] = s[1]
    PROVE  /\ Arranged(S) \in Seq(S)
           /\ Len(Arranged(S)) = Cardinality(S)
           /\ Cardinality(S) \in Nat
           /\ \A s \in S : \E p \in 1..Cardinality(S) : Arranged(S)[p] = s
<1>. DEFINE n == Cardinality(S)
            Before(s) == {t \in S : Precedes(t, s)}
            f == [s \in S |-> Place(s, S)]
<1>1. IsFiniteSet(S) /\ n \in Nat
  BY SlotsFinite, FS_Subset, FS_CardinalityType
<1>2. \A s \in S : ~Precedes(s, s)
  BY PrecedesIsOrder
<1>3. \A s, t, u \in S : Precedes(s, t) /\ Precedes(t, u) => Precedes(s, u)
  BY PrecedesIsOrder
<1>4. \A s, t \in S : s # t => Precedes(s, t) \/ Precedes(t, s)
  BY PrecedesIsOrder
<1>5. \A s \in S : IsFiniteSet(Before(s)) /\ Cardinality(Before(s)) \in Nat
  BY <1>1, FS_Subset, FS_CardinalityType
<1>6. \A s \in S : Place(s, S) = Cardinality(Before(s)) + 1
  BY DEF Place
<1>7. ASSUME NEW s \in S, NEW T \in SUBSET S, Before(s) \subseteq T, s \in T
      PROVE  Place(s, S) <= Cardinality(T)
  <2>1. IsFiniteSet(T)
    BY <1>1, FS_Subset
  <2>2. s \notin Before(s)
    BY <1>2
  <2>3. Cardinality(Before(s) \cup {s}) = Cardinality(Before(s)) + 1
    BY <1>5, <2>2, FS_AddElement
  <2>4. Before(s) \cup {s} \in SUBSET T
    BY <1>7
  <2>5. Cardinality(Before(s) \cup {s}) <= Cardinality(T)
    BY <2>1, <2>4, FS_Subset
  <2>. QED  BY <1>6, <2>3, <2>5
<1>8. f \in [S -> 1..n]
  <2>1. \A s \in S : Place(s, S) <= n
    <3>1. SUFFICES ASSUME NEW s \in S PROVE Place(s, S) <= n
      OBVIOUS
    <3>2. Before(s) \subseteq S
      OBVIOUS
    <3>. QED  BY <1>7, <3>2
  <2>. HIDE DEF Before, n
  <2>2. \A s \in S : Place(s, S) \in 1..n
    BY <1>1, <1>5, <1>6, <2>1
  <2>. QED  BY <2>2
<1>9. \A s, t \in S : Precedes(s, t) => Place(s, S) < Place(t, S)
  <2>1. SUFFICES ASSUME NEW s \in S, NEW t \in S, Precedes(s, t)
                 PROVE  Place(s, S) < Place(t, S)
    OBVIOUS
  <2>2. /\ Before(s) \subseteq Before(t) /\ s \in Before(t)
        /\ Before(t) \in SUBSET S
    BY <1>3, <2>1
  <2>. HIDE DEF Before
  <2>3. Place(s, S) <= Cardinality(Before(t))
    BY <1>7, <2>2
  <2>. QED  BY <1>5, <1>6, <2>3
<1>10. f \in Injection(S, 1..n)
  <2>. HIDE DEF Before
  <2>1. \A s, t \in S : s # t => Place(s, S) # Place(t, S)
    BY <1>4, <1>5, <1>6, <1>9
  <2>2. \A s, t \in S : f[s] = f[t] => s = t
    BY <2>1
  <2>. HIDE DEF f, n
  <2>. QED  BY <1>8, <2>2 DEF Injection, IsInjective
<1>11. f \in Surjection(S, 1..n)
  <2>1. IsFiniteSet(1..n) /\ Cardinality(1..n) = n
    BY <1>1, FS_Interval
  <2>. QED  BY <1>10, <2>1, FS_Injection
<1>12. \A p \in 1..n : \E s \in S : Place(s, S) = p
  BY <1>11 DEF Surjection
<1>13. \A p \in 1..n : Arranged(S)[p] \in S /\ Place(Arranged(S)[p], S) = p
  BY <1>12 DEF Arranged
<1>14. Arranged(S) \in [1..n -> S]
  BY <1>13 DEF Arranged
<1>15. \A s \in S : \E p \in 1..n : Arranged(S)[p] = s
  <2>1. SUFFICES ASSUME NEW s \in S PROVE \E p \in 1..n : Arranged(S)[p] = s
    OBVIOUS
  <2>2. PICK p \in 1..n : p = f[s]
    BY <1>8
  <2>3. Arranged(S)[p] \in S /\ f[Arranged(S)[p]] = f[s]
    BY <1>13, <2>2
  <2>4. \A a, b \in S : f[a] = f[b] => a = b
    BY <1>10, Fun_InjectionProperties
  <2>. QED  BY <2>3, <2>4
<1>16. Arranged(S) \in Seq(S)
  BY <1>1, <1>14, SeqDef
<1>17. Len(Arranged(S)) = n
  BY <1>1, <1>14
<1>. QED  BY <1>1, <1>15, <1>16, <1>17
----------------------------------------------------------------------------
\* The inductive invariant.  Answering is not inductive by itself: that the
\* worker may set an event when it has passed the last chunk depends on how
\* the group was laid out and on what each chunk so far has brought back.

\* Every job still to be processed was taken in this round.
RoundInv == \A j \in left : \E k \in DOMAIN jobs : jobs[k] = j

\* The rows of the group are all in order, and those before lo are answered
\* or their job has failed.
PackInv ==
    worker = "process" =>
        /\ lo <= Len(order) + 1
        /\ \A s \in SlotsOf(group) : \E p \in 1..Len(order) : order[p] = s
        /\ \A p \in 1..Len(order) :
              p < lo => error[order[p][1]] # "none" \/ results[order[p]] # None

\* The pieces of a split chunk are nested, and what came back of it is the
\* vectors of its first rows, in order.
ChunkInv ==
    worker = "process" =>
        /\ ends = <<>> => encoded = <<>>
        /\ ends # <<>> =>
              /\ \A k \in 1..Len(ends) : ends[k] <= Len(order)
              /\ \A k, m \in 1..Len(ends) : k <= m => ends[k] <= ends[m]
              /\ Len(encoded) <= Head(ends) - lo + 1
              /\ \A i \in 1..Len(encoded) : encoded[i].of = order[lo + i - 1]

\* A row holds its own vector; a job whose event is set without an error, and
\* a call that has returned, miss none.
AnswerInv ==
    /\ OwnRows
    /\ \A j \in Job : event[j] /\ error[j] = "none" => Filled(j)
    /\ \A j \in Job : caller[j] = "returned" => Filled(j)

IInv == TypeOK /\ RoundInv /\ PackInv /\ ChunkInv /\ AnswerInv
----------------------------------------------------------------------------
\* How many rows a set of slots has is a number.
LEMMA SlotsOfFacts ==
    ASSUME NEW js
    PROVE  /\ SlotsOf(js) \in SUBSET Slots
           /\ Cardinality(SlotsOf(js)) \in Nat
<1>1. SlotsOf(js) \in SUBSET Slots
  BY DEF SlotsOf
<1>. QED  BY <1>1, SlotsFinite, FS_Subset, FS_CardinalityType

LEMMA FirstBudgetPositive == FirstBudget \in Nat \ {0}
BY LimitAssumption DEF FirstBudget, Max2

LEMMA ShrunkPositive == ASSUME NEW b \in Nat \ {0} PROVE Shrunk(b) \in Nat \ {0}
<1>1. MinTokens \in Nat \ {0}
  BY LimitAssumption
<1>2. (b * 7) \div 10 \in Int
  OBVIOUS
<1>. QED  BY <1>1, <1>2 DEF Shrunk, Max2, Min2

LEMMA InitIInv == Init => IInv
<1>. SUFFICES ASSUME Init PROVE IInv
  OBVIOUS
<1>1. TypeOK
  BY DEF Init, TypeOK
<1>2. RoundInv /\ PackInv /\ ChunkInv
  BY DEF Init, RoundInv, PackInv, ChunkInv
<1>3. AnswerInv
  BY DEF Init, AnswerInv, OwnRows
<1>. QED  BY <1>1, <1>2, <1>3 DEF IInv

\* A step that answers nobody leaves every answer as it was.
LEMMA AnswersStay ==
    ASSUME AnswerInv, UNCHANGED <<caller, jobVars>>
    PROVE  AnswerInv'
<1>1. \A j \in Job : Filled(j)' <=> Filled(j)
  BY DEF Filled, jobVars
<1>. QED  BY <1>1 DEF AnswerInv, OwnRows, jobVars

\* The steps of the threads that call submit: none touches the worker's
\* variables, and a call returns only on its event.
LEMMA CallerIInv ==
    ASSUME IInv, NEW j \in Job, Submit(j) \/ CallerStep(j)
    PROVE  IInv'
<1>. USE DEF IInv
<1>1. UNCHANGED <<worker, roundVars, groupVars, chunkVars, jobVars, budget,
                  batchedRows>>
  BY DEF Submit, CallerStep, Return, WaitTimesOut, CheckAlive
<1>2. caller' \in [Job -> {"idle", "waiting", "timedout", "returned",
                           "raised", "unserved"}]
  <2>1. PICK c \in {"waiting", "timedout", "returned", "raised", "unserved"} :
           caller' = [caller EXCEPT ![j] = c]
    BY DEF Submit, CallerStep, Return, WaitTimesOut, CheckAlive, AfterTimeout
  <2>. QED  BY <2>1 DEF TypeOK
<1>3. queue' \in Seq(Job)
  <2>1. queue' = queue \/ queue' = Append(queue, j)
    BY DEF Submit, CallerStep, Return, WaitTimesOut, CheckAlive
  <2>2. queue \in Seq(Job)
    BY DEF TypeOK
  <2>. QED  BY <2>1, <2>2
<1>4. TypeOK'
  BY <1>1, <1>2, <1>3 DEF TypeOK, roundVars, groupVars, chunkVars, jobVars
<1>5. RoundInv' /\ PackInv' /\ ChunkInv'
  BY <1>1 DEF RoundInv, PackInv, ChunkInv, roundVars, groupVars, chunkVars,
              jobVars, SlotsOf
<1>6. AnswerInv'
  <2>1. \A i \in Job : caller'[i] = "returned" =>
           caller[i] = "returned" \/ (event[i] /\ error[i] = "none")
    BY DEF Submit, CallerStep, Return, WaitTimesOut, CheckAlive, AfterTimeout, TypeOK
  <2>2. \A i \in Job : Filled(i)' <=> Filled(i)
    BY <1>1 DEF Filled, jobVars
  <2>. QED  BY <1>1, <2>1, <2>2 DEF AnswerInv, OwnRows, jobVars
<1>. QED  BY <1>4, <1>5, <1>6

----------------------------------------------------------------------------
\* Start-up, taking jobs from the queue, and the thread's death: no group is
\* in progress before or after, and nobody is answered.
LEMMA CollectIInv ==
    ASSUME IInv,
           \/ StartupSucceeds \/ StartupFails \/ TakeFirst \/ TakeQueued
           \/ StopTaking \/ TakeLate \/ WindowCloses \/ Die
    PROVE  IInv'
<1>. USE DEF IInv
<1>1. /\ UNCHANGED <<caller, groupVars, chunkVars, jobVars, batchedRows>>
      /\ worker' \in {"failed", "idle", "collect", "window", "grouped", "dead"}
  BY DEF StartupSucceeds, StartupFails, TakeFirst, TakeQueued, StopTaking,
         TakeLate, WindowCloses, Die, AfterFirst
<1>2. budget' \in Nat \ {0}
  <2>1. budget' = budget \/ budget' = FirstBudget
    BY DEF StartupSucceeds, StartupFails, TakeFirst, TakeQueued, StopTaking,
           TakeLate, WindowCloses, Die
  <2>. QED  BY <2>1, FirstBudgetPositive DEF TypeOK
<1>3. \/ UNCHANGED <<queue, jobs, left>>
      \/ UNCHANGED queue /\ jobs' = <<>> /\ left' = {}
      \/ Take
  BY DEF StartupSucceeds, StartupFails, TakeFirst, TakeQueued, StopTaking,
         TakeLate, WindowCloses, Die, roundVars
<1>4. /\ queue' \in Seq(Job) /\ jobs' \in Seq(Job) /\ left' \subseteq Job
      /\ RoundInv'
  <2>1. CASE UNCHANGED <<queue, jobs, left>>
    BY <2>1 DEF TypeOK, RoundInv
  <2>2. CASE UNCHANGED queue /\ jobs' = <<>> /\ left' = {}
    BY <2>2 DEF TypeOK, RoundInv
  <2>3. CASE Take
    <3>1. queue \in Seq(Job) /\ queue # <<>> /\ jobs \in Seq(Job) /\ left \subseteq Job
      BY <2>3 DEF TypeOK, Take
    <3>2. Head(queue) \in Job /\ Tail(queue) \in Seq(Job)
      BY <3>1
    <3>3. /\ jobs' = Append(jobs, Head(queue)) /\ left' = left \cup {Head(queue)}
          /\ queue' = Tail(queue)
      BY <2>3 DEF Take
    <3>4. jobs' \in Seq(Job)
      BY <3>1, <3>2, <3>3
    <3>5. \A j \in left' : \E k \in DOMAIN jobs' : jobs'[k] = j
      <4>1. SUFFICES ASSUME NEW j \in left' PROVE \E k \in DOMAIN jobs' : jobs'[k] = j
        OBVIOUS
      <4>2. CASE j \in left
        <5>1. PICK k \in DOMAIN jobs : jobs[k] = j
          BY <4>2 DEF RoundInv
        <5>. QED  BY <3>1, <3>2, <3>3, <5>1
      <4>3. CASE j = Head(queue)
        <5>1. /\ Len(jobs) + 1 \in DOMAIN jobs'
              /\ jobs'[Len(jobs) + 1] = Head(queue)
          BY <3>1, <3>2, <3>3
        <5>. QED  BY <4>3, <5>1
      <4>. QED  BY <3>3, <4>2, <4>3
    <3>. QED  BY <3>1, <3>2, <3>3, <3>4, <3>5 DEF RoundInv
  <2>. QED  BY <1>3, <2>1, <2>2, <2>3
<1>5. TypeOK'
  BY <1>1, <1>2, <1>4 DEF TypeOK, groupVars, chunkVars, jobVars
<1>6. PackInv' /\ ChunkInv'
  BY <1>1 DEF PackInv, ChunkInv
<1>7. AnswerInv'
  BY <1>1, AnswersStay
<1>. QED  BY <1>4, <1>5, <1>6, <1>7

----------------------------------------------------------------------------
\* A group's rows are laid out whole, and none is behind lo yet.
LEMMA StartGroupIInv ==
    ASSUME IInv, NEW j \in left, StartGroup(j)
    PROVE  IInv'
<1>. USE DEF IInv
<1>. DEFINE S == SlotsOf(Mates(j))
<1>1. S \in SUBSET Slots /\ Mates(j) \subseteq left
  BY SlotsOfFacts DEF Mates
<1>2. \A s \in S : \E k \in DOMAIN jobs : jobs[k] = s[1]
  BY <1>1 DEF RoundInv, SlotsOf
<1>3. /\ Arranged(S) \in Seq(S) /\ Len(Arranged(S)) = Cardinality(S)
      /\ Cardinality(S) \in Nat
      /\ \A s \in S : \E p \in 1..Cardinality(S) : Arranged(S)[p] = s
  BY <1>1, <1>2, ArrangedListsAll DEF TypeOK
<1>4. Arranged(S) \in Seq(Slots)
  BY <1>1, <1>3
<1>. HIDE DEF S
<1>5. /\ group' = Mates(j) /\ left' = left \ Mates(j) /\ order' = Arranged(S)
      /\ packed' = budget /\ lo' = 1 /\ encoded' = <<>> /\ worker' = "process"
      /\ ends' = IF Merge THEN <<>> ELSE <<Cardinality(S)>>
      /\ UNCHANGED <<caller, queue, jobs, jobVars, budget, batchedRows>>
  BY DEF StartGroup, S
<1>6. ends' \in Seq(Nat) /\ (ends' = <<>> \/ ends' = <<Cardinality(S)>>)
  BY <1>3, <1>5
<1>7. TypeOK'
  BY <1>1, <1>4, <1>5, <1>6 DEF TypeOK, jobVars
<1>8. RoundInv'
  BY <1>5 DEF RoundInv
<1>9. PackInv'
  <2>1. SlotsOf(group)' = S
    BY <1>5 DEF SlotsOf, S
  <2>. QED  BY <1>3, <1>4, <1>5, <2>1 DEF PackInv
<1>10. ChunkInv'
  BY <1>3, <1>5, <1>6 DEF ChunkInv
<1>11. AnswerInv'
  BY <1>5, AnswersStay
<1>. QED  BY <1>7, <1>8, <1>9, <1>10, <1>11

----------------------------------------------------------------------------
\* Failing jobs leaves an error on each of them, takes none back, and leaves
\* the others as they are.
LEMMA FailFacts ==
    ASSUME TypeOK, NEW js, NEW exc \in {"oom", "error"}, Fail(js, exc)
    PROVE  /\ error' \in [Job -> {"none", "oom", "error"}]
           /\ event' \in [Job -> BOOLEAN]
           /\ \A j \in Job : j \in js => error'[j] # "none"
           /\ \A j \in Job : error[j] # "none" => error'[j] # "none"
           /\ \A j \in Job : event'[j] /\ error'[j] = "none" => event[j] /\ error[j] = "none"
<1>1. \A j \in Job : ErrorAfter(j, exc) \in {"oom", "error"}
  BY DEF ErrorAfter, TypeOK
<1>. QED  BY <1>1 DEF Fail, ErrorAfter, TypeOK

\* Between two rounds or groups the worker's lists have their types.
LEMMA NextRoundFacts ==
    ASSUME TypeOK, NEW rest \in SUBSET Job, RoundInv,
           rest \subseteq left, NextGroupOrRound(rest)
    PROVE  /\ jobs' \in Seq(Job)
           /\ worker' \in {"grouped", "idle"}
           /\ \A j \in rest : \E k \in DOMAIN jobs' : jobs'[k] = j
BY DEF TypeOK, RoundInv, NextGroupOrRound, RoundGoesOn

\* The group fails as a whole: all its callers are told.
LEMMA GroupFailsIInv ==
    ASSUME IInv, NEW j \in left, GroupFails(j)
    PROVE  IInv'
<1>. USE DEF IInv
<1>1. /\ left' = left \ Mates(j)
      /\ Fail(Mates(j), "error") /\ NextGroupOrRound(left \ Mates(j))
      /\ UNCHANGED <<caller, queue, groupVars, chunkVars, results, budget,
                     batchedRows>>
  BY DEF GroupFails
<1>2. /\ error' \in [Job -> {"none", "oom", "error"}]
      /\ event' \in [Job -> BOOLEAN]
      /\ \A i \in Job : event'[i] /\ error'[i] = "none" => event[i] /\ error[i] = "none"
  BY <1>1, FailFacts
<1>3. /\ left' \subseteq Job
      /\ jobs' \in Seq(Job) /\ worker' \in {"grouped", "idle"} /\ RoundInv'
  <2>1. left \ Mates(j) \in SUBSET Job
    BY DEF TypeOK
  <2>. QED  BY <1>1, <2>1, NextRoundFacts DEF RoundInv
<1>4. TypeOK'
  BY <1>1, <1>2, <1>3 DEF TypeOK, groupVars, chunkVars
<1>5. PackInv' /\ ChunkInv'
  BY <1>3 DEF PackInv, ChunkInv
<1>6. AnswerInv'
  <2>1. \A i \in Job : Filled(i)' <=> Filled(i)
    BY <1>1 DEF Filled
  <2>. QED  BY <1>1, <1>2, <2>1 DEF AnswerInv, OwnRows
<1>. QED  BY <1>3, <1>4, <1>5, <1>6

\* The next chunk starts at the first row no chunk covered.
LEMMA NextChunkIInv ==
    ASSUME IInv, NEW e \in lo..Len(order), NextChunk(e)
    PROVE  IInv'
<1>. USE DEF IInv
<1>1. /\ worker = "process" /\ ends = <<>> /\ ends' = <<e>>
      /\ UNCHANGED <<caller, queue, worker, roundVars, groupVars, lo, encoded,
                     jobVars, budget, batchedRows>>
  BY DEF NextChunk
<1>2. lo \in Nat \ {0} /\ order \in Seq(Slots) /\ e \in Nat /\ e >= lo /\ e <= Len(order)
  BY DEF TypeOK
<1>3. TypeOK'
  <2>1. ends' \in Seq(Nat)
    BY <1>1, <1>2
  <2>. QED  BY <1>1, <2>1 DEF TypeOK, roundVars, groupVars, jobVars
<1>4. RoundInv' /\ PackInv'
  BY <1>1 DEF RoundInv, PackInv, SlotsOf, roundVars, groupVars, jobVars
<1>5. ChunkInv'
  <2>1. encoded' = <<>> /\ lo' = lo /\ order' = order
    BY <1>1 DEF ChunkInv, groupVars
  <2>2. Len(encoded') = 0 /\ Head(ends') = e /\ Len(ends') = 1 /\ ends'[1] = e
    BY <1>1, <2>1
  <2>. QED  BY <1>1, <1>2, <2>1, <2>2 DEF ChunkInv
<1>6. AnswerInv'
  BY <1>1, AnswersStay
<1>. QED  BY <1>3, <1>4, <1>5, <1>6

----------------------------------------------------------------------------
\* The forward about to run covers rows Pos .. Head(ends), and appending what
\* it computes leaves the vectors of the chunk's first rows, in order.
LEMMA ForwardFacts ==
    ASSUME TypeOK, ChunkInv, InForward
    PROVE  /\ order \in Seq(Slots) /\ lo \in Nat \ {0} /\ ends \in Seq(Nat)
           /\ ends # <<>> /\ Len(ends) \in Nat \ {0} /\ Head(ends) = ends[1]
           /\ Head(ends) \in Nat /\ Head(ends) <= Len(order)
           /\ ends[Len(ends)] \in Nat /\ ends[Len(ends)] <= Len(order)
           /\ Len(encoded) \in Nat /\ Pos = lo + Len(encoded)
           /\ Count \in Nat /\ Pos + Count = Head(ends) + 1
           /\ Computed \in Seq(Vector) /\ Len(Computed) = Count
           /\ Joined(encoded, Computed) \in Seq(Vector)
           /\ Len(Joined(encoded, Computed)) = Head(ends) - lo + 1
           /\ \A i \in 1..Len(Joined(encoded, Computed)) :
                 Joined(encoded, Computed)[i].of = order[lo + i - 1]
<1>1. /\ order \in Seq(Slots) /\ lo \in Nat \ {0} /\ ends \in Seq(Nat)
      /\ encoded \in Seq(Vector) /\ ends # <<>> /\ worker = "process"
  BY DEF TypeOK, InForward
<1>2. /\ Len(ends) \in Nat \ {0} /\ Head(ends) = ends[1] /\ Head(ends) \in Nat
      /\ 1 \in 1..Len(ends) /\ Len(ends) \in 1..Len(ends)
      /\ ends[Len(ends)] \in Nat /\ Len(encoded) \in Nat /\ Len(order) \in Nat
  BY <1>1
<1>3. /\ Head(ends) <= Len(order) /\ ends[Len(ends)] <= Len(order)
      /\ Len(encoded) <= Head(ends) - lo + 1
      /\ \A i \in 1..Len(encoded) : encoded[i].of = order[lo + i - 1]
  BY <1>1, <1>2 DEF ChunkInv
<1>4. Pos = lo + Len(encoded) /\ Count = Head(ends) - Pos + 1
  BY DEF Pos, Count
<1>. DEFINE h == Head(ends)
            m == Len(encoded)
<1>5. Pos \in Nat \ {0} /\ Count \in Nat /\ Pos + Count = Head(ends) + 1
  <2>1. lo \in Nat /\ lo >= 1 /\ m \in Nat /\ h \in Nat /\ m <= h - lo + 1
    BY <1>1, <1>2, <1>3
  <2>2. Pos = lo + m /\ Count = h - Pos + 1
    BY <1>4
  <2>. HIDE DEF h, m
  <2>3. Pos \in Nat /\ Pos >= 1 /\ Pos <= h + 1
    BY <2>1, <2>2
  <2>4. Count \in Nat /\ Pos + Count = h + 1
    BY <2>1, <2>2, <2>3
  <2>. QED  BY <2>3, <2>4 DEF h
<1>6. /\ Computed \in Seq(Vector) /\ Len(Computed) = Count
      /\ \A i \in 1..Count : Computed[i].of = order[Pos + i - 1]
  <2>. DEFINE P == \A p \in ForwardRows : order[p] \in Text
  <2>1. Computed = [i \in 1..Count |-> [of |-> order[Pos + i - 1], prompted |-> P]]
    BY DEF Computed
  <2>2. P \in BOOLEAN
    OBVIOUS
  <2>. HIDE DEF P
  <2>3. \A i \in 1..Count : order[Pos + i - 1] \in Slots
    <3>1. \A i \in 1..Count : Pos + i - 1 \in 1..Len(order)
      BY <1>2, <1>3, <1>5
    <3>. QED  BY <1>1, <3>1
  <2>4. Computed \in [1..Count -> Vector]
    BY <2>1, <2>2, <2>3 DEF Vector
  <2>5. Computed \in Seq(Vector)
    BY <1>5, <2>4, SeqDef
  <2>6. Len(Computed) = Count
    BY <1>5, <2>4
  <2>7. \A i \in 1..Count : Computed[i].of = order[Pos + i - 1]
    BY <2>1
  <2>. QED  BY <2>5, <2>6, <2>7
<1>. DEFINE J == Joined(encoded, Computed)
<1>7. J \in Seq(Vector) /\ Len(J) = Len(encoded) + Count
  <2>1. J = encoded \o Computed
    BY DEF Joined
  <2>2. /\ encoded \o Computed \in Seq(Vector)
        /\ Len(encoded \o Computed) = Len(encoded) + Len(Computed)
    BY <1>1, <1>6, ConcatProperties
  <2>. QED  BY <1>6, <2>1, <2>2
<1>8. \A i \in 1..Len(J) : J[i].of = order[lo + i - 1]
  <2>1. SUFFICES ASSUME NEW i \in 1..Len(J) PROVE J[i].of = order[lo + i - 1]
    OBVIOUS
  <2>2. CASE i <= Len(encoded)
    <3>1. i \in 1..Len(encoded)
      BY <1>2, <1>5, <1>7, <2>2
    <3>2. J[i] = encoded[i]
      BY <1>1, <1>6, <3>1 DEF Joined
    <3>. QED  BY <1>3, <3>1, <3>2
  <2>3. CASE i > Len(encoded)
    <3>1. i - Len(encoded) \in 1..Count
      BY <1>2, <1>5, <1>7, <2>3
    <3>2. J[i] = Computed[i - Len(encoded)]
      BY <1>1, <1>2, <1>5, <1>6, <1>7, <2>3 DEF Joined
    <3>3. Pos + (i - Len(encoded)) - 1 = lo + i - 1
      BY <1>1, <1>2, <1>4, <3>1
    <3>. QED  BY <1>6, <3>1, <3>2, <3>3
  <2>. QED  BY <1>2, <1>5, <1>7, <2>2, <2>3
<1>9. Len(J) = Head(ends) - lo + 1
  <2>1. lo \in Nat /\ m \in Nat /\ h \in Nat /\ Count \in Nat
    BY <1>1, <1>2, <1>5
  <2>2. Pos = lo + m /\ Pos + Count = h + 1 /\ Len(J) = m + Count
    BY <1>4, <1>5, <1>7
  <2>. HIDE DEF h, m, J
  <2>. QED  BY <2>1, <2>2 DEF h
<1>. HIDE DEF J
<1>. QED  BY <1>1, <1>2, <1>3, <1>4, <1>5, <1>6, <1>7, <1>8, <1>9 DEF J

\* A piece of a split chunk came back: the next piece starts where it ends.
LEMMA ForwardPieceIInv ==
    ASSUME IInv, ForwardPiece
    PROVE  IInv'
<1>. USE DEF IInv
<1>. DEFINE J == Joined(encoded, Computed)
            h == Head(ends)
<1>1. /\ InForward /\ Len(ends) > 1
      /\ encoded' = J /\ ends' = Tail(ends) /\ batchedRows' = batchedRows + Count
      /\ UNCHANGED <<caller, queue, worker, roundVars, groupVars, lo, jobVars,
                     budget>>
  BY DEF ForwardPiece
<1>2. /\ ends \in Seq(Nat) /\ Count \in Nat /\ h \in Nat /\ h = ends[1]
      /\ J \in Seq(Vector) /\ Len(J) = h - lo + 1 /\ lo \in Nat
      /\ \A i \in 1..Len(J) : J[i].of = order[lo + i - 1]
  BY <1>1, ForwardFacts
<1>. HIDE DEF J, h
<1>3. /\ ends' \in Seq(Nat) /\ Len(ends) \in Nat /\ Len(ends') = Len(ends) - 1
      /\ ends' # <<>> /\ \A k \in 1..Len(ends') : ends'[k] = ends[k + 1]
      /\ Head(ends') = ends[2]
  <2>a. ends \in Seq(Nat) /\ Len(ends) > 1
    BY <1>1, <1>2
  <2>1. Len(ends) \in Nat /\ Len(ends) >= 2 /\ ends # <<>>
    BY <2>a
  <2>2. /\ Tail(ends) \in Seq(Nat) /\ Len(Tail(ends)) = Len(ends) - 1
        /\ \A k \in 1..Len(Tail(ends)) : Tail(ends)[k] = ends[k + 1]
    BY <2>a, <2>1, HeadTailProperties
  <2>3. Tail(ends) # <<>> /\ Head(Tail(ends)) = ends[2]
    <3>. DEFINE rest == Tail(ends)
    <3>1. rest \in Seq(Nat) /\ Len(rest) >= 1
      BY <2>1, <2>2
    <3>2. rest[1] = ends[2]
      BY <2>2, <3>1
    <3>. HIDE DEF rest
    <3>3. rest # <<>> /\ Head(rest) = rest[1]
      BY <3>1
    <3>. QED  BY <3>2, <3>3 DEF rest
  <2>. QED  BY <1>1, <2>1, <2>2, <2>3
<1>3a. TypeOK'
  <2>1. batchedRows' \in Nat
    BY <1>1, <1>2 DEF TypeOK
  <2>. QED  BY <1>1, <1>2, <1>3, <2>1 DEF TypeOK, roundVars, groupVars, jobVars
<1>4. RoundInv' /\ PackInv'
  BY <1>1 DEF RoundInv, PackInv, SlotsOf, roundVars, groupVars, jobVars
<1>5. ChunkInv'
  <2>1. /\ \A k \in 1..Len(ends) : ends[k] <= Len(order)
        /\ \A k, m \in 1..Len(ends) : k <= m => ends[k] <= ends[m]
    BY <1>1 DEF ChunkInv, InForward
  <2>2. \A k \in 1..Len(ends) : ends[k] \in Nat
    <3>1. ends \in Seq(Nat)
      BY <1>2
    <3>. QED  BY <3>1
  <2>3. \A k \in 1..Len(ends') : ends'[k] <= Len(order')
    <3>1. \A k \in 1..Len(ends') : k + 1 \in 1..Len(ends)
      BY <1>3
    <3>. QED  BY <1>1, <1>3, <2>1, <3>1 DEF groupVars
  <2>4. \A k, m \in 1..Len(ends') : k <= m => ends'[k] <= ends'[m]
    <3>1. SUFFICES ASSUME NEW k \in 1..Len(ends'), NEW m \in 1..Len(ends'), k <= m
                   PROVE  ends'[k] <= ends'[m]
      OBVIOUS
    <3>2. k + 1 \in 1..Len(ends) /\ m + 1 \in 1..Len(ends) /\ k + 1 <= m + 1
      BY <1>3, <3>1
    <3>3. ends'[k] = ends[k + 1] /\ ends'[m] = ends[m + 1]
      BY <1>3
    <3>. QED  BY <2>1, <3>2, <3>3
  <2>5. Len(encoded') <= Head(ends') - lo' + 1
    <3>1. 1 \in 1..Len(ends) /\ 2 \in 1..Len(ends)
      BY <1>1, <1>3
    <3>2. ends[1] <= ends[2] /\ ends[2] \in Nat
      BY <2>1, <2>2, <3>1
    <3>3. Len(J) <= ends[2] - lo + 1
      BY <1>2, <3>2
    <3>. QED  BY <1>1, <1>3, <3>3
  <2>6. \A i \in 1..Len(encoded') : encoded'[i].of = order'[lo' + i - 1]
    BY <1>1, <1>2 DEF groupVars
  <2>. QED  BY <1>3, <2>3, <2>4, <2>5, <2>6 DEF ChunkInv
<1>6. AnswerInv'
  BY <1>1, AnswersStay
<1>. QED  BY <1>3a, <1>4, <1>5, <1>6

\* A chunk came back whole: each of its rows is scattered to the slot it was
\* flattened from, and no other result changes.
LEMMA ForwardChunkIInv ==
    ASSUME IInv, ForwardChunk
    PROVE  IInv'
<1>. USE DEF IInv
<1>. DEFINE J == Joined(encoded, Computed)
            h == Head(ends)
<1>1. /\ InForward /\ Len(ends) = 1
      /\ results' = Scattered(J) /\ batchedRows' = batchedRows + Count
      /\ lo' = h + 1 /\ ends' = <<>> /\ encoded' = <<>>
      /\ UNCHANGED <<caller, queue, worker, roundVars, groupVars, error, event,
                     budget>>
  BY DEF ForwardChunk
<1>2. /\ order \in Seq(Slots) /\ lo \in Nat \ {0}
      /\ Count \in Nat /\ h \in Nat /\ h <= Len(order) /\ h = ends[Len(ends)]
      /\ J \in Seq(Vector) /\ Len(J) = h - lo + 1
      /\ \A i \in 1..Len(J) : J[i].of = order[lo + i - 1]
  BY <1>1, ForwardFacts
<1>. HIDE DEF J, h
<1>3. ChunkRows = lo..h
  BY <1>2 DEF ChunkRows
<1>4. \A s \in Slots :
         /\ (\E p \in lo..h : order[p] = s) =>
               results'[s] \in Vector /\ results'[s].of = s
         /\ ~(\E p \in lo..h : order[p] = s) => results'[s] = results[s]
  <2>1. SUFFICES ASSUME NEW s \in Slots
                 PROVE  /\ (\E p \in lo..h : order[p] = s) =>
                              results'[s] \in Vector /\ results'[s].of = s
                        /\ ~(\E p \in lo..h : order[p] = s) => results'[s] = results[s]
    OBVIOUS
  <2>2. results'[s] = IF \E p \in lo..h : order[p] = s
                      THEN J[(CHOOSE p \in lo..h : order[p] = s) - lo + 1]
                      ELSE results[s]
    BY <1>1, <1>3 DEF Scattered
  <2>3. ASSUME \E p \in lo..h : order[p] = s
        PROVE  results'[s] \in Vector /\ results'[s].of = s
    <3>1. PICK q \in lo..h : q = (CHOOSE p \in lo..h : order[p] = s) /\ order[q] = s
      BY <2>3
    <3>2. q - lo + 1 \in 1..Len(J) /\ lo + (q - lo + 1) - 1 = q
      BY <1>2
    <3>3. results'[s] = J[q - lo + 1]
      BY <2>2, <2>3, <3>1
    <3>4. J[q - lo + 1] \in Vector
      BY <1>2, <3>2
    <3>5. J[q - lo + 1].of = order[q]
      BY <1>2, <3>2
    <3>. QED  BY <3>1, <3>3, <3>4, <3>5
  <2>. QED  BY <2>2, <2>3
<1>5. /\ results' \in [Slots -> Vector \cup {None}]
      /\ \A s \in Slots : results[s] # None => results'[s] # None
  <2>1. results' = [s \in Slots |-> results'[s]]
    BY <1>1 DEF Scattered
  <2>2. \A s \in Slots : results'[s] \in Vector \/ results'[s] = results[s]
    BY <1>4
  <2>3. results \in [Slots -> Vector \cup {None}]
    BY DEF TypeOK
  <2>4. \A s \in Slots : results'[s] \in Vector \cup {None}
    BY <2>2, <2>3
  <2>. QED  BY <2>1, <2>2, <2>4, NoneAssumption
<1>6. TypeOK'
  BY <1>1, <1>2, <1>5 DEF TypeOK, roundVars, groupVars
<1>7. RoundInv' /\ ChunkInv'
  BY <1>1 DEF RoundInv, ChunkInv, roundVars
<1>8. PackInv'
  <2>1. worker = "process"
    BY <1>1 DEF InForward
  <2>2. /\ lo' <= Len(order') + 1
        /\ \A s \in SlotsOf(group') : \E p \in 1..Len(order') : order'[p] = s
    BY <1>1, <1>2, <2>1 DEF PackInv, groupVars, SlotsOf
  <2>3. ASSUME NEW p \in 1..Len(order), p < lo'
        PROVE  error[order[p][1]] # "none" \/ results'[order[p]] # None
    <3>1. order[p] \in Slots
      BY <1>2
    <3>2. CASE p < lo
      BY <1>5, <2>1, <3>1, <3>2 DEF PackInv
    <3>3. CASE ~(p < lo)
      <4>1. p \in lo..h
        BY <1>1, <1>2, <2>3, <3>3
      <4>. QED  BY <1>4, <3>1, <4>1, NoneAssumption
    <3>. QED  BY <3>2, <3>3
  <2>. QED  BY <1>1, <2>2, <2>3 DEF PackInv, groupVars, SlotsOf
<1>9. AnswerInv'
  <2>1. OwnRows'
    BY <1>4 DEF AnswerInv, OwnRows
  <2>2. \A j \in Job : Filled(j) => Filled(j)'
    BY <1>5 DEF Filled, SlotsOf
  <2>. QED  BY <1>1, <2>1, <2>2 DEF AnswerInv
<1>. QED  BY <1>6, <1>7, <1>8, <1>9

\* Out of memory: the forward is halved, the budget shrinks, no row is lost.
LEMMA SplitIInv ==
    ASSUME IInv, OutOfMemorySplits
    PROVE  IInv'
<1>. USE DEF IInv
<1>. DEFINE mid == Pos + (Count \div 2) - 1
            h == Head(ends)
            m == Len(encoded)
<1>1. /\ InForward
      /\ budget' = Shrunk(budget) /\ ends' = <<mid>> \o ends
      /\ batchedRows' = batchedRows + 0
      /\ UNCHANGED <<caller, queue, worker, roundVars, groupVars, lo, encoded,
                     jobVars>>
  BY DEF OutOfMemorySplits, CountedOnSplit
<1>2. /\ ends \in Seq(Nat) /\ ends # <<>> /\ h = ends[1] /\ lo \in Nat /\ lo >= 1
      /\ Count \in Nat /\ h \in Nat /\ h <= Len(order) /\ m \in Nat
      /\ Len(order) \in Nat
      /\ Pos = lo + m /\ Pos + Count = h + 1 /\ Len(ends) \in Nat /\ Len(ends) >= 1
  <2>1. /\ ends \in Seq(Nat) /\ ends # <<>> /\ h = ends[1] /\ lo \in Nat \ {0}
        /\ Count \in Nat /\ h \in Nat /\ h <= Len(order) /\ m \in Nat
        /\ Pos = lo + m /\ Pos + Count = h + 1 /\ Len(ends) \in Nat \ {0}
        /\ order \in Seq(Slots)
    BY <1>1, ForwardFacts
  <2>. HIDE DEF h, m
  <2>2. Len(order) \in Nat
    BY <2>1
  <2>. QED  BY <2>1, <2>2
<1>3. mid \in Nat /\ mid <= h /\ m <= mid - lo + 1 /\ mid <= Len(order)
  <2>1. Count \div 2 \in Nat /\ Count \div 2 <= Count
    BY <1>2
  <2>. HIDE DEF h, m
  <2>. DEFINE half == Count \div 2
  <2>2. half \in Nat /\ half <= Count /\ mid = Pos + half - 1
    BY <2>1
  <2>. HIDE DEF half, mid
  <2>. QED  BY <1>2, <2>2
<1>. HIDE DEF mid
<1>4. /\ ends' \in Seq(Nat) /\ Len(ends') = Len(ends) + 1 /\ Head(ends') = mid
      /\ ends' # <<>> /\ ends'[1] = mid
      /\ \A k \in 2..Len(ends) + 1 : ends'[k] = ends[k - 1]
  <2>1. <<mid>> \in Seq(Nat) /\ Len(<<mid>>) = 1 /\ <<mid>>[1] = mid
    BY <1>3
  <2>. HIDE DEF h, m
  <2>. QED  BY <1>1, <1>2, <2>1
<1>5. budget' \in Nat \ {0} /\ batchedRows' \in Nat
  BY <1>1, ShrunkPositive DEF TypeOK
<1>6. TypeOK'
  BY <1>1, <1>4, <1>5 DEF TypeOK, roundVars, groupVars, jobVars
<1>7. RoundInv' /\ PackInv'
  BY <1>1 DEF RoundInv, PackInv, SlotsOf, roundVars, groupVars, jobVars
<1>8. ChunkInv'
  <2>1. /\ \A k \in 1..Len(ends) : ends[k] <= Len(order)
        /\ \A k, n \in 1..Len(ends) : k <= n => ends[k] <= ends[n]
        /\ \A i \in 1..Len(encoded) : encoded[i].of = order[lo + i - 1]
    BY <1>1, <1>2 DEF ChunkInv, InForward
  <2>2. UNCHANGED <<order, lo, encoded>>
    BY <1>1 DEF groupVars
  <2>3. ASSUME NEW k \in 1..Len(ends') PROVE ends'[k] <= Len(order)
    <3>1. CASE k = 1
      BY <1>3, <1>4, <3>1
    <3>2. CASE k # 1
      <4>1. k \in 2..Len(ends) + 1 /\ k - 1 \in 1..Len(ends)
        BY <1>2, <1>4, <3>2
      <4>. QED  BY <1>4, <2>1, <4>1
    <3>. QED  BY <3>1, <3>2
  <2>4. ASSUME NEW k \in 1..Len(ends'), NEW i \in 1..Len(ends'), k <= i
        PROVE  ends'[k] <= ends'[i]
    <3>1. 1 \in 1..Len(ends) /\ \A n \in 1..Len(ends) : ends[n] \in Nat /\ mid <= ends[n]
      <4>1. 1 \in 1..Len(ends) /\ \A n \in 1..Len(ends) : ends[n] \in Nat
        BY <1>2
      <4>2. \A n \in 1..Len(ends) : ends[1] <= ends[n]
        BY <2>1, <4>1
      <4>. HIDE DEF h
      <4>3. mid \in Nat /\ h \in Nat /\ mid <= h /\ h = ends[1]
        BY <1>2, <1>3
      <4>. QED  BY <4>1, <4>2, <4>3
    <3>2. CASE i = 1
      <4>1. k = 1
        BY <2>4, <3>2
      <4>. QED  BY <1>3, <1>4, <3>2, <4>1
    <3>3. CASE i # 1 /\ k = 1
      <4>1. i \in 2..Len(ends) + 1 /\ i - 1 \in 1..Len(ends)
        BY <1>2, <1>4, <3>3
      <4>. QED  BY <1>4, <3>1, <3>3, <4>1
    <3>4. CASE i # 1 /\ k # 1
      <4>1. /\ i \in 2..Len(ends) + 1 /\ i - 1 \in 1..Len(ends)
            /\ k \in 2..Len(ends) + 1 /\ k - 1 \in 1..Len(ends)
            /\ k - 1 <= i - 1
        BY <1>2, <1>4, <2>4, <3>4
      <4>. QED  BY <1>4, <2>1, <4>1
    <3>. QED  BY <3>2, <3>3, <3>4
  <2>5. Len(encoded') <= Head(ends') - lo' + 1
    BY <1>3, <1>4, <2>2
  <2>6. \A i \in 1..Len(encoded') : encoded'[i].of = order'[lo' + i - 1]
    BY <2>1, <2>2
  <2>. QED  BY <1>4, <2>2, <2>3, <2>4, <2>5, <2>6 DEF ChunkInv
<1>9. AnswerInv'
  BY <1>1, AnswersStay
<1>. QED  BY <1>6, <1>7, <1>8, <1>9

\* A chunk raised: every job with a row in it has an error, so no caller is
\* answered from a half-filled list.
LEMMA ChunkFailsIInv ==
    ASSUME IInv, OutOfMemoryRaises \/ ForwardRaises
    PROVE  IInv'
<1>. USE DEF IInv
<1>. DEFINE js == {order[p][1] : p \in ChunkRows}
            last == ends[Len(ends)]
<1>1. PICK exc \in {"oom", "error"} : Fail(js, exc)
  BY DEF OutOfMemoryRaises, ForwardRaises, ChunkFails
<1>2. /\ InForward
      /\ lo' = last + 1 /\ ends' = <<>> /\ encoded' = <<>>
      /\ UNCHANGED <<caller, queue, worker, roundVars, groupVars, results,
                     budget, batchedRows>>
  BY DEF OutOfMemoryRaises, ForwardRaises, ChunkFails
<1>3. /\ order \in Seq(Slots) /\ last \in Nat /\ last <= Len(order)
      /\ lo \in Nat \ {0} /\ ChunkRows = lo..last
  BY <1>2, ForwardFacts DEF ChunkRows
<1>. HIDE DEF last
<1>4. /\ error' \in [Job -> {"none", "oom", "error"}]
      /\ event' \in [Job -> BOOLEAN]
      /\ \A j \in Job : j \in js => error'[j] # "none"
      /\ \A j \in Job : error[j] # "none" => error'[j] # "none"
      /\ \A j \in Job : event'[j] /\ error'[j] = "none" => event[j] /\ error[j] = "none"
  BY <1>1, FailFacts
<1>5. TypeOK'
  BY <1>2, <1>3, <1>4 DEF TypeOK, roundVars, groupVars
<1>6. RoundInv' /\ ChunkInv'
  BY <1>2 DEF RoundInv, ChunkInv, roundVars
<1>7. PackInv'
  <2>1. worker = "process"
    BY <1>2 DEF InForward
  <2>2. /\ lo' <= Len(order') + 1
        /\ \A s \in SlotsOf(group') : \E p \in 1..Len(order') : order'[p] = s
    BY <1>2, <1>3, <2>1 DEF PackInv, groupVars, SlotsOf
  <2>3. ASSUME NEW p \in 1..Len(order), p < lo'
        PROVE  error'[order[p][1]] # "none" \/ results[order[p]] # None
    <3>1. order[p] \in Slots /\ order[p][1] \in Job
      BY <1>3, SlotIsPair
    <3>2. CASE p < lo
      BY <1>4, <2>1, <3>1, <3>2 DEF PackInv
    <3>3. CASE ~(p < lo)
      <4>1. p \in ChunkRows
        BY <1>2, <1>3, <2>3, <3>3
      <4>. QED  BY <1>4, <3>1, <4>1
    <3>. QED  BY <3>2, <3>3
  <2>. QED  BY <1>2, <2>2, <2>3 DEF PackInv, groupVars, SlotsOf
<1>8. AnswerInv'
  <2>1. \A j \in Job : Filled(j)' <=> Filled(j)
    BY <1>2 DEF Filled
  <2>. QED  BY <1>2, <1>4, <2>1 DEF AnswerInv, OwnRows
<1>. QED  BY <1>5, <1>6, <1>7, <1>8

\* Every chunk has been tried: a caller is woken without an error only if all
\* its rows came back, because lo has passed each of them.
LEMMA FinishGroupIInv ==
    ASSUME IInv, FinishGroup
    PROVE  IInv'
<1>. USE DEF IInv
<1>1. /\ worker = "process" /\ lo > Len(order)
      /\ event' = [j \in Job |-> event[j] \/ (j \in group /\ error[j] = "none")]
      /\ group' = {} /\ order' = <<>>
      /\ NextGroupOrRound(left)
      /\ UNCHANGED <<caller, queue, left, packed, chunkVars, results, error,
                     budget, batchedRows>>
  BY DEF FinishGroup
<1>2. jobs' \in Seq(Job) /\ worker' \in {"grouped", "idle"} /\ RoundInv'
  <2>1. left \in SUBSET Job
    BY DEF TypeOK
  <2>. QED  BY <1>1, <2>1, NextRoundFacts DEF RoundInv
<1>3. event' \in [Job -> BOOLEAN]
  BY <1>1 DEF TypeOK
<1>4. TypeOK'
  BY <1>1, <1>2, <1>3 DEF TypeOK, chunkVars
<1>5. PackInv' /\ ChunkInv'
  BY <1>2 DEF PackInv, ChunkInv
<1>6. ASSUME NEW j \in Job, j \in group, error[j] = "none"
      PROVE  Filled(j)
  <2>1. SUFFICES ASSUME NEW s \in SlotsOf({j}) PROVE results[s] # None
    BY DEF Filled
  <2>2. s \in SlotsOf(group) /\ s[1] = j
    BY <1>6 DEF SlotsOf
  <2>3. PICK p \in 1..Len(order) : order[p] = s
    BY <1>1, <2>2 DEF PackInv
  <2>4. p < lo
    <3>1. order \in Seq(Slots) /\ lo \in Nat
      BY DEF TypeOK
    <3>. QED  BY <1>1, <3>1
  <2>. QED  BY <1>1, <1>6, <2>2, <2>3, <2>4 DEF PackInv
<1>7. AnswerInv'
  <2>1. \A j \in Job : Filled(j)' <=> Filled(j)
    BY <1>1 DEF Filled
  <2>2. \A j \in Job : event'[j] /\ error'[j] = "none" => Filled(j)
    BY <1>1, <1>6 DEF AnswerInv
  <2>. QED  BY <1>1, <2>1, <2>2 DEF AnswerInv, OwnRows
<1>. QED  BY <1>2, <1>4, <1>5, <1>7

----------------------------------------------------------------------------
\* No step of any thread, and no stuttering step, breaks the invariant.
LEMMA NextIInv == IInv /\ [Next]_vars => IInv'
<1>. SUFFICES ASSUME IInv, [Next]_vars PROVE IInv'
  OBVIOUS
<1>1. CASE \E j \in Job : Submit(j) \/ CallerStep(j)
  BY <1>1, CallerIInv
<1>2. CASE \/ StartupSucceeds \/ StartupFails \/ TakeFirst \/ TakeQueued
           \/ StopTaking \/ TakeLate \/ WindowCloses \/ Die
  BY <1>2, CollectIInv
<1>3. CASE \E j \in left : StartGroup(j)
  BY <1>3, StartGroupIInv
<1>4. CASE \E j \in left : GroupFails(j)
  BY <1>4, GroupFailsIInv
<1>5. CASE \E e \in lo..Len(order) : NextChunk(e)
  BY <1>5, NextChunkIInv
<1>6. CASE ForwardPiece
  BY <1>6, ForwardPieceIInv
<1>7. CASE ForwardChunk
  BY <1>7, ForwardChunkIInv
<1>8. CASE OutOfMemorySplits
  BY <1>8, SplitIInv
<1>9. CASE OutOfMemoryRaises \/ ForwardRaises
  BY <1>9, ChunkFailsIInv
<1>10. CASE FinishGroup
  BY <1>10, FinishGroupIInv
<1>11. CASE UNCHANGED vars
  <2>. USE <1>11 DEF vars, IInv
  <2>1. TypeOK'
    BY DEF TypeOK
  <2>2. RoundInv' /\ PackInv' /\ ChunkInv'
    BY DEF RoundInv, PackInv, ChunkInv, SlotsOf
  <2>3. AnswerInv'
    BY AnswersStay DEF jobVars
  <2>. QED  BY <2>1, <2>2, <2>3
<1>. QED
  BY <1>1, <1>2, <1>3, <1>4, <1>5, <1>6, <1>7, <1>8, <1>9, <1>10, <1>11
     DEF Next, WorkerStep

\* The invariant holds throughout every run of the batcher.
LEMMA Invariant == Spec => []IInv
BY InitIInv, NextIInv, PTL DEF Spec

\* Every variable of batching.py's model keeps its type, for any set of
\* calls, any lengths and either mode; in particular the token budget _pack
\* divides by stays positive through any number of out-of-memory shrinks.
THEOREM TypeCorrect == Spec => []TypeOK
<1>1. IInv => TypeOK
  BY DEF IInv
<1>. QED  BY <1>1, Invariant, PTL

\* A call whose submit() returned has a vector for every input, and each is
\* the vector computed from that input, however its rows were sorted, packed,
\* split on out-of-memory and mixed with the rows of other calls.
THEOREM Answered == Spec => []EveryRowAnswered
<1>1. IInv => EveryRowAnswered
  BY DEF IInv, AnswerInv, EveryRowAnswered
<1>. QED  BY <1>1, Invariant, PTL

----------------------------------------------------------------------------
\* One out-of-memory shrink stays within the floor and never raises.
LEMMA ShrunkBounds ==
    ASSUME NEW b \in Nat \ {0}
    PROVE  Shrunk(b) <= b /\ Shrunk(b) >= Min2(MinTokens, b)
<1>1. MinTokens \in Nat
  BY LimitAssumption
<1>2. (b * 7) \div 10 \in Int /\ (b * 7) \div 10 <= b
  OBVIOUS
<1>. QED  BY <1>1, <1>2 DEF Shrunk, Max2, Min2

\* Only start-up and the backoff write the budget.
LEMMA BudgetWriters ==
    ASSUME TypeOK, [Next]_vars
    PROVE  \/ worker = "startup" /\ worker' \in {"idle", "failed"}
                 /\ (worker' = "idle" => budget' = FirstBudget)
           \/ worker' \notin {"startup", "failed"} /\ worker # "startup" /\ worker # "failed"
                 /\ budget' \in {budget, Shrunk(budget)}
           \/ worker' = worker /\ budget' = budget
<1>1. CASE \E j \in Job : Submit(j) \/ CallerStep(j)
  BY <1>1 DEF Submit, CallerStep, Return, WaitTimesOut, CheckAlive
<1>2. CASE StartupSucceeds \/ StartupFails
  BY <1>2 DEF StartupSucceeds, StartupFails
<1>3. CASE TakeFirst \/ TakeQueued \/ StopTaking \/ TakeLate \/ WindowCloses \/ Die
  BY <1>3 DEF TakeFirst, TakeQueued, StopTaking, TakeLate, WindowCloses, Die, AfterFirst
<1>4. CASE \E j \in left : StartGroup(j) \/ GroupFails(j)
  BY <1>4 DEF StartGroup, GroupFails, NextGroupOrRound
<1>5. CASE \E e \in lo..Len(order) : NextChunk(e)
  BY <1>5 DEF NextChunk
<1>6. CASE ForwardPiece \/ ForwardChunk
  BY <1>6 DEF ForwardPiece, ForwardChunk
<1>7. CASE OutOfMemorySplits \/ OutOfMemoryRaises \/ ForwardRaises
  BY <1>7 DEF OutOfMemorySplits, OutOfMemoryRaises, ForwardRaises, ChunkFails, InForward
<1>8. CASE FinishGroup
  BY <1>8 DEF FinishGroup, NextGroupOrRound
<1>9. CASE UNCHANGED vars
  BY <1>9 DEF vars
<1>. QED
  BY <1>1, <1>2, <1>3, <1>4, <1>5, <1>6, <1>7, <1>8, <1>9 DEF Next, WorkerStep

\* After start-up no step of any thread raises the token budget: running out
\* of memory can only make later batches smaller.
THEOREM BudgetShrinks == Spec => BudgetOnlyShrinks
<1>1. TypeOK /\ [Next]_vars => [worker # "startup" => budget' <= budget]_vars
  <2>1. SUFFICES ASSUME TypeOK, [Next]_vars, worker # "startup"
                 PROVE  budget' <= budget
    OBVIOUS
  <2>2. budget \in Nat \ {0}
    BY <2>1 DEF TypeOK
  <2>3. budget' \in {budget, Shrunk(budget)}
    BY <2>1, BudgetWriters
  <2>. QED  BY <2>2, <2>3, ShrunkBounds
<1>. QED  BY <1>1, TypeCorrect, PTL DEF Spec, BudgetOnlyShrinks

\* The budget stays between what start-up set and MIN_TOKENS, or what the
\* operator configured if that is less, through any number of shrinks.
THEOREM BudgetBounded == Spec => []BudgetFloor
<1>1. Init => BudgetFloor
  BY DEF Init, BudgetFloor
<1>2. TypeOK /\ BudgetFloor /\ [Next]_vars => BudgetFloor'
  <2>1. SUFFICES ASSUME TypeOK, BudgetFloor, [Next]_vars,
                        worker' \notin {"startup", "failed"}
                 PROVE  budget' \in Min2(MinTokens, FirstBudget)..FirstBudget
    BY DEF BudgetFloor
  <2>2. FirstBudget \in Nat /\ MinTokens \in Nat /\ budget \in Nat \ {0}
    BY <2>1, FirstBudgetPositive, LimitAssumption DEF TypeOK
  <2>3. CASE budget' = FirstBudget
    BY <2>2, <2>3 DEF Min2
  <2>4. CASE worker \notin {"startup", "failed"} /\ budget' \in {budget, Shrunk(budget)}
    <3>1. budget \in Min2(MinTokens, FirstBudget)..FirstBudget
      BY <2>1, <2>4 DEF BudgetFloor
    <3>2. Shrunk(budget) \in Nat
      BY <2>2, ShrunkPositive
    <3>3. Shrunk(budget) <= budget /\ Shrunk(budget) >= Min2(MinTokens, budget)
      BY <2>2, ShrunkBounds
    <3>. QED  BY <2>2, <2>4, <3>1, <3>2, <3>3 DEF Min2
  <2>. QED  BY <2>1, <2>3, <2>4, BudgetWriters
<1>. QED  BY <1>1, <1>2, TypeCorrect, PTL DEF Spec

----------------------------------------------------------------------------
\* What the routes see of a call: the reply of one that has returned is its
\* own list of rows.
RepliesOwn == ServiceReply = [j \in Job |-> IF caller[j] = "returned"
                                            THEN Service!Own(j) ELSE <<>>]

LEMMA ReplyIsOwn == IInv => RepliesOwn
<1>1. SUFFICES ASSUME IInv, NEW j \in Job, caller[j] = "returned"
               PROVE  [i \in 1..Size[j] |-> results[<<j, i>>].of] = Service!Own(j)
  BY DEF ServiceReply, RepliesOwn
<1>2. ASSUME NEW i \in 1..Size[j] PROVE results[<<j, i>>].of = <<j, i>>
  <2>1. <<j, i>> \in SlotsOf({j})
    BY DEF SlotsOf, Slots
  <2>2. results[<<j, i>>] # None
    BY <1>1, <2>1 DEF IInv, AnswerInv, Filled
  <2>3. <<j, i>> \in Slots
    BY <2>1 DEF SlotsOf
  <2>. QED  BY <1>1, <2>2, <2>3 DEF IInv, AnswerInv, OwnRows
<1>. QED  BY <1>2 DEF Service!Own

\* The only steps the routes can see are those of the calling threads.
LEMMA WorkerInvisible ==
    ASSUME WorkerStep \/ Die PROVE UNCHANGED caller
<1>1. CASE \/ StartupSucceeds \/ StartupFails \/ TakeFirst \/ TakeQueued
           \/ StopTaking \/ TakeLate \/ WindowCloses \/ Die
  BY <1>1 DEF StartupSucceeds, StartupFails, TakeFirst, TakeQueued, StopTaking,
              TakeLate, WindowCloses, Die
<1>2. CASE \E j \in left : StartGroup(j) \/ GroupFails(j)
  BY <1>2 DEF StartGroup, GroupFails
<1>3. CASE \E e \in lo..Len(order) : NextChunk(e)
  BY <1>3 DEF NextChunk
<1>4. CASE ForwardPiece \/ ForwardChunk
  BY <1>4 DEF ForwardPiece, ForwardChunk
<1>5. CASE OutOfMemorySplits \/ OutOfMemoryRaises \/ ForwardRaises
  BY <1>5 DEF OutOfMemorySplits, OutOfMemoryRaises, ForwardRaises, ChunkFails
<1>6. CASE FinishGroup
  BY <1>6 DEF FinishGroup
<1>. QED  BY <1>1, <1>2, <1>3, <1>4, <1>5, <1>6 DEF WorkerStep

\* A step of submit on a pool thread is a step of the service, or hidden.
LEMMA CallerStepImplements ==
    ASSUME TypeOK, RepliesOwn, RepliesOwn', NEW j \in Job, Submit(j) \/ CallerStep(j)
    PROVE  Service!ServiceNext \/ UNCHANGED <<ServiceStatus, ServiceReply>>
<1>1. /\ ServiceReply = [i \in Job |-> IF caller[i] = "returned"
                                       THEN Service!Own(i) ELSE <<>>]
      /\ ServiceReply' = [i \in Job |-> IF caller'[i] = "returned"
                                        THEN Service!Own(i) ELSE <<>>]
  BY DEF RepliesOwn, Service!Own
<1>2. caller \in [Job -> {"idle", "waiting", "timedout", "returned", "raised",
                         "unserved"}]
  BY DEF TypeOK
<1>. DEFINE status(c) == CASE c = "idle" -> "new"
                           [] c \in {"waiting", "timedout"} -> "pending"
                           [] c = "returned" -> "answered"
                           [] OTHER -> "refused"
<1>3. /\ ServiceStatus = [i \in Job |-> status(caller[i])]
      /\ ServiceStatus' = [i \in Job |-> status(caller'[i])]
  BY DEF ServiceStatus
<1>4. CASE Submit(j)
  <2>1. caller[j] = "idle" /\ caller' = [caller EXCEPT ![j] = "waiting"]
    BY <1>4 DEF Submit
  <2>2. /\ ServiceStatus[j] = "new"
        /\ ServiceStatus' = [ServiceStatus EXCEPT ![j] = "pending"]
    BY <1>2, <1>3, <2>1
  <2>3. ServiceReply' = ServiceReply
    BY <1>1, <1>2, <2>1
  <2>. QED  BY <2>2, <2>3 DEF Service!ServiceNext, Service!Enter
<1>5. CASE Return(j) /\ error[j] = "none"
  <2>1. caller[j] = "waiting" /\ caller' = [caller EXCEPT ![j] = "returned"]
    BY <1>5 DEF Return
  <2>2. /\ ServiceStatus[j] = "pending"
        /\ ServiceStatus' = [ServiceStatus EXCEPT ![j] = "answered"]
    BY <1>2, <1>3, <2>1
  <2>3. ServiceReply' = [ServiceReply EXCEPT ![j] = Service!Own(j)]
    BY <1>1, <1>2, <2>1
  <2>. QED  BY <2>2, <2>3 DEF Service!ServiceNext, Service!Answer
<1>6. CASE \/ Return(j) /\ error[j] # "none"
           \/ CheckAlive(j) /\ AfterTimeout = "unserved"
  <2>1. PICK c \in {"raised", "unserved"} :
           caller[j] \in {"waiting", "timedout"} /\ caller' = [caller EXCEPT ![j] = c]
    BY <1>6 DEF Return, CheckAlive
  <2>2. /\ ServiceStatus[j] = "pending"
        /\ ServiceStatus' = [ServiceStatus EXCEPT ![j] = "refused"]
    BY <1>2, <1>3, <2>1
  <2>3. ServiceReply' = ServiceReply
    BY <1>1, <1>2, <2>1
  <2>. QED  BY <2>2, <2>3 DEF Service!ServiceNext, Service!Refuse
<1>7. CASE WaitTimesOut(j) \/ (CheckAlive(j) /\ AfterTimeout = "waiting")
  <2>1. PICK c \in {"waiting", "timedout"} :
           caller[j] \in {"waiting", "timedout"} /\ caller' = [caller EXCEPT ![j] = c]
    BY <1>7 DEF WaitTimesOut, CheckAlive
  <2>. QED  BY <1>1, <1>2, <1>3, <2>1
<1>. QED  BY <1>4, <1>5, <1>6, <1>7 DEF CallerStep, AfterTimeout

\* The batcher implements the service the routes rely on: a call enters once
\* and ends once, answered with its own row for each of its inputs, or
\* refused; every other step of the threads is invisible to the routes.
THEOREM Implements == Spec => ImplementsService
<1>1. Init => Service!ServiceInit
  BY DEF Init, ServiceStatus, ServiceReply, Service!ServiceInit, Service!NoReply
<1>2. TypeOK /\ RepliesOwn /\ RepliesOwn' /\ [Next]_vars =>
        [Service!ServiceNext]_<<ServiceStatus, ServiceReply>>
  <2>. SUFFICES ASSUME TypeOK, RepliesOwn, RepliesOwn', [Next]_vars
                PROVE  Service!ServiceNext \/ UNCHANGED <<ServiceStatus, ServiceReply>>
    OBVIOUS
  <2>1. CASE \E j \in Job : Submit(j) \/ CallerStep(j)
    BY <2>1, CallerStepImplements
  <2>2. CASE UNCHANGED caller
    <3>1. ServiceStatus' = ServiceStatus
      BY <2>2 DEF ServiceStatus
    <3>2. ServiceReply' = ServiceReply
      BY <2>2 DEF RepliesOwn, Service!Own
    <3>. QED  BY <3>1, <3>2
  <2>3. CASE UNCHANGED vars
    BY <2>2, <2>3 DEF vars
  <2>. QED  BY <2>1, <2>2, <2>3, WorkerInvisible DEF Next
<1>. QED
  BY <1>1, <1>2, TypeCorrect, Invariant, ReplyIsOwn, PTL
     DEF Spec, ImplementsService, Service!ServiceSafety, Service!serviceVars
=============================================================================
