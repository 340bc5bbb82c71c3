----------------------- MODULE BatcherOwnershipProofs -----------------------
(***************************************************************************)
(* Proofs about who holds a job of Batcher, which jobs share a forward and *)
(* what that does to their answers, for every set of calls, every list of  *)
(* rows, every budget and both modes.                                      *)
(***************************************************************************)
EXTENDS BatcherProofs

----------------------------------------------------------------------------
\* The inductive invariant about ownership.  A job is in one place from
\* submit until its event is set, or until its group is done if it failed.

InWorker == Queued \cup left \cup group

\* What a caller knows of its job, and its job of it.
CallInv ==
    /\ \A j \in Job : caller[j] = "idle" => j \notin InWorker /\ ~event[j]
    /\ \A j \in Job : caller[j] \in {"returned", "raised"} => event[j]
    /\ \A j \in Job : caller[j] = "unserved" => worker = "dead"
    /\ \A j \in Job : ~event[j] => error[j] = "none"

\* The places are disjoint, the queue lists no job twice, and only a failed
\* job, whose group is still in progress, has both a place and its event.
PlaceInv ==
    /\ \A k, m \in DOMAIN queue : queue[k] = queue[m] => k = m
    /\ left \cap Queued = {}
    /\ group \cap (Queued \cup left) = {}
    /\ \A j \in Queued \cup left : ~event[j]
    /\ \A j \in group : error[j] = "none" => ~event[j]

\* Where the worker is when a place has jobs in it.
PhaseInv ==
    /\ worker # "process" => group = {}
    /\ worker \in {"startup", "failed", "idle", "dead"} => left = {}
    /\ ~Merge => worker \notin {"collect", "window"}

\* The worker holds every job that somebody still waits for.
HeldInv ==
    worker # "dead" => \A j \in Blocked : ~event[j] => j \in InWorker

\* The jobs of a group share their key, a worker that does not merge takes
\* one at a time, and every row in order is a row of the group.
GroupInv ==
    /\ \A i, j \in group : KeyOf(i) = KeyOf(j)
    /\ ~Merge => \A i, j \in left : i = j
    /\ ~Merge => \A i, j \in group : i = j
    /\ worker = "process" => \A p \in 1..Len(order) : order[p][1] \in group

OwnerInv == CallInv /\ PlaceInv /\ PhaseInv /\ HeldInv /\ GroupInv

----------------------------------------------------------------------------
\* What is on the queue is a job.
LEMMA QueuedAreJobs == TypeOK => Queued \subseteq Job
BY DEF TypeOK, Queued

\* Putting a job that is not on the queue at its end.
LEMMA AppendFacts ==
    ASSUME queue \in Seq(Job), NEW j \in Job, j \notin Queued,
           \A k, m \in DOMAIN queue : queue[k] = queue[m] => k = m,
           queue' = Append(queue, j)
    PROVE  /\ Queued' = Queued \cup {j}
           /\ \A k, m \in DOMAIN queue' : queue'[k] = queue'[m] => k = m
<1>1. /\ DOMAIN queue = 1..Len(queue) /\ Len(queue) \in Nat
      /\ DOMAIN queue' = 1..Len(queue) + 1
      /\ \A k \in 1..Len(queue) : queue'[k] = queue[k]
      /\ queue'[Len(queue) + 1] = j
  OBVIOUS
<1>2. \A k \in 1..Len(queue) : queue[k] # j
  BY <1>1 DEF Queued
<1>3. Queued' = Queued \cup {j}
  <2>1. \A k \in DOMAIN queue' : k \in DOMAIN queue \/ k = Len(queue) + 1
    BY <1>1
  <2>2. Len(queue) + 1 \in DOMAIN queue' /\ DOMAIN queue \subseteq DOMAIN queue'
    BY <1>1
  <2>. QED  BY <1>1, <2>1, <2>2 DEF Queued
<1>. QED  BY <1>1, <1>2, <1>3

\* Taking the head of the queue.
LEMMA TakeFacts ==
    ASSUME queue \in Seq(Job), Take,
           \A k, m \in DOMAIN queue : queue[k] = queue[m] => k = m
    PROVE  /\ Head(queue) \in Job /\ Head(queue) \in Queued
           /\ Queued' = Queued \ {Head(queue)}
           /\ \A k, m \in DOMAIN queue' : queue'[k] = queue'[m] => k = m
<1>1. queue # <<>> /\ queue' = Tail(queue)
  BY DEF Take
<1>2. /\ DOMAIN queue = 1..Len(queue) /\ Len(queue) \in Nat \ {0}
      /\ Head(queue) = queue[1] /\ 1 \in DOMAIN queue
  BY <1>1
<1>3. /\ DOMAIN queue' = 1..Len(queue) - 1
      /\ \A k \in DOMAIN queue' : queue'[k] = queue[k + 1]
  BY <1>1, <1>2
<1>4. \A k \in DOMAIN queue' : k + 1 \in DOMAIN queue /\ k + 1 # 1
  BY <1>2, <1>3
<1>5. \A k \in DOMAIN queue : k # 1 => k - 1 \in DOMAIN queue' /\ (k - 1) + 1 = k
  BY <1>2, <1>3
<1>6. Queued' = Queued \ {Head(queue)}
  <2>1. \A q \in Queued' : q \in Queued /\ q # Head(queue)
    BY <1>2, <1>3, <1>4 DEF Queued
  <2>2. ASSUME NEW q \in Queued, q # Head(queue) PROVE q \in Queued'
    <3>1. PICK k \in DOMAIN queue : queue[k] = q
      BY DEF Queued
    <3>2. k - 1 \in DOMAIN queue' /\ queue'[k - 1] = q
      BY <1>2, <1>3, <1>5, <2>2, <3>1
    <3>. QED  BY <3>2 DEF Queued
  <2>. QED  BY <2>1, <2>2
<1>7. ASSUME NEW k \in DOMAIN queue', NEW m \in DOMAIN queue',
             queue'[k] = queue'[m]
      PROVE  k = m
  <2>1. k + 1 = m + 1
    BY <1>3, <1>4, <1>7
  <2>. QED  BY <1>2, <1>3, <2>1
<1>8. Head(queue) \in Job /\ Head(queue) \in Queued
  BY <1>2 DEF Queued
<1>. QED  BY <1>6, <1>7, <1>8

\* Failing jobs sets the event and an error on each; what a job outside, or
\* one that had failed before, has is not touched.
LEMMA FailKeeps ==
    ASSUME TypeOK, NEW js, NEW exc \in {"oom", "error"}, Fail(js, exc)
    PROVE  /\ \A j \in Job : j \notin js => error'[j] = error[j] /\ event'[j] = event[j]
           /\ \A j \in Job : j \in js => error'[j] # "none" /\ event'[j]
           /\ \A j \in Job : error[j] # "none" => error'[j] = error[j]
           /\ \A j \in Job : event[j] => event'[j]
           /\ \A j \in Job : error'[j] \in {error[j], exc}
BY DEF Fail, ErrorAfter, TypeOK

----------------------------------------------------------------------------
\* At start-up no job is anywhere.
LEMMA InitOwner == Init => OwnerInv
<1>. SUFFICES ASSUME Init PROVE OwnerInv
  OBVIOUS
<1>1. Queued = {}
  BY DEF Init, Queued
<1>2. Blocked = {}
  BY DEF Init, Blocked
<1>. QED
  BY <1>1, <1>2 DEF Init, OwnerInv, CallInv, PlaceInv, PhaseInv, HeldInv,
                    GroupInv, InWorker

\* Steps that move no job and answer nobody.
LEMMA OwnersStay ==
    ASSUME OwnerInv,
           UNCHANGED <<caller, queue, worker, left, group, order, error, event>>
    PROVE  OwnerInv'
<1>1. UNCHANGED <<Queued, InWorker, Blocked>>
  BY DEF Queued, InWorker, Blocked
<1>2. CallInv' /\ PlaceInv' /\ PhaseInv' /\ HeldInv'
  BY <1>1 DEF OwnerInv, CallInv, PlaceInv, PhaseInv, HeldInv
<1>3. GroupInv'
  BY DEF OwnerInv, GroupInv, KeyOf
<1>. QED  BY <1>2, <1>3 DEF OwnerInv

\* A job enters the worker by the queue, and its caller is blocked from then.
LEMMA SubmitOwner ==
    ASSUME TypeOK, OwnerInv, NEW j \in Job, Submit(j)
    PROVE  OwnerInv'
<1>. USE DEF OwnerInv
<1>1. /\ caller[j] = "idle" /\ worker \notin {"startup", "failed"}
      /\ caller' = [caller EXCEPT ![j] = "waiting"]
      /\ queue' = Append(queue, j)
      /\ UNCHANGED <<worker, left, group, order, error, event>>
  BY DEF Submit, roundVars, groupVars, jobVars
<1>2. j \notin InWorker /\ ~event[j]
  BY <1>1 DEF CallInv
<1>3. /\ Queued' = Queued \cup {j}
      /\ \A k, m \in DOMAIN queue' : queue'[k] = queue'[m] => k = m
  BY <1>1, <1>2, AppendFacts DEF TypeOK, PlaceInv, InWorker
<1>4. InWorker' = InWorker \cup {j}
  BY <1>1, <1>3 DEF InWorker
<1>5. \A i \in Job : caller'[i] = IF i = j THEN "waiting" ELSE caller[i]
  BY <1>1 DEF TypeOK
<1>6. CallInv'
  BY <1>1, <1>4, <1>5 DEF CallInv
<1>7. PlaceInv'
  BY <1>1, <1>2, <1>3 DEF PlaceInv, InWorker
<1>8. PhaseInv'
  BY <1>1 DEF PhaseInv
<1>9. HeldInv'
  BY <1>1, <1>4, <1>5 DEF HeldInv, Blocked
<1>10. GroupInv'
  BY <1>1 DEF GroupInv, KeyOf
<1>. QED  BY <1>6, <1>7, <1>8, <1>9, <1>10

\* A caller leaves submit on its event or because the worker is dead.
LEMMA CallerOwner ==
    ASSUME TypeOK, OwnerInv, NEW j \in Job, CallerStep(j)
    PROVE  OwnerInv'
<1>. USE DEF OwnerInv
<1>1. /\ caller[j] \in {"waiting", "timedout"}
      /\ UNCHANGED <<queue, worker, left, group, order, error, event>>
  BY DEF CallerStep, Return, WaitTimesOut, CheckAlive, roundVars, groupVars, jobVars
<1>2. PICK c \in {"waiting", "timedout", "returned", "raised", "unserved"} :
         /\ caller' = [caller EXCEPT ![j] = c]
         /\ c \in {"returned", "raised"} => event[j]
         /\ c = "unserved" => worker = "dead"
  BY DEF CallerStep, Return, WaitTimesOut, CheckAlive, AfterTimeout
<1>3. \A i \in Job : caller'[i] = IF i = j THEN c ELSE caller[i]
  BY <1>2 DEF TypeOK
<1>4. UNCHANGED <<Queued, InWorker>>
  BY <1>1 DEF Queued, InWorker
<1>5. CallInv'
  BY <1>1, <1>2, <1>3, <1>4 DEF CallInv
<1>6. PlaceInv' /\ PhaseInv'
  BY <1>1, <1>4 DEF PlaceInv, PhaseInv
<1>7. HeldInv'
  <2>1. Blocked' \subseteq Blocked
    BY <1>1, <1>3 DEF Blocked
  <2>. QED  BY <1>1, <1>4, <2>1 DEF HeldInv
<1>8. GroupInv'
  BY <1>1 DEF GroupInv, KeyOf
<1>. QED  BY <1>5, <1>6, <1>7, <1>8

----------------------------------------------------------------------------
\* The worker passes from one phase to the next and moves no job.
LEMMA PhaseOwner ==
    ASSUME OwnerInv,
           StartupSucceeds \/ StartupFails \/ StopTaking \/ WindowCloses
    PROVE  OwnerInv'
<1>. USE DEF OwnerInv
<1>1. /\ UNCHANGED <<caller, queue, left, group, order, error, event>>
      /\ worker # "dead" /\ worker # "process"
      /\ worker' \notin {"dead", "process"}
      /\ worker' \in {"startup", "failed", "idle"} => worker = "startup"
      /\ worker' \in {"collect", "window"} => worker = "collect"
  BY DEF StartupSucceeds, StartupFails, StopTaking, WindowCloses, roundVars,
         groupVars, jobVars
<1>2. UNCHANGED <<Queued, InWorker, Blocked>>
  BY <1>1 DEF Queued, InWorker, Blocked
<1>3. CallInv' /\ PlaceInv'
  BY <1>1, <1>2 DEF CallInv, PlaceInv
<1>4. PhaseInv'
  BY <1>1 DEF PhaseInv
<1>5. HeldInv'
  BY <1>1, <1>2 DEF HeldInv
<1>6. GroupInv'
  BY <1>1 DEF GroupInv, KeyOf
<1>. QED  BY <1>3, <1>4, <1>5, <1>6

\* A job goes from the head of the queue into the round.
LEMMA TakeOwner ==
    ASSUME TypeOK, OwnerInv, TakeFirst \/ TakeQueued \/ TakeLate
    PROVE  OwnerInv'
<1>. USE DEF OwnerInv
<1>. DEFINE h == Head(queue)
<1>1. /\ Take /\ UNCHANGED <<caller, group, order, error, event>>
      /\ left' = left \cup {h}
      /\ worker \in {"idle", "collect", "window"}
      /\ worker' \in {"collect", "window", "grouped"}
      /\ ~Merge => worker = "idle" /\ worker' = "grouped"
  <2>1. ~Merge => ~TakeQueued /\ ~TakeLate
    BY DEF PhaseInv, TakeQueued, TakeLate
  <2>. QED
    BY <2>1 DEF TakeFirst, TakeQueued, TakeLate, Take, AfterFirst, groupVars, jobVars
<1>2. /\ h \in Job /\ h \in Queued /\ Queued' = Queued \ {h}
      /\ \A k, m \in DOMAIN queue' : queue'[k] = queue'[m] => k = m
  <2>1. queue \in Seq(Job)
    BY DEF TypeOK
  <2>. QED  BY <1>1, <2>1, TakeFacts DEF PlaceInv
<1>. HIDE DEF h
<1>3. InWorker' = InWorker
  BY <1>1, <1>2 DEF InWorker
<1>4. CallInv'
  BY <1>1, <1>3 DEF CallInv
<1>5. PlaceInv'
  BY <1>1, <1>2 DEF PlaceInv
<1>6. PhaseInv'
  BY <1>1 DEF PhaseInv
<1>7. HeldInv'
  BY <1>1, <1>3 DEF HeldInv, Blocked
<1>8. GroupInv'
  <2>1. ~Merge => left = {}
    BY <1>1 DEF PhaseInv
  <2>. QED  BY <1>1, <2>1 DEF GroupInv, KeyOf
<1>. QED  BY <1>4, <1>5, <1>6, <1>7, <1>8

\* The thread ends: the jobs it had taken are nobody's, those on the queue
\* stay there.
LEMMA DieOwner ==
    ASSUME OwnerInv, Die
    PROVE  OwnerInv'
<1>. USE DEF OwnerInv
<1>1. /\ worker # "process" /\ worker' = "dead" /\ left' = {}
      /\ UNCHANGED <<caller, queue, group, order, error, event>>
  BY DEF Die, groupVars, jobVars
<1>2. Queued' = Queued /\ InWorker' \subseteq InWorker
  BY <1>1 DEF Queued, InWorker
<1>3. CallInv' /\ PlaceInv'
  BY <1>1, <1>2 DEF CallInv, PlaceInv
<1>4. PhaseInv' /\ HeldInv'
  BY <1>1 DEF PhaseInv, HeldInv
<1>5. GroupInv'
  BY <1>1 DEF GroupInv, KeyOf
<1>. QED  BY <1>3, <1>4, <1>5

----------------------------------------------------------------------------
\* What a group is made of.
LEMMA MatesFacts ==
    ASSUME TypeOK, NEW j \in left
    PROVE  /\ j \in Mates(j) /\ Mates(j) \subseteq left /\ Mates(j) \subseteq Job
           /\ \A i, k \in Mates(j) : KeyOf(i) = KeyOf(k)
BY DEF Mates, TypeOK

\* The mates of the earliest job go from the round into the group.
LEMMA StartGroupOwner ==
    ASSUME IInv, OwnerInv, NEW j \in left, StartGroup(j)
    PROVE  OwnerInv'
<1>. USE DEF OwnerInv
<1>. DEFINE S == SlotsOf(Mates(j))
<1>1. /\ group' = Mates(j) /\ left' = left \ Mates(j) /\ order' = Arranged(S)
      /\ worker = "grouped" /\ worker' = "process"
      /\ UNCHANGED <<caller, queue, error, event>>
  BY DEF StartGroup, jobVars
<1>2. /\ Mates(j) \subseteq left /\ Mates(j) \subseteq Job
      /\ \A i, k \in Mates(j) : KeyOf(i) = KeyOf(k)
  BY MatesFacts DEF IInv
<1>3. \A p \in 1..Len(order') : order'[p][1] \in Mates(j)
  <2>1. S \in SUBSET Slots /\ \A s \in S : s[1] \in Mates(j)
    BY SlotsOfFacts DEF SlotsOf
  <2>2. \A s \in S : \E k \in DOMAIN jobs : jobs[k] = s[1]
    BY <1>2, <2>1 DEF IInv, RoundInv
  <2>3. Arranged(S) \in Seq(S)
    BY <2>1, <2>2, ArrangedListsAll DEF IInv, TypeOK
  <2>. HIDE DEF S
  <2>4. \A p \in 1..Len(order') : order'[p] \in S
    BY <1>1, <2>3
  <2>. QED  BY <2>1, <2>4
<1>. HIDE DEF S
<1>4. group = {} /\ Queued' = Queued /\ InWorker' = InWorker
  BY <1>1, <1>2 DEF PhaseInv, Queued, InWorker
<1>5. CallInv'
  BY <1>1, <1>4 DEF CallInv
<1>6. PlaceInv'
  BY <1>1, <1>2, <1>4 DEF PlaceInv
<1>7. PhaseInv'
  BY <1>1 DEF PhaseInv
<1>8. HeldInv'
  BY <1>1, <1>4 DEF HeldInv, Blocked
<1>9. GroupInv'
  BY <1>1, <1>2, <1>3 DEF GroupInv, KeyOf
<1>. QED  BY <1>5, <1>6, <1>7, <1>8, <1>9

\* A group that fails before its first chunk: its callers have their events.
LEMMA GroupFailsOwner ==
    ASSUME IInv, OwnerInv, NEW j \in left, GroupFails(j)
    PROVE  OwnerInv'
<1>. USE DEF OwnerInv
<1>1. /\ left' = left \ Mates(j) /\ Fail(Mates(j), "error")
      /\ worker = "grouped" /\ worker' \in {"grouped", "idle"}
      /\ worker' = "idle" => left' = {}
      /\ UNCHANGED <<caller, queue, group, order>>
  BY DEF GroupFails, NextGroupOrRound, RoundGoesOn, groupVars
<1>2. Mates(j) \subseteq left /\ Mates(j) \subseteq Job
  BY MatesFacts DEF IInv
<1>3. /\ \A i \in Job : i \notin Mates(j) => error'[i] = error[i] /\ event'[i] = event[i]
      /\ \A i \in Job : i \in Mates(j) => error'[i] # "none" /\ event'[i]
      /\ \A i \in Job : event[i] => event'[i]
  BY <1>1, FailKeeps DEF IInv
<1>4. /\ Queued' = Queued /\ Queued \subseteq Job /\ left \subseteq Job /\ group \subseteq Job
      /\ group = {}
  BY <1>1, QueuedAreJobs DEF Queued, IInv, TypeOK, PhaseInv
<1>5. InWorker' = InWorker \ Mates(j)
  BY <1>1, <1>2, <1>4 DEF InWorker, PlaceInv
<1>6. CallInv'
  BY <1>1, <1>2, <1>3, <1>5 DEF CallInv, InWorker
<1>7. PlaceInv'
  BY <1>1, <1>2, <1>3, <1>4 DEF PlaceInv
<1>8. PhaseInv'
  BY <1>1, <1>4 DEF PhaseInv
<1>9. HeldInv'
  BY <1>1, <1>2, <1>3, <1>5 DEF HeldInv, Blocked
<1>10. GroupInv'
  BY <1>1, <1>4 DEF GroupInv
<1>. QED  BY <1>6, <1>7, <1>8, <1>9, <1>10

----------------------------------------------------------------------------
\* The jobs with a row in the chunk are jobs of the group.
LEMMA ChunkJobs ==
    ASSUME IInv, OwnerInv, InForward
    PROVE  /\ {order[p][1] : p \in ChunkRows} \subseteq group
           /\ \A p \in ChunkRows : order[p] \in Slots /\ p \in 1..Len(order)
           /\ ForwardRows \subseteq ChunkRows
<1>1. /\ order \in Seq(Slots) /\ lo \in Nat \ {0} /\ ends \in Seq(Nat)
      /\ Len(ends) \in Nat \ {0} /\ Head(ends) = ends[1]
      /\ ends[Len(ends)] \in Nat /\ ends[Len(ends)] <= Len(order)
      /\ Head(ends) \in Nat /\ Len(encoded) \in Nat /\ Pos = lo + Len(encoded)
  BY ForwardFacts DEF IInv
<1>2. \A p \in ChunkRows : p \in 1..Len(order)
  BY <1>1 DEF ChunkRows
<1>3. \A p \in 1..Len(order) : order[p] \in Slots
  BY <1>1
<1>4. \A p \in 1..Len(order) : order[p][1] \in group
  BY DEF OwnerInv, GroupInv, InForward
<1>5. Head(ends) <= ends[Len(ends)]
  <2>1. \A k, m \in 1..Len(ends) : k <= m => ends[k] <= ends[m]
    BY DEF IInv, ChunkInv, InForward
  <2>2. 1 \in 1..Len(ends) /\ Len(ends) \in 1..Len(ends) /\ 1 <= Len(ends)
    BY <1>1
  <2>. QED  BY <1>1, <2>1, <2>2
<1>6. ForwardRows \subseteq ChunkRows
  BY <1>1, <1>5 DEF ForwardRows, ChunkRows
<1>. QED  BY <1>2, <1>3, <1>4, <1>6

\* A chunk that raised: the jobs that fail are in the group, and stay there.
LEMMA ChunkFailsOwner ==
    ASSUME IInv, OwnerInv, OutOfMemoryRaises \/ ForwardRaises
    PROVE  OwnerInv'
<1>. USE DEF OwnerInv
<1>. DEFINE js == {order[p][1] : p \in ChunkRows}
<1>1. PICK exc \in {"oom", "error"} : Fail(js, exc)
  BY DEF OutOfMemoryRaises, ForwardRaises, ChunkFails
<1>2. /\ InForward
      /\ UNCHANGED <<caller, queue, worker, left, group, order>>
  BY DEF OutOfMemoryRaises, ForwardRaises, ChunkFails, roundVars, groupVars
<1>3. js \subseteq group /\ group \subseteq Job
  BY <1>2, ChunkJobs DEF IInv, TypeOK
<1>. HIDE DEF js
<1>4. /\ \A i \in Job : i \notin js => error'[i] = error[i] /\ event'[i] = event[i]
      /\ \A i \in Job : i \in js => error'[i] # "none" /\ event'[i]
      /\ \A i \in Job : event[i] => event'[i]
  BY <1>1, FailKeeps DEF IInv
<1>5. UNCHANGED <<Queued, InWorker, Blocked>> /\ Queued \cup left \subseteq Job
  BY <1>2, QueuedAreJobs DEF Queued, InWorker, Blocked, IInv, TypeOK
<1>6. CallInv'
  BY <1>2, <1>3, <1>4, <1>5 DEF CallInv, InWorker
<1>7. PlaceInv'
  BY <1>2, <1>3, <1>4, <1>5 DEF PlaceInv
<1>8. PhaseInv' /\ HeldInv'
  BY <1>2, <1>4, <1>5 DEF PhaseInv, HeldInv, Blocked
<1>9. GroupInv'
  BY <1>2 DEF GroupInv, KeyOf
<1>. QED  BY <1>6, <1>7, <1>8, <1>9

\* The group is done: those of its jobs that no chunk has failed are woken.
LEMMA FinishGroupOwner ==
    ASSUME IInv, OwnerInv, FinishGroup
    PROVE  OwnerInv'
<1>. USE DEF OwnerInv
<1>1. /\ event' = [j \in Job |-> event[j] \/ (j \in group /\ error[j] = "none")]
      /\ group' = {} /\ worker = "process" /\ worker' \in {"grouped", "idle"}
      /\ worker' = "idle" => left = {}
      /\ UNCHANGED <<caller, queue, left, error>>
  BY DEF FinishGroup, NextGroupOrRound, RoundGoesOn
<1>2. /\ Queued' = Queued /\ Queued \cup left \subseteq Job
      /\ InWorker' = Queued \cup left
  BY <1>1, QueuedAreJobs DEF Queued, InWorker, IInv, TypeOK
<1>3. \A j \in Job : event'[j] <=> event[j] \/ (j \in group /\ error[j] = "none")
  BY <1>1
<1>4. CallInv'
  BY <1>1, <1>2, <1>3 DEF CallInv, InWorker
<1>5. PlaceInv'
  BY <1>1, <1>2, <1>3 DEF PlaceInv
<1>6. PhaseInv'
  BY <1>1 DEF PhaseInv
<1>7. HeldInv'
  <2>1. SUFFICES ASSUME NEW j \in Job, caller[j] \in {"waiting", "timedout"}, ~event'[j]
                 PROVE  j \in InWorker'
    BY <1>1 DEF HeldInv, Blocked
  <2>2. ~event[j] /\ j \in InWorker
    BY <1>1, <1>3, <2>1 DEF HeldInv, Blocked
  <2>3. j \in group => error[j] = "none"
    BY <2>2 DEF CallInv
  <2>. QED  BY <1>2, <1>3, <2>1, <2>2, <2>3 DEF InWorker
<1>8. GroupInv'
  BY <1>1 DEF GroupInv, KeyOf
<1>. QED  BY <1>4, <1>5, <1>6, <1>7, <1>8

----------------------------------------------------------------------------
\* Every step of a caller or of the worker keeps each job in its place.
LEMMA NextOwner == IInv /\ OwnerInv /\ [Next]_vars => OwnerInv'
<1>. SUFFICES ASSUME IInv, OwnerInv, [Next]_vars PROVE OwnerInv'
  OBVIOUS
<1>0. TypeOK
  BY DEF IInv
<1>1. CASE \E j \in Job : Submit(j) \/ CallerStep(j)
  BY <1>0, <1>1, SubmitOwner, CallerOwner
<1>2. CASE StartupSucceeds \/ StartupFails \/ StopTaking \/ WindowCloses
  BY <1>2, PhaseOwner
<1>3. CASE TakeFirst \/ TakeQueued \/ TakeLate
  BY <1>0, <1>3, TakeOwner
<1>4. CASE Die
  BY <1>4, DieOwner
<1>5. CASE \E j \in left : StartGroup(j) \/ GroupFails(j)
  BY <1>5, StartGroupOwner, GroupFailsOwner
<1>6. CASE \/ \E e \in lo..Len(order) : NextChunk(e)
           \/ ForwardPiece \/ ForwardChunk \/ OutOfMemorySplits
  BY <1>6, OwnersStay DEF NextChunk, ForwardPiece, ForwardChunk,
     OutOfMemorySplits, roundVars, groupVars, jobVars
<1>7. CASE OutOfMemoryRaises \/ ForwardRaises
  BY <1>7, ChunkFailsOwner
<1>8. CASE FinishGroup
  BY <1>8, FinishGroupOwner
<1>9. CASE UNCHANGED vars
  BY <1>9, OwnersStay DEF vars
<1>. QED
  BY <1>1, <1>2, <1>3, <1>4, <1>5, <1>6, <1>7, <1>8, <1>9 DEF Next, WorkerStep

\* So places, phases and groups are always as OwnerInv says.
LEMMA Ownership == Spec => []OwnerInv
BY InitOwner, NextOwner, Invariant, PTL DEF Spec

----------------------------------------------------------------------------
\* While the worker lives, a job whose caller is blocked is in exactly one
\* place the worker will come to, and on the queue only once: no step of
\* _run, _collect or _process drops a job it has taken, or works on one twice.
THEOREM JobsHeld == Spec => []NobodyForgotten
<1>1. TypeOK /\ OwnerInv => NobodyForgotten
  <2>1. SUFFICES ASSUME OwnerInv, NEW j \in Blocked, ~event[j], worker # "dead"
        PROVE  /\ Held(j) \in {<<TRUE, FALSE, FALSE>>, <<FALSE, TRUE, FALSE>>,
                               <<FALSE, FALSE, TRUE>>}
               /\ \A k, m \in DOMAIN queue : queue[k] = j /\ queue[m] = j => k = m
    BY DEF NobodyForgotten
  <2>2. j \in InWorker
    BY <2>1 DEF OwnerInv, HeldInv
  <2>3. /\ j \in left => worker # "idle" /\ j \notin Queued /\ j \notin group
        /\ j \in group => worker = "process" /\ j \notin Queued
    BY <2>1 DEF OwnerInv, PlaceInv, PhaseInv
  <2>4. Held(j) \in {<<TRUE, FALSE, FALSE>>, <<FALSE, TRUE, FALSE>>,
                     <<FALSE, FALSE, TRUE>>}
    <3>. DEFINE a == j \in Queued
                b == j \in left /\ worker # "idle"
                c == j \in group /\ worker = "process"
    <3>1. Held(j) = <<a, b, c>> /\ {a, b, c} \subseteq BOOLEAN
      BY DEF Held
    <3>. HIDE DEF a, b, c
    <3>2. CASE j \in Queued
      <4>1. a = TRUE /\ b = FALSE /\ c = FALSE
        BY <2>3, <3>2 DEF a, b, c
      <4>2. Held(j) = <<TRUE, FALSE, FALSE>>
        BY <3>1, <4>1, Zenon
      <4>. QED  BY <4>2
    <3>3. CASE j \in left
      <4>1. a = FALSE /\ b = TRUE /\ c = FALSE
        BY <2>3, <3>3 DEF a, b, c
      <4>2. Held(j) = <<FALSE, TRUE, FALSE>>
        BY <3>1, <4>1, Zenon
      <4>. QED  BY <4>2
    <3>4. CASE j \in group
      <4>1. a = FALSE /\ b = FALSE /\ c = TRUE
        BY <2>3, <3>4 DEF a, b, c
      <4>2. Held(j) = <<FALSE, FALSE, TRUE>>
        BY <3>1, <4>1, Zenon
      <4>. QED  BY <4>2
    <3>. QED  BY <2>2, <3>2, <3>3, <3>4 DEF InWorker
  <2>5. \A k, m \in DOMAIN queue : queue[k] = j /\ queue[m] = j => k = m
    BY <2>1 DEF OwnerInv, PlaceInv
  <2>. QED  BY <2>4, <2>5
<1>. QED  BY <1>1, TypeCorrect, Ownership, PTL

----------------------------------------------------------------------------
\* A step that sets events or errors does so for jobs that have a place.
LEMMA OutcomeStep ==
    ASSUME IInv, OwnerInv, [Next]_vars, NEW j \in Job, event[j]
    PROVE  /\ event'[j] /\ error'[j] = error[j]
           /\ error[j] = "none" => \A s \in SlotsOf({j}) : results'[s] = results[s]
<1>0. TypeOK
  BY DEF IInv
<1>1. error[j] = "none" => j \notin left /\ j \notin group
  BY DEF OwnerInv, PlaceInv
<1>2. CASE UNCHANGED jobVars
  BY <1>2 DEF jobVars
<1>3. CASE \E i \in left : GroupFails(i)
  <2>1. PICK i \in left : GroupFails(i)
    BY <1>3
  <2>2. Fail(Mates(i), "error") /\ results' = results /\ Mates(i) \subseteq left
    BY <1>0, <2>1, MatesFacts DEF GroupFails
  <2>. QED  BY <1>0, <1>1, <2>2, FailKeeps
<1>4. CASE ForwardChunk
  <2>1. /\ InForward /\ results' = Scattered(Joined(encoded, Computed))
        /\ UNCHANGED <<error, event>>
    BY <1>4 DEF ForwardChunk
  <2>2. ASSUME error[j] = "none", NEW s \in SlotsOf({j})
        PROVE  results'[s] = results[s]
    <3>1. s \in Slots /\ s[1] = j
      BY DEF SlotsOf
    <3>2. ~\E p \in ChunkRows : order[p] = s
      BY <1>1, <2>1, <2>2, <3>1, ChunkJobs
    <3>. QED  BY <2>1, <3>1, <3>2 DEF Scattered
  <2>. QED  BY <2>1, <2>2
<1>5. CASE OutOfMemoryRaises \/ ForwardRaises
  <2>1. PICK exc \in {"oom", "error"} : Fail({order[p][1] : p \in ChunkRows}, exc)
    BY <1>5 DEF OutOfMemoryRaises, ForwardRaises, ChunkFails
  <2>2. InForward /\ results' = results
    BY <1>5 DEF OutOfMemoryRaises, ForwardRaises, ChunkFails
  <2>3. {order[p][1] : p \in ChunkRows} \subseteq group
    BY <2>2, ChunkJobs
  <2>. QED  BY <1>0, <1>1, <2>1, <2>2, <2>3, FailKeeps
<1>6. CASE FinishGroup
  BY <1>6 DEF FinishGroup
<1>7. \/ UNCHANGED jobVars
      \/ \E i \in left : GroupFails(i)
      \/ ForwardChunk \/ OutOfMemoryRaises \/ ForwardRaises \/ FinishGroup
  BY DEF Next, WorkerStep, Submit, CallerStep, Return, WaitTimesOut, CheckAlive,
         StartupSucceeds, StartupFails, TakeFirst, TakeQueued, StopTaking,
         TakeLate, WindowCloses, Die, StartGroup, NextChunk, ForwardPiece,
         OutOfMemorySplits, vars, jobVars
<1>. QED  BY <1>2, <1>3, <1>4, <1>5, <1>6, <1>7

\* What submit reads without a lock no longer changes: once a job's event is
\* set it stays set, the error that goes with it stays the same, and if there
\* is none so does every row, although chunks of the job may still be to run.
THEOREM OutcomeIsFixed == Spec => OutcomeFixed
<1>1. IInv /\ OwnerInv /\ [Next]_vars =>
        [\A j \in Job : event[j] =>
            /\ event'[j] /\ error'[j] = error[j]
            /\ error[j] = "none" =>
                  \A s \in SlotsOf({j}) : results'[s] = results[s]]_vars
  BY OutcomeStep
<1>. QED  BY <1>1, Invariant, Ownership, PTL DEF Spec, OutcomeFixed

----------------------------------------------------------------------------
\* Submit waits for a thread, and only Submit blocks one.
LEMMA PoolStep ==
    ASSUME TypeOK, [Next]_vars, Cardinality(Blocked) <= PoolSize
    PROVE  (Cardinality(Blocked) <= PoolSize)'
<1>1. IsFiniteSet(Blocked) /\ Cardinality(Blocked) \in Nat /\ PoolSize \in Nat
  BY JobAssumption, LimitAssumption, FS_Subset, FS_CardinalityType DEF Blocked
<1>2. CASE \E j \in Job : Submit(j)
  <2>1. PICK j \in Job : Submit(j)
    BY <1>2
  <2>2. /\ Cardinality(Blocked) < PoolSize /\ caller[j] = "idle"
        /\ caller' = [caller EXCEPT ![j] = "waiting"]
    BY <2>1 DEF Submit
  <2>3. Blocked' = Blocked \cup {j}
    BY <2>2 DEF Blocked, TypeOK
  <2>4. Cardinality(Blocked \cup {j}) <= Cardinality(Blocked) + 1
    <3>1. j \notin Blocked
      BY <2>2 DEF Blocked
    <3>2. Cardinality(Blocked \cup {j}) = Cardinality(Blocked) + 1
      BY <1>1, <3>1, FS_AddElement
    <3>. QED  BY <1>1, <3>2
  <2>5. IsFiniteSet(Blocked') /\ Cardinality(Blocked') \in Nat
    BY <1>1, <2>3, FS_AddElement, FS_CardinalityType
  <2>. QED  BY <1>1, <2>2, <2>3, <2>4, <2>5
<1>3. CASE Blocked' \subseteq Blocked
  <2>1. IsFiniteSet(Blocked') /\ Cardinality(Blocked') <= Cardinality(Blocked)
    BY <1>1, <1>3, FS_Subset
  <2>2. Cardinality(Blocked') \in Nat
    BY <2>1, FS_CardinalityType
  <2>. QED  BY <1>1, <2>1, <2>2
<1>4. CASE \E j \in Job : CallerStep(j)
  <2>1. PICK j \in Job : CallerStep(j)
    BY <1>4
  <2>2. PICK c : caller' = [caller EXCEPT ![j] = c]
    BY <2>1 DEF CallerStep, Return, WaitTimesOut, CheckAlive
  <2>3. caller[j] \in {"waiting", "timedout"}
    BY <2>1 DEF CallerStep, Return, WaitTimesOut, CheckAlive
  <2>. QED  BY <1>3, <2>2, <2>3 DEF Blocked, TypeOK
<1>5. CASE UNCHANGED caller
  BY <1>3, <1>5 DEF Blocked
<1>. QED  BY <1>2, <1>4, <1>5, WorkerInvisible DEF Next, vars

\* A sequence that lists nothing twice is as long as the set it lists.
LEMMA QueueAsSet ==
    ASSUME TypeOK, OwnerInv
    PROVE  Cardinality(Queued) = Len(queue)
<1>. DEFINE f == [k \in 1..Len(queue) |-> queue[k]]
<1>1. queue \in Seq(Job) /\ DOMAIN queue = 1..Len(queue) /\ Len(queue) \in Nat
  BY DEF TypeOK
<1>2. f \in Bijection(1..Len(queue), Queued)
  <2>1. \A k, m \in 1..Len(queue) : f[k] = f[m] => k = m
    BY <1>1 DEF OwnerInv, PlaceInv
  <2>2. \A q \in Queued : \E k \in 1..Len(queue) : f[k] = q
    BY <1>1 DEF Queued
  <2>3. f \in [1..Len(queue) -> Queued]
    BY <1>1 DEF Queued
  <2>. HIDE DEF f
  <2>. QED  BY <2>1, <2>2, <2>3 DEF Bijection, Injection, Surjection, IsInjective
<1>3. IsFiniteSet(1..Len(queue)) /\ Cardinality(1..Len(queue)) = Len(queue)
  BY <1>1, FS_Interval
<1>. HIDE DEF f
<1>. QED  BY <1>2, <1>3, FS_Bijection DEF ExistsBijection

\* While there is a worker, every job on the queue keeps a pool thread
\* blocked, so the unbounded queue is no longer than the pool is large.
THEOREM QueueBounded == Spec => []QueueWithinPool
<1>1. Init => Cardinality(Blocked) <= PoolSize
  <2>1. Init => Blocked = {}
    BY DEF Init, Blocked
  <2>. QED  BY <2>1, FS_EmptySet, LimitAssumption
<1>2. TypeOK /\ Cardinality(Blocked) <= PoolSize /\ [Next]_vars
        => (Cardinality(Blocked) <= PoolSize)'
  BY PoolStep
<1>3. TypeOK /\ OwnerInv /\ Cardinality(Blocked) <= PoolSize => QueueWithinPool
  <2>1. SUFFICES ASSUME TypeOK, OwnerInv, Cardinality(Blocked) <= PoolSize,
                        worker # "dead"
                 PROVE  Len(queue) <= PoolSize
    BY DEF QueueWithinPool
  <2>2. Queued \subseteq Blocked
    BY <2>1, QueuedAreJobs DEF OwnerInv, CallInv, PlaceInv, InWorker, Blocked, TypeOK
  <2>3. IsFiniteSet(Blocked) /\ Cardinality(Blocked) \in Nat /\ PoolSize \in Nat
    BY JobAssumption, LimitAssumption, FS_Subset, FS_CardinalityType DEF Blocked
  <2>4. Cardinality(Queued) <= Cardinality(Blocked)
    BY <2>2, <2>3, FS_Subset
  <2>5. Len(queue) \in Nat
    BY <2>1 DEF TypeOK
  <2>. QED  BY <2>1, <2>3, <2>4, <2>5, QueueAsSet
<1>. QED  BY <1>1, <1>2, <1>3, TypeCorrect, Ownership, PTL DEF Spec

----------------------------------------------------------------------------
\* Who shares a group.  A call with anything but strings is alone in its
\* group: its key has a number no other call has, or nothing is merged.
LEMMA TextTogether ==
    ASSUME OwnerInv, NEW i \in group, NEW j \in group, AllText(i)
    PROVE  AllText(j)
<1>1. CASE ~Merge
  BY <1>1 DEF OwnerInv, GroupInv
<1>2. CASE Merge
  <2>1. KeyOf(i) = KeyOf(j)
    BY DEF OwnerInv, GroupInv
  <2>2. KeyOf(i)[2] = {} /\ KeyOf(j)[2] = IF AllText(j) THEN {} ELSE {j}
    BY <1>2 DEF KeyOf
  <2>. QED  BY <2>1, <2>2
<1>. QED  BY <1>1, <1>2

\* So in the group of a call of strings every row is a string ...
LEMMA TextRows ==
    ASSUME IInv, OwnerInv, InForward,
           NEW p \in ChunkRows, AllText(order[p][1])
    PROVE  \A q \in ForwardRows : order[q] \in Text
<1>1. SUFFICES ASSUME NEW q \in ForwardRows PROVE order[q] \in Text
  OBVIOUS
<1>2. /\ order[p][1] \in group /\ order[q][1] \in group /\ order[q] \in Slots
  BY ChunkJobs
<1>3. AllText(order[q][1])
  BY <1>2, TextTogether
<1>. QED  BY <1>2, <1>3 DEF AllText, SlotsOf

\* ... and the forward of any of its rows is computed with the prompt.
LEMMA ComputedPrompted ==
    ASSUME IInv, OwnerInv, InForward, NEW i \in 1..Len(Joined(encoded, Computed)),
           AllText(order[lo + i - 1][1]),
           \A n \in 1..Len(encoded) : AllText(order[lo + n - 1][1]) => encoded[n].prompted
    PROVE  Joined(encoded, Computed)[i].prompted
<1>. DEFINE J == Joined(encoded, Computed)
            m == Len(encoded)
<1>1. /\ lo \in Nat \ {0} /\ m \in Nat /\ Pos = lo + m /\ Head(ends) \in Nat
      /\ Count \in Nat /\ Pos + Count = Head(ends) + 1
      /\ encoded \in Seq(Vector) /\ Len(J) = Head(ends) - lo + 1
  BY ForwardFacts DEF IInv, TypeOK
<1>2. Computed \in Seq(Vector) /\ Len(Computed) = Count
  BY ForwardFacts DEF IInv
<1>3. CASE i <= m
  <2>1. i \in 1..m /\ J[i] = encoded[i]
    BY <1>1, <1>2, <1>3 DEF Joined
  <2>. QED  BY <2>1
<1>4. CASE i > m
  <2>1. i - m \in 1..Count
    <3>1. i \in 1..Len(J)
      OBVIOUS
    <3>. HIDE DEF J, m
    <3>. QED  BY <1>1, <1>4, <3>1
  <2>2. J[i] = Computed[i - m]
    BY <1>1, <1>2, <1>4, <2>1 DEF Joined
  <2>3. lo + i - 1 \in ForwardRows
    BY <1>1, <2>1 DEF ForwardRows
  <2>4. lo + i - 1 \in ChunkRows
    BY <2>3, ChunkJobs
  <2>5. \A q \in ForwardRows : order[q] \in Text
    BY <2>4, TextRows
  <2>. QED  BY <2>1, <2>2, <2>5 DEF Computed
<1>. QED  BY <1>1, <1>3, <1>4

\* A row of a call of strings has its prompt, in the results and, while its
\* chunk is split, among the pieces that came back.
PromptInv ==
    /\ TextKeepsPrompt
    /\ worker = "process" =>
          \A n \in 1..Len(encoded) :
             AllText(order[lo + n - 1][1]) => encoded[n].prompted

\* Only a forward adds rows, and those of a call of strings have the prompt.
LEMMA PromptStep ==
    ASSUME IInv, OwnerInv, PromptInv, [Next]_vars
    PROVE  PromptInv'
<1>. USE DEF PromptInv
<1>. DEFINE J == Joined(encoded, Computed)
<1>1. CASE /\ UNCHANGED results
           /\ worker' # "process" \/ encoded' = <<>>
  BY <1>1 DEF TextKeepsPrompt, AllText, SlotsOf
<1>2. CASE UNCHANGED <<results, worker, encoded, order, lo>>
  BY <1>2 DEF TextKeepsPrompt, AllText, SlotsOf
<1>3. CASE ForwardPiece
  <2>1. /\ InForward /\ encoded' = J /\ UNCHANGED <<results, order, lo, worker>>
    BY <1>3 DEF ForwardPiece, groupVars, jobVars
  <2>2. \A n \in 1..Len(J) : AllText(order[lo + n - 1][1]) => J[n].prompted
    BY <2>1, ComputedPrompted DEF InForward
  <2>. HIDE DEF J
  <2>. QED  BY <2>1, <2>2 DEF TextKeepsPrompt, AllText, SlotsOf
<1>4. CASE ForwardChunk
  <2>1. /\ InForward /\ Len(ends) = 1 /\ encoded' = <<>> /\ results' = Scattered(J)
    BY <1>4 DEF ForwardChunk
  <2>. DEFINE h == Head(ends)
  <2>2. lo \in Nat \ {0} /\ h \in Nat /\ Len(J) = h - lo + 1 /\ ChunkRows = lo..h
    BY <2>1, ForwardFacts DEF IInv, ChunkRows
  <2>. HIDE DEF h
  <2>3. \A n \in 1..Len(J) : AllText(order[lo + n - 1][1]) => J[n].prompted
    BY <2>1, ComputedPrompted DEF InForward
  <2>. HIDE DEF J
  <2>4. ASSUME NEW s \in Slots, AllText(s[1]), results'[s] # None
        PROVE  results'[s].prompted
    <3>1. CASE \E p \in ChunkRows : order[p] = s
      <4>1. PICK q \in ChunkRows : /\ q = (CHOOSE p \in ChunkRows : order[p] = s)
                                   /\ order[q] = s
        BY <3>1
      <4>2. q - lo + 1 \in 1..Len(J) /\ lo + (q - lo + 1) - 1 = q
        <5>1. q \in lo..h
          BY <2>2
        <5>. QED  BY <2>2, <5>1
      <4>3. results'[s] = J[q - lo + 1]
        BY <2>1, <3>1, <4>1 DEF Scattered
      <4>. QED  BY <2>3, <2>4, <4>1, <4>2, <4>3
    <3>2. CASE ~\E p \in ChunkRows : order[p] = s
      <4>1. results'[s] = results[s]
        BY <2>1, <3>2 DEF Scattered
      <4>. QED  BY <2>4, <4>1 DEF TextKeepsPrompt
    <3>. QED  BY <3>1, <3>2
  <2>. QED  BY <2>1, <2>4 DEF TextKeepsPrompt, AllText, SlotsOf
<1>5. CASE \/ \E j \in Job : Submit(j) \/ CallerStep(j)
           \/ OutOfMemorySplits \/ UNCHANGED vars
  BY <1>2, <1>5 DEF Submit, CallerStep, Return, WaitTimesOut, CheckAlive,
     OutOfMemorySplits, groupVars, chunkVars, jobVars, vars
<1>6. CASE \/ StartupSucceeds \/ StartupFails \/ TakeFirst \/ TakeQueued
           \/ StopTaking \/ TakeLate \/ WindowCloses \/ Die
  <2>1. UNCHANGED results /\ worker' # "process"
    BY <1>6 DEF StartupSucceeds, StartupFails, TakeFirst, TakeQueued,
       StopTaking, TakeLate, WindowCloses, Die, AfterFirst, jobVars
  <2>. QED  BY <1>1, <2>1
<1>7. CASE \E j \in left : StartGroup(j) \/ GroupFails(j)
  BY <1>1, <1>7 DEF StartGroup, GroupFails, NextGroupOrRound, jobVars
<1>8. CASE \E e \in lo..Len(order) : NextChunk(e)
  BY <1>2, <1>8 DEF NextChunk, groupVars, jobVars
<1>9. CASE OutOfMemoryRaises \/ ForwardRaises
  BY <1>1, <1>9 DEF OutOfMemoryRaises, ForwardRaises, ChunkFails
<1>10. CASE FinishGroup
  BY <1>1, <1>10 DEF FinishGroup, NextGroupOrRound
<1>. QED
  BY <1>3, <1>4, <1>5, <1>6, <1>7, <1>8, <1>9, <1>10 DEF Next, WorkerStep

\* A call of strings only is encoded with its prompt prefix on every row,
\* whoever it shares its forwards with: family.encode drops the prefix when
\* one input of the forward is not a string, and no such input is ever put
\* into a forward with a row of this call, however groups are cut and split.
THEOREM PromptKept == Spec => []TextKeepsPrompt
<1>1. Init => PromptInv
  BY DEF Init, PromptInv, TextKeepsPrompt
<1>2. IInv /\ OwnerInv /\ PromptInv /\ [Next]_vars => PromptInv'
  BY PromptStep
<1>3. PromptInv => TextKeepsPrompt
  BY DEF PromptInv
<1>. QED  BY <1>1, <1>2, <1>3, Invariant, Ownership, PTL DEF Spec

----------------------------------------------------------------------------
\* A job gets an out-of-memory error only from a forward of one row, which
\* does not fit alone; that row and the job are in one group.
LEMMA OomSource ==
    ASSUME IInv, OwnerInv, [Next]_vars, NEW j \in Job,
           error'[j] = "oom", error[j] # "oom"
    PROVE  j \in group /\ \E s \in Oversize : s[1] \in group
<1>0. TypeOK
  BY DEF IInv
<1>1. CASE \E i \in left : GroupFails(i)
  <2>1. PICK i \in left : Fail(Mates(i), "error")
    BY <1>1 DEF GroupFails
  <2>2. error'[j] \in {error[j], "error"}
    BY <1>0, <2>1, FailKeeps
  <2>. QED  BY <2>2
<1>2. CASE ForwardRaises
  <2>1. Fail({order[p][1] : p \in ChunkRows}, "error")
    BY <1>2 DEF ForwardRaises, ChunkFails
  <2>2. error'[j] \in {error[j], "error"}
    BY <1>0, <2>1, FailKeeps
  <2>. QED  BY <2>2
<1>3. CASE OutOfMemoryRaises
  <2>1. InForward /\ MayExhaust /\ ~Splittable(Count)
    BY <1>3 DEF OutOfMemoryRaises
  <2>2. CannotFit
    BY <2>1 DEF MayExhaust, Splittable
  <2>3. PICK q \in ForwardRows : order[q] \in Oversize
    BY <2>2 DEF CannotFit
  <2>4. {order[p][1] : p \in ChunkRows} \subseteq group /\ q \in ChunkRows
    BY <2>1, ChunkJobs
  <2>5. Fail({order[p][1] : p \in ChunkRows}, "oom")
    BY <1>3 DEF OutOfMemoryRaises, ChunkFails
  <2>6. j \in {order[p][1] : p \in ChunkRows}
    BY <1>0, <2>5, FailKeeps
  <2>. QED  BY <2>3, <2>4, <2>6
<1>4. CASE UNCHANGED error
  BY <1>4
<1>5. UNCHANGED error \/ ForwardRaises \/ OutOfMemoryRaises
      \/ \E i \in left : GroupFails(i)
  BY DEF Next, WorkerStep, Submit, CallerStep, Return, WaitTimesOut, CheckAlive,
         StartupSucceeds, StartupFails, TakeFirst, TakeQueued, StopTaking,
         TakeLate, WindowCloses, Die, StartGroup, NextChunk, ForwardPiece,
         ForwardChunk, OutOfMemorySplits, FinishGroup, vars, jobVars
<1>. QED  BY <1>1, <1>2, <1>3, <1>4, <1>5

\* An out-of-memory error is only answered when some row with the same key
\* does not fit by itself: rows that merely do not fit together are split by
\* _encode_with_backoff until each has been tried alone.
THEOREM OomIsEarned == Spec => []OomHasCulprit
<1>1. Init => OomHasCulprit
  BY DEF Init, OomHasCulprit
<1>2. IInv /\ OwnerInv /\ OomHasCulprit /\ [Next]_vars => OomHasCulprit'
  <2>1. SUFFICES ASSUME IInv, OwnerInv, OomHasCulprit, [Next]_vars,
                        NEW j \in Job, error'[j] = "oom"
                 PROVE  \E s \in Oversize : KeyOf(s[1]) = KeyOf(j)
    BY DEF OomHasCulprit, KeyOf, AllText, SlotsOf
  <2>2. CASE error[j] = "oom"
    BY <2>1, <2>2 DEF OomHasCulprit
  <2>3. CASE error[j] # "oom"
    <3>1. PICK s \in Oversize : j \in group /\ s[1] \in group
      BY <2>1, <2>3, OomSource
    <3>2. KeyOf(s[1]) = KeyOf(j)
      BY <2>1, <3>1 DEF OwnerInv, GroupInv
    <3>. QED  BY <3>2
  <2>. QED  BY <2>2, <2>3
<1>. QED  BY <1>1, <1>2, Invariant, Ownership, PTL DEF Spec

\* With merging off the worker runs one job per forward, as engine.load says
\* of JINA_BATCHING: what is queued meanwhile waits for its own round.
THEOREM AloneInForward ==
    ASSUME ~Merge PROVE Spec => []OneJobPerForward
<1>1. IInv /\ OwnerInv => OneJobPerForward
  <2>1. SUFFICES ASSUME IInv, OwnerInv, InForward,
                        NEW p \in ForwardRows, NEW q \in ForwardRows
                 PROVE  order[p][1] = order[q][1]
    BY DEF OneJobPerForward
  <2>2. order[p][1] \in group /\ order[q][1] \in group
    BY <2>1, ChunkJobs
  <2>. QED  BY <2>1, <2>2 DEF OwnerInv, GroupInv
<1>. QED  BY <1>1, Invariant, Ownership, PTL

\* With merging off nobody is answered "the input itself does not fit"
\* because of another caller's input.
THEOREM AloneBlamed ==
    ASSUME ~Merge PROVE Spec => []OomMeansOwnRow
<1>1. Init => OomMeansOwnRow
  BY DEF Init, OomMeansOwnRow
<1>2. IInv /\ OwnerInv /\ OomMeansOwnRow /\ [Next]_vars => OomMeansOwnRow'
  <2>1. SUFFICES ASSUME IInv, OwnerInv, OomMeansOwnRow, [Next]_vars,
                        NEW j \in Job, error'[j] = "oom"
                 PROVE  \E s \in Oversize : s[1] = j
    BY DEF OomMeansOwnRow
  <2>2. CASE error[j] = "oom"
    BY <2>1, <2>2 DEF OomMeansOwnRow
  <2>3. CASE error[j] # "oom"
    <3>1. PICK s \in Oversize : j \in group /\ s[1] \in group
      BY <2>1, <2>3, OomSource
    <3>2. s[1] = j
      BY <2>1, <3>1 DEF OwnerInv, GroupInv
    <3>. QED  BY <3>2
  <2>. QED  BY <2>2, <2>3
<1>. QED  BY <1>1, <1>2, Invariant, Ownership, PTL DEF Spec

----------------------------------------------------------------------------
\* Counting rows.  A row is counted when a forward has brought it back, and
\* until then it is in the round or among the rows of the group from Pos on.
TakenRows == {s \in Slots : caller[s[1]] # "idle" /\ s[1] \notin Queued}

RowsAhead == IF worker = "process" THEN Len(order) - Pos + 1 ELSE 0

CountInv ==
    batchedRows + Cardinality(SlotsOf(left)) + RowsAhead <= Cardinality(TakenRows)

\* The rows of two disjoint sets of jobs, and of part of one.
LEMMA SlotsOfUnion ==
    ASSUME NEW is, NEW js, is \cap js = {}
    PROVE  Cardinality(SlotsOf(is \cup js)) =
              Cardinality(SlotsOf(is)) + Cardinality(SlotsOf(js))
<1>1. /\ SlotsOf(is \cup js) = SlotsOf(is) \cup SlotsOf(js)
      /\ SlotsOf(is) \cap SlotsOf(js) = {}
  BY DEF SlotsOf
<1>2. IsFiniteSet(SlotsOf(is)) /\ IsFiniteSet(SlotsOf(js))
  BY SlotsOfFacts, SlotsFinite, FS_Subset
<1>. DEFINE A == SlotsOf(is)
            B == SlotsOf(js)
<1>3. Cardinality(A \cap B) = 0
  BY <1>1, FS_EmptySet
<1>4. Cardinality(A \cup B) = Cardinality(A) + Cardinality(B) - Cardinality(A \cap B)
  BY <1>2, FS_Union
<1>5. Cardinality(A) \in Nat /\ Cardinality(B) \in Nat /\ SlotsOf(is \cup js) = A \cup B
  BY <1>1, SlotsOfFacts
<1>. HIDE DEF A, B
<1>. DEFINE a == Cardinality(A)
            b == Cardinality(B)
            c == Cardinality(A \cup B)
<1>6. c = a + b
  <2>1. a \in Nat /\ b \in Nat /\ c = a + b - 0
    BY <1>3, <1>4, <1>5
  <2>. HIDE DEF a, b, c
  <2>. QED  BY <2>1
<1>. QED  BY <1>5, <1>6 DEF A, B

\* The rows of some jobs and of the others add up.
LEMMA SlotsOfLess ==
    ASSUME NEW js, NEW is \in SUBSET js
    PROVE  Cardinality(SlotsOf(js)) =
              Cardinality(SlotsOf(js \ is)) + Cardinality(SlotsOf(is))
<1>1. (js \ is) \cup is = js /\ (js \ is) \cap is = {}
  OBVIOUS
<1>. QED  BY <1>1, SlotsOfUnion

\* The arithmetic of the steps below, for any numbers.
LEMMA Sums ==
    ASSUME NEW b \in Int, NEW c \in Int, NEW r \in Int, NEW t \in Int,
           NEW bb \in Int, NEW cc \in Int, NEW rr \in Int,
           b + c + r <= t
    PROVE  /\ bb + rr <= b + r => bb + c + rr <= t
           /\ cc <= c + r - rr => b + cc + rr <= t
OBVIOUS

\* The same, for what still lies ahead.
LEMMA Differences ==
    ASSUME NEW c \in Int, NEW r \in Int, NEW cc \in Int, NEW rr \in Int
    PROVE  /\ cc <= c /\ rr <= r => cc <= c + r - rr
           /\ c = cc + rr /\ r = 0 => cc <= c + r - rr
OBVIOUS

\* The rows taken are finitely many.
LEMMA TakenIsNumber == Cardinality(TakenRows) \in Nat /\ IsFiniteSet(TakenRows)
BY SlotsFinite, FS_Subset, FS_CardinalityType DEF TakenRows

\* The rows ahead are a number, and none when the group is done.
LEMMA AheadFacts ==
    ASSUME IInv
    PROVE  /\ RowsAhead \in Nat
           /\ worker # "process" => RowsAhead = 0
           /\ worker = "process" => RowsAhead = Len(order) - Pos + 1 /\ Pos \in Nat
                                    /\ Len(order) \in Nat
<1>1. CASE worker = "process"
  <2>1. /\ order \in Seq(Slots) /\ lo \in Nat \ {0} /\ encoded \in Seq(Vector)
        /\ lo <= Len(order) + 1
    BY <1>1 DEF IInv, TypeOK, PackInv
  <2>2. Len(order) \in Nat /\ Len(encoded) \in Nat /\ Pos = lo + Len(encoded)
    BY <2>1 DEF Pos
  <2>3. CASE ends = <<>>
    <3>1. Len(encoded) = 0
      BY <1>1, <2>3 DEF IInv, ChunkInv
    <3>. QED  BY <1>1, <2>1, <2>2, <3>1 DEF RowsAhead
  <2>4. CASE ends # <<>>
    <3>1. /\ Count \in Nat /\ Pos + Count = Head(ends) + 1
          /\ Head(ends) \in Nat /\ Head(ends) <= Len(order)
      BY <1>1, <2>4, ForwardFacts DEF InForward, IInv
    <3>2. Pos \in Nat
      BY <2>1, <2>2
    <3>3. Pos <= Len(order) + 1
      BY <2>2, <3>1, <3>2
    <3>. QED  BY <1>1, <2>2, <3>2, <3>3 DEF RowsAhead
  <2>. QED  BY <2>3, <2>4
<1>2. CASE worker # "process"
  BY <1>2 DEF RowsAhead
<1>. QED  BY <1>1, <1>2

----------------------------------------------------------------------------
\* A forward that came back moves its rows from those ahead to the count; one
\* that is split is not counted, its halves are; rows of a chunk that failed
\* are never counted.
LEMMA ForwardCount ==
    ASSUME IInv, IInv', CountInv,
           \/ ForwardPiece \/ ForwardChunk \/ OutOfMemorySplits
           \/ OutOfMemoryRaises \/ ForwardRaises
    PROVE  CountInv'
<1>1. /\ InForward /\ worker = "process"
      /\ UNCHANGED <<caller, queue, worker, left, order>>
  BY DEF ForwardPiece, ForwardChunk, OutOfMemorySplits, OutOfMemoryRaises,
         ForwardRaises, ChunkFails, InForward, roundVars, groupVars
<1>2. /\ TakenRows' = TakenRows /\ SlotsOf(left)' = SlotsOf(left)
  BY <1>1 DEF TakenRows, Queued, SlotsOf
<1>3. /\ RowsAhead = Len(order) - Pos + 1 /\ RowsAhead' = Len(order) - Pos' + 1
      /\ Pos \in Nat /\ Pos' \in Nat /\ Len(order) \in Nat
  <2>1. RowsAhead = Len(order) - Pos + 1 /\ Pos \in Nat /\ Len(order) \in Nat
    BY <1>1, AheadFacts
  <2>2. order \in Seq(Slots) /\ lo' \in Nat /\ encoded' \in Seq(Vector)
    BY DEF IInv, TypeOK
  <2>3. Pos' \in Nat
    BY <2>2 DEF Pos
  <2>. QED  BY <1>1, <2>1, <2>3 DEF RowsAhead
<1>. DEFINE h == Head(ends)
            last == ends[Len(ends)]
            J == Joined(encoded, Computed)
<1>4. /\ lo \in Nat /\ h \in Nat /\ last \in Nat /\ Count \in Nat
      /\ Pos + Count = h + 1 /\ Len(J) = h - lo + 1 /\ h <= last
  <2>1. /\ lo \in Nat /\ h \in Nat /\ last \in Nat /\ Count \in Nat
        /\ Pos + Count = h + 1 /\ Len(J) = h - lo + 1
        /\ h = ends[1] /\ Len(ends) \in Nat \ {0}
    BY <1>1, ForwardFacts DEF IInv
  <2>2. \A k, m \in 1..Len(ends) : k <= m => ends[k] <= ends[m]
    BY <1>1 DEF IInv, ChunkInv, InForward
  <2>3. 1 \in 1..Len(ends) /\ Len(ends) \in 1..Len(ends) /\ 1 <= Len(ends)
    BY <2>1
  <2>. QED  BY <2>1, <2>2, <2>3
<1>5. \/ batchedRows' = batchedRows + Count /\ Pos' = Pos + Count
      \/ batchedRows' = batchedRows /\ Pos' >= Pos
  <2>1. CASE ForwardPiece
    <3>1. batchedRows' = batchedRows + Count /\ encoded' = J /\ lo' = lo
      BY <2>1 DEF ForwardPiece
    <3>2. Pos' = lo + Len(J)
      BY <3>1 DEF Pos
    <3>. HIDE DEF h, J
    <3>. QED  BY <1>3, <1>4, <3>1, <3>2
  <2>2. CASE ForwardChunk
    <3>1. batchedRows' = batchedRows + Count /\ encoded' = <<>> /\ lo' = h + 1
      BY <2>2 DEF ForwardChunk
    <3>2. Pos' = h + 1
      BY <1>4, <3>1 DEF Pos
    <3>. HIDE DEF h, J
    <3>. QED  BY <1>3, <1>4, <3>1, <3>2
  <2>3. CASE OutOfMemorySplits
    <3>1. batchedRows' = batchedRows + 0 /\ Pos' = Pos /\ batchedRows \in Nat
      BY <2>3 DEF OutOfMemorySplits, CountedOnSplit, Pos, IInv, TypeOK
    <3>. QED  BY <1>3, <3>1
  <2>4. CASE OutOfMemoryRaises \/ ForwardRaises
    <3>1. batchedRows' = batchedRows /\ encoded' = <<>> /\ lo' = last + 1
      BY <2>4 DEF OutOfMemoryRaises, ForwardRaises, ChunkFails
    <3>2. Pos' = last + 1
      BY <1>4, <3>1 DEF Pos
    <3>. HIDE DEF h, J, last
    <3>. QED  BY <1>3, <1>4, <3>1, <3>2
  <2>. QED  BY <2>1, <2>2, <2>3, <2>4
<1>. HIDE DEF h, last, J
<1>6. /\ batchedRows' + RowsAhead' <= batchedRows + RowsAhead
      /\ batchedRows \in Nat /\ batchedRows' \in Nat
  <2>1. batchedRows \in Nat /\ batchedRows' \in Nat
    BY DEF IInv, TypeOK
  <2>. QED  BY <1>3, <1>4, <1>5, <2>1
<1>7. /\ RowsAhead \in Int /\ RowsAhead' \in Int
      /\ Cardinality(SlotsOf(left)) \in Nat /\ Cardinality(TakenRows) \in Nat
  BY <1>3, SlotsOfFacts, TakenIsNumber
<1>8. CountInv' <=> batchedRows' + Cardinality(SlotsOf(left)) + RowsAhead'
                       <= Cardinality(TakenRows)
  BY <1>2 DEF CountInv
<1>9. batchedRows + Cardinality(SlotsOf(left)) + RowsAhead <= Cardinality(TakenRows)
  BY DEF CountInv
<1>10. batchedRows' + Cardinality(SlotsOf(left)) + RowsAhead' <= Cardinality(TakenRows)
  <2>1. batchedRows \in Int /\ batchedRows' \in Int /\ Cardinality(SlotsOf(left)) \in Int
        /\ Cardinality(TakenRows) \in Int
    BY <1>6, <1>7
  <2>. QED  BY <1>6, <1>7, <1>9, <2>1, Sums
<1>. QED  BY <1>8, <1>10

\* A step that takes nothing and lets fewer rows lie ahead keeps the count.
LEMMA CountKept ==
    ASSUME IInv, IInv', CountInv, UNCHANGED <<TakenRows, batchedRows>>,
           Cardinality(SlotsOf(left))'
              <= Cardinality(SlotsOf(left)) + RowsAhead - RowsAhead'
    PROVE  CountInv'
<1>1. batchedRows \in Int /\ RowsAhead \in Int /\ RowsAhead' \in Int
  <2>1. RowsAhead \in Nat
    BY AheadFacts
  <2>2. order' \in Seq(Slots) /\ lo' \in Nat /\ encoded' \in Seq(Vector)
    BY DEF IInv, TypeOK
  <2>3. Pos' \in Int /\ Len(order') \in Nat
    BY <2>2 DEF Pos
  <2>4. RowsAhead' \in Int
    BY <2>3 DEF RowsAhead
  <2>. QED  BY <2>1, <2>4 DEF IInv, TypeOK
<1>2. /\ Cardinality(SlotsOf(left)) \in Int /\ Cardinality(TakenRows) \in Int
      /\ Cardinality(SlotsOf(left))' \in Int
  <2>1. Cardinality(SlotsOf(left')) \in Nat /\ SlotsOf(left)' = SlotsOf(left')
    BY SlotsOfFacts DEF SlotsOf
  <2>2. Cardinality(SlotsOf(left)) \in Nat /\ Cardinality(TakenRows) \in Nat
    BY SlotsOfFacts, TakenIsNumber
  <2>. QED  BY <2>1, <2>2
<1>. DEFINE c == Cardinality(SlotsOf(left))
            t == Cardinality(TakenRows)
<1>3. /\ batchedRows + c + RowsAhead <= t /\ t' = t /\ batchedRows' = batchedRows
      /\ c' <= c + RowsAhead - RowsAhead'
  BY DEF CountInv
<1>4. c \in Int /\ t \in Int /\ c' \in Int
  BY <1>2
<1>. HIDE DEF c, t
<1>5. batchedRows + c' + RowsAhead' <= t
  BY <1>1, <1>3, <1>4, Sums
<1>. QED  BY <1>3, <1>5 DEF CountInv, c, t

\* Taking a job: its rows leave the queue and join the round.
LEMMA TakeCount ==
    ASSUME IInv, OwnerInv, CountInv, TakeFirst \/ TakeQueued \/ TakeLate
    PROVE  CountInv'
<1>. DEFINE h == Head(queue)
<1>1. /\ Take /\ UNCHANGED <<caller, batchedRows>>
      /\ worker # "process" /\ worker' # "process"
      /\ left' = left \cup {h}
  BY DEF TakeFirst, TakeQueued, TakeLate, Take, AfterFirst
<1>2. h \in Job /\ h \in Queued /\ Queued' = Queued \ {h}
  <2>1. queue \in Seq(Job)
    BY DEF IInv, TypeOK
  <2>. QED  BY <1>1, <2>1, TakeFacts DEF OwnerInv, PlaceInv
<1>. HIDE DEF h
<1>3. h \notin left /\ caller[h] # "idle"
  BY <1>2 DEF OwnerInv, PlaceInv, CallInv, InWorker
<1>4. /\ TakenRows' = TakenRows \cup SlotsOf({h})
      /\ TakenRows \cap SlotsOf({h}) = {}
  BY <1>1, <1>2, <1>3 DEF TakenRows, SlotsOf
<1>. DEFINE n == Cardinality(SlotsOf({h}))
            c == Cardinality(SlotsOf(left))
            t == Cardinality(TakenRows)
<1>5. n \in Nat /\ c \in Nat /\ t \in Nat /\ batchedRows \in Nat
  BY SlotsOfFacts, TakenIsNumber DEF IInv, TypeOK
<1>6. c' = c + n
  <2>1. left \cap {h} = {} /\ SlotsOf(left)' = SlotsOf(left \cup {h})
    BY <1>1, <1>3 DEF SlotsOf
  <2>. QED  BY <2>1, SlotsOfUnion
<1>7. t' = t + n
  <2>1. IsFiniteSet(SlotsOf({h})) /\ IsFiniteSet(TakenRows)
    BY SlotsOfFacts, SlotsFinite, FS_Subset, TakenIsNumber
  <2>2. Cardinality(TakenRows \cap SlotsOf({h})) = 0
    BY <1>4, FS_EmptySet
  <2>3. t' = t + n - Cardinality(TakenRows \cap SlotsOf({h}))
    BY <1>4, <2>1, FS_Union
  <2>. HIDE DEF t, n
  <2>4. t' = t + n - 0
    BY <2>2, <2>3
  <2>. QED  BY <1>5, <2>4
<1>8. RowsAhead = 0 /\ RowsAhead' = 0
  BY <1>1 DEF RowsAhead
<1>9. batchedRows + c + 0 <= t
  BY <1>8 DEF CountInv
<1>. HIDE DEF n, c, t
<1>10. batchedRows' + c' + 0 <= t'
  BY <1>1, <1>5, <1>6, <1>7, <1>9
<1>. QED  BY <1>8, <1>10 DEF CountInv, c, t

\* The rows of a group that starts are all ahead, and no longer in the round.
LEMMA StartGroupCount ==
    ASSUME IInv, IInv', CountInv, NEW j \in left, StartGroup(j)
    PROVE  CountInv'
<1>. DEFINE S == SlotsOf(Mates(j))
<1>1. /\ left' = left \ Mates(j) /\ order' = Arranged(S) /\ lo' = 1 /\ encoded' = <<>>
      /\ worker = "grouped" /\ worker' = "process"
      /\ UNCHANGED <<caller, queue, batchedRows>>
  BY DEF StartGroup
<1>2. Len(Arranged(S)) = Cardinality(S) /\ Cardinality(S) \in Nat
  <2>1. S \in SUBSET Slots
    BY SlotsOfFacts
  <2>2. \A s \in S : \E k \in DOMAIN jobs : jobs[k] = s[1]
    BY DEF IInv, RoundInv, SlotsOf, Mates
  <2>. QED  BY <2>1, <2>2, ArrangedListsAll DEF IInv, TypeOK
<1>. DEFINE c == Cardinality(SlotsOf(left))
            n == Cardinality(S)
<1>3. c = c' + n /\ c \in Nat /\ c' \in Nat
  <2>1. Mates(j) \in SUBSET left
    BY DEF Mates
  <2>2. SlotsOf(left)' = SlotsOf(left \ Mates(j))
    BY <1>1 DEF SlotsOf
  <2>. QED  BY <2>1, <2>2, SlotsOfLess, SlotsOfFacts
<1>4. RowsAhead = 0 /\ RowsAhead' = n
  <2>1. Pos' = 1 + 0
    BY <1>1 DEF Pos
  <2>2. RowsAhead' = Len(order') - Pos' + 1
    BY <1>1 DEF RowsAhead
  <2>. HIDE DEF S
  <2>3. Len(order') = n
    BY <1>1, <1>2
  <2>. QED  BY <1>1, <1>2, <2>1, <2>2, <2>3 DEF RowsAhead
<1>5. TakenRows' = TakenRows
  BY <1>1 DEF TakenRows, Queued
<1>6. c' <= c + RowsAhead - RowsAhead'
  <2>1. n \in Int
    BY <1>2
  <2>. HIDE DEF c, n
  <2>2. c \in Int /\ c' \in Int /\ RowsAhead \in Int /\ RowsAhead' \in Int
    BY <1>3, <1>4, <2>1
  <2>3. c = c' + RowsAhead' /\ RowsAhead = 0
    BY <1>3, <1>4
  <2>. QED  BY <2>2, <2>3, Differences
<1>. QED  BY <1>1, <1>5, <1>6, CountKept

\* Between forwards rows are only lost: a dead worker's, or a failed group's.
LEMMA OtherCount ==
    ASSUME IInv, IInv', OwnerInv, CountInv,
           \/ \E j \in Job : Submit(j) \/ CallerStep(j)
           \/ StartupSucceeds \/ StartupFails \/ StopTaking \/ WindowCloses
           \/ Die \/ \E j \in left : GroupFails(j)
           \/ \E e \in lo..Len(order) : NextChunk(e)
           \/ FinishGroup \/ UNCHANGED vars
    PROVE  CountInv'
<1>1. UNCHANGED batchedRows /\ left' \subseteq left
  BY DEF Submit, CallerStep, Return, WaitTimesOut, CheckAlive, StartupSucceeds,
     StartupFails, StopTaking, WindowCloses, Die, GroupFails, NextChunk,
     FinishGroup, roundVars, vars
<1>2. TakenRows' = TakenRows
  <2>1. CASE \E j \in Job : Submit(j)
    <3>1. PICK j \in Job : /\ caller[j] = "idle"
                           /\ caller' = [caller EXCEPT ![j] = "waiting"]
                           /\ queue' = Append(queue, j)
      BY <2>1 DEF Submit
    <3>2. Queued' = Queued \cup {j}
      BY <3>1, AppendFacts DEF IInv, TypeOK, OwnerInv, PlaceInv, CallInv, InWorker
    <3>3. \A i \in Job : caller'[i] # "idle" <=> i = j \/ caller[i] # "idle"
      BY <3>1 DEF IInv, TypeOK
    <3>. QED  BY <3>1, <3>2, <3>3, SlotIsPair DEF TakenRows
  <2>2. CASE \E j \in Job : CallerStep(j)
    <3>1. PICK j \in Job : CallerStep(j)
      BY <2>2
    <3>2. PICK c \in {"waiting", "timedout", "returned", "raised", "unserved"} :
             caller' = [caller EXCEPT ![j] = c]
      BY <3>1 DEF CallerStep, Return, WaitTimesOut, CheckAlive, AfterTimeout
    <3>3. caller[j] # "idle" /\ queue' = queue
      BY <3>1 DEF CallerStep, Return, WaitTimesOut, CheckAlive
    <3>4. \A i \in Job : caller'[i] # "idle" <=> caller[i] # "idle"
      BY <3>2, <3>3 DEF IInv, TypeOK
    <3>. QED  BY <3>3, <3>4, SlotIsPair DEF TakenRows, Queued
  <2>3. CASE UNCHANGED <<caller, queue>>
    BY <2>3 DEF TakenRows, Queued
  <2>. QED
    BY <2>1, <2>2, <2>3 DEF StartupSucceeds, StartupFails, StopTaking,
       WindowCloses, Die, GroupFails, NextChunk, FinishGroup, vars
<1>3. RowsAhead' <= RowsAhead /\ RowsAhead \in Nat /\ RowsAhead' \in Int
  <2>1. RowsAhead \in Nat
    BY AheadFacts
  <2>2. CASE worker' # "process"
    BY <2>1, <2>2 DEF RowsAhead
  <2>3. CASE UNCHANGED <<worker, order, lo, encoded>>
    BY <2>1, <2>3 DEF RowsAhead, Pos
  <2>4. worker' # "process" \/ UNCHANGED <<worker, order, lo, encoded>>
    BY DEF Submit, CallerStep, Return, WaitTimesOut, CheckAlive, StartupSucceeds,
       StartupFails, StopTaking, WindowCloses, Die, GroupFails, NextChunk,
       FinishGroup, NextGroupOrRound, groupVars, chunkVars, vars
  <2>. QED  BY <2>2, <2>3, <2>4
<1>. DEFINE c == Cardinality(SlotsOf(left))
<1>4. c' <= c /\ c \in Nat /\ c' \in Nat
  <2>1. SlotsOf(left)' = SlotsOf(left') /\ SlotsOf(left') \in SUBSET SlotsOf(left)
    BY <1>1 DEF SlotsOf
  <2>2. IsFiniteSet(SlotsOf(left))
    BY SlotsOfFacts, SlotsFinite, FS_Subset
  <2>3. Cardinality(SlotsOf(left')) <= Cardinality(SlotsOf(left))
    BY <2>1, <2>2, FS_Subset
  <2>. QED  BY <2>1, <2>3, SlotsOfFacts
<1>5. c' <= c + RowsAhead - RowsAhead'
  <2>. HIDE DEF c
  <2>1. c \in Int /\ c' \in Int /\ RowsAhead \in Int
    BY <1>3, <1>4
  <2>. QED  BY <1>3, <1>4, <2>1, Differences
<1>. QED  BY <1>1, <1>2, <1>5, CountKept

\* telemetry's batched_rows never counts a row twice, however often its
\* forward was split: there are never more rows counted than rows taken.
THEOREM RowsCountedOnce == Spec => []NoRowCountedTwice
<1>1. Init => CountInv
  <2>1. SUFFICES ASSUME Init PROVE CountInv
    OBVIOUS
  <2>2. SlotsOf(left) = {} /\ TakenRows = {} /\ batchedRows = 0 /\ RowsAhead = 0
    BY <2>1, SlotIsPair DEF Init, SlotsOf, TakenRows, RowsAhead
  <2>. QED  BY <2>2, FS_EmptySet DEF CountInv
<1>2. IInv /\ IInv' /\ OwnerInv /\ CountInv /\ [Next]_vars => CountInv'
  BY ForwardCount, TakeCount, StartGroupCount, OtherCount DEF Next, WorkerStep
<1>3. IInv /\ CountInv => NoRowCountedTwice
  <2>1. SUFFICES ASSUME IInv, CountInv PROVE batchedRows <= Cardinality(TakenRows)
    BY DEF NoRowCountedTwice, TakenRows
  <2>2. /\ batchedRows \in Int /\ Cardinality(SlotsOf(left)) \in Nat
        /\ RowsAhead \in Nat /\ Cardinality(TakenRows) \in Nat
    BY <2>1, AheadFacts, SlotsOfFacts, TakenIsNumber DEF IInv, TypeOK
  <2>. QED  BY <2>1, <2>2 DEF CountInv
<1>. QED  BY <1>1, <1>2, <1>3, Invariant, Ownership, PTL DEF Spec
=============================================================================
