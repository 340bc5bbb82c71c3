------------------------------- MODULE Batcher -------------------------------
(***************************************************************************)
(* server/batching.py: the one worker thread that owns the model, and the  *)
(* threadpool threads that block in Batcher.submit until it has answered   *)
(* them.  One action per step that another thread can observe, or that the *)
(* model (an external program) decides.                                    *)
(*                                                                         *)
(* A row is a slot <<j, i>>, input i of call j.  The vector the model      *)
(* computes is abstracted to the slot it was computed from and to whether  *)
(* the prompt prefix was applied, which families/embedding.py does only    *)
(* when every row of the forward is a string.                              *)
(*                                                                         *)
(* The sentinel None is not modelled: nothing in the repository puts one   *)
(* on the queue.  int(budget * 0.7) is exact rational arithmetic here; the *)
(* double product may be one token lower at a multiple of ten.             *)
(***************************************************************************)
EXTENDS Integers, Sequences, FiniteSets

CONSTANTS
    Job,            \* the calls of submit(), one _Job each
    Size,           \* Size[j]: len(job.inputs)
    Tokens,         \* Tokens[<<j, i>>]: job.lengths[i]
    Text,           \* the slots whose input is a str
    Oversize,       \* the slots whose row alone exhausts GPU memory
    BaseKey,        \* task, prompt, normalisation and extras of each call
    Merge,          \* settings.batching
    Window,         \* wait_ms > 0
    StartupBudget,  \* what startup() returns
    MaxRows,        \* MAX_ROWS
    CollectRows,    \* COLLECT_ROWS
    MinTokens,      \* MIN_TOKENS
    PoolSize,       \* threads in the web server's pool of synchronous handlers
    None            \* a result not filled in yet

Slots == UNION {{j} \X (1..Size[j]) : j \in Job}

Vector == [of : Slots, prompted : BOOLEAN]

ASSUME JobAssumption ==
    /\ IsFiniteSet(Job)
    /\ Size \in [Job -> Nat]
    /\ Tokens \in [Slots -> Nat]
    /\ Text \subseteq Slots
    /\ Oversize \subseteq Slots
ASSUME LimitAssumption ==
    /\ StartupBudget \in Int
    /\ {MaxRows, CollectRows, MinTokens, PoolSize} \subseteq Nat \ {0}
    /\ {Merge, Window} \subseteq BOOLEAN
ASSUME NoneAssumption == None \notin Vector

VARIABLES
    caller,       \* where each call of submit() is
    queue,        \* self._queue
    worker,       \* where the worker thread is in _run
    jobs,         \* the jobs of this round, in the order they were taken
    left,         \* those of them whose group has not been processed
    group,        \* the jobs _process is working on
    order,        \* their rows, in the order they are packed
    lo,           \* the first row of order that no finished chunk covers
    ends,         \* last row of each pending forward of this chunk, next first
    encoded,      \* rows this chunk has got back so far
    packed,       \* the budget _pack read
    results,      \* job.results, all jobs
    error,        \* job.error
    event,        \* job.event
    budget,       \* self._budget
    batchedRows   \* telemetry's batched_rows

roundVars == <<jobs, left>>
groupVars == <<group, order, packed>>
chunkVars == <<lo, ends, encoded>>
jobVars   == <<results, error, event>>
vars == <<caller, queue, worker, jobs, left, group, order, lo, ends, encoded,
          packed, results, error, event, budget, batchedRows>>

Max2(a, b) == IF a >= b THEN a ELSE b
Min2(a, b) == IF a <= b THEN a ELSE b

SlotsOf(js) == {s \in Slots : s[1] \in js}
Queued == {queue[k] : k \in DOMAIN queue}

----------------------------------------------------------------------------
\* What may share a forward: engine._dispatch's key.  A call with anything
\* but strings gets next(_solo), a number no other call has.
AllText(j) == SlotsOf({j}) \subseteq Text

KeyOf_NoSolo(j) == <<BaseKey[j], {}>>

KeyOf(j) == <<BaseKey[j], IF Merge /\ ~AllText(j) THEN {j} ELSE {}>>

\* sorted() is stable: rows of equal length stay in the order the group
\* was flattened in.  Without merging the flattened order is kept.
Arrival(j) == CHOOSE k \in DOMAIN jobs : jobs[k] = j

Precedes(s, t) ==
    LET length(r) == IF Merge THEN Tokens[r] ELSE 0
        a == Arrival(s[1])
        b == Arrival(t[1])
    IN  \/ length(s) < length(t)
        \/ length(s) = length(t) /\ a < b
        \/ length(s) = length(t) /\ a = b /\ s[2] < t[2]

Place(s, S) == Cardinality({t \in S : Precedes(t, s)}) + 1

Arranged(S) == [p \in 1..Cardinality(S) |-> CHOOSE s \in S : Place(s, S) = p]

\* _pack: rows lo..e fit the padded budget.  The rows are sorted, so the last
\* one is the longest.  A first row is always admitted.
Fits(e) == /\ (e - lo + 1) * Tokens[order[e]] <= packed
           /\ e - lo + 1 <= MaxRows

ClosesChunk(e) == /\ \A k \in lo + 1..e : Fits(k)
                  /\ e < Len(order) => ~Fits(e + 1)

\* The pending forward: rows Pos .. Head(ends), the pieces before it done.
Pos   == lo + Len(encoded)
Count == Head(ends) - Pos + 1
ForwardRows == Pos..Head(ends)
ChunkRows   == lo..ends[Len(ends)]

CannotFit == \E p \in ForwardRows : order[p] \in Oversize

\* Several rows may exhaust memory together, whatever each costs alone.
MayExhaust == Count > 1 \/ CannotFit

\* family.encode on those rows, in order; prompt_name goes with the call only
\* if every input of the forward is a string.
Computed == [i \in 1..Count |->
                [of |-> order[Pos + i - 1],
                 prompted |-> \A p \in ForwardRows : order[p] \in Text]]

Joined_TailFirst(head, tail) == tail \o head

Joined(head, tail) == head \o tail

\* job.results[index] = encoded[position] for each row of the chunk.
Scattered(rows) ==
    [s \in Slots |->
        IF \E p \in ChunkRows : order[p] = s
        THEN rows[(CHOOSE p \in ChunkRows : order[p] = s) - lo + 1]
        ELSE results[s]]

Shrunk_NoFloor(b) == (b * 7) \div 10

Shrunk_RaisesToFloor(b) == Max2(MinTokens, (b * 7) \div 10)

\* The floor never lifts a budget that was configured below it.
Shrunk(b) == Max2(Min2(MinTokens, b), (b * 7) \div 10)

\* A forward of one row has nothing left to split.
Splittable_FromThree(n) == n > 2

Splittable(n) == n # 1

CountedOnSplit_Parent(n) == n

CountedOnSplit(n) == 0

----------------------------------------------------------------------------
Init ==
    /\ caller = [j \in Job |-> "idle"]
    /\ queue = <<>>
    /\ worker = "startup"
    /\ jobs = <<>> /\ left = {}
    /\ group = {} /\ order = <<>> /\ packed = 1
    /\ lo = 1 /\ ends = <<>> /\ encoded = <<>>
    /\ results = [s \in Slots |-> None]
    /\ error = [j \in Job |-> "none"]
    /\ event = [j \in Job |-> FALSE]
    /\ budget = 1
    /\ batchedRows = 0

Blocked == {j \in Job : caller[j] \in {"waiting", "timedout"}}

\* submit: a pool thread enqueues its job.  Batcher() has returned by then.
Submit(j) ==
    /\ worker \notin {"startup", "failed"}
    /\ caller[j] = "idle"
    /\ Cardinality(Blocked) < PoolSize
    /\ caller' = [caller EXCEPT ![j] = "waiting"]
    /\ queue' = Append(queue, j)
    /\ UNCHANGED <<worker, roundVars, groupVars, chunkVars, jobVars, budget,
                   batchedRows>>

\* submit: event.wait() was true; raise job.error or return job.results.
Return(j) ==
    /\ caller[j] = "waiting"
    /\ event[j]
    /\ caller' = [caller EXCEPT ![j] =
                    IF error[j] = "none" THEN "returned" ELSE "raised"]
    /\ UNCHANGED <<queue, worker, roundVars, groupVars, chunkVars, jobVars,
                   budget, batchedRows>>

\* submit: event.wait(_LIVENESS_POLL_S) came back false ...
WaitTimesOut(j) ==
    /\ caller[j] = "waiting"
    /\ ~event[j]
    /\ caller' = [caller EXCEPT ![j] = "timedout"]
    /\ UNCHANGED <<queue, worker, roundVars, groupVars, chunkVars, jobVars,
                   budget, batchedRows>>

AfterTimeout_Deadline == "unserved"

AfterTimeout_NoCheck == "waiting"

AfterTimeout == IF worker = "dead" THEN "unserved" ELSE "waiting"

\* ... and, later, the thread is asked whether the worker is still alive.
CheckAlive(j) ==
    /\ caller[j] = "timedout"
    /\ caller' = [caller EXCEPT ![j] = AfterTimeout]
    /\ UNCHANGED <<queue, worker, roundVars, groupVars, chunkVars, jobVars,
                   budget, batchedRows>>

CallerStep(j) == Return(j) \/ WaitTimesOut(j) \/ CheckAlive(j)

----------------------------------------------------------------------------
FirstBudget == IF Merge THEN Max2(StartupBudget, 1) ELSE 1

\* _run: warm up and size the budget; without batching there is no startup.
StartupSucceeds ==
    /\ worker = "startup"
    /\ worker' = "idle"
    /\ budget' = FirstBudget
    /\ UNCHANGED <<caller, queue, roundVars, groupVars, chunkVars, jobVars,
                   batchedRows>>

\* The warm-up raised: Batcher() re-raises it and the thread ends.
StartupFails ==
    /\ worker = "startup"
    /\ Merge
    /\ worker' = "failed"
    /\ UNCHANGED <<caller, queue, roundVars, groupVars, chunkVars, jobVars,
                   budget, batchedRows>>

Take == /\ queue # <<>>
        /\ jobs' = Append(jobs, Head(queue))
        /\ left' = left \cup {Head(queue)}
        /\ queue' = Tail(queue)

RowsCollected == Cardinality(SlotsOf(left))

AfterFirst_AlwaysCollect == "collect"

AfterFirst == IF Merge THEN "collect" ELSE "grouped"

\* _run: first = self._queue.get(); without merging it is alone.
TakeFirst ==
    /\ worker = "idle"
    /\ Take
    /\ worker' = AfterFirst
    /\ UNCHANGED <<caller, groupVars, chunkVars, jobVars, budget, batchedRows>>

\* _collect: whatever is already queued is taken without waiting ...
TakeQueued ==
    /\ worker = "collect"
    /\ RowsCollected < CollectRows
    /\ Take
    /\ UNCHANGED <<caller, worker, groupVars, chunkVars, jobVars, budget,
                   batchedRows>>

\* ... until the queue is empty or there are rows enough; the window opens
\* only if there was more than one job.
StopTaking ==
    /\ worker = "collect"
    /\ queue = <<>> \/ RowsCollected >= CollectRows
    /\ worker' = IF Len(jobs) > 1 /\ Window THEN "window" ELSE "grouped"
    /\ UNCHANGED <<caller, queue, roundVars, groupVars, chunkVars, jobVars,
                   budget, batchedRows>>

TakeLate ==
    /\ worker = "window"
    /\ RowsCollected < CollectRows
    /\ Take
    /\ UNCHANGED <<caller, worker, groupVars, chunkVars, jobVars, budget,
                   batchedRows>>

\* The deadline passed (with jobs queued or not), or there are rows enough.
WindowCloses ==
    /\ worker = "window"
    /\ worker' = "grouped"
    /\ UNCHANGED <<caller, queue, roundVars, groupVars, chunkVars, jobVars,
                   budget, batchedRows>>

\* Nothing guards get, _collect and the grouping: an exception there ends the
\* thread, and the jobs it had taken go with it.
Die ==
    /\ \/ worker \in {"idle", "collect", "window"}
       \/ worker = "grouped" /\ left = {jobs[k] : k \in DOMAIN jobs}
    /\ worker' = "dead"
    /\ jobs' = <<>> /\ left' = {}
    /\ UNCHANGED <<caller, queue, groupVars, chunkVars, jobVars, budget,
                   batchedRows>>

\* The next group in the order the dict got its keys: the mates of the
\* earliest job that has not been processed.
Mates(j) == {i \in left : KeyOf(i) = KeyOf(j)}

Earliest(j) == /\ j \in left
               /\ \A i \in left : Arrival(j) <= Arrival(i)

RoundGoesOn_OneGroup(rest) == FALSE

RoundGoesOn(rest) == rest # {}

NextGroupOrRound(rest) ==
    /\ worker' = IF RoundGoesOn(rest) THEN "grouped" ELSE "idle"
    /\ jobs' = IF RoundGoesOn(rest) THEN jobs ELSE <<>>

\* _process begins: flatten the group, sort its rows if merging, pack.
StartGroup(j) ==
    /\ worker = "grouped"
    /\ Earliest(j)
    /\ group' = Mates(j)
    /\ left' = left \ Mates(j)
    /\ order' = Arranged(SlotsOf(Mates(j)))
    /\ packed' = budget
    /\ lo' = 1
    /\ ends' = IF Merge THEN <<>> ELSE <<Cardinality(SlotsOf(Mates(j)))>>
    /\ encoded' = <<>>
    /\ worker' = "process"
    /\ UNCHANGED <<caller, queue, jobs, jobVars, budget, batchedRows>>

ErrorAfter_Last(j, exc) == exc

\* _fail keeps the first error a job met ...
ErrorAfter(j, exc) == IF error[j] = "none" THEN exc ELSE error[j]

\* ... and sets the event at once, other chunks of the job pending or not.
Fail(js, exc) ==
    /\ error' = [j \in Job |-> IF j \in js THEN ErrorAfter(j, exc) ELSE error[j]]
    /\ event' = [j \in Job |-> event[j] \/ j \in js]

\* _process raised before its first chunk: _run fails the whole group.
GroupFails(j) ==
    /\ worker = "grouped"
    /\ Earliest(j)
    /\ left' = left \ Mates(j)
    /\ Fail(Mates(j), "error")
    /\ NextGroupOrRound(left \ Mates(j))
    /\ UNCHANGED <<caller, queue, groupVars, chunkVars, results, budget,
                   batchedRows>>

NextChunk(e) ==
    /\ worker = "process" /\ ends = <<>>
    /\ e \in lo..Len(order)
    /\ ClosesChunk(e)
    /\ ends' = <<e>>
    /\ UNCHANGED <<caller, queue, worker, roundVars, groupVars, lo, encoded,
                   jobVars, budget, batchedRows>>

InForward == worker = "process" /\ ends # <<>>

\* The forward of a piece of a split chunk: its rows wait for the rest.
ForwardPiece ==
    /\ InForward /\ Len(ends) > 1
    /\ ~CannotFit
    /\ encoded' = Joined(encoded, Computed)
    /\ ends' = Tail(ends)
    /\ batchedRows' = batchedRows + Count
    /\ UNCHANGED <<caller, queue, worker, roundVars, groupVars, lo, jobVars,
                   budget>>

\* The forward of a whole chunk, or of its last piece: scatter the rows.
ForwardChunk ==
    /\ InForward /\ Len(ends) = 1
    /\ ~CannotFit
    /\ results' = Scattered(Joined(encoded, Computed))
    /\ batchedRows' = batchedRows + Count
    /\ lo' = Head(ends) + 1 /\ ends' = <<>> /\ encoded' = <<>>
    /\ UNCHANGED <<caller, queue, worker, roundVars, groupVars, error, event,
                   budget>>

\* _encode_with_backoff: out of memory with rows to split between two halves.
OutOfMemorySplits ==
    /\ InForward
    /\ MayExhaust /\ Splittable(Count)
    /\ budget' = Shrunk(budget)
    /\ ends' = <<Pos + (Count \div 2) - 1>> \o ends
    /\ batchedRows' = batchedRows + CountedOnSplit(Count)
    /\ UNCHANGED <<caller, queue, worker, roundVars, groupVars, lo, encoded,
                   jobVars>>

\* The exception leaves every level of the backoff: the pieces that came back
\* are dropped and every job with a row in the chunk fails.
ChunkFails(exc) ==
    /\ Fail({order[p][1] : p \in ChunkRows}, exc)
    /\ lo' = ends[Len(ends)] + 1 /\ ends' = <<>> /\ encoded' = <<>>
    /\ UNCHANGED <<caller, queue, worker, roundVars, groupVars, results,
                   budget, batchedRows>>

OutOfMemoryRaises ==
    /\ InForward
    /\ MayExhaust /\ ~Splittable(Count)
    /\ ChunkFails("oom")

\* Anything else the model, or the check of its row count, may raise.
ForwardRaises ==
    /\ InForward
    /\ ChunkFails("error")

\* Every chunk tried: wake the callers that no chunk has failed.
FinishGroup ==
    /\ worker = "process" /\ ends = <<>>
    /\ lo > Len(order)
    /\ event' = [j \in Job |-> event[j] \/ (j \in group /\ error[j] = "none")]
    /\ group' = {} /\ order' = <<>>
    /\ NextGroupOrRound(left)
    /\ UNCHANGED <<caller, queue, left, packed, chunkVars, results, error,
                   budget, batchedRows>>

WorkerStep ==
    \/ StartupSucceeds \/ StartupFails
    \/ TakeFirst \/ TakeQueued \/ StopTaking \/ TakeLate \/ WindowCloses
    \/ \E j \in left : StartGroup(j) \/ GroupFails(j)
    \/ \E e \in lo..Len(order) : NextChunk(e)
    \/ ForwardPiece \/ ForwardChunk
    \/ OutOfMemorySplits \/ OutOfMemoryRaises \/ ForwardRaises
    \/ FinishGroup

Next == WorkerStep \/ Die \/ \E j \in Job : Submit(j) \/ CallerStep(j)

Spec == Init /\ [][Next]_vars

\* Threads are scheduled and a forward ends; nobody has to send a request.
FairSpec == /\ Spec
            /\ WF_vars(WorkerStep)
            /\ \A j \in Job : WF_vars(CallerStep(j))
----------------------------------------------------------------------------
\* Every variable keeps its type; the token budget stays positive, which the
\* packing of the next group divides the rows by.
TypeOK ==
    /\ caller \in [Job -> {"idle", "waiting", "timedout", "returned", "raised",
                           "unserved"}]
    /\ queue \in Seq(Job)
    /\ worker \in {"startup", "failed", "idle", "collect", "window", "grouped",
                   "process", "dead"}
    /\ jobs \in Seq(Job) /\ left \subseteq Job
    /\ group \subseteq Job /\ order \in Seq(Slots) /\ packed \in Nat \ {0}
    /\ lo \in Nat \ {0} /\ ends \in Seq(Nat) /\ encoded \in Seq(Vector)
    /\ results \in [Slots -> Vector \cup {None}]
    /\ error \in [Job -> {"none", "oom", "error"}]
    /\ event \in [Job -> BOOLEAN]
    /\ budget \in Nat \ {0}
    /\ batchedRows \in Nat

\* A call that returned has a vector for every input, and each is the vector
\* of that very input: flattening, sorting, packing, halving on OOM and
\* scattering back cancel out (module docstring: "scatters the rows back").
Filled(j) == \A s \in SlotsOf({j}) : results[s] # None

OwnRows == \A s \in Slots : results[s] # None => results[s].of = s

EveryRowAnswered == OwnRows /\ \A j \in Job : caller[j] = "returned" => Filled(j)

\* submit reads job.error and job.results without a lock once the event is
\* set.  From then on neither the error nor, if there is none, a row changes,
\* although _fail sets the event while chunks of the job are still to run.
OutcomeFixed ==
    [][\A j \in Job : event[j] =>
          /\ event'[j] /\ error'[j] = error[j]
          /\ error[j] = "none" =>
                \A s \in SlotsOf({j}) : results'[s] = results[s]]_vars

\* A call of strings only is encoded with its prompt prefix on every row,
\* whoever it shares its forwards with ("a batch is homogeneous in everything
\* that changes the forward pass").
TextKeepsPrompt ==
    \A s \in Slots : AllText(s[1]) /\ results[s] # None => results[s].prompted

\* While the worker lives, a job whose caller is blocked is held in exactly
\* one place the worker will come to: the queue (once), this round, which it
\* does not leave before the round is empty, or the group in progress.
Held(j) == <<j \in Queued,
             j \in left /\ worker # "idle",
             j \in group /\ worker = "process">>

NobodyForgotten ==
    \A j \in Blocked : ~event[j] /\ worker # "dead" =>
        /\ Held(j) \in {<<TRUE, FALSE, FALSE>>, <<FALSE, TRUE, FALSE>>,
                        <<FALSE, FALSE, TRUE>>}
        /\ \A k, m \in DOMAIN queue : queue[k] = j /\ queue[m] = j => k = m

\* telemetry's batched_rows never counts a row twice, however often its
\* forward was split ("the halves count themselves").
NoRowCountedTwice == batchedRows <= Cardinality({s \in Slots :
    caller[s[1]] # "idle" /\ s[1] \notin Queued})

\* An out-of-memory error is only answered when some row with the same key
\* does not fit by itself: rows that merely do not fit together are split.
OomHasCulprit ==
    \A j \in Job : error[j] = "oom" =>
        \E s \in Oversize : KeyOf(s[1]) = KeyOf(j)

\* The out-of-memory answer blames the caller's own input, as
\* engine.embed's 413 message does ("so the input itself does not fit").
OomMeansOwnRow ==
    \A j \in Job : error[j] = "oom" => \E s \in Oversize : s[1] = j

\* The backoff never takes the budget below MIN_TOKENS, unless the operator
\* configured less, nor above what start-up set ("silently raising it would
\* turn their deliberate cap into an OOM").
BudgetFloor ==
    worker \notin {"startup", "failed"} =>
        budget \in Min2(MinTokens, FirstBudget)..FirstBudget

\* An out-of-memory error is no reason to try larger batches: after start-up
\* no step raises the budget ("Shrink permanently").
BudgetOnlyShrinks == [][worker # "startup" => budget' <= budget]_vars

\* The pool's size bounds the queue while there is a worker to empty it.
QueueWithinPool == worker # "dead" => Len(queue) <= PoolSize

\* With merging off the worker runs one job per forward (engine.load).
OneJobPerForward ==
    InForward => \A p, q \in ForwardRows : order[p][1] = order[q][1]

\* Every row gets the prompt prefix exactly if its call, encoded directly as
\* without a batcher, would have: grouping rows into forwards does not change
\* what is computed (engine._dispatch: "a merged batch computes exactly what
\* the rows would have computed alone").
PromptIndependentOfChunks ==
    \A s \in Slots : results[s] # None => results[s].prompted = AllText(s[1])

\* No caller waits forever, not even on a thread that has died.
EveryCallEnds ==
    \A j \in Job : caller[j] = "waiting" ~>
        caller[j] \in {"returned", "raised", "unserved"}

\* The batcher implements the service the routes rely on.
ServiceStatus ==
    [j \in Job |-> CASE caller[j] = "idle" -> "new"
                     [] caller[j] \in {"waiting", "timedout"} -> "pending"
                     [] caller[j] = "returned" -> "answered"
                     [] OTHER -> "refused"]

ServiceReply ==
    [j \in Job |-> IF caller[j] = "returned"
                   THEN [i \in 1..Size[j] |-> results[<<j, i>>].of]
                   ELSE <<>>]

Service == INSTANCE EncodeService WITH status <- ServiceStatus,
                                       reply <- ServiceReply

\* Every step is a step of the service or invisible to it ...
ImplementsService == Service!ServiceSafety

\* ... and every call the service accepted ends.
ServiceEnds == Service!ServiceSpec
==============================================================================
