---------------------------- MODULE TokenBudget ----------------------------
(***************************************************************************)
(* How many tokens one forward may hold, and which rows share a forward:   *)
(* engine._initial_budget and batching.autotune_budget size the budget on  *)
(* the worker thread before the server is ready, batching._pack spends it. *)
(* With merging off neither runs, so settings.batching is on throughout.   *)
(*                                                                         *)
(* A probe encodes copies of one fixed text, engine.py's sample, and       *)
(* autotune_budget credits each copy with Length tokens, whatever the      *)
(* sample comes to under the model's tokenizer.                            *)
(* GPU memory is external: a forward of t padded tokens reserves the       *)
(* weights and a share per token, and more than the GPU has is refused.    *)
(* int(total * 0.90) and int(best * 0.85) are exact rational arithmetic    *)
(* here.  The budget only shrinks afterwards; module Batcher has that.     *)
(***************************************************************************)
EXTENDS Integers, Sequences, FiniteSets

CONSTANTS
    Hosts,        \* where the server starts, see Host
    Groups,       \* the lengths of the rows of a group, in arrival order
    StartRows,    \* rows of the first probe, 16
    MaxRows,      \* MAX_ROWS
    ProbeTokens,  \* tokens a probe's row is credited if the context allows, 512
    FloorTokens,  \* what the tuned budget never goes below, 4096
    Fallback      \* the budget where nothing can be measured, 8192

\* context is 0 where the catalog has none; batchTokens is JINA_BATCH_TOKENS;
\* sample is what the sample comes to, prompt and special tokens included, cut
\* where the model cuts it.
Host == [cuda : BOOLEAN, total : Nat, weights : Nat, perToken : Nat,
         context : Nat, batchTokens : Int, sample : Nat]

ASSUME SizeAssumption ==
    /\ {StartRows, MaxRows, ProbeTokens, FloorTokens, Fallback} \subseteq Nat \ {0}
    /\ StartRows <= MaxRows
ASSUME FloorAssumption ==
    ProbeTokens <= FloorTokens /\ (StartRows \div 2) * ProbeTokens <= FloorTokens
ASSUME InputAssumption == Hosts \subseteq Host /\ Groups \subseteq Seq(Nat)

VARIABLES
    host,      \* the settings, the model and the GPU
    phase,     \* where the worker is
    rows,      \* rows of the next probe
    best,      \* tokens credited to the last probe that fitted
    budget,    \* self._budget
    tuned,     \* whether the budget was measured
    lens,      \* lengths of the group being packed
    order,     \* its rows, by length
    taken,     \* rows of order packed so far
    current,   \* the chunk being filled
    longest,   \* the length of its longest row
    chunks     \* the chunks filled before it

probeVars == <<rows, best>>
packVars  == <<lens, order, taken, current, longest, chunks>>
vars      == <<host, phase, probeVars, budget, tuned, packVars>>

Larger(a, b)  == IF a >= b THEN a ELSE b
Smaller(a, b) == IF a <= b THEN a ELSE b

(***************************************************************************)
(* Sizing the budget.                                                      *)
(***************************************************************************)
Reserved(tokens) == host.weights + host.perToken * tokens

Target == (host.total * 9) \div 10

Length == Smaller(IF host.context = 0 THEN ProbeTokens ELSE host.context,
                  ProbeTokens)

Init ==
    /\ host \in Hosts
    /\ phase = "start"
    /\ rows = 0 /\ best = 0
    /\ budget = 1 /\ tuned = FALSE
    /\ lens = <<>> /\ order = <<>> /\ taken = 0
    /\ current = <<>> /\ longest = 0 /\ chunks = <<>>

Ready(tokens, measured) ==
    /\ phase' = "idle"
    /\ budget' = Larger(tokens, 1)
    /\ tuned' = measured
    /\ rows' = 0 /\ best' = 0
    /\ UNCHANGED <<host, packVars>>

FixedBudget ==
    /\ phase = "start" /\ host.batchTokens > 0
    /\ Ready(host.batchTokens, FALSE)

NoCuda ==
    /\ phase = "start" /\ host.batchTokens <= 0 /\ ~host.cuda
    /\ Ready(Fallback, FALSE)

BeginProbes ==
    /\ phase = "start" /\ host.batchTokens <= 0 /\ host.cuda
    /\ phase' = "probe"
    /\ rows' = StartRows
    /\ best' = Length * (StartRows \div 2)
    /\ UNCHANGED <<host, budget, tuned, packVars>>

\* Anything but an out-of-memory error: start-up goes on with the fallback.
Raises ==
    /\ phase \in {"start", "probe"} /\ host.batchTokens <= 0
    /\ Ready(Fallback, FALSE)

Sized(tokens) == Larger(FloorTokens, (tokens * 85) \div 100)

InLoop_Unbounded == TRUE

InLoop == rows <= MaxRows

Probing == phase = "probe" /\ InLoop

Measured == Reserved(rows * host.sample)

NextRows_Same == rows

NextRows == rows * 2

ProbeInside ==
    /\ Probing /\ Measured <= host.total /\ Measured < Target
    /\ best' = rows * Length
    /\ rows' = NextRows
    /\ UNCHANGED <<host, phase, budget, tuned, packVars>>

ProbeReaches ==
    /\ Probing /\ Measured <= host.total /\ Measured >= Target
    /\ Ready(Sized(rows * Length), TRUE)

BackedOff_Refused == rows * Length

BackedOff == Larger(Length, (rows \div 2) * Length)

ProbeExhausts ==
    /\ Probing /\ Measured > host.total
    /\ Ready(Sized(BackedOff), TRUE)

ProbesEnd ==
    /\ phase = "probe" /\ ~InLoop
    /\ Ready(Sized(best), TRUE)

(***************************************************************************)
(* Packing a group.                                                        *)
(***************************************************************************)
Permutation(n) ==
    {p \in [1..n -> 1..n] : \A i, k \in 1..n : p[i] = p[k] => i = k}

\* sorted(..., key=lengths): stable, ascending.
Before_Arrival(l, r, s) == r < s

Before(l, r, s) == l[r] < l[s] \/ (l[r] = l[s] /\ r < s)

SortedRows ==
    [l \in Groups |->
        {p \in Permutation(Len(l)) :
            \A i, k \in 1..Len(l) : i < k => Before(l, p[i], p[k])}]

Group(l) ==
    /\ phase = "idle"
    /\ phase' = "pack"
    /\ lens' = l
    /\ order' \in SortedRows[l]
    /\ taken' = 0 /\ current' = <<>> /\ longest' = 0 /\ chunks' = <<>>
    /\ UNCHANGED <<host, probeVars, budget, tuned>>

Row == order[taken + 1]

Candidate == Larger(longest, lens[Row])

OverBudget_Stale == (Len(current) + 1) * longest > budget

OverBudget_Full == (Len(current) + 1) * Candidate >= budget

OverBudget == (Len(current) + 1) * Candidate > budget

OpensChunk == /\ current # <<>>
              /\ OverBudget \/ Len(current) + 1 > MaxRows

Packing == phase = "pack" /\ taken < Len(order)

AdmitRow ==
    /\ Packing /\ ~OpensChunk
    /\ current' = Append(current, Row)
    /\ longest' = Candidate
    /\ taken' = taken + 1
    /\ UNCHANGED <<host, phase, probeVars, budget, tuned, lens, order, chunks>>

OpenChunk ==
    /\ Packing /\ OpensChunk
    /\ chunks' = Append(chunks, current)
    /\ current' = <<Row>>
    /\ longest' = lens[Row]
    /\ taken' = taken + 1
    /\ UNCHANGED <<host, phase, probeVars, budget, tuned, lens, order>>

WithCurrent_Dropped == chunks

WithCurrent == IF current # <<>> THEN Append(chunks, current) ELSE chunks

Packed ==
    /\ phase = "pack" /\ taken = Len(order)
    /\ chunks' = WithCurrent
    /\ current' = <<>>
    /\ phase' = "packed"
    /\ UNCHANGED <<host, probeVars, budget, tuned, lens, order, taken, longest>>

\* _process has run the chunks and returns.
Processed ==
    /\ phase = "packed"
    /\ phase' = "idle"
    /\ lens' = <<>> /\ order' = <<>> /\ taken' = 0
    /\ current' = <<>> /\ longest' = 0 /\ chunks' = <<>>
    /\ UNCHANGED <<host, probeVars, budget, tuned>>

Size == \/ FixedBudget \/ NoCuda \/ BeginProbes
        \/ ProbeInside \/ ProbeReaches \/ ProbeExhausts \/ ProbesEnd

StartUp == Size \/ Raises

Pack == \/ \E l \in Groups : Group(l)
        \/ AdmitRow \/ OpenChunk \/ Packed \/ Processed

Next == StartUp \/ Pack

Spec == Init /\ [][Next]_vars

\* The worker thread is scheduled and a probe returns; that one raises is not
\* relied on.
FairSpec == Spec /\ WF_vars(Size)

(***************************************************************************)
(* Properties.                                                             *)
(***************************************************************************)
\* The type invariant: every variable ranges over the values its Python
\* counterpart takes, and no probe runs more than MAX_ROWS rows.
TypeOK ==
    /\ host \in Host
    /\ phase \in {"start", "probe", "idle", "pack", "packed"}
    /\ rows \in 0..2 * MaxRows /\ best \in Nat
    /\ budget \in Nat \ {0} /\ tuned \in BOOLEAN
    /\ lens \in Seq(Nat)
    /\ order \in Seq(1..Len(lens)) /\ Len(order) = Len(lens)
    /\ taken \in 0..Len(order)
    /\ current \in Seq(1..Len(lens)) /\ longest \in Nat
    /\ chunks \in Seq(Seq(1..Len(lens)))

\* A budget that autotune_budget measured, and did not merely raise to its
\* floor, holds no more rows of the sample than fit the GPU: backing off after
\* an out-of-memory probe lands on a size that an earlier probe has run, at any
\* doubling.  It is in credited tokens, so that a forward of that many tokens
\* fits as well is promised only where the sample comes to 85% of the credit.
SampleRows == budget \div Length

TunedBudgetFits ==
    tuned /\ budget > FloorTokens =>
        /\ Reserved(SampleRows * host.sample) <= host.total
        /\ 85 * Length <= 100 * host.sample => Reserved(budget) <= host.total

\* batching.py:321: the tuned budget "keeps a probe forward inside
\* VRAM_TARGET", the probe forward being budget // length rows of the sample.
InsideTarget == tuned => Reserved(SampleRows * host.sample) <= Target

\* Whatever autotuning meets - no GPU, an exception, a refused probe, a GPU no
\* probe fills - start-up ends, so Batcher.__init__ stops waiting.
StartUpEnds == <>(phase \notin {"start", "probe"})

\* _pack gives every row of the group a place in exactly one forward.
EveryRowInOneForward ==
    phase = "packed" =>
        \A r \in 1..Len(lens) :
            Cardinality({k \in (1..Len(chunks)) \X (1..Len(lens)) :
                            /\ k[2] <= Len(chunks[k[1]])
                            /\ chunks[k[1]][k[2]] = r}) = 1

\* A forward of several rows costs no more than the budget, each row padded to
\* the longest, and no forward has more than MAX_ROWS rows.
WithinLimits(chunk) ==
    /\ Len(chunk) <= MaxRows
    /\ Len(chunk) > 1 =>
           \A i \in 1..Len(chunk) : Len(chunk) * lens[chunk[i]] <= budget

ForwardWithinBudget ==
    /\ WithinLimits(current)
    /\ \A c \in 1..Len(chunks) : WithinLimits(chunks[c])

\* Module Batcher leaves the loop of _pack out and cuts its rows where
\* ClosesChunk holds; every chunk the loop makes is cut there.
Fits(f, k) == /\ (k - f + 1) * lens[order[k]] <= budget
              /\ k - f + 1 <= MaxRows

PacksAsBatcher ==
    phase = "packed" =>
        \A c \in 1..Len(chunks) : \E f \in 1..Len(order) : \E e \in f..Len(order) :
            /\ chunks[c] = SubSeq(order, f, e)
            /\ \A k \in f + 1..e : Fits(f, k)
            /\ e < Len(order) => ~Fits(f, e + 1)

\* Greedy filling in ascending order wastes no forward: no way of sharing the
\* group's rows out over fewer forwards keeps each one within the limits.
FewestForwards ==
    phase = "packed" /\ chunks # <<>> =>
        \A share \in [1..Len(lens) -> 1..Len(chunks) - 1] :
            \E c \in 1..Len(chunks) - 1 :
                LET mine == {r \in 1..Len(lens) : share[r] = c}
                IN  \/ Cardinality(mine) > MaxRows
                    \/ /\ Cardinality(mine) > 1
                       /\ \E r \in mine : Cardinality(mine) * lens[r] > budget
=============================================================================
