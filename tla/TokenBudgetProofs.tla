------------------------- MODULE TokenBudgetProofs -------------------------
(***************************************************************************)
(* Proofs about TokenBudget, for every GPU, probe size, limit and group.   *)
(***************************************************************************)
EXTENDS TokenBudget, TLAPS

(***************************************************************************)
(* What the probes have shown: the size before this one was run, unless    *)
(* this is the first.                                                      *)
(***************************************************************************)
ProbeInv ==
    /\ phase \in {"start", "probe"} => ~tuned
    /\ phase = "probe" =>
           /\ rows >= StartRows
           /\ rows > StartRows =>
                  /\ Reserved((rows \div 2) * host.sample) <= host.total
                  /\ best = (rows \div 2) * Length

\* The floor is above this many tokens, or they are the credit of as many rows
\* of the sample as the GPU holds.
Shown(tokens) ==
    \/ tokens <= FloorTokens
    \/ \E n \in Nat : /\ tokens = n * Length
                      /\ Reserved(n * host.sample) <= host.total

\* What TunedBudgetFits asks of a measured budget.
Fitting(tokens) ==
    /\ Reserved((tokens \div Length) * host.sample) <= host.total
    /\ 85 * Length <= 100 * host.sample => Reserved(tokens) <= host.total

\* The chunk being filled is within the limits at its longest row, and nothing
\* is packed while the budget is being sized.
FillInv ==
    /\ phase \in {"start", "probe"} => current = <<>> /\ chunks = <<>>
    /\ Len(current) <= MaxRows
    /\ Len(current) > 1 => Len(current) * longest <= budget
    /\ \A i \in 1..Len(current) : lens[current[i]] <= longest
    /\ \A c \in 1..Len(chunks) : WithinLimits(chunks[c])

IInv == TypeOK /\ ProbeInv /\ TunedBudgetFits /\ FillInv

LEMMA TimesMonotone ==
    ASSUME NEW a \in Nat, NEW b \in Nat, NEW c \in Nat, b <= c
    PROVE  a * b <= a * c
<1>1. PICK d \in Nat : c = b + d
  <2>1. c - b \in Nat /\ c = b + (c - b)
    OBVIOUS
  <2> QED  BY <2>1
<1>2. a * c = a * b + a * d
  BY <1>1
<1>3. a * b \in Nat /\ a * d \in Nat
  OBVIOUS
<1> QED  BY <1>2, <1>3

LEMMA ReservedMonotone ==
    ASSUME host \in Host, NEW s \in Nat, NEW t \in Nat, s <= t
    PROVE  /\ Reserved(s) \in Nat
           /\ Reserved(s) <= Reserved(t)
<1>1. host.weights \in Nat /\ host.perToken \in Nat
  BY DEF Host
<1>2. host.perToken * s <= host.perToken * t
  BY <1>1, TimesMonotone
<1>3. host.perToken * s \in Nat /\ host.perToken * t \in Nat
  BY <1>1
<1> QED  BY <1>1, <1>2, <1>3 DEF Reserved

LEMMA LengthBounded ==
    ASSUME host \in Host
    PROVE  Length \in Nat \ {0} /\ Length <= ProbeTokens
<1>1. host.context \in Nat /\ ProbeTokens \in Nat \ {0}
  BY SizeAssumption DEF Host
<1> QED  BY <1>1 DEF Length, Smaller

\* No more whole lengths go into a number of tokens than make it up.
LEMMA WholeLengths ==
    ASSUME NEW a \in Nat, NEW n \in Nat, NEW l \in Nat \ {0}, a <= n * l
    PROVE  a \div l \in Nat /\ a \div l <= n
<1> DEFINE q == a \div l
<1>1. q \in Nat /\ q * l <= a
  OBVIOUS
<1> HIDE DEF q
<1>2. ASSUME q > n PROVE FALSE
  <2>1. n + 1 <= q /\ n + 1 \in Nat
    BY <1>1, <1>2
  <2>2. l * (n + 1) <= l * q
    BY <1>1, <2>1, TimesMonotone
  <2>3. l * (n + 1) = n * l + l /\ l * q = q * l
    BY <1>1
  <2>4. n * l \in Nat /\ q * l \in Nat
    BY <1>1
  <2> QED  BY <1>1, <2>2, <2>3, <2>4
<1>3. q <= n
  BY <1>1, <1>2
<1> QED  BY <1>1, <1>3 DEF q

\* Sizing never goes below the floor, and above it never above what was run.
LEMMA SizedFits ==
    ASSUME host \in Host, NEW tokens \in Nat, Shown(tokens)
    PROVE  /\ Sized(tokens) \in Nat \ {0}
           /\ Sized(tokens) > FloorTokens => Fitting(Sized(tokens))
<1> DEFINE cut == (tokens * 85) \div 100
<1>1. cut \in Nat /\ cut <= tokens /\ cut * 100 <= tokens * 85
  OBVIOUS
<1>2. FloorTokens \in Nat \ {0}
  BY SizeAssumption
<1>3. Sized(tokens) = IF FloorTokens >= cut THEN FloorTokens ELSE cut
  BY DEF Sized, Larger
<1> HIDE DEF cut
<1>4. ASSUME cut > FloorTokens PROVE Fitting(cut)
  <2>1. PICK n \in Nat : /\ tokens = n * Length
                         /\ Reserved(n * host.sample) <= host.total
    BY <1>1, <1>2, <1>4 DEF Shown
  <2>2. /\ Length \in Nat \ {0} /\ host.sample \in Nat /\ host.total \in Nat
        /\ n * host.sample \in Nat /\ n * Length \in Nat
    BY LengthBounded DEF Host
  <2>3. Reserved(n * host.sample) \in Nat
    BY <2>2, ReservedMonotone
  <2>4. Reserved((cut \div Length) * host.sample) <= host.total
    <3> DEFINE q == cut \div Length
    <3>1. q \in Nat /\ q <= n
      BY <1>1, <2>1, <2>2, WholeLengths
    <3> HIDE DEF q
    <3>2. host.sample * q <= host.sample * n
      BY <2>2, <3>1, TimesMonotone
    <3>3. q * host.sample \in Nat /\ q * host.sample <= n * host.sample
      BY <2>2, <3>1, <3>2
    <3>4. /\ Reserved(q * host.sample) \in Nat
          /\ Reserved(q * host.sample) <= Reserved(n * host.sample)
      BY <2>2, <3>3, ReservedMonotone
    <3> QED  BY <2>1, <2>2, <2>3, <3>4 DEF q
  <2>5. ASSUME 85 * Length <= 100 * host.sample
        PROVE  Reserved(cut) <= host.total
    <3>1. n * (85 * Length) <= n * (100 * host.sample)
      <4>1. 85 * Length \in Nat /\ 100 * host.sample \in Nat
        BY <2>2
      <4> QED  BY <2>5, <4>1, TimesMonotone
    <3>2. /\ n * (85 * Length) = (n * Length) * 85
          /\ n * (100 * host.sample) = (n * host.sample) * 100
      BY <2>2
    <3>3. cut <= n * host.sample
      <4>1. PICK t \in Nat : t = n * host.sample
        BY <2>2
      <4>2. cut * 100 <= t * 100
        BY <1>1, <2>1, <2>2, <3>1, <3>2, <4>1
      <4> QED  BY <1>1, <4>1, <4>2
    <3>4. Reserved(cut) \in Nat /\ Reserved(cut) <= Reserved(n * host.sample)
      BY <1>1, <2>2, <3>3, ReservedMonotone
    <3> QED  BY <2>1, <2>2, <2>3, <3>4
  <2> QED  BY <2>4, <2>5 DEF Fitting
<1> QED  BY <1>1, <1>2, <1>3, <1>4

----------------------------------------------------------------------------
\* Start-up ends with a type-correct budget that is either unmeasured or fits.
LEMMA ReadyStep ==
    ASSUME TypeOK, NEW tokens \in Int, NEW measured \in BOOLEAN,
           measured /\ tokens > FloorTokens => Fitting(tokens),
           Ready(tokens, measured)
    PROVE  TypeOK' /\ TunedBudgetFits'
<1>1. budget' = (IF tokens >= 1 THEN tokens ELSE 1)
  BY DEF Ready, Larger
<1>2. budget' \in Nat \ {0}
  BY <1>1
<1>3. 0 \in 0..2 * MaxRows
  BY SizeAssumption
<1>4. TypeOK'
  BY <1>2, <1>3 DEF Ready, TypeOK, packVars
<1>5. TunedBudgetFits'
  <2>1. host' = host /\ tuned' = measured /\ FloorTokens \in Nat \ {0}
    BY SizeAssumption DEF Ready
  <2>2. budget' > FloorTokens => budget' = tokens
    BY <1>1, <2>1
  <2> QED  BY <2>1, <2>2
           DEF TunedBudgetFits, SampleRows, Fitting, Reserved, Length
<1> QED  BY <1>4, <1>5

\* A probe of that many rows, in padded tokens.
LEMMA ProbeTyped ==
    ASSUME TypeOK
    PROVE  /\ rows \in Nat /\ Length \in Nat /\ host \in Host
           /\ rows * Length \in Nat /\ (rows \div 2) * Length \in Nat
           /\ Length * (StartRows \div 2) \in Nat /\ BackedOff \in Nat
<1>1. rows \in Nat /\ rows \div 2 \in Nat /\ StartRows \div 2 \in Nat
  BY SizeAssumption DEF TypeOK
<1>2. Length \in Nat /\ host \in Host
  BY LengthBounded DEF TypeOK
<1>3. \A a, b \in Nat : a * b \in Nat
  OBVIOUS
<1> QED  BY <1>1, <1>2, <1>3 DEF BackedOff, Larger

\* The size a refused probe falls back to has been run before, or the floor
\* is above it.
LEMMA BackedOffFits ==
    ASSUME TypeOK, ProbeInv, phase = "probe"
    PROVE  Shown(BackedOff)
<1> DEFINE half == rows \div 2
<1>1. rows \in Nat /\ rows >= StartRows /\ StartRows \in Nat \ {0}
  BY ProbeTyped, SizeAssumption DEF ProbeInv
<1>2. /\ Length \in Nat \ {0} /\ Length <= ProbeTokens
      /\ ProbeTokens \in Nat /\ FloorTokens \in Nat
  BY LengthBounded, SizeAssumption DEF TypeOK
<1>3. CASE rows = StartRows
  <2>1. half \in Nat /\ half = StartRows \div 2
    BY <1>1, <1>3
  <2> HIDE DEF half
  <2>2. half * Length <= half * ProbeTokens
    BY <2>1, <1>2, TimesMonotone
  <2>3. half * ProbeTokens <= FloorTokens /\ ProbeTokens <= FloorTokens
    BY <2>1, FloorAssumption
  <2>4. half * Length \in Nat /\ half * ProbeTokens \in Nat
    BY <2>1, <1>2
  <2>5. half * Length <= FloorTokens /\ Length <= FloorTokens
    BY <2>2, <2>3, <2>4, <1>2
  <2> QED  BY <2>5 DEF BackedOff, Larger, half, Shown
<1>4. CASE rows > StartRows
  <2>1. half \in Nat /\ 1 <= half
    BY <1>1, <1>4
  <2>2. Reserved(half * host.sample) <= host.total
    BY <1>4 DEF ProbeInv
  <2> HIDE DEF half
  <2>3. Length * 1 <= Length * half
    BY <2>1, <1>2, TimesMonotone
  <2>4. Length * half = half * Length /\ Length * 1 = Length
    BY <2>1, <1>2
  <2>5. half * Length >= Length
    BY <2>3, <2>4
  <2>6. BackedOff = half * Length
    <3>1. half * Length \in Nat
      BY <2>1, <1>2
    <3>2. BackedOff = IF Length >= half * Length THEN Length ELSE half * Length
      BY DEF BackedOff, Larger, half
    <3> QED  BY <3>1, <3>2, <2>5, <1>2
  <2> QED  BY <2>1, <2>2, <2>6 DEF Shown
<1> QED  BY <1>1, <1>3, <1>4

LEMMA SizingStep ==
    ASSUME TypeOK, ProbeInv, TunedBudgetFits, StartUp
    PROVE  TypeOK' /\ ProbeInv' /\ TunedBudgetFits'
<1>1. host \in Host /\ Fallback \in Int
  BY SizeAssumption DEF TypeOK
<1>2. ASSUME NEW tokens, NEW measured, Ready(tokens, measured)
      PROVE  ProbeInv'
  BY <1>2 DEF Ready, ProbeInv
<1>3. CASE FixedBudget
  <2>1. host.batchTokens \in Int
    BY <1>1 DEF Host
  <2> QED  BY <1>2, <1>3, <2>1, ReadyStep DEF FixedBudget
<1>4. CASE NoCuda
  BY <1>1, <1>2, <1>4, ReadyStep DEF NoCuda
<1>5. CASE Raises
  BY <1>1, <1>2, <1>5, ReadyStep DEF Raises
<1>6. CASE BeginProbes
  <2>1. StartRows \in 0..2 * MaxRows
    BY SizeAssumption
  <2>2. TypeOK'
    BY <1>6, <2>1, ProbeTyped DEF BeginProbes, TypeOK, packVars
  <2>3. ProbeInv'
    BY <1>6, SizeAssumption DEF BeginProbes, ProbeInv
  <2>4. TunedBudgetFits'
    BY <1>6 DEF BeginProbes, ProbeInv, TunedBudgetFits
  <2> QED  BY <2>2, <2>3, <2>4
<1>7. CASE ProbeInside
  <2>1. /\ rows \in Nat /\ rows <= MaxRows /\ rows >= StartRows
        /\ MaxRows \in Nat /\ StartRows \in Nat \ {0}
    BY <1>7, ProbeTyped, SizeAssumption
    DEF ProbeInside, Probing, InLoop, ProbeInv
  <2>2. rows' = rows * 2 /\ rows' \in 0..2 * MaxRows /\ rows' >= StartRows
        /\ rows' \div 2 = rows
    BY <1>7, <2>1 DEF ProbeInside, NextRows
  <2>3. TypeOK'
    BY <1>7, <2>2, ProbeTyped DEF ProbeInside, TypeOK, packVars
  <2>4. Length' = Length /\ host' = host
    BY <1>7 DEF ProbeInside, Length
  <2>5. ProbeInv'
    BY <1>7, <2>2, <2>4
    DEF ProbeInside, Probing, Measured, ProbeInv, Reserved, Length
  <2>6. TunedBudgetFits'
    BY <1>7 DEF ProbeInside, Probing, ProbeInv, TunedBudgetFits
  <2> QED  BY <2>3, <2>5, <2>6
<1>8. CASE ProbeReaches
  <2>1. rows * Length \in Nat /\ Shown(rows * Length)
    BY <1>8, ProbeTyped DEF ProbeReaches, Measured, Shown
  <2>2. /\ Sized(rows * Length) \in Nat \ {0}
        /\ Sized(rows * Length) > FloorTokens => Fitting(Sized(rows * Length))
    BY <1>1, <2>1, SizedFits
  <2>3. Ready(Sized(rows * Length), TRUE)
    BY <1>8 DEF ProbeReaches
  <2>4. Sized(rows * Length) \in Int
    BY <2>2
  <2>5. TypeOK' /\ TunedBudgetFits'
    BY <2>2, <2>3, <2>4, ReadyStep
  <2> QED  BY <1>2, <2>3, <2>5
<1>9. CASE ProbeExhausts
  <2>1. /\ BackedOff \in Nat
        /\ Shown(BackedOff)
    BY <1>9, ProbeTyped, BackedOffFits DEF ProbeExhausts, Probing
  <2>2. /\ Sized(BackedOff) \in Nat \ {0}
        /\ Sized(BackedOff) > FloorTokens => Fitting(Sized(BackedOff))
    BY <1>1, <2>1, SizedFits
  <2>3. Ready(Sized(BackedOff), TRUE)
    BY <1>9 DEF ProbeExhausts
  <2>4. Sized(BackedOff) \in Int
    BY <2>2
  <2>5. TypeOK' /\ TunedBudgetFits'
    BY <2>2, <2>3, <2>4, ReadyStep
  <2> QED  BY <1>2, <2>3, <2>5
<1>10. CASE ProbesEnd
  <2>1. best \in Nat /\ Shown(best)
    <3>1. /\ rows \in Nat /\ StartRows \in Nat /\ MaxRows \in Nat
          /\ StartRows <= MaxRows
      BY ProbeTyped, SizeAssumption
    <3>2. rows > MaxRows
      BY <1>10, <3>1 DEF ProbesEnd, InLoop
    <3>3. rows > StartRows
      BY <3>1, <3>2
    <3>4. rows \div 2 \in Nat
      BY <3>1
    <3> QED  BY <1>10, <3>3, <3>4 DEF ProbesEnd, ProbeInv, TypeOK, Shown
  <2>2. /\ Sized(best) \in Nat \ {0}
        /\ Sized(best) > FloorTokens => Fitting(Sized(best))
    BY <1>1, <2>1, SizedFits
  <2>3. Ready(Sized(best), TRUE)
    BY <1>10 DEF ProbesEnd
  <2>4. Sized(best) \in Int
    BY <2>2
  <2>5. TypeOK' /\ TunedBudgetFits'
    BY <2>2, <2>3, <2>4, ReadyStep
  <2> QED  BY <1>2, <2>3, <2>5
<1> QED  BY <1>3, <1>4, <1>5, <1>6, <1>7, <1>8, <1>9, <1>10 DEF StartUp, Size

----------------------------------------------------------------------------
LEMMA SeqElement ==
    ASSUME NEW S, NEW q \in Seq(S), NEW i \in 1..Len(q)
    PROVE  q[i] \in S
OBVIOUS

\* The row that is placed next, and the sequences it goes into.
LEMMA RowTyped ==
    ASSUME TypeOK, Packing
    PROVE  /\ Row \in 1..Len(lens) /\ lens[Row] \in Nat /\ Candidate \in Nat
           /\ taken + 1 \in 0..Len(order)
<1>1. taken \in Nat /\ taken + 1 \in 1..Len(order) /\ Len(order) \in Nat
  BY DEF TypeOK, Packing
<1>2. order \in Seq(1..Len(lens)) /\ lens \in Seq(Nat) /\ longest \in Nat
  BY DEF TypeOK
<1>3. Row \in 1..Len(lens)
  BY <1>1, <1>2, SeqElement DEF Row
<1>4. lens[Row] \in Nat
  BY <1>2, <1>3, SeqElement
<1> QED  BY <1>1, <1>2, <1>3, <1>4 DEF Candidate, Larger

LEMMA PackTyped == TypeOK /\ Pack => TypeOK'
<1> SUFFICES ASSUME TypeOK, Pack PROVE TypeOK'
  OBVIOUS
<1>1. ASSUME NEW l \in Groups, Group(l) PROVE TypeOK'
  <2>1. /\ l \in Seq(Nat) /\ Len(l) \in Nat
        /\ order' \in [1..Len(l) -> 1..Len(l)]
    BY <1>1, InputAssumption DEF Group, SortedRows, Permutation
  <2>2. order' \in Seq(1..Len(l)) /\ Len(order') = Len(l)
    BY <2>1
  <2> QED  BY <1>1, <2>1, <2>2 DEF Group, TypeOK, probeVars
<1>2. CASE AdmitRow
  <2>1. Packing
    BY <1>2 DEF AdmitRow
  <2>2. Append(current, Row) \in Seq(1..Len(lens))
    BY <2>1, RowTyped DEF TypeOK
  <2> QED  BY <1>2, <2>1, <2>2, RowTyped DEF AdmitRow, TypeOK, probeVars
<1>3. CASE OpenChunk
  <2>1. Packing
    BY <1>3 DEF OpenChunk
  <2>2. /\ Append(chunks, current) \in Seq(Seq(1..Len(lens)))
        /\ <<Row>> \in Seq(1..Len(lens))
    BY <2>1, RowTyped DEF TypeOK
  <2> QED  BY <1>3, <2>1, <2>2, RowTyped DEF OpenChunk, TypeOK, probeVars
<1>4. CASE Packed
  <2>1. WithCurrent \in Seq(Seq(1..Len(lens)))
    <3>1. /\ chunks \in Seq(Seq(1..Len(lens)))
          /\ current \in Seq(1..Len(lens))
      BY DEF TypeOK
    <3>2. Append(chunks, current) \in Seq(Seq(1..Len(lens)))
      BY <3>1
    <3> QED  BY <3>1, <3>2 DEF WithCurrent
  <2>2. <<>> \in Seq(1..Len(lens))
    OBVIOUS
  <2> QED  BY <1>4, <2>1, <2>2 DEF Packed, TypeOK, probeVars
<1>5. CASE Processed
  BY <1>5 DEF Processed, TypeOK, probeVars
<1> QED  BY <1>1, <1>2, <1>3, <1>4, <1>5 DEF Pack

\* The chunk being filled is within the limits.
LEMMA CurrentWithin ==
    ASSUME TypeOK, FillInv
    PROVE  WithinLimits(current)
<1>1. /\ current \in Seq(1..Len(lens)) /\ Len(current) \in Nat /\ longest \in Nat
      /\ budget \in Nat
  BY DEF TypeOK
<1>2. ASSUME Len(current) > 1, NEW i \in 1..Len(current)
      PROVE  Len(current) * lens[current[i]] <= budget
  <2>1. lens[current[i]] \in Nat
    <3>1. current[i] \in 1..Len(lens)
      BY <1>1, SeqElement
    <3> QED  BY <3>1, SeqElement DEF TypeOK
  <2>2. lens[current[i]] <= longest
    BY DEF FillInv
  <2>3. Len(current) * lens[current[i]] <= Len(current) * longest
    BY <1>1, <2>1, <2>2, TimesMonotone
  <2>4. Len(current) * longest <= budget
    BY <1>2 DEF FillInv
  <2>5. /\ Len(current) * lens[current[i]] \in Nat
        /\ Len(current) * longest \in Nat
    <3>1. \A a, b \in Nat : a * b \in Nat
      OBVIOUS
    <3> QED  BY <1>1, <2>1, <3>1
  <2> QED  BY <1>1, <2>3, <2>4, <2>5
<1> QED  BY <1>2 DEF WithinLimits, FillInv

LEMMA FillStep == TypeOK /\ FillInv /\ [Next]_vars => FillInv'
<1> SUFFICES ASSUME TypeOK, FillInv, [Next]_vars PROVE FillInv'
  OBVIOUS
<1>1. MaxRows \in Nat \ {0}
  BY SizeAssumption
<1>2. ASSUME phase \in {"start", "probe"}, current' = current, chunks' = chunks
      PROVE  FillInv'
  BY <1>1, <1>2 DEF FillInv
<1>3. CASE StartUp
  <2>1. phase \in {"start", "probe"} /\ current' = current /\ chunks' = chunks
    BY <1>3 DEF StartUp, Size, FixedBudget, NoCuda, BeginProbes, Raises, ProbeInside,
       ProbeReaches, ProbeExhausts, ProbesEnd, Probing, Ready, packVars
  <2> QED  BY <1>2, <2>1
<1>4. ASSUME NEW l \in Groups, Group(l) PROVE FillInv'
  BY <1>1, <1>4 DEF Group, FillInv
<1>5. CASE AdmitRow
  <2>1. /\ Packing /\ ~OpensChunk /\ chunks' = chunks /\ lens' = lens
        /\ budget' = budget /\ phase' = phase /\ phase = "pack"
        /\ current' = Append(current, Row) /\ longest' = Candidate
    BY <1>5 DEF AdmitRow, Packing
  <2>2. /\ current \in Seq(1..Len(lens)) /\ Len(current) \in Nat
        /\ longest \in Nat /\ budget \in Nat /\ lens[Row] \in Nat
        /\ Row \in 1..Len(lens) /\ Candidate \in Nat
    BY <2>1, RowTyped DEF TypeOK
  <2>3. Len(current') = Len(current) + 1
    BY <2>1, <2>2
  <2>4. longest <= Candidate /\ lens[Row] <= Candidate
    BY <2>2 DEF Candidate, Larger
  <2>5. ASSUME current # <<>>
        PROVE  Len(current) + 1 <= MaxRows /\ (Len(current) + 1) * Candidate <= budget
    <3>1. ~OverBudget /\ ~(Len(current) + 1 > MaxRows)
      BY <2>1, <2>5 DEF OpensChunk
    <3>2. (Len(current) + 1) * Candidate \in Nat
      BY <2>2
    <3> QED  BY <3>1, <3>2, <2>2, <1>1 DEF OverBudget
  <2>6. current = <<>> => Len(current) = 0
    OBVIOUS
  <2>7. Len(current') <= MaxRows
    BY <1>1, <2>2, <2>3, <2>5, <2>6
  <2>8. Len(current') > 1 => Len(current') * longest' <= budget'
    BY <2>1, <2>2, <2>3, <2>5, <2>6
  <2>9. ASSUME NEW i \in 1..Len(current') PROVE lens'[current'[i]] <= longest'
    <3>1. CASE i = Len(current) + 1
      <4>1. current'[i] = Row
        BY <2>1, <2>2, <3>1
      <4> QED  BY <2>1, <2>4, <4>1
    <3>2. CASE i # Len(current) + 1
      <4>1. i \in 1..Len(current)
        BY <2>2, <2>3, <3>2
      <4>2. current'[i] = current[i]
        BY <2>1, <2>2, <4>1
      <4>3. lens[current[i]] \in Nat
        <5>1. current[i] \in 1..Len(lens)
          BY <2>2, <4>1, SeqElement
        <5> QED  BY <5>1, SeqElement DEF TypeOK
      <4>4. lens[current[i]] <= longest
        BY <4>1 DEF FillInv
      <4> QED  BY <2>1, <2>2, <2>4, <4>2, <4>3, <4>4
    <3> QED  BY <3>1, <3>2
  <2>10. (\A c \in 1..Len(chunks) : WithinLimits(chunks[c]))'
    BY <2>1 DEF FillInv, WithinLimits
  <2> QED  BY <2>1, <2>7, <2>8, <2>9, <2>10 DEF FillInv
<1>6. CASE OpenChunk
  <2>1. /\ Packing /\ lens' = lens /\ budget' = budget
        /\ phase' = phase /\ phase = "pack"
        /\ chunks' = Append(chunks, current)
        /\ current' = <<Row>> /\ longest' = lens[Row]
    BY <1>6 DEF OpenChunk, Packing
  <2>2. lens[Row] \in Nat
    BY <2>1, RowTyped
  <2>3. Len(current') = 1 /\ \A i \in 1..Len(current') : current'[i] = Row
    BY <2>1
  <2>4. chunks \in Seq(Seq(1..Len(lens))) /\ current \in Seq(1..Len(lens))
    BY DEF TypeOK
  <2>5. WithinLimits(current)
    BY CurrentWithin
  <2>6. \A c \in 1..Len(chunks') :
           chunks'[c] = current \/ (c \in 1..Len(chunks) /\ chunks'[c] = chunks[c])
    BY <2>1, <2>4
  <2>7. \A c \in 1..Len(chunks') : WithinLimits(chunks'[c])
    BY <2>5, <2>6 DEF FillInv
  <2>8. (\A c \in 1..Len(chunks) : WithinLimits(chunks[c]))'
    BY <2>1, <2>7 DEF WithinLimits
  <2> QED  BY <1>1, <2>1, <2>2, <2>3, <2>8 DEF FillInv
<1>7. CASE Packed
  <2>1. /\ phase' = "packed" /\ current' = <<>> /\ chunks' = WithCurrent
        /\ lens' = lens /\ budget' = budget
    BY <1>7 DEF Packed
  <2>2. chunks \in Seq(Seq(1..Len(lens))) /\ current \in Seq(1..Len(lens))
    BY DEF TypeOK
  <2>3. \A c \in 1..Len(chunks') :
           chunks'[c] = current \/ (c \in 1..Len(chunks) /\ chunks'[c] = chunks[c])
    BY <2>1, <2>2 DEF WithCurrent
  <2>4. \A c \in 1..Len(chunks') : WithinLimits(chunks'[c])
    BY <2>3, CurrentWithin DEF FillInv
  <2>5. (\A c \in 1..Len(chunks) : WithinLimits(chunks[c]))'
    BY <2>1, <2>4 DEF WithinLimits
  <2> QED  BY <1>1, <2>1, <2>5 DEF FillInv
<1>8. CASE Processed
  BY <1>1, <1>8 DEF Processed, FillInv
<1>9. CASE UNCHANGED vars
  <2>1. UNCHANGED <<phase, budget, lens, current, longest, chunks>>
    BY <1>9 DEF vars, packVars
  <2> QED  BY <2>1 DEF FillInv, WithinLimits
<1> QED  BY <1>3, <1>4, <1>5, <1>6, <1>7, <1>8, <1>9 DEF Next, Pack

----------------------------------------------------------------------------
LEMMA Inductive == Spec => []IInv
<1>1. Init => IInv
  <2> SUFFICES ASSUME Init PROVE IInv
    OBVIOUS
  <2>1. host \in Host /\ MaxRows \in Nat \ {0} /\ 0 \in 0..2 * MaxRows
    BY SizeAssumption, InputAssumption DEF Init
  <2>2. TypeOK
    <3>1. /\ lens = <<>> /\ order = <<>> /\ current = <<>> /\ chunks = <<>>
          /\ Len(lens) = 0 /\ Len(order) = 0 /\ taken = 0 /\ longest = 0
      BY DEF Init
    <3>2. /\ lens \in Seq(Nat) /\ order \in Seq(1..Len(lens))
          /\ current \in Seq(1..Len(lens)) /\ chunks \in Seq(Seq(1..Len(lens)))
      <4>1. <<>> \in Seq(Nat)
        OBVIOUS
      <4>2. <<>> \in Seq(1..Len(lens))
        OBVIOUS
      <4>3. <<>> \in Seq(Seq(1..Len(lens)))
        OBVIOUS
      <4>4. lens \in Seq(Nat)
        BY <3>1, <4>1
      <4>5. order \in Seq(1..Len(lens)) /\ current \in Seq(1..Len(lens))
        BY <4>2 DEF Init
      <4>6. chunks \in Seq(Seq(1..Len(lens)))
        BY <4>3 DEF Init
      <4> QED  BY <4>4, <4>5, <4>6
    <3>3. taken \in 0..Len(order) /\ longest \in Nat
      BY <3>1
    <3>4. rows \in 0..2 * MaxRows /\ best \in Nat /\ budget \in Nat \ {0}
      BY <2>1 DEF Init
    <3>5. phase = "start" /\ tuned \in BOOLEAN
      BY DEF Init
    <3> QED  BY <2>1, <3>1, <3>2, <3>3, <3>4, <3>5 DEF TypeOK
  <2>3. ProbeInv /\ TunedBudgetFits
    BY DEF Init, ProbeInv, TunedBudgetFits
  <2>4. FillInv
    BY <2>1 DEF Init, FillInv
  <2> QED  BY <2>2, <2>3, <2>4 DEF IInv
<1>2. IInv /\ [Next]_vars => IInv'
  <2> SUFFICES ASSUME IInv, [Next]_vars PROVE IInv'
    OBVIOUS
  <2>1. FillInv'
    BY FillStep DEF IInv
  <2>2. CASE StartUp
    BY <2>1, <2>2, SizingStep DEF IInv
  <2>3. CASE Pack
    <3>1. TypeOK'
      BY <2>3, PackTyped DEF IInv
    <3>2. /\ UNCHANGED <<host, rows, best, budget, tuned>>
          /\ phase' \notin {"start", "probe"}
      BY <2>3 DEF Pack, Group, AdmitRow, OpenChunk, Packing, Packed, Processed,
         probeVars
    <3>3. ProbeInv' /\ TunedBudgetFits'
      BY <3>2 DEF IInv, ProbeInv, TunedBudgetFits, SampleRows, Reserved, Length
    <3> QED  BY <2>1, <3>1, <3>3 DEF IInv
  <2>4. CASE UNCHANGED vars
    <3>1. UNCHANGED <<host, phase, rows, best, budget, tuned, lens, order, taken,
                      current, longest, chunks>>
      BY <2>4 DEF vars, probeVars, packVars
    <3>2. TypeOK'
      BY <3>1 DEF IInv, TypeOK
    <3>3. ProbeInv'
      BY <3>1 DEF IInv, ProbeInv, Reserved, Length
    <3>4. TunedBudgetFits'
      BY <3>1 DEF IInv, TunedBudgetFits, SampleRows, Reserved, Length
    <3> QED  BY <2>1, <3>2, <3>3, <3>4 DEF IInv
  <2> QED  BY <2>2, <2>3, <2>4 DEF Next
<1> QED  BY <1>1, <1>2, PTL DEF Spec

\* Every value keeps its type for every host and group, and no probe ever runs
\* more than MAX_ROWS rows.
THEOREM BudgetTypeCorrect == Spec => []TypeOK
<1>1. IInv => TypeOK
  BY DEF IInv
<1> QED  BY <1>1, Inductive, PTL

\* Above its floor autotune_budget never admits more rows of the sample than
\* the GPU holds, whatever the GPU, the weights, the context and the tokens the
\* sample comes to; where it comes to 85% of its credit, a forward of the whole
\* budget fits too.
THEOREM MeasuredFits == Spec => []TunedBudgetFits
<1>1. IInv => TunedBudgetFits
  BY DEF IInv
<1> QED  BY <1>1, Inductive, PTL

\* No chunk _pack makes or is making exceeds the row limit or, unless it is a
\* single row, the padded budget.
THEOREM WithinBudget == Spec => []ForwardWithinBudget
<1>1. IInv => ForwardWithinBudget
  BY CurrentWithin DEF IInv, FillInv, ForwardWithinBudget
<1> QED  BY <1>1, Inductive, PTL
=============================================================================
