---------------------- MODULE TokenBudgetPackingProofs ----------------------
(***************************************************************************)
(* Proofs about what batching._pack makes of a group, for every group,     *)
(* budget and row limit: no row is lost or run twice, a chunk ends only    *)
(* where the next row does not fit, and no other way of sharing the rows   *)
(* out needs fewer forwards.                                               *)
(***************************************************************************)
EXTENDS TokenBudgetProofs, FiniteSetTheorems, SequenceTheorems,
        WellFoundedInduction

\* sorted() returns every row of the group once, shortest first.
SortedInv ==
    /\ \A i, k \in 1..Len(order) : order[i] = order[k] => i = k
    /\ \A i, k \in 1..Len(order) : i < k => lens[order[i]] <= lens[order[k]]

(***************************************************************************)
(* Where each chunk starts in order, when full are the chunks filled, cur  *)
(* the one being filled and n the rows taken: cut[c] for each full chunk   *)
(* and, last, for cur.  The code keeps no such positions; they are what    *)
(* ties its chunks to order.                                               *)
(***************************************************************************)
Cuttings(full) == [1..Len(full) + 1 -> 1..Len(order) + 1]

Filled(cut, chunk, c) ==
    /\ cut[c] + Len(chunk) = cut[c + 1]
    /\ \A i \in 1..Len(chunk) : chunk[i] = order[cut[c] + i - 1]
    /\ \A k \in cut[c] + 1..cut[c + 1] - 1 : Fits(cut[c], k)
    /\ cut[c + 1] <= Len(order) => ~Fits(cut[c], cut[c + 1])

Filling(first, cur, n) ==
    /\ first + Len(cur) = n + 1
    /\ \A i \in 1..Len(cur) : cur[i] = order[first + i - 1]
    /\ \A k \in first + 1..n : Fits(first, k)

Cuts(cut, full, cur, n) ==
    /\ cut[1] = 1
    /\ \A c, d \in 1..Len(full) + 1 : c < d => cut[c] < cut[d]
    /\ \A c \in 1..Len(full) : Filled(cut, full[c], c)
    /\ Filling(cut[Len(full) + 1], cur, n)
    /\ \A i \in 1..n :
           \/ i >= cut[Len(full) + 1]
           \/ \E c \in 1..Len(full) : cut[c] <= i /\ i < cut[c + 1]

CutInv == \E cut \in Cuttings(chunks) : Cuts(cut, chunks, current, taken)

\* The chunk being filled is never empty once a row is taken, and its longest
\* row is the last one it was given.
LastInv ==
    /\ phase \in {"start", "probe", "idle"} =>
           taken = 0 /\ current = <<>> /\ chunks = <<>>
    /\ phase = "packed" => taken = Len(order) /\ current = <<>>
    /\ current = <<>> /\ phase # "packed" =>
           taken = 0 /\ longest = 0 /\ chunks = <<>>
    /\ current # <<>> => taken >= 1 /\ longest = lens[order[taken]]

PackInv == SortedInv /\ LastInv /\ CutInv

----------------------------------------------------------------------------
\* Cuts are positions in order, or just past its end.
LEMMA CutTyped ==
    ASSUME order \in Seq(Nat), NEW full, Len(full) \in Nat, NEW cut \in Cuttings(full)
    PROVE  /\ Len(order) \in Nat /\ Len(full) + 1 \in 1..Len(full) + 1
           /\ \A c \in 1..Len(full) + 1 :
                  cut[c] \in Nat /\ 1 <= cut[c] /\ cut[c] <= Len(order) + 1
<1>1. Len(order) \in Nat /\ cut \in [1..Len(full) + 1 -> 1..Len(order) + 1]
  BY DEF Cuttings
<1>2. \A c \in 1..Len(full) + 1 : cut[c] \in 1..Len(order) + 1
  BY <1>1
<1> QED  BY <1>1, <1>2

\* A row joins the chunk being filled.
LEMMA CutsGrow ==
    ASSUME NEW cut, NEW full \in Seq(Seq(Nat)), NEW cur \in Seq(Nat), NEW n \in Nat,
           order \in Seq(Nat), n < Len(order), cut \in Cuttings(full),
           Cuts(cut, full, cur, n),
           cur # <<>> => Fits(cut[Len(full) + 1], n + 1)
    PROVE  Cuts(cut, full, Append(cur, order[n + 1]), n + 1)
<1> DEFINE first == cut[Len(full) + 1]
           more  == Append(cur, order[n + 1])
<1>1. first \in Nat /\ Len(cur) \in Nat /\ Len(full) \in Nat
  <2>1. Len(cur) \in Nat /\ Len(full) \in Nat
    OBVIOUS
  <2> QED  BY <2>1, CutTyped
<1>2. order[n + 1] \in Nat
  <2>1. n + 1 \in 1..Len(order)
    OBVIOUS
  <2> QED  BY <2>1
<1>3. /\ Len(more) = Len(cur) + 1 /\ more[Len(cur) + 1] = order[n + 1]
      /\ \A i \in 1..Len(cur) : more[i] = cur[i]
  BY <1>2
<1>4. Filling(first, cur, n)
  BY DEF Cuts
<1>5. first + Len(cur) = n + 1
  BY <1>4 DEF Filling
<1>6. \A i \in 1..Len(more) : more[i] = order[first + i - 1]
  <2> TAKE i \in 1..Len(more)
  <2>1. CASE i = Len(cur) + 1
    BY <1>1, <1>3, <1>5, <2>1
  <2>2. CASE i # Len(cur) + 1
    <3>1. i \in 1..Len(cur)
      BY <1>1, <1>3, <2>2
    <3> QED  BY <1>3, <1>4, <3>1 DEF Filling
  <2> QED  BY <2>1, <2>2
<1>7. \A k \in first + 1..n + 1 : Fits(first, k)
  <2> TAKE k \in first + 1..n + 1
  <2>1. CASE k = n + 1
    <3>1. cur # <<>>
      <4>1. Len(cur) >= 1
        BY <1>1, <1>5, <2>1
      <4> QED  BY <4>1
    <3> QED  BY <2>1, <3>1
  <2>2. CASE k # n + 1
    <3>1. k \in first + 1..n
      BY <1>1, <2>2
    <3> QED  BY <1>4, <3>1 DEF Filling
  <2> QED  BY <2>1, <2>2
<1>8. Filling(first, more, n + 1)
  <2>1. first + Len(more) = (n + 1) + 1
    BY <1>1, <1>3, <1>5
  <2> QED  BY <1>6, <1>7, <2>1 DEF Filling
<1>9. \A i \in 1..n + 1 :
          \/ i >= first
          \/ \E c \in 1..Len(full) : cut[c] <= i /\ i < cut[c + 1]
  <2> TAKE i \in 1..n + 1
  <2>1. CASE i = n + 1
    BY <1>1, <1>5, <2>1
  <2>2. CASE i # n + 1
    <3>1. i \in 1..n
      BY <2>2
    <3> QED  BY <3>1 DEF Cuts
  <2> QED  BY <2>1, <2>2
<1> QED  BY <1>8, <1>9 DEF Cuts

\* The chunk being filled is full, the next row not fitting it; cur is the
\* next, with that row or, at the end of the group, with none.
LEMMA CutsClose ==
    ASSUME NEW cut, NEW full \in Seq(Seq(Nat)), NEW cur \in Seq(Nat), NEW n \in Nat,
           order \in Seq(Nat), n <= Len(order), cut \in Cuttings(full),
           Cuts(cut, full, cur, n), cur # <<>>,
           n < Len(order) => ~Fits(cut[Len(full) + 1], n + 1),
           NEW next \in Seq(Nat), NEW m \in Nat, m = n + Len(next),
           next # <<>> => n < Len(order) /\ next = <<order[n + 1]>>
    PROVE  \E new \in Cuttings(Append(full, cur)) :
               Cuts(new, Append(full, cur), next, m)
<1>0. PICK C \in Nat : C = Len(full)
  OBVIOUS
<1> DEFINE first == cut[C + 1]
           all   == Append(full, cur)
           new   == [c \in 1..C + 2 |->
                        IF c <= C + 1 THEN cut[c] ELSE n + 1]
<1>1. /\ first \in Nat /\ Len(cur) \in Nat /\ C \in Nat
      /\ Len(order) \in Nat /\ Len(cur) >= 1
      /\ \A c \in 1..C + 1 : cut[c] \in Nat /\ 1 <= cut[c]
      /\ \A c \in 1..C + 1 : cut[c] <= Len(order) + 1
  <2>1. Len(cur) \in Nat /\ Len(cur) # 0
    OBVIOUS
  <2>2. Len(order) \in Nat /\ \A c \in 1..C + 1 :
           cut[c] \in Nat /\ 1 <= cut[c] /\ cut[c] <= Len(order) + 1
    BY <1>0, CutTyped
  <2>3. C + 1 \in 1..C + 1
    OBVIOUS
  <2> QED  BY <2>1, <2>2, <2>3
<1>2. /\ Len(all) = C + 1 /\ all[C + 1] = cur
      /\ \A c \in 1..C : all[c] = full[c]
  BY <1>0
<1>3. /\ \A c \in 1..C + 1 : new[c] = cut[c]
      /\ new[C + 2] = n + 1
  <2>1. \A c \in 1..C + 1 : c \in 1..C + 2 /\ c <= C + 1
    OBVIOUS
  <2>2. C + 2 \in 1..C + 2 /\ ~(C + 2 <= C + 1)
    OBVIOUS
  <2> QED  BY <2>1, <2>2
<1>4. new \in Cuttings(all)
  <2>1. new \in [1..C + 2 -> 1..Len(order) + 1]
    <3>1. n + 1 \in 1..Len(order) + 1
      BY <1>1
    <3>2. \A c \in 1..C + 2 : c <= C + 1 => cut[c] \in 1..Len(order) + 1
      <4>1. \A c \in 1..C + 2 : c <= C + 1 => c \in 1..C + 1
        OBVIOUS
      <4> QED  BY <1>1, <4>1
    <3> QED  BY <3>1, <3>2
  <2>2. Len(all) + 1 = C + 2
    BY <1>1, <1>2
  <2> QED  BY <2>1, <2>2 DEF Cuttings
<1>5. first + Len(cur) = n + 1 /\ Filling(first, cur, n)
  BY <1>0 DEF Cuts, Filling
<1>13. /\ cut[1] = 1
       /\ \A c, d \in 1..C + 1 : c < d => cut[c] < cut[d]
       /\ \A c \in 1..C : Filled(cut, full[c], c)
       /\ \A i \in 1..n : \/ i >= first
                          \/ \E c \in 1..C : cut[c] <= i /\ i < cut[c + 1]
       /\ first = cut[C + 1]
       /\ n + 1 <= Len(order) => ~Fits(first, n + 1)
  BY <1>0 DEF Cuts
<1> HIDE DEF new, all, first
<1>6. new[1] = 1
  <2>1. 1 \in 1..C + 1
    BY <1>1
  <2> QED  BY <2>1, <1>3, <1>13
<1>7. \A c, d \in 1..C + 2 : c < d => new[c] < new[d]
  <2> SUFFICES ASSUME NEW c \in 1..C + 2, NEW d \in 1..C + 2, c < d
               PROVE  new[c] < new[d]
    OBVIOUS
  <2>1. c \in 1..C + 1 /\ new[c] = cut[c]
    BY <1>1, <1>3
  <2>2. CASE d = C + 2
    <3>1. cut[c] <= first
      <4>1. CASE c = C + 1
        BY <1>1, <1>13, <4>1
      <4>2. CASE c # C + 1
        <5>1. c < C + 1 /\ C + 1 \in 1..C + 1
          BY <1>1, <2>1, <4>2
        <5>2. cut[c] < first
          BY <1>13, <2>1, <5>1
        <5> QED  BY <1>1, <2>1, <5>2
      <4> QED  BY <4>1, <4>2
    <3>2. new[d] = n + 1 /\ cut[c] \in Nat
      BY <1>1, <1>3, <2>1, <2>2
    <3> QED  BY <1>1, <1>5, <2>1, <3>1, <3>2
  <2>3. CASE d # C + 2
    <3>1. d \in 1..C + 1 /\ new[d] = cut[d]
      BY <1>1, <1>3, <2>3
    <3> QED  BY <1>13, <2>1, <3>1
  <2> QED  BY <2>2, <2>3
<1>8. \A c \in 1..Len(all) : Filled(new, all[c], c)
  <2> TAKE c \in 1..Len(all)
  <2>1. CASE c = C + 1
    <3>1. new[c] = first /\ new[c + 1] = n + 1 /\ all[c] = cur
      <4>1. c \in 1..C + 1 /\ c + 1 = C + 2
        BY <1>1, <2>1
      <4> QED  BY <1>2, <1>3, <1>13, <2>1, <4>1
    <3>2. (n + 1) - 1 = n /\ (n + 1 <= Len(order) => n < Len(order))
      BY <1>1
    <3>3. n + 1 <= Len(order) => ~Fits(first, n + 1)
      BY <1>13
    <3> QED  BY <1>5, <3>1, <3>2, <3>3 DEF Filled, Filling
  <2>2. CASE c # C + 1
    <3>1. /\ c \in 1..C /\ all[c] = full[c]
          /\ new[c] = cut[c] /\ new[c + 1] = cut[c + 1]
      <4>1. c \in 1..C + 1
        BY <1>2
      <4>2. c \in 1..C /\ c + 1 \in 1..C + 1
        BY <2>2, <4>1
      <4> QED  BY <1>2, <1>3, <4>1, <4>2
    <3>2. Filled(cut, full[c], c)
      BY <1>13, <3>1
    <3> QED  BY <3>1, <3>2 DEF Filled
  <2> QED  BY <2>1, <2>2
<1>9. Filling(n + 1, next, m)
  <2>1. CASE next = <<>>
    BY <2>1 DEF Filling
  <2>2. CASE next # <<>>
    <3>1. next = <<order[n + 1]>> /\ Len(next) = 1
      BY <2>2
    <3>2. m = n + 1 /\ \A i \in 1..Len(next) : i = 1
      BY <3>1
    <3> QED  BY <3>1, <3>2 DEF Filling
  <2> QED  BY <2>1, <2>2
<1>10. \A i \in 1..m :
           \/ i >= n + 1
           \/ \E c \in 1..Len(all) : new[c] <= i /\ i < new[c + 1]
  <2> SUFFICES ASSUME NEW i \in 1..m, i < n + 1
               PROVE  \E c \in 1..Len(all) : new[c] <= i /\ i < new[c + 1]
    OBVIOUS
  <2>1. CASE i >= first
    <3>1. C + 1 \in 1..Len(all) /\ (C + 1) + 1 = C + 2
      BY <1>1, <1>2
    <3>2. new[C + 1] = first /\ new[(C + 1) + 1] = n + 1
      BY <1>1, <1>3, <1>13, <3>1
    <3>4. new[C + 1] <= i /\ i < new[(C + 1) + 1]
      BY <2>1, <3>2
    <3> QED  BY <3>1, <3>4
  <2>2. CASE ~(i >= first)
    <3>1. i \in 1..n
      OBVIOUS
    <3>2. PICK c \in 1..C : cut[c] <= i /\ i < cut[c + 1]
      BY <1>13, <2>2, <3>1
    <3>3. c \in 1..Len(all) /\ new[c] = cut[c] /\ new[c + 1] = cut[c + 1]
      <4>1. c \in 1..C + 1 /\ c + 1 \in 1..C + 1
        OBVIOUS
      <4> QED  BY <1>2, <1>3, <4>1
    <3> QED  BY <3>2, <3>3
  <2> QED  BY <2>1, <2>2
<1>11. Cuts(new, all, next, m)
  <2>1. Len(all) + 1 = C + 2
    BY <1>1, <1>2
  <2> QED  BY <1>3, <1>6, <1>7, <1>8, <1>9, <1>10, <2>1 DEF Cuts
<1>12. \E cs \in Cuttings(all) : Cuts(cs, all, next, m)
  BY <1>4, <1>11
<1> QED  BY <1>12 DEF all

----------------------------------------------------------------------------
\* Only sorting a group changes order.
LEMMA SortedStep ==
    ASSUME TypeOK, SortedInv, Next
    PROVE  SortedInv'
<1>1. ASSUME NEW l \in Groups, Group(l) PROVE SortedInv'
  <2>1. /\ l \in Seq(Nat) /\ Len(l) \in Nat /\ lens' = l
        /\ order' \in Permutation(Len(l))
        /\ \A i, k \in 1..Len(l) : i < k => Before(l, order'[i], order'[k])
    BY <1>1, InputAssumption DEF Group, SortedRows
  <2>2. /\ order' \in [1..Len(l) -> 1..Len(l)]
        /\ \A i, k \in 1..Len(l) : order'[i] = order'[k] => i = k
    BY <2>1 DEF Permutation
  <2>3. Len(order') = Len(l)
    BY <2>1, <2>2
  <2>4. ASSUME NEW i \in 1..Len(l), NEW k \in 1..Len(l), i < k
        PROVE  l[order'[i]] <= l[order'[k]]
    <3>1. l[order'[i]] \in Nat /\ l[order'[k]] \in Nat
      <4>1. order'[i] \in 1..Len(l) /\ order'[k] \in 1..Len(l)
        BY <2>2
      <4> QED  BY <2>1, <4>1, SeqElement
    <3>2. l[order'[i]] < l[order'[k]] \/ l[order'[i]] = l[order'[k]]
      BY <2>1, <2>4 DEF Before
    <3> QED  BY <3>1, <3>2
  <2> QED  BY <2>1, <2>2, <2>3, <2>4 DEF SortedInv
<1>2. CASE Processed
  BY <1>2 DEF Processed, SortedInv
<1>3. CASE UNCHANGED <<lens, order>>
  BY <1>3 DEF SortedInv
<1>4. (\E l \in Groups : Group(l)) \/ Processed \/ UNCHANGED <<lens, order>>
  BY DEF Next, StartUp, Size, Pack, FixedBudget, NoCuda, BeginProbes, Raises,
     ProbeInside, ProbeReaches, ProbeExhausts, ProbesEnd, Ready, packVars,
     AdmitRow, OpenChunk, Packed
<1> QED  BY <1>1, <1>2, <1>3, <1>4

\* The next row is no shorter than the longest one in the chunk.
LEMMA NextIsLongest ==
    ASSUME TypeOK, SortedInv, LastInv, Packing
    PROVE  Row = order[taken + 1] /\ longest <= lens[Row] /\ Candidate = lens[Row]
<1>1. /\ taken \in Nat /\ taken + 1 \in 1..Len(order)
  BY DEF TypeOK, Packing
<1>2. lens[Row] \in Nat /\ longest \in Nat /\ Row = order[taken + 1]
  BY RowTyped DEF Row, TypeOK
<1>3. longest <= lens[Row]
  <2>1. CASE current = <<>>
    BY <1>2, <2>1 DEF LastInv, Packing
  <2>2. CASE current # <<>>
    <3>1. taken \in 1..Len(order) /\ taken < taken + 1
      BY <1>1, <2>2 DEF LastInv
    <3> QED  BY <1>1, <1>2, <2>2, <3>1 DEF LastInv, SortedInv
  <2> QED  BY <2>1, <2>2
<1> QED  BY <1>2, <1>3 DEF Candidate, Larger

\* The loop always knows the length of the last row it took.
LEMMA LastStep ==
    ASSUME TypeOK, SortedInv, LastInv, Next
    PROVE  LastInv'
<1>1. CASE StartUp
  <2>1. /\ phase \in {"start", "probe"} /\ phase' \in {"probe", "idle"}
        /\ UNCHANGED <<lens, order, taken, current, longest, chunks>>
    BY <1>1 DEF StartUp, Size, FixedBudget, NoCuda, BeginProbes, Raises,
       ProbeInside, ProbeReaches, ProbeExhausts, ProbesEnd, Probing, Ready, packVars
  <2> QED  BY <2>1 DEF LastInv
<1>2. ASSUME NEW l \in Groups, Group(l) PROVE LastInv'
  BY <1>2 DEF Group, LastInv
<1>3. CASE AdmitRow
  <2>1. /\ phase' = "pack" /\ current' = Append(current, Row)
        /\ taken' = taken + 1 /\ longest' = Candidate /\ Packing
        /\ UNCHANGED <<lens, order>>
    BY <1>3 DEF AdmitRow, Packing
  <2>2. /\ taken \in Nat /\ taken + 1 >= 1 /\ lens[Row] \in Nat
        /\ current \in Seq(1..Len(lens)) /\ Row \in 1..Len(lens)
    BY <2>1, RowTyped DEF TypeOK
  <2>3. current' # <<>>
    BY <2>1, <2>2
  <2>4. Candidate = lens[order[taken + 1]]
    BY <2>1, NextIsLongest
  <2> QED  BY <2>1, <2>2, <2>3, <2>4 DEF LastInv
<1>4. CASE OpenChunk
  <2>1. /\ phase' = "pack" /\ current' = <<Row>> /\ Packing
        /\ taken' = taken + 1 /\ longest' = lens[order[taken + 1]]
        /\ UNCHANGED <<lens, order>>
    BY <1>4 DEF OpenChunk, Packing, Row
  <2>2. taken \in Nat /\ taken + 1 >= 1 /\ current' # <<>>
    BY <2>1 DEF TypeOK
  <2> QED  BY <2>1, <2>2 DEF LastInv
<1>5. CASE Packed
  BY <1>5 DEF Packed, LastInv
<1>6. CASE Processed
  BY <1>6 DEF Processed, LastInv
<1> QED  BY <1>1, <1>2, <1>3, <1>4, <1>5, <1>6 DEF Next, Pack

\* The cuts found for the new chunks in the same order are the cuts afterwards.
LEMMA CutsKept ==
    ASSUME UNCHANGED <<order, lens, budget>>,
           \E cut \in Cuttings(chunks') : Cuts(cut, chunks', current', taken')
    PROVE  CutInv'
<1>1. PICK cut \in Cuttings(chunks') : Cuts(cut, chunks', current', taken')
  OBVIOUS
<1>2. order' = order /\ lens' = lens /\ budget' = budget
  OBVIOUS
<1>3. (cut \in Cuttings(chunks))'
  BY <1>2 DEF Cuttings
<1>4. ASSUME NEW f, NEW k PROVE Fits(f, k)' <=> Fits(f, k)
  BY <1>2 DEF Fits
<1>5. Filling(cut[Len(chunks) + 1], current, taken)'
  <2>0. PICK first : first = cut[Len(chunks') + 1]
    OBVIOUS
  <2>1. Filling(first, current', taken')
    BY <1>1, <2>0 DEF Cuts
  <2>2. /\ first + Len(current') = taken' + 1
        /\ \A i \in 1..Len(current') : current'[i] = order'[first + i - 1]
    BY <1>2, <2>1 DEF Filling
  <2>3. \A k \in first + 1..taken' : Fits(first, k)'
    BY <1>4, <2>1 DEF Filling
  <2>4. Filling(first, current, taken)'
    BY <2>2, <2>3 DEF Filling
  <2> QED  BY <2>0, <2>4
<1>6. ASSUME NEW c \in 1..Len(chunks') PROVE (Filled(cut, chunks[c], c))'
  <2>1. Filled(cut, chunks'[c], c)
    BY <1>1 DEF Cuts
  <2>2. /\ cut[c] + Len(chunks'[c]) = cut[c + 1]
        /\ \A i \in 1..Len(chunks'[c]) : chunks'[c][i] = order'[cut[c] + i - 1]
    BY <1>2, <2>1 DEF Filled
  <2>3. \A k \in cut[c] + 1..cut[c + 1] - 1 : Fits(cut[c], k)'
    BY <1>4, <2>1 DEF Filled
  <2>4. cut[c + 1] <= Len(order') => ~Fits(cut[c], cut[c + 1])'
    BY <1>2, <1>4, <2>1 DEF Filled
  <2> QED  BY <2>2, <2>3, <2>4 DEF Filled
<1>7. /\ cut[1] = 1
      /\ \A c, d \in 1..Len(chunks') + 1 : c < d => cut[c] < cut[d]
      /\ \A i \in 1..taken' :
             \/ i >= cut[Len(chunks') + 1]
             \/ \E c \in 1..Len(chunks') : cut[c] <= i /\ i < cut[c + 1]
  BY <1>1 DEF Cuts
<1>8. Cuts(cut, chunks, current, taken)'
  BY <1>5, <1>6, <1>7 DEF Cuts
<1> QED  BY <1>3, <1>8 DEF CutInv

\* Each branch of the loop leaves cuts as they should be.
LEMMA CutStep ==
    ASSUME TypeOK, FillInv, SortedInv, LastInv, CutInv, Next
    PROVE  CutInv'
<1>1. /\ order \in Seq(Nat) /\ current \in Seq(Nat) /\ chunks \in Seq(Seq(Nat))
      /\ taken \in Nat /\ taken <= Len(order) /\ Len(order) \in Nat
  <2>1. 1..Len(lens) \subseteq Nat
    OBVIOUS
  <2>2. order \in Seq(Nat) /\ current \in Seq(Nat)
    BY <2>1 DEF TypeOK
  <2>3. chunks \in Seq(Seq(Nat))
    <3>1. Seq(1..Len(lens)) \subseteq Seq(Nat)
      BY <2>1
    <3> QED  BY <3>1 DEF TypeOK
  <2> QED  BY <2>2, <2>3 DEF TypeOK
<1>2. PICK cut \in Cuttings(chunks) : Cuts(cut, chunks, current, taken)
  BY DEF CutInv
<1>3. cut[Len(chunks) + 1] = taken + 1 - Len(current)
  <2>1. cut[Len(chunks) + 1] \in Nat /\ Len(current) \in Nat
    <3>1. Len(chunks) \in Nat /\ Len(current) \in Nat
      BY <1>1
    <3> QED  BY <1>1, <3>1, CutTyped
  <2>2. cut[Len(chunks) + 1] + Len(current) = taken + 1
    BY <1>2 DEF Cuts, Filling
  <2>3. \A a, b, c \in Nat : a + b = c + 1 => a = c + 1 - b
    OBVIOUS
  <2> QED  BY <1>1, <2>1, <2>2, <2>3
\* Packing starts over, or has not begun.
<1>4. ASSUME Len(order') \in Nat, chunks' = <<>>, current' = <<>>, taken' = 0
      PROVE  CutInv'
  <2> DEFINE one == [c \in 1..1 |-> 1]
  <2>1. Len(<<>>) = 0 /\ one[1] = 1
    OBVIOUS
  <2>2. one \in Cuttings(chunks)'
    BY <1>4, <2>1 DEF Cuttings
  <2>3. Cuts(one, chunks, current, taken)'
    BY <1>4, <2>1 DEF Cuts, Filling
  <2> HIDE DEF one
  <2> QED  BY <2>2, <2>3 DEF CutInv
<1>5. CASE StartUp
  <2>1. /\ phase \in {"start", "probe"}
        /\ UNCHANGED <<lens, order, taken, current, longest, chunks>>
    BY <1>5 DEF StartUp, Size, FixedBudget, NoCuda, BeginProbes, Raises,
       ProbeInside, ProbeReaches, ProbeExhausts, ProbesEnd, Probing, Ready, packVars
  <2> QED  BY <1>1, <1>4, <2>1 DEF LastInv
<1>6. ASSUME NEW l \in Groups, Group(l) PROVE CutInv'
  <2>1. order' \in [1..Len(l) -> 1..Len(l)] /\ Len(l) \in Nat
    BY <1>6, InputAssumption DEF Group, SortedRows, Permutation
  <2>2. Len(order') \in Nat
    BY <2>1
  <2> QED  BY <1>4, <1>6, <2>2 DEF Group
<1>7. CASE Processed
  <2>1. Len(<<>>) \in Nat
    OBVIOUS
  <2> QED  BY <1>4, <1>7, <2>1 DEF Processed
<1>8. CASE AdmitRow
  <2>1. /\ Packing /\ ~OpensChunk /\ taken < Len(order)
        /\ current' = Append(current, order[taken + 1])
        /\ UNCHANGED <<order, lens, budget, chunks>> /\ taken' = taken + 1
    BY <1>8 DEF AdmitRow, Packing, Row
  <2>2. ASSUME current # <<>>
        PROVE  Fits(cut[Len(chunks) + 1], taken + 1)
    <3>1. ~OverBudget /\ ~(Len(current) + 1 > MaxRows)
      BY <2>1, <2>2 DEF OpensChunk
    <3>2. Candidate = lens[order[taken + 1]] /\ Candidate \in Nat
      BY <2>1, NextIsLongest, RowTyped
    <3>3. /\ (taken + 1) - cut[Len(chunks) + 1] + 1 = Len(current) + 1
          /\ Len(current) \in Nat
      BY <1>1, <1>3
    <3>4. (Len(current) + 1) * Candidate <= budget /\ Len(current) + 1 <= MaxRows
      <4>1. \A a, b \in Nat : a * b \in Nat
        OBVIOUS
      <4>2. (Len(current) + 1) * Candidate \in Nat
        <5>1. Len(current) + 1 \in Nat
          BY <3>3
        <5> QED  BY <3>2, <4>1, <5>1
      <4>3. budget \in Nat
        BY DEF TypeOK
      <4> QED  BY <3>1, <3>3, <4>2, <4>3, SizeAssumption DEF OverBudget
    <3> QED  BY <3>2, <3>3, <3>4 DEF Fits
  <2>3. Cuts(cut, chunks, Append(current, order[taken + 1]), taken + 1)
    BY <1>1, <1>2, <2>1, <2>2, CutsGrow
  <2>4. /\ cut \in Cuttings(chunks')
        /\ Cuts(cut, chunks', current', taken')
    BY <2>1, <2>3
  <2> QED  BY <2>1, <2>4, CutsKept
<1>9. CASE OpenChunk
  <2>1. /\ Packing /\ OpensChunk /\ taken < Len(order)
        /\ current # <<>> /\ current' = <<order[taken + 1]>>
        /\ chunks' = Append(chunks, current)
        /\ UNCHANGED <<order, lens, budget>> /\ taken' = taken + 1
    BY <1>9 DEF OpenChunk, OpensChunk, Packing, Row
  <2>2. ~Fits(cut[Len(chunks) + 1], taken + 1)
    <3>1. OverBudget \/ Len(current) + 1 > MaxRows
      BY <2>1 DEF OpensChunk
    <3>2. Candidate = lens[order[taken + 1]] /\ Candidate \in Nat
      BY <2>1, NextIsLongest, RowTyped
    <3>3. /\ (taken + 1) - cut[Len(chunks) + 1] + 1 = Len(current) + 1
          /\ Len(current) \in Nat
      BY <1>1, <1>3
    <3>4. \/ ~((Len(current) + 1) * Candidate <= budget)
          \/ ~(Len(current) + 1 <= MaxRows)
      <4>1. \A a, b \in Nat : a * b \in Nat
        OBVIOUS
      <4>2. (Len(current) + 1) * Candidate \in Nat
        <5>1. Len(current) + 1 \in Nat
          BY <3>3
        <5> QED  BY <3>2, <4>1, <5>1
      <4>3. budget \in Nat
        BY DEF TypeOK
      <4> QED  BY <3>1, <3>3, <4>2, <4>3, SizeAssumption DEF OverBudget
    <3> QED  BY <3>2, <3>3, <3>4 DEF Fits
  <2>3. /\ <<order[taken + 1]>> \in Seq(Nat) /\ Len(<<order[taken + 1]>>) = 1
        /\ taken + 1 \in Nat
    <3>1. taken + 1 \in 1..Len(order)
      BY <1>1, <2>1
    <3>2. order[taken + 1] \in Nat
      BY <1>1, <3>1
    <3> QED  BY <1>1, <3>2
  <2>4. \E new \in Cuttings(Append(chunks, current)) :
           Cuts(new, Append(chunks, current), <<order[taken + 1]>>, taken + 1)
    BY <1>1, <1>2, <2>1, <2>2, <2>3, CutsClose
  <2>5. \E new \in Cuttings(chunks') : Cuts(new, chunks', current', taken')
    BY <2>1, <2>4
  <2> QED  BY <2>1, <2>5, CutsKept
<1>10. CASE Packed
  <2>1. /\ taken = Len(order) /\ chunks' = WithCurrent /\ current' = <<>>
        /\ UNCHANGED <<order, lens, budget, taken>>
    BY <1>10 DEF Packed
  <2>2. CASE current = <<>>
    <3>1. cut \in Cuttings(chunks') /\ Cuts(cut, chunks', current', taken')
      BY <1>2, <2>1, <2>2 DEF WithCurrent
    <3> QED  BY <2>1, <3>1, CutsKept
  <2>3. CASE current # <<>>
    <3>1. <<>> \in Seq(Nat) /\ Len(<<>>) = 0 /\ taken = taken + 0
      BY <1>1
    <3>2. taken = taken + Len(<<>>) /\ ~(taken < Len(order))
      BY <1>1, <2>1, <3>1
    <3>3. \E new \in Cuttings(Append(chunks, current)) :
             Cuts(new, Append(chunks, current), <<>>, taken)
      BY <1>1, <1>2, <2>3, <3>1, <3>2, CutsClose
    <3>4. \E new \in Cuttings(chunks') : Cuts(new, chunks', current', taken')
      BY <2>1, <2>3, <3>3 DEF WithCurrent
    <3> QED  BY <2>1, <3>4, CutsKept
  <2> QED  BY <2>2, <2>3
<1> QED  BY <1>5, <1>6, <1>7, <1>8, <1>9, <1>10 DEF Next, Pack

\* So sorted order and cuts are always there.
LEMMA PackingInductive == Spec => [](IInv /\ PackInv)
<1>1. Init => PackInv
  <2> SUFFICES ASSUME Init PROVE PackInv
    OBVIOUS
  <2>1. SortedInv /\ LastInv
    <3>1. order = <<>> /\ Len(<<>>) = 0
      BY DEF Init
    <3> QED  BY <3>1 DEF Init, SortedInv, LastInv
  <2>2. CutInv
    <3> DEFINE one == [c \in 1..1 |-> 1]
    <3>1. Len(<<>>) = 0 /\ one[1] = 1
      OBVIOUS
    <3>2. one \in Cuttings(chunks)
      BY <3>1 DEF Cuttings, Init
    <3>3. Cuts(one, chunks, current, taken)
      BY <3>1 DEF Cuts, Filling, Init
    <3> HIDE DEF one
    <3> QED  BY <3>2, <3>3 DEF CutInv
  <2> QED  BY <2>1, <2>2 DEF PackInv
<1>2. IInv /\ PackInv /\ [Next]_vars => PackInv'
  <2> SUFFICES ASSUME IInv, PackInv, [Next]_vars PROVE PackInv'
    OBVIOUS
  <2>1. CASE Next
    BY <2>1, SortedStep, LastStep, CutStep DEF IInv, PackInv
  <2>2. CASE UNCHANGED vars
    <3>1. /\ UNCHANGED <<order, lens, budget>>
          /\ UNCHANGED <<phase, taken, current, longest, chunks>>
      BY <2>2 DEF vars, packVars
    <3>2. \E cut \in Cuttings(chunks') : Cuts(cut, chunks', current', taken')
      BY <3>1 DEF PackInv, CutInv
    <3>3. CutInv'
      BY <3>1, <3>2, CutsKept
    <3>4. SortedInv' /\ LastInv'
      BY <3>1 DEF PackInv, SortedInv, LastInv
    <3> QED  BY <3>3, <3>4 DEF PackInv
  <2> QED  BY <2>1, <2>2
<1> QED  BY <1>1, <1>2, Inductive, PTL DEF Spec

(***************************************************************************)
(* What the cuts of a packed group say of its rows and chunks.             *)
(***************************************************************************)
\* Every row of the group is in order: sorting loses none.
LEMMA EveryRowSorted ==
    ASSUME TypeOK, SortedInv, NEW r \in 1..Len(lens)
    PROVE  \E i \in 1..Len(order) : order[i] = r
<1> DEFINE S == 1..Len(lens)
<1>1. /\ Len(lens) \in Nat /\ Len(order) = Len(lens)
      /\ order \in Seq(S)
  BY DEF TypeOK
<1>2. order \in [S -> S]
  BY <1>1
<1>3. order \in Injection(S, S)
  BY <1>1, <1>2 DEF SortedInv, Injection, IsInjective
<1>4. IsFiniteSet(S)
  BY <1>1, FS_Interval
<1>5. order \in Surjection(S, S)
  BY <1>3, <1>4, FS_Injection
<1> QED  BY <1>1, <1>5 DEF Surjection

\* The chunks of a packed group lie end to end in order.
LEMMA PackedCuts ==
    ASSUME TypeOK, LastInv, NEW cut \in Cuttings(chunks),
           Cuts(cut, chunks, current, taken), phase = "packed"
    PROVE  /\ Len(chunks) \in Nat /\ Len(order) \in Nat /\ Len(order) = Len(lens)
           /\ cut[1] = 1 /\ cut[Len(chunks) + 1] = Len(order) + 1
           /\ \A c \in 1..Len(chunks) + 1 :
                  cut[c] \in Nat /\ 1 <= cut[c] /\ cut[c] <= Len(order) + 1
           /\ \A c, d \in 1..Len(chunks) + 1 : c < d => cut[c] < cut[d]
           /\ \A c \in 1..Len(chunks) :
                  /\ Filled(cut, chunks[c], c)
                  /\ Len(chunks[c]) \in Nat /\ cut[c] + Len(chunks[c]) = cut[c + 1]
           /\ \A i \in 1..Len(order) :
                  \E c \in 1..Len(chunks) : cut[c] <= i /\ i < cut[c + 1]
<1>1. /\ Len(chunks) \in Nat /\ Len(order) \in Nat /\ Len(order) = Len(lens)
      /\ order \in Seq(Nat)
      /\ \A c \in 1..Len(chunks) : Len(chunks[c]) \in Nat
  <2>1. order \in Seq(1..Len(lens)) /\ chunks \in Seq(Seq(1..Len(lens)))
    BY DEF TypeOK
  <2>2. \A c \in 1..Len(chunks) : chunks[c] \in Seq(1..Len(lens))
    BY <2>1, SeqElement
  <2>3. 1..Len(lens) \subseteq Nat
    OBVIOUS
  <2> QED  BY <2>1, <2>2, <2>3 DEF TypeOK
<1>2. taken = Len(order) /\ current = <<>> /\ Len(<<>>) = 0
  BY DEF LastInv
<1>3. \A c \in 1..Len(chunks) + 1 :
          cut[c] \in Nat /\ 1 <= cut[c] /\ cut[c] <= Len(order) + 1
  BY <1>1, CutTyped
<1>4. cut[Len(chunks) + 1] = Len(order) + 1
  <2>1. cut[Len(chunks) + 1] + 0 = Len(order) + 1
    BY <1>2 DEF Cuts, Filling
  <2>2. Len(chunks) + 1 \in 1..Len(chunks) + 1
    BY <1>1
  <2> QED  BY <1>1, <1>3, <2>1, <2>2
<1>5. /\ cut[1] = 1
      /\ \A c, d \in 1..Len(chunks) + 1 : c < d => cut[c] < cut[d]
      /\ \A c \in 1..Len(chunks) : Filled(cut, chunks[c], c)
  BY DEF Cuts
<1>6. \A c \in 1..Len(chunks) : cut[c] + Len(chunks[c]) = cut[c + 1]
  BY <1>5 DEF Filled
<1>7. \A i \in 1..Len(order) :
          \E c \in 1..Len(chunks) : cut[c] <= i /\ i < cut[c + 1]
  <2> TAKE i \in 1..Len(order)
  <2>1. ~(i >= cut[Len(chunks) + 1])
    BY <1>1, <1>4
  <2> QED  BY <1>2, <2>1 DEF Cuts
<1> QED  BY <1>1, <1>3, <1>4, <1>5, <1>6, <1>7

\* One chunk of a packed group in numbers: its first row, f, and its length.
Numbers(cut, c, f, m, n) ==
    /\ f = cut[c] /\ m = Len(chunks[c]) /\ n = Len(order)
    /\ cut[c + 1] = f + m /\ 1 <= f /\ 1 <= m /\ f + m <= n + 1

Span(c, f, m, n) ==
    /\ \A i \in 1..m : chunks[c][i] = order[f + i - 1]
    /\ \A k \in f + 1..f + m - 1 : Fits(f, k)
    /\ f + m <= n => ~Fits(f, f + m)

\* A chunk is a stretch of order that cannot be made longer.
LEMMA ChunkSpan ==
    ASSUME TypeOK, LastInv, NEW cut \in Cuttings(chunks),
           Cuts(cut, chunks, current, taken), phase = "packed",
           NEW c \in 1..Len(chunks)
    PROVE  \E f \in Nat, m \in Nat, n \in Nat :
               Numbers(cut, c, f, m, n) /\ Span(c, f, m, n)
<1>1. /\ Len(chunks) \in Nat /\ Len(order) \in Nat
      /\ \A d \in 1..Len(chunks) + 1 :
             cut[d] \in Nat /\ 1 <= cut[d] /\ cut[d] <= Len(order) + 1
      /\ \A d, g \in 1..Len(chunks) + 1 : d < g => cut[d] < cut[g]
      /\ Filled(cut, chunks[c], c)
      /\ Len(chunks[c]) \in Nat /\ cut[c] + Len(chunks[c]) = cut[c + 1]
  BY PackedCuts
<1>2. c \in 1..Len(chunks) + 1 /\ c + 1 \in 1..Len(chunks) + 1 /\ c < c + 1
  BY <1>1
<1>3. /\ cut[c] \in Nat /\ 1 <= cut[c] /\ cut[c + 1] <= Len(order) + 1
      /\ cut[c] < cut[c + 1]
  BY <1>1, <1>2
<1>4. PICK f \in Nat, m \in Nat, n \in Nat :
          f = cut[c] /\ m = Len(chunks[c]) /\ n = Len(order)
  BY <1>1, <1>3
<1>5. cut[c + 1] = f + m
  BY <1>1, <1>4
<1>6. 1 <= f /\ f < f + m /\ f + m <= n + 1
  BY <1>3, <1>4, <1>5
<1>7. /\ \A i \in 1..m : chunks[c][i] = order[f + i - 1]
      /\ \A k \in f + 1..f + m - 1 : Fits(f, k)
      /\ f + m <= n => ~Fits(f, f + m)
  <2>1. Filled(cut, chunks[c], c)
    BY <1>1
  <2>2. /\ \A i \in 1..Len(chunks[c]) : chunks[c][i] = order[cut[c] + i - 1]
        /\ \A k \in cut[c] + 1..cut[c + 1] - 1 : Fits(cut[c], k)
        /\ cut[c + 1] <= Len(order) => ~Fits(cut[c], cut[c + 1])
    BY <2>1 DEF Filled
  <2>3. \A i \in 1..m : chunks[c][i] = order[f + i - 1]
    BY <2>2, <1>4
  <2>4. \A k \in f + 1..f + m - 1 : Fits(f, k)
    BY <2>2, <1>4, <1>5
  <2>5. f + m <= n => ~Fits(f, f + m)
    BY <2>2, <1>4, <1>5
  <2> QED  BY <2>3, <2>4, <2>5
<1>8. 1 <= m
  BY <1>6
<1> QED  BY <1>4, <1>5, <1>6, <1>7, <1>8 DEF Numbers, Span

\* No two chunks overlap.
LEMMA OneSpan ==
    ASSUME NEW C \in Nat, NEW cut,
           \A d \in 1..C + 1 : cut[d] \in Nat,
           \A d, g \in 1..C + 1 : d < g => cut[d] < cut[g],
           NEW c \in 1..C, NEW d \in 1..C, NEW i \in Nat,
           cut[c] <= i, i < cut[c + 1], cut[d] <= i, i < cut[d + 1]
    PROVE  c = d
<1>1. /\ c \in 1..C + 1 /\ c + 1 \in 1..C + 1
      /\ d \in 1..C + 1 /\ d + 1 \in 1..C + 1
  OBVIOUS
<1>2. /\ cut[c] \in Nat /\ cut[c + 1] \in Nat
      /\ cut[d] \in Nat /\ cut[d + 1] \in Nat
  BY <1>1
<1>3. ASSUME c < d PROVE FALSE
  <2>1. c + 1 < d \/ c + 1 = d
    BY <1>3
  <2>2. cut[c + 1] <= cut[d]
    BY <1>1, <1>2, <2>1
  <2> QED  BY <1>2, <2>2
<1>4. ASSUME d < c PROVE FALSE
  <2>1. d + 1 < c \/ d + 1 = c
    BY <1>4
  <2>2. cut[d + 1] <= cut[c]
    BY <1>1, <1>2, <2>1
  <2> QED  BY <1>2, <2>2
<1> QED  BY <1>3, <1>4

\* What _pack's loop makes of a group is what module Batcher cuts it into:
\* each chunk is a run of the sorted rows that goes on as long as the next
\* row fits and no longer.
THEOREM PacksLikeBatcher == Spec => []PacksAsBatcher
<1>1. ASSUME IInv, PackInv PROVE PacksAsBatcher
  <2> SUFFICES ASSUME phase = "packed", NEW c \in 1..Len(chunks)
               PROVE  \E f \in 1..Len(order) : \E e \in f..Len(order) :
                          /\ chunks[c] = SubSeq(order, f, e)
                          /\ \A k \in f + 1..e : Fits(f, k)
                          /\ e < Len(order) => ~Fits(f, e + 1)
    BY DEF PacksAsBatcher
  <2>0. TypeOK /\ LastInv
    BY <1>1 DEF IInv, PackInv
  <2>1. PICK cut \in Cuttings(chunks) : Cuts(cut, chunks, current, taken)
    BY <1>1 DEF PackInv, CutInv
  <2>2. PICK f \in Nat, m \in Nat, n \in Nat :
            Numbers(cut, c, f, m, n) /\ Span(c, f, m, n)
    BY <2>0, <2>1, ChunkSpan
  <2>9. 1 <= f /\ 1 <= m /\ f + m <= n + 1 /\ m = Len(chunks[c]) /\ n = Len(order)
    BY <2>2 DEF Numbers
  <2>3. PICK e \in Nat : e = f + m - 1
    <3>1. f + m - 1 \in Nat
      BY <2>9
    <3> QED  BY <3>1
  <2>4. /\ f \in 1..n /\ e \in f..n /\ e + 1 = f + m /\ m = e - f + 1
        /\ f >= 1 /\ f <= e /\ e <= n
    BY <2>3, <2>9
  <2>5. chunks[c] = SubSeq(order, f, e)
    <3>1. order \in Seq(1..Len(lens)) /\ chunks[c] \in Seq(1..Len(lens))
      BY <2>0, SeqElement DEF TypeOK
    <3>2. /\ SubSeq(order, f, e) \in Seq(1..Len(lens))
          /\ Len(SubSeq(order, f, e)) = m
          /\ \A i \in 1..m : SubSeq(order, f, e)[i] = order[f + i - 1]
      <4>1. \A i \in f..e : order[i] \in 1..Len(lens)
        <5>1. \A i \in f..e : i \in 1..n
          BY <2>4
        <5> QED  BY <2>9, <3>1, <5>1, SeqElement
      <4>2. /\ SubSeq(order, f, e) \in Seq(1..Len(lens))
            /\ Len(SubSeq(order, f, e)) = IF f <= e THEN e - f + 1 ELSE 0
            /\ \A i \in 1..e - f + 1 : SubSeq(order, f, e)[i] = order[f + i - 1]
        BY <4>1, SubSeqProperties
      <4> QED  BY <2>4, <4>2
    <3>3. \A i \in 1..m : chunks[c][i] = order[f + i - 1]
      BY <2>2 DEF Span
    <3> QED  BY <2>9, <3>1, <3>2, <3>3, SeqEqual
  <2>6. e < n => ~Fits(f, e + 1)
    <3>1. e < n => f + m <= n
      BY <2>4
    <3> QED  BY <2>2, <2>4, <3>1 DEF Span
  <2>7. \A k \in f + 1..e : Fits(f, k)
    BY <2>2, <2>3 DEF Span
  <2> QED  BY <2>4, <2>5, <2>6, <2>7, <2>9
<1>2. IInv /\ PackInv => PacksAsBatcher
  BY <1>1
<1> QED  BY <1>2, Inductive, PackingInductive, PTL

\* _pack gives every row of a group, of whatever size, a place in one forward:
\* none is left out, none is run twice.
THEOREM PackedOnce == Spec => []EveryRowInOneForward
<1>1. ASSUME IInv, PackInv PROVE EveryRowInOneForward
  <2> SUFFICES ASSUME phase = "packed", NEW r \in 1..Len(lens)
               PROVE  Cardinality({k \in (1..Len(chunks)) \X (1..Len(lens)) :
                                      /\ k[2] <= Len(chunks[k[1]])
                                      /\ chunks[k[1]][k[2]] = r}) = 1
    BY DEF EveryRowInOneForward
  <2> DEFINE P == {k \in (1..Len(chunks)) \X (1..Len(lens)) :
                      k[2] <= Len(chunks[k[1]]) /\ chunks[k[1]][k[2]] = r}
  <2>0. TypeOK /\ SortedInv /\ LastInv
    BY <1>1 DEF IInv, PackInv
  <2>1. PICK cut \in Cuttings(chunks) : Cuts(cut, chunks, current, taken)
    BY <1>1 DEF PackInv, CutInv
  <2>2. /\ Len(chunks) \in Nat /\ Len(order) = Len(lens)
        /\ \A d \in 1..Len(chunks) + 1 : cut[d] \in Nat
        /\ \A d, g \in 1..Len(chunks) + 1 : d < g => cut[d] < cut[g]
        /\ \A i \in 1..Len(order) :
                \E c \in 1..Len(chunks) : cut[c] <= i /\ i < cut[c + 1]
    BY <2>0, <2>1, PackedCuts
  <2>3. PICK i \in 1..Len(order) : order[i] = r
    BY <2>0, EveryRowSorted
  <2>4. PICK c \in 1..Len(chunks) : cut[c] <= i /\ i < cut[c + 1]
    BY <2>2
  <2> HIDE DEF P
  <2>5. PICK j \in 1..Len(lens) : j <= Len(chunks[c]) /\ cut[c] + j - 1 = i
                                  /\ chunks[c][j] = r
    <3>1. PICK f \in Nat, m \in Nat, n \in Nat :
              Numbers(cut, c, f, m, n) /\ Span(c, f, m, n)
      BY <2>0, <2>1, ChunkSpan
    <3>2. /\ f <= i /\ i < f + m /\ i \in Nat /\ 1 <= f /\ f + m <= n + 1
          /\ f = cut[c] /\ m = Len(chunks[c]) /\ n = Len(order)
      BY <2>4, <3>1 DEF Numbers
    <3>3. PICK j \in Nat : j = i - f + 1
      <4>1. i - f + 1 \in Nat
        BY <3>2
      <4> QED  BY <4>1
    <3>4. 1 <= j /\ j <= m /\ j <= n /\ f + j - 1 = i
      <4>1. f <= i /\ i < f + m /\ i \in Nat /\ 1 <= f /\ f + m <= n + 1
        BY <3>2
      <4> QED  BY <3>3, <4>1
    <3>5. chunks[c][j] = r
      <4>1. j \in 1..m
        BY <3>4
      <4> QED  BY <2>3, <3>1, <3>4, <4>1 DEF Span
    <3> QED  BY <2>2, <3>2, <3>4, <3>5
  <2>6. <<c, j>> \in P
    BY <2>5 DEF P
  <2>7. ASSUME NEW k \in P PROVE k = <<c, j>>
    <3>1. PICK d \in 1..Len(chunks), h \in 1..Len(lens) :
              k = <<d, h>> /\ h <= Len(chunks[d]) /\ chunks[d][h] = r
      BY <2>7 DEF P
    <3>2. PICK f \in Nat, m \in Nat, n \in Nat :
              Numbers(cut, d, f, m, n) /\ Span(d, f, m, n)
      BY <2>0, <2>1, ChunkSpan
    <3>11. /\ f = cut[d] /\ m = Len(chunks[d]) /\ n = Len(order)
           /\ cut[d + 1] = f + m /\ 1 <= f /\ f + m <= n + 1
      BY <3>2 DEF Numbers
    <3>3. h \in Nat /\ 1 <= h /\ h <= m
      BY <3>1, <3>11
    <3>4. f + h - 1 \in 1..n /\ f + h - 1 \in Nat
      <4>1. 1 <= f /\ f + m <= n + 1
        BY <3>11
      <4> QED  BY <3>3, <4>1
    <3>5. order[f + h - 1] = r
      <4>1. h \in 1..m
        BY <3>3
      <4> QED  BY <3>1, <3>2, <4>1 DEF Span
    <3>6. f + h - 1 = i
      BY <2>0, <2>3, <3>11, <3>4, <3>5 DEF SortedInv
    <3>7. f <= i /\ i < f + m
      BY <3>3, <3>6
    <3>8. cut[d] <= i /\ i < cut[d + 1] /\ i \in Nat
      BY <3>11, <3>4, <3>6, <3>7
    <3>9. d = c
      BY <2>2, <2>4, <3>8, OneSpan
    <3>10. h = j
      <4>1. f + j - 1 = i /\ j \in Nat
        BY <2>5, <3>11, <3>9
      <4> QED  BY <3>3, <3>6, <4>1
    <3> QED  BY <3>1, <3>9, <3>10
  <2>8. P = {<<c, j>>}
    BY <2>6, <2>7
  <2> QED  BY <2>8, FS_Singleton DEF P
<1>2. IInv /\ PackInv => EveryRowInOneForward
  BY <1>1
<1> QED  BY <1>2, Inductive, PackingInductive, PTL

(***************************************************************************)
(* No other sharing needs fewer forwards.  Take any sharing of the rows    *)
(* out over forwards that are all within the limits: k of them hold no     *)
(* more rows than the first k chunks.  For either all their rows are in    *)
(* those chunks, or one forward has a row beyond them, as long as the row  *)
(* that did not fit chunk k, and so holds no more rows than that chunk.    *)
(***************************************************************************)
Of(share, K) == {r \in 1..Len(lens) : share[r] \in K}

WithinSize(rs) ==
    /\ Cardinality(rs) <= MaxRows
    /\ Cardinality(rs) > 1 => \A r \in rs : Cardinality(rs) * lens[r] <= budget

\* Every set of numbers has a least one.
LEMMA Least ==
    ASSUME NEW T \in SUBSET Nat, T # {}
    PROVE  \E x \in T : \A y \in T : x <= y
<1> DEFINE R == StrictSubsetOrdering(Nat)
           F == {0..t : t \in T}
<1>1. IsWellFoundedOn(R, FiniteSubsetsOf(Nat))
  BY FS_StrictSubsetOrderingWellFounded
<1>2. F \subseteq FiniteSubsetsOf(Nat) /\ F # {}
  <2>1. ASSUME NEW t \in T PROVE IsFiniteSet(0..t) /\ 0..t \subseteq Nat
    BY FS_Interval
  <2> QED  BY <2>1 DEF FiniteSubsetsOf
<1>3. \E X \in F : \A Y \in F : ~(<<Y, X>> \in R)
  <2> HIDE DEF R, F
  <2> QED  BY <1>1, <1>2, WFMin
<1>4. PICK x \in T : \A y \in T : ~(<<0..y, 0..x>> \in R)
  BY <1>3
<1>5. ASSUME NEW y \in T, y < x PROVE FALSE
  <2>1. 0..y \subseteq 0..x /\ x \in 0..x /\ x \notin 0..y
    BY <1>5
  <2>2. 0..y # 0..x
    BY <2>1
  <2>3. 0..y \in SUBSET Nat /\ 0..x \in SUBSET Nat
    OBVIOUS
  <2>4. <<0..y, 0..x>> \in R
    BY <2>1, <2>2, <2>3 DEF StrictSubsetOrdering
  <2> QED  BY <1>4, <2>4
<1>6. \A y \in T : x <= y
  BY <1>5
<1> QED  BY <1>6

\* The rows some forwards hold are finitely many.
LEMMA OfFinite ==
    ASSUME TypeOK, NEW share, NEW K
    PROVE  /\ IsFiniteSet(Of(share, K)) /\ Cardinality(Of(share, K)) \in Nat
           /\ IsFiniteSet(1..Len(lens)) /\ Cardinality(1..Len(lens)) = Len(lens)
<1>1. Len(lens) \in Nat
  BY DEF TypeOK
<1>2. /\ IsFiniteSet(1..Len(lens)) /\ Cardinality(1..Len(lens)) = Len(lens)
  <2>1. PICK n \in Nat : n = Len(lens)
    BY <1>1
  <2>2. /\ IsFiniteSet(1..n)
        /\ Cardinality(1..n) = IF 1 > n THEN 0 ELSE n - 1 + 1
    BY FS_Interval
  <2> QED  BY <2>1, <2>2
<1>3. Of(share, K) \in SUBSET (1..Len(lens))
  BY DEF Of
<1> QED  BY <1>2, <1>3, FS_Subset, FS_CardinalityType

\* The first p rows of order are at most p rows.
LEMMA FirstRows ==
    ASSUME TypeOK, NEW p \in Nat, p <= Len(order), NEW S,
           \A r \in S : \E i \in 1..p : order[i] = r
    PROVE  Cardinality(S) <= p
<1> DEFINE T == {order[i] : i \in 1..p}
           g == [i \in 1..p |-> order[i]]
<1>1. g \in Surjection(1..p, T)
  BY DEF Surjection
<1>2. IsFiniteSet(1..p) /\ Cardinality(1..p) = p
  BY FS_Interval
<1>3. S \in SUBSET T
  OBVIOUS
<1> HIDE DEF T, g
<1>4. IsFiniteSet(T) /\ Cardinality(T) <= p
  BY <1>1, <1>2, FS_Surjection
<1>5. Cardinality(S) <= Cardinality(T)
  BY <1>3, <1>4, FS_Subset
<1>6. Cardinality(T) \in Nat /\ Cardinality(S) \in Nat
  BY <1>3, <1>4, FS_Subset, FS_CardinalityType
<1> QED  BY <1>4, <1>5, <1>6

\* Multiplication keeps order.
LEMMA TimesLess ==
    ASSUME NEW a \in Nat, NEW b \in Nat, NEW x \in Nat, NEW y \in Nat,
           a <= b, x <= y
    PROVE  a * x <= b * y
<1>1. a * x <= a * y
  BY TimesMonotone
<1>2. y * a <= y * b
  BY TimesMonotone
<1>3. a * y = y * a /\ b * y = y * b
  OBVIOUS
<1>4. a * x \in Nat /\ a * y \in Nat /\ b * y \in Nat
  OBVIOUS
<1> QED  BY <1>1, <1>2, <1>3, <1>4

\* A forward with a row beyond chunk c holds no more rows than that chunk.
LEMMA BeyondChunk ==
    ASSUME TypeOK, SortedInv, LastInv, NEW cut \in Cuttings(chunks),
           Cuts(cut, chunks, current, taken), phase = "packed",
           NEW c \in 1..Len(chunks),
           NEW rs \in SUBSET (1..Len(lens)), WithinSize(rs),
           NEW i \in 1..Len(order), order[i] \in rs, cut[c + 1] <= i
    PROVE  Cardinality(rs) <= Len(chunks[c])
<1>1. PICK f \in Nat, m \in Nat, n \in Nat :
          Numbers(cut, c, f, m, n) /\ Span(c, f, m, n)
  BY ChunkSpan
<1>2. /\ m = Len(chunks[c]) /\ n = Len(order) /\ i \in Nat
      /\ 1 <= f /\ 1 <= m /\ f + m <= i /\ i <= n
  BY <1>1 DEF Numbers
<1>3. Cardinality(rs) \in Nat
  <2>1. Len(lens) \in Nat
    BY DEF TypeOK
  <2>2. IsFiniteSet(1..Len(lens))
    BY <2>1, FS_Interval
  <2>3. IsFiniteSet(rs)
    BY <2>2, FS_Subset
  <2> QED  BY <2>3, FS_CardinalityType
<1>4. PICK q \in Nat : q = Cardinality(rs)
  BY <1>3
<1>5. PICK j \in Nat : j = f + m
  OBVIOUS
<1>6. j \in 1..n /\ i \in 1..n /\ j <= i /\ j - f + 1 = m + 1
  <2>1. /\ 1 <= f /\ 1 <= m /\ f + m <= i /\ i <= n /\ i \in Nat
    BY <1>2
  <2> QED  BY <1>5, <2>1
<1>7. lens[order[j]] \in Nat /\ lens[order[i]] \in Nat
  <2>1. order \in Seq(1..Len(lens)) /\ lens \in Seq(Nat)
    BY DEF TypeOK
  <2>2. order[j] \in 1..Len(lens) /\ order[i] \in 1..Len(lens)
    BY <1>2, <1>6, <2>1, SeqElement
  <2> QED  BY <2>1, <2>2, SeqElement
<1>8. lens[order[j]] <= lens[order[i]]
  <2>1. CASE j = i
    BY <1>7, <2>1
  <2>2. CASE j < i
    BY <1>2, <1>6, <2>2 DEF SortedInv
  <2> QED  BY <1>6, <2>1, <2>2
<1>9. ~((m + 1) * lens[order[j]] <= budget) \/ ~(m + 1 <= MaxRows)
  <2>1. f + m <= n
    BY <1>6, <1>5
  <2>2. ~Fits(f, j)
    BY <1>1, <1>5, <2>1 DEF Span
  <2> QED  BY <1>6, <2>2 DEF Fits
<1>10. SUFFICES ASSUME m + 1 <= q PROVE FALSE
  BY <1>2, <1>4
<1>11. q <= MaxRows /\ MaxRows \in Nat
  BY <1>4, SizeAssumption DEF WithinSize
<1>12. q * lens[order[i]] <= budget
  <2>1. q > 1
    BY <1>2, <1>10
  <2> QED  BY <1>4, <2>1 DEF WithinSize
<1>13. (m + 1) * lens[order[j]] <= q * lens[order[i]]
  <2>1. m + 1 \in Nat
    OBVIOUS
  <2> QED  BY <1>7, <1>8, <1>10, <2>1, TimesLess
<1>14. /\ (m + 1) * lens[order[j]] \in Nat
       /\ q * lens[order[i]] \in Nat /\ budget \in Nat
  <2>1. \A a, b \in Nat : a * b \in Nat
    OBVIOUS
  <2>2. m + 1 \in Nat
    OBVIOUS
  <2>3. (m + 1) * lens[order[j]] \in Nat
    BY <1>7, <2>1, <2>2
  <2>4. q * lens[order[i]] \in Nat
    BY <1>7, <2>1
  <2> QED  BY <2>3, <2>4 DEF TypeOK
<1>15. (m + 1) * lens[order[j]] <= budget
  BY <1>12, <1>13, <1>14
<1>16. m + 1 <= MaxRows
  BY <1>10, <1>11
<1> QED  BY <1>9, <1>15, <1>16

\* As many forwards as there are chunks before the last hold too few rows.
Holds(share, cut, k) ==
    \A K \in SUBSET (1..Len(chunks) - 1) :
        Cardinality(K) = k => Cardinality(Of(share, K)) <= cut[k + 1] - 1

\* One forward more holds no more than one chunk more.
LEMMA HoldsStep ==
    ASSUME TypeOK, SortedInv, LastInv, NEW cut \in Cuttings(chunks),
           Cuts(cut, chunks, current, taken), phase = "packed",
           NEW share \in [1..Len(lens) -> 1..Len(chunks) - 1],
           \A c \in 1..Len(chunks) - 1 : WithinSize(Of(share, {c})),
           NEW k \in 1..Len(chunks) - 1, Holds(share, cut, k - 1)
    PROVE  Holds(share, cut, k)
<1>1. SUFFICES ASSUME NEW K \in SUBSET (1..Len(chunks) - 1), Cardinality(K) = k
               PROVE  Cardinality(Of(share, K)) <= cut[k + 1] - 1
  BY DEF Holds
<1>2. /\ Len(chunks) \in Nat /\ Len(order) \in Nat /\ Len(order) = Len(lens)
      /\ \A c \in 1..Len(chunks) + 1 :
             cut[c] \in Nat /\ 1 <= cut[c] /\ cut[c] <= Len(order) + 1
      /\ \A c \in 1..Len(chunks) :
             Len(chunks[c]) \in Nat /\ cut[c] + Len(chunks[c]) = cut[c + 1]
  BY PackedCuts
<1>3. k \in 1..Len(chunks) /\ k \in 1..Len(chunks) + 1 /\ k + 1 \in 1..Len(chunks) + 1
  BY <1>2
<1>4. /\ cut[k] \in Nat /\ cut[k + 1] \in Nat /\ 1 <= cut[k] /\ 1 <= cut[k + 1]
      /\ cut[k + 1] <= Len(order) + 1
      /\ Len(chunks[k]) \in Nat /\ cut[k] + Len(chunks[k]) = cut[k + 1]
  BY <1>2, <1>3
<1>5. CASE \A r \in Of(share, K) : \E i \in 1..cut[k + 1] - 1 : order[i] = r
  <2>1. cut[k + 1] - 1 \in Nat /\ cut[k + 1] - 1 <= Len(order)
    BY <1>2, <1>4
  <2> QED  BY <1>5, <2>1, FirstRows
<1>6. CASE \E r \in Of(share, K) : \A i \in 1..cut[k + 1] - 1 : order[i] # r
  <2>1. PICK r \in Of(share, K) : \A i \in 1..cut[k + 1] - 1 : order[i] # r
    BY <1>6
  <2>2. r \in 1..Len(lens) /\ share[r] \in K
    BY DEF Of
  <2>3. PICK i \in 1..Len(order) : order[i] = r
    BY <2>2, EveryRowSorted
  <2>4. cut[k + 1] <= i
    <3>1. i \notin 1..cut[k + 1] - 1
      BY <2>1, <2>3
    <3> QED  BY <1>2, <1>4, <3>1
  <2>5. PICK c \in 1..Len(chunks) - 1 : c = share[r] /\ c \in K
    BY <2>2
  <2>6. Cardinality(Of(share, {c})) <= Len(chunks[k])
    <3>1. Of(share, {c}) \in SUBSET (1..Len(lens)) /\ order[i] \in Of(share, {c})
      BY <2>2, <2>3, <2>5 DEF Of
    <3> QED  BY <1>3, <2>4, <3>1, BeyondChunk
  <2>7. Cardinality(Of(share, K \ {c})) <= cut[k] - 1
    <3>1. IsFiniteSet(1..Len(chunks) - 1)
      BY <1>2, FS_Interval
    <3>2. IsFiniteSet(K)
      BY <3>1, FS_Subset
    <3>3. Cardinality(K \ {c}) = k - 1
      BY <1>1, <2>5, <3>2, FS_RemoveElement
    <3>4. (k - 1) + 1 = k /\ K \ {c} \in SUBSET (1..Len(chunks) - 1)
      OBVIOUS
    <3> QED  BY <3>3, <3>4 DEF Holds
  <2>8. Of(share, K) = Of(share, K \ {c}) \cup Of(share, {c})
    BY <2>5 DEF Of
  <2>9. Of(share, K \ {c}) \cap Of(share, {c}) = {}
    BY DEF Of
  <2>10. Cardinality(Of(share, K))
            = Cardinality(Of(share, K \ {c})) + Cardinality(Of(share, {c}))
    <3>1. Cardinality({}) = 0
      BY FS_EmptySet
    <3>2. /\ IsFiniteSet(Of(share, K \ {c})) /\ IsFiniteSet(Of(share, {c}))
          /\ Cardinality(Of(share, K \ {c})) \in Nat
          /\ Cardinality(Of(share, {c})) \in Nat
      BY OfFinite
    <3>3. Cardinality(Of(share, K)) = Cardinality(Of(share, K \ {c}))
             + Cardinality(Of(share, {c})) - Cardinality({})
      BY <2>8, <2>9, <3>2, FS_Union
    <3> QED  BY <3>1, <3>2, <3>3
  <2>11. /\ Cardinality(Of(share, K \ {c})) \in Nat
         /\ Cardinality(Of(share, {c})) \in Nat
    BY OfFinite
  <2>12. \A a, b, x, y, z \in Nat : a <= x - 1 /\ b <= y /\ x + y = z => a + b <= z - 1
    OBVIOUS
  <2> QED  BY <1>4, <2>6, <2>7, <2>10, <2>11, <2>12
<1> QED  BY <1>5, <1>6

\* By the least number of forwards for which it fails.
LEMMA AllHold ==
    ASSUME TypeOK, SortedInv, LastInv, NEW cut \in Cuttings(chunks),
           Cuts(cut, chunks, current, taken), phase = "packed",
           NEW share \in [1..Len(lens) -> 1..Len(chunks) - 1],
           \A c \in 1..Len(chunks) - 1 : WithinSize(Of(share, {c})),
           NEW k \in 0..Len(chunks) - 1
    PROVE  Holds(share, cut, k)
<1> DEFINE Bad == {b \in 0..Len(chunks) - 1 : ~Holds(share, cut, b)}
<1>1. SUFFICES ASSUME Bad # {} PROVE FALSE
  OBVIOUS
<1>2. PICK b \in Bad : \A x \in Bad : b <= x
  <2>1. Bad \in SUBSET Nat
    OBVIOUS
  <2> HIDE DEF Bad
  <2> QED  BY <1>1, <2>1, Least
<1>3. b \in 0..Len(chunks) - 1 /\ ~Holds(share, cut, b)
  OBVIOUS
<1>4. b # 0
  <2>1. Holds(share, cut, 0)
    <3> SUFFICES ASSUME NEW K \in SUBSET (1..Len(chunks) - 1), Cardinality(K) = 0
                 PROVE  Cardinality(Of(share, K)) <= cut[0 + 1] - 1
      BY DEF Holds
    <3>1. Len(chunks) \in Nat
      BY DEF TypeOK
    <3>2. IsFiniteSet(K)
      <4>1. IsFiniteSet(1..Len(chunks) - 1)
        BY <3>1, FS_Interval
      <4> QED  BY <4>1, FS_Subset
    <3>3. K = {}
      BY <3>2, FS_EmptySet
    <3>4. Of(share, K) = {}
      BY <3>3 DEF Of
    <3>5. Cardinality(Of(share, K)) = 0
      BY <3>4, FS_EmptySet
    <3>6. cut[0 + 1] - 1 = 0
      BY DEF Cuts
    <3> QED  BY <3>5, <3>6
  <2> QED  BY <1>3, <2>1
<1>5. b \in 1..Len(chunks) - 1 /\ b - 1 \in 0..Len(chunks) - 1 /\ ~(b <= b - 1)
  BY <1>3, <1>4
<1>6. Holds(share, cut, b - 1)
  BY <1>2, <1>5
<1> HIDE DEF Bad
<1>7. Holds(share, cut, b)
  BY <1>5, <1>6, HoldsStep
<1> QED  BY <1>3, <1>7

\* Greedy filling in ascending order is optimal: no group, budget and limit
\* leave a way of sharing the rows out over fewer forwards.
THEOREM PacksFewest == Spec => []FewestForwards
<1>1. ASSUME IInv, PackInv PROVE FewestForwards
  <2> SUFFICES ASSUME phase = "packed", chunks # <<>>,
                      NEW share \in [1..Len(lens) -> 1..Len(chunks) - 1],
                      \A c \in 1..Len(chunks) - 1 : WithinSize(Of(share, {c}))
               PROVE  FALSE
    <3> SUFFICES ASSUME phase = "packed", chunks # <<>>,
                        NEW share \in [1..Len(lens) -> 1..Len(chunks) - 1]
                 PROVE  \E c \in 1..Len(chunks) - 1 :
                          LET mine == {r \in 1..Len(lens) : share[r] = c}
                          IN  \/ Cardinality(mine) > MaxRows
                              \/ /\ Cardinality(mine) > 1
                                 /\ \E r \in mine : Cardinality(mine) * lens[r] > budget
      BY DEF FewestForwards
    <3>1. PICK c \in 1..Len(chunks) - 1 : ~WithinSize(Of(share, {c}))
      OBVIOUS
    <3>2. Of(share, {c}) = {r \in 1..Len(lens) : share[r] = c}
      BY DEF Of
    <3>3. TypeOK /\ Of(share, {c}) \subseteq 1..Len(lens)
      BY <1>1 DEF IInv, Of
    <3>4. PICK q \in Nat : q = Cardinality(Of(share, {c}))
      BY <3>3, OfFinite
    <3>5. budget \in Nat /\ MaxRows \in Nat
      BY <3>3, SizeAssumption DEF TypeOK
    <3>6. \A r \in Of(share, {c}) : q * lens[r] \in Nat
      <4> TAKE r \in Of(share, {c})
      <4>1. lens[r] \in Nat
        BY <3>3, SeqElement DEF TypeOK
      <4>2. \A a, b \in Nat : a * b \in Nat
        OBVIOUS
      <4> QED  BY <4>1, <4>2
    <3>7. \/ q > MaxRows
          \/ q > 1 /\ \E r \in Of(share, {c}) : q * lens[r] > budget
      <4>1. \/ ~(q <= MaxRows)
            \/ q > 1 /\ ~(\A r \in Of(share, {c}) : q * lens[r] <= budget)
        BY <3>1, <3>4 DEF WithinSize
      <4>2. ASSUME NEW r \in Of(share, {c}), ~(q * lens[r] <= budget)
            PROVE  q * lens[r] > budget
        <5>1. q * lens[r] \in Nat
          BY <3>6
        <5>2. \A a, b \in Nat : ~(a <= b) => a > b
          OBVIOUS
        <5> QED  BY <3>5, <4>2, <5>1, <5>2
      <4>3. ~(q <= MaxRows) => q > MaxRows
        BY <3>5
      <4> QED  BY <4>1, <4>2, <4>3
    <3> QED  BY <3>2, <3>4, <3>7
  <2>0. TypeOK /\ SortedInv /\ LastInv
    BY <1>1 DEF IInv, PackInv
  <2>1. PICK cut \in Cuttings(chunks) : Cuts(cut, chunks, current, taken)
    BY <1>1 DEF PackInv, CutInv
  <2>2. /\ Len(chunks) \in Nat /\ Len(order) \in Nat /\ Len(order) = Len(lens)
        /\ cut[Len(chunks) + 1] = Len(order) + 1
        /\ \A c \in 1..Len(chunks) + 1 : cut[c] \in Nat
        /\ \A c, d \in 1..Len(chunks) + 1 : c < d => cut[c] < cut[d]
    BY <2>0, <2>1, PackedCuts
  <2>3. Len(chunks) >= 1
    <3>1. Len(chunks) # 0
      <4>1. chunks \in Seq(Seq(1..Len(lens)))
        BY <2>0 DEF TypeOK
      <4>2. Len(chunks) \in Nat \ {0}
        BY <4>1, EmptySeq
      <4> QED  BY <4>2
    <3> QED  BY <2>2, <3>1
  <2>4. PICK k \in Nat : k = Len(chunks) - 1
    <3>1. Len(chunks) - 1 \in Nat
      BY <2>2, <2>3
    <3> QED  BY <3>1
  <2>5. /\ k \in 0..Len(chunks) - 1 /\ k + 1 = Len(chunks)
        /\ k + 1 \in 1..Len(chunks) + 1 /\ Len(chunks) + 1 \in 1..Len(chunks) + 1
        /\ k + 1 < Len(chunks) + 1
    BY <2>2, <2>4
  <2>6. Cardinality(1..k) = k
    BY FS_Interval
  <2>7. Holds(share, cut, k)
    BY <2>0, <2>1, <2>5, AllHold
  <2>8. Cardinality(Of(share, 1..k)) <= cut[k + 1] - 1
    BY <2>4, <2>6, <2>7 DEF Holds
  <2>9. Of(share, 1..k) = 1..Len(lens)
    BY <2>4 DEF Of
  <2>10. Cardinality(Of(share, 1..k)) = Len(lens)
    BY <2>0, <2>9, OfFinite
  <2>11. cut[k + 1] < Len(order) + 1 /\ cut[k + 1] \in Nat
    BY <2>2, <2>5
  <2> QED  BY <2>2, <2>8, <2>10, <2>11
<1>2. IInv /\ PackInv => FewestForwards
  BY <1>1
<1> QED  BY <1>2, Inductive, PackingInductive, PTL
=============================================================================
