--------------------------- MODULE TreplayProofs ---------------------------
(***************************************************************************)
(* Proofs about treplay, for any trace file, command line and contents of  *)
(* the stack: what it reads, what it replays and in which order, while the *)
(* mount may go on writing the file.                                       *)
(***************************************************************************)
EXTENDS Treplay, WellFoundedInduction, TLAPS

-----------------------------------------------------------------------------
(* Where the records of a trace file start.  Starts is defined by recursion *)
(* over the file; that it exists and grows is shown by the least number for *)
(* which it would not.                                                      *)

\* A set of naturals that is not empty has a least element.
LEMMA NatMin == ASSUME NEW T \in SUBSET Nat, T # {} PROVE \E x \in T : \A y \in T : x <= y
<1> DEFINE R == {ss \in Nat \X Nat : ss[1] < ss[2]}
<1>1. OpToRel(<, Nat) = R
  BY DEF OpToRel
<1>2. IsWellFoundedOn(R, Nat) BY <1>1, NatLessThanWellFounded
<1> HIDE DEF R
<1>3. PICK x \in T : \A y \in T : ~ (<<y, x>> \in R) BY <1>2, WFMin
<1>4. \A y \in T : ~(y < x) BY <1>3 DEF R
<1> QED BY <1>4

\* f is what the recursion of Starts says, up to n.
Unfolds(f, n) == f = [i \in 1 .. n |-> IF i = 1 THEN 0 ELSE f[i - 1] + Size(i - 1)]

\* There is such a function for every n.
LEMMA UnfoldsExists == \A n \in Nat : \E f : Unfolds(f, n)
<1> DEFINE T == {n \in Nat : ~ \E f : Unfolds(f, n)}
<1> SUFFICES ASSUME T # {} PROVE FALSE OBVIOUS
<1>1. PICK n \in T : \A y \in T : n <= y
  <2>1. T \in SUBSET Nat OBVIOUS
  <2> HIDE DEF T
  <2> QED BY <2>1, NatMin
<1>2. n \in Nat /\ ~ \E f : Unfolds(f, n) OBVIOUS
<1>3. n # 0
  <2>1. Unfolds([i \in 1 .. 0 |-> 0], 0) BY DEF Unfolds
  <2> QED BY <1>2, <2>1
<1>4. n - 1 \in Nat /\ n - 1 \notin T BY <1>1, <1>2, <1>3
<1>5. PICK f : Unfolds(f, n - 1) BY <1>4
<1> DEFINE g == [i \in 1 .. n |-> IF i = 1 THEN 0 ELSE f[i - 1] + Size(i - 1)]
<1>6. \A i \in 1 .. n - 1 : g[i] = f[i]
  <2>1. f = [i \in 1 .. n - 1 |-> IF i = 1 THEN 0 ELSE f[i - 1] + Size(i - 1)] BY <1>5 DEF Unfolds
  <2>2. \A i \in 1 .. n - 1 : f[i] = IF i = 1 THEN 0 ELSE f[i - 1] + Size(i - 1) BY <2>1, Zenon
  <2>3. \A i \in 1 .. n - 1 : i \in 1 .. n BY <1>2
  <2> QED BY <2>2, <2>3
<1>7. g = [i \in 1 .. n |-> IF i = 1 THEN 0 ELSE g[i - 1] + Size(i - 1)]
  <2>1. \A i \in 1 .. n : i # 1 => i - 1 \in 1 .. n - 1 BY <1>2
  <2> HIDE DEF g
  <2>2. g = [i \in 1 .. n |-> IF i = 1 THEN 0 ELSE f[i - 1] + Size(i - 1)] BY DEF g
  <2> QED BY <1>6, <2>1, <2>2
<1>8. Unfolds(g, n) BY <1>7 DEF Unfolds
<1> QED BY <1>2, <1>8

\* Starts is such a function.
LEMMA StartsUnfolds == ASSUME Len(trace) \in Nat PROVE Unfolds(Starts, Len(trace) + 1)
<1>1. Starts = CHOOSE f : f = [i \in 1 .. Len(trace) + 1 |-> IF i = 1 THEN 0 ELSE f[i - 1] + Size(i - 1)]
  BY DEF Starts
<1>2. Starts = CHOOSE f : Unfolds(f, Len(trace) + 1) BY <1>1 DEF Unfolds
<1>3. \E f : Unfolds(f, Len(trace) + 1) BY UnfoldsExists
<1> QED BY <1>2, <1>3, Zenon

\* The records of a trace are not empty; those with a head have all of the
\* header and of the path.
LEMMA RecordFacts ==
  ASSUME trace \in Traces
  PROVE  /\ Len(trace) \in Nat /\ DOMAIN trace = 1 .. Len(trace)
         /\ \A i \in 1 .. Len(trace) :
              /\ trace[i].head \in Nat /\ (trace[i].head > 0 => trace[i].head > RecHeader)
              /\ Size(i) \in Nat /\ Size(i) > 0 /\ trace[i].head <= Size(i)
              /\ trace[i].rec_size \in Int
              /\ trace[i].result \in {0, -1}
<1> DEFINE Fine(r) == /\ r.head \in Nat /\ (r.head > 0 => r.head > RecHeader)
                      /\ r.head + r.aux \in Nat /\ r.head + r.aux > 0 /\ r.head <= r.head + r.aux
                      /\ r.rec_size \in Int /\ r.result \in {0, -1}
<1>1. trace \in Seq(Records) BY TracesAssumption
<1>2. Len(trace) \in Nat /\ DOMAIN trace = 1 .. Len(trace) /\ \A i \in 1 .. Len(trace) : trace[i] \in Records
  BY <1>1
<1>3. ASSUME NEW r \in Records PROVE Fine(r)
  <2>1. /\ r.head \in {0} \cup (RecHeader + 1 .. RecHeader + PageSize - 1) /\ r.aux \in Nat
        /\ r.rec_size \in ShortInt /\ r.result \in {0, -1} /\ r.head + r.aux > 0
    BY DEF Records
  <2>2. \A h \in {0} \cup (RecHeader + 1 .. RecHeader + PageSize - 1) : h \in Nat /\ (h > 0 => h > RecHeader)
    BY DEF RecHeader, PageSize
  <2>3. \A h, a \in Nat : h + a \in Nat /\ h <= h + a OBVIOUS
  <2>4. \A n \in ShortInt : n \in Int BY DEF ShortInt
  <2> QED BY <2>1, <2>2, <2>3, <2>4
<1>4. ASSUME NEW i \in 1 .. Len(trace) PROVE Fine(trace[i])
  <2> HIDE DEF Fine
  <2> QED BY <1>2, <1>3
<1> QED BY <1>2, <1>4 DEF Size

\* Records start at naturals and lie one behind the other.
LEMMA StartsFacts ==
  ASSUME trace \in Traces
  PROVE  /\ DOMAIN Starts = 1 .. Len(trace) + 1
         /\ Starts[1] = 0
         /\ \A i \in 1 .. Len(trace) : Starts[i + 1] = Starts[i] + Size(i)
         /\ \A i \in 1 .. Len(trace) + 1 : Starts[i] \in Nat
         /\ \A i, j \in 1 .. Len(trace) + 1 : i < j => Starts[i] + Size(i) <= Starts[j]
<1> DEFINE n == Len(trace)
<1>1. n \in Nat BY RecordFacts
<1>2. Starts = [i \in 1 .. n + 1 |-> IF i = 1 THEN 0 ELSE Starts[i - 1] + Size(i - 1)]
  BY <1>1, StartsUnfolds DEF Unfolds
<1>3. DOMAIN Starts = 1 .. n + 1 BY <1>2, Zenon
<1>4. \A i \in 1 .. n + 1 : Starts[i] = IF i = 1 THEN 0 ELSE Starts[i - 1] + Size(i - 1) BY <1>2, Zenon
<1>5. Starts[1] = 0 BY <1>1, <1>4
<1>6. \A i \in 1 .. n : Starts[i + 1] = Starts[i] + Size(i)
  <2> TAKE i \in 1 .. n
  <2>1. i + 1 \in 1 .. n + 1 /\ i + 1 # 1 /\ (i + 1) - 1 = i BY <1>1
  <2> QED BY <1>4, <2>1
<1>7. \A i \in 1 .. n : Size(i) \in Nat BY RecordFacts
<1>8. \A i \in 1 .. n + 1 : Starts[i] \in Nat
  <2> DEFINE T == {i \in 1 .. n + 1 : Starts[i] \notin Nat}
  <2> SUFFICES ASSUME T # {} PROVE FALSE OBVIOUS
  <2>1. PICK i \in T : \A y \in T : i <= y
    <3>1. T \in SUBSET Nat BY <1>1
    <3> HIDE DEF T
    <3> QED BY <3>1, NatMin
  <2>2. i \in 1 .. n + 1 /\ Starts[i] \notin Nat OBVIOUS
  <2>3. i # 1 BY <1>5, <2>2
  <2>4. i - 1 \in 1 .. n /\ (i - 1) + 1 = i BY <1>1, <2>2, <2>3
  <2>5. Starts[i - 1] \in Nat
    <3>1. i - 1 \in 1 .. n + 1 /\ ~(i <= i - 1) BY <1>1, <2>2, <2>4
    <3> QED BY <2>1, <3>1
  <2>6. Starts[(i - 1) + 1] = Starts[i - 1] + Size(i - 1) BY <1>6, <2>4
  <2> QED BY <1>7, <2>2, <2>4, <2>5, <2>6
<1>9. \A i, j \in 1 .. n + 1 : i < j => Starts[i] + Size(i) <= Starts[j]
  <2> DEFINE T == {j \in 1 .. n + 1 : \E i \in 1 .. n + 1 : i < j /\ ~(Starts[i] + Size(i) <= Starts[j])}
  <2> SUFFICES ASSUME T # {} PROVE FALSE OBVIOUS
  <2>1. PICK j \in T : \A y \in T : j <= y
    <3>1. T \in SUBSET Nat BY <1>1
    <3> HIDE DEF T
    <3> QED BY <3>1, NatMin
  <2>2. j \in 1 .. n + 1 OBVIOUS
  <2>3. PICK i \in 1 .. n + 1 : i < j /\ ~(Starts[i] + Size(i) <= Starts[j]) OBVIOUS
  <2>4. j - 1 \in 1 .. n /\ (j - 1) + 1 = j /\ i \in 1 .. n BY <1>1, <2>2, <2>3
  <2>5. Starts[j] = Starts[j - 1] + Size(j - 1) BY <1>6, <2>4
  <2>6. i # j - 1
    <3> SUFFICES ASSUME i = j - 1 PROVE FALSE OBVIOUS
    <3>1. Starts[j] = Starts[i] + Size(i) /\ Starts[i] \in Nat /\ Size(i) \in Nat BY <1>7, <1>8, <2>3, <2>4, <2>5
    <3>2. \A a, b \in Nat : a + b <= a + b OBVIOUS
    <3> QED BY <2>3, <3>1, <3>2
  <2>7. i < j - 1 BY <1>1, <2>2, <2>3, <2>6
  <2>8. j - 1 \in 1 .. n + 1 /\ ~(j <= j - 1) BY <1>1, <2>2, <2>4
  <2>9. j - 1 \notin T BY <2>1, <2>8
  <2>10. Starts[i] + Size(i) <= Starts[j - 1] BY <2>3, <2>7, <2>8, <2>9
  <2>11. /\ Starts[i] \in Nat /\ Size(i) \in Nat /\ Starts[j - 1] \in Nat /\ Size(j - 1) \in Nat
    BY <1>7, <1>8, <2>3, <2>4, <2>8
  <2> QED BY <2>3, <2>5, <2>10, <2>11
<1> QED BY <1>3, <1>5, <1>6, <1>8, <1>9

\* Records that start at different places are in that order.
LEMMA StartsOrder ==
  ASSUME trace \in Traces
  PROVE  \A i, j \in 1 .. Len(trace) + 1 :
           /\ Starts[i] < Starts[j] => i < j /\ i \in 1 .. Len(trace) /\ Starts[i + 1] <= Starts[j]
           /\ Starts[i] = Starts[j] => i = j
           /\ i <= j => Starts[i] <= Starts[j]
<1> SUFFICES ASSUME NEW i \in 1 .. Len(trace) + 1, NEW j \in 1 .. Len(trace) + 1
             PROVE  /\ Starts[i] < Starts[j] => i < j /\ i \in 1 .. Len(trace) /\ Starts[i + 1] <= Starts[j]
                    /\ Starts[i] = Starts[j] => i = j
                    /\ i <= j => Starts[i] <= Starts[j]
  OBVIOUS
<1>1. Len(trace) \in Nat BY RecordFacts
<1>2. \A k \in 1 .. Len(trace) : Size(k) \in Nat /\ Size(k) > 0 BY RecordFacts
<1>3. Starts[i] \in Nat /\ Starts[j] \in Nat BY StartsFacts
<1>4. i < j => i \in 1 .. Len(trace) /\ Starts[i] + Size(i) <= Starts[j] BY <1>1, StartsFacts
<1>5. j < i => j \in 1 .. Len(trace) /\ Starts[j] + Size(j) <= Starts[i] BY <1>1, StartsFacts
<1>6. i < j => Starts[i + 1] = Starts[i] + Size(i) /\ Starts[i] < Starts[j] BY <1>2, <1>3, <1>4, StartsFacts
<1>7. j < i => Starts[j] < Starts[i] BY <1>2, <1>3, <1>5
<1> QED BY <1>1, <1>3, <1>4, <1>6, <1>7

\* The lengths of the file are positions in it, the largest is its end.
LEMMA LengthsFacts ==
  ASSUME trace \in Traces
  PROVE  /\ FileEnd \in Lengths /\ FileEnd \in Nat /\ 0 \in Lengths
         /\ \A m \in Lengths : m \in Nat /\ m <= FileEnd
<1>1. Len(trace) \in Nat /\ DOMAIN trace = 1 .. Len(trace) BY RecordFacts
<1>2. Len(trace) + 1 \in 1 .. Len(trace) + 1 /\ 1 \in 1 .. Len(trace) + 1 BY <1>1
<1>3. FileEnd \in Lengths /\ 0 \in Lengths /\ FileEnd \in Nat BY <1>2, StartsFacts DEF FileEnd, Lengths
<1>4. \A i \in 1 .. Len(trace) + 1 : Starts[i] \in Nat /\ Starts[i] <= FileEnd
  <2> TAKE i \in 1 .. Len(trace) + 1
  <2>1. i <= Len(trace) + 1 BY <1>1
  <2> QED BY <1>2, <2>1, StartsFacts, StartsOrder DEF FileEnd
<1>5. \A i \in DOMAIN trace : Starts[i] + trace[i].head \in Nat /\ Starts[i] + trace[i].head <= FileEnd
  <2> TAKE i \in DOMAIN trace
  <2>1. i \in 1 .. Len(trace) /\ i \in 1 .. Len(trace) + 1 /\ i + 1 \in 1 .. Len(trace) + 1 BY <1>1
  <2>2. Starts[i] \in Nat /\ trace[i].head \in Nat /\ Size(i) \in Nat /\ trace[i].head <= Size(i)
    BY <2>1, StartsFacts, RecordFacts
  <2>3. Starts[i + 1] = Starts[i] + Size(i) BY <2>1, StartsFacts
  <2>4. Starts[i + 1] <= FileEnd BY <1>4, <2>1
  <2> QED BY <1>3, <2>2, <2>3, <2>4
<1> QED BY <1>3, <1>4, <1>5 DEF Lengths

\* The records of a regular trace state their sizes, which go beyond the header.
LEMMA RegularFacts ==
  ASSUME trace \in Traces, Regular
  PROVE  /\ Aligned /\ FileEnd + Chunk < IntLimit
         /\ \A i \in 1 .. Len(trace) : trace[i].head > RecHeader /\ trace[i].rec_size = Size(i)
<1>1. DOMAIN trace = 1 .. Len(trace) BY RecordFacts
<1> QED BY <1>1, RecordFacts DEF Regular

\* When a record starts ahead of a length of the file, its header is there.
LEMMA HeaderThere ==
  ASSUME trace \in Traces, Regular, NEW j \in 1 .. Len(trace) + 1, NEW m \in Lengths, Starts[j] < m
  PROVE  j \in 1 .. Len(trace) /\ Starts[j] + RecHeader <= m
<1>1. Len(trace) \in Nat /\ DOMAIN trace = 1 .. Len(trace) BY RecordFacts
<1>2. RecHeader \in Nat BY DEF RecHeader
<1>3. Starts[j] \in Nat BY StartsFacts
<1>4. CASE \E i \in 1 .. Len(trace) + 1 : m = Starts[i]
  <2>1. PICK i \in 1 .. Len(trace) + 1 : m = Starts[i] BY <1>4
  <2>2. j \in 1 .. Len(trace) /\ Starts[j + 1] <= m BY <2>1, StartsOrder
  <2>3. /\ Starts[j + 1] = Starts[j] + Size(j) /\ Size(j) \in Nat /\ RecHeader <= Size(j)
    <3>1. trace[j].head \in Nat /\ trace[j].head > RecHeader /\ Size(j) \in Nat /\ trace[j].head <= Size(j)
      BY <2>2, RecordFacts, RegularFacts
    <3> QED BY <1>2, <2>2, <3>1, StartsFacts
  <2>4. m \in Nat BY <2>1, StartsFacts
  <2> QED BY <1>2, <1>3, <2>2, <2>3, <2>4
<1>5. CASE \E i \in DOMAIN trace : m = Starts[i] + trace[i].head
  <2>1. PICK i \in DOMAIN trace : m = Starts[i] + trace[i].head BY <1>5
  <2>2. i \in 1 .. Len(trace) /\ i \in 1 .. Len(trace) + 1 BY <1>1, <2>1
  <2>3. /\ trace[i].head \in Nat /\ trace[i].head > RecHeader /\ Size(i) \in Nat /\ trace[i].head <= Size(i)
    BY <2>2, RecordFacts, RegularFacts
  <2>4. Starts[i] \in Nat BY <2>2, StartsFacts
  <2>5. ~(i < j)
    <3> SUFFICES ASSUME i < j PROVE FALSE OBVIOUS
    <3>1. Starts[i] + Size(i) <= Starts[j] BY <2>2, StartsFacts
    <3> QED BY <1>3, <2>1, <2>3, <2>4, <3>1
  <2>6. j <= i BY <2>2, <2>5
  <2>7. Starts[j] <= Starts[i] BY <2>2, <2>6, StartsOrder
  <2> QED BY <1>1, <1>2, <1>3, <2>1, <2>2, <2>3, <2>4, <2>6, <2>7
<1> QED BY <1>4, <1>5 DEF Lengths

\* In a trace where no record crosses the end of a chunk, every chunk that is
\* full ends where a record starts.
LEMMA FullChunk ==
  ASSUME trace \in Traces, Aligned, NEW k \in Nat, (k + 1) * Chunk <= FileEnd
  PROVE  \E i \in 1 .. Len(trace) + 1 : Starts[i] = (k + 1) * Chunk
<1>1. FileEnd \in Nat BY LengthsFacts
<1>2. k + 1 \in 1 .. FileEnd \div Chunk BY <1>1 DEF Chunk, BUFFER_SIZE
<1>3. \E i \in DOMAIN Starts : Starts[i] = (k + 1) * Chunk BY <1>2 DEF Aligned
<1> QED BY <1>3, StartsFacts

\* What is said of the trace stays so while the trace stays the same.
LEMMA Frozen ==
  ASSUME trace' = trace
  PROVE  Starts' = Starts /\ Lengths' = Lengths /\ FileEnd' = FileEnd /\ Aligned' = Aligned /\ Regular' = Regular
<1>1. Starts' = Starts BY DEF Starts, Size
<1>2. FileEnd' = FileEnd BY <1>1 DEF FileEnd
<1>3. Lengths' = Lengths /\ Aligned' = Aligned BY <1>1, <1>2 DEF Lengths, Aligned
<1> QED BY <1>1, <1>2, <1>3 DEF Regular, Size

\* The mount brings the file to a larger one of its lengths.
LEMMA GrowFacts ==
  ASSUME trace \in Traces, flen \in Lengths, flen < FileEnd,
         flen' = CHOOSE n \in Lengths : n > flen /\ \A m \in Lengths : m > flen => n <= m
  PROVE  flen' \in Lengths /\ flen' > flen
<1> DEFINE T == {n \in Lengths : n > flen}
<1>1. T \in SUBSET Nat /\ FileEnd \in T BY LengthsFacts
<1>2. PICK x \in T : \A y \in T : x <= y
  <2> HIDE DEF T
  <2> QED BY <1>1, NatMin
<1>3. \E n \in Lengths : n > flen /\ \A m \in Lengths : m > flen => n <= m BY <1>2
<1> DEFINE P(n) == n > flen /\ \A m \in Lengths : m > flen => n <= m
<1>4. flen' = CHOOSE n \in Lengths : P(n) OBVIOUS
<1>5. \E n \in Lengths : P(n) BY <1>3
<1>6. flen' \in Lengths /\ P(flen')
  <2> HIDE DEF P
  <2> QED BY <1>4, <1>5, Zenon
<1> QED BY <1>6

-----------------------------------------------------------------------------
(* What treplay reads *)

IssuedRec == [rec : 0 .. Len(trace), whole : BOOLEAN, ok : BOOLEAN]

\* What is known of every trace.
ReadInv ==
  /\ trace \in Traces
  /\ pc \in {"opts", "stat", "open"} => rpos = 0 /\ base = 0 /\ limit = 0 /\ size = 0 /\ issued = <<>>
  /\ noreplay => issued = <<>>
  /\ pc = "write" => issued # <<>>

\* An int is half of its range to either side of 0.
LEMMA IntFacts ==
  /\ IntLimit \in Nat /\ IntLimit > 0 /\ IntRange = IntLimit + IntLimit
  /\ \A n \in Int : ToInt(n) \in -IntLimit .. IntLimit - 1
  /\ \A n \in Nat : n < IntLimit => ToInt(n) = n
<1>1. IntLimit \in Nat /\ IntLimit > 0 /\ IntRange = IntLimit + IntLimit BY WidthAssumption DEF IntLimit
<1>2. \A m \in Int, r \in Nat : r > 0 => m % r \in 0 .. r - 1 OBVIOUS
<1>3. \A m, r \in Nat : r > 0 /\ m < r => m % r = m OBVIOUS
<1>4. ASSUME NEW n \in Int PROVE ToInt(n) \in -IntLimit .. IntLimit - 1
  <2>1. (n + IntLimit) % IntRange \in 0 .. IntRange - 1 BY <1>1, <1>2
  <2> QED BY <1>1, <2>1 DEF ToInt
<1>5. ASSUME NEW n \in Nat, n < IntLimit PROVE ToInt(n) = n
  <2>1. (n + IntLimit) % IntRange = n + IntLimit BY <1>1, <1>3, <1>5
  <2> QED BY <1>1, <2>1 DEF ToInt
<1> QED BY <1>1, <1>4, <1>5

\* The results of system calls are appended to issued.
LEMMA Issued ==
  ASSUME issued \in Seq(IssuedRec)
  PROVE  /\ Len(issued) \in Nat /\ DOMAIN issued = 1 .. Len(issued)
         /\ \A r \in IssuedRec : /\ Append(issued, r) \in Seq(IssuedRec) /\ Append(issued, r) # <<>>
                                 /\ [issued EXCEPT ![Len(issued)] = r] \in Seq(IssuedRec)
         /\ \A k \in 1 .. Len(issued) : issued[k] \in IssuedRec
<1> HIDE DEF IssuedRec
<1>1. /\ Len(issued) \in Nat /\ DOMAIN issued = 1 .. Len(issued)
      /\ \A k \in 1 .. Len(issued) : issued[k] \in IssuedRec
  OBVIOUS
<1>2. ASSUME NEW r \in IssuedRec PROVE Append(issued, r) \in Seq(IssuedRec) /\ Append(issued, r) # <<>>
  <2>1. Append(issued, r) \in Seq(IssuedRec) /\ Len(Append(issued, r)) = Len(issued) + 1 OBVIOUS
  <2>2. Len(<<>>) = 0 OBVIOUS
  <2> QED BY <1>1, <2>1, <2>2
<1>3. ASSUME NEW r \in IssuedRec PROVE [issued EXCEPT ![Len(issued)] = r] \in Seq(IssuedRec)
  <2>1. issued \in [1 .. Len(issued) -> IssuedRec] BY <1>1
  <2>2. [issued EXCEPT ![Len(issued)] = r] \in [1 .. Len(issued) -> IssuedRec] BY <2>1
  <2> QED BY <1>1, <2>2
<1> QED BY <1>1, <1>2, <1>3

\* A record's operation, and one made up, are of that kind.
LEMMA IssueTypes ==
  ASSUME issued \in Seq(IssuedRec), NEW e \in {0, -1}
  PROVE  /\ \A i \in 1 .. Len(trace) : Len(trace) \in Nat /\ Issue(i, e) =>
              issued' \in Seq(IssuedRec) /\ issued' # <<>> /\ err' \in {0, -1}
         /\ Len(trace) \in Nat /\ IssueMadeUp(e) => issued' \in Seq(IssuedRec) /\ err' \in {0, -1}
<1>1. ASSUME NEW i \in 1 .. Len(trace), Len(trace) \in Nat, Issue(i, e)
      PROVE  issued' \in Seq(IssuedRec) /\ issued' # <<>> /\ err' \in {0, -1}
  <2> DEFINE r == [rec |-> i, whole |-> Whole(i), ok |-> e = 0]
  <2>1. r \in IssuedRec
    <3>1. Whole(i) \in BOOLEAN /\ (e = 0) \in BOOLEAN /\ i \in 0 .. Len(trace) BY <1>1 DEF Whole
    <3> QED BY <3>1 DEF IssuedRec
  <2>2. issued' = Append(issued, r) /\ err' = e BY <1>1 DEF Issue
  <2> HIDE DEF r
  <2> QED BY <2>1, <2>2, Issued
<1>2. ASSUME Len(trace) \in Nat, IssueMadeUp(e) PROVE issued' \in Seq(IssuedRec) /\ err' \in {0, -1}
  <2> DEFINE r == [rec |-> 0, whole |-> FALSE, ok |-> e = 0]
  <2>1. r \in IssuedRec BY <1>2 DEF IssuedRec
  <2>2. /\ issued' = Append(issued, r) \/ issued' = [issued EXCEPT ![Len(issued)] = r]
        /\ err' = e
    BY <1>2 DEF IssueMadeUp
  <2> HIDE DEF r
  <2> QED BY <2>1, <2>2, Issued
<1> QED BY <1>1, <1>2

\* What is known of the record the reader stands on.
LEMMA HereFacts ==
  ASSUME trace \in Traces, NEW i \in Here
  PROVE  /\ i \in 1 .. Len(trace) /\ Len(trace) \in Nat /\ Size(i) \in Nat /\ trace[i].rec_size \in Int
         /\ Starts[i] = base + off /\ off >= 0 /\ off + RecHeader <= limit /\ trace[i].result \in {0, -1}
BY RecordFacts DEF Here

\* The invariant of the reader holds at the start.
LEMMA ReadInit == Init => TypeOK /\ ReadInv
<1> SUFFICES ASSUME Init PROVE TypeOK /\ ReadInv OBVIOUS
<1>1. trace \in Traces /\ Lengths \subseteq Nat /\ FileEnd \in Lengths /\ Chunk \in Nat
  BY LengthsFacts DEF Init, Chunk, BUFFER_SIZE
<1>2. flen \in Lengths /\ flen \in Nat /\ 0 \in -IntLimit .. IntLimit - 1 BY <1>1, IntFacts DEF Init
<1>3. issued \in Seq(IssuedRec) BY DEF Init
<1>4. noreplay \in BOOLEAN /\ strict \in BOOLEAN BY OptionsAssumption DEF Init
<1>5. TypeOK BY <1>1, <1>2, <1>3, <1>4 DEF Init, TypeOK, IssuedRec
<1> QED BY <1>1, <1>2, <1>5 DEF Init, ReadInv

\* Every step keeps the types and the invariant of the reader.
LEMMA ReadStep == TypeOK /\ ReadInv /\ [Next]_vars => TypeOK' /\ ReadInv'
<1> SUFFICES ASSUME TypeOK, ReadInv, [Next]_vars PROVE TypeOK' /\ ReadInv' OBVIOUS
<1> USE DEF options, reader, file
<1>1. trace \in Traces /\ trace' = trace BY DEF ReadInv, Next, Step, vars, ParseOptions, Stat, OpenTrace,
        ReadChunk, EndOfTrace, EndChunk, PrintRecord, ReplayOp, ReplayOpen, ReplayWrite, Misparse, Crash, Exit, Grow
<1>2. Lengths' = Lengths /\ IssuedRec' = IssuedRec BY <1>1, Frozen DEF IssuedRec
<1>3. Lengths \subseteq Nat BY <1>1, LengthsFacts
<1>4. Chunk \in Nat BY DEF Chunk, BUFFER_SIZE
<1>5. Len(trace) \in Nat BY <1>1, RecordFacts
<1>6. issued \in Seq(IssuedRec) BY DEF TypeOK, IssuedRec
<1>7. flen \in Nat /\ rpos \in Nat /\ base \in Nat /\ limit \in Nat /\ off \in Int /\ size \in Int
  BY <1>3, <1>4, IntFacts DEF TypeOK
<1> DEFINE Ints == -IntLimit .. IntLimit - 1
<1>0. \A n \in Int : ToInt(n) \in Ints BY IntFacts
<1> DEFINE Types == /\ pc \in {"opts", "stat", "open", "read", "parse", "write", "out", "done"}
                    /\ opt \in Options /\ noreplay \in BOOLEAN /\ strict \in BOOLEAN
                    /\ flen \in Lengths /\ fsize \in Ints /\ size \in Ints
                    /\ rpos \in 0 .. flen /\ limit \in 0 .. Chunk /\ base \in 0 .. rpos - limit
                    /\ off \in Int
                    /\ err \in {0, -1} /\ issued \in Seq(IssuedRec)
<1>8. Types /\ (Types' => TypeOK') BY DEF TypeOK, IssuedRec
<1> HIDE DEF Ints
<1> SUFFICES Types' /\ ReadInv' BY <1>8
<1> HIDE DEF IssuedRec
<1>9. CASE ParseOptions BY <1>1, <1>2, <1>7, <1>8, <1>9 DEF ParseOptions, ReadInv
<1>10. CASE Stat
  <2>1. fsize' \in Ints BY <1>0, <1>7, <1>8, <1>10 DEF Stat
  <2> QED BY <1>1, <1>2, <1>7, <1>8, <1>10, <2>1 DEF Stat, ReadInv
<1>11. CASE OpenTrace BY <1>1, <1>2, <1>7, <1>8, <1>11 DEF OpenTrace, ReadInv
<1>12. CASE ReadChunk
  BY <1>1, <1>2, <1>4, <1>7, <1>8, <1>12 DEF ReadChunk, ReadInv, MIN
<1>13. CASE EndOfTrace BY <1>1, <1>2, <1>7, <1>8, <1>13 DEF EndOfTrace, ReadInv
<1>14. CASE EndChunk
  <2>1. size' \in Ints BY <1>0, <1>7, <1>14 DEF EndChunk
  <2> QED BY <1>1, <1>2, <1>7, <1>8, <1>14, <2>1 DEF EndChunk, ReadInv
<1>15. CASE PrintRecord
  <2>1. off' \in Int /\ pc' = "parse" BY <1>1, <1>7, <1>15, HereFacts DEF PrintRecord, Advance
  <2> QED BY <1>1, <1>2, <1>7, <1>8, <1>15, <2>1 DEF PrintRecord, ReadInv
<1>16. CASE ReplayOp
  <2>1. PICK i \in Here, e \in {0, -1} : Issue(i, e) /\ IF Stops(i, e) THEN pc' = "out" /\ UNCHANGED off ELSE Advance(i)
    BY <1>16 DEF ReplayOp
  <2>2. off' \in Int /\ pc' \in {"parse", "out"} BY <1>1, <1>7, <2>1, HereFacts DEF Advance
  <2>3. issued' \in Seq(IssuedRec) /\ err' \in {0, -1} BY <1>1, <1>6, <2>1, HereFacts, IssueTypes
  <2> QED BY <1>1, <1>2, <1>7, <1>8, <1>16, <2>2, <2>3 DEF ReplayOp, ReadInv
<1>17. CASE ReplayOpen
  <2>1. PICK i \in Here, e \in {0, -1} : Issue(i, e) /\ pc' = IF Stops(i, e) THEN "out" ELSE "write"
    BY <1>17 DEF ReplayOpen
  <2>2. pc' \in {"write", "out"} BY <2>1
  <2>3. issued' \in Seq(IssuedRec) /\ issued' # <<>> /\ err' \in {0, -1} BY <1>1, <1>6, <2>1, HereFacts, IssueTypes
  <2> QED BY <1>1, <1>2, <1>7, <1>8, <1>17, <2>2, <2>3 DEF ReplayOpen, ReadInv
<1>18. CASE ReplayWrite
  <2>1. PICK i \in Here, e \in {0, -1} :
          /\ err' = e
          /\ issued' = [issued EXCEPT ![Len(issued)].ok = (e = 0)]
          /\ IF Stops(i, e) THEN pc' = "out" /\ UNCHANGED off ELSE Advance(i)
    BY <1>18 DEF ReplayWrite
  <2>2. off' \in Int /\ pc' \in {"parse", "out"} BY <1>1, <1>7, <2>1, HereFacts DEF Advance
  <2>3. issued' \in Seq(IssuedRec)
    <3>1. \A r \in IssuedRec : [r EXCEPT !.ok = (e = 0)] \in IssuedRec BY DEF IssuedRec
    <3>2. issued # <<>> /\ Len(issued) \in 1 .. Len(issued) BY <1>6, <1>18, Issued DEF ReadInv, ReplayWrite
    <3>3. issued' = [issued EXCEPT ![Len(issued)] = [issued[Len(issued)] EXCEPT !.ok = (e = 0)]] BY <2>1
    <3> QED BY <1>6, <3>1, <3>2, <3>3, Issued
  <2> QED BY <1>1, <1>2, <1>7, <1>8, <1>18, <2>1, <2>2, <2>3 DEF ReplayWrite, ReadInv
<1>19. CASE Misparse
  <2>1. off' \in Int /\ pc' \in {"parse", "out"}
    <3>1. \A j \in Jumps : off + j \in Int BY <1>7, WidthAssumption DEF ShortInt
    <3> QED BY <1>7, <1>8, <1>19, <3>1 DEF Misparse
  <2>2. issued' \in Seq(IssuedRec) /\ err' \in {0, -1} /\ (noreplay => issued' = issued)
    <3>1. CASE UNCHANGED <<err, issued>> BY <1>8, <3>1
    <3>2. CASE ~noreplay /\ \E e \in {0, -1} : IssueMadeUp(e) BY <1>5, <1>6, <3>2, IssueTypes
    <3> QED BY <1>19, <3>1, <3>2 DEF Misparse
  <2> QED BY <1>1, <1>2, <1>7, <1>8, <1>19, <2>1, <2>2 DEF Misparse, ReadInv
<1>20. CASE Exit \/ Crash BY <1>1, <1>2, <1>7, <1>8, <1>20 DEF Exit, Crash, ReadInv
<1>21. CASE Grow
  <2>1. flen' \in Lengths /\ flen' > flen BY <1>1, <1>8, <1>21, GrowFacts DEF Grow
  <2>2. flen' \in Nat BY <1>3, <2>1
  <2> QED BY <1>1, <1>2, <1>7, <1>8, <1>21, <2>1, <2>2 DEF Grow, ReadInv
<1>22. CASE UNCHANGED vars BY <1>1, <1>2, <1>8, <1>22 DEF vars, ReadInv
<1> QED BY <1>9, <1>10, <1>11, <1>12, <1>13, <1>14, <1>15, <1>16, <1>17, <1>18, <1>19, <1>20, <1>21, <1>22
        DEF Next, Step

\* Every state has its type: fsize and size are ints whatever the length of the
\* file, and the chunk in the buffer is one that was read, wherever the sizes
\* that bytes of the trace state have brought buf.
THEOREM TypeCorrect == Spec => []TypeOK
<1> QED BY ReadInit, ReadStep, PTL DEF Spec

-----------------------------------------------------------------------------
(* Where it stops with -s *)

\* The replay of r succeeded, and so did its operation when it was traced.
Good(r) == r.ok /\ (r.rec # 0 => trace[r.rec].result = 0)

\* While treplay goes on, every operation issued so far was good; when it ends,
\* all but the last.
StrictInv ==
  strict => \A k \in 1 .. Len(issued) :
              k < Len(issued) \/ pc \in {"read", "parse", "write"} => Good(issued[k])

\* A record appended to issued, or put in the place of the last.
LEMMA IssuedLast ==
  ASSUME issued \in Seq(IssuedRec), NEW r \in IssuedRec
  PROVE  /\ Len(Append(issued, r)) = Len(issued) + 1
         /\ Append(issued, r)[Len(issued) + 1] = r
         /\ \A k \in 1 .. Len(issued) : Append(issued, r)[k] = issued[k]
         /\ Len([issued EXCEPT ![Len(issued)] = r]) = Len(issued)
         /\ issued # <<>> => [issued EXCEPT ![Len(issued)] = r][Len(issued)] = r
         /\ \A k \in 1 .. Len(issued) - 1 : [issued EXCEPT ![Len(issued)] = r][k] = issued[k]
<1> HIDE DEF IssuedRec
<1>1. Len(issued) \in Nat /\ DOMAIN issued = 1 .. Len(issued) BY Issued
<1>2. /\ Len(Append(issued, r)) = Len(issued) + 1
      /\ Append(issued, r)[Len(issued) + 1] = r
      /\ \A k \in 1 .. Len(issued) : Append(issued, r)[k] = issued[k]
  OBVIOUS
<1> DEFINE x == [issued EXCEPT ![Len(issued)] = r]
<1>3. x \in Seq(IssuedRec) BY Issued
<1>4. DOMAIN x = 1 .. Len(issued) BY <1>1
<1>5. issued # <<>> => x[Len(issued)] = r
  <2>1. issued # <<>> => Len(issued) \in 1 .. Len(issued) BY <1>1
  <2> QED BY <1>1, <2>1
<1>6. \A k \in 1 .. Len(issued) - 1 : x[k] = issued[k]
  <2>1. \A n \in Nat : \A k \in 1 .. n - 1 : k \in 1 .. n /\ k # n OBVIOUS
  <2> QED BY <1>1, <2>1, Zenon
<1>7. Len(x) = Len(issued)
  <2> HIDE DEF x
  <2> QED BY <1>1, <1>3, <1>4
<1> QED BY <1>2, <1>5, <1>6, <1>7

\* When the operations issued become one more, or the last is replaced, and the
\* new one is good or treplay ends, the invariant stays.
LEMMA StrictKept ==
  ASSUME TypeOK, StrictInv, UNCHANGED <<trace, strict>>, pc = "parse" \/ pc = "write", NEW r \in IssuedRec,
         \/ issued' = Append(issued, r)
         \/ issued # <<>> /\ issued' = [issued EXCEPT ![Len(issued)] = r],
         strict => Good(r) \/ pc' = "out"
  PROVE  StrictInv'
<1>1. issued \in Seq(IssuedRec) BY DEF TypeOK, IssuedRec
<1>2. Len(issued) \in Nat BY <1>1, Issued
<1> SUFFICES ASSUME strict', NEW k \in 1 .. Len(issued'), k < Len(issued') \/ pc' \in {"read", "parse", "write"}
             PROVE  Good(issued[k])'
  BY DEF StrictInv
<1>3. strict /\ \A j \in 1 .. Len(issued) : Good(issued[j]) BY DEF StrictInv
<1>4. CASE issued' = Append(issued, r)
  <2>1. Len(issued') = Len(issued) + 1 BY <1>1, <1>4, IssuedLast
  <2>2. CASE k = Len(issued) + 1
    <3>1. issued'[k] = r BY <1>1, <1>4, <2>2, IssuedLast
    <3>2. Good(r) BY <1>2, <1>3, <2>1, <2>2
    <3> QED BY <3>1, <3>2 DEF Good
  <2>3. CASE k # Len(issued) + 1
    <3>1. k \in 1 .. Len(issued) BY <1>2, <2>1, <2>3
    <3>2. issued'[k] = issued[k] BY <1>1, <1>4, <3>1, IssuedLast
    <3> QED BY <1>3, <3>1, <3>2 DEF Good
  <2> QED BY <2>2, <2>3
<1>5. CASE issued # <<>> /\ issued' = [issued EXCEPT ![Len(issued)] = r]
  <2>1. Len(issued') = Len(issued) BY <1>1, <1>5, IssuedLast
  <2>2. CASE k = Len(issued)
    <3>1. issued'[k] = r BY <1>1, <1>5, <2>2, IssuedLast
    <3>2. Good(r) BY <1>2, <1>3, <2>1, <2>2
    <3> QED BY <3>1, <3>2 DEF Good
  <2>3. CASE k # Len(issued)
    <3>1. k \in 1 .. Len(issued) - 1 /\ k \in 1 .. Len(issued) BY <1>2, <2>1, <2>3
    <3>2. issued'[k] = issued[k] BY <1>1, <1>5, <3>1, IssuedLast
    <3> QED BY <1>3, <3>1, <3>2 DEF Good
  <2> QED BY <2>2, <2>3
<1> QED BY <1>4, <1>5

\* Every step keeps the invariant of strict mode.
LEMMA StrictStep == TypeOK /\ ReadInv /\ StrictInv /\ [Next]_vars => StrictInv'
<1> SUFFICES ASSUME TypeOK, ReadInv, StrictInv, [Next]_vars PROVE StrictInv' OBVIOUS
<1> USE DEF options, reader, file
<1>1. trace \in Traces BY DEF ReadInv
<1>2. issued \in Seq(IssuedRec) BY DEF TypeOK, IssuedRec
<1>3. ASSUME NEW i \in Here, NEW e \in {0, -1}, ~Stops(i, e) PROVE strict => e = 0 /\ trace[i].result = 0
  BY <1>1, <1>3, HereFacts DEF Stops
<1>4. CASE issued = <<>> /\ issued' = issued BY <1>4 DEF StrictInv
<1>5. CASE /\ UNCHANGED <<trace, strict, issued>>
           /\ pc' \in {"read", "parse", "write"} => pc \in {"read", "parse", "write"}
  BY <1>5 DEF StrictInv, Good
<1>6. CASE ReplayOp
  <2>1. PICK i \in Here, e \in {0, -1} : Issue(i, e) /\ IF Stops(i, e) THEN pc' = "out" /\ UNCHANGED off ELSE Advance(i)
    BY <1>6 DEF ReplayOp
  <2> DEFINE r == [rec |-> i, whole |-> Whole(i), ok |-> e = 0]
  <2>2. r \in IssuedRec /\ issued' = Append(issued, r)
    BY <1>1, <2>1, HereFacts DEF Issue, IssuedRec, Whole
  <2>3. strict => Good(r) \/ pc' = "out" BY <1>3, <2>1 DEF Good
  <2> HIDE DEF r
  <2> QED BY <1>6, <2>2, <2>3, StrictKept DEF ReplayOp
<1>7. CASE ReplayOpen
  <2>1. PICK i \in Here, e \in {0, -1} : Issue(i, e) /\ pc' = IF Stops(i, e) THEN "out" ELSE "write"
    BY <1>7 DEF ReplayOpen
  <2> DEFINE r == [rec |-> i, whole |-> Whole(i), ok |-> e = 0]
  <2>2. r \in IssuedRec /\ issued' = Append(issued, r)
    BY <1>1, <2>1, HereFacts DEF Issue, IssuedRec, Whole
  <2>3. strict => Good(r) \/ pc' = "out" BY <1>3, <2>1 DEF Good
  <2> HIDE DEF r
  <2> QED BY <1>7, <2>2, <2>3, StrictKept DEF ReplayOpen
<1>8. CASE ReplayWrite
  <2>1. PICK i \in Here, e \in {0, -1} :
          /\ issued' = [issued EXCEPT ![Len(issued)].ok = (e = 0)]
          /\ IF Stops(i, e) THEN pc' = "out" /\ UNCHANGED off ELSE Advance(i)
    BY <1>8 DEF ReplayWrite
  <2>2. issued # <<>> /\ Len(issued) \in 1 .. Len(issued) BY <1>2, <1>8, Issued DEF ReadInv, ReplayWrite
  <2> DEFINE q == issued[Len(issued)]
  <2> DEFINE r == [q EXCEPT !.ok = (e = 0)]
  <2>3. q \in IssuedRec BY <1>2, <2>2, Issued
  <2>4. issued' = [issued EXCEPT ![Len(issued)] = r] BY <2>1
  <2>5. strict => Good(q) BY <1>8, <2>2 DEF StrictInv, ReplayWrite
  <2> HIDE DEF q
  <2>6. r \in IssuedRec /\ r.rec = q.rec /\ r.ok = (e = 0) BY <2>3 DEF IssuedRec
  <2>7. strict => Good(r) \/ pc' = "out" BY <1>3, <2>1, <2>5, <2>6 DEF Good
  <2> HIDE DEF r
  <2> QED BY <1>8, <2>2, <2>4, <2>6, <2>7, StrictKept DEF ReplayWrite
<1>9. CASE Misparse
  <2>1. CASE UNCHANGED <<err, issued>> BY <1>5, <1>9, <2>1 DEF Misparse
  <2>2. CASE ~ UNCHANGED <<err, issued>>
    <3>1. PICK e \in {0, -1} : IssueMadeUp(e) /\ (pc' = "out" \/ (strict => e = 0))
      BY <1>9, <2>2 DEF Misparse
    <3> DEFINE r == [rec |-> 0, whole |-> FALSE, ok |-> e = 0]
    <3>2. r \in IssuedRec BY <1>1, RecordFacts DEF IssuedRec
    <3>3. \/ issued' = Append(issued, r)
          \/ issued # <<>> /\ issued' = [issued EXCEPT ![Len(issued)] = r]
      BY <3>1 DEF IssueMadeUp
    <3>4. strict => Good(r) \/ pc' = "out" BY <3>1 DEF Good
    <3> HIDE DEF r
    <3> QED BY <1>9, <3>2, <3>3, <3>4, StrictKept DEF Misparse
  <2> QED BY <2>1, <2>2
<1>10. CASE ParseOptions \/ Stat \/ OpenTrace BY <1>4, <1>10 DEF ParseOptions, Stat, OpenTrace, ReadInv
<1>11. CASE ReadChunk \/ EndOfTrace \/ EndChunk \/ PrintRecord \/ Crash \/ Exit \/ Grow \/ UNCHANGED vars
  BY <1>5, <1>11 DEF ReadChunk, EndOfTrace, EndChunk, PrintRecord, Advance, Crash, Exit, Grow, vars
<1> QED BY <1>6, <1>7, <1>8, <1>9, <1>10, <1>11 DEF Next, Step

\* With -s no operation follows one that failed, now or when it was traced, also
\* when bytes that are no record are taken for one.
THEOREM StrictReplay == Spec => []StrictStops
<1>1. Init => StrictInv BY DEF Init, StrictInv
<1>2. TypeOK /\ ReadInv /\ StrictInv => StrictStops
  <2> SUFFICES ASSUME TypeOK, StrictInv, strict, NEW k \in 1 .. Len(issued) - 1
               PROVE  issued[k].ok /\ (issued[k].rec # 0 => trace[issued[k].rec].result = 0)
    BY DEF StrictStops
  <2>1. Len(issued) \in Nat BY Issued DEF TypeOK, IssuedRec
  <2>2. k \in 1 .. Len(issued) /\ k < Len(issued) BY <2>1
  <2> QED BY <2>2 DEF StrictInv, Good
<1> QED BY <1>1, <1>2, ReadInit, ReadStep, StrictStep, PTL DEF Spec

-----------------------------------------------------------------------------
(* What it replays of a regular trace *)

\* The sizes are those of the file; the position of fd is at the end of the
\* chunk, and a chunk that is not full or overruns the buffer is the last.
ChunkInv ==
  Regular =>
    /\ fsize \in 0 .. flen /\ size \in 0 .. flen
    /\ pc = "read" => rpos = size /\ (Overrun => size >= fsize)
    /\ pc \in {"parse", "write"} => base = size /\ rpos = size + limit /\ (limit = Chunk \/ rpos >= fsize)

\* What is issued are the first records of the trace, each with all of its data
\* unless it ends behind the length that stat gave.
InOrder ==
  /\ Len(issued) <= Len(trace)
  /\ \A k \in 1 .. Len(issued) : issued[k].rec = k /\ (issued[k].whole \/ Starts[k + 1] > fsize)

\* The buffer begins at the end of a chunk; the file had this length once.
InChunk == base + limit \in Lengths /\ \E k \in Nat : base = k * Chunk

\* Between two chunks the next record is behind the chunks done, and at once
\* behind them if there is another chunk.
ReadAt ==
  pc = "read" =>
    /\ Starts[Len(issued) + 1] >= size
    /\ size < fsize => Starts[Len(issued) + 1] = size /\ \E k \in Nat : size = k * Chunk

\* buf is at the next record, or in the middle of the last one issued.
ParseAt ==
  pc = "parse" =>
    /\ InChunk /\ off \in Nat
    /\ base + off = Starts[Len(issued) + 1]
    /\ off # 0 => Len(issued) >= 1 /\ Starts[Len(issued)] < base + limit
WriteAt ==
  pc = "write" => InChunk /\ off \in Nat /\ Len(issued) >= 1 /\ off < limit /\ base + off = Starts[Len(issued)]

\* After the last chunk the next record is behind it.
EndAt ==
  pc \in {"out", "done"} /\ ~strict /\ size > 0 /\ size >= fsize => Starts[Len(issued) + 1] >= size

OrderInv == Regular /\ ~Overrun /\ ~noreplay => InOrder /\ ReadAt /\ ParseAt /\ WriteAt /\ EndAt

\* The lengths and offsets are numbers.
LEMMA Numbers ==
  ASSUME TypeOK, ReadInv
  PROVE  /\ flen \in Nat /\ flen <= FileEnd /\ FileEnd \in Nat /\ rpos \in Nat /\ rpos <= flen
         /\ base \in Nat /\ limit \in Nat /\ off \in Int /\ size \in Int /\ fsize \in Int
         /\ Len(issued) \in Nat /\ Len(trace) \in Nat /\ Chunk \in Nat /\ Chunk > 0 /\ limit <= Chunk
<1>1. /\ FileEnd \in Nat /\ \A m \in Lengths : m \in Nat /\ m <= FileEnd
      /\ Len(trace) \in Nat
  BY LengthsFacts, RecordFacts DEF ReadInv
<1>2. Chunk \in Nat /\ Chunk > 0 BY DEF Chunk, BUFFER_SIZE
<1>3. Len(issued) \in Nat BY Issued DEF TypeOK, IssuedRec
<1>4. \A n \in -IntLimit .. IntLimit - 1 : n \in Int BY IntFacts
<1> QED BY <1>1, <1>2, <1>3, <1>4 DEF TypeOK

\* Every step keeps the sizes.
LEMMA ChunkStep == TypeOK /\ ReadInv /\ ChunkInv /\ [Next]_vars => ChunkInv'
<1> SUFFICES ASSUME TypeOK, ReadInv, ChunkInv, [Next]_vars, Regular' PROVE ChunkInv'
  BY DEF ChunkInv
<1> USE DEF options, reader, file
<1>1. trace \in Traces /\ trace' = trace BY DEF ReadInv, Next, Step, vars, ParseOptions, Stat, OpenTrace,
        ReadChunk, EndOfTrace, EndChunk, PrintRecord, ReplayOp, ReplayOpen, ReplayWrite, Misparse, Crash, Exit, Grow
<1>2. Regular BY <1>1, Frozen
<1>3. /\ flen \in Nat /\ flen <= FileEnd /\ FileEnd \in Nat /\ rpos \in Nat /\ rpos <= flen
      /\ base \in Nat /\ limit \in Nat /\ Chunk \in Nat /\ Chunk > 0 /\ limit <= Chunk
  BY Numbers
<1>4. /\ fsize \in 0 .. flen /\ size \in 0 .. flen
      /\ pc = "read" => rpos = size /\ (Overrun => size >= fsize)
      /\ pc \in {"parse", "write"} => base = size /\ rpos = size + limit /\ (limit = Chunk \/ rpos >= fsize)
  BY <1>2 DEF ChunkInv
<1>5. \A n \in Nat : n <= flen => ToInt(n) = n
  <2>1. FileEnd + Chunk < IntLimit /\ IntLimit \in Nat BY <1>1, <1>2, RegularFacts, IntFacts
  <2> QED BY <1>3, <2>1, IntFacts
<1>6. CASE ParseOptions BY <1>3, <1>4, <1>6 DEF ParseOptions, ChunkInv
<1>7. CASE Stat
  <2>1. limit = 0 /\ size = 0 /\ rpos = 0 BY <1>7 DEF Stat, ReadInv
  <2>2. fsize' \in 0 .. flen BY <1>3, <1>4, <1>5, <1>7 DEF Stat
  <2> QED BY <1>3, <1>7, <2>1, <2>2 DEF Stat, ChunkInv
<1>8. CASE OpenTrace
  <2>1. limit = 0 /\ size = 0 /\ rpos = 0 BY <1>8 DEF OpenTrace, ReadInv
  <2> QED BY <1>3, <1>4, <1>8, <2>1 DEF OpenTrace, ChunkInv, Overrun, MIN
<1>9. CASE ReadChunk BY <1>3, <1>4, <1>9 DEF ReadChunk, ChunkInv, MIN
<1>10. CASE EndChunk
  <2>1. size + limit = rpos BY <1>4, <1>10 DEF EndChunk
  <2>2. size' = size + limit BY <1>3, <1>5, <1>10, <2>1 DEF EndChunk
  <2>3. Overrun' => size' >= fsize' BY <1>3, <1>4, <1>10, <2>2 DEF EndChunk, Overrun, MIN
  <2> QED BY <1>3, <1>4, <1>10, <2>1, <2>2, <2>3 DEF EndChunk, ChunkInv
<1>11. CASE Grow
  <2>1. flen' \in Nat /\ flen' > flen
    <3>1. flen' \in Lengths /\ flen' > flen BY <1>1, <1>11, GrowFacts DEF Grow, TypeOK
    <3> QED BY <1>1, <3>1, LengthsFacts
  <2> QED BY <1>3, <1>4, <1>11, <2>1 DEF Grow, ChunkInv, Overrun
<1>12. CASE /\ UNCHANGED <<flen, fsize, rpos, base, limit, size>>
            /\ pc' \in {"parse", "write"} => pc \in {"parse", "write"}
            /\ pc' = "read" => pc = "read"
  BY <1>4, <1>12 DEF ChunkInv, Overrun
<1>13. CASE EndOfTrace \/ PrintRecord \/ Crash \/ Exit \/ UNCHANGED vars
  BY <1>12, <1>13 DEF EndOfTrace, PrintRecord, Advance, Crash, Exit, vars
<1>14. CASE ReplayOp \/ ReplayOpen \/ ReplayWrite \/ Misparse
  BY <1>12, <1>14 DEF ReplayOp, ReplayOpen, ReplayWrite, Misparse, Advance
<1> QED BY <1>6, <1>7, <1>8, <1>9, <1>10, <1>11, <1>13, <1>14 DEF Next, Step

\* What is known of the chunk of a regular trace.
LEMMA ChunkFacts ==
  ASSUME TypeOK, ReadInv, ChunkInv, Regular
  PROVE  /\ fsize \in Nat /\ size \in Nat /\ Aligned
         /\ pc = "read" => rpos = size /\ (Overrun => size >= fsize)
         /\ pc \in {"parse", "write"} => base = size /\ rpos = size + limit /\ (limit = Chunk \/ rpos >= fsize)
<1>1. flen \in Nat BY Numbers
<1> QED BY <1>1, RegularFacts DEF ChunkInv, ReadInv

\* A chunk that is full ends where a record starts.
LEMMA ChunkEnd ==
  ASSUME TypeOK, ReadInv, Aligned, InChunk, limit = Chunk, base + limit <= FileEnd
  PROVE  \E i \in 1 .. Len(trace) + 1 : Starts[i] = base + limit
<1>1. PICK k \in Nat : base = k * Chunk BY DEF InChunk
<1>2. Chunk \in Nat BY Numbers
<1>3. base + limit = (k + 1) * Chunk BY <1>1, <1>2 DEF Chunk, BUFFER_SIZE
<1> QED BY <1>3, FullChunk DEF ReadInv

\* A record that starts in the buffer is in it as a whole, or goes on behind the
\* length that stat gave.
LEMMA WholeOrLast ==
  ASSUME TypeOK, ReadInv, ChunkInv, Regular, off \in Nat, InChunk, pc \in {"parse", "write"},
         NEW j \in 1 .. Len(trace), base + off = Starts[j], off < limit
  PROVE  Whole(j) \/ Starts[j + 1] > fsize
<1>1. /\ base \in Nat /\ limit \in Nat /\ size \in Nat /\ fsize \in Nat /\ flen \in Nat /\ rpos \in Nat
      /\ FileEnd \in Nat /\ rpos <= flen /\ flen <= FileEnd /\ Len(trace) \in Nat
  BY Numbers, ChunkFacts
<1>2. trace \in Traces /\ Aligned /\ base = size /\ rpos = size + limit /\ (limit = Chunk \/ rpos >= fsize)
  BY ChunkFacts DEF ReadInv
<1>3. Starts[j + 1] = Starts[j] + Size(j) /\ Size(j) \in Nat BY <1>2, StartsFacts, RecordFacts
<1>4. CASE rpos >= fsize BY <1>1, <1>2, <1>3, <1>4 DEF Whole
<1>5. CASE limit = Chunk
  <2>1. base + limit <= FileEnd BY <1>1, <1>2
  <2>2. PICK i \in 1 .. Len(trace) + 1 : Starts[i] = base + limit BY <1>2, <1>5, <2>1, ChunkEnd
  <2>3. j \in 1 .. Len(trace) + 1 /\ Starts[j] < Starts[i] BY <1>1, <2>2
  <2>4. Starts[j + 1] <= base + limit BY <1>2, <2>2, <2>3, StartsOrder
  <2> QED BY <1>1, <1>3, <2>4 DEF Whole
<1> QED BY <1>2, <1>4, <1>5

\* The record at buf is the next one.
LEMMA NextHere ==
  ASSUME TypeOK, ReadInv, Regular, InOrder, ParseAt, pc = "parse", off < limit
  PROVE  /\ Len(issued) + 1 \in 1 .. Len(trace) /\ Len(issued) + 1 \in Here
         /\ \A i \in Here : i = Len(issued) + 1
<1> DEFINE j == Len(issued) + 1
<1>1. base \in Nat /\ limit \in Nat /\ off \in Nat /\ Len(trace) \in Nat /\ Len(issued) \in Nat BY Numbers DEF ParseAt
<1>2. trace \in Traces BY DEF ReadInv
<1>3. j \in 1 .. Len(trace) + 1 BY <1>1 DEF InOrder
<1>4. base + off = Starts[j] /\ base + limit \in Lengths BY DEF ParseAt, InChunk
<1>5. Starts[j] < base + limit BY <1>1, <1>4
<1>6. j \in 1 .. Len(trace) /\ Starts[j] + RecHeader <= base + limit BY <1>2, <1>3, <1>4, <1>5, HeaderThere
<1> HIDE DEF j
<1>7. j \in Here
  <2>1. off + RecHeader <= limit /\ off >= 0 BY <1>1, <1>4, <1>6 DEF RecHeader
  <2>2. j \in DOMAIN trace /\ trace[j].head > 0 BY <1>2, <1>6, RecordFacts, RegularFacts DEF RecHeader
  <2> QED BY <1>4, <2>1, <2>2 DEF Here
<1>8. ASSUME NEW i \in Here PROVE i = j
  <2>1. i \in 1 .. Len(trace) /\ Starts[i] = Starts[j] BY <1>2, <1>4, HereFacts
  <2>2. i \in 1 .. Len(trace) + 1 BY <1>1, <2>1
  <2> QED BY <1>2, <1>3, <2>1, <2>2, StartsOrder
<1> QED BY <1>6, <1>7, <1>8 DEF j

\* The record whose file was opened is the last one issued.
LEMMA WriteHere ==
  ASSUME TypeOK, ReadInv, InOrder, WriteAt, pc = "write", NEW i \in Here
  PROVE  i = Len(issued)
<1>1. Len(trace) \in Nat /\ Len(issued) \in Nat BY Numbers
<1>2. trace \in Traces BY DEF ReadInv
<1>3. Len(issued) \in 1 .. Len(trace) + 1 BY <1>1 DEF InOrder, WriteAt
<1>4. i \in 1 .. Len(trace) /\ Starts[i] = Starts[Len(issued)] BY <1>2, HereFacts DEF WriteAt
<1>5. i \in 1 .. Len(trace) + 1 BY <1>1, <1>4
<1> QED BY <1>2, <1>3, <1>4, <1>5, StartsOrder

\* The next record is issued.
LEMMA NextIssued ==
  ASSUME TypeOK, ReadInv, ChunkInv, Regular, InOrder, ParseAt, pc = "parse", off < limit, UNCHANGED <<trace, fsize>>,
         NEW i \in Here, NEW e \in {0, -1}, Issue(i, e)
  PROVE  InOrder' /\ Len(issued') = Len(issued) + 1
<1> DEFINE n == Len(issued)
<1> DEFINE r == [rec |-> i, whole |-> Whole(i), ok |-> e = 0]
<1>1. n \in Nat /\ Len(trace) \in Nat BY Numbers
<1>2. issued \in Seq(IssuedRec) BY DEF TypeOK, IssuedRec
<1>3. i = n + 1 /\ i \in 1 .. Len(trace) BY NextHere
<1>4. r \in IssuedRec /\ issued' = Append(issued, r)
  BY <1>1, <1>3 DEF Issue, IssuedRec, Whole
<1>5. Len(issued') = n + 1 /\ issued'[n + 1] = r /\ \A k \in 1 .. n : issued'[k] = issued[k]
  BY <1>2, <1>4, IssuedLast
<1>6. r.whole \/ Starts[i + 1] > fsize
  <2>1. base + off = Starts[i] /\ InChunk /\ off \in Nat BY <1>3 DEF ParseAt
  <2> QED BY <1>3, <2>1, WholeOrLast
<1>7. r.rec = i OBVIOUS
<1>8. Starts' = Starts BY Frozen
<1> HIDE DEF r
<1>9. ASSUME NEW k \in 1 .. Len(issued') PROVE issued'[k].rec = k /\ (issued'[k].whole \/ Starts[k + 1] > fsize)
  <2>1. CASE k = n + 1 BY <1>3, <1>5, <1>6, <1>7, <2>1
  <2>2. CASE k # n + 1
    <3>1. k \in 1 .. n BY <1>1, <1>5, <2>2
    <3> QED BY <1>5, <3>1 DEF InOrder
  <2> QED BY <2>1, <2>2
<1>10. Len(issued') <= Len(trace) BY <1>1, <1>3, <1>5
<1> QED BY <1>5, <1>8, <1>9, <1>10 DEF InOrder

\* When buf has gone over the record, it is at the one behind it.
LEMMA Passed ==
  ASSUME TypeOK, ReadInv, Regular, InChunk, off \in Nat, UNCHANGED <<trace, base, limit>>, Starts' = Starts, Lengths' = Lengths,
         NEW j \in 1 .. Len(trace), base + off = Starts[j], off < limit,
         Len(issued') = j, Advance(j)
  PROVE  ParseAt'
<1>1. base \in Nat /\ limit \in Nat /\ Len(trace) \in Nat BY Numbers
<1>2. Size(j) \in Nat /\ Starts[j + 1] = Starts[j] + Size(j) /\ trace[j].rec_size = Size(j)
  BY StartsFacts, RecordFacts, RegularFacts DEF ReadInv
<1>3. base' + off' = Starts'[Len(issued') + 1] /\ off' \in Nat BY <1>1, <1>2 DEF Advance
<1>4. Len(issued') >= 1 /\ Starts'[Len(issued')] < base' + limit' BY <1>1
<1>5. InChunk' BY DEF InChunk
<1> QED BY <1>3, <1>4, <1>5 DEF ParseAt

\* Every step keeps the invariant of the order of replay.
LEMMA OrderStep == TypeOK /\ ReadInv /\ ChunkInv /\ OrderInv /\ [Next]_vars => OrderInv'
<1> SUFFICES ASSUME TypeOK, ReadInv, ChunkInv, OrderInv, [Next]_vars, Regular', ~Overrun', ~noreplay'
             PROVE  InOrder' /\ ReadAt' /\ ParseAt' /\ WriteAt' /\ EndAt'
  BY DEF OrderInv
<1> USE DEF options, reader, file
<1>1. trace \in Traces /\ trace' = trace BY DEF ReadInv, Next, Step, vars, ParseOptions, Stat, OpenTrace,
        ReadChunk, EndOfTrace, EndChunk, PrintRecord, ReplayOp, ReplayOpen, ReplayWrite, Misparse, Crash, Exit, Grow
<1>2. Starts' = Starts /\ Lengths' = Lengths /\ Regular BY <1>1, Frozen
<1>3. /\ flen \in Nat /\ flen <= FileEnd /\ FileEnd \in Nat /\ fsize \in Nat /\ rpos \in Nat /\ rpos <= flen
      /\ base \in Nat /\ limit \in Nat /\ off \in Int /\ size \in Nat
      /\ Len(issued) \in Nat /\ Len(trace) \in Nat /\ Chunk \in Nat /\ Chunk > 0 /\ limit <= Chunk
  BY <1>2, Numbers, ChunkFacts
<1>4. flen \in Lengths /\ Starts[1] = 0 BY <1>1, StartsFacts DEF TypeOK
<1>5. CASE ParseOptions \/ Stat
  <2>1. issued' = <<>> /\ size' = 0 /\ pc' \in {"stat", "open", "done"} BY <1>5 DEF ParseOptions, Stat, ReadInv
  <2> QED BY <1>1, <1>3, <2>1 DEF InOrder, ReadAt, ParseAt, WriteAt, EndAt
<1>6. CASE OpenTrace
  <2>1. issued' = <<>> /\ size' = 0 /\ pc' \in {"read", "out"} BY <1>6 DEF OpenTrace, ReadInv
  <2>2. Len(issued') = 0 /\ 0 = 0 * Chunk /\ Starts'[Len(issued') + 1] = 0 BY <1>2, <1>3, <1>4, <2>1
  <2> QED BY <1>1, <1>3, <2>1, <2>2 DEF InOrder, ReadAt, ParseAt, WriteAt, EndAt
<1>7. ASSUME ~(ParseOptions \/ Stat \/ OpenTrace)
      PROVE  fsize' = fsize /\ noreplay' = noreplay /\ strict' = strict /\ ~Overrun
  <2>1. fsize' = fsize /\ noreplay' = noreplay /\ strict' = strict
    BY <1>7 DEF Next, Step, vars, ReadChunk, EndOfTrace, EndChunk, PrintRecord, ReplayOp, ReplayOpen, ReplayWrite,
                Misparse, Crash, Exit, Grow
  <2>2. CASE limit' = limit BY <2>1, <2>2 DEF Overrun
  <2>3. CASE ReadChunk
    <3>1. pc = "read" /\ size < fsize BY <2>3 DEF ReadChunk
    <3>2. Overrun => size >= fsize BY <1>2, <1>3, <3>1, ChunkFacts
    <3>3. ~Overrun BY <1>3, <3>1, <3>2
    <3> QED BY <2>1, <3>3
  <2>4. limit' = limit \/ ReadChunk
    BY <1>7 DEF Next, Step, vars, EndOfTrace, EndChunk, PrintRecord, ReplayOp, ReplayOpen, ReplayWrite,
                Misparse, Crash, Exit, Grow
  <2> QED BY <2>1, <2>2, <2>3, <2>4
<1> SUFFICES ASSUME ~(ParseOptions \/ Stat \/ OpenTrace)
             PROVE  InOrder' /\ ReadAt' /\ ParseAt' /\ WriteAt' /\ EndAt'
  BY <1>5, <1>6
<1>8. InOrder /\ ReadAt /\ ParseAt /\ WriteAt /\ EndAt /\ UNCHANGED <<fsize, noreplay, strict>> /\ ~noreplay /\ ~Overrun
  BY <1>2, <1>7 DEF OrderInv
<1>9. issued' = issued => InOrder' BY <1>1, <1>2, <1>8 DEF InOrder
<1>10. CASE ReadChunk
  <2>1. CASE pc' = "out" BY <1>3, <1>8, <1>9, <1>10, <2>1 DEF ReadChunk, ReadAt, ParseAt, WriteAt, EndAt
  <2>2. CASE pc' # "out"
    <3>1. /\ pc = "read" /\ pc' = "parse" /\ size < fsize /\ issued' = issued
          /\ base' = rpos /\ limit' = MIN(flen - rpos, Chunk) /\ off' = 0
      BY <1>10, <2>2 DEF ReadChunk
    <3>2. rpos = size /\ Starts[Len(issued) + 1] = size BY <1>2, <1>8, <3>1, ChunkFacts DEF ReadAt
    <3>3. PICK k \in Nat : size = k * Chunk BY <1>8, <3>1 DEF ReadAt
    <3>4. base' + limit' \in Lengths
      <4>1. CASE limit' = flen - rpos BY <1>3, <1>4, <3>1, <4>1
      <4>2. CASE limit' = Chunk /\ ~(flen - rpos < Chunk)
        <5>1. base' + limit' = (k + 1) * Chunk /\ base' + limit' <= flen
          BY <1>3, <3>1, <3>2, <3>3, <4>2 DEF Chunk, BUFFER_SIZE
        <5>2. (k + 1) * Chunk <= FileEnd BY <1>3, <5>1
        <5>3. \E i \in 1 .. Len(trace) + 1 : Starts[i] = (k + 1) * Chunk BY <1>1, <1>2, <5>2, FullChunk, RegularFacts
        <5> QED BY <5>1, <5>3 DEF Lengths
      <4> QED BY <3>1, <4>1, <4>2 DEF MIN
    <3>5. InChunk' BY <1>2, <3>1, <3>2, <3>3, <3>4 DEF InChunk
    <3>6. base' + off' = Starts'[Len(issued') + 1] BY <1>2, <1>3, <3>1, <3>2
    <3> QED BY <1>9, <3>1, <3>5, <3>6 DEF ReadAt, ParseAt, WriteAt, EndAt
  <2> QED BY <2>1, <2>2
<1>11. CASE EndOfTrace BY <1>2, <1>3, <1>8, <1>9, <1>11 DEF EndOfTrace, ReadAt, ParseAt, WriteAt, EndAt
<1>12. CASE EndChunk
  <2>0. pc = "parse" /\ off >= limit /\ size' = ToInt(size + limit) /\ pc' = "read" /\ issued' = issued
    BY <1>12 DEF EndChunk
  <2>2. base = size /\ rpos = size + limit /\ (limit = Chunk \/ rpos >= fsize) /\ Aligned
    BY <1>2, <2>0, ChunkFacts
  <2>1. pc = "parse" /\ off >= limit /\ size' = size + limit /\ pc' = "read" /\ issued' = issued
    <3>1. FileEnd + Chunk < IntLimit /\ IntLimit \in Nat BY <1>1, <1>2, RegularFacts, IntFacts
    <3>2. size + limit \in Nat /\ size + limit < IntLimit BY <1>3, <2>2, <3>1
    <3> QED BY <2>0, <3>2, IntFacts
  <2>3. InChunk /\ base + off = Starts[Len(issued) + 1] BY <1>8, <2>1 DEF ParseAt
  <2>4. Starts[Len(issued) + 1] >= size' BY <1>3, <2>1, <2>2, <2>3
  <2>5. ASSUME size' < fsize
        PROVE  Starts[Len(issued) + 1] = size' /\ \E k \in Nat : size' = k * Chunk
    <3>1. limit = Chunk BY <1>3, <2>1, <2>2, <2>5
    <3>2. PICK k \in Nat : base = k * Chunk BY <2>3 DEF InChunk
    <3>3. size' = (k + 1) * Chunk /\ k + 1 \in Nat BY <2>1, <2>2, <3>1, <3>2 DEF Chunk, BUFFER_SIZE
    <3>4. PICK i \in 1 .. Len(trace) + 1 : Starts[i] = base + limit
      <4>1. base + limit <= FileEnd BY <1>3, <2>2
      <4> QED BY <2>2, <2>3, <3>1, <4>1, ChunkEnd
    <3>5. Len(issued) >= 1 /\ Starts[Len(issued)] < Starts[i]
      <4>1. off # 0 BY <1>3, <2>1, <3>1
      <4> QED BY <1>8, <2>1, <3>4, <4>1 DEF ParseAt
    <3>6. Len(issued) \in 1 .. Len(trace) + 1 BY <1>3, <1>8, <3>5 DEF InOrder
    <3>7. Starts[Len(issued) + 1] <= base + limit BY <1>1, <3>4, <3>5, <3>6, StartsOrder
    <3>8. Starts[Len(issued) + 1] = size' BY <1>3, <2>1, <2>2, <2>3, <2>4, <3>7
    <3> QED BY <3>3, <3>8
  <2> QED BY <1>2, <1>8, <1>9, <2>1, <2>4, <2>5 DEF ReadAt, ParseAt, WriteAt, EndAt
<1>13. CASE PrintRecord BY <1>8, <1>13 DEF PrintRecord
<1>14. CASE ReplayOp
  <2>1. PICK i \in Here, e \in {0, -1} : Issue(i, e) /\ IF Stops(i, e) THEN pc' = "out" /\ UNCHANGED off ELSE Advance(i)
    BY <1>14 DEF ReplayOp
  <2>2. pc = "parse" /\ off < limit /\ UNCHANGED <<base, limit, size>> BY <1>14 DEF ReplayOp
  <2>3. InOrder' /\ Len(issued') = Len(issued) + 1 BY <1>1, <1>2, <1>8, <2>1, <2>2, NextIssued
  <2>4. i = Len(issued) + 1 /\ i \in 1 .. Len(trace) BY <1>2, <1>8, <2>2, NextHere
  <2>5. CASE Stops(i, e)
    <3>1. pc' = "out" /\ strict' BY <1>8, <2>1, <2>5 DEF Stops
    <3> QED BY <2>3, <3>1 DEF ReadAt, ParseAt, WriteAt, EndAt
  <2>6. CASE ~Stops(i, e)
    <3>1. Advance(i) /\ pc' = "parse" BY <2>1, <2>6 DEF Advance
    <3>2. InChunk /\ off \in Nat /\ base + off = Starts[i] BY <1>8, <2>2, <2>4 DEF ParseAt
    <3>3. ParseAt' BY <1>1, <1>2, <2>2, <2>3, <2>4, <3>1, <3>2, Passed
    <3> QED BY <2>3, <3>1, <3>3 DEF ReadAt, WriteAt, EndAt
  <2> QED BY <2>5, <2>6
<1>15. CASE ReplayOpen
  <2>1. PICK i \in Here, e \in {0, -1} : Issue(i, e) /\ pc' = IF Stops(i, e) THEN "out" ELSE "write"
    BY <1>15 DEF ReplayOpen
  <2>2. pc = "parse" /\ off < limit /\ UNCHANGED <<base, limit, off, size>> BY <1>15 DEF ReplayOpen
  <2>3. InOrder' /\ Len(issued') = Len(issued) + 1 BY <1>1, <1>2, <1>8, <2>1, <2>2, NextIssued
  <2>4. CASE Stops(i, e)
    <3>1. pc' = "out" /\ strict' BY <1>8, <2>1, <2>4 DEF Stops
    <3> QED BY <2>3, <3>1 DEF ReadAt, ParseAt, WriteAt, EndAt
  <2>5. CASE ~Stops(i, e)
    <3>1. pc' = "write" BY <2>1, <2>5
    <3>2. InChunk /\ off \in Nat /\ base + off = Starts[Len(issued')] BY <1>8, <2>2, <2>3 DEF ParseAt
    <3>3. WriteAt' BY <1>2, <1>3, <2>2, <2>3, <3>2 DEF WriteAt, InChunk
    <3> QED BY <2>3, <3>1, <3>3 DEF ReadAt, ParseAt, EndAt
  <2> QED BY <2>4, <2>5
<1>16. CASE ReplayWrite
  <2>1. PICK i \in Here, e \in {0, -1} :
          /\ issued' = [issued EXCEPT ![Len(issued)].ok = (e = 0)]
          /\ IF Stops(i, e) THEN pc' = "out" /\ UNCHANGED off ELSE Advance(i)
    BY <1>16 DEF ReplayWrite
  <2>2. pc = "write" /\ UNCHANGED <<base, limit, size>> BY <1>16 DEF ReplayWrite
  <2>3. i = Len(issued) /\ i \in 1 .. Len(trace) BY <1>1, <1>8, <2>2, WriteHere, HereFacts
  <2>4. InOrder' /\ Len(issued') = Len(issued)
    <3> DEFINE q == issued[Len(issued)]
    <3> DEFINE r == [q EXCEPT !.ok = (e = 0)]
    <3>1. issued \in Seq(IssuedRec) /\ issued # <<>> /\ Len(issued) \in 1 .. Len(issued)
      BY <1>3, <2>2, <2>3 DEF TypeOK, IssuedRec, ReadInv
    <3>2. q \in IssuedRec BY <3>1, Issued
    <3>3. issued' = [issued EXCEPT ![Len(issued)] = r] BY <2>1
    <3> HIDE DEF q
    <3>4. r \in IssuedRec /\ r.rec = q.rec /\ r.whole = q.whole BY <3>2 DEF IssuedRec
    <3> HIDE DEF r
    <3>5. /\ Len(issued') = Len(issued) /\ issued'[Len(issued)] = r
          /\ \A k \in 1 .. Len(issued) - 1 : issued'[k] = issued[k]
      BY <3>1, <3>3, <3>4, IssuedLast
    <3>6. ASSUME NEW k \in 1 .. Len(issued)
          PROVE  issued'[k].rec = k /\ (issued'[k].whole \/ Starts[k + 1] > fsize)
      <4>1. issued'[k].rec = issued[k].rec /\ issued'[k].whole = issued[k].whole
        <5>1. CASE k = Len(issued) BY <3>4, <3>5, <5>1 DEF q
        <5>2. CASE k # Len(issued)
          <6>1. k \in 1 .. Len(issued) - 1 BY <1>3, <5>2
          <6> QED BY <3>5, <6>1
        <5> QED BY <5>1, <5>2
      <4> QED BY <1>8, <4>1 DEF InOrder
    <3> QED BY <1>1, <1>2, <1>8, <3>5, <3>6 DEF InOrder
  <2>5. CASE Stops(i, e)
    <3>1. pc' = "out" /\ strict' BY <1>8, <2>1, <2>5 DEF Stops
    <3> QED BY <2>4, <3>1 DEF ReadAt, ParseAt, WriteAt, EndAt
  <2>6. CASE ~Stops(i, e)
    <3>1. Advance(i) /\ pc' = "parse" BY <2>1, <2>6 DEF Advance
    <3>2. InChunk /\ off \in Nat /\ off < limit /\ base + off = Starts[i] BY <1>8, <2>2, <2>3 DEF WriteAt
    <3>3. ParseAt' BY <1>1, <1>2, <2>2, <2>3, <2>4, <3>1, <3>2, Passed
    <3> QED BY <2>4, <3>1, <3>3 DEF ReadAt, WriteAt, EndAt
  <2> QED BY <2>5, <2>6
<1>17. CASE Misparse \/ Crash
  <2>1. pc = "parse" /\ off < limit /\ Here = {} BY <1>8, <1>17 DEF Misparse, Crash, Doubtful
  <2> QED BY <1>2, <1>8, <2>1, NextHere
<1>18. CASE Exit BY <1>2, <1>8, <1>9, <1>18 DEF Exit, ReadAt, ParseAt, WriteAt, EndAt
<1>19. CASE Grow \/ UNCHANGED vars
  <2>1. UNCHANGED <<pc, base, limit, off, size, issued, strict, fsize>> BY <1>19 DEF Grow, vars
  <2> QED BY <1>2, <1>8, <1>9, <2>1 DEF ReadAt, ParseAt, WriteAt, EndAt, InChunk
<1> QED BY <1>10, <1>11, <1>12, <1>13, <1>14, <1>15, <1>16, <1>17, <1>18, <1>19 DEF Next, Step

\* That invariant holds in every state of every behaviour.
LEMMA OrderHolds == Spec => [](TypeOK /\ ReadInv /\ ChunkInv /\ OrderInv)
<1>1. Init => OrderInv
  <2> SUFFICES ASSUME Init PROVE InOrder /\ ReadAt /\ ParseAt /\ WriteAt /\ EndAt BY DEF OrderInv
  <2>1. issued = <<>> /\ pc = "opts" /\ trace \in Traces BY DEF Init
  <2>2. Len(trace) \in Nat BY <2>1, RecordFacts
  <2> QED BY <2>1, <2>2 DEF InOrder, ReadAt, ParseAt, WriteAt, EndAt
<1>2. Init => ChunkInv
  <2> SUFFICES ASSUME Init PROVE ChunkInv OBVIOUS
  <2>1. trace \in Traces /\ flen \in Lengths BY ReadInit DEF TypeOK, ReadInv
  <2>2. flen \in Nat BY <2>1, LengthsFacts
  <2> QED BY <2>2 DEF Init, ChunkInv
<1> QED BY <1>1, <1>2, ReadInit, ReadStep, ChunkStep, OrderStep, PTL DEF Spec

\* A regular log is replayed from its first record on, each record once and in
\* its place, also while the mount appends, if no read overruns the buffer.
THEOREM ReplayInOrder == Spec => []IssuedInOrder
<1>1. TypeOK /\ ReadInv /\ ChunkInv /\ OrderInv => IssuedInOrder
  <2> SUFFICES ASSUME TypeOK, ReadInv, OrderInv, Regular, ~Overrun, NEW k \in DOMAIN issued PROVE issued[k].rec = k
    BY DEF IssuedInOrder
  <2>1. DOMAIN issued = 1 .. Len(issued) BY Issued DEF TypeOK, IssuedRec
  <2>2. CASE noreplay BY <2>1, <2>2 DEF ReadInv
  <2>3. CASE ~noreplay BY <2>1, <2>3 DEF OrderInv, InOrder
  <2> QED BY <2>2, <2>3
<1> QED BY <1>1, OrderHolds, PTL

\* Without -n and -s, and without an error of its own, treplay replays every
\* record of a regular trace that stat's length covers with all of its data, if
\* no read overruns the buffer.
THEOREM AllReplayed == Spec => []AlignedReplayed
<1>1. TypeOK /\ ReadInv /\ ChunkInv /\ OrderInv => AlignedReplayed
  <2> SUFFICES ASSUME TypeOK, ReadInv, OrderInv, Regular, ~Overrun,
                      pc = "done", ~noreplay, ~strict, size > 0, size >= fsize,
                      NEW k \in DOMAIN trace, Starts[k + 1] <= fsize
               PROVE  \E j \in DOMAIN issued : issued[j].rec = k /\ issued[j].whole
    BY DEF AlignedReplayed, EveryRecordReplayed
  <2>1. trace \in Traces BY DEF ReadInv
  <2>2. DOMAIN issued = 1 .. Len(issued) BY Issued DEF TypeOK, IssuedRec
  <2>3. Len(issued) \in Nat /\ Len(trace) \in Nat /\ size \in Int /\ fsize \in Int BY Numbers
  <2>4. k \in 1 .. Len(trace) BY <2>1, RecordFacts
  <2>5. InOrder /\ Starts[Len(issued) + 1] >= size BY DEF OrderInv, EndAt
  <2>6. k <= Len(issued)
    <3> SUFFICES ASSUME ~(k <= Len(issued)) PROVE FALSE OBVIOUS
    <3>1. Len(issued) + 1 \in 1 .. Len(trace) + 1 /\ k + 1 \in 1 .. Len(trace) + 1 /\ Len(issued) + 1 < k + 1
      BY <2>3, <2>4, <2>5 DEF InOrder
    <3>2. Starts[Len(issued) + 1] \in Nat /\ Starts[k + 1] \in Nat BY <2>1, <3>1, StartsFacts
    <3>3. Starts[Len(issued) + 1] <= Starts[k + 1] /\ Starts[Len(issued) + 1] # Starts[k + 1]
      BY <2>1, <2>3, <2>4, <3>1, StartsOrder
    <3> QED BY <2>3, <2>5, <3>2, <3>3
  <2>7. k \in 1 .. Len(issued) BY <2>3, <2>4, <2>6
  <2>8. issued[k].rec = k /\ (issued[k].whole \/ Starts[k + 1] > fsize) BY <2>5, <2>7 DEF InOrder
  <2>9. Starts[k + 1] \in Nat
    <3>1. k + 1 \in 1 .. Len(trace) + 1 BY <2>3, <2>4
    <3> QED BY <2>1, <3>1, StartsFacts
  <2> QED BY <2>2, <2>3, <2>7, <2>8, <2>9
<1> QED BY <1>1, OrderHolds, PTL
=============================================================================
