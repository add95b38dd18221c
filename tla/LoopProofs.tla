----------------------------- MODULE LoopProofs -----------------------------
(***************************************************************************)
(* The loops over data.  The two merging loops of ResultMerge compute the  *)
(* most severe verdict, for every set of column values.  The loop of       *)
(* Forms that cuts bytes at a splitter loses nothing, for every sequence   *)
(* of bytes, and a file of any length, with any contents that do not have  *)
(* the boundary in them, arrives as it was sent.                           *)
(***************************************************************************)
EXTENDS ResultMerge, Forms, DataTheorems

(***************************************************************************)
(* The merging loops of update_subtask_result and                          *)
(* update_submission_result.                                               *)
(***************************************************************************)
\* The inductive invariant of the two loops: each accumulator has absorbed
\* exactly the verdicts merged into it.
MergeInv ==
    /\ TypeOK
    /\ Absorbs(subtask, tests)
    /\ Absorbs(submission, merged)

\* It holds in every state.
LEMMA MergeInvariant == MergeSpec => []MergeInv
<1>1. MergeInit => MergeInv
  BY DEF MergeInit, MergeInv, TypeOK, Absorbs, TestingResult
<1>2. MergeInv /\ [MergeNext]_mergeVars => MergeInv'
  <2> SUFFICES ASSUME MergeInv, [MergeNext]_mergeVars
               PROVE  MergeInv'
    OBVIOUS
  <2>1. ASSUME MergeTest PROVE MergeInv'
    <3>1. PICK column \in Columns :
             /\ subtask' = merge_two_testing_results(subtask, i32_to_testing_result(column))
             /\ tests' = tests \cup {i32_to_testing_result(column)}
             /\ UNCHANGED <<submission, merged>>
      BY <2>1 DEF MergeTest
    <3>2. i32_to_testing_result(column) \in TestingResult
      BY ReadsAVerdict
    <3>3. Absorbs(subtask', tests')
      BY <3>1, <3>2, AbsorbOne DEF MergeInv, TypeOK
    <3>4. subtask' \in TestingResult
      BY <3>1, <3>2, MergeIsMoreSevere DEF MergeInv, TypeOK
    <3> QED BY <3>1, <3>2, <3>3, <3>4 DEF MergeInv, TypeOK
  <2>2. ASSUME MergeSubtask PROVE MergeInv'
    <3>1. /\ submission' = merge_two_testing_results(submission, subtask)
          /\ merged' = merged \cup tests
          /\ subtask' = "Accepted"
          /\ tests' = {}
      BY <2>2, RoundTrip DEF MergeSubtask, MergeInv, TypeOK
    <3>2. Absorbs(submission', merged')
      BY <3>1, AbsorbAbsorbed DEF MergeInv, TypeOK
    <3>3. submission' \in TestingResult
      BY <3>1, MergeIsMoreSevere DEF MergeInv, TypeOK
    <3>4. Absorbs(subtask', tests') /\ subtask' \in TestingResult
      BY <3>1 DEF Absorbs, TestingResult
    <3> QED BY <3>1, <3>2, <3>3, <3>4 DEF MergeInv, TypeOK
  <2>3. CASE UNCHANGED mergeVars
    BY <2>3 DEF mergeVars, MergeInv, TypeOK, Absorbs
  <2> QED BY <2>1, <2>2, <2>3 DEF MergeNext
<1> QED BY <1>1, <1>2, PTL DEF MergeSpec

\* For every set of column values, both loops compute the most severe verdict
\* of what they merged, whatever the order, repetitions and grouping of rows
\* (update_subtask_result, update_submission_result).
THEOREM LoopsComputeTheWorst == MergeSpec => []VerdictIsWorst
<1>1. MergeInv => VerdictIsWorst
  BY AbsorbsIsWorst DEF MergeInv, TypeOK, VerdictIsWorst
<1> QED BY <1>1, MergeInvariant, PTL

-----------------------------------------------------------------------------
(***************************************************************************)
(* join_bytes and Vec::retain, turn by turn: Join and Retain are folds,    *)
(* and each has a table of its values after every turn.                    *)
(***************************************************************************)
\* The bytes after each turn of the loop of join_bytes.
JoinTable(S, s, by, g) ==
    /\ g \in [0..Len(s) -> Seq(S)]
    /\ g[0] = <<>>
    /\ \A k \in 1..Len(s) :
          g[k] = g[k - 1] \o s[k] \o (IF k = Len(s) THEN <<>> ELSE by)
    /\ Join(s, by) = g[Len(s)]

\* join_bytes: the fold of Join, turn by turn.
LEMMA JoinTurns ==
    ASSUME NEW S, NEW s \in Seq(Seq(S)), NEW by \in Seq(S)
    PROVE  \E g : JoinTable(S, s, by, g)
<1> DEFINE n == Len(s)
           ids == [k \in 1..n |-> k]
           Turn(b, k) == b \o s[k] \o (IF k = n THEN <<>> ELSE by)
           Is(h) == h = [T \in SUBSET DOMAIN ids |->
                           IF T = {} THEN <<>> ELSE Turn(h[T \ {Max(T)}], ids[Max(T)])]
           step == [p \in Seq(S) \X (1..n) |-> Turn(p[1], p[2])]
<1>0. n \in Nat /\ DOMAIN ids = 1..n /\ \A k \in 1..n : ids[k] = k
  OBVIOUS
<1>1. Join(s, by) = (CHOOSE h : Is(h))[DOMAIN ids]
  BY DEF Join, FoldLeft, MapThenFoldSet
<1>a. \A b \in Seq(S), k \in 1..n : Turn(b, k) \in Seq(S)
  OBVIOUS
<1>2. \E h : Is(h)
  <2>1. step \in [Seq(S) \X (1..n) -> Seq(S)]
    BY <1>a
  <2>2. <<>> \in Seq(S)
    OBVIOUS
  <2>3. PICK h \in [SUBSET (1..n) -> Seq(S)] :
           \A T \in SUBSET (1..n) : h[T] = FoldTurn(<<>>, step, h, T)
    <3>1. Folding(Seq(S), <<>>, n, step)
      BY <1>0, <2>1, <2>2 DEF Folding
    <3>2. PICK h \in [SUBSET (1..n) -> Seq(S)] : IsFold(<<>>, n, step, h)
      <4> HIDE DEF step, n
      <4> QED BY <3>1, FoldExists
    <3> HIDE DEF step, n
    <3> QED BY <3>2 DEF IsFold
  <2>4. ASSUME NEW T \in SUBSET (1..n), T # {}
        PROVE  FoldTurn(<<>>, step, h, T) = Turn(h[T \ {Max(T)}], ids[Max(T)])
    <3>1. Max(T) \in 1..n
      BY <1>0, <2>4, HasMax
    <3>2. h[T \ {Max(T)}] \in Seq(S)
      OBVIOUS
    <3>3. ids[Max(T)] = Max(T)
      BY <1>0, <3>1
    <3>4. FoldTurn(<<>>, step, h, T) = step[<<h[T \ {Max(T)}], Max(T)>>]
      BY <2>4 DEF FoldTurn
    <3> HIDE DEF Turn
    <3> QED BY <3>1, <3>2, <3>3, <3>4
  <2>5. FoldTurn(<<>>, step, h, {}) = <<>>
    BY DEF FoldTurn
  <2> HIDE DEF step, ids, Turn, n
  <2>6. \A T \in SUBSET (1..n) :
           FoldTurn(<<>>, step, h, T) =
              IF T = {} THEN <<>> ELSE Turn(h[T \ {Max(T)}], ids[Max(T)])
    BY <2>4, <2>5
  <2>7. h = [T \in SUBSET (1..n) |->
               IF T = {} THEN <<>> ELSE Turn(h[T \ {Max(T)}], ids[Max(T)])]
    BY <2>3, <2>6
  <2> QED BY <1>0, <2>7
<1> HIDE DEF Turn, step, n, ids
<1>3. PICK h : Is(h) /\ Join(s, by) = h[1..n]
  <2> HIDE DEF Is
  <2> QED BY <1>0, <1>1, <1>2
<1>4. h[1..0] = <<>>
  BY <1>0, <1>3
<1>5. ASSUME NEW k \in 1..n
      PROVE  h[1..k] = Turn(h[1..(k - 1)], k)
  <2>0. k \in Nat \ {0}
    BY <1>0
  <2>1. Max(1..k) = k /\ (1..k) \ {k} = 1..(k - 1)
    BY <2>0, MaxOfFirst
  <2>2. 1..k \in SUBSET (1..n) /\ 1..k # {}
    <3>1. k \in 1..k /\ k <= n
      BY <1>0, <2>0
    <3>2. \A j \in 1..k : j \in 1..n
      BY <1>0, <2>0, <3>1
    <3> QED BY <3>1, <3>2
  <2>3. h[1..k] = Turn(h[(1..k) \ {Max(1..k)}], ids[Max(1..k)])
    BY <1>0, <1>3, <2>2
  <2> QED BY <1>0, <2>1, <2>3
<1> DEFINE g == [k \in 0..n |-> h[1..k]]
           N == {k \in Nat : k <= n => h[1..k] \in Seq(S)}
<1>6. \A k \in 0..n : h[1..k] \in Seq(S)
  <2>1. 0 \in N
    <3>1. <<>> \in Seq(S)
      OBVIOUS
    <3> QED BY <1>4, <3>1
  <2>2. ASSUME NEW k \in N PROVE k + 1 \in N
    <3>1. SUFFICES ASSUME k + 1 <= n PROVE h[1..(k + 1)] \in Seq(S)
      OBVIOUS
    <3>2. k + 1 \in 1..n /\ (k + 1) - 1 = k /\ h[1..k] \in Seq(S)
      BY <1>0, <3>1
    <3>3. h[1..(k + 1)] = Turn(h[1..k], k + 1)
      BY <1>5, <3>2
    <3> QED BY <1>a, <3>2, <3>3
  <2>3. N \in SUBSET Nat
    OBVIOUS
  <2>4. ASSUME NEW k \in Nat PROVE k \in N
    <3> HIDE DEF N
    <3> QED BY <2>1, <2>2, <2>3, UpTo
  <2> QED BY <1>0, <2>4
<1>7. g \in [0..n -> Seq(S)]
  BY <1>6
<1>8. g[0] = <<>> /\ Join(s, by) = g[n]
  BY <1>0, <1>3, <1>4
<1>9. \A k \in 1..n : g[k] = Turn(g[k - 1], k)
  <2> SUFFICES ASSUME NEW k \in 1..n PROVE g[k] = Turn(g[k - 1], k)
    OBVIOUS
  <2>1. k \in 0..n /\ k - 1 \in 0..n
    BY <1>0
  <2> QED BY <1>5, <2>1
<1> HIDE DEF g
<1> QED BY <1>7, <1>8, <1>9 DEF Turn, n, JoinTable

\* Join of one more part.
LEMMA JoinAppend ==
    ASSUME NEW S, NEW s \in Seq(Seq(S)), NEW x \in Seq(S), NEW by \in Seq(S)
    PROVE  Join(Append(s, x), by) =
              IF s = <<>> THEN x ELSE Join(s, by) \o by \o x
<1> DEFINE n == Len(s)
           t == Append(s, x)
<1>0. /\ n \in Nat
      /\ t \in Seq(Seq(S)) /\ Len(t) = n + 1
      /\ t[n + 1] = x
      /\ \A k \in 1..n : t[k] = s[k] /\ s[k] \in Seq(S)
      /\ n = 0 <=> s = <<>>
  OBVIOUS
<1> HIDE DEF n, t
<1>1. PICK g \in [0..n -> Seq(S)] :
         /\ g[0] = <<>>
         /\ \A k \in 1..n : g[k] = g[k - 1] \o s[k] \o (IF k = n THEN <<>> ELSE by)
         /\ Join(s, by) = g[n]
  <2>1. \E g : JoinTable(S, s, by, g)
    BY JoinTurns
  <2> QED BY <2>1 DEF n, JoinTable
<1>2. PICK h \in [0..(n + 1) -> Seq(S)] :
         /\ h[0] = <<>>
         /\ \A k \in 1..(n + 1) :
               h[k] = h[k - 1] \o t[k] \o (IF k = n + 1 THEN <<>> ELSE by)
         /\ Join(t, by) = h[n + 1]
  <2>1. \E h : JoinTable(S, t, by, h)
    BY <1>0, JoinTurns
  <2> QED BY <1>0, <2>1 DEF JoinTable
<1> DEFINE N == {k \in Nat : k < n => h[k] = g[k]}
<1>3. \A k \in Nat : k < n => h[k] = g[k]
  <2>1. 0 \in N
    BY <1>1, <1>2
  <2>2. ASSUME NEW k \in N PROVE k + 1 \in N
    <3>1. SUFFICES ASSUME k + 1 < n PROVE h[k + 1] = g[k + 1]
      OBVIOUS
    <3>2. /\ k + 1 \in 1..n /\ k + 1 # n /\ k + 1 # n + 1 /\ k + 1 \in 1..(n + 1)
          /\ h[k] = g[k] /\ (k + 1) - 1 = k
      BY <1>0, <3>1
    <3>3. h[k + 1] = h[k] \o t[k + 1] \o by
      BY <1>2, <3>2
    <3>4. g[k + 1] = g[k] \o s[k + 1] \o by
      BY <1>1, <3>2
    <3> QED BY <1>0, <3>2, <3>3, <3>4
  <2>3. N \in SUBSET Nat
    OBVIOUS
  <2>4. ASSUME NEW k \in Nat PROVE k \in N
    <3> HIDE DEF N
    <3> QED BY <2>1, <2>2, <2>3, UpTo
  <2> QED BY <2>4
<1>4. h[n + 1] = h[n] \o x
  <2>1. n + 1 \in 1..(n + 1) /\ (n + 1) - 1 = n /\ n \in 0..(n + 1)
    BY <1>0
  <2>2. h[n + 1] = h[n] \o x \o <<>>
    BY <1>0, <1>2, <2>1
  <2>3. h[n] \in Seq(S)
    BY <1>2, <2>1
  <2> QED BY <2>2, <2>3
<1>5. CASE s = <<>>
  <2>1. n = 0
    BY <1>0, <1>5
  <2> QED BY <1>2, <1>4, <1>5, <2>1, SMTT(30) DEF t
<1>6. CASE s # <<>>
  <2>1. /\ n \in 1..n /\ n \in 1..(n + 1) /\ n - 1 \in Nat /\ n - 1 < n
        /\ n # n + 1
    BY <1>0, <1>6
  <2>2. g[n - 1] \in Seq(S) /\ s[n] \in Seq(S)
    BY <1>0, <1>1, <2>1
  <2>3. h[n] = g[n - 1] \o s[n] \o by
    BY <1>0, <1>2, <1>3, <2>1
  <2>4. g[n] = g[n - 1] \o s[n] \o <<>>
    BY <1>1, <2>1
  <2>5. h[n] = g[n] \o by
    BY <2>2, <2>3, <2>4
  <2> QED BY <1>1, <1>2, <1>4, <1>6, <2>5 DEF t
<1> QED BY <1>5, <1>6

\* Join gives bytes.
LEMMA JoinIsSeq ==
    ASSUME NEW S, NEW s \in Seq(Seq(S)), NEW by \in Seq(S)
    PROVE  Join(s, by) \in Seq(S)
<1>1. PICK g : JoinTable(S, s, by, g)
  BY JoinTurns
<1>2. Len(s) \in 0..Len(s)
  OBVIOUS
<1> QED BY <1>1, <1>2 DEF JoinTable

\* The parts kept after each turn of Vec::retain.
RetainTable(S, s, g) ==
    /\ g \in [0..Len(s) -> Seq(Seq(S))]
    /\ g[0] = <<>>
    /\ \A k \in 1..Len(s) :
          g[k] = IF s[k] = <<>> THEN g[k - 1] ELSE Append(g[k - 1], s[k])
    /\ Retain(s) = g[Len(s)]

\* retain: the fold of Retain, turn by turn.
LEMMA RetainTurns ==
    ASSUME NEW S, NEW s \in Seq(Seq(S))
    PROVE  \E g : RetainTable(S, s, g)
<1> DEFINE n == Len(s)
           Turn(b, k) == IF s[k] = <<>> THEN b ELSE Append(b, s[k])
           Is(h) == h = [T \in SUBSET DOMAIN s |->
                           IF T = {} THEN <<>> ELSE Turn(h[T \ {Max(T)}], Max(T))]
           step == [p \in Seq(Seq(S)) \X (1..n) |-> Turn(p[1], p[2])]
<1>0. n \in Nat /\ DOMAIN s = 1..n
  OBVIOUS
<1>1. Retain(s) = (CHOOSE h : Is(h))[DOMAIN s]
  BY DEF Retain, FoldLeft, MapThenFoldSet
<1>a. \A b \in Seq(Seq(S)), k \in 1..n : Turn(b, k) \in Seq(Seq(S))
  OBVIOUS
<1>2. \E h : Is(h)
  <2>1. step \in [Seq(Seq(S)) \X (1..n) -> Seq(Seq(S))]
    BY <1>a
  <2>2. <<>> \in Seq(Seq(S))
    OBVIOUS
  <2>3. PICK h \in [SUBSET (1..n) -> Seq(Seq(S))] :
           \A T \in SUBSET (1..n) : h[T] = FoldTurn(<<>>, step, h, T)
    <3>1. Folding(Seq(Seq(S)), <<>>, n, step)
      BY <1>0, <2>1, <2>2 DEF Folding
    <3>2. PICK h \in [SUBSET (1..n) -> Seq(Seq(S))] : IsFold(<<>>, n, step, h)
      <4> HIDE DEF step, n
      <4> QED BY <3>1, FoldExists
    <3> HIDE DEF step, n
    <3> QED BY <3>2 DEF IsFold
  <2>4. ASSUME NEW T \in SUBSET (1..n), T # {}
        PROVE  FoldTurn(<<>>, step, h, T) = Turn(h[T \ {Max(T)}], Max(T))
    <3>1. Max(T) \in 1..n
      BY <1>0, <2>4, HasMax
    <3>2. h[T \ {Max(T)}] \in Seq(Seq(S))
      OBVIOUS
    <3>4. FoldTurn(<<>>, step, h, T) = step[<<h[T \ {Max(T)}], Max(T)>>]
      BY <2>4 DEF FoldTurn
    <3> HIDE DEF Turn
    <3> QED BY <3>1, <3>2, <3>4
  <2>5. FoldTurn(<<>>, step, h, {}) = <<>>
    BY DEF FoldTurn
  <2> HIDE DEF step, Turn, n
  <2>6. \A T \in SUBSET (1..n) :
           FoldTurn(<<>>, step, h, T) =
              IF T = {} THEN <<>> ELSE Turn(h[T \ {Max(T)}], Max(T))
    BY <2>4, <2>5
  <2>7. h = [T \in SUBSET (1..n) |->
               IF T = {} THEN <<>> ELSE Turn(h[T \ {Max(T)}], Max(T))]
    BY <2>3, <2>6
  <2> QED BY <1>0, <2>7
<1> HIDE DEF Turn, step, n
<1>3. PICK h : Is(h) /\ Retain(s) = h[1..n]
  <2> HIDE DEF Is
  <2> QED BY <1>0, <1>1, <1>2
<1>4. h[1..0] = <<>>
  BY <1>0, <1>3
<1>5. ASSUME NEW k \in 1..n
      PROVE  h[1..k] = Turn(h[1..(k - 1)], k)
  <2>0. k \in Nat \ {0}
    BY <1>0
  <2>1. Max(1..k) = k /\ (1..k) \ {k} = 1..(k - 1)
    BY <2>0, MaxOfFirst
  <2>2. 1..k \in SUBSET (1..n) /\ 1..k # {}
    <3>1. k \in 1..k /\ k <= n
      BY <1>0, <2>0
    <3>2. \A j \in 1..k : j \in 1..n
      BY <1>0, <2>0, <3>1
    <3> QED BY <3>1, <3>2
  <2>3. h[1..k] = Turn(h[(1..k) \ {Max(1..k)}], Max(1..k))
    BY <1>0, <1>3, <2>2
  <2> QED BY <1>0, <2>1, <2>3
<1> DEFINE g == [k \in 0..n |-> h[1..k]]
           N == {k \in Nat : k <= n => h[1..k] \in Seq(Seq(S))}
<1>6. \A k \in 0..n : h[1..k] \in Seq(Seq(S))
  <2>1. 0 \in N
    <3>1. <<>> \in Seq(Seq(S))
      OBVIOUS
    <3> QED BY <1>4, <3>1
  <2>2. ASSUME NEW k \in N PROVE k + 1 \in N
    <3>1. SUFFICES ASSUME k + 1 <= n PROVE h[1..(k + 1)] \in Seq(Seq(S))
      OBVIOUS
    <3>2. k + 1 \in 1..n /\ (k + 1) - 1 = k /\ h[1..k] \in Seq(Seq(S))
      BY <1>0, <3>1
    <3>3. h[1..(k + 1)] = Turn(h[1..k], k + 1)
      BY <1>5, <3>2
    <3> QED BY <1>a, <3>2, <3>3
  <2>3. N \in SUBSET Nat
    OBVIOUS
  <2>4. ASSUME NEW k \in Nat PROVE k \in N
    <3> HIDE DEF N
    <3> QED BY <2>1, <2>2, <2>3, UpTo
  <2> QED BY <1>0, <2>4
<1>7. g \in [0..n -> Seq(Seq(S))]
  BY <1>6
<1>8. g[0] = <<>> /\ Retain(s) = g[n]
  BY <1>0, <1>3, <1>4
<1>9. \A k \in 1..n : g[k] = Turn(g[k - 1], k)
  <2> SUFFICES ASSUME NEW k \in 1..n PROVE g[k] = Turn(g[k - 1], k)
    OBVIOUS
  <2>1. k \in 0..n /\ k - 1 \in 0..n
    BY <1>0
  <2> QED BY <1>5, <2>1
<1> HIDE DEF g
<1> QED BY <1>7, <1>8, <1>9 DEF Turn, n, RetainTable

\* Retain gives parts.
LEMMA RetainIsSeq ==
    ASSUME NEW S, NEW s \in Seq(Seq(S))
    PROVE  Retain(s) \in Seq(Seq(S))
<1>1. PICK g : RetainTable(S, s, g)
  BY RetainTurns
<1>2. Len(s) \in 0..Len(s)
  OBVIOUS
<1> QED BY <1>1, <1>2 DEF RetainTable

-----------------------------------------------------------------------------
(***************************************************************************)
(* The loop of split_bytes_by_bytes.  Its inductive invariant: what is     *)
(* being gathered are the bytes since the last splitter, no splitter       *)
(* starts among them, and the parts joined again are what was read.        *)
(***************************************************************************)
\* All the bytes there are: those of files, and of "no-boundary".
Bytes == FileBytes \cup Range(NoBoundary)

\* StartsWith, byte by byte.
LEMMA StartsAt ==
    ASSUME NEW S, NEW s \in Seq(S), NEW prefix \in Seq(S), NEW from \in 1..(Len(s) + 1)
    PROVE  StartsWith(s, from, prefix) <=>
              /\ from + Len(prefix) <= Len(s) + 1
              /\ \A j \in 1..Len(prefix) : s[from + j - 1] = prefix[j]
<1> DEFINE r == SubSeq(s, from, Len(s))
           p == SubSeq(prefix, 1, Len(prefix))
<1>0. Len(s) \in Nat /\ Len(prefix) \in Nat
  OBVIOUS
<1>1. /\ r \in Seq(S) /\ Len(r) = Len(s) - from + 1
      /\ \A j \in 1..Len(r) : r[j] = s[from + j - 1]
  OBVIOUS
<1>2. p = prefix
  OBVIOUS
<1>3. StartsWith(s, from, prefix) <=>
         Len(prefix) <= Len(r) /\ prefix = SubSeq(r, 1, Len(prefix))
  BY <1>2 DEF StartsWith, IsPrefix
<1> HIDE DEF r
<1>4. ASSUME Len(prefix) <= Len(r)
      PROVE  prefix = SubSeq(r, 1, Len(prefix)) <=>
                \A j \in 1..Len(prefix) : r[j] = prefix[j]
  <2> DEFINE q == SubSeq(r, 1, Len(prefix))
  <2>1. /\ q \in Seq(S) /\ Len(q) = Len(prefix)
        /\ \A j \in 1..Len(prefix) : q[j] = r[j]
    BY <1>0, <1>1, <1>4
  <2> HIDE DEF q
  <2>2. prefix = q <=> \A j \in 1..Len(prefix) : q[j] = prefix[j]
    BY <2>1
  <2> QED BY <2>1, <2>2 DEF q
<1>5. Len(prefix) <= Len(r) <=> from + Len(prefix) <= Len(s) + 1
  BY <1>0, <1>1
<1>6. Len(prefix) <= Len(r) => \A j \in 1..Len(prefix) : r[j] = s[from + j - 1]
  BY <1>0, <1>1
<1> QED BY <1>3, <1>4, <1>5, <1>6

\* Some bytes of s, at the end of which nothing was found.
LEMMA NotInside ==
    ASSUME NEW S, NEW s \in Seq(S), NEW pattern \in Seq(S), NEW piece \in Seq(S),
           NEW from \in Nat \ {0}, from + Len(piece) <= Len(s) + 1,
           \A j \in 1..Len(piece) : piece[j] = s[from + j - 1],
           \A j \in from..(from + Len(piece) - 1) : ~StartsWith(s, j, pattern)
    PROVE  ~Occurs(pattern, piece)
<1> SUFFICES ASSUME NEW k \in 1..Len(piece), StartsWith(piece, k, pattern)
             PROVE  FALSE
  BY DEF Occurs
<1>0. Len(s) \in Nat /\ Len(pattern) \in Nat /\ Len(piece) \in Nat
  OBVIOUS
<1>1. /\ k + Len(pattern) <= Len(piece) + 1
      /\ \A j \in 1..Len(pattern) : piece[k + j - 1] = pattern[j]
  BY <1>0, StartsAt
<1> DEFINE at == from + k - 1
<1>2. at \in 1..(Len(s) + 1) /\ at \in from..(from + Len(piece) - 1)
  BY <1>0
<1>3. at + Len(pattern) <= Len(s) + 1
  BY <1>0, <1>1
<1>4. ASSUME NEW j \in 1..Len(pattern) PROVE s[at + j - 1] = pattern[j]
  <2>1. k + j - 1 \in 1..Len(piece) /\ from + (k + j - 1) - 1 = at + j - 1
    BY <1>0, <1>1
  <2> QED BY <1>1, <2>1
<1> HIDE DEF at
<1>5. StartsWith(s, at, pattern)
  BY <1>2, <1>3, <1>4, StartsAt
<1> QED BY <1>2, <1>5

\* The types of the loop's state.
LoopTypes ==
    /\ data \in Seq(Bytes)
    /\ splitter \in Seq(Bytes)
    /\ i \in 1..(Len(data) + 1)
    /\ current \in Seq(Bytes)
    /\ parts \in Seq(Seq(Bytes))

\* What is being gathered are the bytes since the last splitter.
CurrentIsTail ==
    /\ Len(current) < i
    /\ \A j \in 1..Len(current) : current[j] = data[i - Len(current) + j - 1]
    /\ \A j \in (i - Len(current))..(i - 1) : ~StartsWith(data, j, splitter)

\* The inductive invariant of the loop.
LoopInv ==
    /\ splitter # <<>>
    /\ CurrentIsTail
    /\ \A k \in 1..Len(parts) : ~Occurs(splitter, parts[k])
    /\ Join(AllParts, splitter) = SubSeq(data, 1, i - 1)

\* What a cut and a byte do to the parts joined again.
LEMMA JoinEnd ==
    ASSUME NEW S, NEW p \in Seq(Seq(S)), NEW c \in Seq(S), NEW by \in Seq(S)
    PROVE  Join(Append(Append(p, c), <<>>), by) = Join(Append(p, c), by) \o by
<1> DEFINE q == Append(p, c)
<1>1. q \in Seq(Seq(S)) /\ q # <<>> /\ <<>> \in Seq(S)
  <2>1. Len(q) = Len(p) + 1 /\ Len(p) \in Nat
    OBVIOUS
  <2>2. Len(<<>>) = 0 /\ <<>> \in Seq(S) /\ q \in Seq(Seq(S))
    OBVIOUS
  <2> QED BY <2>1, <2>2
<1> HIDE DEF q
<1>2. Join(Append(q, <<>>), by) = Join(q, by) \o by \o <<>>
  BY <1>1, JoinAppend
<1>3. Join(q, by) \in Seq(S)
  BY <1>1, JoinIsSeq
<1>4. Join(Append(q, <<>>), by) = Join(q, by) \o by
  BY <1>2, <1>3
<1> QED BY <1>4 DEF q

\* One more byte in the last part.
LEMMA JoinPush ==
    ASSUME NEW S, NEW p \in Seq(Seq(S)), NEW c \in Seq(S), NEW by \in Seq(S), NEW d \in S
    PROVE  Join(Append(p, Append(c, d)), by) = Append(Join(Append(p, c), by), d)
<1>1. Append(c, d) \in Seq(S)
  OBVIOUS
<1>2. /\ Join(Append(p, c), by) = IF p = <<>> THEN c ELSE Join(p, by) \o by \o c
      /\ Join(Append(p, Append(c, d)), by) =
            IF p = <<>> THEN Append(c, d) ELSE Join(p, by) \o by \o Append(c, d)
  BY <1>1, JoinAppend
<1>3. CASE p = <<>>
  BY <1>2, <1>3
<1>4. CASE p # <<>>
  <2> DEFINE a == Join(p, by) \o by
  <2>1. a \in Seq(S)
    <3>1. Join(p, by) \in Seq(S)
      BY JoinIsSeq
    <3> QED BY <3>1
  <2> HIDE DEF a
  <2>2. a \o Append(c, d) = Append(a \o c, d)
    BY <2>1
  <2> QED BY <1>2, <1>4, <2>2 DEF a
<1> QED BY <1>3, <1>4

\* The bytes read, and then the pattern that comes next.
LEMMA BytesThen ==
    ASSUME NEW S, NEW s \in Seq(S), NEW pattern \in Seq(S),
           NEW at \in 1..(Len(s) + 1), StartsWith(s, at, pattern),
           NEW from \in 1..at
    PROVE  SubSeq(s, from, at - 1) \o pattern = SubSeq(s, from, at + Len(pattern) - 1)
<1> DEFINE L == Len(pattern)
           n == at - from
           a == SubSeq(s, from, at - 1) \o pattern
           b == SubSeq(s, from, at + L - 1)
<1>0. L \in Nat /\ Len(s) \in Nat /\ at \in Nat /\ from \in Nat /\ n \in Nat
      /\ from >= 1 /\ at <= Len(s) + 1
  OBVIOUS
<1>1. /\ at + L <= Len(s) + 1
      /\ \A j \in 1..L : s[at + j - 1] = pattern[j]
  BY StartsAt
<1>2. /\ a \in Seq(S) /\ Len(a) = n + L
      /\ \A j \in 1..n : a[j] = s[from + j - 1]
      /\ \A j \in 1..L : a[n + j] = pattern[j]
  <2> DEFINE q == SubSeq(s, from, at - 1)
  <2>1. /\ q \in Seq(S) /\ Len(q) = n
        /\ \A j \in 1..n : q[j] = s[from + j - 1]
    BY <1>0
  <2> HIDE DEF q
  <2>2. /\ q \o pattern \in Seq(S) /\ Len(q \o pattern) = n + L
        /\ \A j \in 1..n : (q \o pattern)[j] = q[j]
        /\ \A j \in 1..L : (q \o pattern)[n + j] = pattern[j]
    <3> HIDE DEF n
    <3>1. n \in Nat /\ q \in Seq(S) /\ Len(q) = n
      BY <1>0, <2>1
    <3>2. q \o pattern \in Seq(S) /\ Len(q \o pattern) = Len(q) + Len(pattern)
      BY <3>1, SMTT(30)
    <3>3. \A j \in 1..Len(q) : (q \o pattern)[j] = q[j]
      BY <3>1
    <3>4. \A j \in 1..Len(pattern) : (q \o pattern)[Len(q) + j] = pattern[j]
      BY <3>1
    <3> QED BY <3>1, <3>2, <3>3, <3>4
  <2> QED BY <2>1, <2>2 DEF q
<1>3. /\ b \in Seq(S) /\ Len(b) = n + L
      /\ \A j \in 1..(n + L) : b[j] = s[from + j - 1]
  BY <1>0, <1>1
<1> HIDE DEF a, b, n, L
<1>4. ASSUME NEW j \in 1..(n + L) PROVE a[j] = b[j]
  <2>1. CASE j <= n
    <3>1. j \in 1..n
      BY <1>0, <2>1
    <3> QED BY <1>2, <1>3, <3>1
  <2>2. CASE j > n
    <3>1. j - n \in 1..L /\ n + (j - n) = j /\ at + (j - n) - 1 = from + j - 1
      BY <1>0, <2>2 DEF n
    <3>2. a[j] = pattern[j - n] /\ s[from + j - 1] = pattern[j - n]
      BY <1>1, <1>2, <3>1
    <3> QED BY <1>3, <3>2
  <2> QED BY <1>0, <2>1, <2>2
<1>5. a = b
  BY <1>2, <1>3, <1>4
<1> QED BY <1>5 DEF a, b, L

\* The part being gathered does not contain the splitter.
LEMMA CurrentHasNoSplitter ==
    ASSUME LoopTypes, CurrentIsTail
    PROVE  ~Occurs(splitter, current)
<1> DEFINE from == i - Len(current)
<1>0. i \in Nat /\ Len(data) \in Nat /\ Len(current) \in Nat /\ i <= Len(data) + 1
  BY DEF LoopTypes
<1>1. from \in Nat \ {0} /\ from + Len(current) = i
  BY <1>0 DEF CurrentIsTail
<1>2. from + Len(current) <= Len(data) + 1
  BY <1>0, <1>1
<1>3. /\ \A j \in 1..Len(current) : current[j] = data[from + j - 1]
      /\ \A j \in from..(from + Len(current) - 1) : ~StartsWith(data, j, splitter)
  BY <1>1 DEF CurrentIsTail
<1> HIDE DEF from
<1> QED BY <1>1, <1>2, <1>3, NotInside DEF LoopTypes

\* No part contains the splitter.
LEMMA PartsHaveNoSplitter ==
    ASSUME LoopTypes, LoopInv
    PROVE  \A k \in 1..Len(AllParts) : ~Occurs(splitter, AllParts[k])
<1>0. parts \in Seq(Seq(Bytes)) /\ current \in Seq(Bytes)
  BY DEF LoopTypes
<1>1. ~Occurs(splitter, current)
  BY CurrentHasNoSplitter DEF LoopInv
<1>2. /\ Len(AllParts) = Len(parts) + 1
      /\ AllParts[Len(parts) + 1] = current
      /\ \A k \in 1..Len(parts) : AllParts[k] = parts[k]
  BY <1>0 DEF AllParts
<1>3. ASSUME NEW k \in 1..Len(AllParts) PROVE ~Occurs(splitter, AllParts[k])
  <2>1. Len(parts) \in Nat
    BY <1>0
  <2>2. CASE k = Len(parts) + 1
    BY <1>1, <1>2, <2>2
  <2>3. CASE k # Len(parts) + 1
    <3>1. k \in 1..Len(parts)
      BY <1>2, <2>1, <2>3
    <3> QED BY <1>2, <3>1 DEF LoopInv
  <2> QED BY <2>2, <2>3
<1> QED BY <1>3

\* A turn that cuts keeps the invariant.
LEMMA EndPartLoop ==
    ASSUME LoopTypes, LoopInv, EndPart
    PROVE  LoopTypes' /\ LoopInv'
<1> DEFINE L == Len(splitter)
<1>0. /\ data \in Seq(Bytes) /\ splitter \in Seq(Bytes) /\ current \in Seq(Bytes)
      /\ parts \in Seq(Seq(Bytes)) /\ AllParts \in Seq(Seq(Bytes))
      /\ Len(data) \in Nat /\ i \in 1..(Len(data) + 1)
      /\ L \in Nat /\ L > 0
  BY DEF LoopTypes, LoopInv, AllParts
<1>1. /\ parts' = AllParts /\ current' = <<>> /\ i' = i + L
      /\ data' = data /\ splitter' = splitter
      /\ StartsWith(data, i, splitter)
  BY DEF EndPart, AfterSplitter, AtSplitter, AllParts
<1>2. i + L <= Len(data) + 1 /\ \A j \in 1..L : data[i + j - 1] = splitter[j]
  <2>1. StartsWith(data, i, splitter) <=>
           /\ i + Len(splitter) <= Len(data) + 1
           /\ \A j \in 1..Len(splitter) : data[i + j - 1] = splitter[j]
    BY <1>0, StartsAt
  <2> QED BY <1>1, <2>1
<1>3. LoopTypes'
  BY <1>0, <1>1, <1>2 DEF LoopTypes
<1>4. CurrentIsTail'
  BY <1>0, <1>1, <1>2 DEF CurrentIsTail
<1>5. \A k \in 1..Len(AllParts) : ~Occurs(splitter, AllParts[k])
  BY <1>0, PartsHaveNoSplitter
<1>6. Join(AllParts', splitter) = SubSeq(data, 1, i + L - 1)
  <2>1. AllParts' = Append(Append(parts, current), <<>>)
    BY <1>1 DEF AllParts
  <2>2. Join(Append(Append(parts, current), <<>>), splitter) =
           Join(Append(parts, current), splitter) \o splitter
    BY <1>0, JoinEnd
  <2>3. SubSeq(data, 1, i - 1) \o splitter = SubSeq(data, 1, i + L - 1)
    <3>1. 1 \in 1..i
      BY <1>0
    <3> QED BY <1>0, <1>1, <3>1, BytesThen
  <2>4. AllParts = Append(parts, current)
    BY DEF AllParts
  <2> QED BY <2>1, <2>2, <2>3, <2>4 DEF LoopInv
<1> QED BY <1>0, <1>1, <1>3, <1>4, <1>5, <1>6 DEF LoopInv

\* A turn that takes one more byte keeps it.
LEMMA PushByteLoop ==
    ASSUME LoopTypes, LoopInv, PushByte
    PROVE  LoopTypes' /\ LoopInv'
<1> DEFINE d == data[i]
<1>0. /\ data \in Seq(Bytes) /\ splitter \in Seq(Bytes) /\ current \in Seq(Bytes)
      /\ parts \in Seq(Seq(Bytes)) /\ AllParts \in Seq(Seq(Bytes))
      /\ Len(data) \in Nat /\ i \in 1..Len(data) /\ d \in Bytes
      /\ Len(current) \in Nat
  BY DEF LoopTypes, AllParts, PushByte
<1>1. /\ current' = Append(current, d) /\ i' = i + 1
      /\ data' = data /\ splitter' = splitter /\ parts' = parts
      /\ ~StartsWith(data, i, splitter)
  BY DEF PushByte, AtSplitter
<1>2. LoopTypes'
  BY <1>0, <1>1 DEF LoopTypes
<1>3. CurrentIsTail'
  <2>1. /\ Len(current') = Len(current) + 1
        /\ current'[Len(current) + 1] = d
        /\ \A j \in 1..Len(current) : current'[j] = current[j]
    BY <1>0, <1>1
  <2>2. /\ Len(current) < i
        /\ \A j \in 1..Len(current) : current[j] = data[i - Len(current) + j - 1]
        /\ \A j \in (i - Len(current))..(i - 1) : ~StartsWith(data, j, splitter)
    BY DEF LoopInv, CurrentIsTail
  <2>3. Len(current') < i' /\ i' - Len(current') = i - Len(current)
    BY <1>0, <1>1, <2>1, <2>2
  <2>4. ASSUME NEW j \in 1..Len(current')
        PROVE  current'[j] = data[i - Len(current) + j - 1]
    <3>1. CASE j <= Len(current)
      BY <1>0, <2>1, <2>2, <3>1
    <3>2. CASE j = Len(current) + 1
      <4>1. i - Len(current) + j - 1 = i
        BY <1>0, <3>2
      <4> QED BY <2>1, <3>2, <4>1
    <3> QED BY <1>0, <2>1, <3>1, <3>2
  <2>5. ASSUME NEW j \in (i - Len(current))..i
        PROVE  ~StartsWith(data, j, splitter)
    BY <1>0, <1>1, <2>2
  <2>6. i' - 1 = i
    BY <1>0, <1>1
  <2> QED BY <1>1, <2>3, <2>4, <2>5, <2>6 DEF CurrentIsTail
<1>4. Join(AllParts', splitter) = Append(Join(AllParts, splitter), d)
  <2>1. AllParts' = Append(parts, Append(current, d)) /\ AllParts = Append(parts, current)
    BY <1>1 DEF AllParts
  <2> HIDE DEF d
  <2>2. Join(Append(parts, Append(current, d)), splitter) =
           Append(Join(Append(parts, current), splitter), d)
    BY <1>0, JoinPush
  <2> QED BY <2>1, <2>2
<1>5. Append(SubSeq(data, 1, i - 1), d) = SubSeq(data, 1, i)
  BY <1>0
<1>6. i' - 1 = i
  BY <1>0, <1>1
<1>7. Join(AllParts', splitter') = SubSeq(data', 1, i' - 1)
  BY <1>1, <1>4, <1>5, <1>6 DEF LoopInv
<1> QED BY <1>1, <1>2, <1>3, <1>7 DEF LoopInv

\* The loop starts with it.
LEMMA SplitLoop ==
    ASSUME NEW bytes \in Seq(Bytes), NEW by \in Seq(Bytes), by # <<>>, Split(bytes, by)
    PROVE  LoopTypes' /\ LoopInv'
<1>1. /\ data' = bytes /\ splitter' = by /\ i' = 1 /\ current' = <<>> /\ parts' = <<>>
  BY DEF Split
<1>2. LoopTypes'
  BY <1>1 DEF LoopTypes
<1>3. CurrentIsTail'
  BY <1>1 DEF CurrentIsTail
<1>4. AllParts' = Append(<<>>, <<>>) /\ <<>> \in Seq(Seq(Bytes)) /\ <<>> \in Seq(Bytes)
  BY <1>1 DEF AllParts
<1>5. Join(AllParts', by) = <<>>
  BY <1>4, JoinAppend
<1>6. SubSeq(bytes, 1, 0) = <<>>
  OBVIOUS
<1>7. i' - 1 = 0
  BY <1>1
<1> QED BY <1>1, <1>2, <1>3, <1>5, <1>6, <1>7 DEF LoopInv

-----------------------------------------------------------------------------
(***************************************************************************)
(* The client's form, and the loop's invariant over all steps of the       *)
(* parser.                                                                 *)
(***************************************************************************)
\* What comes between the boundary and the file.
Headers == <<Cr, Lf, Letter, Cr, Lf, Letter, Cr, Lf, Cr, Lf>>

\* The part of the form with the file.
Part(contents) == Headers \o contents \o LineBreak

\* What follows the closing boundary.
End == <<Dash, Dash, Cr, Lf>>

\* The two headers of the file.
LEMMA JoinHeaders ==
    Join(<< <<Letter>>, <<Letter>> >>, LineBreak) = <<Letter, Cr, Lf, Letter>>
<1> DEFINE x == <<Letter>>
           S == {Cr, Lf, Letter}
           none == <<>>
           one == Append(none, x)
<1>1. /\ x \in Seq(S) /\ LineBreak \in Seq(S)
      /\ none \in Seq(Seq(S)) /\ one \in Seq(Seq(S))
      /\ none = <<>> /\ one # <<>>
  BY DEF LineBreak
<1>2. << <<Letter>>, <<Letter>> >> = Append(one, x)
  OBVIOUS
<1>5. <<Letter, Cr, Lf, Letter>> = x \o LineBreak \o x
  BY DEF LineBreak
<1> HIDE DEF x, S, none
<1>3. Join(one, LineBreak) = x
  <2>1. Join(Append(none, x), LineBreak) =
           IF none = <<>> THEN x ELSE Join(none, LineBreak) \o LineBreak \o x
    BY <1>1, JoinAppend
  <2> QED BY <1>1, <2>1
<1> HIDE DEF one
<1>4. Join(Append(one, x), LineBreak) = x \o LineBreak \o x
  <2>1. Join(Append(one, x), LineBreak) =
           IF one = <<>> THEN x ELSE Join(one, LineBreak) \o LineBreak \o x
    BY <1>1, JoinAppend
  <2> QED BY <1>1, <1>3, <2>1
<1> QED BY <1>2, <1>4, <1>5

\* The types of the boundaries, and that a delimiter is never empty.
LEMMA BoundaryTypes ==
    /\ Boundary \in Seq(FileBytes) /\ Len(Boundary) > 0
    /\ NoBoundary \in Seq(Bytes)
    /\ Delimiter(Boundary) \in Seq(FileBytes)
    /\ Delimiter(NoBoundary) \in Seq(Bytes)
    /\ FileBytes \subseteq Bytes
    /\ \A b \in Seq(Bytes) : Delimiter(b) # <<>>
<1>1. Boundary \in Seq(FileBytes) /\ Len(Boundary) > 0
  BY FormsAssumption
<1>2. NoBoundary \in Seq(Bytes)
  BY FormsAssumption DEF Bytes
<1>3. Delimiter(Boundary) \in Seq(FileBytes)
  <2>1. <<Dash, Dash>> \in Seq(FileBytes)
    BY DEF FileBytes
  <2> QED BY <1>1, <2>1 DEF Delimiter
<1>4. <<Dash, Dash>> \in Seq(Bytes)
  BY DEF FileBytes, Bytes
<1>5. Delimiter(NoBoundary) \in Seq(Bytes)
  BY <1>2, <1>4 DEF Delimiter
<1>6. ASSUME NEW b \in Seq(Bytes) PROVE Delimiter(b) # <<>>
  <2>1. Len(<<Dash, Dash>>) = 2 /\ Len(b) \in Nat /\ Len(<<>>) = 0
    OBVIOUS
  <2>2. Len(Delimiter(b)) = 2 + Len(b)
    BY <1>4, <2>1 DEF Delimiter
  <2> QED BY <2>1, <2>2
<1>7. FileBytes \subseteq Bytes
  BY DEF Bytes
<1> QED BY <1>1, <1>2, <1>3, <1>5, <1>6, <1>7

\* What the header of the request names as the boundary.
LEMMA BoundaryIs ==
    ASSUME kind \in {"file", "bytes"}
    PROVE  BoundaryOf(ContentType) = IF kind = "file" THEN Boundary ELSE NoBoundary
<1> DEFINE pieces == ContentType
           named == {k \in DOMAIN pieces : Len(pieces[k]) = 2 /\ pieces[k][1] = "boundary"}
<1>1. CASE kind = "file"
  <2>1. pieces = << <<"multipart/form-data">>, <<"boundary", Boundary>> >>
    BY <1>1 DEF ContentType
  <2>2. DOMAIN pieces = {1, 2} /\ Len(pieces[1]) = 1 /\ Len(pieces[2]) = 2
        /\ pieces[2][1] = "boundary" /\ pieces[2][2] = Boundary
    BY <2>1
  <2>3. named = {2}
    <3> HIDE DEF pieces
    <3> QED BY <2>2
  <2>4. Max({2}) = 2
    BY DEF Max
  <2> HIDE DEF pieces, named
  <2>5. BoundaryOf(pieces) = IF named = {} THEN NoBoundary ELSE pieces[Max(named)][2]
    BY DEF BoundaryOf, named
  <2> QED BY <1>1, <2>2, <2>3, <2>4, <2>5 DEF pieces
<1>2. CASE kind = "bytes"
  <2>1. pieces = << <<"text/plain">> >>
    BY <1>2 DEF ContentType
  <2>2. DOMAIN pieces = {1} /\ Len(pieces[1]) = 1
    BY <2>1
  <2>3. named = {}
    <3> HIDE DEF pieces
    <3> QED BY <2>2
  <2> HIDE DEF pieces, named
  <2>4. BoundaryOf(pieces) = IF named = {} THEN NoBoundary ELSE pieces[Max(named)][2]
    BY DEF BoundaryOf, named
  <2> QED BY <1>2, <2>3, <2>4 DEF pieces
<1> QED BY <1>1, <1>2

\* The body of a form with a file, in its parts.
LEMMA FileFormIs ==
    ASSUME NEW c \in Seq(FileBytes)
    PROVE  /\ FileForm(c) = Delimiter(Boundary) \o Part(c) \o Delimiter(Boundary) \o End
           /\ Part(c) \in Seq(FileBytes)
           /\ FileForm(c) \in Seq(FileBytes)
<1> DEFINE D == Delimiter(Boundary)
           J == <<Letter, Cr, Lf, Letter>>
           DD == <<Dash, Dash>>
<1>1. /\ D \in Seq(FileBytes) /\ LineBreak \in Seq(FileBytes) /\ J \in Seq(FileBytes)
      /\ DD \in Seq(FileBytes) /\ Headers \in Seq(FileBytes) /\ End \in Seq(FileBytes)
  BY BoundaryTypes DEF LineBreak, FileBytes, Headers, End
<1>2. Headers = LineBreak \o J \o LineBreak \o LineBreak
  BY DEF Headers, LineBreak
<1>3. End = DD \o LineBreak
  BY DEF End, LineBreak
<1>4. FileForm(c) = (D \o LineBreak \o J \o LineBreak \o LineBreak \o c \o LineBreak)
                       \o (D \o DD \o LineBreak)
  BY JoinHeaders DEF FileForm, Field, Closing
<1> HIDE DEF D, J, DD
<1>5. D \o LineBreak \o J \o LineBreak \o LineBreak \o c \o LineBreak = D \o Part(c)
  <2>1. LineBreak \o J \o LineBreak \o LineBreak \in Seq(FileBytes)
    BY <1>1
  <2>2. D \o LineBreak \o J \o LineBreak \o LineBreak = D \o Headers
    <3>1. D \o LineBreak \o J = D \o (LineBreak \o J)
      BY <1>1
    <3>2. D \o (LineBreak \o J) \o LineBreak = D \o (LineBreak \o J \o LineBreak)
      BY <1>1, SMTT(30)
    <3>3. D \o (LineBreak \o J \o LineBreak) \o LineBreak
            = D \o (LineBreak \o J \o LineBreak \o LineBreak)
      <4> DEFINE m == LineBreak \o J \o LineBreak
      <4>1. m \in Seq(FileBytes)
        BY <1>1
      <4> HIDE DEF m
      <4>2. (D \o m) \o LineBreak = D \o (m \o LineBreak)
        BY <1>1, <4>1
      <4> QED BY <4>2 DEF m
    <3> QED BY <1>2, <3>1, <3>2, <3>3
  <2>3. D \o Headers \o c = D \o (Headers \o c)
    BY <1>1
  <2>4. D \o (Headers \o c) \o LineBreak = D \o (Headers \o c \o LineBreak)
    <3> DEFINE m == Headers \o c
    <3>1. m \in Seq(FileBytes)
      BY <1>1
    <3> HIDE DEF m
    <3>2. (D \o m) \o LineBreak = D \o (m \o LineBreak)
      BY <1>1, <3>1
    <3> QED BY <3>2 DEF m
  <2> QED BY <2>2, <2>3, <2>4 DEF Part
<1>6. Part(c) \in Seq(FileBytes)
  <2>1. Headers \o c \in Seq(FileBytes)
    BY <1>1
  <2> QED BY <1>1, <2>1 DEF Part
<1>7. D \o DD \o LineBreak = D \o End
  <2>1. (D \o DD) \o LineBreak = D \o (DD \o LineBreak)
    BY <1>1, SMTT(30)
  <2> QED BY <1>3, <2>1
<1>8. (D \o Part(c)) \o (D \o End) = D \o Part(c) \o D \o End
  BY <1>1, <1>6, SMTT(30)
<1>9. D \o Part(c) \o D \o End \in Seq(FileBytes)
  BY <1>1, <1>6
<1> QED BY <1>4, <1>5, <1>6, <1>7, <1>8, <1>9 DEF D

\* The types of the parser's state.
FormTypes ==
    /\ sent \in Seq(FileBytes)
    /\ kind \in {"file", "text", "bytes"}
    /\ LoopTypes

\* While either cut runs, its loop has its invariant.
SplitInv ==
    /\ FormTypes
    /\ Splitting => LoopInv

\* The types of a line break.
LEMMA LineBreakIs ==
    LineBreak \in Seq(FileBytes) /\ LineBreak \in Seq(Bytes) /\ LineBreak # <<>>
BY DEF LineBreak, FileBytes, Bytes

\* The cut at the boundary starts well.
LEMMA StartSplits ==
    ASSUME FormTypes, Start
    PROVE  FormTypes' /\ LoopInv'
<1> DEFINE bytes == IF kind = "file" THEN FileForm(sent) ELSE sent
           by == Delimiter(BoundaryOf(ContentType))
<1>0. /\ kind \in {"file", "bytes"} /\ sent \in Seq(FileBytes)
      /\ Split(bytes, by) /\ UNCHANGED <<sent, kind>>
  BY DEF FormTypes, Start
<1>1. bytes \in Seq(Bytes)
  BY <1>0, FileFormIs, BoundaryTypes
<1>2. by \in Seq(Bytes) /\ by # <<>>
  <2>1. \A b \in {Boundary, NoBoundary} : b \in Seq(Bytes) /\ Delimiter(b) \in Seq(Bytes)
    BY BoundaryTypes
  <2>2. BoundaryOf(ContentType) \in {Boundary, NoBoundary}
    BY <1>0, BoundaryIs
  <2> QED BY <2>1, <2>2, BoundaryTypes
<1> HIDE DEF bytes, by
<1>3. LoopTypes' /\ LoopInv'
  BY <1>0, <1>1, <1>2, SplitLoop
<1> QED BY <1>0, <1>3 DEF FormTypes

\* The parts of the body are bytes.
LEMMA FormPartsAre ==
    ASSUME LoopTypes, FormParts # <<>>
    PROVE  FormParts \in Seq(Seq(Bytes)) /\ Head(FormParts) \in Seq(Bytes)
<1>1. AllParts \in Seq(Seq(Bytes))
  BY DEF LoopTypes, AllParts
<1>2. Retain(AllParts) \in Seq(Seq(Bytes))
  BY <1>1, RetainIsSeq
<1> DEFINE r == Retain(AllParts)
<1> HIDE DEF r
<1>3. Pop(r) \in Seq(Seq(Bytes))
  BY <1>2 DEF r, Pop, Front
<1> QED BY <1>3 DEF r, FormParts

\* The cut at line breaks starts well.
LEMMA FirstPartSplits ==
    ASSUME FormTypes, FirstPart
    PROVE  FormTypes' /\ LoopInv'
<1>1. /\ FormParts # <<>> /\ Split(Head(FormParts), LineBreak)
      /\ UNCHANGED <<sent, kind>>
  BY DEF FirstPart
<1>2. Head(FormParts) \in Seq(Bytes)
  BY <1>1, FormPartsAre DEF FormTypes
<1>3. LoopTypes' /\ LoopInv'
  BY <1>1, <1>2, LineBreakIs, SplitLoop
<1> QED BY <1>1, <1>3 DEF FormTypes

\* SplitInv holds at the start, and every step keeps it.
LEMMA SplitInvInit == Init => SplitInv
<1> SUFFICES ASSUME Init PROVE SplitInv
  OBVIOUS
<1>1. sent \in Seq(FileBytes)
  <2>1. PICK m \in 0..MaxFile : sent \in [1..m -> FileBytes]
    BY DEF Init, BoundedSeq, SeqOf
  <2>2. m \in Nat
    BY <2>1, FormsAssumption
  <2> QED BY <2>1, <2>2
<1>2. LoopTypes
  BY DEF Init, LoopTypes
<1>3. ~Splitting
  BY DEF Init, Splitting
<1> QED BY <1>1, <1>2, <1>3 DEF Init, SplitInv, FormTypes

LEMMA SplitInvStep == SplitInv /\ [Next]_vars => SplitInv'
<1> SUFFICES ASSUME SplitInv, [Next]_vars PROVE SplitInv'
  OBVIOUS
<1>0. FormTypes /\ LoopTypes
  BY DEF SplitInv, FormTypes
<1>1. CASE Start
  BY <1>0, <1>1, StartSplits DEF SplitInv
<1>2. CASE EndPart
  <2>1. LoopInv /\ UNCHANGED <<sent, kind>>
    BY <1>2 DEF EndPart, SplitInv
  <2> QED BY <1>0, <1>2, <2>1, EndPartLoop DEF SplitInv, FormTypes
<1>3. CASE PushByte
  <2>1. LoopInv /\ UNCHANGED <<sent, kind>>
    BY <1>3 DEF PushByte, SplitInv
  <2> QED BY <1>0, <1>3, <2>1, PushByteLoop DEF SplitInv, FormTypes
<1>4. CASE FirstPart
  BY <1>0, <1>4, FirstPartSplits DEF SplitInv
<1>5. CASE NoFile \/ FileOfPart \/ EditForm
  <2>1. UNCHANGED <<sent, kind, loop>> /\ ~Splitting'
    BY <1>5 DEF NoFile, FileOfPart, EditForm, Splitting
  <2> QED BY <1>0, <2>1 DEF SplitInv, FormTypes, LoopTypes, loop
<1>6. CASE UNCHANGED vars
  BY <1>6 DEF SplitInv, FormTypes, LoopTypes, LoopInv, CurrentIsTail, AllParts,
              Splitting, vars, loop
<1> QED BY <1>1, <1>2, <1>3, <1>4, <1>5, <1>6 DEF Next

LEMMA SplitInvariant == Spec => []SplitInv
<1> QED BY SplitInvInit, SplitInvStep, PTL DEF Spec

\* For every file and boundary, of any length, and in both of its uses, each
\* turn of split_bytes_by_bytes has parts that, joined again, are the bytes it
\* read, and none of them contains the splitter.
THEOREM NothingGetsLost == Spec => []NothingIsLost
<1>1. SplitInv => NothingIsLost
  <2> SUFFICES ASSUME SplitInv, Splitting PROVE NothingIsLost
    BY DEF NothingIsLost
  <2>1. LoopTypes /\ LoopInv
    BY DEF SplitInv, FormTypes
  <2>2. DOMAIN AllParts = 1..Len(AllParts)
    BY <2>1 DEF LoopTypes, AllParts
  <2>3. \A k \in DOMAIN AllParts : ~Occurs(splitter, AllParts[k])
    BY <2>1, <2>2, PartsHaveNoSplitter
  <2> QED BY <2>1, <2>3 DEF NothingIsLost, LoopInv
<1> QED BY <1>1, SplitInvariant, PTL

-----------------------------------------------------------------------------
(***************************************************************************)
(* The bytes of the body, and where the delimiter is in it: at its start   *)
(* and at the end of the part with the file.                               *)
(***************************************************************************)
\* The delimiter of the client's form.
D == Delimiter(Boundary)

\* Where the file's part ends in the body, and the closing boundary begins.
PartEnd(c) == Len(D) + Len(c) + 13

\* The bytes of two sequences put together.
LEMMA Concat ==
    ASSUME NEW a \in Seq(FileBytes), NEW b \in Seq(FileBytes)
    PROVE  /\ a \o b \in Seq(FileBytes) /\ Len(a \o b) = Len(a) + Len(b)
           /\ \A j \in 1..Len(a) : (a \o b)[j] = a[j]
           /\ \A j \in 1..Len(b) : (a \o b)[Len(a) + j] = b[j]
<1>1. a \o b \in Seq(FileBytes) /\ Len(a \o b) = Len(a) + Len(b)
  OBVIOUS
<1>2. \A j \in 1..Len(a) : (a \o b)[j] = a[j]
  OBVIOUS
<1>3. \A j \in 1..Len(b) : (a \o b)[Len(a) + j] = b[j]
  OBVIOUS
<1> QED BY <1>1, <1>2, <1>3

\* The four bytes are four.
LEMMA BytesDiffer ==
    Cr # Lf /\ Cr # Dash /\ Lf # Dash /\ Cr # Letter
<1> DEFINE A2 == {Letter, Dash}
           A3 == {Letter, Dash, Lf}
<1>1. IsFiniteSet({Letter}) /\ Cardinality({Letter}) = 1
  BY FS_Singleton
<1>2. IsFiniteSet(A2) /\ Cardinality(A2) \in {1, 2}
  <2>1. A2 = {Letter} \cup {Dash}
    OBVIOUS
  <2>2. /\ IsFiniteSet({Letter} \cup {Dash})
        /\ Cardinality({Letter} \cup {Dash}) =
              IF Dash \in {Letter} THEN Cardinality({Letter}) ELSE Cardinality({Letter}) + 1
    BY <1>1, FS_AddElement
  <2> QED BY <1>1, <2>1, <2>2
<1>3. /\ IsFiniteSet(A3)
      /\ Cardinality(A3) = IF Lf \in A2 THEN Cardinality(A2) ELSE Cardinality(A2) + 1
  <2>1. A3 = A2 \cup {Lf}
    OBVIOUS
  <2> HIDE DEF A2, A3
  <2> QED BY <1>2, <2>1, FS_AddElement
<1>4. Cardinality(FileBytes) = IF Cr \in A3 THEN Cardinality(A3) ELSE Cardinality(A3) + 1
  <2>1. FileBytes = A3 \cup {Cr}
    BY DEF FileBytes
  <2> HIDE DEF A2, A3
  <2> QED BY <1>3, <2>1, FS_AddElement
<1>5. Cardinality(FileBytes) = 4
  BY FormsAssumption
<1>6. Cr \notin A3 /\ Lf \notin A2
  <2> HIDE DEF A2, A3
  <2> QED BY <1>2, <1>3, <1>4, <1>5
<1> QED BY <1>6

\* A delimiter has no line break in it.
LEMMA DelimiterBytes ==
    /\ D \in Seq(FileBytes) /\ Len(D) \in Nat /\ Len(D) >= 3
    /\ \A j \in 1..Len(D) : D[j] # Cr /\ D[j] # Lf
<1>1. Boundary \in Seq(FileBytes \ {Cr, Lf}) /\ Len(Boundary) > 0
  BY FormsAssumption
<1>2. <<Dash, Dash>> \in Seq(FileBytes \ {Cr, Lf}) /\ Len(<<Dash, Dash>>) = 2
  BY BytesDiffer DEF FileBytes
<1>3. D \in Seq(FileBytes \ {Cr, Lf}) /\ Len(D) = 2 + Len(Boundary)
  BY <1>1, <1>2 DEF D, Delimiter
<1> QED BY <1>1, <1>3, BoundaryTypes DEF D

\* The bytes of the part with the file.
LEMMA PartBytes ==
    ASSUME NEW c \in Seq(FileBytes)
    PROVE  /\ Part(c) \in Seq(FileBytes) /\ Len(Part(c)) = Len(c) + 12
           /\ Part(c)[1] = Cr /\ Part(c)[2] = Lf /\ Part(c)[3] = Letter
           /\ Part(c)[4] = Cr /\ Part(c)[5] = Lf /\ Part(c)[6] = Letter
           /\ Part(c)[7] = Cr /\ Part(c)[8] = Lf
           /\ Part(c)[9] = Cr /\ Part(c)[10] = Lf
           /\ \A j \in 1..Len(c) : Part(c)[10 + j] = c[j]
           /\ Part(c)[Len(c) + 11] = Cr /\ Part(c)[Len(c) + 12] = Lf
<1> DEFINE H == Headers
           q == H \o c
           n == Len(c)
<1>1. /\ H \in Seq(FileBytes) /\ Len(H) = 10
      /\ H[1] = Cr /\ H[2] = Lf /\ H[3] = Letter /\ H[4] = Cr /\ H[5] = Lf
      /\ H[6] = Letter /\ H[7] = Cr /\ H[8] = Lf /\ H[9] = Cr /\ H[10] = Lf
  BY DEF Headers, FileBytes
<1>2. LineBreak \in Seq(FileBytes) /\ Len(LineBreak) = 2 /\ LineBreak[1] = Cr /\ LineBreak[2] = Lf
  BY LineBreakIs DEF LineBreak
<1> HIDE DEF H
<1>3. /\ q \in Seq(FileBytes) /\ Len(q) = 10 + n /\ n \in Nat
      /\ \A j \in 1..10 : q[j] = H[j]
      /\ \A j \in 1..n : q[10 + j] = c[j]
  <2>1. /\ q \in Seq(FileBytes) /\ Len(q) = Len(H) + Len(c)
        /\ \A j \in 1..Len(H) : q[j] = H[j]
        /\ \A j \in 1..Len(c) : q[Len(H) + j] = c[j]
    BY <1>1, Concat
  <2> QED BY <1>1, <2>1
<1> HIDE DEF q
<1>4. /\ q \o LineBreak \in Seq(FileBytes) /\ Len(q \o LineBreak) = n + 12
      /\ \A j \in 1..(10 + n) : (q \o LineBreak)[j] = q[j]
      /\ (q \o LineBreak)[n + 11] = Cr /\ (q \o LineBreak)[n + 12] = Lf
  <2>1. /\ q \o LineBreak \in Seq(FileBytes)
        /\ Len(q \o LineBreak) = Len(q) + Len(LineBreak)
        /\ \A j \in 1..Len(q) : (q \o LineBreak)[j] = q[j]
        /\ \A j \in 1..Len(LineBreak) : (q \o LineBreak)[Len(q) + j] = LineBreak[j]
    BY <1>2, <1>3, Concat
  <2>4. /\ (q \o LineBreak)[Len(q) + 1] = Cr /\ (q \o LineBreak)[Len(q) + 2] = Lf
    BY <1>2, <2>1
  <2>5. Len(q) + 1 = n + 11 /\ Len(q) + 2 = n + 12
    BY <1>3
  <2> QED BY <1>2, <1>3, <2>1, <2>4, <2>5
<1>5. Part(c) = q \o LineBreak
  BY DEF Part, q, H
<1> DEFINE r == q \o LineBreak
<1>6. /\ \A j \in 1..10 : r[j] = H[j]
      /\ \A j \in 1..n : r[10 + j] = c[j]
  <2>1. \A j \in 1..10 : j \in 1..(10 + n)
    BY <1>3
  <2>2. \A j \in 1..n : 10 + j \in 1..(10 + n)
    BY <1>3
  <2> QED BY <1>3, <1>4, <2>1, <2>2
<1> HIDE DEF r
<1>7. /\ r[1] = Cr /\ r[2] = Lf /\ r[3] = Letter /\ r[4] = Cr /\ r[5] = Lf
      /\ r[6] = Letter /\ r[7] = Cr /\ r[8] = Lf /\ r[9] = Cr /\ r[10] = Lf
  BY <1>1, <1>6
<1> QED BY <1>4, <1>5, <1>6, <1>7 DEF r

\* The bytes of the body.
LEMMA BodyBytes ==
    ASSUME NEW c \in Seq(FileBytes)
    PROVE  /\ FileForm(c) \in Seq(FileBytes)
           /\ Len(FileForm(c)) = PartEnd(c) + Len(D) + 3
           /\ \A j \in 1..Len(D) : FileForm(c)[j] = D[j]
           /\ \A j \in 1..(Len(c) + 12) : FileForm(c)[Len(D) + j] = Part(c)[j]
           /\ \A j \in 1..Len(D) : FileForm(c)[PartEnd(c) + j - 1] = D[j]
           /\ FileForm(c)[PartEnd(c) + Len(D) + 2] = Cr
           /\ FileForm(c)[PartEnd(c) + Len(D) + 3] = Lf
<1> DEFINE P == Part(c)
           L == Len(D)
           m == Len(c) + 12
           b1 == D \o P
           b2 == b1 \o D
           b3 == b2 \o End
<1>1. /\ D \in Seq(FileBytes) /\ L \in Nat /\ P \in Seq(FileBytes) /\ Len(P) = m
      /\ m \in Nat
  BY DelimiterBytes, PartBytes
<1>2. End \in Seq(FileBytes) /\ Len(End) = 4 /\ End[3] = Cr /\ End[4] = Lf
  BY DEF End, FileBytes
<1> HIDE DEF P, L, m
<1>3. /\ b1 \in Seq(FileBytes) /\ Len(b1) = L + m
      /\ \A j \in 1..L : b1[j] = D[j]
      /\ \A j \in 1..m : b1[L + j] = P[j]
  <2>1. /\ b1 \in Seq(FileBytes) /\ Len(b1) = Len(D) + Len(P)
        /\ \A j \in 1..Len(D) : b1[j] = D[j]
        /\ \A j \in 1..Len(P) : b1[Len(D) + j] = P[j]
    BY <1>1
  <2> QED BY <1>1, <2>1 DEF L
<1> HIDE DEF b1
<1>4. /\ b2 \in Seq(FileBytes) /\ Len(b2) = L + m + L
      /\ \A j \in 1..(L + m) : b2[j] = b1[j]
      /\ \A j \in 1..L : b2[L + m + j] = D[j]
  <2>1. /\ b2 \in Seq(FileBytes) /\ Len(b2) = Len(b1) + Len(D)
        /\ \A j \in 1..Len(b1) : b2[j] = b1[j]
        /\ \A j \in 1..Len(D) : b2[Len(b1) + j] = D[j]
    BY <1>1, <1>3, Concat
  <2> QED BY <1>1, <1>3, <2>1 DEF L
<1> HIDE DEF b2
<1>5. /\ b3 \in Seq(FileBytes) /\ Len(b3) = L + m + L + 4
      /\ \A j \in 1..(L + m + L) : b3[j] = b2[j]
      /\ b3[L + m + L + 3] = Cr /\ b3[L + m + L + 4] = Lf
  <2>1. /\ b3 \in Seq(FileBytes) /\ Len(b3) = Len(b2) + Len(End)
        /\ \A j \in 1..Len(b2) : b3[j] = b2[j]
        /\ \A j \in 1..Len(End) : b3[Len(b2) + j] = End[j]
    BY <1>2, <1>4, Concat
  <2>2. 3 \in 1..Len(End) /\ 4 \in 1..Len(End)
    BY <1>2
  <2>3. b3[Len(b2) + 3] = Cr /\ b3[Len(b2) + 4] = Lf
    BY <1>2, <2>1, <2>2
  <2> QED BY <1>2, <1>4, <2>1, <2>3
<1>6. FileForm(c) = b3
  BY FileFormIs DEF b1, b2, P, D
<1> HIDE DEF b3
<1>7. PartEnd(c) = L + m + 1
  BY <1>1 DEF PartEnd, L, m
<1>8. \A j \in 1..L : b3[j] = D[j]
  <2>1. \A j \in 1..L : j \in 1..(L + m) /\ j \in 1..(L + m + L)
    BY <1>1
  <2> QED BY <1>3, <1>4, <1>5, <2>1
<1>9. \A j \in 1..m : b3[L + j] = P[j]
  <2>1. \A j \in 1..m : L + j \in 1..(L + m) /\ L + j \in 1..(L + m + L)
    BY <1>1
  <2> QED BY <1>3, <1>4, <1>5, <2>1
<1>10. \A j \in 1..L : b3[L + m + j] = D[j]
  <2>1. \A j \in 1..L : L + m + j \in 1..(L + m + L)
    BY <1>1
  <2> QED BY <1>4, <1>5, <2>1
<1>11. /\ \A j \in 1..L : PartEnd(c) + j - 1 = L + m + j
       /\ PartEnd(c) + L + 2 = L + m + L + 3
       /\ PartEnd(c) + L + 3 = L + m + L + 4
  BY <1>1, <1>7
<1>12. \A j \in 1..L : b3[PartEnd(c) + j - 1] = D[j]
  BY <1>10, <1>11
<1> QED BY <1>5, <1>6, <1>8, <1>9, <1>11, <1>12 DEF L, m, P

\* The delimiter is found in the body at its start and at the end of the part,
\* and nowhere else the loop looks.
LEMMA BodyMatches ==
    ASSUME NEW c \in Seq(FileBytes), ~Occurs(D, c),
           NEW k \in 1..Len(FileForm(c)),
           k \notin 2..Len(D), k \notin (PartEnd(c) + 1)..(PartEnd(c) + Len(D) - 1)
    PROVE  StartsWith(FileForm(c), k, D) <=> k = 1 \/ k = PartEnd(c)
<1> DEFINE b == FileForm(c)
           L == Len(D)
           n == Len(c)
           p == PartEnd(c)
<1>0. /\ b \in Seq(FileBytes) /\ D \in Seq(FileBytes) /\ L \in Nat /\ L >= 3
      /\ n \in Nat /\ p = L + n + 13 /\ Len(b) = p + L + 3 /\ k \in Nat
      /\ k \in 1..(Len(b) + 1)
  <2>1. D \in Seq(FileBytes) /\ L \in Nat /\ L >= 3
    BY DelimiterBytes
  <2>2. n \in Nat /\ p = L + n + 13
    BY DEF PartEnd
  <2>3. b \in Seq(FileBytes) /\ Len(b) = p + L + 3
    BY BodyBytes
  <2> HIDE DEF b, L, n, p
  <2>4. k \in 1..Len(b)
    BY DEF b
  <2> QED BY <2>1, <2>2, <2>3, <2>4
<1>1. /\ \A j \in 1..L : b[j] = D[j]
      /\ \A j \in 1..L : b[p + j - 1] = D[j]
      /\ b[p + L + 2] = Cr /\ b[p + L + 3] = Lf
  BY BodyBytes
<1>2. /\ b[L + 1] = Cr /\ b[L + 2] = Lf /\ b[L + 4] = Cr /\ b[L + 5] = Lf
      /\ b[L + 7] = Cr /\ b[L + 8] = Lf /\ b[L + 9] = Cr /\ b[L + 10] = Lf
      /\ \A j \in 1..n : b[L + 10 + j] = c[j]
      /\ b[L + n + 11] = Cr /\ b[L + n + 12] = Lf
  <2> DEFINE P == Part(c)
  <2>1. \A j \in 1..(n + 12) : b[L + j] = P[j]
    BY BodyBytes
  <2>2. /\ P[1] = Cr /\ P[2] = Lf /\ P[4] = Cr /\ P[5] = Lf
        /\ P[7] = Cr /\ P[8] = Lf /\ P[9] = Cr /\ P[10] = Lf
        /\ \A j \in 1..n : P[10 + j] = c[j]
        /\ P[n + 11] = Cr /\ P[n + 12] = Lf
    BY PartBytes
  <2> HIDE DEF P, b, L, n
  <2>3. \A j \in {1, 2, 4, 5, 7, 8, 9, 10, n + 11, n + 12} : j \in 1..(n + 12)
    BY <1>0
  <2>4. ASSUME NEW j \in 1..n PROVE b[L + 10 + j] = c[j]
    <3>1. 10 + j \in 1..(n + 12) /\ L + (10 + j) = L + 10 + j
      BY <1>0
    <3> QED BY <2>1, <2>2, <3>1
  <2>5. L + (n + 11) = L + n + 11 /\ L + (n + 12) = L + n + 12
    BY <1>0
  <2>6. \A j \in {1, 2, 4, 5, 7, 8, 9, 10} : b[L + j] = P[j]
    BY <2>1, <2>3
  <2>7. b[L + (n + 11)] = P[n + 11] /\ b[L + (n + 12)] = P[n + 12]
    BY <2>1, <2>3
  <2> QED BY <2>2, <2>4, <2>5, <2>6, <2>7
<1> HIDE DEF b, L, n, p
<1>3. StartsWith(b, k, D) <=>
         /\ k + L <= Len(b) + 1
         /\ \A j \in 1..L : b[k + j - 1] = D[j]
  <2>0. b \in Seq(FileBytes) /\ D \in Seq(FileBytes) /\ k \in 1..(Len(b) + 1)
    BY <1>0
  <2>1. StartsWith(b, k, D) <=>
           /\ k + Len(D) <= Len(b) + 1
           /\ \A j \in 1..Len(D) : b[k + j - 1] = D[j]
    BY <2>0, StartsAt
  <2> QED BY <2>1 DEF L
<1>4. CASE k = 1 \/ k = p
  <2>1. k + L <= Len(b) + 1
    BY <1>0, <1>4
  <2>2. \A j \in 1..L : b[k + j - 1] = D[j]
    <3>1. \A j \in 1..L : 1 + j - 1 = j
      BY <1>0
    <3> QED BY <1>1, <1>4, <3>1
  <2> QED BY <1>3, <1>4, <2>1, <2>2 DEF b, p
<1>5. CASE ~(k = 1 \/ k = p)
  <2> SUFFICES ASSUME StartsWith(b, k, D) PROVE FALSE
    BY <1>5 DEF b, p
  <2>1. k + L <= Len(b) + 1 /\ \A j \in 1..L : b[k + j - 1] = D[j]
    BY <1>3
  <2>2. ASSUME NEW j \in k..(k + L - 1) PROVE b[j] # Cr /\ b[j] # Lf
    <3>1. j - k + 1 \in 1..L /\ k + (j - k + 1) - 1 = j
      BY <1>0
    <3>2. b[j] = D[j - k + 1]
      BY <2>1, <3>1
    <3>3. D[j - k + 1] # Cr /\ D[j - k + 1] # Lf
      BY <3>1, DelimiterBytes DEF L
    <3> QED BY <3>2, <3>3
  <2>3. /\ L + 1 \notin k..(k + L - 1) /\ L + 2 \notin k..(k + L - 1)
        /\ L + 4 \notin k..(k + L - 1) /\ L + 5 \notin k..(k + L - 1)
        /\ L + 7 \notin k..(k + L - 1) /\ L + 8 \notin k..(k + L - 1)
        /\ L + 9 \notin k..(k + L - 1) /\ L + 10 \notin k..(k + L - 1)
        /\ L + n + 11 \notin k..(k + L - 1) /\ L + n + 12 \notin k..(k + L - 1)
        /\ p + L + 2 \notin k..(k + L - 1) /\ p + L + 3 \notin k..(k + L - 1)
    BY <1>1, <1>2, <2>2
  <2>4. k >= L + 11 /\ k + L - 1 <= L + n + 10
    <3>1. k >= L + 1
      BY <1>0, <1>5 DEF L
    <3>2. k < p + 1 \/ k >= p + L
      BY <1>0 DEF L, p
    <3> QED BY <1>0, <1>5, <2>1, <2>3, <3>1, <3>2
  <2> DEFINE at == k - L - 10
  <2>5. at \in 1..n /\ at + L <= n + 1 /\ at \in 1..(n + 1)
    BY <1>0, <2>4
  <2>6. ASSUME NEW j \in 1..L PROVE c[at + j - 1] = D[j]
    <3>1. at + j - 1 \in 1..n /\ L + 10 + (at + j - 1) = k + j - 1
      BY <1>0, <2>5
    <3> QED BY <1>2, <2>1, <3>1
  <2> HIDE DEF at
  <2>7. StartsWith(c, at, D)
    <3>1. at \in 1..(Len(c) + 1)
      BY <2>5 DEF n
    <3>2. StartsWith(c, at, D) <=>
             /\ at + Len(D) <= Len(c) + 1
             /\ \A j \in 1..Len(D) : c[at + j - 1] = D[j]
      BY <1>0, <3>1, StartsAt
    <3> QED BY <2>5, <2>6, <3>2 DEF L, n
  <2> QED BY <2>5, <2>7 DEF Occurs, n
<1> QED BY <1>4, <1>5 DEF b, p

-----------------------------------------------------------------------------
(***************************************************************************)
(* Cutting the body at the boundary gives the part with the file.          *)
(***************************************************************************)
\* Where the loop is in the body of a form with a file.
BodyTurn ==
    /\ data = FileForm(sent)
    /\ splitter = D
    /\ \/ i = 1 /\ parts = <<>>
       \/ /\ i \in (Len(D) + 1)..PartEnd(sent)
          /\ parts = << <<>> >>
          /\ Len(current) = i - Len(D) - 1
       \/ /\ i >= PartEnd(sent) + Len(D)
          /\ parts = << <<>>, Part(sent) >>
          /\ Len(current) = i - PartEnd(sent) - Len(D)

\* The loop cuts at the two delimiters and nowhere else.
LEMMA BodyTurnMatches ==
    ASSUME FormTypes, BodyTurn, ~Occurs(D, sent), i <= Len(data)
    PROVE  AtSplitter <=> i = 1 \/ i = PartEnd(sent)
<1>0. /\ i \in 1..Len(data) /\ sent \in Seq(FileBytes) /\ Len(D) \in Nat /\ Len(D) >= 3
      /\ PartEnd(sent) = Len(D) + Len(sent) + 13 /\ Len(sent) \in Nat
  BY DelimiterBytes DEF FormTypes, LoopTypes, PartEnd
<1>1. /\ i \notin 2..Len(D)
      /\ i \notin (PartEnd(sent) + 1)..(PartEnd(sent) + Len(D) - 1)
  BY <1>0 DEF BodyTurn
<1>2. data = FileForm(sent) /\ splitter = D
  BY DEF BodyTurn
<1> QED BY <1>0, <1>1, <1>2, BodyMatches DEF AtSplitter

\* A cut comes to the next position of BodyTurn.
LEMMA BodyEndPart ==
    ASSUME FormTypes, LoopInv, BodyTurn, ~Occurs(D, sent), EndPart
    PROVE  BodyTurn'
<1> DEFINE L == Len(D)
           p == PartEnd(sent)
           n == Len(sent)
<1>0. /\ L \in Nat /\ L >= 3 /\ p = L + n + 13 /\ n \in Nat /\ i \in Nat
      /\ current \in Seq(Bytes) /\ Part(sent) \in Seq(FileBytes)
      /\ Len(Part(sent)) = n + 12 /\ Len(current) \in Nat
  <2>1. L \in Nat /\ L >= 3
    BY DelimiterBytes
  <2>2. sent \in Seq(FileBytes) /\ i \in Nat /\ current \in Seq(Bytes)
    BY DEF FormTypes, LoopTypes
  <2>3. Part(sent) \in Seq(FileBytes) /\ Len(Part(sent)) = n + 12
    BY <2>2, PartBytes
  <2>4. p = L + n + 13
    BY DEF PartEnd
  <2> HIDE DEF L, p
  <2> QED BY <2>1, <2>2, <2>3, <2>4
<1>1. /\ AtSplitter /\ i <= Len(data)
      /\ parts' = Append(parts, current) /\ current' = <<>> /\ i' = i + L
      /\ data' = data /\ splitter' = splitter /\ sent' = sent
      /\ data = FileForm(sent) /\ splitter = D
  BY DEF EndPart, BodyTurn, AfterSplitter
<1>2. i = 1 \/ i = p
  BY <1>1, BodyTurnMatches
<1> HIDE DEF L, p, n
<1>3. CASE i = 1
  <2>1. parts = <<>> /\ Len(current) = 0
    <3>1. parts = <<>>
      BY <1>0, <1>3 DEF BodyTurn, L, p
    <3>2. Len(current) < i
      BY DEF LoopInv, CurrentIsTail
    <3> QED BY <1>0, <1>3, <3>1, <3>2
  <2>2. current = <<>>
    BY <1>0, <2>1
  <2>3. parts' = << <<>> >>
    BY <1>1, <2>1, <2>2
  <2>4. i' \in (L + 1)..p /\ i' - L - 1 = 0
    BY <1>0, <1>1, <1>3
  <2> QED BY <1>1, <2>3, <2>4 DEF BodyTurn, L, p
<1>4. CASE i = p
  <2>1. parts = << <<>> >> /\ Len(current) = n + 12
    BY <1>0, <1>4 DEF BodyTurn, L, p
  <2>2. current = Part(sent)
    <3>1. \A j \in 1..Len(current) : current[j] = data[i - Len(current) + j - 1]
      BY DEF LoopInv, CurrentIsTail
    <3>2. \A j \in 1..(n + 12) : data[L + j] = Part(sent)[j]
      BY <1>1, BodyBytes DEF FormTypes, L, n
    <3>3. ASSUME NEW j \in 1..(n + 12) PROVE current[j] = Part(sent)[j]
      <4>1. i - Len(current) + j - 1 = L + j
        BY <1>0, <1>4, <2>1
      <4> QED BY <2>1, <3>1, <3>2, <4>1
    <3>4. Part(sent) \in Seq(Bytes)
      BY <1>0, BoundaryTypes
    <3> QED BY <1>0, <2>1, <3>3, <3>4
  <2>3. parts' = << <<>>, Part(sent) >>
    <3>1. << <<>>, Part(sent) >> = Append(<< <<>> >>, Part(sent))
      OBVIOUS
    <3> QED BY <1>1, <2>1, <2>2, <3>1
  <2>4. i' >= p + L /\ i' - p - L = 0
    BY <1>0, <1>1, <1>4
  <2> QED BY <1>1, <2>3, <2>4 DEF BodyTurn, L, p
<1> QED BY <1>2, <1>3, <1>4

\* So does one more byte.
LEMMA BodyPushByte ==
    ASSUME FormTypes, BodyTurn, ~Occurs(D, sent), PushByte
    PROVE  BodyTurn'
<1> DEFINE L == Len(D)
           p == PartEnd(sent)
<1>0. /\ L \in Nat /\ L >= 3 /\ p \in Nat /\ p > L /\ i \in Nat
      /\ current \in Seq(Bytes) /\ Len(current) \in Nat
  BY DelimiterBytes DEF FormTypes, LoopTypes, PartEnd
<1>1. /\ ~AtSplitter /\ i <= Len(data)
      /\ current' = Append(current, data[i]) /\ i' = i + 1
      /\ data' = data /\ splitter' = splitter /\ sent' = sent /\ parts' = parts
  BY DEF PushByte
<1>2. i # 1 /\ i # p
  BY <1>1, BodyTurnMatches
<1>3. Len(current') = Len(current) + 1
  <2>1. data[i] \in Bytes
    BY <1>0, <1>1 DEF FormTypes, LoopTypes
  <2> QED BY <1>0, <1>1, <2>1
<1> HIDE DEF L, p
<1>4. CASE i \in (L + 1)..p
  <2>1. parts = << <<>> >> /\ Len(current) = i - L - 1
    BY <1>0, <1>2, <1>4 DEF BodyTurn, L, p
  <2>2. i' \in (L + 1)..p /\ Len(current') = i' - L - 1
    BY <1>0, <1>1, <1>2, <1>3, <1>4, <2>1
  <2> QED BY <1>1, <2>1, <2>2 DEF BodyTurn, L, p
<1>5. CASE i >= p + L
  <2>1. parts = << <<>>, Part(sent) >> /\ Len(current) = i - p - L
    BY <1>0, <1>2, <1>5 DEF BodyTurn, L, p
  <2>2. i' >= p + L /\ Len(current') = i' - p - L
    BY <1>0, <1>1, <1>3, <1>5, <2>1
  <2> QED BY <1>1, <2>1, <2>2 DEF BodyTurn, L, p
<1> QED BY <1>2, <1>4, <1>5 DEF BodyTurn, L, p

\* Of the three parts the first is empty, and the last is what follows the
\* closing boundary.
LEMMA RetainThree ==
    ASSUME NEW S, NEW a \in Seq(S), NEW b \in Seq(S), a # <<>>, b # <<>>
    PROVE  Retain(<< <<>>, a, b >>) = <<a, b>>
<1> DEFINE s == << <<>>, a, b >>
<1>1. /\ s \in Seq(Seq(S)) /\ Len(s) = 3
      /\ s[1] = <<>> /\ s[2] = a /\ s[3] = b
  OBVIOUS
<1> HIDE DEF s
<1>2. \E g : RetainTable(S, s, g)
  BY <1>1, RetainTurns
<1>3. PICK g : /\ g[0] = <<>>
               /\ \A k \in 1..3 :
                     g[k] = IF s[k] = <<>> THEN g[k - 1] ELSE Append(g[k - 1], s[k])
               /\ Retain(s) = g[3]
  BY <1>1, <1>2 DEF RetainTable
<1>4. g[1] = <<>>
  BY <1>1, <1>3
<1>5. g[2] = Append(g[1], a)
  <2>1. 2 \in 1..3 /\ 2 - 1 = 1
    OBVIOUS
  <2>2. g[2] = IF s[2] = <<>> THEN g[2 - 1] ELSE Append(g[2 - 1], s[2])
    BY <1>3, <2>1
  <2> QED BY <1>1, <2>1, <2>2
<1>6. g[3] = Append(Append(<<>>, a), b)
  <2>1. 3 \in 1..3 /\ 3 - 1 = 2
    OBVIOUS
  <2>2. g[3] = IF s[3] = <<>> THEN g[3 - 1] ELSE Append(g[3 - 1], s[3])
    BY <1>3, <2>1
  <2> QED BY <1>1, <1>4, <1>5, <2>1, <2>2
<1>7. <<a, b>> = Append(Append(<<>>, a), b)
  OBVIOUS
<1> QED BY <1>3, <1>6, <1>7 DEF s

\* At the end of the loop, what is kept is the part with the file.
LEMMA BodySplit ==
    ASSUME FormTypes, BodyTurn, i > Len(data)
    PROVE  FormParts = << Part(sent) >>
<1> DEFINE P == Part(sent)
<1>0. /\ i \in 1..(Len(data) + 1) /\ current \in Seq(Bytes) /\ P \in Seq(FileBytes)
      /\ P \in Seq(Bytes) /\ Len(P) = Len(sent) + 12 /\ Len(sent) \in Nat
      /\ Len(D) \in Nat /\ Len(D) >= 3
  <2>1. sent \in Seq(FileBytes) /\ i \in 1..(Len(data) + 1) /\ current \in Seq(Bytes)
    BY DEF FormTypes, LoopTypes
  <2>2. P \in Seq(FileBytes) /\ Len(P) = Len(sent) + 12
    BY <2>1, PartBytes
  <2> HIDE DEF P
  <2>3. P \in Seq(Bytes)
    BY <2>2, BoundaryTypes
  <2> QED BY <2>1, <2>2, <2>3, DelimiterBytes
<1>1. Len(data) = PartEnd(sent) + Len(D) + 3 /\ PartEnd(sent) = Len(D) + Len(sent) + 13
  BY BodyBytes DEF FormTypes, BodyTurn, PartEnd
<1>2. i = PartEnd(sent) + Len(D) + 4
  BY <1>0, <1>1
<1>3. parts = << <<>>, P >> /\ Len(current) = 4
  <2>1. i # 1 /\ i \notin (Len(D) + 1)..PartEnd(sent)
    BY <1>0, <1>1, <1>2
  <2>2. parts = << <<>>, P >> /\ Len(current) = i - PartEnd(sent) - Len(D)
    BY <2>1 DEF BodyTurn
  <2> QED BY <1>0, <1>1, <1>2, <2>2
<1>4. P # <<>> /\ current # <<>>
  <2> HIDE DEF P
  <2>1. Len(<<>>) = 0
    OBVIOUS
  <2>2. Len(P) # 0 /\ Len(current) # 0
    BY <1>0, <1>3
  <2> QED BY <2>1, <2>2
<1>5. AllParts = << <<>>, P, current >>
  <2> HIDE DEF P
  <2>1. << <<>>, P, current >> = Append(<< <<>>, P >>, current)
    OBVIOUS
  <2> QED BY <1>3, <2>1 DEF AllParts
<1> HIDE DEF P
<1>6. Retain(AllParts) = <<P, current>>
  <2>1. Retain(<< <<>>, P, current >>) = <<P, current>>
    BY <1>0, <1>4, RetainThree
  <2> QED BY <1>5, <2>1
<1>7. Pop(<<P, current>>) = <<P>>
  <2> DEFINE x == <<P, current>>
  <2>1. x \in Seq(Seq(Bytes)) /\ Len(x) = 2 /\ x[1] = P
    BY <1>0
  <2>2. <<P>> \in Seq(Seq(Bytes)) /\ Len(<<P>>) = 1 /\ <<P>>[1] = P /\ Len(<<>>) = 0
    BY <1>0
  <2> HIDE DEF x
  <2>3. Pop(x) = SubSeq(x, 1, 1)
    <3>1. x # <<>>
      BY <2>1, <2>2
    <3>2. Len(x) - 1 = 1
      BY <2>1
    <3> QED BY <3>1, <3>2 DEF Pop, Front
  <2>4. SubSeq(x, 1, 1) = <<P>>
    <3> DEFINE y == SubSeq(x, 1, 1)
               z == <<P>>
    <3>1. y \in Seq(Seq(Bytes)) /\ Len(y) = 1 /\ y[1] = P
      BY <2>1
    <3>2. z \in Seq(Seq(Bytes)) /\ Len(z) = 1 /\ z[1] = P
      BY <2>2
    <3> HIDE DEF y, z
    <3>3. \A j \in 1..1 : y[j] = z[j]
      BY <3>1, <3>2
    <3>4. y = z
      BY <3>1, <3>2, <3>3
    <3> QED BY <3>4 DEF y, z
  <2> QED BY <2>3, <2>4 DEF x
<1> QED BY <1>6, <1>7 DEF FormParts, P

-----------------------------------------------------------------------------
(***************************************************************************)
(* Cutting that part at line breaks: four lines before the file, and the   *)
(* lines of the file.                                                      *)
(***************************************************************************)
\* What the loop has read of the file, its line breaks put back.
FileSoFar == Join(Append(SubSeq(parts, HeaderLines + 1, Len(parts)), current), LineBreak)

\* The lines before the file end at these positions.
HeaderTurns == {<<1, 0>>, <<3, 1>>, <<4, 1>>, <<6, 2>>, <<7, 2>>, <<9, 3>>}

\* Where the loop is in the part with the file.
PartTurn ==
    /\ data = Part(sent)
    /\ splitter = LineBreak
    /\ i # Len(data)
    /\ i = Len(data) + 1 => current = <<>> /\ Len(parts) >= 5
    /\ \/ <<i, Len(parts)>> \in HeaderTurns
       \/ /\ i >= 11
          /\ Len(parts) >= 4
          /\ FileSoFar = SubSeq(data, 11, i - 1)

\* Parts are the same when they are so one by one.
LEMMA SameParts ==
    ASSUME NEW x \in Seq(Seq(Bytes)), NEW y \in Seq(Seq(Bytes)), Len(x) = Len(y),
           \A j \in 1..Len(x) : x[j] = y[j]
    PROVE  x = y
<1>1. /\ Len(x) \in Nat /\ DOMAIN x = 1..Len(x) /\ DOMAIN y = 1..Len(y)
      /\ x = [j \in 1..Len(x) |-> x[j]] /\ y = [j \in 1..Len(y) |-> y[j]]
  OBVIOUS
<1> QED BY <1>1

\* The parts from some position on, and one more.
LEMMA TailOfAppend ==
    ASSUME NEW s \in Seq(Seq(Bytes)), NEW e \in Seq(Bytes), NEW a \in Nat,
           a >= 1, a <= Len(s) + 1
    PROVE  /\ SubSeq(s, a, Len(s)) \in Seq(Seq(Bytes))
           /\ Len(SubSeq(s, a, Len(s))) = Len(s) + 1 - a
           /\ SubSeq(Append(s, e), a, Len(s) + 1) = Append(SubSeq(s, a, Len(s)), e)
<1> DEFINE n == Len(s)
           t == Append(s, e)
           q == SubSeq(s, a, n)
           x == SubSeq(t, a, n + 1)
           y == Append(q, e)
<1>1. /\ n \in Nat /\ t \in Seq(Seq(Bytes)) /\ Len(t) = n + 1
      /\ \A j \in 1..n : t[j] = s[j]
      /\ t[n + 1] = e
  OBVIOUS
<1> HIDE DEF t
<1>2. /\ q \in Seq(Seq(Bytes)) /\ Len(q) = n + 1 - a
      /\ \A j \in 1..(n + 1 - a) : q[j] = s[a + j - 1]
  OBVIOUS
<1> HIDE DEF q
<1>3. /\ y \in Seq(Seq(Bytes)) /\ Len(y) = n + 2 - a
      /\ \A j \in 1..(n + 1 - a) : y[j] = q[j]
      /\ y[n + 2 - a] = e
  <2>1. /\ y \in Seq(Seq(Bytes)) /\ Len(y) = Len(q) + 1
        /\ \A j \in 1..Len(q) : y[j] = q[j]
        /\ y[Len(q) + 1] = e
    BY <1>2
  <2> HIDE DEF y, n
  <2>2. Len(q) + 1 = n + 2 - a
    BY <1>1, <1>2
  <2> QED BY <1>2, <2>1, <2>2
<1> HIDE DEF y, n
<1>4. /\ x \in Seq(Seq(Bytes)) /\ Len(x) = n + 2 - a
      /\ \A j \in 1..(n + 2 - a) : x[j] = t[a + j - 1]
  BY <1>1, a <= n + 1 DEF n
<1> HIDE DEF x
<1>5. ASSUME NEW j \in 1..(n + 2 - a) PROVE x[j] = y[j]
  <2>1. CASE j \in 1..(n + 1 - a)
    <3>1. a + j - 1 \in 1..n
      BY <1>1, <2>1
    <3> QED BY <1>1, <1>2, <1>3, <1>4, <2>1, <3>1
  <2>2. CASE j = n + 2 - a
    <3>1. a + j - 1 = n + 1
      BY <1>1, <2>2
    <3> QED BY <1>1, <1>3, <1>4, <2>2, <3>1
  <2> QED BY <1>1, <2>1, <2>2
<1>6. x = y
  <2>1. x \in Seq(Seq(Bytes)) /\ y \in Seq(Seq(Bytes)) /\ Len(x) = Len(y)
    BY <1>3, <1>4
  <2>2. \A j \in 1..Len(x) : x[j] = y[j]
    BY <1>4, <1>5
  <2> QED BY <2>1, <2>2, SameParts
<1> QED BY <1>2, <1>6 DEF x, y, q, t, n

\* The same bytes after both can be taken away.
LEMMA Cancel ==
    ASSUME NEW x \in Seq(Bytes), NEW y \in Seq(Bytes), NEW c \in Seq(Bytes),
           x \o c = y \o c
    PROVE  x = y
<1> DEFINE a == x \o c
           b == y \o c
<1>1. Len(a) = Len(x) + Len(c) /\ \A j \in 1..Len(x) : a[j] = x[j]
  OBVIOUS
<1>2. Len(b) = Len(y) + Len(c) /\ \A j \in 1..Len(y) : b[j] = y[j]
  OBVIOUS
<1>3. a = b
  OBVIOUS
<1> HIDE DEF a, b
<1>4. Len(x) = Len(y)
  <2>1. Len(x) \in Nat /\ Len(y) \in Nat /\ Len(c) \in Nat
    OBVIOUS
  <2> QED BY <1>1, <1>2, <1>3, <2>1
<1>5. \A j \in 1..Len(x) : x[j] = y[j]
  BY <1>1, <1>2, <1>3, <1>4
<1> QED BY <1>4, <1>5

\* The loop cuts where there is a line break.
LEMMA AtLineBreak ==
    ASSUME FormTypes, splitter = LineBreak, i <= Len(data)
    PROVE  AtSplitter <=> i < Len(data) /\ data[i] = Cr /\ data[i + 1] = Lf
<1>0. /\ data \in Seq(Bytes) /\ LineBreak \in Seq(Bytes) /\ i \in 1..(Len(data) + 1)
  BY LineBreakIs DEF FormTypes, LoopTypes
<1>1. Len(LineBreak) = 2 /\ LineBreak[1] = Cr /\ LineBreak[2] = Lf
  BY DEF LineBreak
<1>2. StartsWith(data, i, LineBreak) <=>
         /\ i + Len(LineBreak) <= Len(data) + 1
         /\ \A j \in 1..Len(LineBreak) : data[i + j - 1] = LineBreak[j]
  BY <1>0, StartsAt, ZenonT(60)
<1>3. i \in Nat /\ Len(data) \in Nat /\ i + 1 - 1 = i /\ i + 2 - 1 = i + 1
  BY <1>0
<1>4. (\A j \in 1..2 : data[i + j - 1] = LineBreak[j])
         <=> data[i] = Cr /\ data[i + 1] = Lf
  BY <1>1, <1>3
<1>5. i + 2 <= Len(data) + 1 <=> i < Len(data)
  BY <1>3
<1> QED BY <1>1, <1>2, <1>4, <1>5 DEF AtSplitter

\* What there is at the positions the loop comes to.
LEMMA PartIs ==
    ASSUME FormTypes, data = Part(sent)
    PROVE  /\ Len(data) \in Nat /\ Len(data) >= 12
           /\ data[1] = Cr /\ data[2] = Lf /\ data[3] = Letter
           /\ data[4] = Cr /\ data[5] = Lf /\ data[6] = Letter
           /\ data[7] = Cr /\ data[8] = Lf /\ data[9] = Cr /\ data[10] = Lf
           /\ data[Len(data) - 1] = Cr /\ data[Len(data)] = Lf
<1> DEFINE n == Len(sent)
           P == Part(sent)
<1>0. sent \in Seq(FileBytes) /\ n \in Nat
  BY DEF FormTypes
<1>1. /\ Len(P) = n + 12
      /\ P[1] = Cr /\ P[2] = Lf /\ P[3] = Letter
      /\ P[4] = Cr /\ P[5] = Lf /\ P[6] = Letter
      /\ P[7] = Cr /\ P[8] = Lf /\ P[9] = Cr /\ P[10] = Lf
      /\ P[n + 11] = Cr /\ P[n + 12] = Lf
  BY <1>0, PartBytes
<1>2. data = P
  OBVIOUS
<1> HIDE DEF n, P
<1>3. Len(data) - 1 = n + 11 /\ Len(data) = n + 12
  BY <1>0, <1>1, <1>2
<1> QED BY <1>0, <1>1, <1>2, <1>3

\* A cut comes to the next position of PartTurn.
LEMMA PartEndPart ==
    ASSUME FormTypes, LoopInv, PartTurn, EndPart
    PROVE  PartTurn'
<1> DEFINE m == Len(data)
           k == Len(parts)
<1>0. /\ data \in Seq(Bytes) /\ i \in 1..m /\ m \in Nat /\ m >= 12
      /\ current \in Seq(Bytes) /\ parts \in Seq(Seq(Bytes)) /\ k \in Nat
      /\ LineBreak \in Seq(Bytes) /\ Len(LineBreak) = 2
  <2>1. LineBreak \in Seq(Bytes) /\ Len(LineBreak) = 2
    BY LineBreakIs DEF LineBreak
  <2>2. m >= 12
    BY PartIs DEF PartTurn
  <2>3. /\ data \in Seq(Bytes) /\ i \in 1..(m + 1) /\ i <= m
        /\ current \in Seq(Bytes) /\ parts \in Seq(Seq(Bytes))
    BY DEF FormTypes, LoopTypes, EndPart
  <2> QED BY <2>1, <2>2, <2>3
<1>1. /\ AtSplitter /\ i <= m
      /\ parts' = Append(parts, current) /\ current' = <<>> /\ i' = i + 2
      /\ data' = data /\ splitter' = splitter /\ sent' = sent
      /\ data = Part(sent) /\ splitter = LineBreak
  BY <1>0 DEF EndPart, PartTurn, AfterSplitter
<1>2. i < m /\ data[i] = Cr /\ data[i + 1] = Lf
  BY <1>1, AtLineBreak
<1>3. i' # m
  <2>1. i + 1 # m - 1
    BY <1>1, <1>2, PartIs, BytesDiffer
  <2> QED BY <1>0, <1>1, <2>1
<1>4. Len(parts') = k + 1
  BY <1>0, <1>1
<1> HIDE DEF m, k
<1>5. CASE <<i, k>> \in HeaderTurns
  <2>1. i \in {1, 4, 7, 9}
    <3>1. data[3] = Letter /\ data[6] = Letter
      BY <1>1, PartIs
    <3>2. i # 3 /\ i # 6
      BY <1>2, <3>1, BytesDiffer
    <3> QED BY <1>0, <1>5, <3>2 DEF HeaderTurns
  <2>2. i' # m + 1
    BY <1>0, <1>1, <2>1
  <2>3. CASE i \in {1, 4, 7}
    <3>1. <<i', k + 1>> \in HeaderTurns
      BY <1>0, <1>1, <1>5, <2>3 DEF HeaderTurns
    <3> QED BY <1>1, <1>3, <1>4, <2>2, <3>1 DEF PartTurn, m
  <2>4. CASE i = 9
    <3>1. k = 3 /\ i' = 11 /\ Len(parts') = 4
      BY <1>0, <1>1, <1>4, <1>5, <2>4 DEF HeaderTurns
    <3>2. parts' \in Seq(Seq(Bytes))
      BY <1>0, <1>1
    <3>3. SubSeq(parts', 5, 4) = <<>> /\ SubSeq(data, 11, 10) = <<>>
      BY <1>0, <3>2
    <3>4. Join(Append(<<>>, <<>>), LineBreak) = <<>>
      <4>1. <<>> \in Seq(Seq(Bytes)) /\ <<>> \in Seq(Bytes)
        OBVIOUS
      <4> QED BY <1>0, <4>1, JoinAppend
    <3>5. FileSoFar' = SubSeq(data', 11, i' - 1)
      <4>1. i' - 1 = 10 /\ HeaderLines + 1 = 5
        BY <3>1 DEF HeaderLines
      <4>2. FileSoFar' = Join(Append(SubSeq(parts', 5, 4), <<>>), LineBreak)
        BY <1>1, <3>1, <4>1 DEF FileSoFar, HeaderLines
      <4> QED BY <1>1, <3>3, <3>4, <4>1, <4>2
    <3> QED BY <1>1, <1>3, <2>2, <3>1, <3>5 DEF PartTurn, m
  <2> QED BY <2>1, <2>3, <2>4
<1>6. CASE /\ i >= 11 /\ k >= 4
           /\ FileSoFar = SubSeq(data, 11, i - 1)
  <2> DEFINE q == SubSeq(parts, 5, k)
  <2>1. q \in Seq(Seq(Bytes)) /\ SubSeq(Append(parts, current), 5, k + 1) = Append(q, current)
    <3>1. 5 \in Nat /\ 5 >= 1 /\ 5 <= Len(parts) + 1
      BY <1>0, <1>6 DEF k
    <3> QED BY <1>0, <3>1, TailOfAppend DEF k
  <2>2. FileSoFar = Join(Append(q, current), LineBreak)
    BY DEF FileSoFar, HeaderLines, k
  <2> HIDE DEF q
  <2>3. FileSoFar' = Join(Append(Append(q, current), <<>>), LineBreak)
    <3>1. FileSoFar' = Join(Append(SubSeq(parts', 5, Len(parts')), current'), LineBreak)
      <4>1. HeaderLines + 1 = 5
        BY DEF HeaderLines
      <4> QED BY <4>1 DEF FileSoFar, HeaderLines
    <3>2. SubSeq(parts', 5, Len(parts')) = Append(q, current)
      BY <1>1, <1>4, <2>1
    <3> QED BY <1>1, <3>1, <3>2
  <2>4. FileSoFar' = FileSoFar \o LineBreak
    BY <1>0, <2>1, <2>2, <2>3, JoinEnd
  <2>5. SubSeq(data, 11, i - 1) \o LineBreak = SubSeq(data, 11, i + 1)
    <3>1. 11 \in 1..i /\ i \in 1..(Len(data) + 1) /\ StartsWith(data, i, LineBreak)
      BY <1>0, <1>1, <1>6 DEF AtSplitter, m
    <3>2. SubSeq(data, 11, i - 1) \o LineBreak
             = SubSeq(data, 11, i + Len(LineBreak) - 1)
      BY <1>0, <3>1, BytesThen
    <3>3. i + Len(LineBreak) - 1 = i + 1
      BY <1>0
    <3> QED BY <3>2, <3>3
  <2>6. i' - 1 = i + 1 /\ i' >= 11 /\ Len(parts') >= 5
    BY <1>0, <1>1, <1>4, <1>6
  <2>7. FileSoFar' = SubSeq(data', 11, i' - 1)
    BY <1>1, <1>6, <2>4, <2>5, <2>6
  <2>8. Len(parts') >= 4
    BY <1>0, <1>4, <1>6
  <2> QED BY <1>1, <1>3, <2>6, <2>7, <2>8 DEF PartTurn, m
<1> QED BY <1>5, <1>6 DEF PartTurn, k

\* So does one more byte.
LEMMA PartPushByte ==
    ASSUME FormTypes, PartTurn, PushByte
    PROVE  PartTurn'
<1> DEFINE m == Len(data)
           d == data[i]
<1>0. /\ data \in Seq(Bytes) /\ i \in 1..m /\ m \in Nat /\ m >= 12 /\ d \in Bytes
      /\ current \in Seq(Bytes) /\ parts \in Seq(Seq(Bytes)) /\ Len(parts) \in Nat
      /\ LineBreak \in Seq(Bytes)
  <2>1. LineBreak \in Seq(Bytes)
    BY LineBreakIs
  <2>2. m >= 12
    BY PartIs DEF PartTurn
  <2>3. /\ data \in Seq(Bytes) /\ i \in 1..(m + 1) /\ i <= m
        /\ current \in Seq(Bytes) /\ parts \in Seq(Seq(Bytes))
    BY DEF FormTypes, LoopTypes, PushByte
  <2> QED BY <2>1, <2>2, <2>3
<1>1. /\ ~AtSplitter /\ i <= m
      /\ current' = Append(current, d) /\ i' = i + 1
      /\ data' = data /\ splitter' = splitter /\ sent' = sent /\ parts' = parts
      /\ data = Part(sent) /\ splitter = LineBreak
  BY DEF PushByte, PartTurn
<1>2. ~(i < m /\ data[i] = Cr /\ data[i + 1] = Lf)
  BY <1>1, AtLineBreak
<1>3. i # m
  BY DEF PartTurn
<1>4. i' # m /\ i' # m + 1
  <2>1. i # m - 1
    <3>1. data[m - 1] = Cr /\ data[m] = Lf /\ m - 1 < m /\ (m - 1) + 1 = m
      BY <1>0, <1>1, PartIs
    <3> QED BY <1>2, <3>1
  <2> QED BY <1>0, <1>1, <1>3, <2>1
<1> HIDE DEF m, d
<1>5. CASE <<i, Len(parts)>> \in HeaderTurns
  <2>1. i \in {3, 6}
    <3>1. /\ data[1] = Cr /\ data[2] = Lf /\ data[4] = Cr /\ data[5] = Lf
          /\ data[7] = Cr /\ data[8] = Lf /\ data[9] = Cr /\ data[10] = Lf
      BY <1>1, PartIs
    <3>2. i # 1 /\ i # 4 /\ i # 7 /\ i # 9
      BY <1>0, <1>2, <3>1
    <3> QED BY <1>0, <1>5, <3>2 DEF HeaderTurns
  <2>2. <<i', Len(parts')>> \in HeaderTurns
    BY <1>0, <1>1, <1>5, <2>1 DEF HeaderTurns
  <2> QED BY <1>1, <1>4, <2>2 DEF PartTurn, m
<1>6. CASE /\ i >= 11 /\ Len(parts) >= 4
           /\ FileSoFar = SubSeq(data, 11, i - 1)
  <2> DEFINE q == SubSeq(parts, 5, Len(parts))
  <2>1. q \in Seq(Seq(Bytes))
    BY <1>0
  <2> HIDE DEF q
  <2>2. /\ FileSoFar = Join(Append(q, current), LineBreak)
        /\ FileSoFar' = Join(Append(q, Append(current, d)), LineBreak)
    BY <1>1 DEF FileSoFar, HeaderLines, q
  <2>3. FileSoFar' = Append(FileSoFar, d)
    <3>1. Join(Append(q, Append(current, d)), LineBreak)
             = Append(Join(Append(q, current), LineBreak), d)
      BY <1>0, <2>1, JoinPush
    <3> QED BY <2>2, <3>1
  <2>4. Append(SubSeq(data, 11, i - 1), d) = SubSeq(data, 11, i)
    BY <1>0, <1>6 DEF d, m
  <2>5. i' - 1 = i /\ i' >= 11
    BY <1>0, <1>1, <1>6
  <2>6. FileSoFar' = SubSeq(data', 11, i' - 1)
    BY <1>1, <1>6, <2>3, <2>4, <2>5
  <2> QED BY <1>1, <1>4, <1>6, <2>5, <2>6 DEF PartTurn, m
<1> QED BY <1>5, <1>6 DEF PartTurn

\* At the end of the loop there are lines enough, and the file is joined.
LEMMA FileIsJoined ==
    ASSUME FormTypes, PartTurn, i > Len(data)
    PROVE  /\ Len(AllParts) >= HeaderLines
           /\ Join(Pop(SubSeq(AllParts, HeaderLines + 1, Len(AllParts))), LineBreak) = sent
<1> DEFINE k == Len(parts)
           q == SubSeq(parts, 5, k)
           m == Len(data)
           n == Len(sent)
<1>0. /\ data \in Seq(Bytes) /\ m \in Nat /\ m >= 12 /\ i = m + 1
      /\ parts \in Seq(Seq(Bytes)) /\ k \in Nat /\ k >= 5 /\ current = <<>>
      /\ AllParts = Append(parts, <<>>)
      /\ FileSoFar = SubSeq(data, 11, m)
  <2>1. m \in Nat /\ m >= 12 /\ i \in 1..(m + 1)
    BY PartIs DEF PartTurn, FormTypes, LoopTypes
  <2>2. i = m + 1 /\ i - 1 = m
    BY <2>1
  <2>3. i \notin {1, 3, 4, 6, 7, 9}
    BY <2>1, <2>2
  <2>4. FileSoFar = SubSeq(data, 11, i - 1)
    BY <2>3 DEF PartTurn, HeaderTurns
  <2>5. current = <<>> /\ k >= 5
    BY <2>2 DEF PartTurn
  <2> QED BY <2>1, <2>2, <2>4, <2>5 DEF FormTypes, LoopTypes, AllParts
<1>1. /\ q \in Seq(Seq(Bytes)) /\ q # <<>>
      /\ SubSeq(AllParts, 5, Len(AllParts)) = Append(q, <<>>)
      /\ Len(AllParts) >= 4
  <2>0. 5 \in Nat /\ 5 >= 1 /\ 5 <= Len(parts) + 1 /\ <<>> \in Seq(Bytes)
    BY <1>0
  <2>1. /\ q \in Seq(Seq(Bytes)) /\ Len(q) = k + 1 - 5
        /\ SubSeq(Append(parts, <<>>), 5, k + 1) = Append(q, <<>>)
    BY <1>0, <2>0, TailOfAppend
  <2>2. Len(AllParts) = k + 1
    BY <1>0
  <2> HIDE DEF q, k
  <2>3. Len(q) # 0
    BY <1>0, <2>1
  <2>4. q # <<>>
    <3>1. Len(<<>>) = 0
      OBVIOUS
    <3> QED BY <2>3, <3>1
  <2>5. Len(AllParts) >= 4
    BY <1>0, <2>2
  <2>6. SubSeq(AllParts, 5, Len(AllParts)) = Append(q, <<>>)
    BY <1>0, <2>1, <2>2
  <2> QED BY <2>1, <2>4, <2>5, <2>6
<1>2. FileSoFar = Join(Append(q, <<>>), LineBreak)
  BY <1>0 DEF FileSoFar, HeaderLines
<1> HIDE DEF q
<1>3. Pop(Append(q, <<>>)) = q
  <2> DEFINE r == Append(q, <<>>)
  <2>1. r \in Seq(Seq(Bytes)) /\ Len(r) = Len(q) + 1 /\ Len(q) \in Nat
    BY <1>1
  <2>2. r # <<>>
    <3> HIDE DEF r
    <3>1. Len(<<>>) = 0 /\ Len(r) # 0
      BY <2>1
    <3> QED BY <3>1
  <2>3. SubSeq(r, 1, Len(r) - 1) = q
    <3>1. Len(r) - 1 = Len(q)
      BY <2>1
    <3>2. SubSeq(Append(q, <<>>), 1, Len(q)) = q
      BY <1>1
    <3> QED BY <3>1, <3>2
  <2> HIDE DEF r
  <2>4. Pop(r) = q
    BY <2>2, <2>3 DEF Pop, Front
  <2> QED BY <2>4 DEF r
<1>4. Join(q, LineBreak) \in Seq(Bytes)
  BY <1>1, LineBreakIs, JoinIsSeq
<1>5. Join(q, LineBreak) \o LineBreak = SubSeq(data, 11, m)
  <2>1. <<>> \in Seq(Bytes)
    OBVIOUS
  <2>2. Join(Append(q, <<>>), LineBreak) =
           IF q = <<>> THEN <<>> ELSE Join(q, LineBreak) \o LineBreak \o <<>>
    BY <1>1, <2>1, LineBreakIs, JoinAppend
  <2> DEFINE x == Join(q, LineBreak) \o LineBreak
  <2>3. x \in Seq(Bytes)
    BY <1>4, LineBreakIs
  <2> HIDE DEF x
  <2>4. x \o <<>> = x
    BY <2>3
  <2> QED BY <1>0, <1>1, <1>2, <2>2, <2>4 DEF x
<1>6. SubSeq(data, 11, m) = sent \o LineBreak
  <2> DEFINE a == SubSeq(data, 11, m)
             b == sent \o LineBreak
  <2>1. /\ sent \in Seq(FileBytes) /\ n \in Nat /\ m = n + 12 /\ data = Part(sent)
        /\ \A j \in 1..n : data[10 + j] = sent[j]
        /\ data[n + 11] = Cr /\ data[n + 12] = Lf
        /\ data \in Seq(FileBytes)
    <3> DEFINE P == Part(sent)
    <3>1. sent \in Seq(FileBytes) /\ data = P
      BY DEF PartTurn, FormTypes
    <3>2. /\ Len(P) = n + 12 /\ P \in Seq(FileBytes)
          /\ \A j \in 1..n : P[10 + j] = sent[j]
          /\ P[n + 11] = Cr /\ P[n + 12] = Lf
      BY <3>1, PartBytes
    <3>3. n \in Nat
      BY <3>1
    <3> HIDE DEF P
    <3> QED BY <3>1, <3>2, <3>3 DEF P
  <2>2. /\ LineBreak \in Seq(FileBytes) /\ Len(LineBreak) = 2
        /\ LineBreak[1] = Cr /\ LineBreak[2] = Lf
    BY LineBreakIs DEF LineBreak
  <2>3. /\ a \in Seq(FileBytes) /\ Len(a) = n + 2
        /\ \A j \in 1..(n + 2) : a[j] = data[10 + j]
    <3> HIDE DEF m, n
    <3>1. a \in Seq(FileBytes) /\ Len(a) = m - 10
      BY <1>0, <2>1 DEF m
    <3>2. \A j \in 1..(m - 10) : a[j] = data[11 + j - 1]
      BY <1>0, <2>1 DEF m
    <3>3. \A j \in 1..(m - 10) : 11 + j - 1 = 10 + j
      BY <1>0
    <3> QED BY <1>0, <2>1, <3>1, <3>2, <3>3
  <2>4. /\ b \in Seq(FileBytes) /\ Len(b) = n + 2
        /\ \A j \in 1..n : b[j] = sent[j]
        /\ b[n + 1] = Cr /\ b[n + 2] = Lf
    <3>1. /\ b \in Seq(FileBytes) /\ Len(b) = Len(sent) + Len(LineBreak)
          /\ \A j \in 1..Len(sent) : b[j] = sent[j]
          /\ \A j \in 1..Len(LineBreak) : b[Len(sent) + j] = LineBreak[j]
      BY <2>1, <2>2, Concat
    <3> HIDE DEF b
    <3>2. 1 \in 1..2 /\ 2 \in 1..2
      OBVIOUS
    <3> QED BY <2>1, <2>2, <3>1, <3>2
  <2> HIDE DEF a, b, m, n
  <2>5. ASSUME NEW j \in 1..(n + 2) PROVE a[j] = b[j]
    <3>1. CASE j \in 1..n
      BY <2>1, <2>3, <2>4, <3>1
    <3>2. CASE j = n + 1
      <4>1. 10 + (n + 1) = n + 11 /\ n + 1 \in 1..(n + 2)
        BY <2>1
      <4> QED BY <2>1, <2>3, <2>4, <3>2, <4>1
    <3>3. CASE j = n + 2
      <4>1. 10 + (n + 2) = n + 12 /\ n + 2 \in 1..(n + 2)
        BY <2>1
      <4> QED BY <2>1, <2>3, <2>4, <3>3, <4>1
    <3> QED BY <2>1, <3>1, <3>2, <3>3
  <2>6. a = b
    BY <2>3, <2>4, <2>5
  <2> QED BY <2>6 DEF a, b
<1>7. Join(q, LineBreak) = sent
  <2> DEFINE x == Join(q, LineBreak)
  <2>1. x \o LineBreak = sent \o LineBreak
    BY <1>5, <1>6
  <2>2. x \in Seq(Bytes) /\ sent \in Seq(Bytes) /\ LineBreak \in Seq(Bytes)
    BY <1>4, LineBreakIs, BoundaryTypes DEF FormTypes
  <2> HIDE DEF x
  <2>3. x = sent
    BY <2>1, <2>2, Cancel
  <2> QED BY <2>3 DEF x
<1>8. HeaderLines = 4 /\ HeaderLines + 1 = 5
  BY DEF HeaderLines
<1> QED BY <1>1, <1>3, <1>7, <1>8

-----------------------------------------------------------------------------
(***************************************************************************)
(* The whole parser.                                                       *)
(***************************************************************************)
\* Where the loop is in a request without a boundary: it cuts nothing.
BytesTurn ==
    /\ data = sent
    /\ splitter = Delimiter(NoBoundary)
    /\ parts = <<>>

\* The invariant of the whole parser.
FileInv ==
    /\ kind = "file" =>
          /\ ~Occurs(D, sent)
          /\ pc \in {"start", "split_body", "split_part", "done"}
          /\ pc = "split_body" => BodyTurn
          /\ pc = "split_part" => PartTurn
          /\ pc = "done" => got = sent
    /\ kind = "bytes" =>
          /\ pc \in {"start", "split_body", "no_file"}
          /\ pc = "split_body" => BytesTurn

\* "no-boundary" has a byte that is not in the files.
LEMMA NoBoundaryByte ==
    \E k \in 1..Len(NoBoundary) : NoBoundary[k] \notin FileBytes
<1>1. SUFFICES ASSUME \A k \in 1..Len(NoBoundary) : NoBoundary[k] \in FileBytes
               PROVE  NoBoundary \in Seq(FileBytes)
  BY FormsAssumption
<1>2. NoBoundary \in Seq(Bytes)
  BY BoundaryTypes
<1> QED BY <1>1, <1>2

\* Without a boundary in the header the loop never cuts.
LEMMA NotAtNoBoundary ==
    ASSUME FormTypes, BytesTurn, i <= Len(data)
    PROVE  ~AtSplitter
<1> DEFINE dashes == <<Dash, Dash>>
           by == Delimiter(NoBoundary)
<1>0. /\ data \in Seq(FileBytes) /\ data \in Seq(Bytes) /\ i \in 1..(Len(data) + 1)
      /\ by \in Seq(Bytes) /\ NoBoundary \in Seq(Bytes) /\ splitter = by
  BY BoundaryTypes DEF FormTypes, LoopTypes, BytesTurn
<1>1. PICK k \in 1..Len(NoBoundary) : NoBoundary[k] \notin FileBytes
  BY NoBoundaryByte
<1>2. dashes \in Seq(Bytes) /\ Len(dashes) = 2
  BY DEF FileBytes, Bytes
<1>3. by = dashes \o NoBoundary
  BY DEF Delimiter
<1> HIDE DEF dashes, by
<1>4. Len(by) = 2 + Len(NoBoundary) /\ by[2 + k] = NoBoundary[k]
  <2>1. /\ Len(dashes \o NoBoundary) = Len(dashes) + Len(NoBoundary)
        /\ \A j \in 1..Len(NoBoundary) :
              (dashes \o NoBoundary)[Len(dashes) + j] = NoBoundary[j]
    <3>0. dashes \in Seq(Bytes) /\ NoBoundary \in Seq(Bytes)
      BY <1>0, <1>2
    <3>1. Len(dashes \o NoBoundary) = Len(dashes) + Len(NoBoundary)
      BY <3>0
    <3>2. \A j \in 1..Len(NoBoundary) :
              (dashes \o NoBoundary)[Len(dashes) + j] = NoBoundary[j]
      BY <3>0
    <3> QED BY <3>1, <3>2
  <2> QED BY <1>1, <1>2, <1>3, <2>1
<1>5. 2 + k \in 1..Len(by)
  BY <1>0, <1>1, <1>4
<1>6. StartsWith(data, i, by) <=>
         /\ i + Len(by) <= Len(data) + 1
         /\ \A j \in 1..Len(by) : data[i + j - 1] = by[j]
  BY <1>0, StartsAt
<1>7. ASSUME StartsWith(data, i, by) PROVE FALSE
  <2>1. data[i + (2 + k) - 1] = by[2 + k] /\ i + Len(by) <= Len(data) + 1
    BY <1>5, <1>6, <1>7
  <2>2. i + (2 + k) - 1 \in 1..Len(data)
    BY <1>0, <1>5, <2>1
  <2>3. data[i + (2 + k) - 1] \in FileBytes
    BY <1>0, <2>2
  <2> QED BY <1>1, <1>4, <2>1, <2>3
<1> QED BY <1>0, <1>7 DEF AtSplitter

\* retain of a single part.
LEMMA RetainOne ==
    ASSUME NEW S, NEW a \in Seq(S)
    PROVE  Retain(<<a>>) \in {<<>>, <<a>>}
<1> DEFINE s == <<a>>
<1>1. s \in Seq(Seq(S)) /\ Len(s) = 1 /\ s[1] = a
  OBVIOUS
<1> HIDE DEF s
<1>2. \E g : RetainTable(S, s, g)
  BY <1>1, RetainTurns
<1>3. PICK g : /\ g[0] = <<>>
               /\ \A k \in 1..1 :
                     g[k] = IF s[k] = <<>> THEN g[k - 1] ELSE Append(g[k - 1], s[k])
               /\ Retain(s) = g[1]
  BY <1>1, <1>2 DEF RetainTable
<1>4. g[1] = IF a = <<>> THEN <<>> ELSE Append(<<>>, a)
  <2>1. 1 \in 1..1 /\ 1 - 1 = 0
    OBVIOUS
  <2>2. g[1] = IF s[1] = <<>> THEN g[1 - 1] ELSE Append(g[1 - 1], s[1])
    BY <1>3, <2>1
  <2> QED BY <1>1, <1>3, <2>1, <2>2
<1>5. <<a>> = Append(<<>>, a)
  OBVIOUS
<1> QED BY <1>3, <1>4, <1>5 DEF s

\* Then the only part is the last, which is dropped.
LEMMA BytesSplit ==
    ASSUME FormTypes, BytesTurn
    PROVE  FormParts = <<>>
<1>0. current \in Seq(Bytes)
  BY DEF FormTypes, LoopTypes
<1>1. AllParts = <<current>>
  <2>1. <<current>> = Append(<<>>, current)
    OBVIOUS
  <2> QED BY <2>1 DEF AllParts, BytesTurn
<1>2. Retain(AllParts) \in {<<>>, <<current>>}
  <2>1. Retain(<<current>>) \in {<<>>, <<current>>}
    BY <1>0, RetainOne
  <2> QED BY <1>1, <2>1
<1>3. Pop(<<>>) = <<>>
  BY DEF Pop
<1>4. Pop(<<current>>) = <<>>
  <2> DEFINE x == <<current>>
  <2>1. x \in Seq(Seq(Bytes)) /\ Len(x) = 1
    BY <1>0
  <2> HIDE DEF x
  <2>2. SubSeq(x, 1, Len(x) - 1) = <<>>
    BY <2>1
  <2>3. Pop(x) = <<>>
    BY <2>2 DEF Pop, Front
  <2> QED BY <2>3 DEF x
<1> QED BY <1>2, <1>3, <1>4 DEF FormParts

\* FileInv holds at the start, and every step keeps it.
LEMMA FileInvInit == Init => FileInv
BY DEF Init, FileInv, D

\* The cut of the body starts at a position of BodyTurn.
LEMMA StartFile ==
    ASSUME FormTypes, FileInv, Start
    PROVE  FileInv'
<1>0. /\ kind \in {"file", "bytes"} /\ pc' = "split_body"
      /\ Split(IF kind = "file" THEN FileForm(sent) ELSE sent,
               Delimiter(BoundaryOf(ContentType)))
      /\ UNCHANGED <<sent, kind>>
  BY DEF FormTypes, Start
<1>1. CASE kind = "file"
  <2>1. BoundaryOf(ContentType) = Boundary
    BY <1>1, BoundaryIs
  <2>2. data' = FileForm(sent) /\ splitter' = D /\ i' = 1 /\ parts' = <<>>
    BY <1>0, <1>1, <2>1 DEF Split, D
  <2>3. BodyTurn'
    BY <1>0, <2>2 DEF BodyTurn, D
  <2>4. ~Occurs(D, sent)'
    BY <1>0, <1>1 DEF FileInv, D
  <2> QED BY <1>0, <1>1, <2>3, <2>4 DEF FileInv
<1>2. CASE kind = "bytes"
  <2>1. BoundaryOf(ContentType) = NoBoundary
    BY <1>2, BoundaryIs
  <2>2. data' = sent /\ splitter' = Delimiter(NoBoundary) /\ parts' = <<>>
    BY <1>0, <1>2, <2>1 DEF Split
  <2>3. BytesTurn'
    BY <1>0, <2>2 DEF BytesTurn
  <2> QED BY <1>0, <1>2, <2>3 DEF FileInv
<1> QED BY <1>0, <1>1, <1>2

\* Both loops go on at their positions.
LEMMA LoopFile ==
    ASSUME FormTypes, LoopInv, FileInv, EndPart \/ PushByte
    PROVE  FileInv'
<1>0. UNCHANGED <<sent, kind, pc, data, splitter, got>> /\ Splitting /\ i <= Len(data)
  BY DEF EndPart, PushByte
<1>1. CASE kind = "file" /\ pc = "split_body"
  <2>1. BodyTurn /\ ~Occurs(D, sent)
    BY <1>1 DEF FileInv
  <2>2. BodyTurn'
    BY <2>1, BodyEndPart, BodyPushByte
  <2>3. ~Occurs(D, sent)'
    BY <1>0, <2>1 DEF D
  <2> QED BY <1>0, <1>1, <2>2, <2>3 DEF FileInv
<1>2. CASE kind = "file" /\ pc = "split_part"
  <2>1. PartTurn /\ ~Occurs(D, sent)
    BY <1>2 DEF FileInv
  <2>2. PartTurn'
    BY <2>1, PartEndPart, PartPushByte
  <2>3. ~Occurs(D, sent)'
    BY <1>0, <2>1 DEF D
  <2> QED BY <1>0, <1>2, <2>2, <2>3 DEF FileInv
<1>3. CASE kind = "bytes"
  <2>1. pc = "split_body" /\ BytesTurn
    BY <1>0, <1>3 DEF FileInv, Splitting
  <2>2. ~AtSplitter
    BY <1>0, <2>1, NotAtNoBoundary
  <2>3. parts' = parts
    BY <2>2 DEF EndPart, PushByte
  <2>4. BytesTurn'
    BY <1>0, <2>1, <2>3 DEF BytesTurn
  <2> QED BY <1>0, <1>3, <2>1, <2>4 DEF FileInv
<1>4. CASE kind = "text"
  BY <1>0, <1>4 DEF FileInv
<1> QED BY <1>0, <1>1, <1>2, <1>3, <1>4 DEF FormTypes, Splitting

\* The cut of the part starts at a position of PartTurn.
LEMMA FirstPartFile ==
    ASSUME FormTypes, FileInv, FirstPart
    PROVE  FileInv'
<1>0. /\ pc = "split_body" /\ i > Len(data) /\ FormParts # <<>> /\ pc' = "split_part"
      /\ Split(Head(FormParts), LineBreak)
      /\ UNCHANGED <<sent, kind>>
  BY DEF FirstPart
<1>1. kind # "bytes"
  BY <1>0, BytesSplit DEF FileInv
<1>2. CASE kind = "file"
  <2>1. FormParts = << Part(sent) >>
    BY <1>0, <1>2, BodySplit DEF FileInv
  <2>2. Head(FormParts) = Part(sent)
    BY <2>1
  <2>3. /\ data' = Part(sent) /\ splitter' = LineBreak /\ i' = 1
        /\ current' = <<>> /\ parts' = <<>> /\ sent' = sent
    BY <1>0, <2>2 DEF Split
  <2>4. Len(data') \in Nat /\ Len(data') >= 12
    <3>1. sent \in Seq(FileBytes) /\ Len(sent) \in Nat
      BY DEF FormTypes
    <3>2. Len(Part(sent)) = Len(sent) + 12
      BY <3>1, PartBytes
    <3> QED BY <2>3, <3>1, <3>2
  <2>5. i' # Len(data') /\ i' # Len(data') + 1
    <3> DEFINE m == Len(data')
    <3>1. i' = 1 /\ m \in Nat /\ m >= 12
      BY <2>3, <2>4
    <3> HIDE DEF m
    <3>2. i' # m /\ i' # m + 1
      BY <3>1
    <3> QED BY <3>2 DEF m
  <2>6. <<i', Len(parts')>> \in HeaderTurns
    BY <2>3 DEF HeaderTurns
  <2>7. PartTurn'
    <3>1. data' = Part(sent')
      BY <2>3
    <3> QED BY <2>3, <2>5, <2>6, <3>1 DEF PartTurn, LineBreak, Part, Headers
  <2>8. ~Occurs(D, sent)'
    BY <1>0, <1>2 DEF FileInv, D
  <2> QED BY <1>0, <1>2, <2>7, <2>8 DEF FileInv
<1>3. CASE kind = "text"
  BY <1>0, <1>3 DEF FileInv
<1> QED BY <1>1, <1>2, <1>3 DEF FormTypes

\* What is joined at the end is the file that was sent.
LEMMA EndFile ==
    ASSUME FormTypes, FileInv, FileOfPart
    PROVE  FileInv'
<1>0. /\ pc = "split_part" /\ i > Len(data)
      /\ pc' = IF Len(AllParts) < HeaderLines THEN "panicked" ELSE "done"
      /\ got' = Join(Pop(SubSeq(AllParts, HeaderLines + 1, Len(AllParts))), LineBreak)
      /\ UNCHANGED <<sent, kind>>
  BY DEF FileOfPart
<1>1. kind # "bytes"
  BY <1>0 DEF FileInv
<1>2. CASE kind = "file"
  <2>1. PartTurn /\ ~Occurs(D, sent)
    BY <1>0, <1>2 DEF FileInv
  <2>2. /\ Len(AllParts) >= HeaderLines
        /\ Join(Pop(SubSeq(AllParts, HeaderLines + 1, Len(AllParts))), LineBreak) = sent
    BY <1>0, <2>1, FileIsJoined
  <2>3. ~(Len(AllParts) < HeaderLines)
    <3>1. Len(AllParts) \in Nat /\ HeaderLines \in Nat
      BY DEF FormTypes, LoopTypes, AllParts, HeaderLines
    <3> QED BY <2>2, <3>1
  <2>4. pc' = "done" /\ got' = sent'
    BY <1>0, <2>2, <2>3
  <2>5. ~Occurs(D, sent)'
    BY <1>0, <2>1 DEF D
  <2> QED BY <1>0, <1>2, <2>4, <2>5 DEF FileInv
<1>3. CASE kind = "text"
  BY <1>0, <1>3 DEF FileInv
<1> QED BY <1>1, <1>2, <1>3 DEF FormTypes

LEMMA FileInvStep == SplitInv /\ FileInv /\ [Next]_vars => FileInv'
<1> SUFFICES ASSUME SplitInv, FileInv, [Next]_vars PROVE FileInv'
  OBVIOUS
<1>0. FormTypes
  BY DEF SplitInv
<1>1. CASE Start
  BY <1>0, <1>1, StartFile
<1>2. CASE EndPart \/ PushByte
  <2>1. LoopInv
    BY <1>2 DEF EndPart, PushByte, SplitInv
  <2> QED BY <1>0, <1>2, <2>1, LoopFile
<1>3. CASE NoFile
  <2>1. /\ pc = "split_body" /\ i > Len(data) /\ FormParts = <<>> /\ pc' = "no_file"
        /\ UNCHANGED <<sent, kind>>
    BY <1>3 DEF NoFile
  <2>2. kind # "file"
    <3>1. ASSUME kind = "file" PROVE FALSE
      <4>1. FormParts = << Part(sent) >>
        BY <1>0, <2>1, <3>1, BodySplit DEF FileInv
      <4>2. << Part(sent) >> # <<>>
        OBVIOUS
      <4> QED BY <2>1, <4>1, <4>2
    <3> QED BY <3>1
  <2> QED BY <1>0, <2>1, <2>2 DEF FileInv
<1>4. CASE FirstPart
  BY <1>0, <1>4, FirstPartFile
<1>5. CASE FileOfPart
  BY <1>0, <1>5, EndFile
<1>6. CASE EditForm
  <2>1. kind = "text" /\ kind' = kind
    BY <1>6 DEF EditForm
  <2> QED BY <2>1 DEF FileInv
<1>7. CASE UNCHANGED vars
  BY <1>7 DEF FileInv, BodyTurn, PartTurn, BytesTurn, FileSoFar, vars, loop
<1> QED BY <1>1, <1>2, <1>3, <1>4, <1>5, <1>6, <1>7 DEF Next

\* A file of any length, with any bytes the form can carry, is returned by
\* extract_file_from_request byte for byte; a request without a boundary is
\* refused, and nothing panics.
THEOREM FilesArrive == Spec => []FileArrives
<1>1. Init => SplitInv /\ FileInv
  BY SplitInvInit, FileInvInit
<1>2. SplitInv /\ FileInv /\ [Next]_vars => (SplitInv /\ FileInv)'
  BY SplitInvStep, FileInvStep
<1>3. SplitInv /\ FileInv => FileArrives
  BY DEF SplitInv, FormTypes, FileInv, FileArrives, Ended
<1> QED BY <1>1, <1>2, <1>3, PTL DEF Spec
=============================================================================
