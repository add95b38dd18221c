---------------------------- MODULE DataTheorems ----------------------------
(***************************************************************************)
(* Facts about the data of the models, which several of the proofs need:   *)
(* what merging two verdicts gives, that a verdict survives being stored,  *)
(* and what "the most severe" is; then induction over finite sets, stated  *)
(* for a set of numbers, or of sets, instead of for a predicate, and what  *)
(* it says of sums over them; last, that a fold over the indexes of a      *)
(* sequence exists, which is what a loop over the sequence computes.       *)
(***************************************************************************)
EXTENDS TestingResults, Integers, FiniteSets, FiniteSetsExt, FiniteSetTheorems, TLAPS

\* The first arm that matches is the value of the match: merge is determined
\* by any position that claims the pair while no earlier one does.
LEMMA FirstArm ==
    ASSUME NEW a, NEW b, NEW k \in 1..10,
           Claims(MatchArms[k], a, b),
           \A j \in 1..(k - 1) : ~Claims(MatchArms[j], a, b)
    PROVE  merge_two_testing_results(a, b) = MatchArms[k]
<1> DEFINE First(i) == /\ Claims(MatchArms[i], a, b)
                       /\ \A j \in 1..(i - 1) : ~Claims(MatchArms[j], a, b)
           m == CHOOSE i \in 1..10 : First(i)
<1>1. m \in 1..10 /\ First(m)
  OBVIOUS
<1> HIDE DEF m
<1>2. m = k
  <2>1. ~(m < k)
    BY <1>1
  <2>2. ~(k < m)
    BY <1>1
  <2> QED BY <1>1, <2>1, <2>2
<1> QED BY <1>2 DEF merge_two_testing_results, m

\* Merging keeps the more severe of the two verdicts
\* (merge_two_testing_results, database/submission.rs).
THEOREM MergeIsMoreSevere ==
    ASSUME NEW a \in TestingResult, NEW b \in TestingResult
    PROVE  merge_two_testing_results(a, b) =
               IF Severity[a] >= Severity[b] THEN a ELSE b
<1> DEFINE Result == IF Severity[a] >= Severity[b] THEN a ELSE b
           Rank == [InQueue |-> 1, Compiling |-> 2, Testing |-> 3,
                    CompilationError |-> 4, InternalError |-> 5,
                    Accepted |-> 6, RuntimeError |-> 7, WrongAnswer |-> 8,
                    TimeLimitExceeded |-> 9, MemoryLimitExceeded |-> 10]
<1>1. Result \in {a, b} /\ Rank[Result] \in 1..10 /\ MatchArms[Rank[Result]] = Result
  BY DEF TestingResult, MatchArms
<1>2. Claims(Result, a, b)
  BY DEF Claims, Severity, TestingResult
<1>3. ASSUME NEW j \in 1..(Rank[Result] - 1), Claims(MatchArms[j], a, b)
      PROVE  FALSE
  BY <1>3 DEF Claims, Severity, TestingResult, MatchArms
<1> QED BY <1>1, <1>2, <1>3, FirstArm

\* A verdict survives being stored as an integer and read back
\* (testing_result_to_i32, i32_to_testing_result).
THEOREM RoundTrip ==
    ASSUME NEW r \in TestingResult
    PROVE  i32_to_testing_result(testing_result_to_i32[r]) = r
<1>1. ASSUME NEW q \in TestingResult,
             testing_result_to_i32[q] = testing_result_to_i32[r]
      PROVE  q = r
  BY <1>1 DEF TestingResult, testing_result_to_i32
<1> QED BY <1>1 DEF i32_to_testing_result

\* Any integer read from the database is some verdict.
LEMMA ReadsAVerdict ==
    ASSUME NEW i PROVE i32_to_testing_result(i) \in TestingResult
<1>1. "InternalError" \in TestingResult
  BY DEF TestingResult
<1> QED BY <1>1 DEF i32_to_testing_result

-----------------------------------------------------------------------------
\* What it means for `result` to have absorbed exactly the verdicts of S.
Absorbs(result, S) ==
    /\ result \in S \cup {"Accepted"}
    /\ \A q \in S : Severity[q] <= Severity[result]

LEMMA SeverityOrders ==
    /\ \A q \in TestingResult : Severity[q] \in Int
    /\ \A p, q \in TestingResult : Severity[p] = Severity[q] => p = q
    /\ "Accepted" \in TestingResult
BY DEF Severity, TestingResult

LEMMA AbsorbsIsWorst ==
    ASSUME NEW S \in SUBSET TestingResult, NEW result, Absorbs(result, S)
    PROVE  result = Worst(S)
<1>1. /\ result \in S \cup {"Accepted"}
      /\ \A q \in S \cup {"Accepted"} : Severity[q] <= Severity[result]
  BY DEF Absorbs, Severity, TestingResult
<1>2. /\ Worst(S) \in S \cup {"Accepted"}
      /\ \A q \in S \cup {"Accepted"} : Severity[q] <= Severity[Worst(S)]
  BY <1>1 DEF Worst
<1>3. Worst(S) \in TestingResult /\ result \in TestingResult
  BY <1>1, <1>2, SeverityOrders
<1>4. Severity[Worst(S)] <= Severity[result] /\ Severity[result] <= Severity[Worst(S)]
  BY <1>1, <1>2
<1> QED BY <1>3, <1>4, SeverityOrders

LEMMA AbsorbOne ==
    ASSUME NEW S \in SUBSET TestingResult, NEW r \in TestingResult,
           NEW result \in TestingResult, Absorbs(result, S)
    PROVE  Absorbs(merge_two_testing_results(result, r), S \cup {r})
<1>1. merge_two_testing_results(result, r) =
          IF Severity[result] >= Severity[r] THEN result ELSE r
  BY MergeIsMoreSevere
<1>2. \A q \in TestingResult : Severity[q] \in Int
  BY DEF Severity, TestingResult
<1> QED BY <1>1, <1>2 DEF Absorbs

LEMMA AbsorbAbsorbed ==
    ASSUME NEW S \in SUBSET TestingResult, NEW T \in SUBSET TestingResult,
           NEW result \in TestingResult, Absorbs(result, S),
           NEW r \in TestingResult, Absorbs(r, T)
    PROVE  Absorbs(merge_two_testing_results(result, r), S \cup T)
<1>1. merge_two_testing_results(result, r) =
          IF Severity[result] >= Severity[r] THEN result ELSE r
  BY MergeIsMoreSevere
<1>2. \A q \in TestingResult : Severity[q] \in Int /\ Severity["Accepted"] <= Severity[q]
  BY DEF Severity, TestingResult
<1>3. "Accepted" \in TestingResult
  BY DEF TestingResult
<1>4. CASE Severity[result] >= Severity[r]
  <2>1. merge_two_testing_results(result, r) = result
    BY <1>1, <1>4
  <2>2. \A q \in T : Severity[q] <= Severity[result]
    BY <1>2, <1>4 DEF Absorbs
  <2> QED BY <2>1, <2>2 DEF Absorbs
<1>5. CASE ~(Severity[result] >= Severity[r])
  <2>1. merge_two_testing_results(result, r) = r
    BY <1>1, <1>5
  <2>2. r # "Accepted"
    BY <1>2, <1>5
  <2>3. \A q \in S : Severity[q] <= Severity[r]
    BY <1>2, <1>5 DEF Absorbs
  <2> QED BY <2>1, <2>2, <2>3 DEF Absorbs
<1> QED BY <1>4, <1>5

-----------------------------------------------------------------------------
\* Every set of verdicts has a most severe one, so Worst is well defined.
LEMMA WorstExists ==
    ASSUME NEW S \in SUBSET TestingResult
    PROVE  /\ Worst(S) \in S \cup {"Accepted"}
           /\ \A q \in S \cup {"Accepted"} : Severity[q] <= Severity[Worst(S)]
<1> DEFINE W == S \cup {"Accepted"}
           Best(r) == r \in W /\ \A q \in W : Severity[q] <= Severity[r]
<1>1. \E r \in W : Best(r)
  <2>1. CASE "InQueue" \in S
    BY <2>1 DEF Severity, TestingResult
  <2>2. CASE "InQueue" \notin S /\ "Compiling" \in S
    BY <2>2 DEF Severity, TestingResult
  <2>3. CASE S \cap {"InQueue", "Compiling"} = {} /\ "Testing" \in S
    BY <2>3 DEF Severity, TestingResult
  <2>4. CASE S \cap {"InQueue", "Compiling", "Testing"} = {}
             /\ "CompilationError" \in S
    BY <2>4 DEF Severity, TestingResult
  <2>5. CASE S \cap {"InQueue", "Compiling", "Testing", "CompilationError"} = {}
             /\ "InternalError" \in S
    BY <2>5 DEF Severity, TestingResult
  <2>6. CASE S \subseteq {"Accepted", "MemoryLimitExceeded", "TimeLimitExceeded",
                          "WrongAnswer", "RuntimeError"}
             /\ "RuntimeError" \in S
    BY <2>6 DEF Severity, TestingResult
  <2>7. CASE S \subseteq {"Accepted", "MemoryLimitExceeded", "TimeLimitExceeded",
                          "WrongAnswer"}
             /\ "WrongAnswer" \in S
    BY <2>7 DEF Severity, TestingResult
  <2>8. CASE S \subseteq {"Accepted", "MemoryLimitExceeded", "TimeLimitExceeded"}
             /\ "TimeLimitExceeded" \in S
    BY <2>8 DEF Severity, TestingResult
  <2>9. CASE S \subseteq {"Accepted", "MemoryLimitExceeded"}
             /\ "MemoryLimitExceeded" \in S
    BY <2>9 DEF Severity, TestingResult
  <2>10. CASE S \subseteq {"Accepted"}
    BY <2>10 DEF Severity, TestingResult
  <2> QED
    BY <2>1, <2>2, <2>3, <2>4, <2>5, <2>6, <2>7, <2>8, <2>9, <2>10
    DEF TestingResult
<1> QED BY <1>1 DEF Worst

LEMMA WorstIsAVerdict ==
    ASSUME NEW S \in SUBSET TestingResult PROVE Worst(S) \in TestingResult
BY WorstExists DEF TestingResult

-----------------------------------------------------------------------------

\* A set of naturals closed under successor from 0 on has every number up to
\* n: otherwise the successor would be an injection of a finite set into
\* itself that misses 0.
LEMMA UpTo ==
    ASSUME NEW N \in SUBSET Nat, 0 \in N, \A n \in N : n + 1 \in N,
           NEW n \in Nat
    PROVE  n \in N
<1> SUFFICES ASSUME n \notin N PROVE FALSE
  OBVIOUS
<1> DEFINE U == {k \in 0..n : \A j \in 0..k : j \in N}
           succ == [k \in U |-> k + 1]
<1>1. IsFiniteSet(U)
  <2>1. U \in SUBSET (0..n)
    OBVIOUS
  <2>2. IsFiniteSet(0..n)
    BY FS_Interval
  <2> HIDE DEF U
  <2> QED BY <2>1, <2>2, FS_Subset
<1>2. ASSUME NEW k \in U PROVE k + 1 \in U
  <2>1. k \in N /\ k # n /\ k + 1 \in N
    OBVIOUS
  <2>2. \A j \in 0..(k + 1) : j \in 0..k \/ j = k + 1
    OBVIOUS
  <2> QED BY <2>1, <2>2
<1>3. succ \in Injection(U, U)
  <2>1. succ \in [U -> U]
    BY <1>2
  <2>2. \A a, b \in U : succ[a] = succ[b] => a = b
    OBVIOUS
  <2> QED BY <2>1, <2>2 DEF Injection, IsInjective
<1>4. succ \in Surjection(U, U)
  <2> HIDE DEF succ, U
  <2> QED BY <1>1, <1>3, FS_Injection
<1>5. 0 \in U
  OBVIOUS
<1>6. PICK k \in U : succ[k] = 0
  <2> HIDE DEF succ, U
  <2> QED BY <1>4, <1>5 DEF Surjection
<1> QED BY <1>6

\* A family of finite sets that has the empty set, and with a set T also T
\* with one more element of S, has S.
LEMMA SubsetInduction ==
    ASSUME NEW S, IsFiniteSet(S), NEW F, {} \in F,
           \A T \in SUBSET S : \A x \in S : T \in F /\ x \notin T => T \cup {x} \in F
    PROVE  S \in F
<1> DEFINE N == {n \in Nat : \A T \in SUBSET S : Cardinality(T) = n => T \in F}
<1>1. 0 \in N
  <2> SUFFICES ASSUME NEW T \in SUBSET S, Cardinality(T) = 0 PROVE T \in F
    OBVIOUS
  <2>1. T = {}
    BY FS_Subset, FS_EmptySet
  <2> QED BY <2>1
<1>2. ASSUME NEW n \in N PROVE n + 1 \in N
  <2> SUFFICES ASSUME NEW T \in SUBSET S, Cardinality(T) = n + 1 PROVE T \in F
    OBVIOUS
  <2>1. IsFiniteSet(T)
    BY FS_Subset
  <2>2. T # {}
    BY FS_EmptySet
  <2>3. PICK x \in T : TRUE
    BY <2>2
  <2>4. Cardinality(T \ {x}) = n
    <3>1. Cardinality(T \ {x}) = Cardinality(T) - 1
      BY <2>1, <2>3, FS_RemoveElement
    <3> QED BY <3>1
  <2>5. T \ {x} \in F
    BY <2>4
  <2>6. T = (T \ {x}) \cup {x}
    OBVIOUS
  <2> QED BY <2>5, <2>6
<1>3. Cardinality(S) \in Nat
  BY FS_CardinalityType
<1>4. Cardinality(S) \in N
  <2> HIDE DEF N
  <2>1. N \in SUBSET Nat
    BY DEF N
  <2> QED BY <1>1, <1>2, <1>3, <2>1, UpTo
<1> QED BY <1>4

-----------------------------------------------------------------------------
\* The sum of the values of f over S, as the models compute it.
SumOf(f, S) == MapThenSumSet(LAMBDA x : f[x], S)

\* One unfolding of its recursion, with h for the recursive function.
Unfold(f, h, s) ==
    IF s = {} THEN 0
    ELSE f[CHOOSE x \in s : TRUE] + h[s \ {CHOOSE x \in s : TRUE}]

IsSum(f, S, h) == h = [s \in SUBSET S |-> Unfold(f, h, s)]

LEMMA SumIsChosen ==
    ASSUME NEW f, NEW S
    PROVE  SumOf(f, S) = (CHOOSE h : IsSum(f, S, h))[S]
BY DEF SumOf, MapThenSumSet, MapThenFoldSet, IsSum, Unfold

\* Over a finite set such a function exists: on the subsets of up to n
\* elements, for every n.
LEMMA SumExists ==
    ASSUME NEW f, NEW S, IsFiniteSet(S)
    PROVE  \E h : IsSum(f, S, h)
<1> DEFINE Small(n) == {s \in SUBSET S : Cardinality(s) <= n}
           N == {n \in Nat : \E h : h = [s \in Small(n) |-> Unfold(f, h, s)]}
<1>0. \A s \in SUBSET S : IsFiniteSet(s) /\ Cardinality(s) \in Nat
  BY FS_Subset, FS_CardinalityType
<1>a. ASSUME NEW s \in SUBSET S, s # {}, NEW n \in Nat, Cardinality(s) <= n + 1
      PROVE  s \ {CHOOSE x \in s : TRUE} \in Small(n)
  <2> DEFINE c == CHOOSE x \in s : TRUE
  <2>1. c \in s
    BY <1>a
  <2> HIDE DEF c
  <2>2. Cardinality(s \ {c}) = Cardinality(s) - 1
    BY <1>0, <2>1, FS_RemoveElement
  <2>3. Cardinality(s) \in Nat
    BY <1>0
  <2>4. Cardinality(s \ {c}) <= n
    BY <1>a, <2>2, <2>3
  <2> QED BY <2>4 DEF c
<1>1. 0 \in N
  <2> DEFINE h == [s \in Small(0) |-> 0]
  <2>1. \A s \in Small(0) : s = {}
    BY <1>0, FS_EmptySet
  <2>2. h = [s \in Small(0) |-> Unfold(f, h, s)]
    BY <2>1 DEF Unfold
  <2> QED BY <2>2
<1>2. ASSUME NEW n \in N PROVE n + 1 \in N
  <2>1. PICK h : h = [s \in Small(n) |-> Unfold(f, h, s)]
    OBVIOUS
  <2> DEFINE k == [s \in Small(n + 1) |-> Unfold(f, h, s)]
  <2>2. \A s \in Small(n) : k[s] = h[s]
    <3>1. \A s \in Small(n) : s \in Small(n + 1)
      BY <1>0
    <3> QED BY <2>1, <3>1
  <2>3. \A s \in Small(n + 1) : Unfold(f, h, s) = Unfold(f, k, s)
    <3> SUFFICES ASSUME NEW s \in Small(n + 1)
                 PROVE  Unfold(f, h, s) = Unfold(f, k, s)
      OBVIOUS
    <3>1. CASE s = {}
      BY <3>1 DEF Unfold
    <3>2. CASE s # {}
      <4>1. s \ {CHOOSE x \in s : TRUE} \in Small(n)
        BY <1>a, <3>2
      <4>2. k[s \ {CHOOSE x \in s : TRUE}] = h[s \ {CHOOSE x \in s : TRUE}]
        BY <2>2, <4>1
      <4> QED BY <4>2 DEF Unfold
    <3> QED BY <3>1, <3>2
  <2>4. k = [s \in Small(n + 1) |-> Unfold(f, k, s)]
    BY <2>3
  <2>5. n + 1 \in Nat
    OBVIOUS
  <2> HIDE DEF k, Small
  <2> QED BY <2>4, <2>5
<1>3. Cardinality(S) \in N
  <2> HIDE DEF N
  <2>1. N \in SUBSET Nat
    BY DEF N
  <2> QED BY <1>0, <1>1, <1>2, <2>1, UpTo
<1>4. Small(Cardinality(S)) = SUBSET S
  BY FS_Subset, <1>0
<1>5. PICK h : h = [s \in Small(Cardinality(S)) |-> Unfold(f, h, s)]
  BY <1>3
<1>6. h = [s \in SUBSET S |-> Unfold(f, h, s)]
  BY <1>4, <1>5
<1> QED BY <1>6 DEF IsSum

\* Two of them agree on every set both have.
LEMMA SumUnique ==
    ASSUME NEW f, NEW S, NEW T, IsFiniteSet(S), NEW h, NEW k,
           IsSum(f, S, h), IsSum(f, T, k),
           NEW U \in SUBSET S, U \in SUBSET T
    PROVE  h[U] = k[U]
<1> DEFINE N == {n \in Nat : \A s \in SUBSET U : Cardinality(s) = n => h[s] = k[s]}
<1>0. \A s \in SUBSET U : IsFiniteSet(s) /\ Cardinality(s) \in Nat
  BY FS_Subset, FS_CardinalityType
<1>a. \A s \in SUBSET U : h[s] = Unfold(f, h, s) /\ k[s] = Unfold(f, k, s)
  BY DEF IsSum
<1>1. 0 \in N
  <2>1. \A s \in SUBSET U : Cardinality(s) = 0 => s = {}
    BY <1>0, FS_EmptySet
  <2> QED BY <1>a, <2>1 DEF Unfold
<1>2. ASSUME NEW n \in N PROVE n + 1 \in N
  <2> SUFFICES ASSUME NEW s \in SUBSET U, Cardinality(s) = n + 1 PROVE h[s] = k[s]
    OBVIOUS
  <2>1. s # {}
    <3>1. n + 1 # 0
      OBVIOUS
    <3> QED BY <3>1, FS_EmptySet
  <2> DEFINE c == CHOOSE x \in s : TRUE
  <2>2. c \in s
    BY <2>1
  <2>3. Unfold(f, h, s) = f[c] + h[s \ {c}] /\ Unfold(f, k, s) = f[c] + k[s \ {c}]
    BY <2>1 DEF Unfold
  <2> HIDE DEF c
  <2>4. Cardinality(s \ {c}) = Cardinality(s) - 1
    BY <1>0, <2>2, FS_RemoveElement
  <2>5. h[s \ {c}] = k[s \ {c}]
    BY <2>4
  <2> QED BY <1>a, <2>3, <2>5
<1>3. Cardinality(U) \in N
  <2> HIDE DEF N
  <2>1. N \in SUBSET Nat
    BY DEF N
  <2> QED BY <1>0, <1>1, <1>2, <2>1, UpTo
<1> QED BY <1>3

-----------------------------------------------------------------------------
LEMMA SumByFunction ==
    ASSUME NEW f, NEW S, IsFiniteSet(S)
    PROVE  \E h : IsSum(f, S, h) /\ \A T \in SUBSET S : SumOf(f, T) = h[T]
<1>1. PICK h : IsSum(f, S, h)
  BY SumExists
<1>2. ASSUME NEW T \in SUBSET S PROVE SumOf(f, T) = h[T]
  <2>1. IsFiniteSet(T)
    BY FS_Subset
  <2>2. PICK k : IsSum(f, T, k) /\ SumOf(f, T) = k[T]
    <3>1. \E k : IsSum(f, T, k)
      BY <2>1, SumExists
    <3> QED BY <3>1, SumIsChosen
  <2>4. k[T] = h[T]
    <3>1. T \in SUBSET T
      OBVIOUS
    <3> QED BY <1>1, <2>1, <2>2, <3>1, SumUnique
  <2> QED BY <2>2, <2>4
<1> QED BY <1>1, <1>2

LEMMA SumEmpty ==
    ASSUME NEW f PROVE SumOf(f, {}) = 0
<1>1. IsFiniteSet({})
  BY FS_EmptySet
<1>2. PICK h : IsSum(f, {}, h) /\ \A T \in SUBSET {} : SumOf(f, T) = h[T]
  BY <1>1, SumByFunction
<1>3. {} \in SUBSET {} /\ h[{}] = Unfold(f, h, {})
  BY <1>2 DEF IsSum
<1> QED BY <1>2, <1>3 DEF Unfold

\* The recursion takes one element; it does not matter which.
LEMMA SumChosen ==
    ASSUME NEW f, NEW S, IsFiniteSet(S), S # {}
    PROVE  \E c \in S : SumOf(f, S) = f[c] + SumOf(f, S \ {c})
<1>1. PICK h : IsSum(f, S, h) /\ \A T \in SUBSET S : SumOf(f, T) = h[T]
  BY SumByFunction
<1> DEFINE c == CHOOSE x \in S : TRUE
<1>2. h[S] = Unfold(f, h, S)
  BY <1>1 DEF IsSum
<1>3. h[S] = f[c] + h[S \ {c}]
  BY <1>2 DEF Unfold
<1>4. c \in S
  OBVIOUS
<1> HIDE DEF c
<1> QED BY <1>1, <1>3, <1>4

LEMMA SumRemove ==
    ASSUME NEW S, IsFiniteSet(S), NEW f, \A x \in S : f[x] \in Nat
    PROVE  /\ SumOf(f, S) \in Nat
           /\ \A x \in S : SumOf(f, S) = f[x] + SumOf(f, S \ {x})
<1> DEFINE Good(T) == /\ SumOf(f, T) \in Nat
                      /\ \A x \in T : SumOf(f, T) = f[x] + SumOf(f, T \ {x})
           N == {n \in Nat : \A T \in SUBSET S : Cardinality(T) <= n => Good(T)}
<1>0. \A T \in SUBSET S : IsFiniteSet(T) /\ Cardinality(T) \in Nat
  BY FS_Subset, FS_CardinalityType
<1>1. 0 \in N
  <2>1. \A T \in SUBSET S : Cardinality(T) <= 0 => T = {}
    BY <1>0, FS_EmptySet
  <2>2. Good({})
    BY SumEmpty
  <2> HIDE DEF Good
  <2> QED BY <2>1, <2>2
<1>2. ASSUME NEW n \in N PROVE n + 1 \in N
  <2> SUFFICES ASSUME NEW T \in SUBSET S, Cardinality(T) = n + 1 PROVE Good(T)
    <3>1. \A T \in SUBSET S : Cardinality(T) <= n + 1 =>
              Cardinality(T) <= n \/ Cardinality(T) = n + 1
      BY <1>0
    <3> HIDE DEF Good
    <3> QED BY <3>1
  <2>1. T # {}
    <3>1. n + 1 # 0
      OBVIOUS
    <3> QED BY <3>1, FS_EmptySet
  <2>2. PICK c \in T : SumOf(f, T) = f[c] + SumOf(f, T \ {c})
    BY <1>0, <2>1, SumChosen
  <2>3. ASSUME NEW x \in T PROVE Good(T \ {x})
    <3>1. Cardinality(T \ {x}) = Cardinality(T) - 1
      BY <1>0, FS_RemoveElement
    <3>2. Cardinality(T \ {x}) <= n /\ T \ {x} \in SUBSET S
      BY <3>1
    <3> HIDE DEF Good
    <3> QED BY <3>2
  <2>4. SumOf(f, T) \in Nat
    BY <2>2, <2>3
  <2>5. ASSUME NEW x \in T PROVE SumOf(f, T) = f[x] + SumOf(f, T \ {x})
    <3>1. CASE x = c
      BY <2>2, <3>1
    <3>2. CASE x # c
      <4> DEFINE R == (T \ {c}) \ {x}
      <4>1. SumOf(f, T \ {c}) = f[x] + SumOf(f, R)
        BY <2>3, <3>2
      <4>2. SumOf(f, T \ {x}) = f[c] + SumOf(f, R)
        <5>1. (T \ {x}) \ {c} = R
          OBVIOUS
        <5>2. c \in T \ {x}
          BY <3>2
        <5>3. SumOf(f, T \ {x}) = f[c] + SumOf(f, (T \ {x}) \ {c})
          BY <2>3, <5>2
        <5> QED BY <5>1, <5>3
      <4>3. SumOf(f, R) \in Nat
        <5>1. Cardinality(R) <= Cardinality(T \ {c})
          BY <1>0, FS_Subset
        <5>2. Cardinality(T \ {c}) = Cardinality(T) - 1
          BY <1>0, FS_RemoveElement
        <5>3. Cardinality(R) <= n /\ R \in SUBSET S
          <6>1. R \in SUBSET S
            OBVIOUS
          <6>2. Cardinality(R) \in Nat
            BY <1>0, <6>1
          <6> QED BY <5>1, <5>2, <6>1, <6>2
        <5>4. Good(R)
          <6> HIDE DEF Good, R
          <6> QED BY <5>3
        <5> QED BY <5>4
      <4> HIDE DEF R
      <4>4. f[x] \in Nat /\ f[c] \in Nat
        OBVIOUS
      <4> QED BY <2>2, <4>1, <4>2, <4>3, <4>4
    <3> QED BY <3>1, <3>2
  <2> QED BY <2>4, <2>5
<1>3. Cardinality(S) \in N
  <2> HIDE DEF N
  <2>1. N \in SUBSET Nat
    BY DEF N
  <2> QED BY <1>0, <1>1, <1>2, <2>1, UpTo
<1> QED BY <1>3

\* The sum over a part of S is not more than the sum over S.
LEMMA SumMonotone ==
    ASSUME NEW S, IsFiniteSet(S), NEW f, \A x \in S : f[x] \in Nat,
           NEW T \in SUBSET S
    PROVE  SumOf(f, T) <= SumOf(f, S)
<1> DEFINE F == {D \in SUBSET (S \ T) : SumOf(f, T) <= SumOf(f, T \cup D)}
<1>0. \A D \in SUBSET S : IsFiniteSet(D) /\ SumOf(f, D) \in Nat
  BY FS_Subset, SumRemove
<1>1. {} \in F
  <2>1. T \cup {} = T /\ SumOf(f, T) \in Nat
    BY <1>0
  <2> QED BY <2>1
<1>2. ASSUME NEW D \in SUBSET (S \ T), NEW x \in S \ T, D \in F, x \notin D
      PROVE  D \cup {x} \in F
  <2> DEFINE U == T \cup (D \cup {x})
  <2>1. U \in SUBSET S /\ x \in U /\ U \ {x} = T \cup D
    BY <1>2
  <2> HIDE DEF U
  <2>2. SumOf(f, U) = f[x] + SumOf(f, T \cup D)
    BY <1>0, <2>1, SumRemove
  <2>3. /\ SumOf(f, T) \in Nat /\ SumOf(f, T \cup D) \in Nat /\ f[x] \in Nat
        /\ SumOf(f, T) <= SumOf(f, T \cup D)
    BY <1>0, <1>2
  <2>4. SumOf(f, T) <= SumOf(f, U)
    BY <2>2, <2>3
  <2> QED BY <1>2, <2>4 DEF U
<1>3. S \ T \in F
  <2> HIDE DEF F
  <2>1. IsFiniteSet(S \ T)
    BY <1>0
  <2> QED BY <1>1, <1>2, <2>1, SubsetInduction
<1>4. T \cup (S \ T) = S
  OBVIOUS
<1> QED BY <1>3, <1>4


\* Functions that agree on S have the same sum over it.
LEMMA SumSame ==
    ASSUME NEW S, IsFiniteSet(S), NEW f, NEW g,
           \A x \in S : f[x] \in Nat /\ g[x] = f[x]
    PROVE  SumOf(f, S) = SumOf(g, S)
<1> DEFINE F == {T \in SUBSET S : SumOf(f, T) = SumOf(g, T)}
<1>0. \A T \in SUBSET S : IsFiniteSet(T)
  BY FS_Subset
<1>1. {} \in F
  BY SumEmpty
<1>2. ASSUME NEW T \in SUBSET S, NEW x \in S, T \in F, x \notin T
      PROVE  T \cup {x} \in F
  <2> DEFINE U == T \cup {x}
  <2>1. U \in SUBSET S /\ x \in U /\ U \ {x} = T
    BY <1>2
  <2> HIDE DEF U
  <2>2. \A y \in U : f[y] \in Nat /\ g[y] \in Nat
    BY <2>1
  <2>3. SumOf(f, U) = f[x] + SumOf(f, T) /\ SumOf(g, U) = g[x] + SumOf(g, T)
    BY <1>0, <2>1, <2>2, SumRemove
  <2>4. SumOf(f, U) = SumOf(g, U)
    BY <1>2, <2>3
  <2> QED BY <2>1, <2>4 DEF U
<1>3. S \in F
  <2> HIDE DEF F
  <2> QED BY <1>1, <1>2, SubsetInduction
<1> QED BY <1>3

\* A sum is at least its smallest value as often as it has terms.
LEMMA SumBound ==
    ASSUME NEW S, IsFiniteSet(S), NEW f, NEW m \in Int,
           \A x \in S : f[x] \in Nat /\ m <= f[x]
    PROVE  m * Cardinality(S) <= SumOf(f, S)
<1> DEFINE F == {T \in SUBSET S : m * Cardinality(T) <= SumOf(f, T)}
<1>0. \A T \in SUBSET S : IsFiniteSet(T) /\ Cardinality(T) \in Nat
  BY FS_Subset, FS_CardinalityType
<1>1. {} \in F
  <2>1. Cardinality({}) = 0 /\ SumOf(f, {}) = 0
    BY SumEmpty, FS_EmptySet
  <2> QED BY <2>1
<1>2. ASSUME NEW T \in SUBSET S, NEW x \in S, T \in F, x \notin T
      PROVE  T \cup {x} \in F
  <2> DEFINE U == T \cup {x}
  <2>1. U \in SUBSET S /\ x \in U /\ U \ {x} = T
    BY <1>2
  <2>2. Cardinality(U) = Cardinality(T) + 1
    BY <1>0, <1>2, FS_AddElement
  <2> HIDE DEF U
  <2>3. SumOf(f, U) = f[x] + SumOf(f, T) /\ SumOf(f, T) \in Nat
    BY <1>0, <2>1, SumRemove
  <2>4. m * (Cardinality(T) + 1) = m * Cardinality(T) + m
    BY <1>0
  <2>5. m * Cardinality(T) \in Int /\ f[x] \in Nat /\ m <= f[x]
    BY <1>0
  <2>6. m * Cardinality(U) <= SumOf(f, U)
    <3>1. m * Cardinality(T) <= SumOf(f, T)
      BY <1>2
    <3> QED BY <2>2, <2>3, <2>4, <2>5, <3>1
  <2> QED BY <2>1, <2>6 DEF U
<1>3. S \in F
  <2> HIDE DEF F
  <2> QED BY <1>1, <1>2, SubsetInduction
<1> QED BY <1>3

\* One more in one place is one more in all.
LEMMA SumIncrement ==
    ASSUME NEW S, IsFiniteSet(S), NEW f \in [S -> Nat], NEW x \in S
    PROVE  SumOf([f EXCEPT ![x] = @ + 1], S) = SumOf(f, S) + 1
<1> DEFINE g == [f EXCEPT ![x] = @ + 1]
<1>1. g \in [S -> Nat] /\ g[x] = f[x] + 1 /\ \A y \in S \ {x} : g[y] = f[y]
  OBVIOUS
<1> HIDE DEF g
<1>2. IsFiniteSet(S \ {x})
  BY FS_Subset
<1>3. SumOf(f, S \ {x}) = SumOf(g, S \ {x})
  BY <1>1, <1>2, SumSame
<1>4. SumOf(f, S) = f[x] + SumOf(f, S \ {x}) /\ SumOf(g, S) = g[x] + SumOf(g, S \ {x})
  BY <1>1, SumRemove
<1>5. SumOf(f, S \ {x}) \in Nat
  BY <1>2, SumRemove
<1>6. SumOf(g, S) = SumOf(f, S) + 1
  BY <1>1, <1>3, <1>4, <1>5
<1> QED BY <1>6 DEF g

LEMMA SumZero ==
    ASSUME NEW S, IsFiniteSet(S)
    PROVE  SumOf([x \in S |-> 0], S) = 0
<1> DEFINE f == [x \in S |-> 0]
           F == {T \in SUBSET S : SumOf(f, T) = 0}
<1>0. \A T \in SUBSET S : IsFiniteSet(T)
  BY FS_Subset
<1>1. {} \in F
  BY SumEmpty
<1>2. ASSUME NEW T \in SUBSET S, NEW x \in S, T \in F, x \notin T
      PROVE  T \cup {x} \in F
  <2> DEFINE U == T \cup {x}
  <2>1. U \in SUBSET S /\ x \in U /\ U \ {x} = T
    BY <1>2
  <2>2. \A y \in S : f[y] = 0
    OBVIOUS
  <2> HIDE DEF U, f
  <2>3. SumOf(f, U) = f[x] + SumOf(f, T)
    BY <1>0, <2>1, <2>2, SumRemove
  <2>4. SumOf(f, U) = 0
    BY <1>2, <2>2, <2>3
  <2> QED BY <2>1, <2>4 DEF U
<1>3. S \in F
  <2> HIDE DEF F
  <2> QED BY <1>1, <1>2, SubsetInduction
<1> QED BY <1>3

-----------------------------------------------------------------------------
\* A set of numbers up to n has a largest.
LEMMA HasMax ==
    ASSUME NEW n \in Nat, NEW T \in SUBSET (1..n), T # {}
    PROVE  Max(T) \in T /\ \A y \in T : Max(T) >= y
<1> DEFINE F == {U \in SUBSET (1..n) : U # {} => \E x \in U : \A y \in U : x >= y}
<1>1. \A U \in SUBSET (1..n), x \in 1..n : U \in F => U \cup {x} \in F
  <2> SUFFICES ASSUME NEW U \in SUBSET (1..n), NEW x \in 1..n, U \in F
               PROVE  \E m \in U \cup {x} : \A y \in U \cup {x} : m >= y
    OBVIOUS
  <2>1. CASE U = {}
    BY <2>1
  <2>2. CASE U # {}
    <3>1. PICK m \in U : \A y \in U : m >= y
      BY <2>2
    <3>2. CASE x >= m
      <4>1. \A y \in U \cup {x} : x >= y
        BY <3>1, <3>2
      <4> QED BY <4>1
    <3>3. CASE ~(x >= m)
      <4>1. \A y \in U \cup {x} : m >= y
        BY <3>1, <3>3
      <4> QED BY <4>1
    <3> QED BY <3>2, <3>3
  <2> QED BY <2>1, <2>2
<1>2. IsFiniteSet(1..n)
  BY FS_Interval
<1>3. \A U \in SUBSET (1..n) : IsFiniteSet(U)
  BY <1>2, FS_Subset
<1>4. T \in F
  <2>1. {} \in F
    OBVIOUS
  <2>2. \A U \in SUBSET T : \A x \in T : U \in F /\ x \notin U => U \cup {x} \in F
    BY <1>1
  <2> HIDE DEF F
  <2> QED BY <1>3, <2>1, <2>2, SubsetInduction
<1> QED BY <1>4 DEF Max

\* FoldLeft, over the indexes of a sequence of length n: one unfolding of its
\* recursion, with the step and the recursive function as functions.
FoldTurn(base, step, h, T) ==
    IF T = {} THEN base ELSE step[<<h[T \ {Max(T)}], Max(T)>>]

\* A fold with values in V.
Folding(V, base, n, step) ==
    n \in Nat /\ base \in V /\ step \in [V \X (1..n) -> V]

\* h holds the fold over every set of indexes.
IsFold(base, n, step, h) ==
    \A T \in SUBSET (1..n) : h[T] = FoldTurn(base, step, h, T)

\* There is such an h, so the CHOOSE in the definition of a fold finds it.
LEMMA FoldExists ==
    ASSUME NEW V, NEW base, NEW n, NEW step, Folding(V, base, n, step)
    PROVE  \E h \in [SUBSET (1..n) -> V] : IsFold(base, n, step, h)
<1>a. n \in Nat /\ base \in V /\ step \in [V \X (1..n) -> V]
  BY DEF Folding
<1> DEFINE Small(m) == {T \in SUBSET (1..n) : Cardinality(T) <= m}
           Good(m, h) == /\ h \in [Small(m) -> V]
                         /\ \A T \in Small(m) : h[T] = FoldTurn(base, step, h, T)
           N == {m \in Nat : \E h : Good(m, h)}
<1>0. /\ IsFiniteSet(1..n)
      /\ \A T \in SUBSET (1..n) : IsFiniteSet(T) /\ Cardinality(T) \in Nat
  <2>1. IsFiniteSet(1..n)
    BY <1>a, FS_Interval
  <2> QED BY <2>1, FS_Subset, FS_CardinalityType
<1>b. ASSUME NEW T \in SUBSET (1..n), T # {}, NEW m \in Nat, Cardinality(T) <= m + 1
      PROVE  T \ {Max(T)} \in Small(m) /\ Max(T) \in 1..n
  <2>1. Max(T) \in T
    BY <1>a, <1>b, HasMax
  <2>2. Cardinality(T \ {Max(T)}) = Cardinality(T) - 1 /\ Cardinality(T) \in Nat
    BY <1>0, <2>1, FS_RemoveElement
  <2>3. Cardinality(T \ {Max(T)}) <= m
    BY <1>b, <2>2
  <2> QED BY <2>1, <2>3
<1>1. 0 \in N
  <2>1. \A T \in Small(0) : T = {}
    BY <1>0, FS_EmptySet
  <2>2. Good(0, [T \in Small(0) |-> base])
    BY <1>a, <2>1 DEF FoldTurn
  <2> HIDE DEF Good
  <2> QED BY <2>2
<1>2. ASSUME NEW m \in N PROVE m + 1 \in N
  <2>1. PICK h : Good(m, h)
    OBVIOUS
  <2> DEFINE k == [T \in Small(m + 1) |-> FoldTurn(base, step, h, T)]
  <2>2. \A T \in Small(m) : T \in Small(m + 1) /\ k[T] = h[T]
    BY <1>0, <2>1
  <2>3. \A T \in Small(m + 1) : T # {} => T \ {Max(T)} \in Small(m) /\ Max(T) \in 1..n
    BY <1>b
  <2>4. ASSUME NEW T \in Small(m + 1)
        PROVE  FoldTurn(base, step, h, T) = FoldTurn(base, step, k, T) /\ k[T] \in V
    <3>1. CASE T = {}
      BY <1>a, <3>1 DEF FoldTurn
    <3>2. CASE T # {}
      <4> DEFINE U == T \ {Max(T)}
      <4>1. U \in Small(m) /\ Max(T) \in 1..n
        BY <2>3, <3>2
      <4> HIDE DEF Small, U
      <4>2. k[U] = h[U] /\ h[U] \in V
        BY <2>1, <2>2, <4>1
      <4>3. step[<<h[U], Max(T)>>] \in V
        BY <1>a, <4>1, <4>2
      <4>4. FoldTurn(base, step, h, T) = FoldTurn(base, step, k, T)
        BY <3>2, <4>2 DEF FoldTurn, U
      <4>5. k[T] = FoldTurn(base, step, h, T)
        OBVIOUS
      <4>6. FoldTurn(base, step, h, T) \in V
        BY <3>2, <4>3 DEF FoldTurn, U
      <4> QED BY <4>4, <4>5, <4>6
    <3> QED BY <3>1, <3>2
  <2>5. Good(m + 1, k)
    <3> HIDE DEF Small
    <3>1. k \in [Small(m + 1) -> V]
      BY <2>4
    <3>2. \A T \in Small(m + 1) : k[T] = FoldTurn(base, step, k, T)
      BY <2>4
    <3> HIDE DEF k
    <3> QED BY <3>1, <3>2
  <2> HIDE DEF Good
  <2> QED BY <2>5
<1>3. n \in N
  <2> HIDE DEF N
  <2>1. N \in SUBSET Nat
    BY DEF N
  <2> QED BY <1>a, <1>1, <1>2, <2>1, UpTo
<1>4. Small(n) = SUBSET (1..n)
  <2>1. Cardinality(1..n) = n
    BY <1>a, FS_Interval
  <2> QED BY <1>0, <1>a, <2>1, FS_Subset
<1>5. PICK h : Good(n, h)
  BY <1>3
<1>6. h \in [SUBSET (1..n) -> V]
  BY <1>4, <1>5
<1>7. \A T \in SUBSET (1..n) : h[T] = FoldTurn(base, step, h, T)
  BY <1>4, <1>5
<1> QED BY <1>6, <1>7 DEF IsFold

\* The first n numbers: the largest, and the rest.
LEMMA MaxOfFirst ==
    ASSUME NEW n \in Nat \ {0}
    PROVE  Max(1..n) = n /\ (1..n) \ {n} = 1..(n - 1)
<1>1. n \in 1..n /\ 1..n \in SUBSET (1..n)
  OBVIOUS
<1>2. Max(1..n) \in 1..n /\ \A y \in 1..n : Max(1..n) >= y
  BY <1>1, HasMax
<1>3. Max(1..n) >= n
  BY <1>1, <1>2
<1> QED BY <1>2, <1>3
=============================================================================
