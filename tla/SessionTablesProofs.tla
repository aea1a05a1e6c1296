------------------------ MODULE SessionTablesProofs ------------------------
(***************************************************************************)
(* Theorems of SessionTables, for any number of connections, sessions and  *)
(* statements: rows keep their types, the first end of a session is final, *)
(* a committed session is completed exactly when it has metrics, and its   *)
(* reason counts add up to what the metrics report.                        *)
(***************************************************************************)
EXTENDS SessionTables, ReadCommittedProofs, FiniteSetTheorems

-----------------------------------------------------------------------------
(* Sums over finite sets *)

\* A set of natural numbers has a least element ...
LEMMA LeastElement ==
    ASSUME NEW T \in SUBSET Nat, T # {}
    PROVE  \E n \in T : \A m \in T : n <= m
<1>. DEFINE R == OpToRel(<, Nat)
<1>1. IsWellFoundedOn(R, Nat)
  BY NatLessThanWellFounded
<1>2. \A m, n \in Nat : m < n => <<m, n>> \in R
  BY DEF OpToRel
<1>. HIDE DEF R
<1>3. \E n \in T : \A m \in T : ~ (<<m, n>> \in R)
  BY <1>1, WFMin
<1>4. PICK n \in T : \A m \in T : ~ (<<m, n>> \in R)
  BY <1>3
<1>5. \A m \in T : ~ (m < n)
  BY <1>2, <1>4
<1>. QED
  BY <1>5

\* ... so that induction can be stated with a set in place of a predicate.
LEMMA SetInduction ==
    ASSUME NEW T, 0 \in T, \A n \in Nat : n \in T => n + 1 \in T
    PROVE  Nat \subseteq T
<1>. SUFFICES ASSUME Nat \ T # {} PROVE FALSE
  OBVIOUS
<1>1. PICK n \in Nat \ T : \A m \in Nat \ T : n <= m
  BY LeastElement
<1>2. n - 1 \in Nat /\ n - 1 \in T
  BY <1>1
<1>. QED
  BY <1>1, <1>2

\* The element SumFunctionOnSet takes first.
Pick(T) == CHOOSE x \in T : TRUE

\* g has the sum of f over every subset of S: the function SumFunctionOnSet chooses.
Sums(g, f, S) ==
    g = [T \in SUBSET S |-> IF T = {} THEN 0 ELSE f[Pick(T)] + g[T \ {Pick(T)}]]

SameOn(f, ff, T) == \A x \in T : f[x] = ff[x]

LEMMA SumIs ==
    ASSUME NEW f, NEW S
    PROVE  SumFunctionOnSet(f, S) = (CHOOSE g : Sums(g, f, S))[S]
  BY DEF SumFunctionOnSet, FoldFunctionOnSet, MapThenFoldSet, Sums, Pick

LEMMA Smaller ==
    ASSUME NEW S, IsFiniteSet(S), NEW T \in SUBSET S, T # {}
    PROVE  /\ Pick(T) \in T /\ T \ {Pick(T)} \in SUBSET S
           /\ Cardinality(T) \in Nat /\ Cardinality(T) # 0
           /\ \A x \in T : Cardinality(T \ {x}) = Cardinality(T) - 1 /\ T \ {x} \in SUBSET S
<1>1. IsFiniteSet(T)
  BY FS_Subset
<1>2. Cardinality(T) \in Nat /\ Cardinality(T) # 0
  BY <1>1, FS_CardinalityType, FS_EmptySet
<1>3. \A x \in T : Cardinality(T \ {x}) = Cardinality(T) - 1 /\ T \ {x} \in SUBSET S
  BY <1>1, FS_RemoveElement
<1>4. Pick(T) \in T
  BY DEF Pick
<1>. QED
  BY <1>2, <1>3, <1>4

\* The recursion has a solution: it is built one cardinality at a time.
LEMMA SumsExist ==
    ASSUME NEW f, NEW S, IsFiniteSet(S)
    PROVE  \E g : Sums(g, f, S)
<1>. DEFINE Step(g, T) == IF T = {} THEN 0 ELSE f[Pick(T)] + g[T \ {Pick(T)}]
            Upto(g, n) == \A T \in SUBSET S : Cardinality(T) <= n => g[T] = Step(g, T)
            N == {n \in Nat : \E g : Upto(g, n)}
<1>0. Cardinality({}) = 0 /\ \A T \in SUBSET S : Cardinality(T) \in Nat /\ (Cardinality(T) = 0 => T = {})
  BY FS_EmptySet, FS_Subset, FS_CardinalityType
<1>1. 0 \in N
  <2>1. Upto([T \in SUBSET S |-> 0], 0)
    BY <1>0
  <2>. QED
    BY <2>1
<1>2. ASSUME NEW n \in Nat, n \in N
      PROVE  n + 1 \in N
  <2>1. PICK g : Upto(g, n)
    BY <1>2
  <2>. DEFINE h == [T \in SUBSET S |-> IF Cardinality(T) <= n THEN g[T] ELSE Step(g, T)]
  <2>2. ASSUME NEW T \in SUBSET S, Cardinality(T) <= n + 1
        PROVE  h[T] = Step(h, T)
    <3>1. h[T] = Step(g, T)
      BY <2>1
    <3>2. CASE T = {}
      BY <3>1, <3>2
    <3>3. CASE T # {}
      <4>1. /\ T \ {Pick(T)} \in SUBSET S /\ Cardinality(T \ {Pick(T)}) = Cardinality(T) - 1
            /\ Cardinality(T) \in Nat
        BY <3>3, Smaller
      <4>2. Cardinality(T \ {Pick(T)}) <= n
        BY <2>2, <4>1
      <4>3. h[T \ {Pick(T)}] = g[T \ {Pick(T)}]
        BY <4>1, <4>2
      <4>. HIDE DEF h
      <4>. QED
        BY <3>1, <3>3, <4>3
    <3>. QED
      BY <3>2, <3>3
  <2>. HIDE DEF h
  <2>3. Upto(h, n + 1)
    BY <2>2
  <2>. QED
    BY <2>3
<1>3. Cardinality(S) \in N
  <2>1. Nat \subseteq N
    <3>. HIDE DEF N
    <3>. QED
      BY <1>1, <1>2, SetInduction
  <2>2. Cardinality(S) \in Nat
    BY <1>0
  <2>. HIDE DEF N
  <2>. QED
    BY <2>1, <2>2
<1>4. PICK g : Upto(g, Cardinality(S))
  BY <1>3
<1>5. ASSUME NEW T \in SUBSET S
      PROVE  g[T] = Step(g, T)
  BY <1>4, FS_Subset
<1>. DEFINE h == [T \in SUBSET S |-> g[T]]
<1>6. ASSUME NEW T \in SUBSET S
      PROVE  h[T] = Step(h, T)
  BY <1>5, Smaller
<1>. HIDE DEF h
<1>7. h = [T \in SUBSET S |-> h[T]]
  BY DEF h
<1>8. [T \in SUBSET S |-> h[T]] = [T \in SUBSET S |-> Step(h, T)]
  BY <1>6
<1>9. Sums(h, f, S)
  BY <1>7, <1>8 DEF Sums
<1>. QED
  BY <1>9

\* Two solutions agree on the sets where their summands do.
LEMMA SumsAgree ==
    ASSUME NEW f, NEW g, NEW S, NEW ff, NEW gg, NEW SS, NEW T,
           Sums(g, f, S), Sums(gg, ff, SS), T \subseteq S, T \subseteq SS,
           IsFiniteSet(T), SameOn(f, ff, T)
    PROVE  g[T] = gg[T]
<1>. DEFINE Same(U) == g[U] = gg[U]
            N == {n \in Nat : \A U \in SUBSET T : Cardinality(U) = n => Same(U)}
<1>0. /\ \A U \in SUBSET T : Cardinality(U) \in Nat /\ (Cardinality(U) = 0 => U = {})
  BY FS_EmptySet, FS_Subset, FS_CardinalityType
<1>00. \A U \in SUBSET T : U \in SUBSET S /\ U \in SUBSET SS
  OBVIOUS
<1>1. 0 \in N
  BY <1>0, <1>00 DEF Sums
<1>2. ASSUME NEW n \in Nat, n \in N
      PROVE  n + 1 \in N
  <2>1. ASSUME NEW U \in SUBSET T, Cardinality(U) = n + 1
        PROVE  Same(U)
    <3>1. U # {}
      BY <2>1, FS_EmptySet
    <3>2. /\ Pick(U) \in U /\ U \ {Pick(U)} \in SUBSET T /\ Cardinality(U \ {Pick(U)}) = n
      BY <2>1, <3>1, Smaller
    <3>3. g[U \ {Pick(U)}] = gg[U \ {Pick(U)}]
      BY <1>2, <3>2
    <3>4. g[U] = f[Pick(U)] + g[U \ {Pick(U)}] /\ gg[U] = ff[Pick(U)] + gg[U \ {Pick(U)}]
      BY <1>00, <3>1 DEF Sums
    <3>. QED
      BY <3>2, <3>3, <3>4 DEF SameOn
  <2>. QED
    BY <2>1
<1>3. Nat \subseteq N
  <2>. HIDE DEF N
  <2>. QED
    BY <1>1, <1>2, SetInduction
<1>4. T \in SUBSET T /\ Cardinality(T) \in N
  BY <1>0, <1>3
<1>. QED
  BY <1>4

\* One step of the recursion.
LEMMA SumUnfold ==
    ASSUME NEW f, NEW S, IsFiniteSet(S)
    PROVE  SumFunctionOnSet(f, S) =
              IF S = {} THEN 0 ELSE f[Pick(S)] + SumFunctionOnSet(f, S \ {Pick(S)})
<1>. DEFINE R == S \ {Pick(S)}
            g == CHOOSE g : Sums(g, f, S)
            h == CHOOSE h : Sums(h, f, R)
<1>1. IsFiniteSet(R)
  BY FS_Subset
<1>2. Sums(g, f, S)
  BY SumsExist
<1>3. Sums(h, f, R)
  BY <1>1, SumsExist
<1>4. SumFunctionOnSet(f, S) = g[S] /\ SumFunctionOnSet(f, R) = h[R]
  BY SumIs
<1>. HIDE DEF g, h
<1>5. g[R] = h[R]
  <2>1. R \subseteq S /\ R \subseteq R /\ SameOn(f, f, R)
    BY DEF SameOn
  <2>. HIDE DEF R
  <2>. QED
    BY <1>1, <1>2, <1>3, <2>1, SumsAgree
<1>6. g[S] = IF S = {} THEN 0 ELSE f[Pick(S)] + g[R]
  BY <1>2 DEF Sums
<1>. QED
  BY <1>4, <1>5, <1>6

LEMMA SumEqual ==
    ASSUME NEW f, NEW g, NEW S, IsFiniteSet(S), \A x \in S : f[x] = g[x]
    PROVE  SumFunctionOnSet(f, S) = SumFunctionOnSet(g, S)
<1>. DEFINE F == CHOOSE F : Sums(F, f, S)
            G == CHOOSE G : Sums(G, g, S)
<1>1. Sums(F, f, S) /\ Sums(G, g, S)
  BY SumsExist
<1>2. SumFunctionOnSet(f, S) = F[S] /\ SumFunctionOnSet(g, S) = G[S]
  BY SumIs
<1>. HIDE DEF F, G
<1>3. SameOn(f, g, S)
  BY DEF SameOn
<1>. QED
  BY <1>1, <1>2, <1>3, SumsAgree

LEMMA SumType ==
    ASSUME NEW f, NEW S, IsFiniteSet(S), \A x \in S : f[x] \in Int
    PROVE  SumFunctionOnSet(f, S) \in Int
<1>. DEFINE N == {n \in Nat : \A T \in SUBSET S : Cardinality(T) = n => SumFunctionOnSet(f, T) \in Int}
<1>0. \A T \in SUBSET S : IsFiniteSet(T) /\ Cardinality(T) \in Nat /\ (Cardinality(T) = 0 => T = {})
  BY FS_EmptySet, FS_Subset, FS_CardinalityType
<1>1. 0 \in N
  <2>1. SumFunctionOnSet(f, {}) = 0
    BY FS_EmptySet, SumUnfold
  <2>. QED
    BY <1>0, <2>1
<1>2. ASSUME NEW n \in Nat, n \in N
      PROVE  n + 1 \in N
  <2>1. ASSUME NEW T \in SUBSET S, Cardinality(T) = n + 1
        PROVE  SumFunctionOnSet(f, T) \in Int
    <3>1. T # {}
      BY <2>1, FS_EmptySet
    <3>2. /\ Pick(T) \in T /\ T \ {Pick(T)} \in SUBSET S /\ Cardinality(T \ {Pick(T)}) = n
      BY <2>1, <3>1, Smaller
    <3>3. SumFunctionOnSet(f, T \ {Pick(T)}) \in Int
      BY <1>2, <3>2
    <3>4. SumFunctionOnSet(f, T) = f[Pick(T)] + SumFunctionOnSet(f, T \ {Pick(T)})
      BY <1>0, <3>1, SumUnfold
    <3>. QED
      BY <3>2, <3>3, <3>4
  <2>. QED
    BY <2>1
<1>3. Nat \subseteq N
  <2>. HIDE DEF N
  <2>. QED
    BY <1>1, <1>2, SetInduction
<1>. QED
  BY <1>0, <1>3

\* Any element may be taken first.
LEMMA SumRemove ==
    ASSUME NEW f, NEW S, IsFiniteSet(S), \A x \in S : f[x] \in Int, NEW e \in S
    PROVE  SumFunctionOnSet(f, S) = f[e] + SumFunctionOnSet(f, S \ {e})
<1>. DEFINE Splits(T) == \A x \in T : SumFunctionOnSet(f, T) = f[x] + SumFunctionOnSet(f, T \ {x})
            N == {n \in Nat : \A T \in SUBSET S : Cardinality(T) = n => Splits(T)}
<1>0. \A T \in SUBSET S : IsFiniteSet(T) /\ Cardinality(T) \in Nat /\ (Cardinality(T) = 0 => T = {})
  BY FS_EmptySet, FS_Subset, FS_CardinalityType
<1>1. 0 \in N
  BY <1>0
<1>2. ASSUME NEW n \in Nat, n \in N
      PROVE  n + 1 \in N
  <2>1. ASSUME NEW T \in SUBSET S, Cardinality(T) = n + 1, NEW x \in T
        PROVE  SumFunctionOnSet(f, T) = f[x] + SumFunctionOnSet(f, T \ {x})
    <3>. DEFINE p == Pick(T)
    <3>1. /\ p \in T /\ T \ {p} \in SUBSET S /\ Cardinality(T \ {p}) = n
          /\ T \ {x} \in SUBSET S /\ Cardinality(T \ {x}) = n
      BY <2>1, Smaller
    <3>2. SumFunctionOnSet(f, T) = f[p] + SumFunctionOnSet(f, T \ {p})
      BY <1>0, <3>1, SumUnfold
    <3>. HIDE DEF p
    <3>3. CASE x = p
      BY <3>2, <3>3
    <3>4. CASE x # p
      <4>1. SumFunctionOnSet(f, T \ {p}) = f[x] + SumFunctionOnSet(f, (T \ {p}) \ {x})
        BY <1>2, <3>1, <3>4
      <4>2. SumFunctionOnSet(f, T \ {x}) = f[p] + SumFunctionOnSet(f, (T \ {x}) \ {p})
        BY <1>2, <3>1, <3>4
      <4>3. (T \ {p}) \ {x} = (T \ {x}) \ {p}
        OBVIOUS
      <4>4. SumFunctionOnSet(f, (T \ {x}) \ {p}) \in Int /\ f[x] \in Int /\ f[p] \in Int
        <5>1. IsFiniteSet((T \ {x}) \ {p}) /\ \A y \in (T \ {x}) \ {p} : f[y] \in Int
          BY <1>0, <3>1
        <5>. QED
          BY <3>1, <5>1, SumType
      <4>5. SumFunctionOnSet(f, (T \ {p}) \ {x}) = SumFunctionOnSet(f, (T \ {x}) \ {p})
        BY <4>3
      <4>. QED
        BY <3>2, <4>1, <4>2, <4>4, <4>5, SMT
    <3>. QED
      BY <3>3, <3>4
  <2>. QED
    BY <2>1
<1>3. Nat \subseteq N
  <2>. HIDE DEF N
  <2>. QED
    BY <1>1, <1>2, SetInduction
<1>. QED
  BY <1>0, <1>3

\* Elements of value zero do not count.
LEMMA SumOfNonzero ==
    ASSUME NEW f, NEW S, IsFiniteSet(S), \A x \in S : f[x] \in Int,
           NEW T \in SUBSET S, \A x \in S \ T : f[x] = 0
    PROVE  SumFunctionOnSet(f, S) = SumFunctionOnSet(f, T)
<1>. DEFINE Same(U) == SumFunctionOnSet(f, U) = SumFunctionOnSet(f, U \cap T)
            N == {n \in Nat : \A U \in SUBSET S : Cardinality(U) = n => Same(U)}
<1>0. \A U \in SUBSET S : IsFiniteSet(U) /\ Cardinality(U) \in Nat /\ (Cardinality(U) = 0 => U = {})
  BY FS_EmptySet, FS_Subset, FS_CardinalityType
<1>1. 0 \in N
  <2>1. {} \cap T = {}
    OBVIOUS
  <2>. QED
    BY <1>0, <2>1
<1>2. ASSUME NEW n \in Nat, n \in N
      PROVE  n + 1 \in N
  <2>1. ASSUME NEW U \in SUBSET S, Cardinality(U) = n + 1
        PROVE  Same(U)
    <3>1. U # {}
      BY <2>1, FS_EmptySet
    <3>2. PICK x \in U : TRUE
      BY <3>1
    <3>3. U \ {x} \in SUBSET S /\ Cardinality(U \ {x}) = n /\ IsFiniteSet(U \ {x})
      BY <1>0, <2>1, <3>1, Smaller
    <3>4. SumFunctionOnSet(f, U) = f[x] + SumFunctionOnSet(f, U \ {x})
      BY <1>0, SumRemove
    <3>5. SumFunctionOnSet(f, U \ {x}) = SumFunctionOnSet(f, (U \ {x}) \cap T)
      BY <1>2, <3>3
    <3>6. SumFunctionOnSet(f, U \ {x}) \in Int
      BY <3>3, SumType
    <3>7. CASE x \in T
      <4>1. SumFunctionOnSet(f, U \cap T) = f[x] + SumFunctionOnSet(f, (U \cap T) \ {x})
        <5>1. U \cap T \in SUBSET S /\ x \in U \cap T
          BY <3>7
        <5>2. IsFiniteSet(U \cap T) /\ \A y \in U \cap T : f[y] \in Int
          BY <1>0, <5>1
        <5>. QED
          BY <5>1, <5>2, SumRemove
      <4>2. (U \cap T) \ {x} = (U \ {x}) \cap T
        OBVIOUS
      <4>. QED
        BY <3>4, <3>5, <4>1, <4>2
    <3>8. CASE x \notin T
      <4>1. U \cap T = (U \ {x}) \cap T /\ f[x] = 0
        BY <3>8
      <4>2. SumFunctionOnSet(f, U) = SumFunctionOnSet(f, U \ {x})
        BY <3>4, <3>6, <4>1
      <4>. QED
        BY <3>5, <4>1, <4>2
    <3>. QED
      BY <3>7, <3>8
  <2>. QED
    BY <2>1
<1>3. Nat \subseteq N
  <2>. HIDE DEF N
  <2>. QED
    BY <1>1, <1>2, SetInduction
<1>4. SumFunctionOnSet(f, S) = SumFunctionOnSet(f, S \cap T)
  BY <1>0, <1>3
<1>5. S \cap T = T
  OBVIOUS
<1>. QED
  BY <1>4, <1>5

\* Two sums differ by what their elements differ by.
LEMMA SumDifference ==
    ASSUME NEW f, NEW g, NEW ff, NEW gg, NEW S, IsFiniteSet(S),
           \A x \in S : f[x] \in Int /\ g[x] \in Int /\ ff[x] \in Int /\ gg[x] \in Int,
           \A x \in S : f[x] - g[x] = ff[x] - gg[x]
    PROVE  SumFunctionOnSet(f, S) - SumFunctionOnSet(g, S)
              = SumFunctionOnSet(ff, S) - SumFunctionOnSet(gg, S)
<1>. DEFINE Same(U) == SumFunctionOnSet(f, U) - SumFunctionOnSet(g, U)
                          = SumFunctionOnSet(ff, U) - SumFunctionOnSet(gg, U)
            N == {n \in Nat : \A U \in SUBSET S : Cardinality(U) = n => Same(U)}
<1>0. \A U \in SUBSET S : IsFiniteSet(U) /\ Cardinality(U) \in Nat /\ (Cardinality(U) = 0 => U = {})
  BY FS_EmptySet, FS_Subset, FS_CardinalityType
<1>1. 0 \in N
  <2>1. \A h : SumFunctionOnSet(h, {}) = 0
    BY FS_EmptySet, SumUnfold
  <2>. QED
    BY <1>0, <2>1
<1>2. ASSUME NEW n \in Nat, n \in N
      PROVE  n + 1 \in N
  <2>1. ASSUME NEW U \in SUBSET S, Cardinality(U) = n + 1
        PROVE  Same(U)
    <3>1. U # {}
      BY <2>1, FS_EmptySet
    <3>2. PICK x \in U : TRUE
      BY <3>1
    <3>. DEFINE V == U \ {x}
    <3>3. V \in SUBSET S /\ Cardinality(V) = n /\ IsFiniteSet(V) /\ IsFiniteSet(U)
      <4>1. U \ {x} \in SUBSET S /\ Cardinality(U \ {x}) = n
        BY <2>1, <3>1, Smaller
      <4>. QED
        BY <1>0, <4>1
    <3>4. /\ SumFunctionOnSet(f, U) = f[x] + SumFunctionOnSet(f, V)
          /\ SumFunctionOnSet(g, U) = g[x] + SumFunctionOnSet(g, V)
          /\ SumFunctionOnSet(ff, U) = ff[x] + SumFunctionOnSet(ff, V)
          /\ SumFunctionOnSet(gg, U) = gg[x] + SumFunctionOnSet(gg, V)
      BY <3>3, SumRemove
    <3>5. /\ SumFunctionOnSet(f, V) \in Int /\ SumFunctionOnSet(g, V) \in Int
          /\ SumFunctionOnSet(ff, V) \in Int /\ SumFunctionOnSet(gg, V) \in Int
      BY <3>3, SumType
    <3>6. SumFunctionOnSet(f, V) - SumFunctionOnSet(g, V)
             = SumFunctionOnSet(ff, V) - SumFunctionOnSet(gg, V)
      BY <1>2, <3>3
    <3>7. /\ f[x] \in Int /\ g[x] \in Int /\ ff[x] \in Int /\ gg[x] \in Int
          /\ f[x] - g[x] = ff[x] - gg[x]
      OBVIOUS
    <3>. HIDE DEF V
    <3>. QED
      BY <3>4, <3>5, <3>6, <3>7
  <2>. QED
    BY <2>1
<1>3. Nat \subseteq N
  <2>. HIDE DEF N
  <2>. QED
    BY <1>1, <1>2, SetInduction
<1>. QED
  BY <1>0, <1>3

-----------------------------------------------------------------------------
(* Sessions and their metrics *)

\* TypeOK, and what the proofs need to know of the transactions.
Typed == TypeOK /\ TransactionsOK /\ LocksExclusive

SessionWritten(w, s) == SessionRow(s) \in DOMAIN writes[w]
MetricsWritten(w, s) == MetricsRow(s) \in DOMAIN writes[w]

\* The two rows of s agree, in what a transaction sees or in what is committed.
Agree(rows, s) == rows[SessionRow(s)] = "completed" <=> rows[MetricsRow(s)] # Absent

(* What the open transaction of w has made of the session and metrics rows   *)
(* of s, and the deferred events that go with it.                            *)
OwnWrites(w, s) ==
    /\ SessionWritten(w, s) =>
          LET old == db[SessionRow(s)]
              new == writes[w][SessionRow(s)]
          IN  /\ new # Absent /\ old \in Terminal => new = old
              /\ new # Absent /\ old = "active" => new # "created"
              /\ new = "completed" => Event("needs_metrics", s) \in events[w]
              /\ new = Absent => s \in deleted
              /\ new = Absent /\ db[MetricsRow(s)] # Absent => MetricsWritten(w, s)
    /\ MetricsWritten(w, s) =>
          LET new == writes[w][MetricsRow(s)]
          IN  /\ new = Absent => Event("protect_metrics", s) \in events[w]
              /\ ~ SessionWritten(w, s) => db[SessionRow(s)] = "completed"
              /\ new # Absent /\ SessionWritten(w, s) => writes[w][SessionRow(s)] = "completed"

(* Two transactions share a session only if it is completed and stays so.    *)
Shared(u, w, s) ==
    SessionWritten(u, s) /\ MetricsWritten(w, s) => writes[u][SessionRow(s)] = "completed"

(* Past its deferred checks, a transaction sees the two rows agree up to its *)
(* commit, whatever others commit in between.                                *)
PassedChecks(w, s) ==
    w \in checked /\ (SessionWritten(w, s) \/ MetricsWritten(w, s)) => Agree(View(w), s)

LifecycleInv ==
    /\ \A s \in Sessions : Agree(db, s)
    /\ \A w \in Writers, s \in Sessions : OwnWrites(w, s) /\ PassedChecks(w, s)
    /\ \A u, w \in Writers, s \in Sessions : u # w => Shared(u, w, s)

Inv == Typed /\ LifecycleInv

-----------------------------------------------------------------------------
(* Statements *)

EventNames == {"needs_metrics", "protect_metrics", "counts_sum"}
Events == {Event(name, s) : name \in EventNames, s \in Sessions}

\* What every statement is: a write of rows of the right types.
WellTyped(new, queued) ==
    /\ DOMAIN new \subseteq Rows /\ \A x \in DOMAIN new : new[x] \in ValuesOf(x)
    /\ queued \subseteq Events

\* What a statement of w, other than on samples and counts, does to session s.
Inserts(w, s, new) ==
    /\ SessionRow(s) \in DOMAIN new /\ MetricsRow(s) \notin DOMAIN new
    /\ ~ Exists(w, SessionRow(s)) /\ s \notin deleted
    /\ new[SessionRow(s)] = "created"

Updates(w, s, new, queued) ==
    /\ SessionRow(s) \in DOMAIN new /\ MetricsRow(s) \notin DOMAIN new
    /\ Exists(w, SessionRow(s)) /\ new[SessionRow(s)] \in Lifecycles
    /\ \/ new[SessionRow(s)] = View(w)[SessionRow(s)]
       \/ LegalTransition(View(w)[SessionRow(s)], new[SessionRow(s)])
    /\ new[SessionRow(s)] = "completed" => Event("needs_metrics", s) \in queued

Deletes(w, s, new, queued) ==
    /\ Exists(w, SessionRow(s)) /\ Free(w, {SessionRow(s), MetricsRow(s)})
    /\ SessionRow(s) \in DOMAIN new /\ new[SessionRow(s)] = Absent
    /\ Exists(w, MetricsRow(s)) => MetricsRow(s) \in DOMAIN new
    /\ MetricsRow(s) \in DOMAIN new => new[MetricsRow(s)] = Absent
    /\ Event("protect_metrics", s) \in queued
    /\ s \in deleted'

SetsMetrics(w, s, new) ==
    /\ SessionRow(s) \notin DOMAIN new /\ MetricsRow(s) \in DOMAIN new
    /\ View(w)[SessionRow(s)] = "completed" /\ new[MetricsRow(s)] # Absent
    /\ ParentHeld(w, SessionRow(s)) \/ Exists(w, MetricsRow(s))

DropsMetrics(w, s, new, queued) ==
    /\ SessionRow(s) \notin DOMAIN new /\ MetricsRow(s) \in DOMAIN new
    /\ Exists(w, MetricsRow(s)) /\ new[MetricsRow(s)] = Absent
    /\ Event("protect_metrics", s) \in queued

Untouched(t, new) == SessionRow(t) \notin DOMAIN new /\ MetricsRow(t) \notin DOMAIN new

Effect(w, s, new, queued) ==
    /\ Write(w, new, queued) /\ WellTyped(new, queued)
    /\ deleted \subseteq deleted' /\ deleted' \subseteq Sessions
    /\ \A t \in Sessions \ {s} : Untouched(t, new)
    /\ \/ Inserts(w, s, new) \/ Updates(w, s, new, queued) \/ Deletes(w, s, new, queued)
       \/ SetsMetrics(w, s, new) \/ DropsMetrics(w, s, new, queued) \/ Untouched(s, new)

LEMMA RowKinds ==
    ASSUME NEW s \in Sessions
    PROVE  /\ SessionRow(s) \in Rows /\ ValuesOf(SessionRow(s)) = {Absent} \cup Lifecycles
           /\ MetricsRow(s) \in Rows /\ ValuesOf(MetricsRow(s)) = {Absent} \cup 0 .. MaxInvalid
           /\ \A n \in Seqs : SampleRow(s, n) \in Rows /\ ValuesOf(SampleRow(s, n)) = {Absent} \cup Payloads
           /\ \A reason \in Reasons :
                 CountRow(s, reason) \in Rows /\ ValuesOf(CountRow(s, reason)) = {Absent} \cup 0 .. MaxInvalid
<1>1. SessionRow(s) \in Rows /\ ValuesOf(SessionRow(s)) = {Absent} \cup Lifecycles
  BY DEF Rows, RowsOf, SessionRow, ValuesOf
<1>2. MetricsRow(s) \in Rows /\ ValuesOf(MetricsRow(s)) = {Absent} \cup 0 .. MaxInvalid
  BY DEF Rows, RowsOf, MetricsRow, ValuesOf
<1>3. \A n \in Seqs : SampleRow(s, n) \in Rows /\ ValuesOf(SampleRow(s, n)) = {Absent} \cup Payloads
  BY DEF Rows, RowsOf, SampleRows, SampleRow, ValuesOf
<1>4. \A reason \in Reasons :
         CountRow(s, reason) \in Rows /\ ValuesOf(CountRow(s, reason)) = {Absent} \cup 0 .. MaxInvalid
  BY DEF Rows, RowsOf, CountRows, CountRow, ValuesOf
<1>. QED
  BY <1>1, <1>2, <1>3, <1>4

\* Rows of different kinds or of different sessions are different.
LEMMA RowsDiffer ==
    ASSUME NEW s \in Sessions, NEW t \in Sessions
    PROVE  /\ SessionRow(s) # MetricsRow(t)
           /\ s # t => SessionRow(s) # SessionRow(t) /\ MetricsRow(s) # MetricsRow(t)
           /\ \A n : SampleRow(s, n) # SessionRow(t) /\ SampleRow(s, n) # MetricsRow(t)
           /\ \A reason : CountRow(s, reason) # SessionRow(t) /\ CountRow(s, reason) # MetricsRow(t)
<1>1. SessionRow(s) # MetricsRow(t)
  BY DEF SessionRow, MetricsRow
<1>2. s # t => SessionRow(s) # SessionRow(t) /\ MetricsRow(s) # MetricsRow(t)
  BY DEF SessionRow, MetricsRow
<1>3. \A n : SampleRow(s, n) # SessionRow(t) /\ SampleRow(s, n) # MetricsRow(t)
  BY DEF SessionRow, MetricsRow, SampleRow
<1>4. \A reason : CountRow(s, reason) # SessionRow(t) /\ CountRow(s, reason) # MetricsRow(t)
  BY DEF SessionRow, MetricsRow, CountRow
<1>. QED
  BY <1>1, <1>2, <1>3, <1>4

LEMMA OneRow ==
    ASSUME NEW x \in Rows, NEW value \in ValuesOf(x), NEW queued \in SUBSET Events
    PROVE  /\ DOMAIN Set(x, value) = {x} /\ Set(x, value)[x] = value
           /\ WellTyped(Set(x, value), queued)
           /\ \A t : x # SessionRow(t) /\ x # MetricsRow(t) => Untouched(t, Set(x, value))
<1>1. DOMAIN Set(x, value) = {x} /\ Set(x, value)[x] = value
  BY DEF Set
<1>. QED
  BY <1>1 DEF WellTyped, Untouched

\* The rows of a session, and which of them are the session and metrics rows of t.
LEMMA RowsOfSession ==
    ASSUME NEW s \in Sessions
    PROVE  /\ RowsOf(s) \subseteq Rows
           /\ SessionRow(s) \in RowsOf(s) /\ MetricsRow(s) \in RowsOf(s)
           /\ {MetricsRow(s)} \cup CountRows(s) \subseteq Rows
           /\ SessionRow(s) \notin {MetricsRow(s)} \cup CountRows(s)
           /\ \A t \in Sessions \ {s} : SessionRow(t) \notin RowsOf(s) /\ MetricsRow(t) \notin RowsOf(s)
           /\ CountRows(s) \subseteq RowsOf(s)
<1>1. RowsOf(s) \subseteq Rows /\ SessionRow(s) \in RowsOf(s) /\ MetricsRow(s) \in RowsOf(s)
      /\ CountRows(s) \subseteq RowsOf(s)
  BY DEF Rows, RowsOf
<1>2. SessionRow(s) \notin {MetricsRow(s)} \cup CountRows(s)
  BY RowsDiffer DEF CountRows
<1>3. ASSUME NEW t \in Sessions \ {s}
      PROVE  SessionRow(t) \notin RowsOf(s) /\ MetricsRow(t) \notin RowsOf(s)
  BY RowsDiffer DEF RowsOf, SampleRows, CountRows
<1>. QED
  BY <1>1, <1>2, <1>3

LEMMA StatementDef ==
    ASSUME Typed, NEW w \in Writers, NEW s \in Sessions, Statement(w, s)
    PROVE  \E new, queued : Effect(w, s, new, queued)
<1>0. /\ \A name \in EventNames : Event(name, s) \in Events
      /\ deleted \subseteq Sessions
  BY DEF Events, Typed, TypeOK
<1>1. CASE InsertSession(w, s)
  <2>1. Write(w, Set(SessionRow(s), "created"), {}) /\ deleted' = deleted
        /\ ~ Exists(w, SessionRow(s)) /\ s \notin deleted
    BY <1>1 DEF InsertSession
  <2>. DEFINE new == Set(SessionRow(s), "created")
  <2>2. /\ DOMAIN new = {SessionRow(s)} /\ new[SessionRow(s)] = "created" /\ WellTyped(new, {})
        /\ \A t \in Sessions : SessionRow(s) # SessionRow(t) /\ SessionRow(s) # MetricsRow(t) => Untouched(t, new)
    BY RowKinds, OneRow DEF Lifecycles
  <2>3. Inserts(w, s, new) /\ \A t \in Sessions \ {s} : Untouched(t, new)
    BY <2>1, <2>2, RowsDiffer DEF Inserts
  <2>. QED
    BY <1>0, <2>1, <2>2, <2>3 DEF Effect
<1>2. CASE UpdateSession(w, s)
  <2>1. PICK value \in Lifecycles :
          /\ Exists(w, SessionRow(s))
          /\ value = View(w)[SessionRow(s)] \/ LegalTransition(View(w)[SessionRow(s)], value)
          /\ Write(w, Set(SessionRow(s), value),
                   IF value = "completed" THEN {Event("needs_metrics", s)} ELSE {})
          /\ deleted' = deleted
    BY <1>2 DEF UpdateSession
  <2>. DEFINE new == Set(SessionRow(s), value)
              queued == IF value = "completed" THEN {Event("needs_metrics", s)} ELSE {}
  <2>2. /\ DOMAIN new = {SessionRow(s)} /\ new[SessionRow(s)] = value /\ WellTyped(new, queued)
        /\ \A t \in Sessions : SessionRow(s) # SessionRow(t) /\ SessionRow(s) # MetricsRow(t) => Untouched(t, new)
    <3>1. queued \subseteq Events
      BY <1>0 DEF EventNames
    <3>. QED
      BY <3>1, RowKinds, OneRow
  <2>3. Updates(w, s, new, queued) /\ \A t \in Sessions \ {s} : Untouched(t, new)
    <3>1. value = "completed" => Event("needs_metrics", s) \in queued
      OBVIOUS
    <3>. QED
      BY <2>1, <2>2, <3>1, RowsDiffer DEF Updates
  <2>. QED
    BY <1>0, <2>1, <2>2, <2>3 DEF Effect
<1>3. CASE DeleteSession(w, s)
  <2>. DEFINE new == [x \in {x \in RowsOf(s) : Exists(w, x)} |-> Absent]
              queued == {Event(name, s) : name \in {"protect_metrics", "counts_sum"}}
  <2>1. /\ Exists(w, SessionRow(s)) /\ Free(w, RowsOf(s)) /\ Write(w, new, queued)
        /\ deleted' = deleted \cup {s}
    BY <1>3 DEF DeleteSession
  <2>2. WellTyped(new, queued)
    BY <1>0, RowsOfSession DEF WellTyped, EventNames, ValuesOf
  <2>3. Deletes(w, s, new, queued) /\ \A t \in Sessions \ {s} : Untouched(t, new)
    BY <2>1, RowsOfSession DEF Deletes, Untouched, Free
  <2>. QED
    BY <1>0, <2>1, <2>2, <2>3 DEF Effect
<1>4. ASSUME NEW n \in Seqs, InsertSample(w, s, n) \/ UpdateSample(w, s, n) \/ DeleteSample(w, s, n),
             UNCHANGED deleted
      PROVE  \E new, queued : Effect(w, s, new, queued)
  <2>1. PICK value \in {Absent} \cup Payloads : Write(w, Set(SampleRow(s, n), value), {})
    BY <1>4 DEF InsertSample, UpdateSample, DeleteSample
  <2>. DEFINE new == Set(SampleRow(s, n), value)
  <2>2. /\ WellTyped(new, {})
        /\ \A t \in Sessions : SampleRow(s, n) # SessionRow(t) /\ SampleRow(s, n) # MetricsRow(t) => Untouched(t, new)
    BY RowKinds, OneRow
  <2>3. \A t \in Sessions : Untouched(t, new)
    BY <2>2, RowsDiffer
  <2>. QED
    BY <1>0, <1>4, <2>1, <2>2, <2>3 DEF Effect
<1>5. ASSUME InsertMetrics(w, s) \/ UpdateMetrics(w, s), UNCHANGED deleted
      PROVE  \E new, queued : Effect(w, s, new, queued)
  <2>1. PICK invalid \in 0 .. MaxInvalid :
          /\ View(w)[SessionRow(s)] = "completed"
          /\ ParentHeld(w, SessionRow(s)) \/ Exists(w, MetricsRow(s))
          /\ Write(w, Set(MetricsRow(s), invalid), {Event("counts_sum", s)})
    BY <1>5 DEF InsertMetrics, UpdateMetrics
  <2>. DEFINE new == Set(MetricsRow(s), invalid)
              queued == {Event("counts_sum", s)}
  <2>2. /\ DOMAIN new = {MetricsRow(s)} /\ new[MetricsRow(s)] = invalid /\ WellTyped(new, queued)
        /\ \A t \in Sessions : MetricsRow(s) # SessionRow(t) /\ MetricsRow(s) # MetricsRow(t) => Untouched(t, new)
    <3>1. queued \subseteq Events
      BY <1>0 DEF EventNames
    <3>. QED
      BY <3>1, RowKinds, OneRow
  <2>3. SetsMetrics(w, s, new) /\ \A t \in Sessions \ {s} : Untouched(t, new)
    BY <2>1, <2>2, RowsDiffer, AbsentAssumption DEF SetsMetrics
  <2>. QED
    BY <1>0, <1>5, <2>1, <2>2, <2>3 DEF Effect
<1>6. ASSUME DeleteMetrics(w, s), UNCHANGED deleted
      PROVE  \E new, queued : Effect(w, s, new, queued)
  <2>. DEFINE new == [x \in {x \in {MetricsRow(s)} \cup CountRows(s) : Exists(w, x)} |-> Absent]
              queued == {Event(name, s) : name \in {"protect_metrics", "counts_sum"}}
  <2>1. Exists(w, MetricsRow(s)) /\ Write(w, new, queued)
    BY <1>6 DEF DeleteMetrics
  <2>2. WellTyped(new, queued)
    BY <1>0, RowsOfSession DEF WellTyped, EventNames, ValuesOf
  <2>3. DropsMetrics(w, s, new, queued) /\ \A t \in Sessions \ {s} : Untouched(t, new)
    BY <2>1, RowsOfSession DEF DropsMetrics, Untouched
  <2>. QED
    BY <1>0, <1>6, <2>1, <2>2, <2>3 DEF Effect
<1>7. ASSUME NEW reason \in Reasons, UNCHANGED deleted,
             InsertCount(w, s, reason) \/ UpdateCount(w, s, reason) \/ DeleteCount(w, s, reason)
      PROVE  \E new, queued : Effect(w, s, new, queued)
  <2>1. PICK value \in {Absent} \cup 0 .. MaxInvalid :
          Write(w, Set(CountRow(s, reason), value), {Event("counts_sum", s)})
    BY <1>7 DEF InsertCount, UpdateCount, DeleteCount
  <2>. DEFINE new == Set(CountRow(s, reason), value)
              queued == {Event("counts_sum", s)}
  <2>2. /\ WellTyped(new, queued)
        /\ \A t \in Sessions : CountRow(s, reason) # SessionRow(t) /\ CountRow(s, reason) # MetricsRow(t)
                => Untouched(t, new)
    <3>1. queued \subseteq Events
      BY <1>0 DEF EventNames
    <3>. QED
      BY <3>1, RowKinds, OneRow
  <2>3. \A t \in Sessions : Untouched(t, new)
    BY <2>2, RowsDiffer
  <2>. QED
    BY <1>0, <1>7, <2>1, <2>2, <2>3 DEF Effect
<1>. QED
  BY <1>1, <1>2, <1>3, <1>4, <1>5, <1>6, <1>7 DEF Statement

-----------------------------------------------------------------------------
(* Statements keep the invariant *)

\* What the writing transaction has of the session and metrics rows afterwards.
LEMMA EffectDef ==
    ASSUME Inv, NEW w \in Writers, NEW s \in Sessions, NEW new, NEW queued, Effect(w, s, new, queued)
    PROVE  /\ UNCHANGED <<db, checked>> /\ w \notin checked
           /\ \A u \in Writers \ {w} : writes'[u] = writes[u] /\ events'[u] = events[u]
           /\ DOMAIN writes'[w] = DOMAIN writes[w] \cup DOMAIN new
           /\ \A x \in DOMAIN writes'[w] :
                 writes'[w][x] = IF x \in DOMAIN new THEN new[x] ELSE writes[w][x]
           /\ events'[w] = events[w] \cup queued
           /\ deleted \subseteq deleted'
           /\ Typed'
<1>1. DOMAIN new \subseteq DOMAIN db /\ Write(w, new, queued) /\ WellTyped(new, queued)
  BY DEF Effect, WellTyped, Inv, Typed, TypeOK
<1>2. /\ UNCHANGED <<db, checked>>
      /\ \A u \in Writers \ {w} : writes'[u] = writes[u] /\ events'[u] = events[u]
      /\ DOMAIN writes'[w] = DOMAIN writes[w] \cup DOMAIN new
      /\ \A x \in DOMAIN writes'[w] :
            writes'[w][x] = IF x \in DOMAIN new THEN new[x] ELSE writes[w][x]
      /\ events'[w] = events[w] \cup queued
      /\ TransactionsOK' /\ LocksExclusive'
  BY <1>1, WriteDef, WriteKeepsLocks DEF Inv, Typed
<1>3. w \notin checked
  BY <1>1 DEF Write
<1>4. TypeOK'
  <2>1. \A u \in Writers : \A x \in DOMAIN writes'[u] : x \in Rows /\ writes'[u][x] \in ValuesOf(x)
    BY <1>1, <1>2 DEF Inv, Typed, TypeOK, WellTyped
  <2>2. \A event \in queued : event.session \in Sessions /\ event.name \in EventNames
    BY <1>1 DEF WellTyped, Events, Event
  <2>3. \A u \in Writers : \A event \in events'[u] : event.session \in Sessions /\ event.name \in EventNames
    BY <1>2, <2>2 DEF Inv, Typed, TypeOK, EventNames
  <2>. QED
    BY <1>2, <2>1, <2>3 DEF Effect, Inv, Typed, TypeOK, TransactionsOK, EventNames
<1>. QED
  BY <1>2, <1>3, <1>4 DEF Effect, Typed

\* The session and metrics rows as w sees them.
LEMMA Sees ==
    ASSUME Typed, NEW w \in Writers, NEW s \in Sessions
    PROVE  /\ View(w)[SessionRow(s)] = IF SessionWritten(w, s) THEN writes[w][SessionRow(s)]
                                                               ELSE db[SessionRow(s)]
           /\ View(w)[MetricsRow(s)] = IF MetricsWritten(w, s) THEN writes[w][MetricsRow(s)]
                                                               ELSE db[MetricsRow(s)]
           /\ db[SessionRow(s)] \in {Absent} \cup Lifecycles
           /\ SessionWritten(w, s) => writes[w][SessionRow(s)] \in {Absent} \cup Lifecycles
           /\ Absent \notin Lifecycles
  BY ViewDef, RowKinds, AbsentAssumption DEF Typed, TypeOK, SessionWritten, MetricsWritten

LEMMA OwnWritesNext ==
    ASSUME Inv, NEW w \in Writers, NEW s \in Sessions, NEW new, NEW queued, Effect(w, s, new, queued)
    PROVE  OwnWrites(w, s)'
<1>. DEFINE S == SessionRow(s)
            M == MetricsRow(s)
<1>1. /\ db' = db /\ deleted \subseteq deleted'
      /\ DOMAIN writes'[w] = DOMAIN writes[w] \cup DOMAIN new
      /\ \A x \in DOMAIN writes'[w] :
            writes'[w][x] = IF x \in DOMAIN new THEN new[x] ELSE writes[w][x]
      /\ events'[w] = events[w] \cup queued
  BY EffectDef
<1>2. OwnWrites(w, s) /\ Agree(db, s)
  BY DEF Inv, LifecycleInv
<1>3. /\ View(w)[S] = IF SessionWritten(w, s) THEN writes[w][S] ELSE db[S]
      /\ View(w)[M] = IF MetricsWritten(w, s) THEN writes[w][M] ELSE db[M]
      /\ db[S] \in {Absent} \cup Lifecycles /\ Absent \notin Lifecycles
      /\ SessionWritten(w, s) => writes[w][S] \in {Absent} \cup Lifecycles
  BY Sees DEF Inv
<1>. USE DEF OwnWrites, SessionWritten, MetricsWritten
<1>4. CASE Inserts(w, s, new)
  BY <1>1, <1>2, <1>3, <1>4 DEF Inserts, Exists, Agree, Terminal, Lifecycles
<1>5. CASE Updates(w, s, new, queued)
  <2>1. /\ S \in DOMAIN writes'[w] /\ writes'[w][S] = new[S] /\ new[S] \in Lifecycles
        /\ M \in DOMAIN writes'[w] <=> M \in DOMAIN writes[w]
        /\ M \in DOMAIN writes[w] => writes'[w][M] = writes[w][M]
        /\ events[w] \subseteq events'[w]
        /\ new[S] = "completed" => Event("needs_metrics", s) \in events'[w]
    BY <1>1, <1>5 DEF Updates
  <2>2. new[S] = View(w)[S] \/ LegalTransition(View(w)[S], new[S])
    BY <1>5 DEF Updates
  <2>3. /\ db[S] \in Terminal => new[S] = db[S]
        /\ db[S] = "active" => new[S] # "created"
        /\ View(w)[S] = "completed" => new[S] = "completed"
    BY <1>2, <1>3, <1>5, <2>2 DEF Updates, Exists, Terminal, Lifecycles, LegalTransition
  <2>4. M \in DOMAIN writes[w] /\ writes[w][M] # Absent => View(w)[S] = "completed"
    BY <1>2, <1>3
  <2>. QED
    BY <1>1, <1>2, <1>3, <2>1, <2>3, <2>4
<1>6. CASE Deletes(w, s, new, queued)
  <2>1. /\ S \in DOMAIN writes'[w] /\ writes'[w][S] = Absent /\ s \in deleted'
        /\ Event("protect_metrics", s) \in events'[w] /\ M # S
    BY <1>1, <1>6, RowsDiffer DEF Deletes
  <2>2. M \in DOMAIN writes'[w] => writes'[w][M] = Absent
    BY <1>1, <1>3, <1>6 DEF Deletes, Exists
  <2>3. db[M] # Absent => M \in DOMAIN writes'[w]
    BY <1>1, <1>3, <1>6 DEF Deletes, Exists
  <2>. QED
    BY <1>1, <1>3, <2>1, <2>2, <2>3 DEF Lifecycles
<1>7. CASE SetsMetrics(w, s, new)
  BY <1>1, <1>2, <1>3, <1>7 DEF SetsMetrics
<1>8. CASE DropsMetrics(w, s, new, queued)
  BY <1>1, <1>2, <1>3, <1>8 DEF DropsMetrics, Exists, Agree
<1>9. CASE Untouched(s, new)
  BY <1>1, <1>2, <1>3, <1>9 DEF Untouched
<1>. QED
  BY <1>4, <1>5, <1>6, <1>7, <1>8, <1>9 DEF Effect

\* Rows of other sessions, and the writes of other transactions, stay as they are.
LEMMA OwnWritesKept ==
    ASSUME Inv, NEW w \in Writers, NEW s \in Sessions, NEW new, NEW queued, Effect(w, s, new, queued),
           NEW u \in Writers, NEW t \in Sessions, u # w \/ t # s
    PROVE  /\ OwnWrites(u, t)'
           /\ SessionWritten(u, t)' = SessionWritten(u, t)
           /\ MetricsWritten(u, t)' = MetricsWritten(u, t)
           /\ SessionWritten(u, t) => writes'[u][SessionRow(t)] = writes[u][SessionRow(t)]
           /\ MetricsWritten(u, t) => writes'[u][MetricsRow(t)] = writes[u][MetricsRow(t)]
<1>1. /\ db' = db /\ deleted \subseteq deleted'
      /\ \A v \in Writers \ {w} : writes'[v] = writes[v] /\ events'[v] = events[v]
      /\ DOMAIN writes'[w] = DOMAIN writes[w] \cup DOMAIN new
      /\ \A x \in DOMAIN writes'[w] :
            writes'[w][x] = IF x \in DOMAIN new THEN new[x] ELSE writes[w][x]
      /\ events'[w] = events[w] \cup queued
  BY EffectDef
<1>2. OwnWrites(u, t)
  BY DEF Inv, LifecycleInv
<1>3. u = w => Untouched(t, new)
  BY DEF Effect
<1>4. /\ SessionWritten(u, t)' = SessionWritten(u, t)
      /\ MetricsWritten(u, t)' = MetricsWritten(u, t)
      /\ SessionWritten(u, t) => writes'[u][SessionRow(t)] = writes[u][SessionRow(t)]
      /\ MetricsWritten(u, t) => writes'[u][MetricsRow(t)] = writes[u][MetricsRow(t)]
      /\ events[u] \subseteq events'[u]
  BY <1>1, <1>3 DEF SessionWritten, MetricsWritten, Untouched
<1>. QED
  BY <1>1, <1>2, <1>4 DEF OwnWrites

\* A row of s is written by w alone.
LEMMA OneOwner ==
    ASSUME Inv, NEW u \in Writers, NEW w \in Writers, u # w, NEW s \in Sessions
    PROVE  /\ ~ (SessionWritten(u, s) /\ SessionWritten(w, s))
           /\ ~ (MetricsWritten(u, s) /\ MetricsWritten(w, s))
           /\ SessionWritten(u, s) /\ MetricsWritten(w, s) =>
                 writes[u][SessionRow(s)] = "completed" /\ db[SessionRow(s)] = "completed"
  BY DEF Inv, Typed, LocksExclusive, LifecycleInv, Shared, OwnWrites, SessionWritten, MetricsWritten

\* w writes the session row of s while u has written its metrics.
LEMMA SharedSession ==
    ASSUME Inv, NEW w \in Writers, NEW s \in Sessions, NEW new, NEW queued, Effect(w, s, new, queued),
           NEW u \in Writers, u # w, MetricsWritten(u, s), SessionRow(s) \in DOMAIN new
    PROVE  new[SessionRow(s)] = "completed"
<1>1. Free(w, DOMAIN new)
  BY DEF Effect, Write
<1>2. ~ SessionWritten(u, s)
  BY <1>1 DEF Free, SessionWritten
<1>3. db[SessionRow(s)] = "completed"
  BY <1>2 DEF Inv, LifecycleInv, OwnWrites
<1>4. View(w)[SessionRow(s)] = "completed"
  BY <1>3, OneOwner, Sees DEF Inv
<1>5. ~ Inserts(w, s, new)
  BY <1>4, AbsentAssumption DEF Inserts, Exists, Lifecycles
<1>6. ~ Deletes(w, s, new, queued)
  BY DEF Deletes, Free, MetricsWritten
<1>. QED
  BY <1>4, <1>5, <1>6 DEF Effect, Updates, LegalTransition, SetsMetrics, DropsMetrics, Untouched

\* w writes the metrics row of s while u has written its session row.
LEMMA SharedMetrics ==
    ASSUME Inv, NEW w \in Writers, NEW s \in Sessions, NEW new, NEW queued, Effect(w, s, new, queued),
           NEW u \in Writers, u # w, SessionWritten(u, s), MetricsRow(s) \in DOMAIN new
    PROVE  writes[u][SessionRow(s)] = "completed"
<1>1. Free(w, DOMAIN new)
  BY DEF Effect, Write
<1>2. ~ MetricsWritten(u, s)
  BY <1>1 DEF Free, MetricsWritten
<1>3. ~ Deletes(w, s, new, queued)
  BY DEF Deletes, Free, SessionWritten
<1>4. View(w)[SessionRow(s)] = db[SessionRow(s)]
  BY OneOwner, Sees DEF Inv
<1>5. MetricsWritten(w, s) => writes[u][SessionRow(s)] = "completed"
  BY OneOwner
<1>6. ~ MetricsWritten(w, s) /\ Exists(w, MetricsRow(s)) =>
        db[SessionRow(s)] = "completed" /\ writes[u][SessionRow(s)] # Absent
  BY <1>2, Sees DEF Inv, Exists, LifecycleInv, Agree, OwnWrites
<1>7. ParentHeld(w, SessionRow(s)) => writes[u][SessionRow(s)] # Absent
  BY DEF ParentHeld, SessionWritten
<1>8. db[SessionRow(s)] = "completed" /\ writes[u][SessionRow(s)] # Absent =>
        writes[u][SessionRow(s)] = "completed"
  BY DEF Inv, LifecycleInv, OwnWrites, Terminal
<1>9. SetsMetrics(w, s, new) \/ DropsMetrics(w, s, new, queued)
  BY <1>3 DEF Effect, Inserts, Updates, Untouched
<1>. QED
  BY <1>4, <1>5, <1>6, <1>7, <1>8, <1>9 DEF SetsMetrics, DropsMetrics

LEMMA StatementInv ==
    ASSUME Inv, NEW w \in Writers, NEW s \in Sessions, Statement(w, s)
    PROVE  Inv' /\ db' = db
<1>1. PICK new, queued : Effect(w, s, new, queued)
  BY StatementDef DEF Inv
<1>2. /\ UNCHANGED <<db, checked>> /\ w \notin checked
      /\ \A u \in Writers \ {w} : writes'[u] = writes[u]
      /\ DOMAIN writes'[w] = DOMAIN writes[w] \cup DOMAIN new
      /\ \A x \in DOMAIN writes'[w] :
            writes'[w][x] = IF x \in DOMAIN new THEN new[x] ELSE writes[w][x]
      /\ Typed'
  BY <1>1, EffectDef
<1>3. \A t \in Sessions : Agree(db, t)'
  BY <1>2 DEF Inv, LifecycleInv, Agree
<1>4. \A u \in Writers, t \in Sessions : OwnWrites(u, t)'
  BY <1>1, OwnWritesNext, OwnWritesKept
<1>5. ASSUME NEW u \in Writers, NEW t \in Sessions
      PROVE  PassedChecks(u, t)'
  <2>1. CASE u = w
    BY <1>2, <2>1 DEF PassedChecks
  <2>2. CASE u # w
    <3>1. View(u)' = View(u)
      BY <1>2, <2>2 DEF View
    <3>. QED
      BY <1>2, <2>2, <3>1 DEF Inv, LifecycleInv, PassedChecks, Agree, SessionWritten, MetricsWritten
  <2>. QED
    BY <2>1, <2>2
<1>6. ASSUME NEW u \in Writers, NEW v \in Writers, NEW t \in Sessions, u # v
      PROVE  Shared(u, v, t)'
  <2>1. CASE (u # w \/ t # s) /\ (v # w \/ t # s)
    <3>1. /\ SessionWritten(u, t)' = SessionWritten(u, t)
          /\ SessionWritten(u, t) => writes'[u][SessionRow(t)] = writes[u][SessionRow(t)]
          /\ MetricsWritten(v, t)' = MetricsWritten(v, t)
      BY <1>1, <2>1, OwnWritesKept
    <3>. QED
      BY <1>6, <3>1 DEF Inv, LifecycleInv, Shared
  <2>2. CASE u = w /\ t = s
    <3>1. Shared(w, v, s)
      BY <1>6, <2>2 DEF Inv, LifecycleInv
    <3>2. v # w /\ MetricsWritten(v, s)' = MetricsWritten(v, s)
      BY <1>2, <1>6, <2>2 DEF MetricsWritten
    <3>3. MetricsWritten(v, s) /\ SessionRow(s) \in DOMAIN new => new[SessionRow(s)] = "completed"
      BY <1>1, <3>2, SharedSession
    <3>. QED
      BY <1>2, <2>2, <3>1, <3>2, <3>3 DEF Shared, SessionWritten
  <2>3. CASE v = w /\ t = s
    <3>1. Shared(u, w, s)
      BY <1>6, <2>3 DEF Inv, LifecycleInv
    <3>2. u # w /\ SessionWritten(u, s)' = SessionWritten(u, s) /\ writes'[u] = writes[u]
      BY <1>2, <1>6, <2>3 DEF SessionWritten
    <3>3. SessionWritten(u, s) /\ MetricsRow(s) \in DOMAIN new => writes[u][SessionRow(s)] = "completed"
      BY <1>1, <3>2, SharedMetrics
    <3>. QED
      BY <1>2, <2>3, <3>1, <3>2, <3>3 DEF Shared, MetricsWritten
  <2>. QED
    BY <1>6, <2>1, <2>2, <2>3
<1>. QED
  BY <1>2, <1>3, <1>4, <1>5, <1>6 DEF Inv, LifecycleInv

-----------------------------------------------------------------------------
(* The end of a transaction keeps the invariant *)

\* The deferred checks suffice for the two rows to agree in the view of w.
LEMMA ChecksSuffice ==
    ASSUME Inv, NEW w \in Writers, NEW s \in Sessions,
           \A event \in events[w] : Holds(View(w), event),
           SessionWritten(w, s) \/ MetricsWritten(w, s)
    PROVE  Agree(View(w), s)
<1>. DEFINE S == SessionRow(s)
            M == MetricsRow(s)
<1>1. OwnWrites(w, s) /\ Agree(db, s)
  BY DEF Inv, LifecycleInv
<1>2. /\ View(w)[S] = IF SessionWritten(w, s) THEN writes[w][S] ELSE db[S]
      /\ View(w)[M] = IF MetricsWritten(w, s) THEN writes[w][M] ELSE db[M]
  BY Sees DEF Inv
<1>3. Event("needs_metrics", s) \in events[w] => View(w)[M] # Absent
  BY DEF Holds, Event
<1>4. Event("protect_metrics", s) \in events[w] /\ View(w)[S] = "completed" => View(w)[M] # Absent
  BY DEF Holds, Event
<1>5. ASSUME View(w)[S] = "completed"
      PROVE  View(w)[M] # Absent
  BY <1>1, <1>2, <1>3, <1>4, <1>5 DEF OwnWrites
<1>6. ASSUME View(w)[M] # Absent
      PROVE  View(w)[S] = "completed"
  BY <1>1, <1>2, <1>6 DEF OwnWrites, Agree, Terminal
<1>. QED
  BY <1>5, <1>6 DEF Agree

LEMMA RunDeferredInv ==
    ASSUME Inv, NEW w \in Writers,
           RunDeferred(w, \A event \in events[w] : Holds(View(w), event)), UNCHANGED deleted
    PROVE  Inv' /\ db' = db
<1>1. /\ UNCHANGED <<db, writes, events, step>> /\ checked' = checked \cup {w}
      /\ \A event \in events[w] : Holds(View(w), event)
  BY DEF RunDeferred
<1>2. Typed'
  BY <1>1 DEF Inv, Typed, TypeOK, TransactionsOK, LocksExclusive
<1>3. View(w)' = View(w) /\ \A u \in Writers : View(u)' = View(u)
  BY <1>1 DEF View
<1>4. ASSUME NEW u \in Writers, NEW s \in Sessions
      PROVE  PassedChecks(u, s)'
  BY <1>1, <1>3, ChecksSuffice DEF Inv, LifecycleInv, PassedChecks, Agree, SessionWritten, MetricsWritten
<1>. QED
  BY <1>1, <1>2, <1>4 DEF Inv, LifecycleInv, Agree, OwnWrites, Shared, SessionWritten, MetricsWritten

LEMMA RollbackInv ==
    ASSUME Inv, NEW w \in Writers, Rollback(w), UNCHANGED deleted
    PROVE  Inv' /\ db' = db
<1>1. /\ db' = db
      /\ \A u \in Writers \ {w} : writes'[u] = writes[u] /\ events'[u] = events[u]
      /\ DOMAIN writes'[w] = {} /\ events'[w] = {}
      /\ TransactionsOK' /\ LocksExclusive' /\ checked' = checked \ {w}
  BY RollbackDef DEF Inv, Typed, Rollback, Reset
<1>2. Typed'
  BY <1>1 DEF Inv, Typed, TypeOK, TransactionsOK
<1>3. \A u \in Writers \ {w} : View(u)' = View(u)
  BY <1>1 DEF View
<1>4. ASSUME NEW u \in Writers, NEW s \in Sessions
      PROVE  OwnWrites(u, s)' /\ PassedChecks(u, s)'
  BY <1>1, <1>3 DEF Inv, LifecycleInv, OwnWrites, PassedChecks, Agree, SessionWritten, MetricsWritten
<1>5. ASSUME NEW u \in Writers, NEW v \in Writers, NEW s \in Sessions, u # v
      PROVE  Shared(u, v, s)'
  BY <1>1, <1>5 DEF Inv, LifecycleInv, Shared, SessionWritten, MetricsWritten
<1>. QED
  BY <1>1, <1>2, <1>4, <1>5 DEF Inv, LifecycleInv, Agree

\* What a commit does to the two rows, and what its view had them be.
LEMMA CommitRows ==
    ASSUME Inv, NEW w \in Writers, Commit(w), NEW s \in Sessions
    PROVE  /\ db'[SessionRow(s)] = IF SessionWritten(w, s) THEN writes[w][SessionRow(s)] ELSE db[SessionRow(s)]
           /\ db'[MetricsRow(s)] = IF MetricsWritten(w, s) THEN writes[w][MetricsRow(s)] ELSE db[MetricsRow(s)]
           /\ Agree(db', s)
<1>1. /\ db'[SessionRow(s)] = View(w)[SessionRow(s)]
      /\ db'[MetricsRow(s)] = View(w)[MetricsRow(s)]
  BY DEF Commit
<1>2. /\ db'[SessionRow(s)] = IF SessionWritten(w, s) THEN writes[w][SessionRow(s)] ELSE db[SessionRow(s)]
      /\ db'[MetricsRow(s)] = IF MetricsWritten(w, s) THEN writes[w][MetricsRow(s)] ELSE db[MetricsRow(s)]
  BY <1>1, Sees DEF Inv
<1>3. CASE SessionWritten(w, s) \/ MetricsWritten(w, s)
  <2>1. Agree(View(w), s)
    BY <1>3 DEF Commit, Inv, LifecycleInv, PassedChecks
  <2>. QED
    BY <1>1, <1>2, <2>1 DEF Agree
<1>4. CASE ~ SessionWritten(w, s) /\ ~ MetricsWritten(w, s)
  BY <1>2, <1>4 DEF Inv, LifecycleInv, Agree
<1>. QED
  BY <1>2, <1>3, <1>4

LEMMA CommitInv ==
    ASSUME Inv, NEW w \in Writers, Commit(w), UNCHANGED deleted
    PROVE  Inv'
<1>1. /\ DOMAIN db' = DOMAIN db
      /\ \A x \in DOMAIN db : db'[x] = IF x \in DOMAIN writes[w] THEN writes[w][x] ELSE db[x]
      /\ \A u \in Writers \ {w} : writes'[u] = writes[u] /\ events'[u] = events[u]
      /\ DOMAIN writes'[w] = {} /\ events'[w] = {}
      /\ TransactionsOK' /\ LocksExclusive' /\ checked' = checked \ {w}
  BY CommitDef DEF Inv, Typed, Commit, Reset
<1>2. Typed'
  BY <1>1 DEF Inv, Typed, TypeOK, TransactionsOK
<1>3. \A s \in Sessions : Agree(db, s)'
  BY CommitRows DEF Agree
<1>4. ASSUME NEW u \in Writers \ {w}, NEW s \in Sessions
      PROVE  OwnWrites(u, s)' /\ PassedChecks(u, s)'
  <2>. DEFINE S == SessionRow(s)
              M == MetricsRow(s)
  <2>1. /\ db'[S] = IF SessionWritten(w, s) THEN writes[w][S] ELSE db[S]
        /\ db'[M] = IF MetricsWritten(w, s) THEN writes[w][M] ELSE db[M]
        /\ Agree(db', s) /\ Agree(db, s)
    BY CommitRows DEF Inv, LifecycleInv
  <2>2. /\ writes'[u] = writes[u] /\ events'[u] = events[u]
        /\ SessionWritten(u, s)' = SessionWritten(u, s)
        /\ MetricsWritten(u, s)' = MetricsWritten(u, s)
    BY <1>1 DEF SessionWritten, MetricsWritten
  <2>3. /\ SessionWritten(u, s) => ~ SessionWritten(w, s)
        /\ MetricsWritten(u, s) => ~ MetricsWritten(w, s)
        /\ SessionWritten(u, s) /\ MetricsWritten(w, s) => writes[u][S] = "completed" /\ db[S] = "completed"
        /\ SessionWritten(w, s) /\ MetricsWritten(u, s) => writes[w][S] = "completed" /\ db[S] = "completed"
    BY OneOwner
  <2>4. OwnWrites(u, s)'
    <3>1. OwnWrites(u, s)
      BY DEF Inv, LifecycleInv
    <3>2. SessionWritten(u, s) => db'[S] = db[S]
      BY <2>1, <2>3
    <3>3. SessionWritten(u, s) /\ writes[u][S] = Absent => db'[M] = db[M]
      BY <2>1, <2>3, AbsentAssumption DEF Lifecycles
    <3>4. MetricsWritten(u, s) /\ ~ SessionWritten(u, s) => db'[S] = "completed"
      BY <2>1, <2>3, <3>1 DEF OwnWrites
    <3>. QED
      BY <2>2, <3>1, <3>2, <3>3, <3>4 DEF OwnWrites
  <2>5. PassedChecks(u, s)'
    <3>. SUFFICES ASSUME u \in checked, SessionWritten(u, s) \/ MetricsWritten(u, s)
                  PROVE  Agree(View(u), s)'
      BY <1>1, <2>2 DEF PassedChecks
    <3>1. Agree(View(u), s)
      BY DEF Inv, LifecycleInv, PassedChecks
    <3>2. /\ View(u)[S] = IF SessionWritten(u, s) THEN writes[u][S] ELSE db[S]
          /\ View(u)[M] = IF MetricsWritten(u, s) THEN writes[u][M] ELSE db[M]
      BY Sees DEF Inv
    <3>3. S \in DOMAIN db' /\ M \in DOMAIN db'
      BY <1>1, RowKinds DEF Inv, Typed, TypeOK
    <3>4. /\ View(u)'[S] = IF SessionWritten(u, s) THEN writes[u][S] ELSE db'[S]
          /\ View(u)'[M] = IF MetricsWritten(u, s) THEN writes[u][M] ELSE db'[M]
      BY <2>2, <3>3 DEF View, SessionWritten, MetricsWritten
    <3>5. CASE SessionWritten(u, s) /\ MetricsWritten(u, s)
      BY <3>1, <3>2, <3>4, <3>5 DEF Agree
    <3>6. CASE SessionWritten(u, s) /\ ~ MetricsWritten(u, s)
      <4>1. CASE MetricsWritten(w, s)
        BY <2>1, <2>3, <3>4, <3>6, <4>1 DEF Agree
      <4>2. CASE ~ MetricsWritten(w, s)
        BY <2>1, <3>1, <3>2, <3>4, <3>6, <4>2 DEF Agree
      <4>. QED
        BY <4>1, <4>2
    <3>7. CASE ~ SessionWritten(u, s) /\ MetricsWritten(u, s)
      <4>1. db'[S] = db[S]
        BY <2>1, <2>3, <3>7
      <4>. QED
        BY <3>1, <3>2, <3>4, <3>7, <4>1 DEF Agree
    <3>. QED
      BY <3>5, <3>6, <3>7
  <2>. QED
    BY <2>4, <2>5
<1>5. ASSUME NEW s \in Sessions
      PROVE  OwnWrites(w, s)' /\ PassedChecks(w, s)'
  BY <1>1 DEF OwnWrites, PassedChecks, SessionWritten, MetricsWritten
<1>6. ASSUME NEW u \in Writers, NEW v \in Writers, NEW s \in Sessions, u # v
      PROVE  Shared(u, v, s)'
  BY <1>1, <1>6 DEF Inv, LifecycleInv, Shared, SessionWritten, MetricsWritten
<1>. QED
  BY <1>2, <1>3, <1>4, <1>5, <1>6 DEF Inv, LifecycleInv

-----------------------------------------------------------------------------
LEMMA InitInv == Init => Inv
<1>. SUFFICES ASSUME Init PROVE Inv
  OBVIOUS
<1>1. TransactionsOK /\ LocksExclusive
  BY NoTransactionsOK DEF Init
<1>2. \A w \in Writers : DOMAIN writes[w] = {} /\ events[w] = {} /\ w \notin checked
  BY DEF Init, NoTransactions, NoWrites
<1>3. PICK started \in SUBSET Sessions :
        db = [x \in Rows |-> IF \E s \in started : x = SessionRow(s) THEN "active" ELSE Absent]
  BY DEF Init
<1>4. \A x \in Rows : db[x] \in ValuesOf(x)
  <2>1. \A s \in Sessions : "active" \in ValuesOf(SessionRow(s))
    BY RowKinds DEF Lifecycles
  <2>2. \A x \in Rows : Absent \in ValuesOf(x)
    BY DEF ValuesOf
  <2>. QED
    BY <1>3, <2>1, <2>2
<1>5. \A s \in Sessions : Agree(db, s)
  <2>1. ASSUME NEW s \in Sessions
        PROVE  db[SessionRow(s)] # "completed" /\ db[MetricsRow(s)] = Absent
    BY <1>3, RowKinds, RowsDiffer, AbsentAssumption DEF Lifecycles
  <2>. QED
    BY <2>1 DEF Agree
<1>6. TypeOK
  BY <1>1, <1>2, <1>3, <1>4 DEF Init, TypeOK, TransactionsOK
<1>. QED
  BY <1>1, <1>2, <1>5, <1>6 DEF Inv, Typed, LifecycleInv, OwnWrites, PassedChecks, Shared,
                              SessionWritten, MetricsWritten

LEMMA NextInv ==
    ASSUME Inv, [Next]_vars
    PROVE  Inv'
<1>1. CASE UNCHANGED vars
  <2>1. \A u \in Writers : View(u)' = View(u)
    BY <1>1 DEF vars, View
  <2>2. Typed'
    BY <1>1 DEF vars, Inv, Typed, TypeOK, TransactionsOK, LocksExclusive
  <2>. QED
    BY <1>1, <2>1, <2>2 DEF vars, Inv, LifecycleInv, Agree, OwnWrites, PassedChecks, Shared,
                            SessionWritten, MetricsWritten
<1>2. CASE Next
  BY <1>2, StatementInv, RunDeferredInv, CommitInv, RollbackInv DEF Next
<1>. QED
  BY <1>1, <1>2

THEOREM Invariance == Spec => []Inv
<1>. QED
  BY InitInv, NextInv, PTL DEF Spec

(* Rows keep their types, whatever statements run.                           *)
THEOREM TypeCorrect == Spec => []TypeOK
<1>1. Inv => TypeOK
  BY DEF Inv, Typed
<1>. QED
  BY <1>1, Invariance, PTL

(* However many transactions run, and whatever they commit between each      *)
(* other's deferred checks and commits, a committed session is completed     *)
(* exactly when it has metrics.                                              *)
THEOREM CompletedHaveMetrics == Spec => []CompletedIffMetrics
<1>1. Inv => CompletedIffMetrics
  BY DEF Inv, LifecycleInv, Agree, CompletedIffMetrics
<1>. QED
  BY <1>1, Invariance, PTL

(* The first end of a session that is committed is final.                    *)
THEOREM EndsAreFinal == Spec => EndIsFinal
<1>1. ASSUME Inv, [Next]_vars, NEW s \in Sessions, db'[SessionRow(s)] # Absent
      PROVE  /\ db[SessionRow(s)] \in Terminal => db'[SessionRow(s)] = db[SessionRow(s)]
             /\ db[SessionRow(s)] = "active" => db'[SessionRow(s)] # "created"
  <2>1. CASE db' = db
    BY <2>1
  <2>2. ASSUME NEW w \in Writers, Commit(w)
        PROVE  /\ db[SessionRow(s)] \in Terminal => db'[SessionRow(s)] = db[SessionRow(s)]
               /\ db[SessionRow(s)] = "active" => db'[SessionRow(s)] # "created"
    <3>1. db'[SessionRow(s)] = IF SessionWritten(w, s) THEN writes[w][SessionRow(s)] ELSE db[SessionRow(s)]
      BY <1>1, <2>2, CommitRows
    <3>2. OwnWrites(w, s)
      BY <1>1 DEF Inv, LifecycleInv
    <3>. QED
      BY <1>1, <3>1, <3>2 DEF OwnWrites
  <2>. QED
    BY <1>1, <2>1, <2>2, StatementInv, RunDeferredInv, RollbackInv DEF Next, vars
<1>2. Inv /\ [Next]_vars =>
        [\A s \in Sessions :
            LET old == db[SessionRow(s)]
                new == db'[SessionRow(s)]
            IN  new # Absent =>
                  /\ old \in Terminal => new = old
                  /\ old = "active" => new # "created"]_vars
  BY <1>1
<1>. QED
  BY <1>2, Invariance, PTL DEF Spec, EndIsFinal

-----------------------------------------------------------------------------
(* The reason counts of a session and its metrics *)

Books(s) == {MetricsRow(s)} \cup CountRows(s)

CountsWritten(w, s) == CountRows(s) \cap DOMAIN writes[w] # {}

Amount(value) == IF value = Absent THEN 0 ELSE value

\* What the counts of s add up to, and what its metrics say they should.
Tally(rows, s) == SumFunctionOnSet([x \in CountRows(s) |-> Amount(rows[x])], CountRows(s))
Reported(rows, s) == Amount(rows[MetricsRow(s)])

NoOrphans(rows, s) == rows[MetricsRow(s)] = Absent => \A x \in CountRows(s) : rows[x] = Absent

(* What the open transaction of w has made of the counts and metrics of s.   *)
(* Past its check it changes their sum by as much as the number reported,    *)
(* and it keeps doing so whatever others commit before it.                   *)
OwnCounts(w, s) ==
    /\ CountsWritten(w, s) \/ MetricsWritten(w, s) => Event("counts_sum", s) \in events[w]
    /\ CountsWritten(w, s) /\ ~ MetricsWritten(w, s) => db[MetricsRow(s)] # Absent
    /\ NoOrphans(View(w), s)
    /\ w \in checked =>
          Tally(View(w), s) - Tally(db, s) = Reported(View(w), s) - Reported(db, s)

(* Nobody writes counts whose metrics another transaction has deleted.       *)
NoneBelow(u, w, s) ==
    MetricsWritten(u, s) /\ CountsWritten(w, s) => writes[u][MetricsRow(s)] # Absent

SumsInv ==
    /\ \A s \in Sessions : Tally(db, s) = Reported(db, s) /\ NoOrphans(db, s)
    /\ \A w \in Writers, s \in Sessions : OwnCounts(w, s)
    /\ \A u, w \in Writers, s \in Sessions : u # w => NoneBelow(u, w, s)

LEMMA BooksOf ==
    ASSUME NEW s \in Sessions
    PROVE  /\ Books(s) \subseteq Rows /\ MetricsRow(s) \notin CountRows(s)
           /\ IsFiniteSet(CountRows(s))
           /\ \A x \in Books(s) : ValuesOf(x) = {Absent} \cup 0 .. MaxInvalid
           /\ \A t \in Sessions : SessionRow(t) \notin Books(s)
           /\ \A t \in Sessions, n \in Seqs : SampleRow(t, n) \notin Books(s)
           /\ \A t \in Sessions : t # s => Books(t) \cap RowsOf(s) = {}
<1>1. Books(s) \subseteq Rows /\ MetricsRow(s) \notin CountRows(s)
  BY RowKinds, RowsDiffer DEF Books, CountRows
<1>2. IsFiniteSet(CountRows(s))
  <2>. DEFINE f == [reason \in Reasons |-> CountRow(s, reason)]
  <2>1. f \in Surjection(Reasons, CountRows(s))
    BY DEF Surjection, CountRows
  <2>. HIDE DEF f
  <2>. QED
    BY <2>1, ReasonsAssumption, FS_Surjection
<1>3. \A x \in Books(s) : ValuesOf(x) = {Absent} \cup 0 .. MaxInvalid
  BY RowKinds DEF Books, CountRows
<1>4. \A t \in Sessions : SessionRow(t) \notin Books(s)
  BY RowsDiffer DEF Books, CountRows
<1>5. \A t \in Sessions, n \in Seqs : SampleRow(t, n) \notin Books(s)
  BY DEF Books, CountRows, CountRow, SampleRow, MetricsRow
<1>6. ASSUME NEW t \in Sessions, t # s
      PROVE  Books(t) \cap RowsOf(s) = {}
  BY <1>6 DEF Books, RowsOf, CountRows, SampleRows, SessionRow, MetricsRow, SampleRow, CountRow
<1>. QED
  BY <1>1, <1>2, <1>3, <1>4, <1>5, <1>6

\* Only the counts and the metrics of s matter to its sum.
LEMMA SameBooks ==
    ASSUME NEW s \in Sessions, NEW rows, NEW others, \A x \in Books(s) : rows[x] = others[x]
    PROVE  /\ Tally(rows, s) = Tally(others, s) /\ Reported(rows, s) = Reported(others, s)
           /\ NoOrphans(rows, s) <=> NoOrphans(others, s)
<1>1. [x \in CountRows(s) |-> Amount(rows[x])] = [x \in CountRows(s) |-> Amount(others[x])]
  BY DEF Books
<1>. QED
  BY <1>1 DEF Tally, Reported, NoOrphans, Books

LEMMA Amounts ==
    ASSUME NEW value \in {Absent} \cup 0 .. MaxInvalid
    PROVE  Amount(value) \in Int /\ (value # Absent => Amount(value) = value)
                                 /\ (value = Absent => Amount(value) = 0)
  BY InvalidAssumption DEF Amount

\* assert_reason_counts_sum in terms of the two numbers.
LEMMA AddUp ==
    ASSUME NEW s \in Sessions, NEW rows, NoOrphans(rows, s),
           \A x \in Books(s) : rows[x] \in {Absent} \cup 0 .. MaxInvalid
    PROVE  /\ CountsAddUp(rows, s) <=> Tally(rows, s) = Reported(rows, s)
           /\ Tally(rows, s) \in Int /\ Reported(rows, s) \in Int
<1>. DEFINE C == CountRows(s)
            present == {x \in C : rows[x] # Absent}
            f == [x \in C |-> Amount(rows[x])]
<1>1. /\ \A x \in C : f[x] \in Int
      /\ \A x \in present : f[x] = rows[x]
      /\ \A x \in C \ present : f[x] = 0
  BY Amounts DEF Books
<1>2. IsFiniteSet(C) /\ present \in SUBSET C /\ IsFiniteSet(present)
  BY BooksOf, FS_Subset
<1>. HIDE DEF f, present, C
<1>3. SumFunctionOnSet(f, C) = SumFunctionOnSet(f, present)
  BY <1>1, <1>2, SumOfNonzero
<1>4. SumFunctionOnSet(f, present) = SumFunctionOnSet(rows, present)
  BY <1>1, <1>2, SumEqual
<1>5. Tally(rows, s) = SumFunctionOnSet(rows, present)
  BY <1>3, <1>4 DEF Tally, f, C
<1>6. Tally(rows, s) \in Int
  BY <1>1, <1>2, SumType DEF Tally, f, C
<1>7. CountsAddUp(rows, s) <=> (rows[MetricsRow(s)] # Absent => Tally(rows, s) = rows[MetricsRow(s)])
  BY <1>5 DEF CountsAddUp, present, C
<1>8. rows[MetricsRow(s)] = Absent => Tally(rows, s) = 0
  <2>1. ASSUME rows[MetricsRow(s)] = Absent
        PROVE  present = {}
    BY <2>1 DEF NoOrphans, present, C
  <2>2. SumFunctionOnSet(rows, {}) = 0
    BY FS_EmptySet, SumUnfold
  <2>. QED
    BY <1>5, <2>1, <2>2
<1>9. /\ Reported(rows, s) \in Int
      /\ rows[MetricsRow(s)] # Absent => Reported(rows, s) = rows[MetricsRow(s)]
      /\ rows[MetricsRow(s)] = Absent => Reported(rows, s) = 0
  BY Amounts DEF Reported, Books
<1>. QED
  BY <1>6, <1>7, <1>8, <1>9

\* The counts and metrics of s as w sees them.
LEMMA SeesBooks ==
    ASSUME Typed, NEW w \in Writers, NEW s \in Sessions
    PROVE  /\ \A x \in Books(s) :
                 /\ View(w)[x] = IF x \in DOMAIN writes[w] THEN writes[w][x] ELSE db[x]
                 /\ View(w)[x] \in {Absent} \cup 0 .. MaxInvalid
                 /\ db[x] \in {Absent} \cup 0 .. MaxInvalid
           /\ CountsWritten(w, s) \/ MetricsWritten(w, s) <=> Books(s) \cap DOMAIN writes[w] # {}
<1>1. ASSUME NEW x \in Books(s)
      PROVE  /\ View(w)[x] = IF x \in DOMAIN writes[w] THEN writes[w][x] ELSE db[x]
             /\ View(w)[x] \in {Absent} \cup 0 .. MaxInvalid
             /\ db[x] \in {Absent} \cup 0 .. MaxInvalid
  <2>1. x \in Rows /\ ValuesOf(x) = {Absent} \cup 0 .. MaxInvalid
    BY BooksOf
  <2>2. View(w)[x] = IF x \in DOMAIN writes[w] THEN writes[w][x] ELSE db[x]
    BY <2>1, ViewDef DEF Typed, TypeOK
  <2>. QED
    BY <2>1, <2>2 DEF Typed, TypeOK
<1>2. CountsWritten(w, s) \/ MetricsWritten(w, s) <=> Books(s) \cap DOMAIN writes[w] # {}
  BY DEF CountsWritten, MetricsWritten, Books
<1>. QED
  BY <1>1, <1>2

-----------------------------------------------------------------------------
(* Statements and the reason counts *)

Apart(t, new) == Books(t) \cap DOMAIN new = {}

SetsReported(s, new, queued) ==
    /\ Books(s) \cap DOMAIN new = {MetricsRow(s)} /\ new[MetricsRow(s)] # Absent
    /\ Event("counts_sum", s) \in queued

SetsCount(w, s, new, queued) ==
    /\ \E x \in CountRows(s) :
          /\ Books(s) \cap DOMAIN new = {x}
          /\ Exists(w, x) \/ ParentHeld(w, MetricsRow(s))
    /\ Event("counts_sum", s) \in queued

Cascades(w, s, new, queued) ==
    /\ Free(w, Books(s))
    /\ \A x \in Books(s) : x \in DOMAIN new <=> Exists(w, x)
    /\ \A x \in Books(s) \cap DOMAIN new : new[x] = Absent
    /\ Event("counts_sum", s) \in queued

BookEffect(w, s, new, queued) ==
    /\ Write(w, new, queued) /\ DOMAIN new \subseteq Rows
    /\ \A t \in Sessions \ {s} : Apart(t, new)
    /\ \/ Apart(s, new)
       \/ SetsReported(s, new, queued)
       \/ SetsCount(w, s, new, queued)
       \/ Cascades(w, s, new, queued)

\* A statement on a row that is in the books of no session.
LEMMA ApartStatement ==
    ASSUME NEW w \in Writers, NEW s \in Sessions, NEW x \in Rows, NEW value, NEW queued,
           Write(w, Set(x, value), queued), \A t \in Sessions : x \notin Books(t)
    PROVE  \E new, q : BookEffect(w, s, new, q)
<1>1. DOMAIN Set(x, value) = {x}
  BY DEF Set
<1>2. \A t \in Sessions : Apart(t, Set(x, value))
  BY <1>1 DEF Apart
<1>. QED
  BY <1>1, <1>2 DEF BookEffect

\* A statement on one row of the books of s.
LEMMA OneBook ==
    ASSUME NEW s \in Sessions, NEW x \in Books(s), NEW value
    PROVE  /\ DOMAIN Set(x, value) = {x} /\ Set(x, value)[x] = value
           /\ Books(s) \cap DOMAIN Set(x, value) = {x}
           /\ x \in Rows
           /\ \A t \in Sessions \ {s} : Apart(t, Set(x, value))
<1>1. DOMAIN Set(x, value) = {x} /\ Set(x, value)[x] = value
  BY DEF Set
<1>2. x \in RowsOf(s) /\ x \in Rows
  BY BooksOf DEF Books, RowsOf
<1>3. \A t \in Sessions \ {s} : x \notin Books(t)
  BY <1>2, BooksOf
<1>. QED
  BY <1>1, <1>2, <1>3 DEF Apart

LEMMA StatementBooks ==
    ASSUME NEW w \in Writers, NEW s \in Sessions, Statement(w, s)
    PROVE  \E new, queued : BookEffect(w, s, new, queued)
<1>0. MetricsRow(s) \in Books(s) /\ \A reason \in Reasons : CountRow(s, reason) \in CountRows(s)
      /\ CountRows(s) \subseteq Books(s)
  BY DEF Books, CountRows
<1>1. CASE InsertSession(w, s) \/ UpdateSession(w, s)
  <2>1. \E value, queued : Write(w, Set(SessionRow(s), value), queued)
    BY <1>1 DEF InsertSession, UpdateSession
  <2>2. SessionRow(s) \in Rows /\ \A t \in Sessions : SessionRow(s) \notin Books(t)
    BY RowKinds, BooksOf
  <2>. QED
    BY <2>1, <2>2, ApartStatement
<1>2. CASE \E n \in Seqs : InsertSample(w, s, n) \/ UpdateSample(w, s, n) \/ DeleteSample(w, s, n)
  <2>1. PICK n \in Seqs : \E value, queued : Write(w, Set(SampleRow(s, n), value), queued)
    BY <1>2 DEF InsertSample, UpdateSample, DeleteSample
  <2>2. SampleRow(s, n) \in Rows /\ \A t \in Sessions : SampleRow(s, n) \notin Books(t)
    BY RowKinds, BooksOf
  <2>. QED
    BY <2>1, <2>2, ApartStatement
<1>3. CASE InsertMetrics(w, s) \/ UpdateMetrics(w, s)
  <2>1. PICK invalid \in 0 .. MaxInvalid : Write(w, Set(MetricsRow(s), invalid), {Event("counts_sum", s)})
    BY <1>3 DEF InsertMetrics, UpdateMetrics
  <2>. DEFINE new == Set(MetricsRow(s), invalid)
  <2>2. /\ DOMAIN new = {MetricsRow(s)} /\ new[MetricsRow(s)] = invalid /\ MetricsRow(s) \in Rows
        /\ Books(s) \cap DOMAIN new = {MetricsRow(s)} /\ \A t \in Sessions \ {s} : Apart(t, new)
    BY <1>0, OneBook
  <2>3. SetsReported(s, new, {Event("counts_sum", s)})
    BY <2>2, AbsentAssumption DEF SetsReported
  <2>. QED
    BY <2>1, <2>2, <2>3 DEF BookEffect
<1>4. ASSUME NEW reason \in Reasons,
             InsertCount(w, s, reason) \/ UpdateCount(w, s, reason) \/ DeleteCount(w, s, reason)
      PROVE  \E new, queued : BookEffect(w, s, new, queued)
  <2>. DEFINE x == CountRow(s, reason)
  <2>1. PICK value : Write(w, Set(x, value), {Event("counts_sum", s)})
    BY <1>4 DEF InsertCount, UpdateCount, DeleteCount
  <2>2. Exists(w, x) \/ ParentHeld(w, MetricsRow(s))
    BY <1>4 DEF InsertCount, UpdateCount, DeleteCount
  <2>. DEFINE new == Set(x, value)
  <2>3. /\ DOMAIN new = {x} /\ x \in Rows /\ x \in CountRows(s)
        /\ Books(s) \cap DOMAIN new = {x} /\ \A t \in Sessions \ {s} : Apart(t, new)
    BY <1>0, OneBook
  <2>4. SetsCount(w, s, new, {Event("counts_sum", s)})
    BY <2>2, <2>3 DEF SetsCount
  <2>. QED
    BY <2>1, <2>3, <2>4 DEF BookEffect
<1>5. ASSUME NEW gone \in SUBSET RowsOf(s), Books(s) \subseteq gone, Free(w, gone),
             Write(w, [x \in {x \in gone : Exists(w, x)} |-> Absent],
                   {Event(name, s) : name \in {"protect_metrics", "counts_sum"}})
      PROVE  \E new, queued : BookEffect(w, s, new, queued)
  <2>. DEFINE new == [x \in {x \in gone : Exists(w, x)} |-> Absent]
              queued == {Event(name, s) : name \in {"protect_metrics", "counts_sum"}}
  <2>1. DOMAIN new \subseteq Rows
    BY DEF Rows
  <2>2. \A t \in Sessions \ {s} : Apart(t, new)
    BY BooksOf DEF Apart
  <2>3. Cascades(w, s, new, queued)
    BY <1>5 DEF Cascades, Free
  <2>. QED
    BY <1>5, <2>1, <2>2, <2>3 DEF BookEffect
<1>6. CASE DeleteSession(w, s)
  BY <1>5, <1>6 DEF DeleteSession, RowsOf, Books
<1>7. CASE DeleteMetrics(w, s)
  BY <1>5, <1>7 DEF DeleteMetrics, RowsOf, Books
<1>. QED
  BY <1>1, <1>2, <1>3, <1>4, <1>6, <1>7 DEF Statement

\* Sessions and transactions that the statement is not about keep their part.
LEMMA OwnCountsKept ==
    ASSUME Inv, Inv', SumsInv, NEW w \in Writers, NEW s \in Sessions, NEW new, NEW queued,
           BookEffect(w, s, new, queued), NEW u \in Writers, NEW t \in Sessions,
           u # w \/ Apart(t, new)
    PROVE  /\ OwnCounts(u, t)'
           /\ \A x \in Books(t) : x \in DOMAIN writes'[u] <=> x \in DOMAIN writes[u]
           /\ \A x \in Books(t) \cap DOMAIN writes[u] : writes'[u][x] = writes[u][x]
<1>1. /\ UNCHANGED <<db, checked>> /\ w \notin checked
      /\ \A v \in Writers \ {w} : writes'[v] = writes[v] /\ events'[v] = events[v]
      /\ DOMAIN writes'[w] = DOMAIN writes[w] \cup DOMAIN new
      /\ \A x \in DOMAIN writes'[w] :
            writes'[w][x] = IF x \in DOMAIN new THEN new[x] ELSE writes[w][x]
      /\ events'[w] = events[w] \cup queued
  BY WriteDef DEF BookEffect, Inv, Typed, TypeOK, Write
<1>2. /\ \A x \in Books(t) : x \in DOMAIN writes'[u] <=> x \in DOMAIN writes[u]
      /\ \A x \in Books(t) \cap DOMAIN writes[u] : writes'[u][x] = writes[u][x]
      /\ events[u] \subseteq events'[u]
  BY <1>1 DEF Apart
<1>3. \A x \in Books(t) : View(u)'[x] = View(u)[x]
  <2>1. \A x \in Books(t) : View(u)[x] = IF x \in DOMAIN writes[u] THEN writes[u][x] ELSE db[x]
    BY SeesBooks DEF Inv
  <2>2. \A x \in Books(t) : View(u)'[x] = IF x \in DOMAIN writes'[u] THEN writes'[u][x] ELSE db'[x]
    BY <1>1, BooksOf DEF View, Inv, Typed, TypeOK
  <2>. QED
    BY <1>1, <1>2, <2>1, <2>2
<1>4. /\ CountsWritten(u, t)' <=> CountsWritten(u, t)
      /\ MetricsWritten(u, t)' <=> MetricsWritten(u, t)
  BY <1>2 DEF CountsWritten, MetricsWritten, Books
<1>5. /\ Tally(View(u)', t) = Tally(View(u), t) /\ Reported(View(u)', t) = Reported(View(u), t)
      /\ NoOrphans(View(u)', t) <=> NoOrphans(View(u), t)
  BY <1>3, SameBooks
<1>6. OwnCounts(u, t)'
  <2>1. OwnCounts(u, t)
    BY DEF SumsInv
  <2>. QED
    BY <1>1, <1>2, <1>4, <1>5, <2>1 DEF OwnCounts, Tally, Reported, NoOrphans
<1>. QED
  BY <1>2, <1>6

\* The counts and metrics of s after a statement of w on s.
LEMMA BooksNext ==
    ASSUME Inv, Inv', NEW w \in Writers, NEW s \in Sessions, NEW new, NEW queued,
           BookEffect(w, s, new, queued)
    PROVE  /\ UNCHANGED <<db, checked>> /\ w \notin checked
           /\ \A u \in Writers \ {w} : writes'[u] = writes[u] /\ events'[u] = events[u]
           /\ DOMAIN writes'[w] = DOMAIN writes[w] \cup DOMAIN new
           /\ events'[w] = events[w] \cup queued
           /\ \A x \in Books(s) : View(w)'[x] = IF x \in DOMAIN new THEN new[x] ELSE View(w)[x]
<1>1. /\ UNCHANGED <<db, checked>> /\ w \notin checked
      /\ \A u \in Writers \ {w} : writes'[u] = writes[u] /\ events'[u] = events[u]
      /\ DOMAIN writes'[w] = DOMAIN writes[w] \cup DOMAIN new
      /\ \A x \in DOMAIN writes'[w] :
            writes'[w][x] = IF x \in DOMAIN new THEN new[x] ELSE writes[w][x]
      /\ events'[w] = events[w] \cup queued
  BY WriteDef DEF BookEffect, Inv, Typed, TypeOK, Write
<1>2. \A x \in Books(s) : View(w)[x] = IF x \in DOMAIN writes[w] THEN writes[w][x] ELSE db[x]
  BY SeesBooks DEF Inv
<1>3. \A x \in Books(s) : View(w)'[x] = IF x \in DOMAIN writes'[w] THEN writes'[w][x] ELSE db'[x]
  BY <1>1, BooksOf DEF View, Inv, Typed, TypeOK
<1>. QED
  BY <1>1, <1>2, <1>3

LEMMA OwnCountsNext ==
    ASSUME Inv, Inv', SumsInv, NEW w \in Writers, NEW s \in Sessions, NEW new, NEW queued,
           BookEffect(w, s, new, queued), ~ Apart(s, new)
    PROVE  OwnCounts(w, s)'
<1>. DEFINE M == MetricsRow(s)
<1>1. /\ db' = db /\ checked' = checked /\ w \notin checked
      /\ DOMAIN writes'[w] = DOMAIN writes[w] \cup DOMAIN new
      /\ events'[w] = events[w] \cup queued
      /\ \A x \in Books(s) : View(w)'[x] = IF x \in DOMAIN new THEN new[x] ELSE View(w)[x]
  BY BooksNext
<1>2. OwnCounts(w, s)
  BY DEF SumsInv
<1>3. M \in Books(s) /\ CountRows(s) \subseteq Books(s) /\ M \notin CountRows(s)
  BY BooksOf DEF Books
<1>4. View(w)[M] = IF MetricsWritten(w, s) THEN writes[w][M] ELSE db[M]
  BY Sees DEF Inv
<1>5. Event("counts_sum", s) \in queued
  BY DEF BookEffect, SetsReported, SetsCount, Cascades
<1>6. CASE SetsReported(s, new, queued)
  <2>1. M \in DOMAIN new /\ new[M] # Absent
    BY <1>6 DEF SetsReported
  <2>2. NoOrphans(View(w), s)'
    BY <1>1, <1>3, <2>1 DEF NoOrphans
  <2>. QED
    BY <1>1, <1>5, <2>1, <2>2 DEF OwnCounts, MetricsWritten
<1>7. CASE SetsCount(w, s, new, queued)
  <2>1. PICK x \in CountRows(s) : /\ Books(s) \cap DOMAIN new = {x}
                                  /\ Exists(w, x) \/ ParentHeld(w, M)
    BY <1>7 DEF SetsCount
  <2>2. View(w)[M] # Absent
    BY <1>2, <2>1 DEF OwnCounts, NoOrphans, Exists, ParentHeld
  <2>3. M \notin DOMAIN new
    BY <1>3, <2>1
  <2>4. View(w)'[M] # Absent
    BY <1>1, <1>3, <2>2, <2>3
  <2>5. NoOrphans(View(w), s)'
    BY <2>4 DEF NoOrphans
  <2>6. MetricsWritten(w, s)' \/ db'[M] # Absent
    BY <1>1, <1>4, <2>2 DEF MetricsWritten
  <2>. QED
    BY <1>1, <1>5, <2>5, <2>6 DEF OwnCounts
<1>8. CASE Cascades(w, s, new, queued)
  <2>1. \A x \in Books(s) : View(w)'[x] = Absent
    BY <1>1, <1>8 DEF Cascades, Exists
  <2>2. NoOrphans(View(w), s)'
    BY <1>3, <2>1 DEF NoOrphans
  <2>3. MetricsWritten(w, s)' \/ db'[M] # Absent
    <3>1. PICK x \in Books(s) : View(w)[x] # Absent
      BY <1>8 DEF Apart, Cascades, Exists
    <3>2. View(w)[M] # Absent
      BY <1>2, <3>1 DEF OwnCounts, NoOrphans, Books
    <3>. QED
      BY <1>1, <1>3, <1>8, <3>2 DEF Cascades, Exists, MetricsWritten
  <2>. QED
    BY <1>1, <1>5, <2>2, <2>3 DEF OwnCounts
<1>. QED
  BY <1>6, <1>7, <1>8 DEF BookEffect

\* A statement of w on s, and another transaction u at work on s.
LEMMA NoneBelowNext ==
    ASSUME Inv, Inv', SumsInv, NEW w \in Writers, NEW s \in Sessions, NEW new, NEW queued,
           BookEffect(w, s, new, queued), ~ Apart(s, new), NEW u \in Writers, u # w
    PROVE  NoneBelow(u, w, s)' /\ NoneBelow(w, u, s)'
<1>. DEFINE M == MetricsRow(s)
<1>1. /\ db' = db /\ writes'[u] = writes[u]
      /\ DOMAIN writes'[w] = DOMAIN writes[w] \cup DOMAIN new
      /\ \A x \in Books(s) : View(w)'[x] = IF x \in DOMAIN new THEN new[x] ELSE View(w)[x]
  BY BooksNext
<1>2. /\ OwnCounts(w, s) /\ OwnCounts(u, s)
      /\ NoneBelow(u, w, s) /\ NoneBelow(w, u, s)
  BY DEF SumsInv
<1>3. M \in Books(s) /\ CountRows(s) \subseteq Books(s) /\ M \notin CountRows(s)
  BY BooksOf DEF Books
<1>4. Free(w, DOMAIN new)
  BY DEF BookEffect, Write
<1>5. /\ MetricsWritten(u, s)' = MetricsWritten(u, s)
      /\ CountsWritten(u, s)' = CountsWritten(u, s)
      /\ MetricsWritten(w, s)' => writes'[w][M] = View(w)'[M]
  <2>1. MetricsWritten(w, s)' => writes'[w][M] = View(w)'[M]
    BY <1>1, <1>3, BooksOf DEF View, MetricsWritten, Inv, Typed, TypeOK
  <2>. QED
    BY <1>1, <2>1 DEF MetricsWritten, CountsWritten
<1>6. CASE SetsReported(s, new, queued)
  <2>1. M \in DOMAIN new /\ new[M] # Absent /\ CountRows(s) \cap DOMAIN new = {}
    BY <1>3, <1>6 DEF SetsReported
  <2>2. CountsWritten(w, s)' = CountsWritten(w, s)
    BY <1>1, <2>1 DEF CountsWritten
  <2>3. View(w)'[M] # Absent
    BY <1>1, <1>3, <2>1
  <2>. QED
    BY <1>1, <1>2, <1>5, <2>2, <2>3 DEF NoneBelow
<1>7. CASE SetsCount(w, s, new, queued)
  <2>1. PICK x \in CountRows(s) : /\ Books(s) \cap DOMAIN new = {x}
                                  /\ Exists(w, x) \/ ParentHeld(w, M)
    BY <1>7 DEF SetsCount
  <2>2. M \notin DOMAIN new /\ x \in DOMAIN new
    BY <1>3, <2>1
  <2>3. View(w)'[M] # Absent
    BY <1>1, <1>2, <1>3, <2>1, <2>2 DEF OwnCounts, NoOrphans, Exists, ParentHeld
  <2>4. ASSUME MetricsWritten(u, s)
        PROVE  writes[u][M] # Absent
    <3>1. CASE ParentHeld(w, M)
      BY <2>4, <3>1 DEF ParentHeld, MetricsWritten
    <3>2. CASE CountsWritten(w, s)
      BY <1>2, <2>4, <3>2 DEF NoneBelow
    <3>3. CASE Exists(w, x) /\ ~ CountsWritten(w, s)
      <4>1. x \notin DOMAIN writes[u] /\ x \notin DOMAIN writes[w]
        BY <1>4, <2>2, <3>3 DEF Free, CountsWritten
      <4>2. View(u)[x] = db[x] /\ View(w)[x] = db[x]
        BY <1>3, <4>1, SeesBooks DEF Inv
      <4>3. View(u)[M] # Absent
        BY <1>2, <3>3, <4>2 DEF Exists, OwnCounts, NoOrphans
      <4>. QED
        BY <2>4, <4>3, Sees DEF Inv
    <3>. QED
      BY <2>1, <3>1, <3>2, <3>3
  <2>. QED
    BY <1>1, <1>5, <2>3, <2>4 DEF NoneBelow
<1>8. CASE Cascades(w, s, new, queued)
  <2>1. ~ CountsWritten(u, s) /\ ~ MetricsWritten(u, s)
    BY <1>3, <1>8 DEF Cascades, Free, CountsWritten, MetricsWritten
  <2>. QED
    BY <1>5, <2>1 DEF NoneBelow
<1>. QED
  BY <1>6, <1>7, <1>8 DEF BookEffect

LEMMA StatementSums ==
    ASSUME Inv, Inv', SumsInv, NEW w \in Writers, NEW s \in Sessions, Statement(w, s)
    PROVE  SumsInv'
<1>1. PICK new, queued : BookEffect(w, s, new, queued)
  BY StatementBooks
<1>2. db' = db
  BY <1>1, BooksNext
<1>3. \A t \in Sessions : (Tally(db, t) = Reported(db, t) /\ NoOrphans(db, t))'
  BY <1>2 DEF SumsInv, Tally, Reported, NoOrphans
<1>4. \A t \in Sessions \ {s} : Apart(t, new)
  BY <1>1 DEF BookEffect
<1>5. ASSUME NEW u \in Writers, NEW t \in Sessions
      PROVE  OwnCounts(u, t)'
  BY <1>1, <1>4, OwnCountsKept, OwnCountsNext
<1>6. ASSUME NEW u \in Writers, NEW v \in Writers, NEW t \in Sessions, u # v
      PROVE  NoneBelow(u, v, t)'
  <2>1. CASE (u # w /\ v # w) \/ Apart(t, new)
    <3>1. /\ \A x \in Books(t) : x \in DOMAIN writes'[u] <=> x \in DOMAIN writes[u]
          /\ \A x \in Books(t) \cap DOMAIN writes[u] : writes'[u][x] = writes[u][x]
          /\ \A x \in Books(t) : x \in DOMAIN writes'[v] <=> x \in DOMAIN writes[v]
      BY <1>1, <2>1, OwnCountsKept
    <3>2. NoneBelow(u, v, t)
      BY <1>6 DEF SumsInv
    <3>. QED
      BY <3>1, <3>2 DEF NoneBelow, MetricsWritten, CountsWritten, Books
  <2>2. CASE ~ Apart(t, new) /\ (u = w \/ v = w)
    <3>1. t = s
      BY <1>4, <2>2
    <3>. QED
      BY <1>1, <1>6, <2>2, <3>1, NoneBelowNext
  <2>. QED
    BY <2>1, <2>2
<1>. QED
  BY <1>3, <1>5, <1>6 DEF SumsInv

-----------------------------------------------------------------------------
(* The end of a transaction and the reason counts *)

\* What a transaction sees once its check has passed adds up.
LEMMA CheckedSums ==
    ASSUME Inv, SumsInv, NEW w \in Writers, NEW s \in Sessions,
           \A event \in events[w] : Holds(View(w), event)
    PROVE  Tally(View(w), s) - Tally(db, s) = Reported(View(w), s) - Reported(db, s)
<1>1. /\ OwnCounts(w, s) /\ NoOrphans(db, s) /\ Tally(db, s) = Reported(db, s)
  BY DEF SumsInv
<1>2. CASE CountsWritten(w, s) \/ MetricsWritten(w, s)
  <2>1. CountsAddUp(View(w), s)
    BY <1>1, <1>2 DEF OwnCounts, Holds, Event
  <2>2. Tally(View(w), s) = Reported(View(w), s)
    BY <1>1, <2>1, AddUp, SeesBooks DEF Inv, OwnCounts
  <2>. QED
    BY <1>1, <2>2
<1>3. CASE ~ (CountsWritten(w, s) \/ MetricsWritten(w, s))
  <2>1. \A x \in Books(s) : View(w)[x] = db[x]
    BY <1>3, SeesBooks DEF Inv
  <2>2. Tally(View(w), s) = Tally(db, s) /\ Reported(View(w), s) = Reported(db, s)
    BY <2>1, SameBooks
  <2>. QED
    BY <1>1, <2>2
<1>. QED
  BY <1>2, <1>3

LEMMA RunDeferredSums ==
    ASSUME Inv, SumsInv, NEW w \in Writers,
           RunDeferred(w, \A event \in events[w] : Holds(View(w), event))
    PROVE  SumsInv'
<1>1. /\ UNCHANGED <<db, writes, events>> /\ checked' = checked \cup {w}
      /\ \A event \in events[w] : Holds(View(w), event)
  BY DEF RunDeferred
<1>2. \A u \in Writers : View(u)' = View(u)
  BY <1>1 DEF View
<1>3. ASSUME NEW u \in Writers, NEW s \in Sessions
      PROVE  OwnCounts(u, s)'
  <2>1. OwnCounts(u, s)
    BY DEF SumsInv
  <2>2. u \in checked' => Tally(View(u), s) - Tally(db, s) = Reported(View(u), s) - Reported(db, s)
    BY <1>1, <2>1, CheckedSums DEF OwnCounts
  <2>3. /\ Tally(View(u), s)' = Tally(View(u), s) /\ Tally(db, s)' = Tally(db, s)
        /\ Reported(View(u), s)' = Reported(View(u), s) /\ Reported(db, s)' = Reported(db, s)
        /\ NoOrphans(View(u), s)' = NoOrphans(View(u), s)
        /\ CountsWritten(u, s)' = CountsWritten(u, s) /\ MetricsWritten(u, s)' = MetricsWritten(u, s)
    BY <1>1, <1>2 DEF Tally, Reported, NoOrphans, CountsWritten, MetricsWritten
  <2>. QED
    BY <1>1, <2>1, <2>2, <2>3 DEF OwnCounts
<1>. QED
  BY <1>1, <1>3 DEF SumsInv, Tally, Reported, NoOrphans, NoneBelow, CountsWritten, MetricsWritten

\* A transaction that has ended sees what is committed.
LEMMA EndedCounts ==
    ASSUME Inv', NEW w \in Writers, DOMAIN writes'[w] = {}, w \notin checked',
           NEW s \in Sessions, NoOrphans(db, s)'
    PROVE  OwnCounts(w, s)'
<1>1. \A x \in Books(s) : View(w)'[x] = db'[x]
  BY BooksOf DEF View, Inv, Typed, TypeOK
<1>2. NoOrphans(View(w), s)'
  BY <1>1 DEF NoOrphans, Books
<1>. QED
  BY <1>2 DEF OwnCounts, CountsWritten, MetricsWritten

LEMMA RollbackSums ==
    ASSUME Inv, Inv', SumsInv, NEW w \in Writers, Rollback(w)
    PROVE  SumsInv'
<1>1. /\ db' = db
      /\ \A u \in Writers \ {w} : writes'[u] = writes[u] /\ events'[u] = events[u]
      /\ DOMAIN writes'[w] = {} /\ checked' = checked \ {w}
  BY RollbackDef DEF Inv, Typed, Rollback, Reset
<1>2. \A u \in Writers \ {w} : View(u)' = View(u)
  BY <1>1 DEF View
<1>3. \A s \in Sessions : (Tally(db, s) = Reported(db, s) /\ NoOrphans(db, s))'
  BY <1>1 DEF SumsInv, Tally, Reported, NoOrphans
<1>4. ASSUME NEW u \in Writers \ {w}, NEW s \in Sessions
      PROVE  OwnCounts(u, s)'
  BY <1>1, <1>2 DEF SumsInv, OwnCounts, Tally, Reported, NoOrphans, CountsWritten, MetricsWritten
<1>5. \A s \in Sessions : OwnCounts(w, s)'
  BY <1>1, <1>3, EndedCounts
<1>6. ASSUME NEW u \in Writers, NEW v \in Writers, NEW s \in Sessions, u # v
      PROVE  NoneBelow(u, v, s)'
  BY <1>1, <1>6 DEF SumsInv, NoneBelow, CountsWritten, MetricsWritten
<1>. QED
  BY <1>3, <1>4, <1>5, <1>6 DEF SumsInv

\* A commit of w does not change by how much what u has written changes the sum.
LEMMA CommitKeepsChange ==
    ASSUME Inv, Inv', SumsInv, NEW w \in Writers, Commit(w), NEW u \in Writers, u # w, NEW s \in Sessions
    PROVE  /\ (Tally(View(u), s) - Tally(db, s))' = Tally(View(u), s) - Tally(db, s)
           /\ (Reported(View(u), s) - Reported(db, s))' = Reported(View(u), s) - Reported(db, s)
<1>. DEFINE C == CountRows(s)
            f == [x \in C |-> Amount(View(u)'[x])]
            g == [x \in C |-> Amount(db'[x])]
            ff == [x \in C |-> Amount(View(u)[x])]
            gg == [x \in C |-> Amount(db[x])]
<1>1. \A x \in Books(s) : /\ View(u)[x] \in {Absent} \cup 0 .. MaxInvalid
                          /\ db[x] \in {Absent} \cup 0 .. MaxInvalid
                          /\ View(u)[x] = IF x \in DOMAIN writes[u] THEN writes[u][x] ELSE db[x]
  BY SeesBooks DEF Inv
<1>2. /\ writes'[u] = writes[u]
      /\ \A x \in Books(s) : db'[x] = IF x \in DOMAIN writes[w] THEN writes[w][x] ELSE db[x]
      /\ \A x \in Books(s) : View(u)'[x] = IF x \in DOMAIN writes[u] THEN writes[u][x] ELSE db'[x]
      /\ \A x \in Books(s) : View(w)[x] \in {Absent} \cup 0 .. MaxInvalid /\ db'[x] = View(w)[x]
  <2>1. writes'[u] = writes[u]
    BY CommitDef DEF Inv, Typed
  <2>2. \A x \in Books(s) : db'[x] = IF x \in DOMAIN writes[w] THEN writes[w][x] ELSE db[x]
    BY CommitDef, BooksOf DEF Inv, Typed, TypeOK
  <2>3. \A x \in Books(s) : View(u)'[x] = IF x \in DOMAIN writes[u] THEN writes[u][x] ELSE db'[x]
    BY <2>1, BooksOf DEF View, Inv, Typed, TypeOK
  <2>4. \A x \in Books(s) : View(w)[x] \in {Absent} \cup 0 .. MaxInvalid /\ db'[x] = View(w)[x]
    BY SeesBooks DEF Commit, Inv
  <2>. QED
    BY <2>1, <2>2, <2>3, <2>4
<1>3. \A x \in Books(s) : ~ (x \in DOMAIN writes[u] /\ x \in DOMAIN writes[w])
  BY DEF Inv, Typed, LocksExclusive
<1>4. \A x \in Books(s) : View(u)'[x] \in {Absent} \cup 0 .. MaxInvalid
  BY <1>1, <1>2
<1>5. ASSUME NEW x \in Books(s)
      PROVE  /\ Amount(View(u)'[x]) \in Int /\ Amount(db'[x]) \in Int
             /\ Amount(View(u)[x]) \in Int /\ Amount(db[x]) \in Int
             /\ Amount(View(u)'[x]) - Amount(db'[x]) = Amount(View(u)[x]) - Amount(db[x])
  <2>1. /\ Amount(View(u)'[x]) \in Int /\ Amount(db'[x]) \in Int
        /\ Amount(View(u)[x]) \in Int /\ Amount(db[x]) \in Int
    BY <1>1, <1>2, <1>4, Amounts
  <2>2. CASE x \in DOMAIN writes[u]
    <3>1. View(u)'[x] = View(u)[x] /\ db'[x] = db[x]
      BY <1>1, <1>2, <1>3, <2>2
    <3>. QED
      BY <2>1, <3>1
  <2>3. CASE x \notin DOMAIN writes[u]
    <3>1. View(u)'[x] = db'[x] /\ View(u)[x] = db[x]
      BY <1>1, <1>2, <2>3
    <3>. QED
      BY <2>1, <3>1
  <2>. QED
    BY <2>1, <2>2, <2>3
<1>6. SumFunctionOnSet(f, C) - SumFunctionOnSet(g, C) = SumFunctionOnSet(ff, C) - SumFunctionOnSet(gg, C)
  <2>1. /\ \A x \in C : f[x] \in Int /\ g[x] \in Int /\ ff[x] \in Int /\ gg[x] \in Int
        /\ \A x \in C : f[x] - g[x] = ff[x] - gg[x]
    BY <1>5 DEF Books
  <2>2. IsFiniteSet(C)
    BY BooksOf
  <2>. HIDE DEF f, g, ff, gg, C
  <2>. QED
    BY <2>1, <2>2, SumDifference
<1>7. MetricsRow(s) \in Books(s)
  BY DEF Books
<1>. QED
  BY <1>5, <1>6, <1>7 DEF Tally, Reported

LEMMA CommitSums ==
    ASSUME Inv, Inv', SumsInv, NEW w \in Writers, Commit(w)
    PROVE  SumsInv'
<1>1. /\ db' = View(w) /\ w \in checked
      /\ \A u \in Writers \ {w} : writes'[u] = writes[u] /\ events'[u] = events[u]
      /\ DOMAIN writes'[w] = {} /\ checked' = checked \ {w}
  BY CommitDef DEF Inv, Typed, Commit, Reset
<1>2. ASSUME NEW s \in Sessions
      PROVE  (Tally(db, s) = Reported(db, s) /\ NoOrphans(db, s))'
  <2>1. /\ Tally(View(w), s) - Tally(db, s) = Reported(View(w), s) - Reported(db, s)
        /\ Tally(db, s) = Reported(db, s) /\ NoOrphans(View(w), s) /\ NoOrphans(db, s)
    BY <1>1 DEF SumsInv, OwnCounts
  <2>2. /\ Tally(View(w), s) \in Int /\ Reported(View(w), s) \in Int
        /\ Tally(db, s) \in Int
    BY <2>1, AddUp, SeesBooks DEF Inv
  <2>3. Tally(View(w), s) = Reported(View(w), s)
    BY <2>1, <2>2
  <2>. QED
    BY <1>1, <2>1, <2>3 DEF Tally, Reported, NoOrphans
<1>3. ASSUME NEW u \in Writers \ {w}, NEW s \in Sessions
      PROVE  OwnCounts(u, s)'
  <2>. DEFINE M == MetricsRow(s)
  <2>1. OwnCounts(u, s) /\ OwnCounts(w, s) /\ NoneBelow(u, w, s) /\ NoneBelow(w, u, s)
    BY DEF SumsInv
  <2>2. /\ CountsWritten(u, s)' = CountsWritten(u, s)
        /\ MetricsWritten(u, s)' = MetricsWritten(u, s)
    BY <1>1 DEF CountsWritten, MetricsWritten
  <2>3. /\ View(w)[M] = IF MetricsWritten(w, s) THEN writes[w][M] ELSE db[M]
        /\ View(u)[M] = IF MetricsWritten(u, s) THEN writes[u][M] ELSE db[M]
        /\ MetricsWritten(u, s) => ~ MetricsWritten(w, s)
    BY Sees, OneOwner DEF Inv
  <2>4. CountsWritten(u, s)' /\ ~ MetricsWritten(u, s)' => db'[M] # Absent
    BY <1>1, <2>1, <2>2, <2>3 DEF OwnCounts, NoneBelow
  <2>5. \A x \in Books(s) : View(u)'[x] = IF x \in DOMAIN writes[u] THEN writes[u][x] ELSE View(w)[x]
    BY <1>1, BooksOf DEF View, Inv, Typed, TypeOK
  <2>6. NoOrphans(View(u), s)'
    <3>. SUFFICES ASSUME View(u)'[M] = Absent, NEW x \in CountRows(s)
                  PROVE  View(u)'[x] = Absent
      BY DEF NoOrphans
    <3>0. M \in Books(s) /\ x \in Books(s)
      BY DEF Books
    <3>1. CASE MetricsWritten(u, s)
      <4>1. View(u)[M] = Absent /\ ~ CountsWritten(w, s)
        BY <2>1, <2>3, <2>5, <3>0, <3>1 DEF NoneBelow, MetricsWritten
      <4>2. View(u)[x] = Absent
        BY <2>1, <4>1 DEF OwnCounts, NoOrphans
      <4>3. x \notin DOMAIN writes[w]
        BY <4>1 DEF CountsWritten
      <4>. QED
        BY <2>5, <3>0, <4>2, <4>3, SeesBooks DEF Inv
    <3>2. CASE ~ MetricsWritten(u, s)
      <4>1. View(w)[M] = Absent
        BY <2>5, <3>0, <3>2 DEF MetricsWritten
      <4>2. View(w)[x] = Absent
        BY <2>1, <4>1 DEF OwnCounts, NoOrphans
      <4>3. x \notin DOMAIN writes[u]
        BY <1>1, <2>2, <2>4, <3>2, <4>1 DEF CountsWritten
      <4>. QED
        BY <2>5, <3>0, <4>2, <4>3
    <3>. QED
      BY <3>1, <3>2
  <2>7. u \in checked' =>
          (Tally(View(u), s) - Tally(db, s) = Reported(View(u), s) - Reported(db, s))'
    BY <1>1, <2>1, CommitKeepsChange DEF OwnCounts
  <2>. QED
    BY <1>1, <2>1, <2>2, <2>4, <2>6, <2>7 DEF OwnCounts
<1>4. \A s \in Sessions : OwnCounts(w, s)'
  BY <1>1, <1>2, EndedCounts
<1>5. ASSUME NEW u \in Writers, NEW v \in Writers, NEW s \in Sessions, u # v
      PROVE  NoneBelow(u, v, s)'
  BY <1>1, <1>5 DEF SumsInv, NoneBelow, CountsWritten, MetricsWritten
<1>. QED
  BY <1>2, <1>3, <1>4, <1>5 DEF SumsInv

LEMMA InitSums == Init => SumsInv
<1>. SUFFICES ASSUME Init PROVE SumsInv
  OBVIOUS
<1>1. Inv
  BY InitInv
<1>2. \A w \in Writers : DOMAIN writes[w] = {} /\ w \notin checked
  BY DEF Init, NoTransactions, NoWrites
<1>3. ASSUME NEW s \in Sessions
      PROVE  /\ Tally(db, s) = Reported(db, s) /\ NoOrphans(db, s)
             /\ \A w \in Writers : NoOrphans(View(w), s)
  <2>1. \A x \in Books(s) : db[x] = Absent
    BY BooksOf DEF Init
  <2>2. NoOrphans(db, s)
    BY <2>1 DEF NoOrphans, Books
  <2>3. CountsAddUp(db, s) /\ \A x \in Books(s) : db[x] \in {Absent} \cup 0 .. MaxInvalid
    BY <2>1 DEF CountsAddUp, Books
  <2>4. Tally(db, s) = Reported(db, s)
    BY <2>2, <2>3, AddUp
  <2>5. ASSUME NEW w \in Writers
        PROVE  NoOrphans(View(w), s)
    <3>1. \A x \in Books(s) : View(w)[x] = db[x]
      BY <1>1, <1>2, SeesBooks DEF Inv
    <3>. QED
      BY <2>2, <3>1, SameBooks
  <2>. QED
    BY <2>2, <2>4, <2>5
<1>. QED
  BY <1>2, <1>3 DEF SumsInv, OwnCounts, NoneBelow, CountsWritten, MetricsWritten

LEMMA NextSums ==
    ASSUME Inv, Inv', SumsInv, [Next]_vars
    PROVE  SumsInv'
<1>1. CASE UNCHANGED vars
  <2>1. \A u \in Writers : View(u)' = View(u)
    BY <1>1 DEF vars, View
  <2>. QED
    BY <1>1, <2>1 DEF vars, SumsInv, OwnCounts, Tally, Reported, NoOrphans, NoneBelow,
                      CountsWritten, MetricsWritten
<1>2. CASE Next
  BY <1>2, StatementSums, RunDeferredSums, CommitSums, RollbackSums DEF Next
<1>. QED
  BY <1>1, <1>2

(* However transactions interleave between each other's deferred checks and  *)
(* commits, the committed reason counts of a session add up to the invalid   *)
(* samples of its metrics and do not outlive them.                           *)
THEOREM ReasonsAddUp == Spec => []ReasonsSumUp
<1>1. Inv /\ SumsInv => ReasonsSumUp
  <2>. SUFFICES ASSUME Inv, SumsInv, NEW s \in Sessions
                PROVE  /\ CountsAddUp(db, s)
                       /\ db[MetricsRow(s)] = Absent => \A x \in CountRows(s) : db[x] = Absent
    BY DEF ReasonsSumUp
  <2>1. Tally(db, s) = Reported(db, s) /\ NoOrphans(db, s)
    BY DEF SumsInv
  <2>2. \A x \in Books(s) : db[x] \in {Absent} \cup 0 .. MaxInvalid
    BY BooksOf DEF Inv, Typed, TypeOK
  <2>. QED
    BY <2>1, <2>2, AddUp DEF NoOrphans
<1>2. Spec => []SumsInv
  BY InitSums, NextSums, Invariance, PTL DEF Spec
<1>. QED
  BY <1>1, <1>2, Invariance, PTL
=============================================================================
