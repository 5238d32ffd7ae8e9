--------------------------- MODULE VisitorProofs ---------------------------
(***************************************************************************)
(* What the service reads of a query and of a browser's cookies, for any   *)
(* queries, any jars and any number of visits.                             *)
(***************************************************************************)
EXTENDS Visitor, SequenceTheorems, WellFoundedInduction, TLAPS

Byte == 0..255

\* Any set of natural numbers has a least one.
LEMMA Least == ASSUME NEW T, T \subseteq Nat, T # {}
               PROVE  \E n \in T : \A m \in T : n <= m
<1> DEFINE R == {p \in Nat \X Nat : p[1] < p[2]}
<1>1. IsWellFoundedOn(R, Nat)
  BY NatLessThanWellFounded DEF OpToRel
<1>2. PICK n \in T : \A m \in T : <<m, n>> \notin R
  <2> HIDE DEF R
  <2> QED
    BY <1>1, WFMin
<1>3. \A m \in T : ~(m < n)
  BY <1>2
<1> QED
  BY <1>3

-----------------------------------------------------------------------------
(* Induction, with a set in the place of a predicate, and what folds are.  *)

\* Over numbers.
LEMMA CountingUp ==
    ASSUME NEW T, 0 \in T, \A n \in Nat : n \in T => n + 1 \in T
    PROVE  Nat \subseteq T
<1> DEFINE U == {n \in Nat : n \notin T}
<1>1. U = {}
  <2> SUFFICES ASSUME U # {} PROVE FALSE
    OBVIOUS
  <2>1. PICK n \in U : \A m \in U : n <= m
    <3>1. U \subseteq Nat
      OBVIOUS
    <3> HIDE DEF U
    <3> QED
      BY <3>1, Least
  <2>2. n - 1 \in Nat /\ ~(n <= n - 1) /\ n = (n - 1) + 1
    OBVIOUS
  <2> QED
    BY <2>1, <2>2
<1> QED
  BY <1>1

\* Over sequences.
LEMMA Appending ==
    ASSUME NEW S, NEW T, <<>> \in T, \A s \in Seq(S) : \A e \in S : s \in T => Append(s, e) \in T
    PROVE  Seq(S) \subseteq T
<1> DEFINE N == {n \in Nat : \A s \in Seq(S) : Len(s) = n => s \in T}
<1>1. 0 \in N
  <2>1. \A s \in Seq(S) : Len(s) = 0 => s = <<>>
    OBVIOUS
  <2> QED
    BY <2>1
<1>2. ASSUME NEW n \in Nat, n \in N PROVE n + 1 \in N
  <2> SUFFICES ASSUME NEW s \in Seq(S), Len(s) = n + 1 PROVE s \in T
    OBVIOUS
  <2>1. s # <<>>
    OBVIOUS
  <2>2. PICK t \in Seq(S), e \in S : s = Append(t, e)
    BY <2>1, SequenceEmptyOrAppend
  <2>3. Len(t) = n
    BY <2>2
  <2> QED
    BY <1>2, <2>2, <2>3
<1>3. Nat \subseteq N
  <2> HIDE DEF N
  <2> QED
    BY <1>1, <1>2, CountingUp
<1> QED
  BY <1>3

\* Two runs of the same steps from the same beginning.
LEMMA SameRun ==
    ASSUME NEW n \in Nat, NEW r, NEW q, r[0] = q[0],
           \A k \in 1..n : r[k - 1] = q[k - 1] => r[k] = q[k]
    PROVE  r[n] = q[n]
<1> DEFINE T == {k \in Nat : k <= n => r[k] = q[k]}
<1>1. 0 \in T
  OBVIOUS
<1>2. ASSUME NEW k \in Nat, k \in T PROVE k + 1 \in T
  <2> SUFFICES ASSUME k + 1 <= n PROVE r[k + 1] = q[k + 1]
    OBVIOUS
  <2>1. k + 1 \in 1..n /\ (k + 1) - 1 = k /\ r[k] = q[k]
    BY <1>2
  <2> QED
    BY <2>1
<1>3. Nat \subseteq T
  <2> HIDE DEF T
  <2> QED
    BY <1>1, <1>2, CountingUp
<1> QED
  BY <1>3

\* The largest of the first numbers.
LEMMA MaxOfFirst ==
    ASSUME NEW n \in Nat, NEW S \in SUBSET (1..n), n \in S
    PROVE  Max(S) = n
<1>1. \A m \in S : m \in Nat /\ n >= m
  OBVIOUS
<1>2. \A x \in S : (\A m \in S : x >= m) => x = n
  <2> SUFFICES ASSUME NEW x \in S, x >= n PROVE x = n
    OBVIOUS
  <2> QED
    BY <1>1
<1> QED
  BY <1>1, <1>2 DEF Max

\* The largest of some numbers is one of them.
LEMMA MaxIn ==
    ASSUME NEW n \in Nat, NEW D \in SUBSET (1..n), D # {}
    PROVE  Max(D) \in D /\ Max(D) \in 1..n /\ D \ {Max(D)} \in SUBSET (1..n)
<1> DEFINE M == {m \in Nat : \A x \in D : x <= m}
<1>1. D \subseteq Nat /\ n \in M /\ M \subseteq Nat
  OBVIOUS
<1>2. PICK m \in M : \A k \in M : m <= k
  <2> HIDE DEF M
  <2> QED
    BY <1>1, Least
<1>3. m \in D
  <2> SUFFICES ASSUME m \notin D PROVE FALSE
    OBVIOUS
  <2>1. PICK x \in D : TRUE
    OBVIOUS
  <2>2. \A y \in D : y \in Nat /\ y <= m /\ y # m
    BY <1>1, <1>2
  <2>3. m - 1 \in Nat /\ \A y \in D : y <= m - 1
    BY <1>2, <2>1, <2>2
  <2>4. m - 1 \in M /\ m \in Nat
    BY <1>2, <2>3
  <2>5. m <= m - 1
    <3> HIDE DEF M
    <3> QED
      BY <1>2, <2>4
  <2> QED
    BY <2>4, <2>5
<1>4. \A y \in D : m >= y
  BY <1>1, <1>2
<1>5. Max(D) \in D
  BY <1>3, <1>4 DEF Max
<1> QED
  BY <1>5

\* The function that a fold from the left recurs with, for a step that is a
\* function F.
FoldOf(f, F, base, s) ==
    f = [D \in SUBSET (DOMAIN s) |->
            IF D = {} THEN base ELSE F[<<f[D \ {Max(D)}], s[Max(D)]>>]]

\* There is one for every sequence.
LEMMA FoldOfAppend ==
    ASSUME NEW S, NEW E, NEW F \in [S \X E -> S], NEW base \in S, NEW s \in Seq(E), NEW e \in E,
           NEW f \in [SUBSET (DOMAIN s) -> S], FoldOf(f, F, base, s)
    PROVE  \E g \in [SUBSET (DOMAIN Append(s, e)) -> S] : FoldOf(g, F, base, Append(s, e))
<1> DEFINE n == Len(s)
           t == Append(s, e)
           N == n + 1
           g == [D \in SUBSET (1..N) |-> IF N \in D THEN F[<<f[D \ {N}], e>>] ELSE f[D]]
           step(h, D) == IF D = {} THEN base ELSE F[<<h[D \ {Max(D)}], t[Max(D)]>>]
<1>1. /\ n \in Nat /\ DOMAIN s = 1..n /\ DOMAIN t = 1..N /\ t[N] = e
      /\ \A i \in 1..n : t[i] = s[i] /\ i # N
  OBVIOUS
<1> HIDE DEF t, n
<1>2. /\ N \in Nat /\ N \in 1..N /\ N \notin 1..n
      /\ \A D \in SUBSET (1..N) : D \ {N} \in SUBSET (1..n)
      /\ \A D \in SUBSET (1..N) : N \notin D => D \in SUBSET (1..n)
      /\ \A D \in SUBSET (1..n) : D \in SUBSET (1..N) /\ N \notin D
  BY <1>1
<1>3. \A D \in SUBSET (1..n) : f[D] = (IF D = {} THEN base ELSE F[<<f[D \ {Max(D)}], s[Max(D)]>>])
  BY <1>1 DEF FoldOf
<1>4. g \in [SUBSET (1..N) -> S]
  <2>1. \A D \in SUBSET (1..n) : f[D] \in S
    BY <1>1
  <2>2. \A a \in S : F[<<a, e>>] \in S
    OBVIOUS
  <2> QED
    BY <1>2, <2>1, <2>2
<1>5. \A D \in SUBSET (1..n) : g[D] = f[D]
  BY <1>2
<1>6. ASSUME NEW D \in SUBSET (1..N) PROVE g[D] = step(g, D)
  <2>1. CASE N \in D
    <3>1. Max(D) = N /\ D # {}
      BY <1>2, <2>1, MaxOfFirst
    <3>2. g[D] = F[<<f[D \ {N}], e>>] /\ g[D \ {N}] = f[D \ {N}]
      BY <1>2, <1>5, <2>1
    <3> HIDE DEF g
    <3> QED
      BY <1>1, <3>1, <3>2
  <2>2. CASE N \notin D
    <3>1. D \in SUBSET (1..n) /\ D \ {Max(D)} \in SUBSET (1..n)
      BY <1>2, <2>2
    <3>2. g[D] = f[D] /\ g[D \ {Max(D)}] = f[D \ {Max(D)}]
      BY <1>5, <3>1
    <3>3. D # {} => Max(D) \in 1..n
      BY <1>1, <3>1, MaxIn
    <3> HIDE DEF g
    <3> QED
      BY <1>1, <1>3, <3>1, <3>2, <3>3
  <2> QED
    BY <2>1, <2>2
<1>7. g = [D \in SUBSET (1..N) |-> step(g, D)]
  <2>1. DOMAIN g = SUBSET (1..N) /\ g = [D \in DOMAIN g |-> g[D]]
    OBVIOUS
  <2> HIDE DEF g
  <2> QED
    BY <1>6, <2>1
<1> HIDE DEF g
<1>8. FoldOf(g, F, base, t)
  BY <1>1, <1>7 DEF FoldOf
<1> QED
  BY <1>1, <1>4, <1>8 DEF t

\* There is one for every sequence.
LEMMA FoldOfAny ==
    ASSUME NEW S, NEW E, NEW F \in [S \X E -> S], NEW base \in S, NEW s \in Seq(E)
    PROVE  \E f \in [SUBSET (DOMAIN s) -> S] : FoldOf(f, F, base, s)
<1> DEFINE T == {t \in Seq(E) : \E f \in [SUBSET (DOMAIN t) -> S] : FoldOf(f, F, base, t)}
<1>1. <<>> \in T
  <2> DEFINE f == [D \in SUBSET {} |-> base]
  <2>1. DOMAIN <<>> = {} /\ <<>> \in Seq(E) /\ \A D \in SUBSET {} : D = {}
    OBVIOUS
  <2>2. f \in [SUBSET {} -> S] /\ f = [D \in SUBSET {} |->
            IF D = {} THEN base ELSE F[<<f[D \ {Max(D)}], <<>>[Max(D)]>>]]
    BY <2>1
  <2> QED
    BY <2>1, <2>2 DEF FoldOf
<1>2. ASSUME NEW t \in Seq(E), NEW e \in E, t \in T PROVE Append(t, e) \in T
  <2>1. PICK f \in [SUBSET (DOMAIN t) -> S] : FoldOf(f, F, base, t)
    BY <1>2
  <2>2. \E g \in [SUBSET (DOMAIN Append(t, e)) -> S] : FoldOf(g, F, base, Append(t, e))
    BY <2>1, FoldOfAppend
  <2> QED
    BY <2>2
<1>3. Seq(E) \subseteq T
  <2> HIDE DEF T
  <2> QED
    BY <1>1, <1>2, Appending
<1> QED
  BY <1>3

\* Its values for the first elements.
Run(f, n) == [k \in 0..n |-> f[1..k]]

RunsTo(r, F, base, s, v) ==
    /\ r[0] = base /\ v = r[Len(s)]
    /\ \A k \in 1..Len(s) : r[k] = F[<<r[k - 1], s[k]>>]

\* Such a function goes from one element to the next.
LEMMA FoldOfRuns ==
    ASSUME NEW E, NEW F, NEW base, NEW s \in Seq(E), NEW f, FoldOf(f, F, base, s)
    PROVE  RunsTo(Run(f, Len(s)), F, base, s, f[DOMAIN s])
<1> DEFINE n == Len(s)  r == [k \in 0..n |-> f[1..k]]
<1>1. n \in Nat /\ DOMAIN s = 1..n
  OBVIOUS
<1>2. \A D \in SUBSET (1..n) : f[D] = (IF D = {} THEN base ELSE F[<<f[D \ {Max(D)}], s[Max(D)]>>])
  BY <1>1 DEF FoldOf
<1>3. f[DOMAIN s] = r[n]
  BY <1>1
<1> HIDE DEF n
<1>4. r[0] = base
  <2>1. 1..0 = {} /\ 0 \in 0..n /\ 1..0 \in SUBSET (1..n)
    BY <1>1
  <2> QED
    BY <1>2, <2>1
<1>5. ASSUME NEW k \in 1..n PROVE r[k] = F[<<r[k - 1], s[k]>>]
  <2>1. k \in Nat /\ k \in 0..n /\ k - 1 \in 0..n /\ k \in 1..k /\ 1..k \in SUBSET (1..n)
    BY <1>1
  <2>2. \A m : m \in (1..k) \ {k} <=> m \in 1..(k - 1)
    BY <2>1
  <2>3. Max(1..k) = k
    BY <2>1, MaxOfFirst
  <2>4. (1..k) \ {k} = 1..(k - 1) /\ 1..k # {}
    BY <2>1, <2>2
  <2>5. r[k] = f[1..k] /\ r[k - 1] = f[1..(k - 1)]
    BY <2>1
  <2> HIDE DEF r
  <2> QED
    BY <1>2, <2>1, <2>3, <2>4, <2>5
<1>6. Run(f, n) = r
  BY DEF Run
<1> HIDE DEF r
<1> QED
  BY <1>3, <1>4, <1>5, <1>6 DEF n, RunsTo

\* The value of the fold.
Fold(F, base, s) == (CHOOSE f : FoldOf(f, F, base, s))[DOMAIN s]

\* Any function that recurs so gives it.
LEMMA FoldIs ==
    ASSUME NEW E, NEW F, NEW base, NEW s \in Seq(E), NEW f, FoldOf(f, F, base, s)
    PROVE  Fold(F, base, s) = f[DOMAIN s]
<1> DEFINE g == CHOOSE g : FoldOf(g, F, base, s)
           q == Run(f, Len(s))
           r == Run(g, Len(s))
<1>1. FoldOf(g, F, base, s)
  OBVIOUS
<1>2. Fold(F, base, s) = g[DOMAIN s]
  BY DEF Fold
<1> HIDE DEF g
<1>3. RunsTo(r, F, base, s, g[DOMAIN s])
  BY <1>1, FoldOfRuns
<1>4. RunsTo(q, F, base, s, f[DOMAIN s])
  BY FoldOfRuns
<1>5. Len(s) \in Nat
  OBVIOUS
<1> HIDE DEF r, q
<1>6. r[Len(s)] = q[Len(s)]
  <2>1. r[0] = q[0] /\ \A k \in 1..Len(s) : r[k - 1] = q[k - 1] => r[k] = q[k]
    BY <1>3, <1>4 DEF RunsTo
  <2> QED
    BY <1>5, <2>1, SameRun, Zenon
<1> QED
  BY <1>2, <1>3, <1>4, <1>6 DEF RunsTo

\* A step that makes of a value and an element another value.
StepOn(F, S, E) == F \in [S \X E -> S]

\* A fold of nothing, and of one element more.
LEMMA FoldSteps ==
    ASSUME NEW S, NEW E, NEW F, StepOn(F, S, E), NEW base \in S, NEW s \in Seq(E)
    PROVE  /\ Fold(F, base, <<>>) = base
           /\ Fold(F, base, s) \in S
           /\ \A e \in E : Fold(F, base, Append(s, e)) = F[<<Fold(F, base, s), e>>]
<1>0. F \in [S \X E -> S]
  BY DEF StepOn
<1>1. ASSUME NEW t \in Seq(E), Len(t) = 0 PROVE Fold(F, base, t) = base
  <2>1. PICK f \in [SUBSET (DOMAIN t) -> S] : FoldOf(f, F, base, t)
    BY <1>0, FoldOfAny
  <2>2. RunsTo(Run(f, Len(t)), F, base, t, f[DOMAIN t])
    BY <2>1, FoldOfRuns
  <2>3. f[DOMAIN t] = base
    BY <1>1, <2>2 DEF RunsTo
  <2>4. Fold(F, base, t) = f[DOMAIN t]
    BY <2>1, FoldIs
  <2> QED
    BY <2>3, <2>4
<1>e. <<>> \in Seq(E) /\ Len(<<>>) = 0
  OBVIOUS
<1>2. PICK f \in [SUBSET (DOMAIN s) -> S] : FoldOf(f, F, base, s)
  BY <1>0, FoldOfAny
<1>3. Fold(F, base, s) = f[DOMAIN s] /\ f[DOMAIN s] \in S
  BY <1>2, FoldIs
<1>4. ASSUME NEW e \in E PROVE Fold(F, base, Append(s, e)) = F[<<Fold(F, base, s), e>>]
  <2> DEFINE t == Append(s, e)  n == Len(s)
             q == Run(f, n)
  <2>1. t \in Seq(E) /\ Len(t) = n + 1 /\ n \in Nat /\ t[n + 1] = e /\ \A k \in 1..n : t[k] = s[k]
    OBVIOUS
  <2> HIDE DEF t
  <2>2. PICK g \in [SUBSET (DOMAIN t) -> S] : FoldOf(g, F, base, t)
    BY <1>0, <2>1, FoldOfAny
  <2> DEFINE r == Run(g, Len(t))
  <2>3. RunsTo(r, F, base, t, g[DOMAIN t])
    BY <2>1, <2>2, FoldOfRuns
  <2>4. RunsTo(q, F, base, s, f[DOMAIN s])
    BY <1>2, FoldOfRuns
  <2>e. n = Len(s)
    OBVIOUS
  <2> HIDE DEF r, q, n
  <2>5. \A k \in 1..n : k \in 1..Len(t) /\ t[k] = s[k]
    BY <2>1
  <2>6. r[n] = q[n]
    <3>1. r[0] = q[0]
      BY <2>3, <2>4 DEF RunsTo
    <3>2. \A k \in 1..n : r[k - 1] = q[k - 1] => r[k] = q[k]
      <4> SUFFICES ASSUME NEW k \in 1..n, r[k - 1] = q[k - 1] PROVE r[k] = q[k]
        OBVIOUS
      <4>1. r[k] = F[<<r[k - 1], t[k]>>] /\ t[k] = s[k]
        BY <2>3, <2>5 DEF RunsTo
      <4>2. q[k] = F[<<q[k - 1], s[k]>>]
        BY <2>4, <2>e DEF RunsTo
      <4> QED
        BY <4>1, <4>2
    <3>3. n \in Nat
      BY <2>1
    <3> QED
      BY <3>1, <3>2, <3>3, SameRun, Zenon
  <2>7. r[n + 1] = F[<<r[n], e>>]
    <3>1. n + 1 \in 1..Len(t) /\ (n + 1) - 1 = n
      BY <2>1
    <3> QED
      BY <2>1, <2>3, <3>1 DEF RunsTo
  <2>8. Fold(F, base, t) = g[DOMAIN t]
    BY <2>1, <2>2, FoldIs
  <2> QED
    BY <1>3, <2>1, <2>3, <2>4, <2>6, <2>7, <2>8, <2>e DEF t, RunsTo
<1> QED
  BY <1>1, <1>e, <1>3, <1>4

\* A fold whose steps stay in a set has its values in it.
LEMMA FoldStays ==
    ASSUME NEW S, NEW n \in Nat, NEW f, DOMAIN f = SUBSET (1..n), f[{}] \in S,
           f = [D \in SUBSET (1..n) |-> f[D]],
           \A D \in SUBSET (1..n) : D # {} => (Max(D) \in D /\ f[D \ {Max(D)}] \in S => f[D] \in S)
    PROVE  f \in [SUBSET (1..n) -> S]
<1> DEFINE T == {k \in Nat : k <= n => \A D \in SUBSET (1..k) : f[D] \in S}
<1>1. 0 \in T
  <2>1. \A D \in SUBSET (1..0) : D = {}
    OBVIOUS
  <2> QED
    BY <2>1
<1>2. ASSUME NEW k \in Nat, k \in T PROVE k + 1 \in T
  <2> SUFFICES ASSUME k + 1 <= n, NEW D \in SUBSET (1..(k + 1)) PROVE f[D] \in S
    BY k + 1 \in Nat
  <2>k. k <= n
    OBVIOUS
  <2>d. \A C \in SUBSET (1..k) : f[C] \in S
    BY <1>2, <2>k
  <2>1. CASE k + 1 \in D
    <3>1. Max(D) = k + 1
      BY <2>1, MaxOfFirst
    <3>2. D \ {k + 1} \in SUBSET (1..k) /\ D \in SUBSET (1..n) /\ D # {}
      BY <2>1
    <3>3. f[D \ {k + 1}] \in S
      BY <2>d, <3>2
    <3> QED
      BY <2>1, <3>1, <3>2, <3>3
  <2>2. CASE k + 1 \notin D
    <3>1. D \in SUBSET (1..k)
      BY <2>2
    <3> QED
      BY <2>d, <3>1
  <2> QED
    BY <2>1, <2>2
<1>3. Nat \subseteq T
  <2> HIDE DEF T
  <2> QED
    BY <1>1, <1>2, CountingUp
<1>4. \A D \in SUBSET (1..n) : f[D] \in S
  <2>1. n \in T
    <3> HIDE DEF T
    <3> QED
      BY <1>3
  <2>2. n <= n
    OBVIOUS
  <2> QED
    BY <2>1, <2>2
<1> QED
  BY <1>4

\* Putting sequences behind each other as a step of a fold.
Cat(S) == [p \in Seq(S) \X Seq(S) |-> p[1] \o p[2]]

\* The function that FlattenSeq recurs with.
Flattens(f, s) == f = [i \in 1..Len(s) |-> IF i = 1 THEN s[i] ELSE f[i - 1] \o s[i]]

\* What FlattenSeq is of.
LEMMA FlattenDef ==
    ASSUME NEW s, Len(s) # 0 PROVE FlattenSeq(s) = (CHOOSE f : Flattens(f, s))[Len(s)]
  BY DEF FlattenSeq, Flattens

\* FlattenSeq is a fold.
LEMMA FlattenIsFold ==
    ASSUME NEW S, NEW s \in Seq(Seq(S))
    PROVE  FlattenSeq(s) = Fold(Cat(S), <<>>, s) /\ Cat(S) \in [Seq(S) \X Seq(S) -> Seq(S)]
<1> DEFINE n == Len(s)
<1>1. Cat(S) \in [Seq(S) \X Seq(S) -> Seq(S)]
  BY DEF Cat
<1>2. <<>> \in Seq(S) /\ n \in Nat
  OBVIOUS
<1>3. PICK f \in [SUBSET (DOMAIN s) -> Seq(S)] : FoldOf(f, Cat(S), <<>>, s)
  BY <1>1, <1>2, FoldOfAny
<1> DEFINE r == Run(f, n)
<1>4. RunsTo(r, Cat(S), <<>>, s, f[DOMAIN s])
  BY <1>3, FoldOfRuns
<1>5. Fold(Cat(S), <<>>, s) = f[DOMAIN s]
  BY <1>3, FoldIs
<1>6. \A k \in 0..n : r[k] \in Seq(S)
  <2> SUFFICES ASSUME NEW k \in 0..n PROVE r[k] \in Seq(S)
    OBVIOUS
  <2>1. r[k] = f[1..k]
    BY DEF Run
  <2>2. 1..k \in SUBSET (DOMAIN s)
    OBVIOUS
  <2> QED
    BY <1>3, <2>1, <2>2
<1> HIDE DEF r, n
<1>7. r[0] = <<>> /\ \A k \in 1..n : r[k] = r[k - 1] \o s[k] /\ s[k] \in Seq(S) /\ r[k] \in Seq(S)
  <2>1. r[0] = <<>>
    BY <1>4 DEF RunsTo
  <2>2. ASSUME NEW k \in 1..n PROVE r[k] = r[k - 1] \o s[k] /\ s[k] \in Seq(S) /\ r[k] \in Seq(S)
    <3>1. k - 1 \in 0..n /\ k \in 0..n
      BY <1>2
    <3>2. s[k] \in Seq(S) /\ r[k - 1] \in Seq(S) /\ r[k] \in Seq(S)
      BY <1>6, <3>1 DEF n
    <3>3. r[k] = Cat(S)[<<r[k - 1], s[k]>>]
      BY <1>4 DEF RunsTo, n
    <3> QED
      BY <3>2, <3>3 DEF Cat
  <2> QED
    BY <2>1, <2>2
<1>8. CASE n = 0
  <2>1. s = <<>> /\ FlattenSeq(s) = s
    BY <1>8 DEF FlattenSeq, n
  <2> QED
    BY <1>1, <1>4, <1>5, <1>7, <1>8, <2>1 DEF RunsTo, n
<1>9. CASE n # 0
  <2> DEFINE h == [i \in 1..n |-> r[i]]
  <2>1. h = [i \in 1..n |-> IF i = 1 THEN s[i] ELSE h[i - 1] \o s[i]]
    <3>1. ASSUME NEW i \in 1..n PROVE r[i] = IF i = 1 THEN s[i] ELSE h[i - 1] \o s[i]
      <4>1. CASE i = 1
        <5>0. i - 1 = 0 /\ r[i] = r[i - 1] \o s[i] /\ s[i] \in Seq(S)
          <6>1. i - 1 = 0
            BY <4>1
          <6>2. r[i] = r[i - 1] \o s[i] /\ s[i] \in Seq(S)
            BY <1>7
          <6> QED
            BY <6>1, <6>2
        <5>1. r[i] = <<>> \o s[i] /\ s[i] \in Seq(S)
          BY <1>7, <5>0
        <5> QED
          BY <4>1, <5>1
      <4>2. CASE i # 1
        <5>1. i - 1 \in 1..n
          BY <1>2, <4>2
        <5> QED
          BY <1>7, <4>2, <5>1
      <4> QED
        BY <4>1, <4>2
    <3> QED
      BY <3>1
  <2>2. Flattens(h, s)
    BY <2>1 DEF Flattens, n
  <2> DEFINE g == CHOOSE g : Flattens(g, s)
  <2>3. Flattens(g, s)
    <3> HIDE DEF h
    <3> QED
      BY <2>2
  <2>4. FlattenSeq(s) = g[n]
    BY <1>9, FlattenDef DEF n
  <2> HIDE DEF g
  <2>5. \A i \in 1..n : g[i] = IF i = 1 THEN s[i] ELSE g[i - 1] \o s[i]
    BY <2>3 DEF Flattens, n
  <2> DEFINE q == [k \in 0..n |-> IF k = 0 THEN <<>> ELSE g[k]]
  <2>6. q[0] = r[0]
    BY <1>2, <1>7
  <2>7. ASSUME NEW k \in 1..n, q[k - 1] = r[k - 1] PROVE q[k] = r[k]
    <3>1. k \in 0..n /\ k - 1 \in 0..n /\ k # 0
      BY <1>2
    <3>2. q[k] = g[k]
      BY <3>1
    <3>3. CASE k = 1
      <4>0. k - 1 = 0 /\ r[k] = r[k - 1] \o s[k] /\ s[k] \in Seq(S)
        <5>1. k - 1 = 0
          BY <3>3
        <5>2. r[k] = r[k - 1] \o s[k] /\ s[k] \in Seq(S)
          BY <1>7
        <5> QED
          BY <5>1, <5>2
      <4>1. g[k] = s[k] /\ r[k] = <<>> \o s[k] /\ s[k] \in Seq(S)
        BY <1>7, <2>5, <3>3, <4>0
      <4> QED
        BY <3>2, <4>1
    <3>4. CASE k # 1
      <4>0. g[k] = g[k - 1] \o s[k]
        BY <2>5, <3>4
      <4>1. q[k - 1] = g[k - 1]
        <5>1. k - 1 # 0
          BY <1>2, <3>4
        <5> QED
          BY <3>1, <5>1
      <4> HIDE DEF q
      <4> QED
        BY <1>7, <2>7, <3>2, <4>0, <4>1
    <3> QED
      BY <3>3, <3>4
  <2>8. q[n] = g[n]
    BY <1>2, <1>9
  <2> HIDE DEF q
  <2>9. q[n] = r[n]
    BY <1>2, <2>6, <2>7, SameRun, Zenon
  <2>a. f[DOMAIN s] = r[n]
    BY <1>4 DEF RunsTo, n
  <2> QED
    BY <1>1, <1>5, <2>4, <2>8, <2>9, <2>a
<1> QED
  BY <1>8, <1>9

\* What FlattenSeq makes of nothing, and of one sequence more.
LEMMA FlattenSteps ==
    ASSUME NEW S, NEW s \in Seq(Seq(S))
    PROVE  /\ FlattenSeq(<<>>) = <<>> /\ FlattenSeq(s) \in Seq(S)
           /\ \A x \in Seq(S) : FlattenSeq(Append(s, x)) = FlattenSeq(s) \o x
<1>1. <<>> \in Seq(S) /\ Cat(S) \in [Seq(S) \X Seq(S) -> Seq(S)]
  BY DEF Cat
<1>2. FlattenSeq(s) = Fold(Cat(S), <<>>, s) /\ Fold(Cat(S), <<>>, s) \in Seq(S)
      /\ \A x \in Seq(S) : Fold(Cat(S), <<>>, Append(s, x)) = Cat(S)[<<Fold(Cat(S), <<>>, s), x>>]
  <2>1. FlattenSeq(s) = Fold(Cat(S), <<>>, s)
    BY FlattenIsFold
  <2> DEFINE T == Seq(S)  F == Cat(S)  base == <<>>
  <2>2. StepOn(F, T, T) /\ base \in T /\ s \in Seq(T)
    BY <1>1 DEF StepOn
  <2> HIDE DEF T, F, base
  <2>3. Fold(F, base, s) \in T /\ \A x \in T : Fold(F, base, Append(s, x)) = F[<<Fold(F, base, s), x>>]
    BY <2>2, FoldSteps
  <2> QED
    BY <2>1, <2>3 DEF T, F, base
<1>3. FlattenSeq(<<>>) = <<>>
  BY DEF FlattenSeq
<1>4. ASSUME NEW x \in Seq(S) PROVE FlattenSeq(Append(s, x)) = FlattenSeq(s) \o x
  <2>1. Fold(Cat(S), <<>>, Append(s, x)) = Cat(S)[<<Fold(Cat(S), <<>>, s), x>>]
    BY <1>2
  <2>2. Append(s, x) \in Seq(Seq(S))
    OBVIOUS
  <2>3. FlattenSeq(Append(s, x)) = Fold(Cat(S), <<>>, Append(s, x))
    BY <2>2, FlattenIsFold
  <2> QED
    BY <1>2, <2>1, <2>3 DEF Cat
<1> QED
  BY <1>2, <1>3, <1>4

-----------------------------------------------------------------------------
(* percent_decode.                                                         *)

\* What the automaton is in, where it starts, and its step as a function.
Automaton == [state : {"General", "First", "Second"}, first : Byte, result : Seq(Byte)]
Started == [state |-> "General", first |-> 0, result |-> <<>>]
DecodeStep == [p \in Automaton \X Byte |-> DecodeChar(p[1], p[2])]

\* What it is in after a text.
Decoded(str) == FoldLeft(DecodeChar, Started, str)

\* The automaton stays in its states, whatever the byte.
LEMMA DecodeType ==
    /\ \A s \in Automaton : \A c \in Byte : DecodeChar(s, c) \in Automaton
    /\ Started \in Automaton /\ StepOn(DecodeStep, Automaton, Byte)
<1>1. ASSUME NEW s \in Automaton, NEW c \in Byte PROVE DecodeChar(s, c) \in Automaton
  <2>1. s.first \in Byte /\ s.result \in Seq(Byte) /\ s.state \in {"General", "First", "Second"}
    BY DEF Automaton
  <2>2. HexToInt(s.first) \in 0..15 /\ HexToInt(c) \in 0..15
    BY <2>1 DEF HexToInt, Byte
  <2>3. 16 * HexToInt(s.first) + HexToInt(c) \in Byte
    BY <2>2 DEF Byte
  <2>4. Percent \in Byte
    BY DEF Percent, Byte
  <2> DEFINE b == 16 * HexToInt(s.first) + HexToInt(c)
  <2> HIDE DEF b
  <2>5. /\ Append(s.result, c) \in Seq(Byte) /\ Append(s.result, b) \in Seq(Byte)
        /\ s.result \o <<Percent, c>> \in Seq(Byte)
        /\ s.result \o <<Percent, s.first, c>> \in Seq(Byte)
    BY <2>1, <2>3, <2>4 DEF b
  <2>6. CASE s.state = "General"
    BY <2>1, <2>5, <2>6 DEF DecodeChar, Automaton
  <2>7. CASE s.state = "First"
    BY <2>1, <2>5, <2>7 DEF DecodeChar, Automaton
  <2>8. CASE s.state = "Second"
    BY <2>1, <2>5, <2>8 DEF DecodeChar, Automaton, b
  <2> QED
    BY <2>1, <2>6, <2>7, <2>8
<1>2. Started \in Automaton
  BY DEF Started, Automaton, Byte
<1>3. StepOn(DecodeStep, Automaton, Byte)
  <2>1. \A p \in Automaton \X Byte : DecodeChar(p[1], p[2]) \in Automaton
    BY <1>1
  <2> QED
    BY <2>1 DEF StepOn, DecodeStep
<1> QED
  BY <1>1, <1>2, <1>3

\* The function percent_decode's fold recurs with.
Decodes(f, str) ==
    f = [D \in SUBSET (DOMAIN str) |->
            IF D = {} THEN Started ELSE DecodeChar(f[D \ {Max(D)}], str[Max(D)])]

\* FoldLeft is that function's value at the whole text.
LEMMA DecodedDef ==
    ASSUME NEW str PROVE Decoded(str) = (CHOOSE f : Decodes(f, str))[DOMAIN str]
BY DEF Decoded, FoldLeft, MapThenFoldSet, Decodes

\* It is the fold of the automaton's step.
LEMMA DecodedIsFold ==
    ASSUME NEW str \in Seq(Byte) PROVE Decoded(str) = Fold(DecodeStep, Started, str)
<1> DEFINE n == Len(str)
<1>1. n \in Nat /\ DOMAIN str = 1..n /\ \A i \in 1..n : str[i] \in Byte
  OBVIOUS
<1> HIDE DEF n
<1>2. PICK f \in [SUBSET (DOMAIN str) -> Automaton] : FoldOf(f, DecodeStep, Started, str)
  BY DecodeType, FoldOfAny DEF StepOn
<1>3. ASSUME NEW h \in [SUBSET (1..n) -> Automaton], NEW D \in SUBSET (1..n), D # {}
      PROVE  DecodeStep[<<h[D \ {Max(D)}], str[Max(D)]>>] = DecodeChar(h[D \ {Max(D)}], str[Max(D)])
  <2>1. Max(D) \in 1..n /\ D \ {Max(D)} \in SUBSET (1..n)
    BY <1>1, <1>3, MaxIn
  <2>2. str[Max(D)] \in Byte /\ h[D \ {Max(D)}] \in Automaton
    BY <1>1, <2>1
  <2> QED
    BY <2>2 DEF DecodeStep
<1>4. Decodes(f, str)
  BY <1>1, <1>2, <1>3 DEF Decodes, FoldOf
<1> DEFINE g == CHOOSE g : Decodes(g, str)
<1>5. Decodes(g, str)
  BY <1>4
<1>6. Decoded(str) = g[DOMAIN str]
  BY DecodedDef
<1> HIDE DEF g
<1>7. g \in [SUBSET (1..n) -> Automaton]
  <2>1. DOMAIN g = SUBSET (1..n) /\ g = [D \in SUBSET (1..n) |-> g[D]] /\ g[{}] = Started
    BY <1>1, <1>5 DEF Decodes
  <2>2. ASSUME NEW D \in SUBSET (1..n), D # {}, g[D \ {Max(D)}] \in Automaton PROVE g[D] \in Automaton
    <3>1. g[D] = DecodeChar(g[D \ {Max(D)}], str[Max(D)])
      BY <1>1, <1>5, <2>2 DEF Decodes
    <3>2. str[Max(D)] \in Byte
      BY <1>1, <2>2, MaxIn
    <3> QED
      BY <2>2, <3>1, <3>2, DecodeType
  <2>3. g[{}] \in Automaton
    BY <2>1, DecodeType
  <2> QED
    BY <1>1, <2>1, <2>2, <2>3, FoldStays
<1>8. FoldOf(g, DecodeStep, Started, str)
  BY <1>1, <1>3, <1>5, <1>7 DEF Decodes, FoldOf
<1> QED
  BY <1>6, <1>8, FoldIs

\* What percent_decode is in after nothing, and after one character more.
LEMMA DecodedSteps ==
    ASSUME NEW str \in Seq(Byte)
    PROVE  /\ Decoded(<<>>) = Started /\ Decoded(str) \in Automaton
           /\ PercentDecode(str) = Decoded(str).result
           /\ \A c \in Byte : Decoded(Append(str, c)) = DecodeChar(Decoded(str), c)
<1>1. /\ Fold(DecodeStep, Started, <<>>) = Started /\ Fold(DecodeStep, Started, str) \in Automaton
      /\ \A c \in Byte : Fold(DecodeStep, Started, Append(str, c))
                            = DecodeStep[<<Fold(DecodeStep, Started, str), c>>]
  BY DecodeType, FoldSteps
<1>2. <<>> \in Seq(Byte) /\ \A c \in Byte : Append(str, c) \in Seq(Byte)
  OBVIOUS
<1>3. ASSUME NEW c \in Byte PROVE Decoded(Append(str, c)) = DecodeChar(Decoded(str), c)
  BY <1>1, <1>2, DecodedIsFold DEF DecodeStep
<1> QED
  BY <1>1, <1>2, <1>3, DecodedIsFold DEF PercentDecode, Decoded, Started

\* Encoding one byte more.
LEMMA EncodeSteps ==
    ASSUME NEW str \in Seq(Byte)
    PROVE  /\ Encode(<<>>) = <<>> /\ Encode(str) \in Seq(Byte)
           /\ \A b \in Byte : EncodeByte(b) \in Seq(Byte)
                              /\ Encode(Append(str, b)) = Encode(str) \o EncodeByte(b)
<1> DEFINE all(t) == [i \in DOMAIN t |-> EncodeByte(t[i])]
<1>1. \A b \in Byte : EncodeByte(b) \in Seq(Byte)
  <2> SUFFICES ASSUME NEW b \in Byte PROVE EncodeByte(b) \in Seq(Byte)
    OBVIOUS
  <2>1. HexOf(b \div 16) \in Byte /\ HexOf(b % 16) \in Byte /\ Percent \in Byte
    BY DEF HexOf, Byte, Percent
  <2> QED
    BY <2>1 DEF EncodeByte
<1>2. all(str) \in Seq(Seq(Byte))
  <2>1. \A i \in DOMAIN str : EncodeByte(str[i]) \in Seq(Byte)
    BY <1>1
  <2> QED
    BY <2>1
<1>3. Encode(<<>>) = <<>>
  <2>1. all(<<>>) = <<>>
    OBVIOUS
  <2> QED
    BY <2>1, <1>2, FlattenSteps DEF Encode
<1>4. Encode(str) = FlattenSeq(all(str)) /\ Encode(str) \in Seq(Byte)
  BY <1>2, FlattenSteps DEF Encode
<1>5. ASSUME NEW b \in Byte PROVE Encode(Append(str, b)) = Encode(str) \o EncodeByte(b)
  <2>1. all(Append(str, b)) = Append(all(str), EncodeByte(b))
    <3> DEFINE l == all(Append(str, b))  r == Append(all(str), EncodeByte(b))  n == Len(str) + 1
    <3>1. n \in Nat /\ DOMAIN l = 1..n /\ DOMAIN r = 1..n /\ Len(all(str)) = n - 1
      BY <1>1, <1>2
    <3>2. l = [i \in 1..n |-> l[i]] /\ r = [i \in 1..n |-> r[i]]
      BY <1>1, <1>2, <3>1
    <3>3. \A i \in 1..n : l[i] = r[i]
      BY <1>1, <1>2, <3>1
    <3> HIDE DEF l, r
    <3> QED
      BY <3>2, <3>3
  <2>2. Encode(Append(str, b)) = FlattenSeq(all(Append(str, b)))
    BY DEF Encode
  <2> QED
    BY <1>1, <1>2, <1>4, <2>1, <2>2, FlattenSteps
<1> QED
  BY <1>1, <1>3, <1>4, <1>5

\* What the automaton makes of one encoded byte.
LEMMA DecodesByte ==
    ASSUME NEW t \in Seq(Byte), NEW b \in Byte, Decoded(t).state = "General"
    PROVE  /\ Decoded(t \o EncodeByte(b)).state = "General"
           /\ Decoded(t \o EncodeByte(b)).result = Append(Decoded(t).result, b)
<1> DEFINE a == Decoded(t)
<1>1. a \in Automaton /\ a.state = "General" /\ a.result \in Seq(Byte)
  BY DecodedSteps DEF Automaton
<1>2. CASE b \in 48..57 \cup 65..90 \cup 97..122
  <2>1. EncodeByte(b) = <<b>> /\ b # Percent
    BY <1>2 DEF EncodeByte, Percent
  <2>2. t \o EncodeByte(b) = Append(t, b)
    BY <2>1
  <2>3. Decoded(Append(t, b)) = DecodeChar(a, b)
    BY DecodedSteps
  <2> HIDE DEF a
  <2> QED
    BY <1>1, <2>1, <2>2, <2>3 DEF DecodeChar, Automaton, a
<1>3. CASE b \notin 48..57 \cup 65..90 \cup 97..122
  <2> DEFINE x == HexOf(b \div 16)  y == HexOf(b % 16)
             t1 == Append(t, Percent)  t2 == Append(t1, x)  t3 == Append(t2, y)
  <2>0. b \div 16 \in 0..15 /\ b % 16 \in 0..15 /\ b = 16 * (b \div 16) + (b % 16)
    BY DEF Byte
  <2>1. \A n \in 0..15 : HexOf(n) \in HexDigit /\ HexOf(n) \in Byte /\ HexToInt(HexOf(n)) = n
    BY DEF HexOf, HexDigit, HexToInt, Byte
  <2>2. x \in HexDigit /\ x \in Byte /\ y \in HexDigit /\ y \in Byte
        /\ 16 * HexToInt(x) + HexToInt(y) = b /\ Percent \in Byte
    <3>1. HexToInt(x) = b \div 16 /\ HexToInt(y) = b % 16
      BY <2>0, <2>1
    <3>2. 16 * HexToInt(x) + HexToInt(y) = b
      BY <2>0, <3>1
    <3>3. x \in HexDigit /\ x \in Byte /\ y \in HexDigit /\ y \in Byte
      BY <2>0, <2>1
    <3> QED
      BY <3>2, <3>3 DEF Percent, Byte
  <2>3. EncodeByte(b) = <<Percent, x, y>>
    BY <1>3 DEF EncodeByte
  <2> HIDE DEF x, y
  <2>4. t \o EncodeByte(b) = t3
    BY <2>2, <2>3
  <2>5. t1 \in Seq(Byte) /\ t2 \in Seq(Byte)
    BY <2>2
  <2>6. Decoded(t1) = DecodeChar(a, Percent)
    BY <2>2, DecodedSteps
  <2>7. Decoded(t2) = DecodeChar(Decoded(t1), x)
    BY <2>2, <2>5, DecodedSteps
  <2>8. Decoded(t3) = DecodeChar(Decoded(t2), y)
    BY <2>2, <2>5, DecodedSteps
  <2> HIDE DEF a, t1, t2, t3
  <2>9. Decoded(t1).state = "First" /\ Decoded(t1).result = a.result /\ Decoded(t1) \in Automaton
    <3>1. Decoded(t1) \in Automaton
      BY <1>1, <2>2, <2>6, DecodeType
    <3> QED
      BY <1>1, <2>6, <3>1 DEF DecodeChar, Automaton
  <2>a. /\ Decoded(t2).state = "Second" /\ Decoded(t2).result = a.result /\ Decoded(t2).first = x
        /\ Decoded(t2) \in Automaton
    <3>1. Decoded(t2) \in Automaton
      BY <2>2, <2>7, <2>9, DecodeType
    <3> QED
      BY <2>2, <2>7, <2>9, <3>1 DEF DecodeChar, Automaton
  <2>b. Decoded(t3).state = "General" /\ Decoded(t3).result = Append(a.result, b)
    BY <2>2, <2>8, <2>a DEF DecodeChar, Automaton
  <2> QED
    BY <2>4, <2>b DEF a
<1> QED
  BY <1>2, <1>3

\* percent_decode undoes percent encoding, of any text.
LEMMA DecodesEncoded == \A str \in Seq(Byte) : PercentDecode(Encode(str)) = str
<1> DEFINE T == {str \in Seq(Byte) : Decoded(Encode(str)).state = "General"
                                     /\ Decoded(Encode(str)).result = str}
<1>1. <<>> \in T
  <2>1. Encode(<<>>) = <<>> /\ Decoded(<<>>) = Started /\ <<>> \in Seq(Byte)
    BY <<>> \in Seq(Byte), EncodeSteps, DecodedSteps
  <2> QED
    BY <2>1 DEF Started
<1>2. ASSUME NEW str \in Seq(Byte), NEW b \in Byte, str \in T PROVE Append(str, b) \in T
  <2>1. Encode(Append(str, b)) = Encode(str) \o EncodeByte(b) /\ Encode(str) \in Seq(Byte)
    BY EncodeSteps
  <2>2. Decoded(Encode(str)).state = "General" /\ Decoded(Encode(str)).result = str
    BY <1>2
  <2>3. /\ Decoded(Encode(str) \o EncodeByte(b)).state = "General"
        /\ Decoded(Encode(str) \o EncodeByte(b)).result = Append(str, b)
    BY <2>1, <2>2, DecodesByte
  <2>4. Append(str, b) \in Seq(Byte)
    OBVIOUS
  <2> QED
    BY <2>1, <2>3, <2>4
<1>3. Seq(Byte) \subseteq T
  <2> HIDE DEF T
  <2> QED
    BY <1>1, <1>2, Appending
<1>4. ASSUME NEW str \in Seq(Byte) PROVE PercentDecode(Encode(str)) = str
  <2>1. Decoded(Encode(str)).result = str /\ Encode(str) \in Seq(Byte)
    BY <1>3, EncodeSteps
  <2> QED
    BY <2>1, DecodedSteps
<1> QED
  BY <1>4

-----------------------------------------------------------------------------
(* base64.                                                                 *)

\* Pieces of n bytes, of which the last may be shorter.
InPieces(B, n) ==
    /\ B \in Seq(Seq(Byte))
    /\ \A k \in 1..Len(B) : Len(B[k]) \in 1..n /\ (k < Len(B) => Len(B[k]) = n)

\* Where the bytes of the pieces are when the pieces are put together.
PlacedAt(B, n, t) ==
    /\ t \in Seq(Byte)
    /\ Len(t) = IF Len(B) = 0 THEN 0 ELSE n * (Len(B) - 1) + Len(B[Len(B)])
    /\ \A k \in 1..Len(B) : \A j \in 1..Len(B[k]) : t[n * (k - 1) + j] = B[k][j]

\* Pieces that are put together are found at multiples of their length.
LEMMA PiecesPlaced ==
    ASSUME NEW n \in {3, 4}
    PROVE  \A B \in Seq(Seq(Byte)) : InPieces(B, n) => PlacedAt(B, n, FlattenSeq(B))
<1> DEFINE T == {B \in Seq(Seq(Byte)) : InPieces(B, n) => PlacedAt(B, n, FlattenSeq(B))}
<1>1. <<>> \in T
  <2>1. <<>> \in Seq(Seq(Byte)) /\ FlattenSeq(<<>>) = <<>> /\ <<>> \in Seq(Byte) /\ Len(<<>>) = 0
    BY DEF FlattenSeq
  <2>2. PlacedAt(<<>>, n, <<>>)
    <3> DEFINE nil == <<>>
    <3>1. nil \in Seq(Byte) /\ Len(nil) = 0 /\ 1..0 = {}
      BY <2>1
    <3> HIDE DEF nil
    <3>2. PlacedAt(nil, n, nil)
      BY <3>1 DEF PlacedAt
    <3> QED
      BY <3>2 DEF nil
  <2> QED
    BY <2>1, <2>2
<1>2. ASSUME NEW B \in Seq(Seq(Byte)), NEW x \in Seq(Byte), B \in T PROVE Append(B, x) \in T
  <2> DEFINE C == Append(B, x)  m == Len(B)  u == FlattenSeq(B)  t == FlattenSeq(C)
  <2>1. /\ C \in Seq(Seq(Byte)) /\ m \in Nat /\ Len(C) = m + 1 /\ C[m + 1] = x
        /\ \A k \in 1..m : C[k] = B[k] /\ B[k] \in Seq(Byte)
    OBVIOUS
  <2>2. t = u \o x /\ u \in Seq(Byte)
    BY FlattenSteps
  <2> SUFFICES ASSUME InPieces(C, n) PROVE PlacedAt(C, n, t)
    BY <2>1
  <2> HIDE DEF C, m, u, t
  <2>3. Len(x) \in 1..n /\ \A k \in 1..m : Len(B[k]) = n
    <3>1. m + 1 \in 1..Len(C) /\ \A k \in 1..m : k \in 1..Len(C) /\ k < Len(C)
      BY <2>1
    <3> QED
      BY <2>1, <3>1 DEF InPieces
  <2>4. InPieces(B, n)
    BY <2>1, <2>3 DEF InPieces, m
  <2>5. PlacedAt(B, n, u)
    BY <1>2, <2>4 DEF u
  <2>6. Len(u) = n * m
    <3>1. CASE m = 0
      BY <2>5, <3>1 DEF PlacedAt, m
    <3>2. CASE m # 0
      <4>1. m \in 1..m
        BY <2>1, <3>2
      <4>2. Len(u) = n * (m - 1) + n
        BY <2>3, <2>5, <3>2, <4>1 DEF PlacedAt, m
      <4> QED
        BY <2>1, <4>2
    <3> QED
      BY <3>1, <3>2
  <2>7. t \in Seq(Byte) /\ Len(t) = n * m + Len(x)
    <3>1. t \in Seq(Byte) /\ Len(t) = Len(u) + Len(x)
      BY <2>2
    <3> QED
      BY <2>6, <3>1
  <2>8. ASSUME NEW k \in 1..(m + 1), NEW j \in 1..Len(C[k]) PROVE t[n * (k - 1) + j] = C[k][j]
    <3>1. CASE k = m + 1
      <4>1. C[k] = x /\ j \in 1..Len(x) /\ n * (k - 1) + j = Len(u) + j
        BY <2>1, <2>6, <3>1
      <4>2. t[Len(u) + j] = x[j]
        BY <2>2, <4>1
      <4> QED
        BY <4>1, <4>2
    <3>2. CASE k # m + 1
      <4>1. k \in 1..m /\ C[k] = B[k] /\ j \in 1..n /\ Len(B[k]) = n
        BY <2>1, <2>3, <3>2
      <4>2. u[n * (k - 1) + j] = B[k][j]
        BY <2>5, <4>1 DEF PlacedAt, m
      <4>3. n * (k - 1) + j \in 1..Len(u)
        <5>1. k \in Int /\ m \in Int /\ j \in Int /\ 1 <= k /\ k <= m /\ 1 <= j /\ j <= n
          BY <2>1, <4>1
        <5>2. CASE n = 3
          BY <2>6, <5>1, <5>2
        <5>3. CASE n = 4
          BY <2>6, <5>1, <5>3
        <5> QED
          BY <5>2, <5>3
      <4> QED
        BY <2>2, <4>1, <4>2, <4>3
    <3> QED
      BY <3>1, <3>2
  <2>9. Len(C) # 0 /\ Len(C) - 1 = m /\ Len(C[Len(C)]) = Len(x)
    BY <2>1
  <2> QED
    BY <2>1, <2>7, <2>8, <2>9 DEF PlacedAt
<1>3. Seq(Seq(Byte)) \subseteq T
  <2> HIDE DEF T
  <2> QED
    BY <1>1, <1>2, Appending
<1> QED
  BY <1>3

\* Pieces finds the pieces that a text was made of.
LEMMA PiecesFound ==
    ASSUME NEW n \in {3, 4}, NEW B, InPieces(B, n), NEW t, PlacedAt(B, n, t)
    PROVE  Pieces(t, n) = B
<1> DEFINE m == Len(B)  L == Len(t)
           top(k) == IF n * k < L THEN n * k ELSE L
<1>1. B \in Seq(Seq(Byte)) /\ m \in Nat /\ t \in Seq(Byte) /\ L \in Nat
  <2>1. B \in Seq(Seq(Byte))
    BY DEF InPieces
  <2>2. t \in Seq(Byte)
    BY DEF PlacedAt
  <2> QED
    BY <2>1, <2>2
<1>2. ASSUME NEW k \in 1..m
      PROVE  /\ Len(B[k]) \in 1..n /\ top(k) = n * (k - 1) + Len(B[k]) /\ top(k) <= L
             /\ B[k] \in Seq(Byte)
  <2>1. Len(B[k]) \in 1..n /\ (k < m => Len(B[k]) = n) /\ B[k] \in Seq(Byte)
    BY <1>1 DEF InPieces
  <2>2. Len(B[m]) \in 1..n /\ L = n * (m - 1) + Len(B[m])
    <3>1. m \in 1..m /\ m # 0
      BY <1>1
    <3>2. Len(B[m]) \in 1..n
      BY <3>1 DEF InPieces
    <3>3. L = n * (m - 1) + Len(B[m])
      BY <3>1 DEF PlacedAt
    <3> QED
      BY <3>2, <3>3
  <2> DEFINE l == Len(B[m])  b == Len(B[k])
  <2>3. l \in 1..n /\ b \in 1..n /\ (k < m => b = n) /\ (k = m => b = l) /\ L = n * (m - 1) + l
    BY <2>1, <2>2
  <2>4. m \in Int /\ k \in Int /\ k <= m
    BY <1>1
  <2> HIDE DEF l, b, L, m
  <2>5. (IF n * k < L THEN n * k ELSE L) = n * (k - 1) + b /\ (IF n * k < L THEN n * k ELSE L) <= L
    <3>1. CASE n = 3
      BY <2>3, <2>4, <3>1
    <3>2. CASE n = 4
      BY <2>3, <2>4, <3>2
    <3> QED
      BY <3>1, <3>2
  <2> QED
    BY <2>1, <2>3, <2>5 DEF b
<1>3. (L + n - 1) \div n = m
  <2>1. CASE m = 0
    BY <1>1, <2>1 DEF PlacedAt
  <2>2. CASE m # 0
    <3> DEFINE l == Len(B[m])
    <3>1. l \in 1..n /\ L = n * (m - 1) + l
      BY <1>1, <2>2 DEF InPieces, PlacedAt
    <3> HIDE DEF l, L, m
    <3>2. CASE n = 3
      BY <1>1, <2>2, <3>1, <3>2
    <3>3. CASE n = 4
      BY <1>1, <2>2, <3>1, <3>3
    <3> QED
      BY <3>2, <3>3
  <2> QED
    BY <2>1, <2>2
<1>4. ASSUME NEW k \in 1..m PROVE SubSeq(t, n * (k - 1) + 1, top(k)) = B[k]
  <2> DEFINE a == n * (k - 1)  b == Len(B[k])  p == SubSeq(t, a + 1, top(k))
  <2>1. a \in Nat /\ b \in Nat /\ top(k) = a + b /\ top(k) <= L /\ B[k] \in Seq(Byte)
    <3>1. Len(B[k]) \in 1..n /\ top(k) = n * (k - 1) + Len(B[k]) /\ top(k) <= L /\ B[k] \in Seq(Byte)
      BY <1>2
    <3>2. k - 1 \in Nat /\ n \in Nat
      BY <1>1
    <3>3. n * (k - 1) \in Nat
      BY <3>2
    <3>4. Len(B[k]) \in Nat
      BY <3>1, <3>2
    <3> HIDE DEF top, L
    <3> QED
      BY <3>1, <3>3, <3>4
  <2>2. \A j \in 1..b : t[a + j] = B[k][j]
    BY DEF PlacedAt
  <2> HIDE DEF a, b, top, L
  <2>3. \A i \in (a + 1)..top(k) : t[i] \in Byte
    BY <1>1, <2>1 DEF L
  <2>4. p \in Seq(Byte) /\ Len(p) = b /\ \A j \in 1..b : p[j] = t[a + j]
    <3>1. a + 1 \in Int /\ top(k) \in Int /\ top(k) - (a + 1) + 1 = b
      BY <2>1
    <3>2. /\ SubSeq(t, a + 1, top(k)) \in Seq(Byte)
          /\ Len(SubSeq(t, a + 1, top(k))) = IF a + 1 <= top(k) THEN top(k) - (a + 1) + 1 ELSE 0
          /\ \A i \in 1..(top(k) - (a + 1) + 1) : SubSeq(t, a + 1, top(k))[i] = t[(a + 1) + i - 1]
      BY <2>3, <3>1, SubSeqProperties
    <3>3. \A j \in 1..b : (a + 1) + j - 1 = a + j
      BY <2>1
    <3> QED
      BY <2>1, <3>1, <3>2, <3>3
  <2> HIDE DEF p
  <2>5. \A j \in 1..Len(p) : p[j] = B[k][j]
    BY <2>2, <2>4
  <2>6. Len(p) = Len(B[k])
    BY <2>4 DEF b
  <2>7. p = B[k]
    BY <2>1, <2>4, <2>5, <2>6, SeqEqual
  <2> QED
    BY <2>7 DEF p, a
<1>5. Pieces(t, n) = [k \in 1..m |-> SubSeq(t, n * (k - 1) + 1, top(k))]
  BY <1>3 DEF Pieces
<1>6. B = [k \in 1..m |-> B[k]]
  BY <1>1
<1> HIDE DEF top, m
<1> QED
  BY <1>4, <1>5, <1>6

\* Pieces cuts a text into such pieces, and they make the text again.
LEMMA PiecesMake ==
    ASSUME NEW n \in {3, 4}, NEW t \in Seq(Byte)
    PROVE  /\ InPieces(Pieces(t, n), n) /\ FlattenSeq(Pieces(t, n)) = t
           /\ Len(Pieces(t, n)) = (Len(t) + n - 1) \div n
<1> DEFINE L == Len(t)  m == (L + n - 1) \div n  top(k) == IF n * k < L THEN n * k ELSE L
           P(k) == SubSeq(t, n * (k - 1) + 1, top(k))
           B == Pieces(t, n)
<1>1. L \in Nat
  OBVIOUS
<1> HIDE DEF L
<1>3. m \in Nat /\ L <= n * m /\ (L # 0 => m # 0 /\ n * (m - 1) < L) /\ (L = 0 => m = 0)
  <2>1. CASE n = 3
    BY <1>1, <2>1
  <2>2. CASE n = 4
    BY <1>1, <2>2
  <2> QED
    BY <2>1, <2>2
<1> HIDE DEF m
<1>4. ASSUME NEW k \in 1..m
      PROVE  /\ n * (k - 1) \in Nat /\ top(k) \in Nat /\ n * (k - 1) + 1 <= top(k) /\ top(k) <= L
             /\ top(k) - n * (k - 1) \in 1..n /\ (k < m => top(k) - n * (k - 1) = n)
             /\ (k = m => top(k) = L)
  <2>1. k \in Int /\ 1 <= k /\ k <= m /\ L # 0
    BY <1>3
  <2>2. CASE n = 3
    BY <1>1, <1>3, <2>1, <2>2
  <2>3. CASE n = 4
    BY <1>1, <1>3, <2>1, <2>3
  <2> QED
    BY <2>2, <2>3
<1> HIDE DEF top
<1>5. ASSUME NEW k \in 1..m
      PROVE  /\ P(k) \in Seq(Byte) /\ Len(P(k)) = top(k) - n * (k - 1)
             /\ \A j \in 1..Len(P(k)) : P(k)[j] = t[n * (k - 1) + j]
  <2> DEFINE a == n * (k - 1)
  <2>1. a \in Nat /\ top(k) \in Nat /\ a + 1 <= top(k) /\ top(k) <= L
    BY <1>4
  <2> HIDE DEF a
  <2>2. \A i \in (a + 1)..top(k) : t[i] \in Byte
    BY <1>1, <2>1 DEF L
  <2>3. a + 1 \in Int /\ top(k) \in Int /\ top(k) - (a + 1) + 1 = top(k) - a
    BY <2>1
  <2>4. /\ SubSeq(t, a + 1, top(k)) \in Seq(Byte)
        /\ Len(SubSeq(t, a + 1, top(k))) = IF a + 1 <= top(k) THEN top(k) - (a + 1) + 1 ELSE 0
        /\ \A i \in 1..(top(k) - (a + 1) + 1) : SubSeq(t, a + 1, top(k))[i] = t[(a + 1) + i - 1]
    BY <2>2, <2>3, SubSeqProperties
  <2>5. \A j \in 1..(top(k) - a) : (a + 1) + j - 1 = a + j
    BY <2>1
  <2> QED
    BY <2>1, <2>3, <2>4, <2>5 DEF a
<1> HIDE DEF P
<1>6. B = [k \in 1..m |-> P(k)]
  BY DEF Pieces, P, m, L, top
<1> HIDE DEF B
<1>7. B \in Seq(Seq(Byte)) /\ Len(B) = m /\ \A k \in 1..m : B[k] = P(k)
  <2>1. \A k \in 1..m : P(k) \in Seq(Byte)
    BY <1>5
  <2>2. m \in Nat
    BY <1>3
  <2> QED
    BY <1>6, <2>1, <2>2
<1>8. InPieces(B, n)
  BY <1>4, <1>5, <1>7 DEF InPieces
<1> DEFINE u == FlattenSeq(B)
<1>9. PlacedAt(B, n, u)
  BY <1>7, <1>8, PiecesPlaced
<1> HIDE DEF u
<1>10. u \in Seq(Byte) /\ Len(u) = L
  <2>1. CASE m = 0
    BY <1>1, <1>3, <1>7, <1>9, <2>1 DEF PlacedAt
  <2>2. CASE m # 0
    <3>1. m \in 1..m
      BY <1>3, <2>2
    <3> DEFINE z == n * (m - 1)
    <3>2. Len(u) = z + Len(P(m))
      BY <1>7, <1>9, <3>1, <2>2 DEF PlacedAt
    <3>3. Len(P(m)) = top(m) - z
      BY <1>5, <3>1
    <3>4. z \in Nat /\ top(m) = L
      BY <1>4, <3>1
    <3>5. u \in Seq(Byte)
      BY <1>9 DEF PlacedAt
    <3> HIDE DEF z
    <3>6. z + (L - z) = L
      BY <1>1, <3>4
    <3> QED
      BY <3>2, <3>3, <3>4, <3>5, <3>6
  <2> QED
    BY <2>1, <2>2
<1>11. ASSUME NEW i \in 1..L PROVE u[i] = t[i]
  <2> DEFINE k == ((i - 1) \div n) + 1  j == ((i - 1) % n) + 1
  <2>1. k \in 1..m /\ j \in 1..n /\ i = n * (k - 1) + j /\ i <= top(k)
    <3>1. i \in Int /\ 1 <= i /\ i <= L /\ L <= n * m
      BY <1>1, <1>3
    <3>2. CASE n = 3
      BY <1>1, <1>3, <3>1, <3>2 DEF top
    <3>3. CASE n = 4
      BY <1>1, <1>3, <3>1, <3>3 DEF top
    <3> QED
      BY <3>2, <3>3
  <2> HIDE DEF k, j
  <2>2. j \in 1..(top(k) - n * (k - 1))
    BY <1>4, <2>1
  <2>3. Len(P(k)) = top(k) - n * (k - 1) /\ \A l \in 1..Len(P(k)) : P(k)[l] = t[n * (k - 1) + l]
    BY <1>5, <2>1
  <2>4. B[k] = P(k) /\ k \in 1..Len(B)
    BY <1>7, <2>1
  <2>5. u[n * (k - 1) + j] = B[k][j]
    BY <1>9, <2>2, <2>3, <2>4 DEF PlacedAt
  <2> QED
    BY <2>1, <2>2, <2>3, <2>4, <2>5
<1>12. u = t
  BY <1>10, <1>11, SeqEqual DEF L
<1> QED
  BY <1>7, <1>8, <1>12 DEF u, B, m, L

\* The first bytes of a text.
LEMMA FirstOnes ==
    ASSUME NEW S, NEW e \in Seq(S), NEW l \in Nat, 1 <= l, l <= Len(e)
    PROVE  /\ SubSeq(e, 1, l) \in Seq(S) /\ Len(SubSeq(e, 1, l)) = l
           /\ \A i \in 1..l : SubSeq(e, 1, l)[i] = e[i]
<1>1. l \in Int /\ 1 \in Int /\ \A i \in 1..l : e[i] \in S
  OBVIOUS
<1>2. /\ SubSeq(e, 1, l) \in Seq(S)
      /\ Len(SubSeq(e, 1, l)) = IF 1 <= l THEN l - 1 + 1 ELSE 0
      /\ \A i \in 1..(l - 1 + 1) : SubSeq(e, 1, l)[i] = e[1 + i - 1]
  BY <1>1, SubSeqProperties
<1>3. l - 1 + 1 = l /\ \A i \in 1..l : 1 + i - 1 = i
  OBVIOUS
<1> QED
  BY <1>2, <1>3

\* The characters of the alphabet, and what a piece is filled up with.
Alphabet == {base64_chars[j] : j \in 1..64}

\* The alphabet has 64 bytes, neither '=' nor '%' among them, and find undoes it;
\* the byte that stands for a missing character is not found.
LEMMA AlphabetFound ==
    /\ \A x \in 0..63 : /\ base64_chars[x + 1] \in Byte \ {Padding, Percent}
                        /\ base64_chars[x + 1] \in Alphabet /\ Find(base64_chars[x + 1]) = x
    /\ Padding \in Byte \ {Percent} /\ Padding \notin Alphabet /\ Find(0) = 255
<1>1. \A i \in 1..64 : base64_chars[i] = IF i <= 26 THEN 64 + i ELSE IF i <= 52 THEN 70 + i
                           ELSE IF i <= 62 THEN i - 5 ELSE IF i = 63 THEN 45 ELSE 95
  BY DEF base64_chars
<1>2. \A i, j \in 1..64 : base64_chars[i] = base64_chars[j] => i = j
  BY <1>1
<1>3. \A i \in 1..64 : base64_chars[i] \in Byte \ {Padding, Percent, 0}
  BY <1>1 DEF Byte, Padding, Percent
<1>4. ASSUME NEW x \in 0..63
      PROVE  base64_chars[x + 1] \in Alphabet /\ Find(base64_chars[x + 1]) = x
  <2> DEFINE c == base64_chars[x + 1]  i == CHOOSE i \in 1..64 : base64_chars[i] = c
  <2>1. x + 1 \in 1..64
    OBVIOUS
  <2>2. i \in 1..64 /\ base64_chars[i] = c
    BY <2>1
  <2>3. Find(c) = i - 1
    BY <2>1 DEF Find
  <2>4. i = x + 1
    BY <1>2, <2>1, <2>2
  <2>5. base64_chars[x + 1] \in Alphabet
    BY <2>1 DEF Alphabet
  <2> HIDE DEF i
  <2> QED
    BY <2>3, <2>4, <2>5
<1>5. Padding \notin Alphabet /\ Find(0) = 255
  BY <1>3 DEF Alphabet, Find
<1>6. \A x \in 0..63 : x + 1 \in 1..64
  OBVIOUS
<1> QED
  BY <1>3, <1>4, <1>5, <1>6 DEF Padding, Percent, Byte

\* The sextets of three bytes, and the bytes that the code's masks and shifts
\* make of them again.
LEMMA SextetsBack ==
    ASSUME NEW a \in Byte, NEW b \in Byte, NEW c \in Byte
    PROVE  LET f == Sextets(<<a, b, c>>) IN
           /\ \A j \in 1..4 : f[j] \in 0..63
           /\ (f[1] * 4 + ((f[2] \div 16) % 4)) % 256 = a
           /\ ((f[2] % 16) * 16 + ((f[3] \div 4) % 16)) % 256 = b
           /\ ((f[3] % 4) * 64 + f[4]) % 256 = c
<1> DEFINE f1 == a \div 4  f2 == (a % 4) * 16 + (b \div 16)
           f3 == (b % 16) * 4 + (c \div 64)  f4 == c % 64
<1>1. Sextets(<<a, b, c>>) = <<f1, f2, f3, f4>>
  BY DEF Sextets
<1>2. a \in 0..255 /\ b \in 0..255 /\ c \in 0..255
  BY DEF Byte
<1>3. f1 \in 0..63 /\ f4 \in 0..63
  BY <1>2
<1>4. f2 \in 0..63 /\ f2 \div 16 = a % 4 /\ f2 % 16 = b \div 16
  BY <1>2
<1>5. f3 \in 0..63 /\ f3 \div 4 = b % 16 /\ f3 % 4 = c \div 64
  BY <1>2
<1>6. (f1 * 4 + ((f2 \div 16) % 4)) % 256 = a
  <2>1. f1 * 4 + (a % 4) = a /\ (a % 4) % 4 = a % 4 /\ a % 256 = a
    BY <1>2
  <2> HIDE DEF f1, f2
  <2> QED
    BY <1>4, <2>1
<1>7. ((f2 % 16) * 16 + ((f3 \div 4) % 16)) % 256 = b
  <2>1. (b \div 16) * 16 + (b % 16) = b /\ (b % 16) % 16 = b % 16 /\ b % 256 = b
    BY <1>2
  <2> HIDE DEF f2, f3
  <2>2. (f2 % 16) * 16 = (b \div 16) * 16 /\ (f3 \div 4) % 16 = b % 16
    BY <1>4, <1>5, <2>1
  <2>3. (f2 % 16) * 16 + ((f3 \div 4) % 16) = b
    BY <1>2, <2>1, <2>2
  <2> QED
    BY <2>1, <2>3
<1>8. ((f3 % 4) * 64 + f4) % 256 = c
  <2>1. (c \div 64) * 64 + f4 = c /\ c % 256 = c
    BY <1>2
  <2> HIDE DEF f3
  <2> QED
    BY <1>5, <2>1
<1> HIDE DEF f1, f2, f3, f4
<1> DEFINE f == Sextets(<<a, b, c>>)
<1>9. f[1] = f1 /\ f[2] = f2 /\ f[3] = f3 /\ f[4] = f4
  BY <1>1
<1> HIDE DEF f
<1>10. \A j \in 1..4 : f[j] \in 0..63
  BY <1>3, <1>4, <1>5, <1>9
<1> QED
  BY <1>6, <1>7, <1>8, <1>9, <1>10 DEF f

\* A piece of one to three bytes becomes four characters: one more than there are
\* bytes are of the alphabet, the others are '=', and these decode to the piece.
LEMMA PieceBack ==
    ASSUME NEW p \in Seq(Byte), Len(p) \in 1..3
    PROVE  /\ EncodePiece(p) \in Seq(Byte \ {Percent}) /\ Len(EncodePiece(p)) = 4
           /\ \A j \in 1..4 : EncodePiece(p)[j] \in Alphabet <=> j <= Len(p) + 1
           /\ DecodePiece(SubSeq(EncodePiece(p), 1, Len(p) + 1)) = p
<1> DEFINE r == Len(p)  g == Filled(p, 3)  f == Sextets(g)  e == EncodePiece(p)
           q == SubSeq(e, 1, r + 1)  w == Filled(q, 4)  v == [j \in 1..4 |-> Find(w[j])]
<1>0. r \in 1..3 /\ Len(p) = r
  OBVIOUS
<1>1. g = <<g[1], g[2], g[3]>> /\ \A i \in 1..3 : g[i] \in Byte /\ (i <= r => g[i] = p[i])
  <2> DEFINE z == [j \in 1..(3 - r) |-> 0]
  <2>1. g = p \o z
    BY DEF Filled
  <2> HIDE DEF r
  <2>2. z \in Seq(Byte) /\ Len(z) = 3 - r
    <3>1. 3 - r \in Nat /\ 0 \in Byte
      BY <1>0 DEF Byte
    <3> QED
      BY <3>1
  <2> HIDE DEF z, g
  <2>3. g \in Seq(Byte) /\ Len(g) = 3 /\ \A i \in 1..r : g[i] = p[i]
    BY <1>0, <2>1, <2>2
  <2>4. g = <<g[1], g[2], g[3]>>
    BY <2>3
  <2> QED
    BY <1>0, <2>3, <2>4
<1> HIDE DEF r
<1> HIDE DEF g
<1>2. /\ \A j \in 1..4 : f[j] \in 0..63
      /\ (f[1] * 4 + ((f[2] \div 16) % 4)) % 256 = g[1]
      /\ ((f[2] % 16) * 16 + ((f[3] \div 4) % 16)) % 256 = g[2]
      /\ ((f[3] % 4) * 64 + f[4]) % 256 = g[3]
  <2>1. g[1] \in Byte /\ g[2] \in Byte /\ g[3] \in Byte
    BY <1>1
  <2> QED
    BY <1>1, <2>1, SextetsBack
<1>3. e = [j \in 1..4 |-> IF j <= r + 1 THEN base64_chars[f[j] + 1] ELSE Padding]
  BY DEF EncodePiece, g, r
<1> HIDE DEF f, e
<1>4. ASSUME NEW j \in 1..4
      PROVE  /\ e[j] \in Byte \ {Percent} /\ (e[j] \in Alphabet <=> j <= r + 1)
             /\ (j <= r + 1 => Find(e[j]) = f[j])
  <2>1. CASE j <= r + 1
    <3> DEFINE x == f[j]
    <3>1. e[j] = base64_chars[x + 1] /\ x \in 0..63
      BY <1>2, <1>3, <2>1
    <3> HIDE DEF x
    <3> DEFINE c == base64_chars[x + 1]
    <3>2. c \in Byte \ {Padding, Percent} /\ c \in Alphabet /\ Find(c) = x
      BY <3>1, AlphabetFound
    <3> HIDE DEF c
    <3>3. e[j] = c
      BY <3>1 DEF c
    <3> QED
      BY <2>1, <3>2, <3>3 DEF x
  <2>2. CASE ~(j <= r + 1)
    <3>1. e[j] = Padding
      BY <1>3, <2>2
    <3> QED
      BY <2>2, <3>1, AlphabetFound
  <2> QED
    BY <2>1, <2>2
<1>5. e \in Seq(Byte \ {Percent}) /\ Len(e) = 4 /\ e \in Seq(Byte)
  BY <1>3, <1>4
<1>6. w \in Seq(Byte) /\ Len(w) = 4 /\ Len(q) = r + 1
      /\ \A j \in 1..4 : w[j] = IF j <= r + 1 THEN e[j] ELSE 0
  <2>1. q \in Seq(Byte) /\ Len(q) = r + 1 /\ \A j \in 1..(r + 1) : q[j] = e[j]
    <3> DEFINE l == r + 1
    <3>1. l \in Nat /\ 1 <= l /\ l <= Len(e)
      BY <1>0, <1>5
    <3> HIDE DEF l
    <3> QED
      BY <1>5, <3>1, FirstOnes DEF l
  <2> DEFINE z == [j \in 1..(4 - (r + 1)) |-> 0]
  <2>2. z \in Seq(Byte) /\ Len(z) = 3 - r /\ \A j \in 1..(3 - r) : z[j] = 0
    <3>1. 3 - r \in Nat /\ 0 \in Byte /\ 4 - (r + 1) = 3 - r
      BY <1>0 DEF Byte
    <3> QED
      BY <3>1
  <2>3. w = q \o z
    <3>1. w = q \o [j \in 1..(4 - Len(q)) |-> 0]
      BY DEF Filled
    <3> HIDE DEF w, q
    <3> QED
      BY <2>1, <3>1
  <2> HIDE DEF z, q, w
  <2>4. w \in Seq(Byte) /\ Len(w) = 4 /\ \A j \in 1..(r + 1) : w[j] = e[j]
    BY <1>0, <2>1, <2>2, <2>3
  <2>5. \A j \in (r + 2)..4 : w[j] = 0
    <3> SUFFICES ASSUME NEW j \in (r + 2)..4 PROVE w[j] = 0
      OBVIOUS
    <3>1. j - (r + 1) \in 1..(3 - r) /\ j = Len(q) + (j - (r + 1))
      BY <1>0, <2>1
    <3>2. w[Len(q) + (j - (r + 1))] = z[j - (r + 1)]
      BY <2>1, <2>2, <2>3, <3>1
    <3> QED
      BY <2>2, <3>1, <3>2
  <2> QED
    BY <1>0, <2>1, <2>4, <2>5
<1> HIDE DEF q, w
<1>7. ASSUME NEW j \in 1..4 PROVE v[j] = IF j <= r + 1 THEN f[j] ELSE 255
  <2>1. v[j] = Find(w[j])
    OBVIOUS
  <2> HIDE DEF v
  <2>2. CASE j <= r + 1
    <3>1. w[j] = e[j] /\ Find(e[j]) = f[j]
      BY <1>4, <1>6, <2>2
    <3> QED
      BY <2>1, <2>2, <3>1
  <2>3. CASE ~(j <= r + 1)
    <3>1. w[j] = 0 /\ Find(0) = 255
      BY <1>6, <2>3, AlphabetFound
    <3> QED
      BY <2>1, <2>3, <3>1
  <2> QED
    BY <2>2, <2>3
<1> HIDE DEF v
<1> DEFINE o == Octets(v)
<1>8. /\ o = <<o[1], o[2], o[3]>> /\ \A i \in 1..3 : o[i] \in Byte
      /\ \A i \in 1..r : o[i] = g[i]
  <2>1. v[1] \in 0..255 /\ v[2] \in 0..255 /\ v[3] \in 0..255 /\ v[4] \in 0..255
    <3>1. ASSUME NEW j \in 1..4 PROVE v[j] \in 0..255
      <4>1. f[j] \in 0..255 /\ 255 \in 0..255
        <5>1. f[j] \in 0..63
          BY <1>2, Zenon
        <5> QED
          BY <5>1
      <4>2. v[j] = f[j] \/ v[j] = 255
        BY <1>7
      <4> QED
        BY <4>1, <4>2
    <3>2. 1 \in 1..4 /\ 2 \in 1..4 /\ 3 \in 1..4 /\ 4 \in 1..4
      OBVIOUS
    <3> QED
      BY <3>1, <3>2
  <2>2. /\ o[1] = (v[1] * 4 + ((v[2] \div 16) % 4)) % 256
        /\ o[2] = ((v[2] % 16) * 16 + ((v[3] \div 4) % 16)) % 256
        /\ o[3] = ((v[3] % 4) * 64 + v[4]) % 256
        /\ o = <<o[1], o[2], o[3]>>
    BY DEF Octets
  <2> HIDE DEF o
  <2>3. o[1] \in Byte /\ o[2] \in Byte /\ o[3] \in Byte
    <3> DEFINE v1 == v[1]  v2 == v[2]  v3 == v[3]  v4 == v[4]
               o1 == o[1]  o2 == o[2]  o3 == o[3]
    <3>1. v1 \in 0..255 /\ v2 \in 0..255 /\ v3 \in 0..255 /\ v4 \in 0..255
      BY <2>1
    <3>2. /\ o1 = (v1 * 4 + ((v2 \div 16) % 4)) % 256
          /\ o2 = ((v2 % 16) * 16 + ((v3 \div 4) % 16)) % 256
          /\ o3 = ((v3 % 4) * 64 + v4) % 256
      BY <2>2
    <3> HIDE DEF v1, v2, v3, v4, o1, o2, o3
    <3>3. o1 \in 0..255
      BY <3>1, <3>2
    <3>4. o2 \in 0..255
      BY <3>1, <3>2
    <3>5. o3 \in 0..255
      BY <3>1, <3>2
    <3> QED
      BY <3>3, <3>4, <3>5 DEF Byte, o1, o2, o3
  <2>4. v[1] = f[1] /\ v[2] = f[2] /\ o[1] = g[1]
    <3>1. v[1] = f[1] /\ v[2] = f[2]
      BY <1>0, <1>7
    <3> QED
      BY <1>2, <2>2, <3>1
  <2>5. r >= 2 => v[3] = f[3] /\ o[2] = g[2]
    <3> SUFFICES ASSUME r >= 2 PROVE v[3] = f[3] /\ o[2] = g[2]
      OBVIOUS
    <3>1. v[3] = f[3]
      BY <1>0, <1>7
    <3> QED
      BY <1>2, <2>2, <2>4, <3>1
  <2>6. r >= 3 => o[3] = g[3]
    <3> SUFFICES ASSUME r >= 3 PROVE o[3] = g[3]
      OBVIOUS
    <3>1. v[4] = f[4] /\ v[3] = f[3]
      BY <1>0, <1>7, <2>5
    <3> QED
      BY <1>2, <2>2, <3>1
  <2>7. \A i \in 1..r : o[i] = g[i]
    BY <1>0, <2>4, <2>5, <2>6
  <2>8. \A i \in 1..3 : o[i] \in Byte
    BY <2>3
  <2> QED
    BY <2>2, <2>7, <2>8
<1>9. DecodePiece(q) = SubSeq(o, 1, r)
  <2>1. Len(q) - 1 = r
    BY <1>0, <1>6
  <2>2. DecodePiece(q) = SubSeq(o, 1, Len(q) - 1)
    BY DEF DecodePiece, w, v
  <2> HIDE DEF o
  <2> QED
    BY <2>1, <2>2
<1> HIDE DEF o
<1>10. SubSeq(o, 1, r) = p
  <2>1. o \in Seq(Byte) /\ Len(o) = 3
    <3> DEFINE o1 == o[1]  o2 == o[2]  o3 == o[3]
    <3>1. o1 \in Byte /\ o2 \in Byte /\ o3 \in Byte /\ o = <<o1, o2, o3>>
      BY <1>8
    <3> HIDE DEF o1, o2, o3
    <3> QED
      BY <3>1
  <2>2. SubSeq(o, 1, r) \in Seq(Byte) /\ Len(SubSeq(o, 1, r)) = r /\ \A i \in 1..r : SubSeq(o, 1, r)[i] = o[i]
    BY <1>0, <2>1, FirstOnes
  <2>3. \A i \in 1..r : o[i] = p[i]
    BY <1>0, <1>1, <1>8
  <2> DEFINE x == SubSeq(o, 1, r)
  <2> HIDE DEF x
  <2>4. x \in Seq(Byte) /\ Len(x) = Len(p) /\ \A i \in 1..Len(x) : x[i] = p[i]
    BY <1>0, <2>2, <2>3 DEF x
  <2>5. x = p
    BY <2>4, SeqEqual
  <2> QED
    BY <2>5 DEF x
<1> QED
  BY <1>4, <1>5, <1>9, <1>10 DEF e, q, r

\* What base64_encode makes of a text: the characters of its pieces, none a '%'.
LEMMA EncodedPieces ==
    ASSUME NEW s \in Seq(Byte)
    PROVE  LET P == Pieces(s, 3)
               E == [k \in 1..Len(P) |-> EncodePiece(P[k])]
           IN  /\ base64_encode(s) = FlattenSeq(E) /\ base64_encode(s) \in Seq(Byte \ {Percent})
               /\ Len(E) = Len(P) /\ InPieces(E, 4) /\ PlacedAt(E, 4, base64_encode(s))
<1> DEFINE P == Pieces(s, 3)  m == Len(P)  E == [k \in 1..m |-> EncodePiece(P[k])]
<1>1. InPieces(P, 3) /\ P \in Seq(Seq(Byte)) /\ m \in Nat /\ DOMAIN P = 1..m
  <2>1. InPieces(P, 3)
    BY PiecesMake
  <2>2. P \in Seq(Seq(Byte))
    BY <2>1 DEF InPieces
  <2> HIDE DEF P
  <2> QED
    BY <2>1, <2>2
<1>2. \A k \in 1..m : P[k] \in Seq(Byte) /\ Len(P[k]) \in 1..3
  BY <1>1 DEF InPieces
<1>3. base64_encode(s) = FlattenSeq(E)
  BY <1>1 DEF base64_encode
<1> HIDE DEF P
<1>4. \A k \in 1..m : /\ EncodePiece(P[k]) \in Seq(Byte \ {Percent})
                      /\ EncodePiece(P[k]) \in Seq(Byte) /\ Len(EncodePiece(P[k])) = 4
  <2> SUFFICES ASSUME NEW k \in 1..m
               PROVE  /\ EncodePiece(P[k]) \in Seq(Byte \ {Percent})
                      /\ EncodePiece(P[k]) \in Seq(Byte) /\ Len(EncodePiece(P[k])) = 4
    OBVIOUS
  <2> DEFINE p == P[k]  e == EncodePiece(p)
  <2>1. p \in Seq(Byte) /\ Len(p) \in 1..3
    BY <1>2
  <2> HIDE DEF p
  <2>2. e \in Seq(Byte \ {Percent}) /\ Len(e) = 4
    BY <2>1, PieceBack
  <2> HIDE DEF e
  <2> QED
    BY <2>2 DEF e, p
<1> HIDE DEF m
<1>5. E \in Seq(Seq(Byte \ {Percent})) /\ E \in Seq(Seq(Byte)) /\ Len(E) = m
      /\ \A k \in 1..m : E[k] = EncodePiece(P[k])
  BY <1>1, <1>4
<1> HIDE DEF E
<1>6. FlattenSeq(E) \in Seq(Byte \ {Percent})
  BY <1>5, FlattenSteps
<1>7. InPieces(E, 4)
  BY <1>4, <1>5 DEF InPieces
<1>8. PlacedAt(E, 4, FlattenSeq(E))
  BY <1>5, <1>7, PiecesPlaced
<1> QED
  BY <1>3, <1>5, <1>6, <1>7, <1>8 DEF E, m, P

\* base64_decode undoes base64_encode, of any text.
LEMMA Base64Back == \A s \in Seq(Byte) : base64_decode(base64_encode(s)) = s
<1> SUFFICES ASSUME NEW s \in Seq(Byte) PROVE base64_decode(base64_encode(s)) = s
  OBVIOUS
<1> DEFINE P == Pieces(s, 3)  m == Len(P)  E == [k \in 1..m |-> EncodePiece(P[k])]
           t == base64_encode(s)
           stops == {i \in DOMAIN t : t[i] \notin Alphabet}
           text == IF stops = {} THEN t
                   ELSE SubSeq(t, 1, (CHOOSE i \in stops : \A j \in stops : i <= j) - 1)
<1>1. InPieces(P, 3) /\ FlattenSeq(P) = s /\ P \in Seq(Seq(Byte)) /\ m \in Nat
  <2>1. InPieces(P, 3) /\ FlattenSeq(P) = s
    BY PiecesMake
  <2>2. P \in Seq(Seq(Byte))
    BY <2>1 DEF InPieces
  <2> HIDE DEF P
  <2> QED
    BY <2>1, <2>2
<1>2. Len(E) = m /\ InPieces(E, 4) /\ PlacedAt(E, 4, t)
  BY EncodedPieces
<1>3. base64_decode(t) = FlattenSeq([k \in DOMAIN Pieces(text, 4) |-> DecodePiece(Pieces(text, 4)[k])])
  BY DEF base64_decode, Alphabet
<1>4. \A k \in 1..m : P[k] \in Seq(Byte) /\ Len(P[k]) \in 1..3 /\ (k < m => Len(P[k]) = 3)
  BY <1>1 DEF InPieces
<1> HIDE DEF P, t
<1>5. ASSUME NEW k \in 1..m
      PROVE  /\ E[k] \in Seq(Byte) /\ Len(E[k]) = 4
             /\ \A j \in 1..4 : E[k][j] \in Alphabet <=> j <= Len(P[k]) + 1
             /\ DecodePiece(SubSeq(E[k], 1, Len(P[k]) + 1)) = P[k]
  <2> DEFINE p == P[k]  e == EncodePiece(p)
  <2>1. p \in Seq(Byte) /\ Len(p) \in 1..3
    BY <1>4
  <2> HIDE DEF p
  <2>2. /\ e \in Seq(Byte \ {Percent}) /\ Len(e) = 4
        /\ \A j \in 1..4 : e[j] \in Alphabet <=> j <= Len(p) + 1
        /\ DecodePiece(SubSeq(e, 1, Len(p) + 1)) = p
    BY <2>1, PieceBack
  <2> HIDE DEF e
  <2>3. e \in Seq(Byte)
    BY <2>2
  <2>4. E[k] = e
    BY DEF e, p
  <2> QED
    BY <2>2, <2>3, <2>4 DEF p
<1> HIDE DEF E, m
<1>6. CASE m = 0
  <2>1. Len(t) = 0 /\ t \in Seq(Byte)
    BY <1>2, <1>6 DEF PlacedAt
  <2>2. stops = {} /\ text = t
    BY <2>1
  <2>3. InPieces(Pieces(t, 4), 4) /\ Len(Pieces(t, 4)) = (0 + 4 - 1) \div 4
    BY <2>1, PiecesMake
  <2> DEFINE B == Pieces(t, 4)
  <2> HIDE DEF B
  <2>4. B \in Seq(Seq(Byte)) /\ Len(B) = 0
    BY <2>3 DEF InPieces, B
  <2>5. DOMAIN B = {}
    BY <2>4
  <2>6. [k \in DOMAIN B |-> DecodePiece(B[k])] = <<>>
    BY <2>5
  <2>7. P = <<>>
    BY <1>1, <1>6 DEF m
  <2>8. base64_decode(t) = FlattenSeq([k \in DOMAIN B |-> DecodePiece(B[k])])
    <3> HIDE DEF text
    <3> QED
      BY <1>3, <2>2 DEF B
  <2> QED
    BY <1>1, <2>6, <2>7, <2>8 DEF t
<1>7. CASE m # 0
  <2> DEFINE r == Len(P[m])  cut == 4 * (m - 1) + r + 1
             B == [k \in 1..m |-> SubSeq(E[k], 1, Len(P[k]) + 1)]
  <2>1. m \in 1..m /\ r \in 1..3 /\ cut \in Nat /\ cut <= 4 * m /\ cut > 4 * (m - 1)
    <3>1. m \in 1..m
      BY <1>1, <1>7
    <3>2. r \in 1..3
      BY <1>4, <3>1
    <3> HIDE DEF r
    <3> QED
      BY <3>1, <3>2
  <2>2. t \in Seq(Byte) /\ Len(t) = 4 * m /\ DOMAIN t = 1..(4 * m)
    <3>1. t \in Seq(Byte) /\ Len(t) = 4 * (m - 1) + Len(E[m])
      BY <1>2, <1>7 DEF PlacedAt
    <3>2. Len(E[m]) = 4
      BY <1>5, <2>1
    <3> QED
      BY <1>1, <3>1, <3>2
  <2>3. ASSUME NEW k \in 1..m, NEW j \in 1..4
        PROVE  t[4 * (k - 1) + j] = E[k][j] /\ (4 * (k - 1) + j <= cut <=> j <= Len(P[k]) + 1)
    <3>1. t[4 * (k - 1) + j] = E[k][j]
      BY <1>2, <1>5 DEF PlacedAt
    <3>2. CASE k = m
      <4>1. r = Len(P[k]) /\ r \in Int /\ m \in Int /\ j \in Int
        BY <1>1, <2>1, <3>2
      <4> DEFINE l == Len(P[k])
      <4> HIDE DEF l, r, cut
      <4>2. cut = 4 * (k - 1) + l + 1 /\ l \in Int /\ k \in Int
        BY <3>2, <4>1 DEF cut, l
      <4>3. 4 * (k - 1) + j <= cut <=> j <= l + 1
        BY <4>1, <4>2
      <4> QED
        BY <3>1, <4>3 DEF l
    <3>3. CASE k # m
      <4>1. Len(P[k]) = 3 /\ k \in Int /\ k <= m - 1 /\ m \in Int /\ j \in Int /\ j <= 4
        BY <1>1, <1>4, <3>3
      <4> HIDE DEF cut
      <4>2. 4 * (k - 1) + j <= cut /\ j <= 3 + 1
        BY <2>1, <4>1
      <4> QED
        BY <3>1, <4>1, <4>2
    <3> QED
      BY <3>2, <3>3
  <2> HIDE DEF r, cut
  <2>4. ASSUME NEW i \in 1..(4 * m) PROVE t[i] \in Alphabet <=> i <= cut
    <3> DEFINE k == ((i - 1) \div 4) + 1  j == ((i - 1) % 4) + 1
    <3>1. k \in 1..m /\ j \in 1..4 /\ i = 4 * (k - 1) + j
      <4>1. i \in Int /\ 1 <= i /\ i <= 4 * m /\ m \in Int
        BY <1>1
      <4> QED
        BY <4>1
    <3> HIDE DEF k, j
    <3>2. t[i] = E[k][j] /\ (i <= cut <=> j <= Len(P[k]) + 1)
      BY <2>3, <3>1
    <3> QED
      BY <1>5, <3>1, <3>2
  <2>5. stops = (cut + 1)..(4 * m)
    <3>1. \A i : i \in stops <=> i \in 1..(4 * m) /\ t[i] \notin Alphabet
      BY <2>2
    <3> HIDE DEF stops
    <3>2. \A i : i \in stops <=> i \in 1..(4 * m) /\ ~(i <= cut)
      BY <2>4, <3>1
    <3>3. \A i : i \in (cut + 1)..(4 * m) <=> i \in 1..(4 * m) /\ ~(i <= cut)
      BY <1>1, <2>1
    <3> QED
      BY <3>2, <3>3
  <2>6. text = SubSeq(t, 1, cut)
    <3>1. CASE stops = {}
      <4>1. cut = Len(t)
        BY <1>1, <2>1, <2>2, <2>5, <3>1
      <4>2. SubSeq(t, 1, Len(t)) = t
        BY <2>2
      <4> QED
        BY <3>1, <4>1, <4>2
    <3>2. CASE stops # {}
      <4> DEFINE i == CHOOSE i \in stops : \A j \in stops : i <= j
      <4>1. cut + 1 \in stops /\ \A j \in stops : cut + 1 <= j
        <5> HIDE DEF stops
        <5>1. cut \in Int /\ m \in Int /\ 4 * m \in Int
          BY <1>1, <2>1
        <5> QED
          BY <2>5, <3>2, <5>1
      <4>2. i \in stops /\ \A j \in stops : i <= j
        BY <4>1
      <4>3. i = cut + 1 /\ (cut + 1) - 1 = cut
        <5>1. i <= cut + 1 /\ cut + 1 <= i /\ i \in Int
          <6> HIDE DEF i
          <6> QED
            BY <2>5, <4>1, <4>2
        <5> HIDE DEF i
        <5> QED
          BY <2>1, <5>1
      <4>4. text = SubSeq(t, 1, i - 1)
        BY <3>2
      <4> HIDE DEF i, text
      <4> QED
        BY <4>3, <4>4
    <3> QED
      BY <3>1, <3>2
  <2> HIDE DEF stops, text
  <2>7. ASSUME NEW k \in 1..m
        PROVE  /\ B[k] \in Seq(Byte) /\ Len(B[k]) = Len(P[k]) + 1 /\ Len(B[k]) \in 1..4
               /\ (k < m => Len(B[k]) = 4) /\ \A j \in 1..Len(B[k]) : B[k][j] = E[k][j]
    <3> DEFINE e == E[k]  l == Len(P[k])  b == SubSeq(e, 1, l + 1)
    <3>1. e \in Seq(Byte) /\ Len(e) = 4 /\ l \in 1..3 /\ (k < m => l = 3)
      BY <1>4, <1>5
    <3> HIDE DEF e, l
    <3>2. b \in Seq(Byte) /\ Len(b) = l + 1 /\ \A j \in 1..(l + 1) : b[j] = e[j]
      <4> DEFINE i == l + 1
      <4>1. i \in Nat /\ 1 <= i /\ i <= Len(e)
        BY <3>1
      <4> HIDE DEF i
      <4> QED
        BY <3>1, <4>1, FirstOnes DEF i
    <3> HIDE DEF b
    <3>3. B[k] = b
      BY DEF b, e, l
    <3> HIDE DEF B
    <3>4. Len(B[k]) = l + 1 /\ Len(B[k]) \in 1..4 /\ (k < m => Len(B[k]) = 4)
      BY <3>1, <3>2, <3>3
    <3>5. \A j \in 1..Len(B[k]) : B[k][j] = e[j]
      BY <3>2, <3>3
    <3> QED
      BY <3>2, <3>3, <3>4, <3>5 DEF e, l
  <2>8. B \in Seq(Seq(Byte)) /\ Len(B) = m /\ B = [k \in 1..m |-> B[k]]
    BY <1>1, <2>7
  <2>9. InPieces(B, 4)
    <3> HIDE DEF B
    <3> QED
      BY <2>7, <2>8 DEF InPieces
  <2>a. text \in Seq(Byte) /\ Len(text) = cut /\ \A i \in 1..cut : text[i] = t[i]
    <3>1. cut \in Nat /\ 1 <= cut /\ cut <= Len(t)
      BY <1>1, <2>1, <2>2
    <3> QED
      BY <2>2, <2>6, <3>1, FirstOnes
  <2>b. PlacedAt(B, 4, text)
    <3>1. ASSUME NEW k \in 1..m, NEW j \in 1..Len(B[k]) PROVE text[4 * (k - 1) + j] = B[k][j]
      <4>1. j \in 1..4 /\ j <= Len(P[k]) + 1 /\ B[k][j] = E[k][j]
        <5> HIDE DEF B
        <5>1. Len(B[k]) \in 1..4 /\ Len(B[k]) = Len(P[k]) + 1 /\ \A i \in 1..Len(B[k]) : B[k][i] = E[k][i]
          BY <2>7
        <5> QED
          BY <5>1
      <4>2. t[4 * (k - 1) + j] = E[k][j] /\ 4 * (k - 1) + j <= cut
        BY <2>3, <4>1
      <4>3. 4 * (k - 1) + j \in 1..cut
        BY <2>1, <4>1, <4>2
      <4> HIDE DEF B
      <4> QED
        BY <2>a, <4>1, <4>2, <4>3
    <3>2. Len(B[m]) = r + 1 /\ r \in Int
      BY <2>1, <2>7 DEF r
    <3> HIDE DEF B
    <3>3. cut = 4 * (m - 1) + Len(B[m])
      BY <1>1, <3>2 DEF cut
    <3> QED
      BY <1>7, <2>8, <2>a, <3>1, <3>3 DEF PlacedAt
  <2>c. Pieces(text, 4) = B
    <3> HIDE DEF B
    <3> QED
      BY <2>9, <2>b, PiecesFound
  <2>d. \A k \in 1..m : DecodePiece(B[k]) = P[k]
    BY <1>5
  <2>e. DOMAIN B = 1..m /\ P = [k \in 1..m |-> P[k]]
    BY <1>1 DEF m
  <2> HIDE DEF B
  <2>f. [k \in DOMAIN B |-> DecodePiece(B[k])] = P
    BY <2>d, <2>e
  <2>g. base64_decode(t) = FlattenSeq([k \in DOMAIN B |-> DecodePiece(B[k])])
    BY <1>3, <2>c
  <2> QED
    BY <1>1, <2>f, <2>g DEF t
<1> QED
  BY <1>6, <1>7 DEF t

\* percent_decode leaves a text without a '%' alone.
LEMMA DecodesPlain == \A str \in Seq(Byte \ {Percent}) : PercentDecode(str) = str
<1> DEFINE T == {str \in Seq(Byte) : Decoded(str).state = "General" /\ Decoded(str).result = str}
           C == Byte \ {Percent}
<1>1. <<>> \in T
  <2>1. Decoded(<<>>) = Started /\ <<>> \in Seq(Byte)
    BY <<>> \in Seq(Byte), DecodedSteps
  <2> QED
    BY <2>1 DEF Started
<1>2. ASSUME NEW str \in Seq(C), NEW b \in C, str \in T PROVE Append(str, b) \in T
  <2>1. str \in Seq(Byte) /\ b \in Byte /\ b # Percent /\ Append(str, b) \in Seq(Byte)
    BY <1>2
  <2>2. Decoded(Append(str, b)) = DecodeChar(Decoded(str), b) /\ Decoded(str) \in Automaton
    BY <2>1, DecodedSteps
  <2>3. Decoded(str).state = "General" /\ Decoded(str).result = str
    BY <1>2
  <2> QED
    BY <2>1, <2>2, <2>3 DEF DecodeChar, Automaton
<1>3. Seq(C) \subseteq T
  <2> HIDE DEF T, C
  <2> QED
    BY <1>1, <1>2, Appending
<1>4. ASSUME NEW str \in Seq(C) PROVE PercentDecode(str) = str
  <2>1. Decoded(str).result = str /\ str \in Seq(Byte)
    BY <1>3
  <2> QED
    BY <2>1, DecodedSteps
<1> QED
  BY <1>4

-----------------------------------------------------------------------------
(* boost::split.                                                           *)

\* The parts so far, the turn of the loop, and that as a function.
Parts == Seq(Seq(Byte)) \ {<<>>}
SplitChar(parts, b, c) ==
    IF b = c THEN Append(parts, <<>>) ELSE [parts EXCEPT ![Len(parts)] = Append(@, b)]
SplitStep(c) == [p \in Parts \X Byte |-> SplitChar(p[1], p[2], c)]

\* A text behind the last part.
Extend(parts, t) == [parts EXCEPT ![Len(parts)] = @ \o t]

\* A sequence with one element more, position by position.
LEMMA AppendIs ==
    ASSUME NEW S, NEW s \in Seq(S), NEW e \in S
    PROVE  /\ Append(s, e) \in Seq(S) /\ Append(s, e) # <<>> /\ Len(Append(s, e)) = Len(s) + 1
           /\ Append(s, e) = [i \in 1..(Len(s) + 1) |-> IF i = Len(s) + 1 THEN e ELSE s[i]]
<1> DEFINE a == Append(s, e)  n == Len(s) + 1  r == [i \in 1..n |-> IF i = n THEN e ELSE s[i]]
<1>1. a \in Seq(S) /\ a # <<>> /\ Len(a) = n /\ a[n] = e /\ \A i \in 1..Len(s) : a[i] = s[i]
  BY AppendProperties
<1> HIDE DEF a
<1>2. n \in Nat /\ \A i \in 1..n : i # n => i \in 1..Len(s)
  OBVIOUS
<1>3. \A i \in 1..n : a[i] = IF i = n THEN e ELSE s[i]
  BY <1>1, <1>2
<1>4. a = [i \in 1..n |-> a[i]]
  BY <1>1
<1>5. a = r
  BY <1>3, <1>4
<1> QED
  BY <1>1, <1>5 DEF a

\* Three texts in a row, and a byte behind two of them.
InARow(s, t, u)        == (s \o t) \o u = s \o (t \o u)
AppendsBehind(s, t, b) == Append(s \o t, b) = s \o Append(t, b)

\* It does not matter which are put together first.
LEMMA Associative ==
    \A s, t \in Seq(Byte) : /\ \A u \in Seq(Byte) : InARow(s, t, u)
                            /\ \A b \in Byte : AppendsBehind(s, t, b)
<1>1. ASSUME NEW s \in Seq(Byte), NEW t \in Seq(Byte), NEW u \in Seq(Byte) PROVE InARow(s, t, u)
  BY ConcatAssociative DEF InARow
<1>2. ASSUME NEW s \in Seq(Byte), NEW t \in Seq(Byte), NEW b \in Byte PROVE AppendsBehind(s, t, b)
  <2> DEFINE e == <<b>>  u == s \o t
  <2>1. e \in Seq(Byte) /\ u \in Seq(Byte)
    OBVIOUS
  <2>2. Append(u, b) = u \o e
    <3> HIDE DEF u
    <3> QED
      BY <2>1, AppendIsConcat
  <2>3. Append(t, b) = t \o e
    BY AppendIsConcat
  <2> HIDE DEF e
  <2>4. u \o e = s \o (t \o e)
    BY <2>1, ConcatAssociative
  <2> QED
    BY <2>2, <2>3, <2>4 DEF AppendsBehind
<1> QED
  BY <1>1, <1>2

\* There is always a part, the one that the next byte goes to.
LEMMA SplitType ==
    ASSUME NEW c \in Byte
    PROVE  /\ \A parts \in Parts : \A b \in Byte : SplitChar(parts, b, c) \in Parts
           /\ <<<<>>>> \in Parts /\ StepOn(SplitStep(c), Parts, Byte)
<1>1. ASSUME NEW parts \in Parts, NEW b \in Byte PROVE SplitChar(parts, b, c) \in Parts
  <2> DEFINE n == Len(parts)
  <2>1. parts \in Seq(Seq(Byte)) /\ n \in Nat /\ n \in 1..n /\ DOMAIN parts = 1..n
    BY DEF Parts
  <2>2. parts[n] \in Seq(Byte) /\ Append(parts[n], b) \in Seq(Byte) /\ <<>> \in Seq(Byte)
    BY <2>1
  <2> DEFINE a == Append(parts[n], b)  q == [parts EXCEPT ![n] = a]  nil == <<>>
  <2>3. q \in Seq(Seq(Byte)) /\ Len(q) = n
    <3> HIDE DEF a
    <3>1. a \in Seq(Byte)
      BY <2>2 DEF a
    <3> QED
      BY <2>1, <3>1
  <2>4. Append(parts, nil) \in Seq(Seq(Byte)) /\ Append(parts, nil) # <<>>
    <3> HIDE DEF nil
    <3>1. nil \in Seq(Byte)
      BY <2>2 DEF nil
    <3>2. parts \in Seq(Seq(Byte))
      BY <2>1
    <3> QED
      BY <3>1, <3>2, AppendIs
  <2>5. q # <<>>
    BY <2>1, <2>3
  <2> QED
    BY <2>3, <2>4, <2>5 DEF SplitChar, Parts
<1>2. <<<<>>>> \in Parts
  <2> DEFINE nil == <<>>
  <2>1. nil \in Seq(Byte)
    OBVIOUS
  <2> HIDE DEF nil
  <2>2. <<nil>> \in Seq(Seq(Byte)) /\ <<nil>> # <<>>
    BY <2>1
  <2> QED
    BY <2>2 DEF Parts, nil
<1>3. StepOn(SplitStep(c), Parts, Byte)
  <2>1. \A p \in Parts \X Byte : SplitChar(p[1], p[2], c) \in Parts
    BY <1>1
  <2> QED
    BY <2>1 DEF StepOn, SplitStep
<1> QED
  BY <1>1, <1>2, <1>3

\* The function that the fold of split recurs with.
Splits(f, s, c) ==
    f = [D \in SUBSET (DOMAIN s) |->
            IF D = {} THEN <<<<>>>> ELSE SplitChar(f[D \ {Max(D)}], s[Max(D)], c)]

\* split is that function's value at the whole text.
LEMMA SplitDef == ASSUME NEW s, NEW c PROVE Split(s, c) = (CHOOSE f : Splits(f, s, c))[DOMAIN s]
BY DEF Split, FoldLeft, MapThenFoldSet, Splits, SplitChar

\* It is the fold of the turn.
LEMMA SplitIsFold ==
    ASSUME NEW s \in Seq(Byte), NEW c \in Byte
    PROVE  Split(s, c) = Fold(SplitStep(c), <<<<>>>>, s)
<1> DEFINE n == Len(s)  F == SplitStep(c)  one == <<<<>>>>
<1>1. n \in Nat /\ DOMAIN s = 1..n /\ \A i \in 1..n : s[i] \in Byte
  OBVIOUS
<1>2. one \in Parts /\ F \in [Parts \X Byte -> Parts] /\ \A p \in Parts \X Byte : F[p] = SplitChar(p[1], p[2], c)
  BY SplitType DEF StepOn, SplitStep
<1> HIDE DEF n, F, one
<1>3. PICK f \in [SUBSET (DOMAIN s) -> Parts] : FoldOf(f, F, one, s)
  BY <1>2, FoldOfAny
<1>4. ASSUME NEW h \in [SUBSET (1..n) -> Parts], NEW D \in SUBSET (1..n), D # {}
      PROVE  F[<<h[D \ {Max(D)}], s[Max(D)]>>] = SplitChar(h[D \ {Max(D)}], s[Max(D)], c)
  <2>1. Max(D) \in 1..n /\ D \ {Max(D)} \in SUBSET (1..n)
    BY <1>1, <1>4, MaxIn
  <2>2. s[Max(D)] \in Byte /\ h[D \ {Max(D)}] \in Parts
    BY <1>1, <2>1
  <2> QED
    BY <1>2, <2>2
<1>5. Splits(f, s, c)
  BY <1>1, <1>3, <1>4 DEF Splits, FoldOf, one
<1> DEFINE g == CHOOSE g : Splits(g, s, c)
<1>6. Splits(g, s, c)
  BY <1>5
<1>7. Split(s, c) = g[DOMAIN s]
  BY SplitDef
<1> HIDE DEF g
<1>8. g \in [SUBSET (1..n) -> Parts]
  <2>1. DOMAIN g = SUBSET (1..n) /\ g = [D \in SUBSET (1..n) |-> g[D]] /\ g[{}] = one
    BY <1>1, <1>6 DEF Splits, one
  <2>2. ASSUME NEW D \in SUBSET (1..n), D # {}, g[D \ {Max(D)}] \in Parts PROVE g[D] \in Parts
    <3>1. g[D] = SplitChar(g[D \ {Max(D)}], s[Max(D)], c)
      BY <1>1, <1>6, <2>2 DEF Splits
    <3>2. s[Max(D)] \in Byte
      BY <1>1, <2>2, MaxIn
    <3> DEFINE h == g[D \ {Max(D)}]  b == s[Max(D)]
    <3>3. h \in Parts /\ b \in Byte
      BY <2>2, <3>2
    <3> HIDE DEF h, b
    <3>4. SplitChar(h, b, c) \in Parts
      BY <3>3, SplitType
    <3> QED
      BY <3>1, <3>4 DEF h, b
  <2> QED
    BY <1>1, <1>2, <2>1, <2>2, FoldStays
<1>9. FoldOf(g, F, one, s)
  BY <1>1, <1>4, <1>6, <1>8 DEF Splits, FoldOf, one
<1> QED
  BY <1>7, <1>9, FoldIs DEF F, one

\* What split makes of nothing, and of one byte more.
LEMMA SplitSteps ==
    ASSUME NEW c \in Byte, NEW s \in Seq(Byte)
    PROVE  /\ Split(<<>>, c) = <<<<>>>> /\ Split(s, c) \in Parts
           /\ \A b \in Byte : Split(Append(s, b), c) = SplitChar(Split(s, c), b, c)
<1> DEFINE F == SplitStep(c)  one == <<<<>>>>
<1>1. one \in Parts /\ StepOn(F, Parts, Byte) /\ \A p \in Parts \X Byte : F[p] = SplitChar(p[1], p[2], c)
  BY SplitType DEF SplitStep
<1> HIDE DEF F, one
<1>2. /\ Fold(F, one, <<>>) = one /\ Fold(F, one, s) \in Parts
      /\ \A b \in Byte : Fold(F, one, Append(s, b)) = F[<<Fold(F, one, s), b>>]
  BY <1>1, FoldSteps
<1>3. <<>> \in Seq(Byte) /\ \A b \in Byte : Append(s, b) \in Seq(Byte)
  OBVIOUS
<1>4. \A t \in Seq(Byte) : Split(t, c) = Fold(F, one, t)
  BY SplitIsFold DEF F, one
<1>5. ASSUME NEW b \in Byte PROVE Split(Append(s, b), c) = SplitChar(Split(s, c), b, c)
  BY <1>1, <1>2, <1>3, <1>4
<1> QED
  BY <1>2, <1>3, <1>4, <1>5 DEF one

\* A text without the separator goes to the last part.
LEMMA SplitPlain ==
    ASSUME NEW c \in Byte, NEW s \in Seq(Byte)
    PROVE  \A t \in Seq(Byte \ {c}) : Split(s \o t, c) = Extend(Split(s, c), t)
<1> DEFINE C == Byte \ {c}  P == Split(s, c)  n == Len(P)
           T == {t \in Seq(C) : Split(s \o t, c) = Extend(P, t)}
<1>1. P \in Seq(Seq(Byte)) /\ n \in Nat /\ n \in 1..n /\ DOMAIN P = 1..n /\ P[n] \in Seq(Byte)
  <2>1. P \in Seq(Seq(Byte)) /\ P # <<>>
    BY SplitSteps DEF Parts
  <2> HIDE DEF P
  <2> QED
    BY <2>1
<1> HIDE DEF P
<1>2. <<>> \in T
  <2> DEFINE nil == <<>>
  <2>1. nil \in Seq(C) /\ s \o nil = s /\ P[n] \o nil = P[n]
    BY <1>1
  <2> HIDE DEF nil
  <2>2. Extend(P, nil) = P
    BY <1>1, <2>1 DEF Extend
  <2> QED
    BY <2>1, <2>2 DEF P, nil
<1>3. ASSUME NEW t \in Seq(C), NEW b \in C, t \in T PROVE Append(t, b) \in T
  <2>1. s \o t \in Seq(Byte) /\ b \in Byte /\ s \o Append(t, b) = Append(s \o t, b) /\ t \in Seq(Byte)
        /\ Append(t, b) \in Seq(C)
    OBVIOUS
  <2>2. Split(s \o Append(t, b), c) = SplitChar(Extend(P, t), b, c)
    BY <1>3, <2>1, SplitSteps
  <2> DEFINE u == P[n] \o t
  <2>3. Append(u, b) = P[n] \o Append(t, b)
    <3>1. AppendsBehind(P[n], t, b)
      BY <1>1, <2>1, Associative, Zenon
    <3> QED
      BY <3>1 DEF AppendsBehind
  <2>4. Extend(P, t) = [P EXCEPT ![n] = u] /\ Extend(P, Append(t, b)) = [P EXCEPT ![n] = Append(u, b)]
    BY <2>3 DEF Extend
  <2>5. u \in Seq(Byte)
    BY <1>1, <2>1
  <2> HIDE DEF u, n
  <2> DEFINE Q == [P EXCEPT ![n] = u]
  <2>6. Q \in Seq(Seq(Byte)) /\ Len(Q) = n /\ Q[n] = u
    BY <1>1, <2>5 DEF n
  <2>7. SplitChar(Q, b, c) = [Q EXCEPT ![n] = Append(u, b)]
    BY <2>6 DEF SplitChar
  <2>8. [Q EXCEPT ![n] = Append(u, b)] = [P EXCEPT ![n] = Append(u, b)]
    BY <1>1
  <2> QED
    BY <2>1, <2>2, <2>4, <2>7, <2>8
<1>4. Seq(C) \subseteq T
  <2> HIDE DEF T, C
  <2> QED
    BY <1>2, <1>3, Appending
<1> QED
  BY <1>4 DEF P

\* So a text without it is one part, and one behind a separator is one part more.
LEMMA SplitOff ==
    ASSUME NEW c \in Byte, NEW t \in Seq(Byte \ {c})
    PROVE  /\ Split(t, c) = <<t>>
           /\ \A s \in Seq(Byte) : Split(Append(s, c) \o t, c) = Append(Split(s, c), t)
<1>1. t \in Seq(Byte) /\ <<>> \o t = t
  OBVIOUS
<1>2. Split(t, c) = <<t>>
  <2> DEFINE nil == <<>>
  <2>1. nil \in Seq(Byte) /\ Split(nil, c) = <<nil>> /\ nil \o t = t
    BY <1>1, SplitSteps
  <2> HIDE DEF nil
  <2>2. Split(nil \o t, c) = Extend(<<nil>>, t)
    BY <2>1, SplitPlain
  <2>3. Extend(<<nil>>, t) = <<nil \o t>>
    BY DEF Extend
  <2> QED
    BY <2>1, <2>2, <2>3
<1>3. ASSUME NEW s \in Seq(Byte) PROVE Split(Append(s, c) \o t, c) = Append(Split(s, c), t)
  <2> DEFINE a == Append(s, c)  P == Split(s, c)  nil == <<>>  Q == Append(P, nil)
  <2>1. a \in Seq(Byte) /\ Split(a, c) = Q /\ P \in Seq(Seq(Byte))
    BY SplitSteps DEF SplitChar, Parts
  <2>2. Split(a \o t, c) = Extend(Q, t)
    BY <2>1, SplitPlain
  <2> HIDE DEF P, nil, a
  <2>3. nil \in Seq(Byte) /\ nil \o t = t
    BY <1>1 DEF nil
  <2>4. Q \in Seq(Seq(Byte)) /\ Len(Q) = Len(P) + 1 /\ Q[Len(Q)] = nil
    BY <2>1, <2>3
  <2>5. Extend(Q, t) = Append(P, t)
    <3> DEFINE n == Len(P) + 1  l == Extend(Q, t)  r == Append(P, t)
    <3>0. t \in Seq(Byte)
      BY <1>1
    <3>1. /\ n \in Nat /\ Q = [i \in 1..n |-> IF i = n THEN nil ELSE P[i]]
          /\ r = [i \in 1..n |-> IF i = n THEN t ELSE P[i]]
      BY <2>1, <2>3, <3>0, AppendIs
    <3>2. l = [Q EXCEPT ![n] = t]
      BY <2>3, <2>4 DEF Extend
    <3> HIDE DEF l, r
    <3>3. l = [i \in 1..n |-> IF i = n THEN t ELSE P[i]]
      <4> HIDE DEF n, Q
      <4> QED
        BY <3>1, <3>2
    <3>4. r = [i \in 1..n |-> IF i = n THEN t ELSE P[i]]
      BY <3>1
    <3> QED
      BY <3>3, <3>4 DEF l, r
  <2> QED
    BY <2>2, <2>5 DEF a, P
<1> QED
  BY <1>2, <1>3

\* There are no fewer parts of a longer text, and more if the separator is in the
\* rest.
LEMMA SplitGrows ==
    ASSUME NEW c \in Byte, NEW s \in Seq(Byte)
    PROVE  \A t \in Seq(Byte) : /\ Len(Split(s \o t, c)) >= Len(Split(s, c))
                                /\ t \in Seq(Byte \ {c}) \/ Len(Split(s \o t, c)) > Len(Split(s, c))
<1> DEFINE C == Byte \ {c}  l(t) == Len(Split(s \o t, c))  k == Len(Split(s, c))
           T == {t \in Seq(Byte) : l(t) >= k /\ (t \in Seq(C) \/ l(t) > k)}
<1>1. \A t \in Seq(Byte) : s \o t \in Seq(Byte)
  OBVIOUS
<1>2. k \in Nat /\ \A t \in Seq(Byte) : l(t) \in Nat
  BY <1>1, SplitSteps DEF Parts
<1>3. <<>> \in T
  <2>1. <<>> \in Seq(Byte) /\ <<>> \in Seq(C) /\ s \o <<>> = s
    OBVIOUS
  <2> QED
    BY <1>2, <2>1
<1>4. ASSUME NEW t \in Seq(Byte), NEW b \in Byte, t \in T PROVE Append(t, b) \in T
  <2>1. s \o t \in Seq(Byte) /\ s \o Append(t, b) = Append(s \o t, b) /\ Append(t, b) \in Seq(Byte)
    OBVIOUS
  <2> DEFINE P == Split(s \o t, c)
  <2>2. P \in Seq(Seq(Byte)) /\ P # <<>> /\ Split(s \o Append(t, b), c) = SplitChar(P, b, c)
    BY <2>1, SplitSteps DEF Parts
  <2> HIDE DEF P
  <2>3. Len(SplitChar(P, b, c)) = Len(P) + (IF b = c THEN 1 ELSE 0)
    <3>1. CASE b = c
      <4> DEFINE nil == <<>>
      <4>1. nil \in Seq(Byte) /\ SplitChar(P, b, c) = Append(P, nil)
        BY <3>1 DEF SplitChar
      <4> HIDE DEF nil
      <4> QED
        BY <2>2, <3>1, <4>1
    <3>2. CASE b # c
      BY <2>2, <3>2 DEF SplitChar
    <3> QED
      BY <3>1, <3>2
  <2>4. l(Append(t, b)) = l(t) + (IF b = c THEN 1 ELSE 0)
    BY <2>2, <2>3 DEF P
  <2>5. b # c /\ t \in Seq(C) => Append(t, b) \in Seq(C)
    OBVIOUS
  <2>6. l(t) >= k /\ (t \in Seq(C) \/ l(t) > k) /\ l(t) \in Nat
    BY <1>2, <1>4
  <2> HIDE DEF l, k, C
  <2>7. l(Append(t, b)) >= k /\ (Append(t, b) \in Seq(C) \/ l(Append(t, b)) > k)
    BY <1>2, <2>4, <2>5, <2>6
  <2> QED
    BY <2>1, <2>7
<1>5. Seq(Byte) \subseteq T
  <2> HIDE DEF T
  <2> QED
    BY <1>3, <1>4, Appending
<1> QED
  BY <1>5

-----------------------------------------------------------------------------
(* The cookies.                                                            *)

\* What a browser sends of one cookie, and whether the service reads its value.
PairOf(x) == x.name \o <<Equals>> \o x.value
Reads(x)  == Occurs(CookieName, PairOf(x)) /\ x.name \in Seq(Byte \ {Equals}) /\ x.value \in Seq(Byte \ {Equals})

\* A text occurs where all of its bytes are found.
LEMMA OccursAt ==
    ASSUME NEW w \in Seq(Byte), NEW s \in Seq(Byte)
    PROVE  Occurs(w, s) <=> \E i \in 0..(Len(s) - Len(w)) : \A j \in 1..Len(w) : s[i + j] = w[j]
<1>1. ASSUME NEW i \in 0..(Len(s) - Len(w))
      PROVE  SubSeq(s, i + 1, i + Len(w)) = w <=> \A j \in 1..Len(w) : s[i + j] = w[j]
  <2> DEFINE n == Len(w)  l == Len(s)  p == SubSeq(s, i + 1, i + n)
  <2>1. n \in Nat /\ l \in Nat /\ i \in Nat /\ i + n <= l
    OBVIOUS
  <2> HIDE DEF n, l
  <2>2. \A k \in (i + 1)..(i + n) : s[k] \in Byte
    BY <2>1 DEF l
  <2>3. i + 1 \in Int /\ i + n \in Int /\ (i + n) - (i + 1) + 1 = n
    BY <2>1
  <2>4. /\ SubSeq(s, i + 1, i + n) \in Seq(Byte)
        /\ Len(SubSeq(s, i + 1, i + n)) = IF i + 1 <= i + n THEN (i + n) - (i + 1) + 1 ELSE 0
        /\ \A j \in 1..((i + n) - (i + 1) + 1) : SubSeq(s, i + 1, i + n)[j] = s[(i + 1) + j - 1]
    BY <2>2, <2>3, SubSeqProperties
  <2>5. \A j \in 1..n : (i + 1) + j - 1 = i + j
    BY <2>1
  <2> HIDE DEF p
  <2>6. p \in Seq(Byte) /\ Len(p) = n /\ \A j \in 1..n : p[j] = s[i + j]
    BY <2>1, <2>3, <2>4, <2>5 DEF p
  <2>7. p = w <=> \A j \in 1..n : p[j] = w[j]
    <3>1. ASSUME \A j \in 1..n : p[j] = w[j] PROVE p = w
      <4>1. Len(p) = Len(w) /\ \A j \in 1..Len(p) : p[j] = w[j]
        BY <2>6, <3>1 DEF n
      <4> QED
        BY <2>6, <4>1, SeqEqual
    <3> QED
      BY <3>1
  <2>8. (\A j \in 1..n : p[j] = w[j]) <=> \A j \in 1..n : s[i + j] = w[j]
    BY <2>6
  <2> QED
    BY <2>7, <2>8 DEF p, n
<1> QED
  BY <1>1 DEF Occurs

\* The blank that a browser puts before a cookie is not part of the name.
LEMMA OccursBehindSpace ==
    ASSUME NEW w \in Seq(Byte), w # <<>>, w[1] # Space, NEW s \in Seq(Byte)
    PROVE  Occurs(w, <<Space>> \o s) <=> Occurs(w, s)
<1> DEFINE t == <<Space>> \o s  n == Len(w)  l == Len(s)
<1>1. t \in Seq(Byte) /\ Len(t) = l + 1 /\ t[1] = Space /\ (\A i \in 1..l : t[i + 1] = s[i])
      /\ n \in Nat /\ 1 <= n /\ l \in Nat
  <2>1. <<Space>> \in Seq(Byte)
    BY DEF Space, Byte
  <2> QED
    BY <2>1
<1> HIDE DEF t
<1>2. ASSUME Occurs(w, t) PROVE Occurs(w, s)
  <2>1. PICK i \in 0..(Len(t) - n) : \A j \in 1..n : t[i + j] = w[j]
    BY <1>1, <1>2, OccursAt
  <2> HIDE DEF n, l
  <2>2. i # 0
    <3>1. 1 \in 1..n /\ 0 + 1 = 1
      BY <1>1
    <3> QED
      BY <1>1, <2>1, <3>1
  <2>3. i - 1 \in 0..(l - n) /\ i \in Nat
    BY <1>1, <2>2
  <2>4. ASSUME NEW j \in 1..n PROVE s[(i - 1) + j] = w[j]
    <3>1. (i - 1) + j \in 1..l /\ ((i - 1) + j) + 1 = i + j
      BY <1>1, <2>3
    <3>2. t[((i - 1) + j) + 1] = s[(i - 1) + j]
      BY <1>1, <3>1
    <3> QED
      BY <2>1, <3>1, <3>2
  <2> QED
    BY <2>3, <2>4, OccursAt DEF n, l
<1>3. ASSUME Occurs(w, s) PROVE Occurs(w, t)
  <2>1. PICK i \in 0..(l - n) : \A j \in 1..n : s[i + j] = w[j]
    BY <1>3, OccursAt
  <2> HIDE DEF n, l
  <2>2. i + 1 \in 0..(Len(t) - n) /\ i \in Nat
    BY <1>1
  <2>3. ASSUME NEW j \in 1..n PROVE t[(i + 1) + j] = w[j]
    <3>1. i + j \in 1..l /\ (i + j) + 1 = (i + 1) + j
      BY <1>1, <2>2
    <3>2. t[(i + j) + 1] = s[i + j]
      BY <1>1, <3>1
    <3> QED
      BY <2>1, <3>1, <3>2
  <2> QED
    BY <1>1, <2>2, <2>3, OccursAt DEF n, l
<1> QED
  BY <1>2, <1>3 DEF t

\* A text that something follows occurs in what it makes.
LEMMA OccursFirst ==
    ASSUME NEW w \in Seq(Byte), NEW s \in Seq(Byte)
    PROVE  Occurs(w, w \o s)
<1> DEFINE t == w \o s
<1>1. t \in Seq(Byte) /\ Len(t) = Len(w) + Len(s) /\ \A j \in 1..Len(w) : t[j] = w[j]
  OBVIOUS
<1> HIDE DEF t
<1>2. 0 \in 0..(Len(t) - Len(w)) /\ \A j \in 1..Len(w) : 0 + j = j
  BY <1>1
<1>3. \A j \in 1..Len(w) : t[0 + j] = w[j]
  BY <1>1, <1>2
<1> QED
  BY <1>1, <1>2, <1>3, OccursAt DEF t

\* One turn of the loop over the parts, on a cookie that is read or not.
LEMMA CookieInReads ==
    ASSUME IsToken(CookieName), NEW v, NEW x \in Cookies, NEW pre \in {<<>>, <<Space>>}
    PROVE  CookieIn(v, pre \o PairOf(x)) = IF Reads(x) THEN x.value ELSE v
<1> DEFINE name == x.name  value == x.value  C == Byte \ {Equals}
           p == pre \o name  q == Append(p, Equals)  part == q \o value  S(t) == Split(t, Equals)
<1>1. name \in Seq(Byte) /\ value \in Seq(Byte) /\ pre \in Seq(C) /\ pre \in Seq(Byte) /\ Equals \in Byte
  <2>1. name \in Seq(0..255 \ {Semicolon}) /\ value \in Seq(0..255 \ {Semicolon})
    BY DEF Cookies, CookieText
  <2> HIDE DEF name, value
  <2>2. name \in Seq(Byte) /\ value \in Seq(Byte)
    BY <2>1 DEF Byte
  <2>3. Space \in C /\ Space \in Byte /\ Equals \in Byte
    BY DEF Byte, Space, Equals
  <2> HIDE DEF C
  <2>4. <<>> \in Seq(C) /\ <<>> \in Seq(Byte) /\ <<Space>> \in Seq(C) /\ <<Space>> \in Seq(Byte)
    BY <2>3
  <2>5. pre \in Seq(C) /\ pre \in Seq(Byte)
    BY <2>4
  <2> QED
    BY <2>2, <2>3, <2>5
<1> HIDE DEF name, value
<1>2. /\ p \in Seq(Byte) /\ q \in Seq(Byte) /\ part \in Seq(Byte)
      /\ part = pre \o (name \o <<Equals>> \o value) /\ name \o <<Equals>> \o value \in Seq(Byte)
  <2> DEFINE e == <<Equals>>
  <2>1. e \in Seq(Byte)
    BY <1>1
  <2>2. p \in Seq(Byte) /\ q \in Seq(Byte) /\ part \in Seq(Byte) /\ q = p \o e
    <3>1. p \in Seq(Byte)
      BY <1>1
    <3> HIDE DEF p
    <3>2. q \in Seq(Byte) /\ part \in Seq(Byte)
      BY <1>1, <3>1
    <3>3. q = p \o e
      BY <1>1, <3>1, AppendIsConcat, Zenon
    <3> QED
      BY <3>1, <3>2, <3>3
  <2> HIDE DEF e
  <2>3. name \o e \in Seq(Byte) /\ (name \o e) \o value \in Seq(Byte)
    BY <1>1, <2>1
  <2>4. InARow(pre, name, e) /\ InARow(pre, name \o e, value)
    BY <1>1, <2>1, <2>3, Associative, Zenon
  <2>5. (pre \o name) \o e = pre \o (name \o e) /\ (pre \o (name \o e)) \o value = pre \o ((name \o e) \o value)
    BY <2>4, Zenon DEF InARow
  <2>6. part = pre \o ((name \o e) \o value)
    <3> HIDE DEF q
    <3>1. q = pre \o (name \o e)
      BY <2>2, <2>5, Zenon
    <3> QED
      BY <2>5, <3>1, Zenon
  <2> QED
    BY <2>2, <2>3, <2>6 DEF e
<1>3. PairOf(x) = name \o <<Equals>> \o value
  BY DEF PairOf, name, value
<1>4. Occurs(CookieName, part) <=> Occurs(CookieName, PairOf(x))
  <2>1. CASE pre = <<>>
    BY <1>2, <1>3, <2>1
  <2>2. CASE pre = <<Space>>
    <3>1. CookieName \in Seq(Byte) /\ CookieName # <<>>
      BY VisitorAssumption DEF Byte
    <3>2. CookieName[1] # Space
      BY <3>1 DEF IsToken, ToSet
    <3> DEFINE u == name \o <<Equals>> \o value
    <3>3. u \in Seq(Byte) /\ part = <<Space>> \o u
      BY <1>2, <2>2
    <3> HIDE DEF u, part
    <3> QED
      BY <1>3, <3>1, <3>2, <3>3, OccursBehindSpace DEF u
  <2> QED
    BY <2>1, <2>2
<1>5. Len(S(part)) = 2 <=> name \in Seq(C) /\ value \in Seq(C)
  <2>0. Len(S(p)) \in Nat /\ Len(S(p)) >= 1 /\ Len(S(q)) = Len(S(p)) + 1 /\ Len(S(part)) \in Nat
    <3>1. S(p) \in Seq(Seq(Byte)) /\ S(p) # <<>> /\ S(part) \in Seq(Seq(Byte)) /\ S(q) = Append(S(p), <<>>)
      BY <1>1, <1>2, SplitSteps DEF Parts, SplitChar
    <3> DEFINE P == S(p)  nil == <<>>
    <3>2. nil \in Seq(Byte)
      OBVIOUS
    <3> HIDE DEF P, nil
    <3>3. Len(Append(P, nil)) = Len(P) + 1
      BY <3>1, <3>2 DEF P
    <3>4. Len(P) \in Nat /\ Len(P) >= 1
      BY <3>1 DEF P
    <3> QED
      BY <3>1, <3>3, <3>4 DEF P, nil
  <2>1. CASE name \notin Seq(C)
    <3>1. S(pre) = <<pre>>
      BY <1>1, SplitOff
    <3>2. Len(S(pre)) = 1
      BY <3>1
    <3>3. Len(S(p)) > Len(S(pre))
      BY <1>1, <2>1, SplitGrows
    <3>4. Len(S(part)) >= Len(S(q))
      BY <1>1, <1>2, SplitGrows
    <3> DEFINE a == Len(S(p))  b == Len(S(q))  d == Len(S(part))
    <3>5. a \in Nat /\ a >= 1 /\ b = a + 1 /\ d \in Nat /\ a > 1 /\ d >= b
      BY <2>0, <3>2, <3>3, <3>4
    <3> HIDE DEF a, b, d
    <3>6. d # 2
      BY <3>5
    <3> QED
      BY <2>1, <3>6 DEF d
  <2>2. CASE name \in Seq(C) /\ value \notin Seq(C)
    <3>1. Len(S(part)) > Len(S(q))
      BY <1>1, <1>2, <2>2, SplitGrows
    <3> DEFINE a == Len(S(p))  b == Len(S(q))  d == Len(S(part))
    <3>2. a \in Nat /\ a >= 1 /\ b = a + 1 /\ d \in Nat /\ d > b
      BY <2>0, <3>1
    <3> HIDE DEF a, b, d
    <3>3. d # 2
      BY <3>2
    <3> QED
      BY <2>2, <3>3 DEF d
  <2>3. CASE name \in Seq(C) /\ value \in Seq(C)
    <3>1. p \in Seq(C)
      BY <1>1, <2>3
    <3>2. S(part) = Append(S(p), value) /\ S(p) = <<p>>
      BY <1>1, <1>2, <2>3, <3>1, SplitOff
    <3> QED
      BY <2>3, <3>2
  <2> QED
    BY <2>1, <2>2, <2>3
<1>6. ASSUME name \in Seq(C), value \in Seq(C) PROVE S(part)[2] = value
  <2>1. p \in Seq(C)
    BY <1>1, <1>6
  <2>2. S(part) = Append(S(p), value) /\ S(p) = <<p>>
    BY <1>1, <1>2, <1>6, <2>1, SplitOff
  <2> QED
    BY <2>2
<1>7. pre \o PairOf(x) = part
  BY <1>2, <1>3
<1>8. Reads(x) <=> Occurs(CookieName, PairOf(x)) /\ name \in Seq(C) /\ value \in Seq(C)
  BY DEF Reads, name, value
<1> HIDE DEF part, S
<1>9. CookieIn(v, part) = IF Occurs(CookieName, part) /\ Len(S(part)) = 2 THEN S(part)[2] ELSE v
  BY DEF CookieIn, S
<1>10. CookieIn(v, part) = IF Reads(x) THEN value ELSE v
  BY <1>4, <1>5, <1>6, <1>8, <1>9
<1> QED
  BY <1>7, <1>10 DEF value

\* The loop over the parts, as a function, and the one that its fold recurs with.
ReadStep == [p \in Seq(Byte) \X Seq(Byte) |-> CookieIn(p[1], p[2])]
ReadsParts(f, parts) ==
    f = [D \in SUBSET (DOMAIN parts) |->
            IF D = {} THEN <<>> ELSE CookieIn(f[D \ {Max(D)}], parts[Max(D)])]

\* What the loop leaves in cookie_value.
ValueOfParts(parts) == FoldLeft(CookieIn, <<>>, parts)

\* The characters of a header.
LEMMA Separators == Equals \in Byte /\ Semicolon \in Byte /\ Space \in Byte /\ Semicolon # Space
BY DEF Equals, Semicolon, Space, Byte

\* One element behind nothing, and a text behind nothing.
LEMMA Single ==
    ASSUME NEW S, NEW e \in S, NEW s \in Seq(S)
    PROVE  <<e>> = Append(<<>>, e) /\ <<e>> \in Seq(S) /\ <<>> \o s = s
OBVIOUS

\* Two elements.
LEMMA Double ==
    ASSUME NEW S, NEW k \in S, NEW l \in S
    PROVE  <<k>> \in Seq(S) /\ <<k, l>> \in Seq(S) /\ <<k, l>> = <<k>> \o <<l>>
<1> DEFINE a == <<k>>
<1>1. a \in Seq(S) /\ <<k, l>> \in Seq(S) /\ <<k, l>> = Append(a, l)
  OBVIOUS
<1> HIDE DEF a
<1>2. Append(a, l) = a \o <<l>>
  BY <1>1, AppendIsConcat
<1> QED
  BY <1>1, <1>2 DEF a

\* Nothing is a sequence of anything.
LEMMA Nothing == ASSUME NEW S PROVE <<>> \in Seq(S) /\ Len(<<>>) = 0 /\ DOMAIN <<>> = {}
OBVIOUS

\* It is always a text.
LEMMA ReadType ==
    /\ \A v, part \in Seq(Byte) : CookieIn(v, part) \in Seq(Byte)
    /\ <<>> \in Seq(Byte) /\ StepOn(ReadStep, Seq(Byte), Seq(Byte))
<1>1. ASSUME NEW v \in Seq(Byte), NEW part \in Seq(Byte) PROVE CookieIn(v, part) \in Seq(Byte)
  <2> DEFINE P == Split(part, Equals)
  <2>1. P \in Seq(Seq(Byte))
    BY Separators, SplitSteps DEF Parts
  <2> HIDE DEF P
  <2>2. ASSUME Len(P) = 2 PROVE P[2] \in Seq(Byte)
    <3>1. 2 \in 1..Len(P)
      BY <2>2
    <3> QED
      BY <2>1, <3>1, ElementOfSeq
  <2>3. CookieIn(v, part) = IF Occurs(CookieName, part) /\ Len(P) = 2 THEN P[2] ELSE v
    BY DEF CookieIn, P
  <2> QED
    BY <2>2, <2>3
<1>2. StepOn(ReadStep, Seq(Byte), Seq(Byte))
  <2>1. \A p \in Seq(Byte) \X Seq(Byte) : CookieIn(p[1], p[2]) \in Seq(Byte)
    BY <1>1
  <2> QED
    BY <2>1 DEF StepOn, ReadStep
<1> QED
  BY <1>1, <1>2

\* The loop is that function's value at all parts.
LEMMA ReadDef ==
    ASSUME NEW parts PROVE ValueOfParts(parts) = (CHOOSE f : ReadsParts(f, parts))[DOMAIN parts]
BY DEF ValueOfParts, FoldLeft, MapThenFoldSet, ReadsParts

\* It is the fold of the turn.
LEMMA ReadIsFold ==
    ASSUME NEW s \in Seq(Seq(Byte)) PROVE ValueOfParts(s) = Fold(ReadStep, <<>>, s)
<1> DEFINE n == Len(s)  F == ReadStep  nil == <<>>  V == Seq(Byte)
<1>1. n \in Nat /\ DOMAIN s = 1..n /\ \A i \in 1..n : s[i] \in V
  OBVIOUS
<1>2. nil \in V /\ F \in [V \X V -> V] /\ \A p \in V \X V : F[p] = CookieIn(p[1], p[2])
  BY ReadType DEF StepOn, ReadStep
<1>0. s \in Seq(V) /\ \A v, p \in V : CookieIn(v, p) \in V
  BY ReadType
<1> HIDE DEF n, F, nil, V
<1>3. PICK f \in [SUBSET (DOMAIN s) -> V] : FoldOf(f, F, nil, s)
  BY <1>0, <1>2, FoldOfAny
<1>4. ASSUME NEW h \in [SUBSET (1..n) -> V], NEW D \in SUBSET (1..n), D # {}
      PROVE  F[<<h[D \ {Max(D)}], s[Max(D)]>>] = CookieIn(h[D \ {Max(D)}], s[Max(D)])
  <2>1. Max(D) \in 1..n /\ D \ {Max(D)} \in SUBSET (1..n)
    BY <1>1, <1>4, MaxIn
  <2>2. s[Max(D)] \in V /\ h[D \ {Max(D)}] \in V
    BY <1>1, <2>1
  <2> QED
    BY <1>2, <2>2
<1>5. ReadsParts(f, s)
  BY <1>1, <1>3, <1>4 DEF ReadsParts, FoldOf, nil
<1> DEFINE g == CHOOSE g : ReadsParts(g, s)
<1>6. ReadsParts(g, s)
  BY <1>5
<1>7. ValueOfParts(s) = g[DOMAIN s]
  BY ReadDef
<1> HIDE DEF g
<1>8. g \in [SUBSET (1..n) -> V]
  <2>1. DOMAIN g = SUBSET (1..n) /\ g = [D \in SUBSET (1..n) |-> g[D]] /\ g[{}] = nil
    BY <1>1, <1>6 DEF ReadsParts, nil
  <2>2. ASSUME NEW D \in SUBSET (1..n), D # {}, g[D \ {Max(D)}] \in V PROVE g[D] \in V
    <3>1. g[D] = CookieIn(g[D \ {Max(D)}], s[Max(D)])
      BY <1>1, <1>6, <2>2 DEF ReadsParts
    <3>2. s[Max(D)] \in V
      BY <1>1, <2>2, MaxIn
    <3> QED
      BY <1>0, <2>2, <3>1, <3>2
  <2> QED
    BY <1>1, <1>2, <2>1, <2>2, FoldStays
<1>9. FoldOf(g, F, nil, s)
  BY <1>1, <1>4, <1>6, <1>8 DEF ReadsParts, FoldOf, nil
<1> QED
  BY <1>0, <1>7, <1>9, FoldIs DEF F, nil

\* What the loop makes of no part, and of one part more.
LEMMA ReadSteps ==
    ASSUME NEW s \in Seq(Seq(Byte))
    PROVE  /\ ValueOfParts(<<>>) = <<>> /\ ValueOfParts(s) \in Seq(Byte)
           /\ \A t \in Seq(Byte) : ValueOfParts(Append(s, t)) = CookieIn(ValueOfParts(s), t)
<1> DEFINE F == ReadStep  nil == <<>>  V == Seq(Byte)
<1>1. nil \in V /\ StepOn(F, V, V) /\ \A p \in V \X V : F[p] = CookieIn(p[1], p[2])
  BY ReadType DEF ReadStep
<1>0. s \in Seq(V) /\ \A t \in Seq(V) : ValueOfParts(t) = Fold(F, nil, t)
  BY ReadIsFold
<1>3. <<>> \in Seq(V) /\ \A t \in V : Append(s, t) \in Seq(V)
  BY AppendProperties
<1> HIDE DEF F, nil, V
<1>2. /\ Fold(F, nil, <<>>) = nil /\ Fold(F, nil, s) \in V
      /\ \A t \in V : Fold(F, nil, Append(s, t)) = F[<<Fold(F, nil, s), t>>]
  BY <1>0, <1>1, FoldSteps
<1>5. ASSUME NEW t \in V PROVE ValueOfParts(Append(s, t)) = CookieIn(ValueOfParts(s), t)
  BY <1>0, <1>1, <1>2, <1>3
<1>6. ValueOfParts(<<>>) = nil /\ ValueOfParts(s) \in V
  BY <1>0, <1>2, <1>3
<1> QED
  BY <1>5, <1>6 DEF nil, V

\* What a browser sends before a cookie, and what the service reads of a jar.
Glue(i) == IF i = 1 THEN <<>> ELSE <<Semicolon, Space>>
Value(cs) == ReadCookie(HTTP_COOKIE(cs))

\* A cookie's text holds no ';'.
LEMMA PairType ==
    ASSUME NEW x \in Cookies
    PROVE  /\ PairOf(x) \in Seq(Byte \ {Semicolon}) /\ PairOf(x) \in Seq(Byte)
           /\ <<Space>> \o PairOf(x) \in Seq(Byte \ {Semicolon})
<1> DEFINE C == Byte \ {Semicolon}  a == x.name  b == x.value  e == <<Equals>>
<1>1. a \in Seq(C) /\ b \in Seq(C)
  BY DEF Cookies, CookieText, Byte
<1>2. Equals \in C /\ Space \in C
  BY DEF Byte, Equals, Space, Semicolon
<1> HIDE DEF a, b, C
<1>3. a \o e \o b \in Seq(C)
  BY <1>1, <1>2
<1> DEFINE p == PairOf(x)
<1>4. p \in Seq(C)
  BY <1>3 DEF PairOf, a, b
<1> HIDE DEF p
<1>5. <<Space>> \o p \in Seq(C)
  BY <1>2, <1>4
<1>6. p \in Seq(Byte)
  BY <1>4 DEF C
<1> QED
  BY <1>4, <1>5, <1>6 DEF p, C

\* The header of nothing, and of one cookie more.
LEMMA HeaderSteps ==
    ASSUME NEW cs \in Seq(Cookies)
    PROVE  /\ HTTP_COOKIE(<<>>) = <<>> /\ HTTP_COOKIE(cs) \in Seq(Byte)
           /\ \A x \in Cookies : HTTP_COOKIE(Append(cs, x))
                                    = HTTP_COOKIE(cs) \o (Glue(Len(cs) + 1) \o PairOf(x))
<1> DEFINE piece(i, x) == Glue(i) \o x.name \o <<Equals>> \o x.value
           all(t) == [i \in DOMAIN t |-> piece(i, t[i])]
<1>1. \A t : HTTP_COOKIE(t) = FlattenSeq(all(t))
  BY DEF HTTP_COOKIE, Glue
<1>2. ASSUME NEW i, NEW x \in Cookies PROVE piece(i, x) = Glue(i) \o PairOf(x) /\ piece(i, x) \in Seq(Byte)
  <2> DEFINE g == Glue(i)  a == x.name  b == x.value  e == <<Equals>>
  <2>1. a \in Seq(Byte) /\ b \in Seq(Byte)
    <3>1. a \in Seq(0..255 \ {Semicolon}) /\ b \in Seq(0..255 \ {Semicolon})
      BY DEF Cookies, CookieText
    <3> HIDE DEF a, b
    <3> QED
      BY <3>1 DEF Byte
  <2>2. e \in Seq(Byte) /\ g \in Seq(Byte)
    <3>1. e \in Seq(Byte)
      BY Separators
    <3>2. <<Semicolon, Space>> \in Seq(Byte)
      BY Separators
    <3> QED
      BY <3>1, <3>2, Nothing DEF Glue
  <2> HIDE DEF g, a, b, e
  <2>3. a \o e \in Seq(Byte)
    BY <2>1, <2>2
  <2>4. InARow(g, a, e) /\ InARow(g, a \o e, b)
    BY <2>1, <2>2, <2>3, Associative, Zenon
  <2>5. (g \o a) \o e = g \o (a \o e) /\ (g \o (a \o e)) \o b = g \o ((a \o e) \o b)
    BY <2>4, Zenon DEF InARow
  <2>6. ((g \o a) \o e) \o b = g \o ((a \o e) \o b)
    BY <2>5, Zenon
  <2>7. piece(i, x) = ((g \o a) \o e) \o b /\ PairOf(x) = (a \o e) \o b
    BY DEF g, a, b, e, PairOf
  <2>8. (a \o e) \o b \in Seq(Byte)
    BY <2>1, <2>3
  <2>9. g \o ((a \o e) \o b) \in Seq(Byte)
    <3> DEFINE y == (a \o e) \o b
    <3>1. y \in Seq(Byte)
      BY <2>8
    <3> HIDE DEF y
    <3>2. g \o y \in Seq(Byte)
      BY <2>2, <3>1
    <3> QED
      BY <3>2 DEF y
  <2> QED
    BY <2>6, <2>7, <2>9 DEF g
<1> HIDE DEF piece
<1>3. all(cs) \in Seq(Seq(Byte)) /\ Len(all(cs)) = Len(cs)
  <2>1. \A i \in 1..Len(cs) : piece(i, cs[i]) \in Seq(Byte)
    BY <1>2
  <2> QED
    BY <2>1
<1>4. HTTP_COOKIE(<<>>) = <<>>
  <2>1. all(<<>>) = <<>>
    OBVIOUS
  <2> QED
    BY <1>1, <1>3, <2>1, FlattenSteps
<1>5. ASSUME NEW x \in Cookies
      PROVE  HTTP_COOKIE(Append(cs, x)) = HTTP_COOKIE(cs) \o (Glue(Len(cs) + 1) \o PairOf(x))
  <2> DEFINE n == Len(cs) + 1  y == piece(n, x)  a == all(cs)
  <2>1. y \in Seq(Byte) /\ y = Glue(n) \o PairOf(x)
    BY <1>2
  <2> DEFINE l == all(Append(cs, x))  r == Append(a, y)
  <2>2. l = r
    <3>1. n \in Nat /\ Append(cs, x) = [i \in 1..n |-> IF i = n THEN x ELSE cs[i]]
      BY AppendIs
    <3>2. DOMAIN Append(cs, x) = 1..n /\ \A i \in 1..n : Append(cs, x)[i] = IF i = n THEN x ELSE cs[i]
      BY <3>1
    <3>3. l = [i \in 1..n |-> piece(i, IF i = n THEN x ELSE cs[i])]
      BY <3>2
    <3>4. Len(a) + 1 = n /\ \A i \in 1..n : i # n => a[i] = piece(i, cs[i])
      BY <1>3
    <3> HIDE DEF y, a
    <3>5. r = [i \in 1..n |-> IF i = n THEN y ELSE a[i]]
      <4>1. a \in Seq(Seq(Byte))
        BY <1>3 DEF a
      <4> QED
        BY <2>1, <3>4, <4>1, AppendIs
    <3> HIDE DEF n, l, r
    <3>6. \A i \in 1..n : piece(i, IF i = n THEN x ELSE cs[i]) = (IF i = n THEN y ELSE a[i])
      BY <3>4 DEF y
    <3> QED
      BY <3>3, <3>5, <3>6
  <2> HIDE DEF y, l, a, r
  <2>3. FlattenSeq(r) = FlattenSeq(a) \o y
    <3>1. a \in Seq(Seq(Byte))
      BY <1>3 DEF a
    <3> QED
      BY <2>1, <3>1, FlattenSteps DEF r
  <2>4. HTTP_COOKIE(Append(cs, x)) = FlattenSeq(l) /\ HTTP_COOKIE(cs) = FlattenSeq(a)
    BY <1>1 DEF l, a
  <2> QED
    BY <2>1, <2>2, <2>3, <2>4
<1>6. HTTP_COOKIE(cs) \in Seq(Byte)
  <2> DEFINE a == all(cs)
  <2>1. a \in Seq(Seq(Byte)) /\ HTTP_COOKIE(cs) = FlattenSeq(a)
    BY <1>1, <1>3
  <2> HIDE DEF a
  <2> QED
    BY <2>1, FlattenSteps
<1> QED
  BY <1>4, <1>5, <1>6

\* What the service reads of one cookie more.
LEMMA ValueSteps ==
    ASSUME IsToken(CookieName), NEW cs \in Seq(Cookies)
    PROVE  /\ Value(<<>>) = <<>> /\ Value(cs) \in Seq(Byte)
           /\ \A x \in Cookies : Value(Append(cs, x)) = IF Reads(x) THEN x.value ELSE Value(cs)
<1> DEFINE H == HTTP_COOKIE(cs)  P == Split(H, Semicolon)
<1>1. H \in Seq(Byte) /\ Semicolon \in Byte /\ Space \in Byte
  BY HeaderSteps DEF Semicolon, Space, Byte
<1>2. P \in Seq(Seq(Byte))
  BY <1>1, SplitSteps DEF Parts
<1>3. \A t : Value(t) = ValueOfParts(Split(HTTP_COOKIE(t), Semicolon))
  BY DEF Value, ReadCookie, ValueOfParts
<1>4. Value(cs) = ValueOfParts(P) /\ Value(cs) \in Seq(Byte)
  <2>1. Value(cs) = ValueOfParts(P)
    BY <1>3
  <2> HIDE DEF P
  <2> QED
    BY <1>2, <2>1, ReadSteps
<1>5. CookieName \in Seq(Byte) /\ Len(CookieName) >= 1
  BY VisitorAssumption DEF Byte
<1>6. Value(<<>>) = <<>>
  <2> DEFINE nil == <<>>  one == <<nil>>
  <2>1. nil \in Seq(Byte) /\ Len(nil) = 0 /\ HTTP_COOKIE(nil) = nil /\ Split(nil, Semicolon) = one
    BY <1>1, HeaderSteps, SplitSteps, Nothing
  <2>2. nil \in Seq(Seq(Byte)) /\ ValueOfParts(nil) = nil
    BY <1>2, ReadSteps, Nothing
  <2>7. one = Append(nil, nil)
    BY <2>1, <2>2, Single, Zenon
  <2> HIDE DEF one, nil
  <2>3. ValueOfParts(one) = CookieIn(nil, nil)
    BY <2>1, <2>2, <2>7, ReadSteps
  <2>4. ~Occurs(CookieName, nil)
    <3>1. 0..(Len(nil) - Len(CookieName)) = {}
      <4> DEFINE l == Len(CookieName)
      <4>1. l \in Nat /\ l >= 1
        BY <1>5
      <4> HIDE DEF l
      <4>2. 0..(0 - l) = {}
        BY <4>1
      <4> QED
        BY <2>1, <4>2 DEF l
    <3> QED
      BY <1>5, <2>1, <3>1, OccursAt
  <2>5. CookieIn(nil, nil) = nil
    BY <2>4 DEF CookieIn
  <2>6. Value(nil) = nil
    BY <1>3, <2>1, <2>3, <2>5
  <2> QED
    BY <2>6 DEF nil
<1>7. ASSUME NEW x \in Cookies PROVE Value(Append(cs, x)) = IF Reads(x) THEN x.value ELSE Value(cs)
  <2> DEFINE y == PairOf(x)  sy == <<Space>> \o y  h == HTTP_COOKIE(Append(cs, x))  v == Value(cs)
  <2>1. /\ y \in Seq(Byte \ {Semicolon}) /\ sy \in Seq(Byte \ {Semicolon})
        /\ y \in Seq(Byte) /\ sy \in Seq(Byte)
    <3>1. y \in Seq(Byte \ {Semicolon}) /\ sy \in Seq(Byte \ {Semicolon}) /\ y \in Seq(Byte)
      BY PairType
    <3> HIDE DEF sy
    <3> QED
      BY <3>1
  <2>2. h = H \o (Glue(Len(cs) + 1) \o y)
    BY HeaderSteps
  <2>3. Value(Append(cs, x)) = ValueOfParts(Split(h, Semicolon))
    BY <1>3
  <2>4. /\ CookieIn(v, <<>> \o y) = IF Reads(x) THEN x.value ELSE v
        /\ CookieIn(v, sy) = IF Reads(x) THEN x.value ELSE v
    BY CookieInReads
  <2>5. CASE cs = <<>>
    <3> DEFINE g == Glue(Len(cs) + 1)
    <3>0. g = <<>>
      <4>1. Len(cs) + 1 = 1
        BY <2>5
      <4> QED
        BY <4>1 DEF Glue
    <3>1. H = <<>> /\ v = <<>>
      <4>1. HTTP_COOKIE(<<>>) = <<>>
        BY HeaderSteps
      <4> QED
        BY <1>6, <2>5, <4>1
    <3> HIDE DEF H, h, y, v, g
    <3>2. h = y
      <4>1. y \in Seq(Byte) /\ <<>> \o y = y
        BY <2>1, <1>1, Single
      <4>2. h = <<>> \o (<<>> \o y)
        BY <2>2, <3>0, <3>1 DEF g
      <4> QED
        BY <4>1, <4>2
    <3>3. Split(h, Semicolon) = <<y>>
      BY <1>1, <2>1, <3>2, SplitOff
    <3> DEFINE nil == <<>>
    <3>4. <<y>> = Append(nil, y) /\ nil \in Seq(Seq(Byte)) /\ ValueOfParts(nil) = nil
      <4>1. nil \in Seq(Seq(Byte)) /\ ValueOfParts(nil) = nil
        BY <1>2, ReadSteps, Nothing
      <4>2. <<y>> = Append(nil, y)
        BY <2>1, <4>1, Single, Zenon
      <4> QED
        BY <4>1, <4>2
    <3> HIDE DEF nil
    <3>5. ValueOfParts(Append(nil, y)) = CookieIn(nil, y)
      BY <2>1, <3>4, ReadSteps
    <3>6. nil = v
      BY <3>1 DEF nil
    <3> QED
      <4>1. CookieIn(v, y) = IF Reads(x) THEN x.value ELSE v
        BY <2>4 DEF y, v
      <4> QED
        BY <2>3, <3>3, <3>4, <3>5, <3>6, <4>1 DEF v
  <2>6. CASE cs # <<>>
    <3>1. Glue(Len(cs) + 1) = <<Semicolon, Space>>
      <4>1. Len(cs) + 1 # 1
        BY <2>6
      <4> QED
        BY <4>1 DEF Glue
    <3> DEFINE a == <<Semicolon>>  b == <<Space>>
    <3>2. a \in Seq(Byte) /\ b \in Seq(Byte) /\ Glue(Len(cs) + 1) = a \o b
      <4> DEFINE k == Semicolon  l == Space
      <4>1. k \in Byte /\ l \in Byte
        BY <1>1
      <4> HIDE DEF k, l
      <4>2. <<k>> \in Seq(Byte) /\ <<l>> \in Seq(Byte) /\ <<k, l>> = <<k>> \o <<l>>
        BY <4>1, Double
      <4> QED
        BY <3>1, <4>2 DEF k, l
    <3>3. Append(H, Semicolon) = H \o a
      <4> HIDE DEF H
      <4> QED
        BY <1>1, AppendIsConcat
    <3>4. sy = b \o y
      OBVIOUS
    <3> HIDE DEF H, h, y, a, b, sy
    <3>5. InARow(a, b, y) /\ InARow(H, a, sy)
      BY <1>1, <2>1, <3>2, Associative, Zenon
    <3>6. (a \o b) \o y = a \o (b \o y) /\ (H \o a) \o sy = H \o (a \o sy)
      BY <3>5, Zenon DEF InARow
    <3>7. h = Append(H, Semicolon) \o sy
      BY <2>2, <3>2, <3>3, <3>4, <3>6, Zenon
    <3>8. Split(h, Semicolon) = Append(P, sy)
      BY <1>1, <2>1, <3>7, SplitOff DEF P
    <3> HIDE DEF P
    <3>9. ValueOfParts(Append(P, sy)) = CookieIn(v, sy)
      BY <1>2, <1>4, <2>1, ReadSteps
    <3> QED
      BY <2>3, <2>4, <3>8, <3>9
  <2> QED
    BY <2>5, <2>6
<1> QED
  BY <1>4, <1>6, <1>7

\* The service reads the value of a cookie that it looks at, if there is one, and
\* none of the others.
LEMMA ValueRead ==
    ASSUME IsToken(CookieName)
    PROVE  \A cs \in Seq(Cookies) :
              /\ Value(cs) = <<>> \/ \E i \in DOMAIN cs : Reads(cs[i]) /\ Value(cs) = cs[i].value
              /\ \A i \in DOMAIN cs : (\A j \in DOMAIN cs : Reads(cs[j]) <=> j = i)
                                          => Value(cs) = cs[i].value
<1> DEFINE One(cs) == Value(cs) = <<>> \/ \E i \in DOMAIN cs : Reads(cs[i]) /\ Value(cs) = cs[i].value
           None(cs) == (\A j \in DOMAIN cs : ~Reads(cs[j])) => Value(cs) = <<>>
           Only(cs) == \A i \in DOMAIN cs : (\A j \in DOMAIN cs : Reads(cs[j]) <=> j = i)
                                                => Value(cs) = cs[i].value
           T == {cs \in Seq(Cookies) : One(cs) /\ None(cs) /\ Only(cs)}
<1>1. <<>> \in T
  <2> DEFINE nil == <<>>
  <2>2. nil \in Seq(Cookies) /\ DOMAIN nil = {}
    BY Nothing
  <2>3. Value(<<>>) = <<>>
    BY <2>2, ValueSteps
  <2>1. <<>> \in Seq(Cookies) /\ DOMAIN <<>> = {} /\ Value(<<>>) = <<>>
    BY <2>2, <2>3
  <2> QED
    BY <2>1
<1>2. ASSUME NEW cs \in Seq(Cookies), NEW x \in Cookies, cs \in T PROVE Append(cs, x) \in T
  <2> DEFINE ds == Append(cs, x)  n == Len(cs) + 1
  <2>1. /\ ds \in Seq(Cookies) /\ DOMAIN ds = 1..n /\ ds[n] = x /\ n \in 1..n /\ DOMAIN cs = 1..Len(cs)
        /\ \A i \in DOMAIN cs : i \in 1..n /\ i # n /\ ds[i] = cs[i]
        /\ \A i \in 1..n : i = n \/ i \in DOMAIN cs
    OBVIOUS
  <2>2. Value(ds) = IF Reads(x) THEN x.value ELSE Value(cs)
    BY ValueSteps
  <2>3. One(cs) /\ None(cs) /\ Only(cs)
    BY <1>2
  <2> HIDE DEF ds, n
  <2>4. One(ds)
    <3>1. CASE Reads(x)
      BY <2>1, <2>2, <3>1
    <3>2. CASE ~Reads(x)
      BY <2>1, <2>2, <2>3, <3>2
    <3> QED
      BY <3>1, <3>2
  <2>5. None(ds)
    BY <2>1, <2>2, <2>3
  <2>6. Only(ds)
    <3> SUFFICES ASSUME NEW i \in DOMAIN ds, \A j \in DOMAIN ds : Reads(ds[j]) <=> j = i
                 PROVE  Value(ds) = ds[i].value
      OBVIOUS
    <3>1. CASE i = n
      BY <2>1, <2>2, <3>1
    <3>2. CASE i # n
      <4>1. i \in DOMAIN cs /\ ds[i] = cs[i] /\ ~Reads(x)
        BY <2>1, <3>2
      <4>2. \A j \in DOMAIN cs : Reads(cs[j]) <=> j = i
        BY <2>1
      <4> QED
        BY <2>2, <2>3, <4>1, <4>2
    <3> QED
      BY <3>1, <3>2
  <2> QED
    BY <2>1, <2>4, <2>5, <2>6 DEF ds
<1>3. Seq(Cookies) \subseteq T
  <2> HIDE DEF T
  <2> QED
    BY <1>1, <1>2, Appending
<1> QED
  BY <1>3

-----------------------------------------------------------------------------
(* The id.                                                                 *)

\* One byte of cookie_id's loop, as a function, and the function that the fold of
\* the loop recurs with.
AddDigit(digits, b) == IF b \in Digit THEN Append(digits, b) ELSE digits
DigitsStep == [p \in Seq(Digit) \X Byte |-> AddDigit(p[1], p[2])]
DigitsFold(f, s) ==
    f = [D \in SUBSET (DOMAIN s) |->
            IF D = {} THEN <<>> ELSE AddDigit(f[D \ {Max(D)}], s[Max(D)])]

\* The digits that cookie_id takes from a text.
Digits(s) == FoldLeft(AddDigit, <<>>, s)

\* They are digits.
LEMMA DigitsType ==
    /\ \A v \in Seq(Digit) : \A b \in Byte : AddDigit(v, b) \in Seq(Digit)
    /\ <<>> \in Seq(Digit) /\ StepOn(DigitsStep, Seq(Digit), Byte)
<1>1. ASSUME NEW v \in Seq(Digit), NEW b \in Byte PROVE AddDigit(v, b) \in Seq(Digit)
  <2> DEFINE S == Digit
  <2>1. v \in Seq(S) /\ (b \in S => Append(v, b) \in Seq(S)) /\ AddDigit(v, b) = IF b \in S THEN Append(v, b) ELSE v
    BY AppendProperties DEF AddDigit
  <2> QED
    BY <2>1
<1>2. \A p \in Seq(Digit) \X Byte : AddDigit(p[1], p[2]) \in Seq(Digit)
  BY <1>1
<1>3. StepOn(DigitsStep, Seq(Digit), Byte)
  BY <1>2 DEF StepOn, DigitsStep
<1> QED
  BY <1>1, <1>3, Nothing

\* The loop is that function's value at all bytes.
LEMMA DigitsDef ==
    ASSUME NEW s PROVE Digits(s) = (CHOOSE f : DigitsFold(f, s))[DOMAIN s]
BY DEF Digits, FoldLeft, MapThenFoldSet, DigitsFold

\* They are what cookie_id makes of a cookie with text.
LEMMA CookieIdDigits ==
    ASSUME NEW s PROVE CookieId(s) = IF s = <<>> THEN <<48 + now>> ELSE Digits(s)
BY DEF CookieId, Digits, FoldLeft, MapThenFoldSet, AddDigit

\* It is the fold of the turn.
LEMMA DigitsIsFold ==
    ASSUME NEW s \in Seq(Byte) PROVE Digits(s) = Fold(DigitsStep, <<>>, s)
<1> DEFINE n == Len(s)  F == DigitsStep  nil == <<>>  V == Seq(Digit)  E == Byte
<1>1. n \in Nat /\ DOMAIN s = 1..n /\ \A i \in 1..n : s[i] \in E
  OBVIOUS
<1>2. nil \in V /\ F \in [V \X E -> V] /\ \A p \in V \X E : F[p] = AddDigit(p[1], p[2])
  BY DigitsType DEF StepOn, DigitsStep
<1>0. s \in Seq(E) /\ \A v \in V : \A b \in E : AddDigit(v, b) \in V
  BY DigitsType
<1> HIDE DEF n, F, nil, V, E
<1>3. PICK f \in [SUBSET (DOMAIN s) -> V] : FoldOf(f, F, nil, s)
  BY <1>0, <1>2, FoldOfAny
<1>4. ASSUME NEW h \in [SUBSET (1..n) -> V], NEW D \in SUBSET (1..n), D # {}
      PROVE  F[<<h[D \ {Max(D)}], s[Max(D)]>>] = AddDigit(h[D \ {Max(D)}], s[Max(D)])
  <2>1. Max(D) \in 1..n /\ D \ {Max(D)} \in SUBSET (1..n)
    BY <1>1, <1>4, MaxIn
  <2>2. s[Max(D)] \in E /\ h[D \ {Max(D)}] \in V
    BY <1>1, <2>1
  <2> QED
    BY <1>2, <2>2
<1>5. DigitsFold(f, s)
  BY <1>1, <1>3, <1>4 DEF DigitsFold, FoldOf, nil
<1> DEFINE g == CHOOSE g : DigitsFold(g, s)
<1>6. DigitsFold(g, s)
  BY <1>5
<1>7. Digits(s) = g[DOMAIN s]
  BY DigitsDef
<1> HIDE DEF g
<1>8. g \in [SUBSET (1..n) -> V]
  <2>1. DOMAIN g = SUBSET (1..n) /\ g = [D \in SUBSET (1..n) |-> g[D]] /\ g[{}] = nil
    BY <1>1, <1>6 DEF DigitsFold, nil
  <2>2. ASSUME NEW D \in SUBSET (1..n), D # {}, g[D \ {Max(D)}] \in V PROVE g[D] \in V
    <3>1. g[D] = AddDigit(g[D \ {Max(D)}], s[Max(D)])
      BY <1>1, <1>6, <2>2 DEF DigitsFold
    <3>2. s[Max(D)] \in E
      BY <1>1, <2>2, MaxIn
    <3> QED
      BY <1>0, <2>2, <3>1, <3>2
  <2> QED
    BY <1>1, <1>2, <2>1, <2>2, FoldStays
<1>9. FoldOf(g, F, nil, s)
  BY <1>1, <1>4, <1>6, <1>8 DEF DigitsFold, FoldOf, nil
<1> QED
  BY <1>0, <1>7, <1>9, FoldIs DEF F, nil

\* What the loop makes of no byte, and of one byte more.
LEMMA DigitsSteps ==
    ASSUME NEW s \in Seq(Byte)
    PROVE  /\ Digits(<<>>) = <<>> /\ Digits(s) \in Seq(Digit)
           /\ \A b \in Byte : Digits(Append(s, b)) = AddDigit(Digits(s), b)
<1> DEFINE F == DigitsStep  nil == <<>>  V == Seq(Digit)  E == Byte
<1>1. nil \in V /\ StepOn(F, V, E) /\ \A p \in V \X E : F[p] = AddDigit(p[1], p[2])
  BY DigitsType DEF DigitsStep
<1>0. s \in Seq(E) /\ \A t \in Seq(E) : Digits(t) = Fold(F, nil, t)
  BY DigitsIsFold
<1>3. <<>> \in Seq(E) /\ \A b \in E : Append(s, b) \in Seq(E)
  BY AppendProperties
<1> HIDE DEF F, nil, V, E
<1>2. /\ Fold(F, nil, <<>>) = nil /\ Fold(F, nil, s) \in V
      /\ \A b \in E : Fold(F, nil, Append(s, b)) = F[<<Fold(F, nil, s), b>>]
  BY <1>0, <1>1, FoldSteps
<1>5. ASSUME NEW b \in E PROVE Digits(Append(s, b)) = AddDigit(Digits(s), b)
  BY <1>0, <1>1, <1>2, <1>3
<1>6. Digits(<<>>) = nil /\ Digits(s) \in V
  BY <1>0, <1>2, <1>3
<1> QED
  BY <1>5, <1>6 DEF nil, V, E

\* All bytes of a text of digits are taken, and no digit is left out.
LEMMA DigitsTaken ==
    /\ \A v \in Seq(Digit) : Digits(v) = v
    /\ \A v \in Seq(Byte) : Digits(v) = <<>> => ToSet(v) \cap Digit = {}
<1> DEFINE T == {v \in Seq(Digit) : Digits(v) = v}
           U == {v \in Seq(Byte) : Digits(v) = <<>> => \A i \in 1..Len(v) : v[i] \notin Digit}
<1>1. Seq(Digit) \subseteq Seq(Byte) /\ Digit \subseteq Byte
  BY DEF Digit, Byte
<1>2. <<>> \in T /\ <<>> \in U
  <2> DEFINE nil == <<>>
  <2>1. nil \in Seq(Digit) /\ nil \in Seq(Byte) /\ Len(nil) = 0
    BY Nothing
  <2>2. Digits(nil) = nil
    BY <2>1, DigitsSteps
  <2> QED
    BY <2>1, <2>2
<1>3. ASSUME NEW v \in Seq(Digit), NEW b \in Digit, v \in T PROVE Append(v, b) \in T
  <2>1. v \in Seq(Byte) /\ b \in Byte /\ Append(v, b) \in Seq(Digit)
    BY <1>1, AppendProperties
  <2> QED
    BY <1>3, <2>1, DigitsSteps DEF AddDigit
<1>4. ASSUME NEW v \in Seq(Byte), NEW b \in Byte, v \in U PROVE Append(v, b) \in U
  <2> DEFINE t == Append(v, b)  d == Digits(v)  n == Len(v) + 1
  <2>1. t \in Seq(Byte) /\ Len(t) = n /\ t[n] = b /\ \A i \in 1..n : i # n => i \in 1..Len(v) /\ t[i] = v[i]
    OBVIOUS
  <2>2. d \in Seq(Digit) /\ Digits(t) = AddDigit(d, b)
    BY DigitsSteps
  <2> HIDE DEF t, d, n
  <2>3. ASSUME Digits(t) = <<>> PROVE b \notin Digit /\ d = <<>>
    <3>1. b \in Digit => Append(d, b) # <<>>
      BY <2>2, AppendProperties
    <3> QED
      BY <2>2, <2>3, <3>1 DEF AddDigit
  <2>4. ASSUME Digits(t) = <<>> PROVE \A i \in 1..n : t[i] \notin Digit
    BY <1>4, <2>1, <2>3, <2>4 DEF d
  <2> QED
    BY <2>1, <2>4 DEF t
<1>5. Seq(Digit) \subseteq T
  <2> HIDE DEF T
  <2> QED
    BY <1>2, <1>3, Appending
<1>6. Seq(Byte) \subseteq U
  <2> HIDE DEF U
  <2> QED
    BY <1>2, <1>4, Appending
<1>7. ASSUME NEW v \in Seq(Byte), Digits(v) = <<>> PROVE ToSet(v) \cap Digit = {}
  BY <1>6, <1>7 DEF ToSet
<1> QED
  BY <1>5, <1>7

-----------------------------------------------------------------------------
(* The query.                                                              *)

\* What find_first_of returns: the first position with the character.
IsFirst(c, from, hit) ==
    \/ hit = npos /\ \A i \in from..(Len(url_) - 1) : url_[i + 1] # c
    \/ /\ hit \in from..(Len(url_) - 1) /\ url_[hit + 1] = c
       /\ \A i \in from..(hit - 1) : url_[i + 1] # c

\* FindFirst is the first one.
LEMMA FirstFound ==
    ASSUME url_ \in Seq(Byte), NEW c, NEW from \in Nat
    PROVE  IsFirst(c, from, FindFirst(c, from))
<1> DEFINE hit == {i \in from..(Len(url_) - 1) : url_[i + 1] = c}
<1>1. Len(url_) \in Nat
  OBVIOUS
<1>2. CASE hit = {}
  <2>1. FindFirst(c, from) = npos
    BY <1>2 DEF FindFirst
  <2> QED
    BY <1>2, <2>1 DEF IsFirst
<1>3. CASE hit # {}
  <2>1. hit \subseteq Nat
    BY <1>1
  <2>2. \E n \in hit : \A m \in hit : n <= m
    <3> HIDE DEF hit
    <3> QED
      BY <1>3, <2>1, Least
  <2>3. FindFirst(c, from) = Min(hit)
    BY <1>3 DEF FindFirst
  <2>4. Min(hit) \in hit /\ \A m \in hit : Min(hit) <= m
    <3> HIDE DEF hit
    <3> QED
      BY <2>2 DEF Min
  <2>5. \A i \in from..(Min(hit) - 1) : url_[i + 1] # c
    <3> SUFFICES ASSUME NEW i \in from..(Min(hit) - 1), url_[i + 1] = c PROVE FALSE
      OBVIOUS
    <3>0. Min(hit) \in from..(Len(url_) - 1) /\ from \in Int /\ Min(hit) \in Int
      BY <2>4, <1>1
    <3>1. i \in from..(Len(url_) - 1) /\ ~(Min(hit) <= i)
      BY <3>0, <1>1
    <3>2. i \in hit
      BY <3>1
    <3> QED
      BY <2>4, <3>1, <3>2
  <2>6. Min(hit) \in from..(Len(url_) - 1) /\ url_[Min(hit) + 1] = c
    BY <2>4
  <2> QED
    BY <2>3, <2>5, <2>6 DEF IsFirst
<1> QED
  BY <1>2, <1>3

\* The items parse has read.
Passed == {s \in Items : s <= pos}

\* As long as every item is name=value: parse is at the end or before an item,
\* and what it has read of the items before is what param will tell of them.
Progress == (\A s \in Items : HasValue(s)) =>
    /\ pos < Len(url_) => pos + 1 \in Items
    /\ DOMAIN params_ = {NameOf(s) : s \in Passed}
    /\ \A s \in Passed : (\A t \in Passed : t > s => NameOf(t) # NameOf(s))
          => params_[NameOf(s)] = ValueOf(s)
    /\ done => pos >= Len(url_)

ParseInv == url_ \in Seq(Byte) /\ pos \in npos..Len(url_) /\ Progress

\* An item is a position of the query.
LEMMA ItemsType ==
    ASSUME url_ \in Seq(Byte)
    PROVE  /\ Begin \in Nat /\ Items \subseteq Nat
           /\ \A s \in Items : s >= Begin
           /\ FindFirst(Query, 0) \in npos..(Len(url_) - 1)
<1>1. IsFirst(Query, 0, FindFirst(Query, 0)) /\ Len(url_) \in Nat
  BY FirstFound
<1>2. FindFirst(Query, 0) \in npos..(Len(url_) - 1) /\ Begin \in Nat
  BY <1>1 DEF IsFirst, npos, Begin
<1> QED
  BY <1>1, <1>2 DEF Items

\* An item that has a value: its '=' comes before its end, and the next '&' after
\* the '=' is that end.
LEMMA ItemSplit ==
    ASSUME url_ \in Seq(Byte), NEW s \in Items, HasValue(s)
    PROVE  LET e == FindFirst(Equals, s) IN
           /\ s \in Nat /\ e \in Nat /\ e # npos /\ s <= e /\ e < ItemEnd(s)
           /\ ItemEnd(s) \in 0..Len(url_)
           /\ ItemEnd(s) = (IF FindFirst(Amp, e + 1) = npos THEN Len(url_)
                            ELSE FindFirst(Amp, e + 1))
           /\ ItemEnd(s) < Len(url_) => ItemEnd(s) + 1 \in Items
           /\ \A t \in Items : t > s => t > ItemEnd(s)
<1> DEFINE e == FindFirst(Equals, s)  a == FindFirst(Amp, s)  b == FindFirst(Amp, e + 1)
<1>1. s \in Nat /\ Begin \in Nat /\ s >= Begin /\ Len(url_) \in Nat
  BY ItemsType
<1>2. IsFirst(Equals, s, e) /\ IsFirst(Amp, s, a)
  BY <1>1, FirstFound
<1>3. /\ e \in Nat /\ e # npos /\ s <= e /\ e < ItemEnd(s) /\ ItemEnd(s) \in 0..Len(url_)
      /\ e < Len(url_) /\ url_[e + 1] = Equals
  <2>1. e \in s..(ItemEnd(s) - 1)
    BY DEF HasValue
  <2>2. ItemEnd(s) \in 0..Len(url_)
    BY <1>1, <1>2 DEF ItemEnd, IsFirst, npos
  <2>3. e \in Nat /\ e # npos /\ e < Len(url_)
    BY <1>1, <2>1, <2>2 DEF npos
  <2> HIDE DEF e
  <2> QED
    BY <1>1, <1>2, <2>1, <2>2, <2>3 DEF IsFirst
<1>4. IsFirst(Amp, e + 1, b)
  BY <1>3, FirstFound
<1>5. ItemEnd(s) = (IF a = npos THEN Len(url_) ELSE a)
  BY DEF ItemEnd
<1> HIDE DEF e, a, b
<1>6. ItemEnd(s) = (IF b = npos THEN Len(url_) ELSE b)
  <2>1. CASE a = npos
    <3>1. \A i \in (e + 1)..(Len(url_) - 1) : url_[i + 1] # Amp
      BY <1>1, <1>2, <1>3, <2>1 DEF IsFirst, npos
    <3>2. b = npos
      BY <1>1, <1>3, <1>4, <3>1 DEF IsFirst
    <3> QED
      BY <1>5, <2>1, <3>2
  <2>2. CASE a # npos
    <3>1. a \in s..(Len(url_) - 1) /\ url_[a + 1] = Amp /\ \A i \in s..(a - 1) : url_[i + 1] # Amp
      BY <1>2, <2>2 DEF IsFirst
    <3>2. e < a /\ a \in (e + 1)..(Len(url_) - 1)
      BY <1>1, <1>3, <1>5, <2>2, <3>1
    <3>3. b # npos /\ b \in (e + 1)..(Len(url_) - 1) /\ url_[b + 1] = Amp
          /\ \A i \in (e + 1)..(b - 1) : url_[i + 1] # Amp
      <4>1. ~\A i \in (e + 1)..(Len(url_) - 1) : url_[i + 1] # Amp
        BY <3>1, <3>2
      <4>2. b \in (e + 1)..(Len(url_) - 1) /\ url_[b + 1] = Amp
            /\ \A i \in (e + 1)..(b - 1) : url_[i + 1] # Amp
        BY <1>4, <4>1 DEF IsFirst
      <4> QED
        BY <1>1, <1>3, <4>2 DEF npos
    <3>4. ~(b < a)
      <4>1. b < a => b \in s..(a - 1)
        BY <1>1, <1>3, <3>1, <3>3
      <4> QED
        BY <3>1, <3>3, <4>1
    <3>5. ~(a < b)
      <4>1. a < b => a \in (e + 1)..(b - 1)
        BY <1>3, <3>2, <3>3
      <4> QED
        BY <3>1, <3>3, <4>1
    <3>6. a = b
      BY <3>1, <3>3, <3>4, <3>5, <1>1, <1>3
    <3> QED
      BY <1>5, <2>2, <3>3, <3>6
  <2> QED
    BY <2>1, <2>2
<1>7. ItemEnd(s) < Len(url_) => ItemEnd(s) + 1 \in Items
  <2>1. ASSUME ItemEnd(s) < Len(url_) PROVE ItemEnd(s) = a /\ a \in s..(Len(url_) - 1) /\ url_[a + 1] = Amp
    BY <2>1, <1>1, <1>2, <1>5 DEF IsFirst
  <2>2. ASSUME ItemEnd(s) < Len(url_) PROVE a \in Begin..(Len(url_) - 1)
    BY <2>1, <2>2, <1>1
  <2> QED
    BY <2>1, <2>2 DEF Items
<1>8. \A t \in Items : t > s => t > ItemEnd(s)
  <2> SUFFICES ASSUME NEW t \in Items, t > s PROVE t > ItemEnd(s)
    OBVIOUS
  <2>1. t # Begin
    BY <1>1
  <2>2. PICK i \in Begin..(Len(url_) - 1) : url_[i + 1] = Amp /\ t = i + 1
    BY <2>1 DEF Items
  <2>3. i \in s..(Len(url_) - 1)
    BY <1>1, <2>2
  <2>4. a # npos /\ a \in s..(Len(url_) - 1) /\ ~(i \in s..(a - 1))
    <3>1. ~\A k \in s..(Len(url_) - 1) : url_[k + 1] # Amp
      BY <2>2, <2>3
    <3>2. a \in s..(Len(url_) - 1) /\ \A k \in s..(a - 1) : url_[k + 1] # Amp
      BY <1>2, <3>1 DEF IsFirst
    <3> QED
      BY <1>1, <2>2, <3>2 DEF npos
  <2>5. ItemEnd(s) = a
    BY <1>5, <2>4
  <2> QED
    BY <2>2, <2>3, <2>4, <2>5, <1>1
<1> QED
  BY <1>1, <1>3, <1>6, <1>7, <1>8 DEF e, b

\* A query that is about to be parsed.
LEMMA ParseStarts ==
    ASSUME url_ \in Seq(Byte), pos = FindFirst(Query, 0), params_ = <<>>, done = FALSE
    PROVE  ParseInv
<1>1. pos \in npos..Len(url_) /\ pos + 1 \in Items
  BY ItemsType DEF Items, Begin, npos
<1>2. Passed = {}
  BY ItemsType DEF Passed, Begin
<1> QED
  BY <1>1, <1>2 DEF ParseInv, Progress

\* A turn of parse's loop that finds a parameter.
LEMMA PairKeeps == ASSUME ParseInv, Pair PROVE ParseInv'
<1> DEFINE s == pos + 1  e == FindFirst(Equals, s)  amp == FindFirst(Amp, e + 1)
           end == IF amp = npos THEN Len(url_) ELSE amp
<1>1. /\ url_ \in Seq(Byte) /\ pos \in npos..Len(url_) /\ Len(url_) \in Nat /\ s \in Nat
      /\ ~done /\ Turn /\ e # npos /\ url_' = url_ /\ done' = done /\ pos' = end
      /\ params_' = Put(params_, Substr(s, e), PercentDecode(Substr(e + 1, end)))
  BY DEF ParseInv, Pair, npos
<1> HIDE DEF e
<1>2. e \in Nat /\ IsFirst(Equals, s, e)
  <2>1. IsFirst(Equals, s, e)
    BY <1>1, FirstFound DEF e
  <2> QED
    BY <1>1, <2>1 DEF IsFirst
<1>3. IsFirst(Amp, e + 1, amp)
  BY <1>1, <1>2, FirstFound
<1> HIDE DEF amp
<1>4. end \in Nat /\ end \in npos..Len(url_)
  <2>1. amp = npos \/ amp \in (e + 1)..(Len(url_) - 1)
    BY <1>3 DEF IsFirst
  <2> QED
    BY <1>1, <1>2, <2>1 DEF npos
<1>5. /\ Items' = Items
      /\ \A t : NameOf(t)' = NameOf(t) /\ ValueOf(t)' = ValueOf(t) /\ HasValue(t)' = HasValue(t)
  BY <1>1 DEF Items, Begin, FindFirst, NameOf, ValueOf, HasValue, ItemEnd, Substr
<1>6. ASSUME \A t \in Items : HasValue(t)
      PROVE  /\ end < Len(url_) => end + 1 \in Items
             /\ Passed' = Passed \cup {s} /\ s \notin Passed /\ \A t \in Passed : t < s
             /\ NameOf(s) = Substr(s, e) /\ ValueOf(s) = PercentDecode(Substr(e + 1, end))
  <2>1. s \in Items
    <3>1. pos < Len(url_)
      BY <1>1 DEF Turn, npos
    <3> QED
      BY <1>6, <3>1 DEF ParseInv, Progress
  <2>2. ItemEnd(s) = end /\ e < end /\ s <= e
    BY <1>1, <1>6, <2>1, ItemSplit DEF e, amp
  <2>3. (end < Len(url_) => end + 1 \in Items) /\ \A t \in Items : t > s => t > end
    BY <1>1, <1>6, <2>1, <2>2, ItemSplit
  <2>4. Items \subseteq Nat
    BY <1>1, ItemsType
  <2>5. Passed' = {t \in Items : t <= end}
    BY <1>1, <1>5 DEF Passed
  <2>6. \A t \in Items : t <= end <=> t <= pos \/ t = s
    <3> SUFFICES ASSUME NEW t \in Items PROVE t <= end <=> t <= pos \/ t = s
      OBVIOUS
    <3>1. t \in Nat /\ (t > s => t > end)
      BY <2>3, <2>4
    <3> HIDE DEF end
    <3> QED
      BY <1>1, <1>2, <1>4, <2>2, <3>1
  <2>7. Passed' = Passed \cup {s}
    BY <2>1, <2>5, <2>6 DEF Passed
  <2>8. s \notin Passed /\ \A t \in Passed : t < s
    BY <1>1, <2>4 DEF Passed
  <2>9. NameOf(s) = Substr(s, e) /\ ValueOf(s) = PercentDecode(Substr(e + 1, end))
    BY <2>2 DEF NameOf, ValueOf, e
  <2> QED
    BY <2>3, <2>7, <2>8, <2>9
<1>7. Progress'
  <2> SUFFICES ASSUME (\A t \in Items : HasValue(t))'
               PROVE  /\ (pos < Len(url_) => pos + 1 \in Items)'
                      /\ (DOMAIN params_ = {NameOf(t) : t \in Passed})'
                      /\ (\A t \in Passed : (\A u \in Passed : u > t => NameOf(u) # NameOf(t))
                             => params_[NameOf(t)] = ValueOf(t))'
                      /\ (done => pos >= Len(url_))'
    BY DEF Progress
  <2>1. \A t \in Items : HasValue(t)
    BY <1>5
  <2>2. /\ DOMAIN params_ = {NameOf(t) : t \in Passed}
        /\ \A t \in Passed : (\A u \in Passed : u > t => NameOf(u) # NameOf(t))
              => params_[NameOf(t)] = ValueOf(t)
    BY <2>1 DEF ParseInv, Progress
  <2>3. /\ Passed' = Passed \cup {s} /\ s \notin Passed /\ \A t \in Passed : t < s
        /\ params_' = Put(params_, NameOf(s), ValueOf(s))
    BY <1>1, <1>6, <2>1
  <2>4. Passed \subseteq Nat
    BY <1>1, ItemsType DEF Passed
  <2> HIDE DEF s
  <2>5. DOMAIN params_' = {NameOf(t) : t \in Passed'}
    BY <2>2, <2>3 DEF Put
  <2>6. ASSUME NEW t \in Passed', \A u \in Passed' : u > t => NameOf(u) # NameOf(t)
        PROVE  params_'[NameOf(t)] = ValueOf(t)
    <3>1. CASE t = s
      BY <2>3, <3>1 DEF Put
    <3>2. CASE t # s
      <4>1. t \in Passed /\ s > t /\ s \in Passed'
        BY <1>1, <2>3, <2>4, <3>2
      <4>2. NameOf(s) # NameOf(t) /\ \A u \in Passed : u > t => NameOf(u) # NameOf(t)
        BY <2>3, <2>6, <4>1
      <4>3. params_[NameOf(t)] = ValueOf(t) /\ NameOf(t) \in DOMAIN params_
        BY <2>2, <4>1, <4>2
      <4> QED
        BY <2>3, <4>2, <4>3 DEF Put
    <3> QED
      BY <3>1, <3>2
  <2>7. (\A t \in Passed : (\A u \in Passed : u > t => NameOf(u) # NameOf(t))
             => params_[NameOf(t)] = ValueOf(t))'
    BY <1>5, <2>6
  <2>8. (DOMAIN params_ = {NameOf(t) : t \in Passed})'
    BY <1>5, <2>5
  <2>9. (pos < Len(url_) => pos + 1 \in Items)' /\ (done => pos >= Len(url_))'
    BY <1>1, <1>5, <1>6, <2>1
  <2> QED
    BY <2>7, <2>8, <2>9
<1> QED
  BY <1>1, <1>4, <1>7 DEF ParseInv

\* The turn that ends it.
LEMMA ReturnKeeps == ASSUME ParseInv, Return PROVE ParseInv'
<1>1. /\ url_ \in Seq(Byte) /\ pos \in npos..Len(url_) /\ Len(url_) \in Nat
      /\ url_' = url_ /\ pos' = pos /\ params_' = params_
      /\ ~Turn \/ FindFirst(Equals, pos + 1) = npos
  BY DEF ParseInv, Return
<1>2. /\ Items' = Items /\ Passed' = Passed
      /\ \A t : NameOf(t)' = NameOf(t) /\ ValueOf(t)' = ValueOf(t) /\ HasValue(t)' = HasValue(t)
  BY <1>1 DEF Items, Begin, FindFirst, NameOf, ValueOf, HasValue, ItemEnd, Substr, Passed
<1>3. ASSUME \A t \in Items : HasValue(t) PROVE pos >= Len(url_)
  <2> SUFFICES ASSUME pos < Len(url_) PROVE FALSE
    BY <1>1 DEF npos
  <2>1. pos + 1 \in Items
    BY <1>3 DEF ParseInv, Progress
  <2>2. FindFirst(Equals, pos + 1) # npos
    BY <1>1, <1>3, <2>1, ItemSplit
  <2> QED
    BY <1>1, <2>2 DEF Turn, npos
<1> QED
  BY <1>1, <1>2, <1>3 DEF ParseInv, Progress

\* The parser of every request that the service gets.
LEMMA ParseInvariance == VisitorSpec => []ParseInv
<1>1. VisitorInit => ParseInv
  BY ParseStarts, VisitorAssumption DEF VisitorInit, Init, Byte
<1> DEFINE Starts == url_ \in Seq(Byte) /\ pos = FindFirst(Query, 0) /\ params_ = <<>> /\ done = FALSE
<1>2. Starts => ParseInv
  BY ParseStarts
<1>3. Starts' => ParseInv'
  BY <1>2, PTL
<1>4. ParseInv /\ [VisitorNext]_allVars => ParseInv'
  <2> SUFFICES ASSUME ParseInv, [VisitorNext]_allVars PROVE ParseInv'
    OBVIOUS
  <2>1. CASE Request
    <3>1. url_' = url_ /\ pos' = FindFirst(Query, 0)' /\ params_' = <<>> /\ done' = FALSE
      BY <2>1 DEF Request, FindFirst
    <3>2. Starts'
      BY <3>1 DEF ParseInv
    <3> QED
      BY <1>3, <3>2
  <2>2. CASE UNCHANGED vars
    <3>1. url_' = url_ /\ pos' = pos /\ params_' = params_ /\ done' = done
      BY <2>2 DEF vars
    <3>2. /\ Items' = Items /\ Passed' = Passed
          /\ \A t : NameOf(t)' = NameOf(t) /\ ValueOf(t)' = ValueOf(t) /\ HasValue(t)' = HasValue(t)
      BY <3>1 DEF Items, Begin, FindFirst, NameOf, ValueOf, HasValue, ItemEnd, Substr, Passed
    <3> QED
      BY <3>1, <3>2 DEF ParseInv, Progress
  <2>3. CASE Next
    BY <2>3, PairKeeps, ReturnKeeps DEF Next
  <2>4. CASE ~Request /\ ~Next
    BY <2>2, <2>4 DEF VisitorNext, ParseQuery, Answer, AnswerError, Forget, allVars
  <2> QED
    BY <2>1, <2>3, <2>4
<1> QED
  BY <1>1, <1>4, PTL DEF VisitorSpec

\* Whatever the query, as long as every item of it is name=value: when parse is
\* done, param gives every name the decoded value of its last item and all other
\* names nothing (UrlParser.cpp:26-49).
THEOREM LastParameterWins == VisitorSpec => []LastValueWins
<1>1. ParseInv => LastValueWins
  <2> SUFFICES ASSUME ParseInv, done, \A s \in Items : HasValue(s)
               PROVE  /\ DOMAIN params_ = {NameOf(s) : s \in Items}
                      /\ \A s \in Items : (\A t \in Items : t > s => NameOf(t) # NameOf(s))
                            => Param(NameOf(s)) = ValueOf(s)
    BY DEF LastValueWins
  <2>1. url_ \in Seq(Byte) /\ Len(url_) \in Nat /\ pos \in npos..Len(url_) /\ pos >= Len(url_)
    BY DEF ParseInv, Progress
  <2>2. ASSUME NEW s \in Items PROVE s \in Nat /\ s < Len(url_)
    BY <2>1, <2>2, ItemSplit
  <2>3. Passed = Items
    BY <2>1, <2>2 DEF Passed, npos
  <2> QED
    BY <2>3 DEF ParseInv, Progress, Param
<1> QED
  BY <1>1, ParseInvariance, PTL

\* Whatever the query is, it survives percent encoding and decoding, and base64
\* sent as a value and decoded (base64.cpp, UrlParser.cpp:51-116): both codecs
\* are right for texts of every length.
THEOREM QueriesCarry == VisitorSpec => []QueryCarries
<1>1. ParseInv => QueryCarries
  <2> SUFFICES ASSUME url_ \in Seq(Byte) PROVE QueryCarries
    BY DEF ParseInv
  <2>1. PercentDecode(Encode(url_)) = url_
    BY DecodesEncoded
  <2>2. base64_encode(url_) \in Seq(Byte \ {Percent})
    BY EncodedPieces
  <2>3. PercentDecode(base64_encode(url_)) = base64_encode(url_)
    BY <2>2, DecodesPlain
  <2>4. base64_decode(base64_encode(url_)) = url_
    BY Base64Back
  <2> QED
    BY <2>1, <2>3, <2>4 DEF QueryCarries
<1> QED
  BY <1>1, ParseInvariance, PTL

-----------------------------------------------------------------------------
(* The visitor.                                                            *)

\* The jar is always cookies, the clock shows a digit, and while a request is
\* served the cookie that was read is the one of the jar it was sent with.
JarInv ==
    IsToken(CookieName) =>
        /\ jar \in Seq(Cookies) /\ sent \in Seq(Cookies)
        /\ cookie_value \in Seq(Byte) /\ now \in 0..MaxTime
        /\ at = "parse" => cookie_value = Value(sent)

\* What cookie_id makes of any cookie is an id that a browser can keep.
LEMMA IdType ==
    ASSUME cookie_value \in Seq(Byte), now \in 0..MaxTime
    PROVE  CookieId(cookie_value) \in Seq(Digit) /\ CookieId(cookie_value) \in CookieText
<1> DEFINE C == 0..255 \ {Semicolon}
<1>1. 48 + now \in Digit
  BY VisitorAssumption DEF Digit
<1>2. <<48 + now>> \in Seq(Digit)
  BY <1>1, Single
<1>3. CookieId(cookie_value) \in Seq(Digit)
  BY <1>2, CookieIdDigits, DigitsSteps
<1>4. Digit \subseteq C
  BY DEF Digit, Semicolon
<1> HIDE DEF C
<1>5. Seq(Digit) \subseteq Seq(C)
  BY <1>4
<1> QED
  BY <1>3, <1>5 DEF CookieText, C

\* The browser keeps cookies.
LEMMA StoredType ==
    ASSUME NEW cs \in Seq(Cookies), NEW header, header.name \in CookieText, header.value \in CookieText
    PROVE  Stored(cs, header) \in Seq(Cookies)
<1> DEFINE new == [name |-> header.name, value |-> header.value]
<1>1. new \in Cookies
  BY DEF Cookies
<1>2. Stored(cs, header) = IF \E i \in DOMAIN cs : cs[i].name = new.name
                           THEN [i \in DOMAIN cs |-> IF cs[i].name = new.name THEN new ELSE cs[i]]
                           ELSE Append(cs, new)
  BY DEF Stored
<1> HIDE DEF new
<1>3. Append(cs, new) \in Seq(Cookies)
  BY <1>1
<1>4. [i \in DOMAIN cs |-> IF cs[i].name = new.name THEN new ELSE cs[i]] \in Seq(Cookies)
  <2> DEFINE n == Len(cs)  e(i) == IF cs[i].name = new.name THEN new ELSE cs[i]
  <2>1. n \in Nat /\ DOMAIN cs = 1..n /\ \A i \in 1..n : e(i) \in Cookies
    BY <1>1
  <2> HIDE DEF n, e
  <2>2. [i \in 1..n |-> e(i)] \in Seq(Cookies)
    BY <2>1
  <2>3. [i \in DOMAIN cs |-> e(i)] \in Seq(Cookies)
    BY <2>1, <2>2
  <2> QED
    BY <2>3 DEF e
<1> QED
  BY <1>2, <1>3, <1>4

\* A request reads its jar.
LEMMA RequestKeeps == ASSUME JarInv, Request PROVE JarInv'
<1> SUFFICES ASSUME IsToken(CookieName)
             PROVE  /\ jar' \in Seq(Cookies) /\ sent' \in Seq(Cookies)
                    /\ cookie_value' \in Seq(Byte) /\ now' \in 0..MaxTime
                    /\ at' = "parse" => cookie_value' = Value(sent')
  BY DEF JarInv, IsToken, Value
<1>1. jar \in Seq(Cookies) /\ now \in 0..MaxTime
  BY DEF JarInv
<1>2. jar' = jar /\ sent' = jar /\ cookie_value' = Value(jar)
  BY DEF Request, Value
<1>3. Value(jar) \in Seq(Byte)
  BY <1>1, ValueSteps
<1>4. now' \in 0..MaxTime
  <2>1. now' \in now..(IF now < MaxTime THEN now + 1 ELSE now)
    BY DEF Request, Clock
  <2> QED
    BY <1>1, <2>1, VisitorAssumption
<1> QED
  BY <1>1, <1>2, <1>3, <1>4

\* An answer's cookie is one that the browser can keep.
LEMMA AnswerKeeps == ASSUME JarInv, Answer PROVE JarInv'
<1> SUFFICES ASSUME IsToken(CookieName)
             PROVE  /\ jar' \in Seq(Cookies) /\ sent' \in Seq(Cookies)
                    /\ cookie_value' \in Seq(Byte) /\ now' \in 0..MaxTime
                    /\ at' = "parse" => cookie_value' = Value(sent')
  BY DEF JarInv, IsToken, Value
<1>1. /\ jar \in Seq(Cookies) /\ sent \in Seq(Cookies)
      /\ cookie_value \in Seq(Byte) /\ now \in 0..MaxTime
  BY DEF JarInv
<1>2. /\ sent' = sent /\ cookie_value' = cookie_value /\ now' = now /\ at' # "parse"
  BY DEF Answer
<1> DEFINE header == HeaderOf(NewCookie(CookieName, CookieId(cookie_value), Credentials(<<>>, <<>>, <<48 + now>>)))
<1>3. jar' = jar \/ jar' = Stored(jar, header)
  BY DEF Answer
<1>4. header.name = CookieName /\ header.value = CookieId(cookie_value)
  BY DEF HeaderOf, NewCookie
<1>5. CookieName \in CookieText
  <2> DEFINE C == 0..255 \ {Semicolon}  w == CookieName  n == Len(w)
  <2>1. w \in Seq(0..255) /\ n \in Nat
    BY VisitorAssumption
  <2>2. \A i \in 1..n : w[i] \in C
    BY <2>1 DEF IsToken, ToSet
  <2> HIDE DEF C
  <2>3. w \in Seq(C)
    BY <2>1, <2>2
  <2> QED
    BY <2>3 DEF C, CookieText
<1> HIDE DEF header
<1>6. Stored(jar, header) \in Seq(Cookies)
  BY <1>1, <1>4, <1>5, IdType, StoredType
<1> QED
  BY <1>1, <1>2, <1>3, <1>6

\* A jar with a cookie dropped.
LEMMA ForgetKeeps == ASSUME JarInv, Forget PROVE JarInv'
<1> SUFFICES ASSUME IsToken(CookieName)
             PROVE  /\ jar' \in Seq(Cookies) /\ sent' \in Seq(Cookies)
                    /\ cookie_value' \in Seq(Byte) /\ now' \in 0..MaxTime
                    /\ at' = "parse" => cookie_value' = Value(sent')
  BY DEF JarInv, IsToken, Value
<1>1. /\ jar \in Seq(Cookies) /\ sent \in Seq(Cookies)
      /\ cookie_value \in Seq(Byte) /\ now \in 0..MaxTime
      /\ at = "parse" => cookie_value = Value(sent)
  BY DEF JarInv
<1>2. sent' = sent /\ cookie_value' = cookie_value /\ now' = now /\ at' = at
  BY DEF Forget
<1>3. PICK i \in DOMAIN jar : jar' = SubSeq(jar, 1, i - 1) \o SubSeq(jar, i + 1, Len(jar))
  BY DEF Forget
<1>4. jar' \in Seq(Cookies)
  <2> DEFINE n == Len(jar)  a == SubSeq(jar, 1, i - 1)  b == SubSeq(jar, i + 1, n)
  <2>1. n \in Nat /\ i \in 1..n /\ \A k \in 1..n : jar[k] \in Cookies
    BY <1>1
  <2>2. (\A k \in 1..(i - 1) : jar[k] \in Cookies) /\ (\A k \in (i + 1)..n : jar[k] \in Cookies)
    BY <2>1
  <2>3. a \in Seq(Cookies)
    BY <1>1, <2>1, <2>2, SubSeqProperties
  <2>4. b \in Seq(Cookies)
    BY <1>1, <2>1, <2>2, SubSeqProperties
  <2> HIDE DEF a, b
  <2>5. a \o b \in Seq(Cookies)
    BY <2>3, <2>4
  <2> QED
    BY <1>3, <2>5 DEF a, b, n
<1> QED
  BY <1>1, <1>2, <1>4

\* Along every behaviour.
LEMMA JarInvariance == VisitorSpec => []JarInv
<1>1. VisitorInit => JarInv
  <2> SUFFICES ASSUME VisitorInit PROVE JarInv
    OBVIOUS
  <2>1. jar \in Seq(Cookies)
    BY VisitorAssumption DEF VisitorInit
  <2>2. sent \in Seq(Cookies) /\ cookie_value \in Seq(Byte)
    BY Nothing DEF VisitorInit
  <2>3. now \in 0..MaxTime /\ at # "parse"
    BY VisitorAssumption DEF VisitorInit
  <2> QED
    BY <2>1, <2>2, <2>3 DEF JarInv
<1>2. JarInv /\ [VisitorNext]_allVars => JarInv'
  <2> SUFFICES ASSUME JarInv, [VisitorNext]_allVars PROVE JarInv'
    OBVIOUS
  <2>1. CASE Request
    BY <2>1, RequestKeeps
  <2>2. CASE Answer
    BY <2>2, AnswerKeeps
  <2>3. CASE Forget
    BY <2>3, ForgetKeeps
  <2>4. CASE ParseQuery \/ AnswerError \/ UNCHANGED allVars
    <3>1. jar' = jar /\ sent' = sent /\ cookie_value' = cookie_value /\ now' = now /\ (at' = at \/ at' = "idle")
      BY <2>4 DEF ParseQuery, AnswerError, allVars, visitor
    <3> QED
      BY <3>1 DEF JarInv, IsToken, Value
  <2> QED
    BY <2>1, <2>2, <2>3, <2>4 DEF VisitorNext
<1> QED
  BY <1>1, <1>2, PTL DEF VisitorSpec

\* A cookie with an id is one that the service reads.
LEMMA CarriedIsRead ==
    ASSUME IsToken(CookieName), NEW x \in Cookies, x.name = CookieName, ToSet(x.value) \subseteq Digit
    PROVE  Reads(x) /\ x.value \in Seq(Digit)
<1> DEFINE w == CookieName  v == x.value  C == Byte \ {Equals}  e == <<Equals>>
<1>1. w \in Seq(Byte) /\ v \in Seq(Byte) /\ e \in Seq(Byte)
  <2>1. w \in Seq(Byte)
    BY VisitorAssumption DEF Byte
  <2>2. v \in Seq(0..255 \ {Semicolon})
    BY DEF Cookies, CookieText
  <2> HIDE DEF v
  <2>3. v \in Seq(Byte)
    BY <2>2 DEF Byte
  <2> QED
    BY <2>1, <2>3, Separators
<1>2. w \in Seq(C)
  <2>1. \A i \in 1..Len(w) : w[i] \in C
    BY <1>1 DEF IsToken, ToSet
  <2> HIDE DEF w, C
  <2> QED
    BY <1>1, <2>1
<1>3. v \in Seq(Digit)
  <2>1. \A i \in 1..Len(v) : v[i] \in Digit
    BY <1>1 DEF ToSet
  <2> HIDE DEF v
  <2> QED
    BY <1>1, <2>1
<1>4. v \in Seq(C)
  <2>1. Digit \subseteq C
    BY DEF Digit, Byte, Equals
  <2> HIDE DEF v, C
  <2> QED
    BY <1>3, <2>1
<1>5. Occurs(w, PairOf(x))
  <2> HIDE DEF w, v, e
  <2> DEFINE s == e \o v
  <2>1. s \in Seq(Byte)
    BY <1>1
  <2>2. InARow(w, e, v)
    BY <1>1, Associative, Zenon
  <2>3. (w \o e) \o v = w \o s
    BY <2>2, Zenon DEF InARow
  <2> HIDE DEF s
  <2>4. Occurs(w, w \o s)
    BY <1>1, <2>1, OccursFirst
  <2>5. PairOf(x) = (w \o e) \o v
    BY DEF PairOf, w, e, v
  <2> QED
    BY <2>3, <2>4, <2>5
<1> QED
  BY <1>2, <1>3, <1>4, <1>5 DEF Reads

\* What a new id is.
LEMMA AnswersId ==
    ASSUME JarInv, Answer, IsToken(CookieName)
    PROVE  /\ sent \in Seq(Cookies) /\ cookie_value \in Seq(Byte) /\ cookie_value = Value(sent)
           /\ id'.text = IF cookie_value = <<>> THEN <<48 + now>> ELSE Digits(cookie_value)
<1>1. sent \in Seq(Cookies) /\ cookie_value \in Seq(Byte) /\ cookie_value = Value(sent)
  BY DEF JarInv, Answer
<1>2. id'.text = CookieId(cookie_value)
  BY DEF Answer
<1> QED
  BY <1>1, <1>2, CookieIdDigits

\* When the jar sent holds the cookie with an id, at any place, and the name
\* occurs in none of the others, the answer sets that id, however the time has
\* moved and whatever became of the jar meanwhile; and the answer's id is empty
\* only when a cookie of that name had text without a digit
\* (CgiService.cpp:306-321 and Params.cpp:29-45).
THEOREM VisitorKeepsItsId == VisitorSpec => SameVisitor
<1> DEFINE Back == \A i \in DOMAIN sent :
                      CarriesId(i) /\ (\A j \in DOMAIN sent \ {i} : ~Names(j)) => id'.text = sent[i].value
           Empty == id'.text = <<>> => \E i \in DOMAIN sent :
                      Names(i) /\ sent[i].value # <<>> /\ ToSet(sent[i].value) \cap Digit = {}
           Same == id' # id /\ IsToken(CookieName) => Back /\ Empty
<1>1. JarInv /\ [VisitorNext]_allVars => [Same]_allVars
  <2> SUFFICES ASSUME JarInv, VisitorNext, id' # id, IsToken(CookieName) PROVE Back /\ Empty
    OBVIOUS
  <2>1. Answer
    BY DEF VisitorNext, Request, ParseQuery, AnswerError, Forget, visitor
  <2>2. /\ sent \in Seq(Cookies) /\ cookie_value \in Seq(Byte) /\ cookie_value = Value(sent)
        /\ id'.text = IF cookie_value = <<>> THEN <<48 + now>> ELSE Digits(cookie_value)
    BY <2>1, AnswersId
  <2>3. \A i \in DOMAIN sent : sent[i] \in Cookies /\ (Reads(sent[i]) => Names(i))
    BY <2>2 DEF Reads, Names, PairOf
  <2>4. Back
    <3> SUFFICES ASSUME NEW i \in DOMAIN sent, CarriesId(i), \A j \in DOMAIN sent \ {i} : ~Names(j)
                 PROVE  id'.text = sent[i].value
      OBVIOUS
    <3>1. Reads(sent[i]) /\ sent[i].value \in Seq(Digit) /\ sent[i].value # <<>>
      BY <2>3, CarriedIsRead DEF CarriesId
    <3>2. \A j \in DOMAIN sent : Reads(sent[j]) <=> j = i
      BY <2>3, <3>1
    <3>3. cookie_value = sent[i].value
      BY <2>2, <3>2, ValueRead
    <3> QED
      BY <2>2, <3>1, <3>3, DigitsTaken
  <2>5. Empty
    <3> SUFFICES ASSUME id'.text = <<>>
                 PROVE  \E i \in DOMAIN sent :
                           Names(i) /\ sent[i].value # <<>> /\ ToSet(sent[i].value) \cap Digit = {}
      OBVIOUS
    <3>1. cookie_value # <<>> /\ Digits(cookie_value) = <<>>
      <4>1. \A e : <<e>> # <<>>
        OBVIOUS
      <4> QED
        BY <2>2, <4>1, Zenon
    <3>2. ToSet(cookie_value) \cap Digit = {}
      BY <2>2, <3>1, DigitsTaken
    <3>3. PICK i \in DOMAIN sent : Reads(sent[i]) /\ cookie_value = sent[i].value
      BY <2>2, <3>1, ValueRead
    <3> QED
      BY <2>3, <3>1, <3>2, <3>3
  <2> QED
    BY <2>4, <2>5
<1> QED
  BY <1>1, JarInvariance, PTL DEF VisitorSpec, SameVisitor
=============================================================================
