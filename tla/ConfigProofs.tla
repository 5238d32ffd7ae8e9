---------------------------- MODULE ConfigProofs ----------------------------
(***************************************************************************)
(* What Config::Load leaves behind, for any file, any paths and any disk:  *)
(* checkPath's loop by induction on the directories of a path, and from it *)
(* the three properties of Config.                                         *)
(***************************************************************************)
EXTENDS Config, SequenceTheorems, WellFoundedInduction, TLAPS

-----------------------------------------------------------------------------
(* checkPath's loop.                                                       *)

\* The positions of a path, and where checkPath begins.
Places(d) == [i \in DOMAIN d |-> i]
Begin(d)  == [verdict |-> "true", dirs |-> d]

\* A turn of checkPath's loop, which begins below "/".
Turn(r, write, mk, s, k) == IF k = 1 THEN s ELSE Visit(r, write, mk, s, k)

\* The function the recursion of FoldLeft defines for checkPath's loop.
Folds(f, D, r, write, mk, d) ==
    f = [S \in SUBSET D |->
            IF S = {} THEN Begin(d)
            ELSE Turn(r, write, mk, f[S \ {Max(S)}], Places(d)[Max(S)])]

\* What CheckPath is of.
LEMMA CheckPathDef ==
    ASSUME NEW r, NEW d, NEW write, NEW mk
    PROVE  CheckPath(r, d, write, mk) =
              (CHOOSE f : Folds(f, DOMAIN Places(d), r, write, mk, d))[DOMAIN Places(d)]
BY DEF CheckPath, FoldLeftDomain, FoldLeft, MapThenFoldSet, Folds, Begin, Turn, Places

\* Any set of natural numbers has a least one.
LEMMA LeastNatural == ASSUME NEW T, T \subseteq Nat, T # {}
                      PROVE  \E n \in T : \A m \in T : n <= m
<1> DEFINE R == {p \in Nat \X Nat : p[1] < p[2]}
<1>1. IsWellFoundedOn(R, Nat)
  BY NatLessThanWellFounded DEF OpToRel
<1>2. PICK n \in T : \A m \in T : <<m, n>> \notin R
  <2> HIDE DEF R
  <2> QED
    BY <1>1, WFMin
<1>3. \A m \in T : ~(m < n)
  BY <1>2
<1> QED
  BY <1>3

\* The largest of a set of numbers is the one that is.
LEMMA MaxIs ==
    ASSUME NEW S, S \subseteq Nat, NEW n \in S, \A m \in S : m <= n
    PROVE  Max(S) = n
<1>1. \A x \in S : (\A m \in S : x >= m) => x = n
  <2> SUFFICES ASSUME NEW x \in S, \A m \in S : x >= m PROVE x = n
    OBVIOUS
  <2>1. x >= n /\ x <= n /\ x \in Nat /\ n \in Nat
    OBVIOUS
  <2> QED
    BY <2>1
<1>2. \A m \in S : n >= m
  OBVIOUS
<1> QED
  BY <1>1, <1>2 DEF Max

\* The recursion over one directory more.
LEMMA FoldsMore ==
    ASSUME NEW r, NEW d \in Seq(Node), NEW write, NEW mk, NEW n \in Nat, n + 1 \in 1..Len(d),
           NEW f, Folds(f, 1..n, r, write, mk, d)
    PROVE  \E g : Folds(g, 1..(n + 1), r, write, mk, d)
<1> DEFINE N == n + 1
           g == [S \in SUBSET (1..N) |->
                    IF N \in S THEN Turn(r, write, mk, f[S \ {N}], N) ELSE f[S]]
           step(h, S) == IF S = {} THEN Begin(d)
                         ELSE Turn(r, write, mk, h[S \ {Max(S)}], Places(d)[Max(S)])
<1>1. /\ N \in Nat /\ n = N - 1 /\ N \in 1..N /\ N \notin 1..n
      /\ \A S \in SUBSET (1..N) : S \ {N} \in SUBSET (1..n)
      /\ \A S \in SUBSET (1..N) : N \notin S => S \in SUBSET (1..n)
      /\ \A S \in SUBSET (1..n) : S \in SUBSET (1..N) /\ N \notin S
  OBVIOUS
<1>2. \A S \in SUBSET (1..n) : f[S] = step(f, S)
  BY DEF Folds
<1>3. \A S \in SUBSET (1..n) : g[S] = f[S]
  BY <1>1
<1>4. ASSUME NEW S \in SUBSET (1..N) PROVE g[S] = step(g, S)
  <2>1. CASE N \in S
    <3>1. Max(S) = N
      <4>1. S \subseteq Nat /\ \A m \in S : m <= N
        BY <1>1
      <4> QED
        BY <2>1, <4>1, MaxIs
    <3>2. Places(d)[N] = N
      BY DEF Places
    <3>3. g[S \ {N}] = f[S \ {N}]
      BY <1>1, <1>3
    <3>4. g[S] = Turn(r, write, mk, f[S \ {N}], N)
      BY <2>1
    <3> QED
      BY <2>1, <3>1, <3>2, <3>3, <3>4
  <2>2. CASE N \notin S
    <3>1. S \in SUBSET (1..n) /\ S \ {Max(S)} \in SUBSET (1..n)
      BY <1>1, <2>2
    <3>2. g[S] = f[S] /\ g[S \ {Max(S)}] = f[S \ {Max(S)}]
      BY <1>3, <3>1
    <3> HIDE DEF g
    <3> QED
      BY <1>2, <3>1, <3>2
  <2> QED
    BY <2>1, <2>2
<1>5. g = [S \in SUBSET (1..N) |-> step(g, S)]
  <2> DEFINE h == [S \in SUBSET (1..N) |-> step(g, S)]
  <2>1. DOMAIN g = SUBSET (1..N) /\ g = [S \in DOMAIN g |-> g[S]]
    OBVIOUS
  <2> HIDE DEF g
  <2> QED
    BY <1>4, <2>1
<1> QED
  BY <1>5 DEF Folds

\* There is such a function for any path.
LEMMA FoldsExist ==
    ASSUME NEW r, NEW d \in Seq(Node), NEW write, NEW mk, NEW n \in 0..Len(d)
    PROVE  \E f : Folds(f, 1..n, r, write, mk, d)
<1> DEFINE T == {m \in 0..Len(d) : ~\E f : Folds(f, 1..m, r, write, mk, d)}
<1>1. T = {}
  <2> SUFFICES ASSUME T # {} PROVE FALSE
    OBVIOUS
  <2>1. T \subseteq Nat
    OBVIOUS
  <2>2. PICK m \in T : \A k \in T : m <= k
    <3> HIDE DEF T
    <3> QED
      BY <2>1, LeastNatural
  <2>3. m \in 0..Len(d) /\ ~\E f : Folds(f, 1..m, r, write, mk, d)
    OBVIOUS
  <2>4. CASE m = 0
    <3> DEFINE f == [S \in SUBSET (1..0) |-> Begin(d)]
    <3>1. \A S \in SUBSET (1..0) : S = {}
      OBVIOUS
    <3>2. Folds(f, 1..0, r, write, mk, d)
      BY <3>1 DEF Folds
    <3> QED
      BY <2>3, <2>4, <3>2
  <2>5. CASE m # 0
    <3> DEFINE k == m - 1
    <3>1. k \in 0..Len(d) /\ k \in Nat /\ m = k + 1 /\ k + 1 \in 1..Len(d) /\ ~(m <= k)
      BY <2>3, <2>5
    <3> HIDE DEF k
    <3>2. PICK f : Folds(f, 1..k, r, write, mk, d)
      BY <2>2, <3>1
    <3>3. \E g : Folds(g, 1..(k + 1), r, write, mk, d)
      BY <3>1, <3>2, FoldsMore
    <3> QED
      BY <2>3, <3>1, <3>3
  <2> QED
    BY <2>4, <2>5
<1> QED
  BY <1>1

\* CheckPath is what the turns of the loop, one directory after the other, make
\* of the path it is given.
LEMMA CheckPathRuns ==
    ASSUME NEW r, NEW d \in Seq(Node), NEW write, NEW mk
    PROVE  \E g : /\ g[0] = Begin(d)
                  /\ \A k \in 1..Len(d) : g[k] = Turn(r, write, mk, g[k - 1], k)
                  /\ CheckPath(r, d, write, mk) = g[Len(d)]
<1> DEFINE D == 1..Len(d)
<1>1. D = DOMAIN Places(d) /\ Len(d) \in Nat
  BY DEF Places
<1> DEFINE f == CHOOSE f : Folds(f, D, r, write, mk, d)
<1>2. Folds(f, D, r, write, mk, d)
  <2>1. Len(d) \in 0..Len(d)
    BY <1>1
  <2> QED
    BY <2>1, FoldsExist
<1>3. CheckPath(r, d, write, mk) = f[D]
  BY <1>1, CheckPathDef
<1> DEFINE g == [k \in 0..Len(d) |-> f[1..k]]
<1>4. \A S \in SUBSET D : f[S] =
          IF S = {} THEN Begin(d)
          ELSE Turn(r, write, mk, f[S \ {Max(S)}], Places(d)[Max(S)])
  <2> HIDE DEF f
  <2> QED
    BY <1>2 DEF Folds
<1> HIDE DEF f
<1>5. g[0] = Begin(d)
  <2>1. 1..0 = {} /\ 0 \in 0..Len(d)
    BY <1>1
  <2>2. f[{}] = Begin(d)
    BY <1>4
  <2> QED
    BY <2>1, <2>2
<1>6. ASSUME NEW k \in 1..Len(d) PROVE g[k] = Turn(r, write, mk, g[k - 1], k)
  <2>1. /\ 1..k \in SUBSET D /\ 1..k # {} /\ k \in 1..k /\ 1..k \subseteq Nat
        /\ (1..k) \ {k} = 1..(k - 1) /\ \A m \in 1..k : m <= k
        /\ k \in 0..Len(d) /\ k - 1 \in 0..Len(d)
    <3>1. k \in Nat /\ k >= 1 /\ k <= Len(d)
      BY <1>1
    <3>2. \A m \in 1..k : m \in 1..Len(d) /\ m \in Nat /\ m <= k
      BY <3>1, <1>1
    <3>3. \A m : m \in 1..k /\ m # k <=> m \in 1..(k - 1)
      BY <3>1
    <3>4. k \in 1..k
      BY <3>1
    <3>5. k \in 0..Len(d) /\ k - 1 \in 0..Len(d)
      BY <3>1, <1>1
    <3> QED
      BY <3>2, <3>3, <3>4, <3>5
  <2>2. Max(1..k) = k
    BY <2>1, MaxIs
  <2>3. Places(d)[k] = k
    BY <1>1 DEF Places
  <2>4. g[k] = f[1..k] /\ g[k - 1] = f[1..(k - 1)]
    BY <2>1
  <2>5. f[1..k] = Turn(r, write, mk, f[(1..k) \ {Max(1..k)}], Places(d)[Max(1..k)])
    BY <1>4, <2>1
  <2> HIDE DEF g
  <2> QED
    BY <2>1, <2>2, <2>3, <2>4, <2>5
<1>7. CheckPath(r, d, write, mk) = g[Len(d)]
  BY <1>1, <1>3
<1> HIDE DEF g
<1> QED
  BY <1>5, <1>6, <1>7

-----------------------------------------------------------------------------
(* What a turn leaves.                                                     *)

\* The verdicts, and what checkPath's loop carries.
Verdict == {"true", "false", "throw"}
Walk    == [verdict : Verdict, dirs : Seq(Node)]

\* What may have become of a path: the directories that differ were missing, have
\* been made, and lie in one that can be written.
Left(r, write, d, e) ==
    /\ e[1] = d[1]
    /\ \A j \in 2..Len(d) : e[j] # d[j] =>
          write /\ d[j].kind = "none" /\ e[j] = NewDir /\ CanMake(r, e[j - 1])

\* Nothing was made, or the k-th directory was.
Made(d, e, k) == e = d \/ (d[k].kind = "none" /\ e[k] = NewDir)

\* Nothing was made, or a mkdir failed or came too late, and nothing was made below.
Stopped(mk, d, e) ==
    e = d \/ \E j \in Missing(d) : mk[j] # "done" /\ \A i \in (j + 1)..Len(d) : e[i] = d[i]

\* After k turns on d.
Walked(r, write, mk, d, s, k) ==
    /\ s \in Walk /\ Len(s.dirs) = Len(d) /\ InPlace(s.dirs)
    /\ Left(r, write, d, s.dirs)
    /\ \A j \in (k + 1)..Len(d) : s.dirs[j] = d[j]
    /\ s.verdict = "true" => Made(d, s.dirs, k)
    /\ s.verdict # "true" => Stopped(mk, d, s.dirs)

\* A directory create_directories makes can be searched and written by its owner,
\* and checkPath accepts it.
LEMMA NewDirGrants ==
    ASSUME NEW r
    PROVE  /\ NewDir \in Node /\ NewDir.kind = "dir" /\ Accepts(NewDir)
           /\ CanSearch(r, NewDir) /\ CanMake(r, NewDir)
<1>1. NewDir \in Node /\ NewDir.kind = "dir" /\ NewDir.uid = TRUE
  BY DEF NewDir, Node, Kind, Class, Bit
<1>2. Bits(NewDir) = Bit
  BY DEF NewDir, Bits, Class
<1> QED
  BY <1>1, <1>2 DEF CanSearch, CanMake, Bit, Accepts

\* The outcomes of a turn.
LEMMA VisitCases ==
    ASSUME NEW r, NEW write, NEW mk, NEW s \in Walk, NEW m \in 2..Len(s.dirs),
           s.verdict = "true"
    PROVE  LET n == s.dirs[m]  up == s.dirs[m - 1]
               t == Visit(r, write, mk, s, m)
           IN
           /\ t \in Walk
           /\ up.kind = "dir" /\ ~CanSearch(r, up) =>
                 t.verdict = "throw" /\ t.dirs = s.dirs
           /\ ~(up.kind = "dir" /\ ~CanSearch(r, up)) =>
                 /\ n.kind # "none" =>
                       /\ t.verdict = IF Accepts(n) THEN "true" ELSE "false"
                       /\ t.dirs = s.dirs
                 /\ n.kind = "none" /\ (~write \/ ~CanMake(r, up) \/ mk[m] = "error") =>
                       t.verdict = "false" /\ t.dirs = s.dirs
                 /\ n.kind = "none" /\ ~(~write \/ ~CanMake(r, up) \/ mk[m] = "error") =>
                       /\ t.verdict = IF mk[m] = "exists" THEN "false" ELSE "true"
                       /\ t.dirs = [s.dirs EXCEPT ![m] = NewDir]
<1> DEFINE n == s.dirs[m]
           up == s.dirs[m - 1]
           t == Visit(r, write, mk, s, m)
           e == [s.dirs EXCEPT ![m] = NewDir]
<1>1. /\ s.dirs \in Seq(Node) /\ s = [verdict |-> s.verdict, dirs |-> s.dirs]
      /\ m \in 1..Len(s.dirs) /\ NewDir \in Node
  BY NewDirGrants DEF Walk
<1>2. e \in Seq(Node)
  BY <1>1, ExceptSeq
<1>3. CASE up.kind = "dir" /\ ~CanSearch(r, up)
  <2>1. t = [s EXCEPT !.verdict = "throw"]
    BY <1>3 DEF Visit
  <2> QED
    BY <1>1, <1>3, <2>1 DEF Walk, Verdict
<1>4. CASE ~(up.kind = "dir" /\ ~CanSearch(r, up)) /\ n.kind # "none"
  <2>1. t = [s EXCEPT !.verdict = IF Accepts(n) THEN "true" ELSE "false"]
    BY <1>4 DEF Visit
  <2> QED
    BY <1>1, <1>4, <2>1 DEF Walk, Verdict
<1>5. CASE /\ ~(up.kind = "dir" /\ ~CanSearch(r, up)) /\ n.kind = "none"
           /\ ~write \/ ~CanMake(r, up) \/ mk[m] = "error"
  <2>1. t = [s EXCEPT !.verdict = "false"]
    BY <1>5 DEF Visit
  <2> QED
    BY <1>1, <1>5, <2>1 DEF Walk, Verdict
<1>6. CASE /\ ~(up.kind = "dir" /\ ~CanSearch(r, up)) /\ n.kind = "none"
           /\ ~(~write \/ ~CanMake(r, up) \/ mk[m] = "error")
  <2>1. t = [verdict |-> IF mk[m] = "exists" THEN "false" ELSE "true", dirs |-> e]
    BY <1>6 DEF Visit
  <2> HIDE DEF t, e
  <2>2. /\ t \in Walk /\ t.dirs = e
        /\ t.verdict = IF mk[m] = "exists" THEN "false" ELSE "true"
    BY <1>2, <2>1 DEF Walk, Verdict
  <2> QED
    BY <1>6, <2>2 DEF e, t
<1> HIDE DEF t, n, up
<1>7. \/ up.kind = "dir" /\ ~CanSearch(r, up)
      \/ ~(up.kind = "dir" /\ ~CanSearch(r, up)) /\ n.kind # "none"
      \/ /\ ~(up.kind = "dir" /\ ~CanSearch(r, up)) /\ n.kind = "none"
         /\ ~write \/ ~CanMake(r, up) \/ mk[m] = "error"
      \/ /\ ~(up.kind = "dir" /\ ~CanSearch(r, up)) /\ n.kind = "none"
         /\ ~(~write \/ ~CanMake(r, up) \/ mk[m] = "error")
  OBVIOUS
<1> QED
  BY <1>3, <1>4, <1>5, <1>6, <1>7 DEF t, n, up

\* A turn keeps what Walked says.
LEMMA TurnWalks ==
    ASSUME NEW r, NEW write, NEW mk, NEW d \in Seq(Node), InPlace(d), NEW s,
           NEW k \in 1..(Len(d) - 1), Walked(r, write, mk, d, s, k)
    PROVE  Walked(r, write, mk, d, Turn(r, write, mk, s, k + 1), k + 1)
<1> DEFINE m == k + 1
           n == s.dirs[m]
           up == s.dirs[k]
           t == Turn(r, write, mk, s, m)
<1>1. /\ m \in 2..Len(d) /\ k \in 1..Len(d) /\ k \in Nat /\ m \in Nat /\ m - 1 = k
      /\ m # 1 /\ m \in (k + 1)..Len(d) /\ m \in 1..Len(d) /\ Len(d) \in Nat
      /\ \A j \in (m + 1)..Len(d) : j \in (k + 1)..Len(d) /\ j # m
  OBVIOUS
<1>2. s \in Walk /\ Len(s.dirs) = Len(d) /\ s.dirs \in Seq(Node) /\ InPlace(s.dirs)
  BY DEF Walked, Walk
<1>3. /\ Left(r, write, d, s.dirs)
      /\ \A j \in (k + 1)..Len(d) : s.dirs[j] = d[j]
  BY DEF Walked
<1>4. t = Visit(r, write, mk, s, m) /\ n = d[m] /\ DOMAIN d = 1..Len(d)
  BY <1>1, <1>3 DEF Turn
<1>5. \A j \in (m + 1)..Len(d) : s.dirs[j] = d[j]
  BY <1>1, <1>3
<1>6. ASSUME s.verdict # "true" PROVE Walked(r, write, mk, d, t, m)
  <2>1. t = s
    BY <1>4, <1>6 DEF Visit
  <2> HIDE DEF t, m
  <2> QED
    BY <1>5, <1>6, <2>1 DEF Walked
<1>7. ASSUME s.verdict = "true" PROVE Walked(r, write, mk, d, t, m)
  <2>1. Made(d, s.dirs, k)
    BY <1>7 DEF Walked
  \* The directory above was made by the turn before, or nothing was made.
  <2>2. s.dirs = d \/ (write /\ up = NewDir /\ d[k].kind = "none")
    <3> SUFFICES ASSUME d[k].kind = "none", s.dirs[k] = NewDir PROVE write
      BY <2>1 DEF Made
    <3>1. k # 1 /\ s.dirs[k] # d[k]
      BY NewDirGrants DEF InPlace
    <3>2. k \in 2..Len(d)
      BY <1>1, <3>1
    <3> QED
      BY <1>3, <3>1, <3>2 DEF Left
  <2>3. /\ t \in Walk
        /\ up.kind = "dir" /\ ~CanSearch(r, up) =>
              t.verdict = "throw" /\ t.dirs = s.dirs
        /\ ~(up.kind = "dir" /\ ~CanSearch(r, up)) =>
              /\ n.kind # "none" =>
                    /\ t.verdict = IF Accepts(n) THEN "true" ELSE "false"
                    /\ t.dirs = s.dirs
              /\ n.kind = "none" /\ (~write \/ ~CanMake(r, up) \/ mk[m] = "error") =>
                    t.verdict = "false" /\ t.dirs = s.dirs
              /\ n.kind = "none" /\ ~(~write \/ ~CanMake(r, up) \/ mk[m] = "error") =>
                    /\ t.verdict = IF mk[m] = "exists" THEN "false" ELSE "true"
                    /\ t.dirs = [s.dirs EXCEPT ![m] = NewDir]
    BY <1>1, <1>2, <1>4, <1>7, VisitCases
  <2> HIDE DEF t, n, up, m
  <2>4. CASE up.kind = "dir" /\ ~CanSearch(r, up)
    <3>1. s.dirs = d
      BY <2>2, <2>4, NewDirGrants
    <3> QED
      BY <1>2, <1>3, <1>5, <2>3, <2>4, <3>1 DEF Walked, Stopped
  <2>5. CASE ~(up.kind = "dir" /\ ~CanSearch(r, up)) /\ n.kind # "none"
    <3>1. d[k].kind = "dir"
      BY <1>1, <1>4, <2>5 DEF InPlace
    <3>2. s.dirs = d
      BY <2>2, <3>1
    <3> QED
      BY <1>2, <1>3, <1>5, <2>3, <2>5, <3>2 DEF Walked, Stopped, Made
  <2>6. CASE /\ ~(up.kind = "dir" /\ ~CanSearch(r, up)) /\ n.kind = "none"
             /\ ~write \/ ~CanMake(r, up) \/ mk[m] = "error"
    <3>1. t.verdict = "false" /\ t.dirs = s.dirs
      BY <2>3, <2>6
    <3>2. Stopped(mk, d, s.dirs)
      <4>1. CASE mk[m] = "error"
        <5>1. m \in Missing(d) /\ mk[m] # "done"
          BY <1>1, <1>4, <2>6, <4>1 DEF Missing
        <5> QED
          BY <1>5, <5>1 DEF Stopped
      <4>2. CASE ~write \/ ~CanMake(r, up)
        BY <2>2, <4>2, NewDirGrants DEF Stopped
      <4> QED
        BY <2>6, <4>1, <4>2
    <3>3. t.verdict # "true"
      BY <3>1
    <3> QED
      BY <1>2, <1>3, <1>5, <2>3, <3>1, <3>2, <3>3 DEF Walked
  <2>7. CASE /\ ~(up.kind = "dir" /\ ~CanSearch(r, up)) /\ n.kind = "none"
             /\ ~(~write \/ ~CanMake(r, up) \/ mk[m] = "error")
    <3> DEFINE e == [s.dirs EXCEPT ![m] = NewDir]
    <3>1. /\ t.dirs = e /\ t.verdict \in {"true", "false"}
          /\ t.verdict = "false" => mk[m] = "exists"
      BY <2>3, <2>7
    <3>2. e[m] = NewDir /\ Len(e) = Len(d) /\ e \in Seq(Node)
          /\ \A j \in 1..Len(d) : j # m => e[j] = s.dirs[j]
      <4>1. s.dirs \in Seq(Node) /\ m \in 1..Len(s.dirs) /\ NewDir \in Node
        BY <1>1, <1>2, NewDirGrants
      <4>2. /\ e \in Seq(Node) /\ Len(e) = Len(s.dirs)
            /\ \A j \in 1..Len(s.dirs) : e[j] = IF j = m THEN NewDir ELSE s.dirs[j]
        BY <4>1, ExceptSeq
      <4> QED
        BY <1>1, <1>2, <4>2
    <3> HIDE DEF e
    <3>3. CanMake(r, up) /\ up.kind = "dir" /\ e[k] = up /\ d[m].kind = "none" /\ write
      BY <1>1, <1>4, <2>7, <3>2 DEF CanMake, CanSearch, up
    <3>4. InPlace(e)
      <4>1. Len(e) > 1 /\ e[1].kind = "dir"
        <5>1. 1 \in 1..Len(d) /\ 1 # m
          BY <1>1
        <5> QED
          BY <1>2, <3>2, <5>1 DEF InPlace
      <4>2. ASSUME NEW j \in 2..Len(e), e[j].kind # "none" PROVE e[j - 1].kind = "dir"
        <5>1. j \in 2..Len(d) /\ j \in 1..Len(d) /\ j - 1 \in 1..Len(d)
          BY <3>2, <1>1
        <5>2. CASE j = m
          BY <1>1, <3>3, <5>2
        <5>3. CASE j - 1 = m
          BY <3>2, <5>3, NewDirGrants
        <5>4. CASE j # m /\ j - 1 # m
          BY <1>2, <3>2, <4>2, <5>1, <5>4 DEF InPlace
        <5> QED
          BY <5>2, <5>3, <5>4
      <4> QED
        BY <4>1, <4>2 DEF InPlace
    <3>5. Left(r, write, d, e)
      <4>1. e[1] = d[1]
        <5>1. 1 \in 1..Len(d) /\ 1 # m
          BY <1>1
        <5> QED
          BY <1>3, <3>2, <5>1 DEF Left
      <4>2. ASSUME NEW j \in 2..Len(d), e[j] # d[j]
            PROVE  write /\ d[j].kind = "none" /\ e[j] = NewDir /\ CanMake(r, e[j - 1])
        <5>1. CASE j = m
          BY <1>1, <3>2, <3>3, <5>1
        <5>2. CASE j # m
          <6>1. e[j] = s.dirs[j] /\ j \in 1..Len(d) /\ j - 1 \in 1..Len(d)
            BY <1>1, <3>2, <5>2
          \* Below the m-th nothing has been made yet.
          <6>2. j - 1 # m
            <7> SUFFICES ASSUME j - 1 = m PROVE FALSE
              OBVIOUS
            <7>1. j \in (m + 1)..Len(d)
              BY <1>1
            <7> QED
              BY <1>5, <4>2, <6>1, <7>1
          <6> QED
            BY <1>3, <3>2, <4>2, <6>1, <6>2 DEF Left
        <5> QED
          BY <5>1, <5>2
      <4> QED
        BY <4>1, <4>2 DEF Left
    <3>6. \A j \in (m + 1)..Len(d) : e[j] = d[j]
      <4>1. \A j \in (m + 1)..Len(d) : j # m /\ j \in 1..Len(d)
        BY <1>1
      <4> QED
        BY <1>5, <3>2, <4>1
    <3>7. Made(d, e, m)
      BY <3>2, <3>3 DEF Made
    <3>8. t.verdict # "true" => Stopped(mk, d, e)
      <4> SUFFICES ASSUME t.verdict = "false" PROVE Stopped(mk, d, e)
        BY <3>1
      <4>1. m \in Missing(d) /\ mk[m] # "done"
        BY <1>1, <1>4, <3>1, <3>3 DEF Missing
      <4> QED
        BY <3>6, <4>1 DEF Stopped
    <3> QED
      BY <2>3, <3>1, <3>2, <3>4, <3>5, <3>6, <3>7, <3>8 DEF Walked
  <2> QED
    BY <2>4, <2>5, <2>6, <2>7
<1> QED
  BY <1>6, <1>7

\* Where checkPath begins is walked.
LEMMA BeginWalks ==
    ASSUME NEW r, NEW write, NEW mk, NEW d \in Seq(Node), InPlace(d)
    PROVE  Walked(r, write, mk, d, Turn(r, write, mk, Begin(d), 1), 1)
<1>1. Turn(r, write, mk, Begin(d), 1) = Begin(d)
  BY DEF Turn
<1>2. Begin(d) \in Walk /\ Begin(d).dirs = d /\ Begin(d).verdict = "true"
  BY DEF Begin, Walk, Verdict
<1> QED
  BY <1>1, <1>2 DEF Walked, Left, Made

\* The states of checkPath's loop.
Runs(g, r, write, mk, d) ==
    /\ g[0] = Begin(d)
    /\ \A k \in 1..Len(d) : g[k] = Turn(r, write, mk, g[k - 1], k)
    /\ CheckPath(r, d, write, mk) = g[Len(d)]

\* Each of them is walked.
LEMMA RunWalks ==
    ASSUME NEW r, NEW write, NEW mk, NEW d \in Seq(Node), InPlace(d), NEW g,
           Runs(g, r, write, mk, d), NEW k \in 1..Len(d)
    PROVE  Walked(r, write, mk, d, g[k], k)
<1>1. Len(d) \in Nat /\ Len(d) > 1
  BY DEF InPlace
<1> DEFINE T == {i \in 1..Len(d) : ~Walked(r, write, mk, d, g[i], i)}
<1>2. T = {}
  <2> SUFFICES ASSUME T # {} PROVE FALSE
    OBVIOUS
  <2>1. T \subseteq Nat
    OBVIOUS
  <2>2. PICK m \in T : \A i \in T : m <= i
    <3> HIDE DEF T
    <3> QED
      BY <2>1, LeastNatural
  <2>3. m \in 1..Len(d) /\ ~Walked(r, write, mk, d, g[m], m)
    OBVIOUS
  <2>4. CASE m = 1
    <3>1. g[1] = Turn(r, write, mk, Begin(d), 1)
      <4>1. 1 \in 1..Len(d) /\ 1 - 1 = 0
        BY <1>1
      <4> QED
        BY <4>1 DEF Runs
    <3> QED
      BY <2>3, <2>4, <3>1, BeginWalks
  <2>5. CASE m # 1
    <3> DEFINE i == m - 1
    <3>1. i \in 1..Len(d) /\ i \in 1..(Len(d) - 1) /\ m = i + 1 /\ ~(m <= i)
      BY <1>1, <2>3, <2>5
    <3>2. g[m] = Turn(r, write, mk, g[i], m)
      BY <2>3 DEF Runs
    <3> HIDE DEF i
    <3>3. Walked(r, write, mk, d, g[i], i)
      BY <2>2, <3>1
    <3>4. Walked(r, write, mk, d, g[i + 1], i + 1)
      BY <3>1, <3>2, <3>3, TurnWalks
    <3> QED
      BY <2>3, <3>1, <3>4
  <2> QED
    BY <2>4, <2>5
<1> QED
  BY <1>2

\* What checkPath makes of a path.
LEMMA CheckPathWalks ==
    ASSUME NEW r, NEW write, NEW mk, NEW d \in Seq(Node), InPlace(d)
    PROVE  Walked(r, write, mk, d, CheckPath(r, d, write, mk), Len(d))
<1>1. PICK g : Runs(g, r, write, mk, d)
  BY CheckPathRuns DEF Runs
<1>2. Len(d) \in 1..Len(d)
  BY DEF InPlace
<1>3. CheckPath(r, d, write, mk) = g[Len(d)]
  BY <1>1 DEF Runs
<1> QED
  BY <1>1, <1>2, <1>3, RunWalks

-----------------------------------------------------------------------------
(* Trying again.                                                           *)

\* Two runs of checkPath that agree so far, and where they are.
Agree(s, t, k) == s.verdict = t.verdict /\ (s.verdict = "true" => s.dirs[k] = t.dirs[k])

\* A turn on the path as it was, d, and one on what an earlier run left of it, e.
LEMMA TurnAgrees ==
    ASSUME NEW r, NEW write, NEW mk, NEW d \in Seq(Node), NEW e \in Seq(Node),
           InPlace(d), InPlace(e), Len(e) = Len(d), Left(r, write, d, e),
           \A j \in Missing(d) : mk[j] = "done", NEW s, NEW t,
           NEW k \in 1..(Len(d) - 1), Walked(r, write, mk, d, s, k),
           Walked(r, write, mk, e, t, k), Agree(s, t, k)
    PROVE  Agree(Turn(r, write, mk, s, k + 1), Turn(r, write, mk, t, k + 1), k + 1)
<1> DEFINE m == k + 1
           up == s.dirs[k]
           s2 == Turn(r, write, mk, s, m)
           t2 == Turn(r, write, mk, t, m)
<1>1. /\ m \in 2..Len(d) /\ k \in 1..Len(d) /\ m - 1 = k /\ m # 1 /\ m \in 1..Len(d)
      /\ m \in (k + 1)..Len(d) /\ Len(d) \in Nat
  OBVIOUS
<1>2. /\ s \in Walk /\ t \in Walk /\ Len(s.dirs) = Len(d) /\ Len(t.dirs) = Len(d)
      /\ s.dirs[m] = d[m] /\ t.dirs[m] = e[m] /\ Left(r, write, e, t.dirs)
  BY <1>1 DEF Walked
<1>3. s2 = Visit(r, write, mk, s, m) /\ t2 = Visit(r, write, mk, t, m)
  BY <1>1 DEF Turn
<1>4. ASSUME s.verdict # "true" PROVE Agree(s2, t2, m)
  BY <1>3, <1>4 DEF Visit, Agree
<1>5. ASSUME s.verdict = "true" PROVE Agree(s2, t2, m)
  <2>1. t.verdict = "true" /\ t.dirs[k] = up
    BY <1>5 DEF Agree
  <2>2. LET n == d[m] IN
        /\ up.kind = "dir" /\ ~CanSearch(r, up) => s2.verdict = "throw"
        /\ ~(up.kind = "dir" /\ ~CanSearch(r, up)) =>
              /\ n.kind # "none" =>
                    /\ s2.verdict = IF Accepts(n) THEN "true" ELSE "false"
                    /\ s2.dirs = s.dirs
              /\ n.kind = "none" /\ (~write \/ ~CanMake(r, up) \/ mk[m] = "error") =>
                    s2.verdict = "false"
              /\ n.kind = "none" /\ ~(~write \/ ~CanMake(r, up) \/ mk[m] = "error") =>
                    /\ s2.verdict = IF mk[m] = "exists" THEN "false" ELSE "true"
                    /\ s2.dirs = [s.dirs EXCEPT ![m] = NewDir]
    BY <1>1, <1>2, <1>3, <1>5, VisitCases
  <2>3. LET n == e[m] IN
        /\ up.kind = "dir" /\ ~CanSearch(r, up) => t2.verdict = "throw"
        /\ ~(up.kind = "dir" /\ ~CanSearch(r, up)) =>
              /\ n.kind # "none" =>
                    /\ t2.verdict = IF Accepts(n) THEN "true" ELSE "false"
                    /\ t2.dirs = t.dirs
              /\ n.kind = "none" /\ (~write \/ ~CanMake(r, up) \/ mk[m] = "error") =>
                    t2.verdict = "false"
              /\ n.kind = "none" /\ ~(~write \/ ~CanMake(r, up) \/ mk[m] = "error") =>
                    /\ t2.verdict = IF mk[m] = "exists" THEN "false" ELSE "true"
                    /\ t2.dirs = [t.dirs EXCEPT ![m] = NewDir]
    BY <1>1, <1>2, <1>3, <2>1, VisitCases, SMTT(30)
  <2>4. d[m].kind = "none" => mk[m] = "done"
    BY <1>1 DEF Missing
  <2>5. \A x : [s.dirs EXCEPT ![m] = x][m] = x /\ [t.dirs EXCEPT ![m] = x][m] = x
    BY <1>1, <1>2 DEF Walk
  <2> HIDE DEF s2, t2, up, m
  <2>6. CASE d[m] = e[m]
    <3>1. CASE up.kind = "dir" /\ ~CanSearch(r, up)
      BY <2>2, <2>3, <3>1 DEF Agree
    <3>2. CASE ~(up.kind = "dir" /\ ~CanSearch(r, up)) /\ d[m].kind # "none"
      <4>1. s2.dirs = s.dirs /\ t2.dirs = t.dirs /\ s2.verdict = t2.verdict
        BY <2>2, <2>3, <2>6, <3>2
      <4> QED
        BY <1>2, <2>6, <4>1 DEF Agree
    <3>3. CASE /\ ~(up.kind = "dir" /\ ~CanSearch(r, up)) /\ d[m].kind = "none"
               /\ ~write \/ ~CanMake(r, up) \/ mk[m] = "error"
      <4>1. s2.verdict = "false" /\ t2.verdict = "false"
        BY <2>2, <2>3, <2>6, <3>3
      <4> QED
        BY <4>1 DEF Agree
    <3>4. CASE /\ ~(up.kind = "dir" /\ ~CanSearch(r, up)) /\ d[m].kind = "none"
               /\ ~(~write \/ ~CanMake(r, up) \/ mk[m] = "error")
      <4>1. /\ s2.dirs = [s.dirs EXCEPT ![m] = NewDir] /\ s2.verdict = t2.verdict
            /\ t2.dirs = [t.dirs EXCEPT ![m] = NewDir]
        BY <2>2, <2>3, <2>6, <3>4
      <4>2. s2.dirs[m] = NewDir /\ t2.dirs[m] = NewDir
        BY <2>5, <4>1
      <4> QED
        BY <4>1, <4>2 DEF Agree
    <3> QED
      BY <3>1, <3>2, <3>3, <3>4
  <2>7. CASE d[m] # e[m]
    <3>1. write /\ d[m].kind = "none" /\ e[m] = NewDir /\ CanMake(r, e[k])
      BY <1>1, <2>7 DEF Left
    \* What is above it is there, so that neither run changes it.
    <3>2. t.dirs[k] = e[k]
      <4>1. e[k].kind = "dir"
        BY <3>1 DEF CanMake, CanSearch
      <4>2. k = 1 \/ k \in 2..Len(e)
        BY <1>1
      <4> QED
        BY <1>2, <4>1, <4>2 DEF Left
    <3>3. CanMake(r, up) /\ CanSearch(r, up)
      BY <2>1, <3>1, <3>2 DEF CanMake
    <3>4. /\ s2.verdict = "true" /\ s2.dirs[m] = NewDir
      BY <2>2, <2>4, <2>5, <3>1, <3>3
    <3>5. t2.verdict = "true" /\ t2.dirs[m] = NewDir
      BY <1>2, <2>3, <3>1, <3>3, NewDirGrants
    <3> QED
      BY <3>4, <3>5 DEF Agree
  <2> QED
    BY <2>6, <2>7
<1> QED
  BY <1>4, <1>5

\* So a run that meets no trouble comes to the same verdict on both.
LEMMA RetryAgrees ==
    ASSUME NEW r, NEW write, NEW mk, NEW d \in Seq(Node), NEW e \in Seq(Node),
           InPlace(d), InPlace(e), Len(e) = Len(d), Left(r, write, d, e),
           \A j \in Missing(d) : mk[j] = "done"
    PROVE  CheckPath(r, e, write, mk).verdict = CheckPath(r, d, write, mk).verdict
<1>1. PICK g : Runs(g, r, write, mk, d)
  BY CheckPathRuns DEF Runs
<1>2. PICK h : Runs(h, r, write, mk, e)
  BY CheckPathRuns DEF Runs
<1>3. Len(d) \in Nat /\ Len(d) > 1
  BY DEF InPlace
<1> DEFINE T == {i \in 1..Len(d) : ~Agree(g[i], h[i], i)}
<1>4. T = {}
  <2> SUFFICES ASSUME T # {} PROVE FALSE
    OBVIOUS
  <2>1. T \subseteq Nat
    OBVIOUS
  <2>2. PICK m \in T : \A i \in T : m <= i
    <3> HIDE DEF T
    <3> QED
      BY <2>1, LeastNatural
  <2>3. m \in 1..Len(d) /\ ~Agree(g[m], h[m], m)
    OBVIOUS
  <2>4. CASE m = 1
    <3>1. 1 \in 1..Len(d) /\ 1 - 1 = 0
      BY <1>3
    <3>2. g[1] = Begin(d) /\ h[1] = Begin(e)
      BY <1>1, <1>2, <3>1 DEF Runs, Turn
    <3>3. Agree(g[1], h[1], 1)
      BY <3>2 DEF Agree, Begin, Left
    <3> QED
      BY <2>3, <2>4, <3>3
  <2>5. CASE m # 1
    <3> DEFINE i == m - 1
    <3>1. i \in 1..Len(d) /\ i \in 1..(Len(d) - 1) /\ m = i + 1 /\ ~(m <= i)
      BY <1>3, <2>3, <2>5
    <3>2. g[m] = Turn(r, write, mk, g[i], m) /\ h[m] = Turn(r, write, mk, h[i], m)
      BY <1>1, <1>2, <2>3 DEF Runs
    <3> HIDE DEF i
    <3>3. Agree(g[i], h[i], i)
      BY <2>2, <3>1
    <3>4. Walked(r, write, mk, d, g[i], i) /\ Walked(r, write, mk, e, h[i], i)
      BY <1>1, <1>2, <3>1, RunWalks
    <3>5. Agree(g[i + 1], h[i + 1], i + 1)
      BY <3>1, <3>2, <3>3, <3>4, TurnAgrees
    <3> QED
      BY <2>3, <3>1, <3>5
  <2> QED
    BY <2>4, <2>5
<1>5. Agree(g[Len(d)], h[Len(d)], Len(d))
  BY <1>3, <1>4
<1> QED
  BY <1>1, <1>2, <1>5 DEF Runs, Agree

-----------------------------------------------------------------------------
(* The steps of Load.                                                      *)

\* Every path is one of a disk.
DiskOK ==
    /\ dirs \in [PathName -> Seq(Node)]
    /\ \A p \in PathName : InPlace(dirs[p])

\* Where Load has not come to the end of the socket's element, of the first and the
\* second section, of geocity_path, lock_file and pid_file.
BeforeChildren == {"open", "mongo", "geocity", "geocountry", "socket"}
AfterPid     == {"time", "cookie", "log"}
AfterLock    == AfterPid \cup {"pid"}
AfterGeoCity == AfterLock \cup {"geocountry", "socket", "children", "lock"}
AfterMongo   == AfterGeoCity \cup {"geocity"}
AfterOpen    == AfterMongo \cup {"mongo"}

\* The old socket is gone if its directory let checkPath remove it.
SocketGone ==
    /\ pc \in BeforeChildren => "socket" \notin passed
    /\ "socket" \in passed /\ CanMake(root, Last(dirs["socket"])) => ~socketFile

\* Nothing has been set or accepted.
Blank ==
    /\ ~mIsInited /\ passed = {}
    /\ server_children_ = {} /\ time_update_ = {} /\ cookie_ = {}
    /\ \A f \in LogFlag : flags[f] = {}

\* Load has come as far as it has because the file has what it asks for.
Whole ==
    /\ pc \in AfterOpen \/ mIsInited => file.xml /\ file.root /\ file.id
    /\ pc \in AfterMongo \/ mIsInited => file.mongo /\ file.mongo_log /\ file.server
    /\ pc \in AfterGeoCity \/ mIsInited => "geocity" \notin file.paths \ passed
    /\ pc \in AfterLock \/ mIsInited => "lock" \notin file.paths \ passed
    /\ pc \in AfterPid \/ mIsInited => "pid" \notin file.paths \ passed
    /\ pc = "open" => Blank
    /\ pc \in {"main", "serve", "pid printed", "Config: Ok"} /\ ~mIsInited =>
          ~file.regular /\ Blank

\* What has been read: by then nothing the file gives is left unset.
Read ==
    /\ pc \in {"lock", "pid", "time", "cookie", "log"} \/ mIsInited =>
          (server_children_ = {} => file.children = {})
    /\ pc \in {"cookie", "log"} \/ mIsInited =>
          (time_update_ = {} => file.time_update = {})
    /\ mIsInited => \A f \in LogFlag : flags[f] = {} => \E l \in file.log : l[f] = {}
    /\ cookie_ \in {{}, CookieField}

\* The inductive invariant.
CInv == DiskOK /\ SocketGone /\ Read /\ Whole

\* What one checked path, p, does to the disk and to the accepted paths.
Checked(p, write, mk) ==
    LET c == CheckPath(root, dirs[p], write, mk) IN
    /\ dirs' = [dirs EXCEPT ![p] = c.dirs]
    /\ passed' = IF c.verdict = "true" THEN passed \cup {p} ELSE passed
    /\ root' = root

\* It leaves a path in place, and the others as they are.
LEMMA CheckedKeeps ==
    ASSUME DiskOK, NEW p \in PathName, NEW write, NEW mk, Checked(p, write, mk)
    PROVE  /\ DiskOK'
           /\ \A q \in PathName : q # p => dirs'[q] = dirs[q]
           /\ dirs'[p] = CheckPath(root, dirs[p], write, mk).dirs
           /\ passed \subseteq passed' /\ passed' \subseteq passed \cup {p}
<1> DEFINE d == dirs[p]
           c == CheckPath(root, d, write, mk)
<1>1. d \in Seq(Node) /\ InPlace(d) /\ DOMAIN dirs = PathName
  BY DEF DiskOK
<1>2. Walked(root, write, mk, d, c, Len(d))
  BY <1>1, CheckPathWalks
<1>3. /\ dirs' = [dirs EXCEPT ![p] = c.dirs] /\ root' = root
      /\ passed' = IF c.verdict = "true" THEN passed \cup {p} ELSE passed
  BY DEF Checked
<1> HIDE DEF c
<1>4. c.dirs \in Seq(Node) /\ InPlace(c.dirs)
  BY <1>2 DEF Walked, Walk
<1>5. dirs'[p] = c.dirs /\ \A q \in PathName : q # p => dirs'[q] = dirs[q]
  BY <1>1, <1>3
<1>6. dirs' \in [PathName -> Seq(Node)]
  BY <1>3, <1>4 DEF DiskOK
<1>7. DiskOK'
  BY <1>4, <1>5, <1>6 DEF DiskOK
<1> QED
  BY <1>3, <1>5, <1>7 DEF c

\* The names of the paths.
LEMMA PathNames == {"geocity", "socket", "lock", "pid"} \subseteq PathName
BY DEF PathName

\* The socket's path.
LEMMA SocketChecked ==
    ASSUME DiskOK, NEW mk, Checked("socket", TRUE, mk)
    PROVE  /\ DiskOK' /\ dirs'["socket"] = CheckPath(root, dirs["socket"], TRUE, mk).dirs
           /\ passed \subseteq passed' /\ passed' \subseteq passed \cup {"socket"}
<1>1. "socket" \in PathName
  BY PathNames
<1>2. ASSUME NEW write, Checked("socket", write, mk)
      PROVE  /\ DiskOK' /\ dirs'["socket"] = CheckPath(root, dirs["socket"], write, mk).dirs
             /\ passed \subseteq passed' /\ passed' \subseteq passed \cup {"socket"}
  BY <1>1, <1>2, CheckedKeeps
<1>3. PICK write : write = TRUE
  OBVIOUS
<1>4. Checked("socket", write, mk)
  BY <1>3
<1>5. /\ DiskOK' /\ dirs'["socket"] = CheckPath(root, dirs["socket"], write, mk).dirs
      /\ passed \subseteq passed' /\ passed' \subseteq passed \cup {"socket"}
  BY <1>2, <1>4
<1> QED
  BY <1>3, <1>5

\* An element with a path, other than the socket's, keeps the invariant.
LEMMA PathStep ==
    ASSUME CInv, NEW p \in PathName, p # "socket", NEW write \in BOOLEAN, NEW next,
           Path(p, write, next),
           \/ p = "geocity" /\ next = "geocountry"
           \/ p = "lock" /\ next = "pid"
           \/ p = "pid" /\ next = "time"
    PROVE  CInv'
<1>1. pc = p /\ UNCHANGED <<file, root, socketFile, mIsInited, server_children_,
                            time_update_, flags, cookie_>>
  BY DEF Path, input, fields
<1>2. UNCHANGED <<dirs, passed>> \/ \E mk : Checked(p, write, mk)
  <2>1. CASE p \notin file.paths
    BY <2>1 DEF Path
  <2>2. CASE p \in file.paths
    <3>1. PICK mk \in [Missing(dirs[p]) -> Mkdir] :
            LET c == CheckPath(root, dirs[p], write, mk) IN
            /\ dirs' = [dirs EXCEPT ![p] = c.dirs]
            /\ passed' = IF c.verdict = "true" THEN passed \cup {p} ELSE passed
      BY <2>2 DEF Path
    <3>2. Checked(p, write, mk)
      BY <1>1, <3>1 DEF Checked
    <3> QED
      BY <3>2
  <2> QED
    BY <2>1, <2>2
<1>3. /\ DiskOK' /\ dirs'["socket"] = dirs["socket"]
      /\ passed \subseteq passed' /\ passed' \subseteq passed \cup {p}
  <2>1. CASE UNCHANGED <<dirs, passed>>
    BY <1>1, <2>1 DEF CInv, DiskOK
  <2>2. ASSUME NEW mk, Checked(p, write, mk)
        PROVE  /\ DiskOK' /\ dirs'["socket"] = dirs["socket"]
               /\ passed \subseteq passed' /\ passed' \subseteq passed \cup {p}
    BY <2>2, CheckedKeeps, PathNames DEF CInv
  <2> QED
    BY <1>2, <2>1, <2>2
\* The process goes on only with a path that was accepted.
<1>4. /\ pc' \in {next, "exited", "terminated"}
      /\ pc' = next => p \notin file.paths \ passed'
  <2>1. next \notin {"exited", "terminated"}
    OBVIOUS
  <2>2. CASE p \notin file.paths
    BY <2>2 DEF Path
  <2>3. CASE p \in file.paths
    <3>1. PICK mk \in [Missing(dirs[p]) -> Mkdir] :
            LET c == CheckPath(root, dirs[p], write, mk) IN
            /\ passed' = IF c.verdict = "true" THEN passed \cup {p} ELSE passed
            /\ CASE c.verdict = "true"  -> pc' = next
                 [] c.verdict = "false" -> Exit
                 [] OTHER -> Terminate
      BY <2>3 DEF Path
    <3> DEFINE c == CheckPath(root, dirs[p], write, mk)
    <3>2. CASE c.verdict = "true"
      BY <3>1, <3>2
    <3>3. CASE c.verdict = "false"
      BY <2>1, <3>1, <3>3 DEF Exit
    <3>4. CASE c.verdict # "true" /\ c.verdict # "false"
      BY <2>1, <3>1, <3>4 DEF Terminate
    <3> QED
      BY <3>2, <3>3, <3>4
  <2> QED
    BY <2>2, <2>3
<1>5. SocketGone'
  <2>1. "socket" \in passed' => "socket" \in passed
    BY <1>3
  <2>2. Last(dirs'["socket"]) = Last(dirs["socket"])
    BY <1>3
  <2>3. pc' \in BeforeChildren => pc \in BeforeChildren
    BY <1>1, <1>4 DEF BeforeChildren
  <2> QED
    BY <1>1, <2>1, <2>2, <2>3 DEF CInv, SocketGone
<1>6. Read'
  BY <1>1, <1>4 DEF CInv, Read
<1>7. Whole'
  BY <1>1, <1>3, <1>4
     DEF CInv, Whole, AfterOpen, AfterMongo, AfterGeoCity, AfterLock, AfterPid
<1> QED
  BY <1>3, <1>5, <1>6, <1>7 DEF CInv

\* So does a step that touches neither the disk nor the accepted paths.
LEMMA DiskFrame ==
    ASSUME DiskOK, SocketGone, UNCHANGED <<root, dirs, socketFile, passed>>,
           pc' \in BeforeChildren => pc \in BeforeChildren
    PROVE  DiskOK' /\ SocketGone'
BY DEF DiskOK, SocketGone

\* A text that is there sets its flag.
LEMMA TextSetsFlag ==
    ASSUME LogSection, NEW f \in LogFlag, flags'[f] = {}
    PROVE  \E l \in file.log : l[f] = {}
<1> DEFINE text == CHOOSE l \in file.log : TRUE
<1>1. \A T : T # {} => On(T) # {}
  BY DEF On
<1>2. flags'[f] = IF file.log = {} THEN {FALSE}
                  ELSE IF f = "monitor" /\ text["commands"] # {}
                       THEN On(text["commands"])
                  ELSE IF text[f] # {} THEN On(text[f]) ELSE flags[f]
  BY DEF LogSection
<1>3. file.log # {} => text \in file.log
  OBVIOUS
<1> HIDE DEF text
<1> QED
  BY <1>1, <1>2, <1>3

\* Every step keeps the invariant.
LEMMA CStep == ASSUME CInv, [Next]_vars PROVE CInv'
<1> USE DEF vars, input, disk, fields
<1>0. DiskOK /\ SocketGone /\ Read /\ Whole
  BY DEF CInv
<1>1. CASE Open \/ Mongo \/ GeoCountry \/ Main \/ UNCHANGED vars
  <2>1. UNCHANGED <<file, root, dirs, socketFile, mIsInited, passed,
                    server_children_, time_update_, flags, cookie_>>
    BY <1>1, Zenon DEF Open, Mongo, GeoCountry, Main
  <2>2. pc' = pc \/ pc' \notin {"lock", "pid", "time", "cookie", "log"}
    <3>1. CASE Main
      <4>1. \/ pc' = "Config: Ok" \/ pc' = "pid printed" \/ pc' = "serve"
        BY <3>1, Zenon DEF Main
      <4> QED
        BY <4>1, Zenon
    <3>2. CASE Open \/ Mongo \/ GeoCountry \/ UNCHANGED vars
      BY <3>2 DEF Open, Mongo, GeoCountry, Exit, Terminate
    <3> QED
      BY <1>1, <3>1, <3>2
  <2>3. Read'
    BY <1>0, <2>1, <2>2 DEF Read
  <2>4. Whole'
    <3>1. CASE Main
      <4>1. pc = "main" /\ pc' \in {"serve", "pid printed", "Config: Ok"}
        <5>1. \/ pc' = "Config: Ok" \/ pc' = "pid printed" \/ pc' = "serve"
          BY <3>1, Zenon DEF Main
        <5>2. pc = "main"
          BY <3>1, Zenon DEF Main
        <5> QED
          BY <5>1, <5>2, Zenon
      <4> QED
        BY <1>0, <2>1, <4>1 DEF Whole, Blank, AfterOpen, AfterMongo, AfterGeoCity,
                                AfterLock, AfterPid
    <3>2. CASE Open
      <4>1. /\ pc = "open" /\ Blank
            /\ pc' \in {"main", "exited", "terminated", "mongo"}
            /\ pc' = "main" => ~file.regular
            /\ pc' = "mongo" => file.xml /\ file.root /\ file.id
        BY <1>0, <3>2 DEF Open, Exit, Terminate, Whole
      <4>2. Blank'
        BY <2>1, <4>1 DEF Blank
      <4> QED
        BY <1>0, <2>1, <4>1, <4>2 DEF Whole, AfterOpen, AfterMongo, AfterGeoCity,
                                      AfterLock, AfterPid
    <3>3. CASE Mongo
      <4>1. /\ pc = "mongo" /\ pc' \in {"geocity", "exited"}
            /\ pc' = "geocity" => file.mongo /\ file.mongo_log /\ file.server
        BY <3>3 DEF Mongo, Exit
      <4> QED
        BY <1>0, <2>1, <4>1 DEF Whole, AfterOpen, AfterMongo, AfterGeoCity, AfterLock,
                                AfterPid
    <3>4. CASE GeoCountry
      <4>1. pc = "geocountry" /\ pc' \in {"socket", "terminated"}
        BY <3>4 DEF GeoCountry, Terminate
      <4> QED
        BY <1>0, <2>1, <4>1 DEF Whole, AfterOpen, AfterMongo, AfterGeoCity, AfterLock,
                                AfterPid
    <3>5. CASE UNCHANGED vars
      <4>1. pc' = pc
        BY <3>5
      <4> QED
        BY <1>0, <2>1, <4>1, Zenon DEF Whole, Blank
    <3> QED
      BY <1>1, <3>1, <3>2, <3>3, <3>4, <3>5
  <2>5. pc' \in BeforeChildren => pc \in BeforeChildren
    <3>1. CASE Main
      <4>1. \/ pc' = "Config: Ok" \/ pc' = "pid printed" \/ pc' = "serve"
        BY <3>1, Zenon DEF Main
      <4> QED
        BY <4>1 DEF BeforeChildren
    <3>2. CASE Open \/ Mongo \/ GeoCountry \/ UNCHANGED vars
      BY <3>2 DEF Open, Mongo, GeoCountry, Exit, Terminate, BeforeChildren
    <3> QED
      BY <1>1, <3>1, <3>2
  <2> QED
    BY <1>0, <2>1, <2>3, <2>4, <2>5, DiskFrame DEF CInv
<1>2. CASE GeoCity \/ Lock \/ Pid
  <2>1. CASE GeoCity
    <3>1. Path("geocity", FALSE, "geocountry") /\ pc = "geocity"
      BY <2>1 DEF GeoCity, Path
    <3> QED
      BY <3>1, PathStep, PathNames
  <2>2. CASE Lock
    <3>1. Path("lock", TRUE, "pid") /\ pc = "lock"
      BY <2>2 DEF Lock, Path
    <3> QED
      BY <3>1, PathStep, PathNames
  <2>3. CASE Pid
    <3>1. Path("pid", TRUE, "time") /\ pc = "pid"
      BY <2>3 DEF Pid, Path
    <3> QED
      BY <3>1, PathStep, PathNames
  <2> QED
    BY <1>2, <2>1, <2>2, <2>3
<1>3. CASE Socket
  <2>1. /\ pc = "socket"
        /\ UNCHANGED <<file, root, mIsInited, server_children_, time_update_, flags,
                       cookie_>>
    BY <1>3 DEF Socket
  <2>2. pc' \in {"children", "terminated"}
    BY <1>3 DEF Socket, Terminate
  <2>3. Read'
    BY <1>0, <2>1, <2>2 DEF Read
  <2>4. CASE UNCHANGED <<disk, passed>>
    <3>1. Whole'
      BY <1>0, <2>1, <2>2, <2>4
         DEF Whole, AfterOpen, AfterMongo, AfterGeoCity, AfterLock, AfterPid
    <3>2. pc' \in BeforeChildren => pc \in BeforeChildren
      BY <2>2 DEF BeforeChildren
    <3> QED
      BY <1>0, <2>1, <2>3, <2>4, <3>1, <3>2, DiskFrame DEF CInv
  <2>5. CASE "socket" \in file.paths
    <3>1. PICK mk \in [Missing(dirs["socket"]) -> Mkdir] :
            LET c == CheckPath(root, dirs["socket"], TRUE, mk) IN
            /\ dirs' = [dirs EXCEPT !["socket"] = c.dirs]
            /\ socketFile' = (socketFile /\ ~(c.verdict = "true"
                                             /\ CanMake(root, Last(c.dirs))))
            /\ passed' = IF c.verdict = "true" THEN passed \cup {"socket"} ELSE passed
      BY <1>3, <2>5 DEF Socket
    <3> DEFINE c == CheckPath(root, dirs["socket"], TRUE, mk)
    <3>2. Checked("socket", TRUE, mk)
      BY <2>1, <3>1 DEF Checked
    <3>3. DiskOK' /\ dirs'["socket"] = c.dirs /\ passed \subseteq passed'
          /\ passed' \subseteq passed \cup {"socket"}
      BY <1>0, <3>2, SocketChecked DEF c
    <3>4. /\ socketFile' = (socketFile /\ ~(c.verdict = "true"
                                           /\ CanMake(root, Last(c.dirs))))
          /\ c.verdict # "true" => passed' = passed
      BY <3>1
    <3> HIDE DEF c
    <3>5. "socket" \notin passed
      BY <1>0, <2>1 DEF SocketGone, BeforeChildren
    <3>6. SocketGone'
      <4>1. "socket" \in passed' /\ CanMake(root', Last(dirs'["socket"])) => ~socketFile'
        <5>1. CASE c.verdict = "true"
          BY <2>1, <3>3, <3>4, <5>1
        <5>2. CASE c.verdict # "true"
          BY <3>4, <3>5, <5>2
        <5> QED
          BY <5>1, <5>2
      <4> QED
        BY <2>2, <4>1 DEF SocketGone, BeforeChildren
    <3>7. Whole'
      BY <1>0, <2>1, <2>2, <3>3
         DEF Whole, AfterOpen, AfterMongo, AfterGeoCity, AfterLock, AfterPid
    <3> QED
      BY <2>3, <3>3, <3>6, <3>7 DEF CInv
  <2> QED
    BY <1>3, <2>4, <2>5 DEF Socket
<1>4. CASE Children
  <2>1. UNCHANGED <<file, root, dirs, socketFile, mIsInited, passed, time_update_,
                    flags, cookie_>> /\ pc = "children"
    BY <1>4 DEF Children
  <2>2. pc' = "lock" /\ (server_children_' = {} => file.children = {})
    BY <1>4 DEF Children
  <2>3. Read'
    BY <1>0, <2>1, <2>2 DEF Read
  <2>4. Whole' /\ (pc' \in BeforeChildren => pc \in BeforeChildren)
    BY <1>0, <2>1, <2>2 DEF Whole, AfterOpen, AfterMongo, AfterGeoCity, AfterLock,
                            AfterPid, BeforeChildren
  <2> QED
    BY <1>0, <2>1, <2>3, <2>4, DiskFrame DEF CInv
<1>5. CASE TimeUpdate
  <2>1. UNCHANGED <<file, root, dirs, socketFile, mIsInited, passed,
                    server_children_, flags, cookie_>> /\ pc = "time"
    BY <1>5 DEF TimeUpdate
  <2>2. /\ pc' \in {"exited", "cookie"}
        /\ time_update_' = {} => file.time_update = {}
    <3>1. time_update_' = IF file.time_update = {} THEN time_update_
                          ELSE {GetSeconds(t) : t \in file.time_update}
      BY <1>5 DEF TimeUpdate
    <3>2. file.time_update # {} => {GetSeconds(t) : t \in file.time_update} # {}
      OBVIOUS
    <3> QED
      BY <1>5, <3>1, <3>2 DEF TimeUpdate, Exit
  <2>3. Read'
    BY <1>0, <2>1, <2>2 DEF Read
  <2>4. Whole' /\ (pc' \in BeforeChildren => pc \in BeforeChildren)
    BY <1>0, <2>1, <2>2 DEF Whole, AfterOpen, AfterMongo, AfterGeoCity, AfterLock,
                            AfterPid, BeforeChildren
  <2> QED
    BY <1>0, <2>1, <2>3, <2>4, DiskFrame DEF CInv
<1>6. CASE Cookie
  <2>1. UNCHANGED <<file, root, dirs, socketFile, mIsInited, passed,
                    server_children_, time_update_, flags>> /\ pc = "cookie"
    BY <1>6 DEF Cookie
  <2>2. pc' \in {"exited", "log"} /\ cookie_' \in {{}, CookieField}
    <3>1. CASE file.cookie \in {{}, {CookieField}}
      <4>1. UNION file.cookie \in {{}, CookieField}
        BY <3>1
      <4> QED
        BY <1>6, <3>1, <4>1 DEF Cookie
    <3>2. CASE file.cookie \notin {{}, {CookieField}}
      BY <1>0, <1>6, <3>2 DEF Cookie, Exit, Read
    <3> QED
      BY <3>1, <3>2
  <2>3. Read'
    BY <1>0, <2>1, <2>2 DEF Read
  <2>4. Whole' /\ (pc' \in BeforeChildren => pc \in BeforeChildren)
    BY <1>0, <2>1, <2>2 DEF Whole, AfterOpen, AfterMongo, AfterGeoCity, AfterLock,
                            AfterPid, BeforeChildren
  <2> QED
    BY <1>0, <2>1, <2>3, <2>4, DiskFrame DEF CInv
<1>7. CASE LogSection
  <2>1. UNCHANGED <<file, root, dirs, socketFile, passed, server_children_,
                    time_update_, cookie_>> /\ pc = "log" /\ pc' = "main" /\ mIsInited'
    BY <1>7 DEF LogSection
  <2>2. \A f \in LogFlag : flags'[f] = {} => \E l \in file.log : l[f] = {}
    BY <1>7, TextSetsFlag
  <2>3. Read'
    BY <1>0, <2>1, <2>2 DEF Read
  <2>4. Whole' /\ (pc' \in BeforeChildren => pc \in BeforeChildren)
    BY <1>0, <2>1, <2>2 DEF Whole, AfterOpen, AfterMongo, AfterGeoCity, AfterLock,
                            AfterPid, BeforeChildren
  <2> QED
    BY <1>0, <2>1, <2>3, <2>4, DiskFrame DEF CInv
<1> QED
  BY <1>1, <1>2, <1>3, <1>4, <1>5, <1>6, <1>7 DEF Next, Load

\* CInv holds whatever the launch meets.
LEMMA CInvariance == Spec => []CInv
<1>1. Init => CInv
  <2> SUFFICES ASSUME Init PROVE CInv
    OBVIOUS
  <2>1. PICK i \in Inputs : file = i.file /\ dirs = i.dirs
    BY DEF Init
  <2>3. Whole
    BY DEF Init, Whole, Blank, AfterOpen, AfterMongo, AfterGeoCity, AfterLock, AfterPid
  <2>2. DiskOK
    BY <2>1, ConfigAssumption DEF DiskOK
  <2> QED
    BY <2>2, <2>3 DEF Init, CInv, SocketGone, Read
<1> QED
  BY <1>1, CStep, PTL DEF Spec

-----------------------------------------------------------------------------
(* The properties.                                                         *)

\* At every moment of a launch and whatever mkdir meets, a path checkPath would
\* refuse can be tried again: what it left behind is only what it had made above the
\* directory it was stopped at, and changes no later verdict (BoostHelpers.cpp:61-260).
THEOREM RefusalsCanBeRetried == Spec => []RefusalCanBeRetried
<1>1. ASSUME CInv, NEW p \in PathName, NEW write \in BOOLEAN,
             NEW mkdir \in [Missing(dirs[p]) -> Mkdir]
      PROVE  LET d == dirs[p]  c == CheckPath(root, d, write, mkdir) IN
             c.verdict # "true" =>
                /\ \A k \in DOMAIN d : c.dirs[k] # d[k] =>
                      /\ write /\ k \in Missing(d)
                      /\ \E j \in Missing(d) : j >= k /\ mkdir[j] # "done"
                /\ CheckPath(root, c.dirs, write, Untroubled(d)).verdict
                   = CheckPath(root, d, write, Untroubled(d)).verdict
  <2> DEFINE d == dirs[p]
             c == CheckPath(root, d, write, mkdir)
  <2>1. d \in Seq(Node) /\ InPlace(d) /\ DOMAIN d = 1..Len(d) /\ Len(d) \in Nat
    BY <1>1 DEF CInv, DiskOK
  <2>2. Walked(root, write, mkdir, d, c, Len(d))
    BY <2>1, CheckPathWalks
  <2> SUFFICES ASSUME c.verdict # "true"
               PROVE  /\ \A k \in DOMAIN d : c.dirs[k] # d[k] =>
                            /\ write /\ k \in Missing(d)
                            /\ \E j \in Missing(d) : j >= k /\ mkdir[j] # "done"
                      /\ CheckPath(root, c.dirs, write, Untroubled(d)).verdict
                         = CheckPath(root, d, write, Untroubled(d)).verdict
    OBVIOUS
  <2> HIDE DEF c, d
  <2>3. /\ c.dirs \in Seq(Node) /\ Len(c.dirs) = Len(d) /\ InPlace(c.dirs)
        /\ Left(root, write, d, c.dirs) /\ Stopped(mkdir, d, c.dirs)
    BY <2>2 DEF Walked, Walk
  <2>4. ASSUME NEW k \in DOMAIN d, c.dirs[k] # d[k]
        PROVE  /\ write /\ k \in Missing(d)
               /\ \E j \in Missing(d) : j >= k /\ mkdir[j] # "done"
    <3>1. k \in 2..Len(d)
      BY <2>1, <2>3, <2>4 DEF Left
    <3>2. PICK j \in Missing(d) : mkdir[j] # "done"
                                  /\ \A i \in (j + 1)..Len(d) : c.dirs[i] = d[i]
      BY <2>3, <2>4 DEF Stopped
    <3>3. j >= k
      BY <2>1, <2>4, <3>1, <3>2 DEF Missing
    <3> QED
      BY <2>3, <2>4, <3>1, <3>2, <3>3 DEF Left, Missing
  <2>5. \A j \in Missing(d) : Untroubled(d)[j] = "done"
    BY DEF Untroubled
  <2>6. CheckPath(root, c.dirs, write, Untroubled(d)).verdict
        = CheckPath(root, d, write, Untroubled(d)).verdict
    BY <2>1, <2>3, <2>5, RetryAgrees
  <2> QED
    BY <2>4, <2>6
<1>2. CInv => RefusalCanBeRetried
  BY <1>1 DEF RefusalCanBeRetried
<1> QED
  BY <1>2, CInvariance, PTL

\* main goes on only with a file that was read to its end or with none, whatever the
\* file and the disk are (Config.cpp:51-309, main.cpp:64-88).
THEOREM GoesOnWithAllOrNone == Spec => []GoesOnWithAllOrNothing
<1>1. CInv => GoesOnWithAllOrNothing
  BY DEF CInv, Whole, Blank, GoesOnWithAllOrNothing
<1> QED
  BY <1>1, CInvariance, PTL

\* A Load that returned true left nothing unset that its file has, the cookie
\* complete or absent, and the socket path free for CgiService() (Config.cpp:27-260).
THEOREM LoadIsComplete == Spec => []LoadedIsComplete
<1>1. CInv => LoadedIsComplete
  BY DEF CInv, Read, SocketGone, LoadedIsComplete
<1> QED
  BY <1>1, CInvariance, PTL
=============================================================================
