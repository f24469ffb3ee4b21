--------------------------- MODULE AuthoringLemmas --------------------------
(***************************************************************************)
(* What the pure operators of PlainEnglish and Drafting return, for files  *)
(* and test cases of any length. The community modules define folds and    *)
(* concatenations by CHOOSE over a function on the sets of places; from    *)
(* the least-number principle, which takes no operator as a parameter,     *)
(* follows induction over a set, from that the function exists, and from   *)
(* that its value place by place.                                          *)
(***************************************************************************)
EXTENDS Authoring, SequenceTheorems, WellFoundedInduction, TLAPS

\* What holds of 0 and from each number to the next holds up to n.
LEMMA UpTo == ASSUME NEW n \in Nat, NEW S, 0 \in S, \A k \in 1 .. n : k - 1 \in S => k \in S
              PROVE  \A k \in 0 .. n : k \in S
<1> DEFINE missing == {k \in 0 .. n : k \notin S}
<1>1. SUFFICES ASSUME missing # {} PROVE FALSE
  OBVIOUS
<1>2. missing \subseteq Nat
  OBVIOUS
<1>3. \A x, y \in Nat : y < x => <<y, x>> \in OpToRel(<, Nat)
  BY DEF OpToRel
<1>4. PICK x \in missing : \A y \in missing : ~ (<<y, x>> \in OpToRel(<, Nat))
  BY <1>1, <1>2, NatLessThanWellFounded, WFMin
<1>5. x \in 0 .. n /\ x \notin S
  OBVIOUS
<1>6. x \in 1 .. n /\ x - 1 \in 0 .. n /\ x \in Nat /\ x - 1 \in Nat /\ x - 1 < x
  BY <1>5
<1>7. x - 1 \notin missing
  BY ONLY <1>3, <1>4, <1>6
<1>8. x - 1 \in S
  BY <1>6, <1>7
<1>9. x \in S
  BY <1>6, <1>8
<1> QED
  BY <1>5, <1>9

\* The member that no other exceeds is the maximum.
LEMMA MaxIs == ASSUME NEW S, S \subseteq Int, NEW x \in S, \A y \in S : y <= x
               PROVE  Max(S) = x
<1>1. \A y \in S : x >= y
  OBVIOUS
<1>2. Max(S) \in S /\ \A y \in S : Max(S) >= y
  BY <1>1 DEF Max
<1>3. Max(S) >= x /\ x >= Max(S) /\ x \in Int /\ Max(S) \in Int
  BY <1>1, <1>2
<1> QED
  BY ONLY <1>3

\* Numbers below a bound have a maximum.
LEMMA FiniteMax == ASSUME NEW n \in Nat, NEW S, S \subseteq 1 .. n, S # {}
                   PROVE  Max(S) \in S /\ \A y \in S : y <= Max(S)
<1> DEFINE above == {k \in 0 .. n : \A y \in S : y <= n - k}
<1>1. \E x \in S : \A y \in S : y <= x
  <2>1. SUFFICES ASSUME ~ \E x \in S : \A y \in S : y <= x PROVE FALSE
    OBVIOUS
  <2>2. 0 \in above
    OBVIOUS
  <2>3. ASSUME NEW k \in 1 .. n, k - 1 \in above PROVE k \in above
    <3>1. \A y \in S : y <= n - (k - 1) /\ y \in Int
      BY <2>3
    <3>2. n - (k - 1) \notin S
      BY <2>1, <3>1
    <3>3. \A y \in S : y # n - (k - 1)
      BY <3>2
    <3>4. \A y \in S : y <= n - k
      BY <3>1, <3>3
    <3> QED
      BY <3>4
  <2>4. \A k \in 0 .. n : k \in above
    <3> HIDE DEF above
    <3> QED
      BY <2>2, <2>3, UpTo
  <2>5. n \in above
    <3> HIDE DEF above
    <3> QED
      BY <2>4
  <2>6. PICK y \in S : TRUE
    OBVIOUS
  <2>7. y <= n - n /\ y \in 1 .. n
    BY <2>5
  <2> QED
    BY <2>7
<1>2. PICK x \in S : \A y \in S : y <= x
  BY <1>1
<1>3. S \subseteq Int
  OBVIOUS
<1>4. Max(S) = x
  BY <1>2, <1>3, MaxIs
<1> QED
  BY <1>2, <1>4

\* The maximum of the first k numbers is k.
LEMMA UpToMax == ASSUME NEW k \in Nat \ {0} PROVE Max(1 .. k) = k
<1>1. 1 .. k \subseteq Int /\ k \in 1 .. k /\ \A y \in 1 .. k : y <= k
  OBVIOUS
<1> QED
  BY <1>1, MaxIs

\* The function on sets of places that a fold of n elements is defined by, G[i] being its i-th step.
FoldsBy(it, n, base, G) ==
    \A s \in SUBSET (1 .. n) : it[s] = IF s = {} THEN base ELSE G[Max(s)][it[s \ {Max(s)}]]

\* The values of a fold from its base on.
Runs(R, n, base, G) == R[0] = base /\ \A k \in 1 .. n : R[k] = G[k][R[k - 1]]

\* A fold over n places is well defined when each step stays in a set.
LEMMA FoldExists ==
    ASSUME NEW n \in Nat, NEW T, NEW base \in T, NEW G,
           \A i \in 1 .. n, x \in T : G[i][x] \in T
    PROVE  \E it \in [SUBSET (1 .. n) -> T] : FoldsBy(it, n, base, G)
<1> DEFINE Good(m, it) == FoldsBy(it, m, base, G)
           reached == {m \in 0 .. n : \E it \in [SUBSET (1 .. m) -> T] : Good(m, it)}
<1>1. 0 \in reached
  <2> DEFINE it == [s \in SUBSET (1 .. 0) |-> base]
  <2>1. it \in [SUBSET (1 .. 0) -> T]
    OBVIOUS
  <2>2. Good(0, it)
    <3>1. \A s \in SUBSET (1 .. 0) : s = {}
      OBVIOUS
    <3> QED
      BY <3>1 DEF FoldsBy
  <2>3. 0 \in 0 .. n
    OBVIOUS
  <2> HIDE DEF it, Good
  <2>4. \E g \in [SUBSET (1 .. 0) -> T] : Good(0, g)
    BY <2>1, <2>2
  <2> QED
    BY <2>3, <2>4
<1>2. ASSUME NEW m \in 0 .. n - 1, m \in reached PROVE m + 1 \in reached
  <2>1. PICK g \in [SUBSET (1 .. m) -> T] : Good(m, g)
    BY <1>2
  <2> DEFINE h == [s \in SUBSET (1 .. m + 1) |-> IF m + 1 \in s THEN G[m + 1][g[s \ {m + 1}]] ELSE g[s]]
  <2>2. ASSUME NEW s \in SUBSET (1 .. m + 1), m + 1 \in s
        PROVE  /\ Max(s) = m + 1 /\ s \ {m + 1} \in SUBSET (1 .. m)
               /\ h[s] = G[m + 1][g[s \ {m + 1}]] /\ h[s] \in T
               /\ h[s \ {m + 1}] = g[s \ {m + 1}]
    <3>1. Max(s) = m + 1
      <4>1. s \subseteq Int /\ \A y \in s : y <= m + 1
        OBVIOUS
      <4> QED
        BY <2>2, <4>1, MaxIs
    <3>2. s \ {m + 1} \in SUBSET (1 .. m) /\ m + 1 \in 1 .. n /\ m + 1 \notin s \ {m + 1}
      BY <2>2
    <3>3. g[s \ {m + 1}] \in T
      BY <3>2
    <3>4. s \ {m + 1} \in SUBSET (1 .. m + 1)
      OBVIOUS
    <3>5. h[s] = G[m + 1][g[s \ {m + 1}]] /\ h[s \ {m + 1}] = g[s \ {m + 1}]
      BY <2>2, <3>4
    <3> QED
      BY <3>1, <3>2, <3>3, <3>5
  <2>3. ASSUME NEW s \in SUBSET (1 .. m + 1), m + 1 \notin s
        PROVE  /\ s \in SUBSET (1 .. m) /\ h[s] = g[s] /\ h[s] \in T
               /\ h[s \ {Max(s)}] = g[s \ {Max(s)}]
    <3>1. s \in SUBSET (1 .. m)
      BY <2>3
    <3>2. s \ {Max(s)} \in SUBSET (1 .. m + 1) /\ m + 1 \notin s \ {Max(s)}
      BY <2>3
    <3>3. h[s] = g[s] /\ h[s \ {Max(s)}] = g[s \ {Max(s)}]
      BY <2>3, <3>2
    <3> QED
      BY <3>1, <3>3
  <2>4. h \in [SUBSET (1 .. m + 1) -> T]
    <3>1. \A s \in SUBSET (1 .. m + 1) : h[s] \in T
      BY <2>2, <2>3
    <3> QED
      BY <3>1
  <2> HIDE DEF h
  <2>5. Good(m + 1, h)
    <3>1. ASSUME NEW s \in SUBSET (1 .. m + 1)
          PROVE  h[s] = IF s = {} THEN base ELSE G[Max(s)][h[s \ {Max(s)}]]
      <4>1. CASE m + 1 \in s
        BY <2>2, <4>1
      <4>2. CASE m + 1 \notin s
        <5>1. g[s] = IF s = {} THEN base ELSE G[Max(s)][g[s \ {Max(s)}]]
          BY <2>1, <2>3, <4>2 DEF FoldsBy
        <5> QED
          BY <2>3, <4>2, <5>1
      <4> QED
        BY <4>1, <4>2
    <3> QED
      BY <3>1 DEF FoldsBy
  <2>6. m + 1 \in 0 .. n
    OBVIOUS
  <2> QED
    BY <2>4, <2>5, <2>6
<1>3. \A k \in 0 .. n : k \in reached
  <2> HIDE DEF reached
  <2>1. ASSUME NEW k \in 1 .. n, k - 1 \in reached PROVE k \in reached
    <3>1. k - 1 \in 0 .. n - 1 /\ (k - 1) + 1 = k
      OBVIOUS
    <3> QED
      BY <1>2, <2>1, <3>1
  <2> QED
    BY <1>1, <2>1, UpTo
<1>4. n \in reached
  <2> HIDE DEF reached
  <2> QED
    BY <1>3
<1> QED
  BY <1>4

\* So are its values place by place.
LEMMA RunExists ==
    ASSUME NEW n \in Nat, NEW T, NEW base \in T, NEW G,
           \A i \in 1 .. n, x \in T : G[i][x] \in T
    PROVE  \E R \in [0 .. n -> T] : Runs(R, n, base, G)
<1>1. PICK it \in [SUBSET (1 .. n) -> T] : FoldsBy(it, n, base, G)
  BY FoldExists
<1> DEFINE R == [k \in 0 .. n |-> it[1 .. k]]
<1>2. R \in [0 .. n -> T]
  <2>1. \A k \in 0 .. n : 1 .. k \in SUBSET (1 .. n)
    OBVIOUS
  <2> QED
    BY <2>1
<1>3. R[0] = base
  <2>1. 1 .. 0 = {} /\ 1 .. 0 \in SUBSET (1 .. n) /\ R[0] = it[1 .. 0]
    OBVIOUS
  <2> QED
    BY <1>1, <2>1 DEF FoldsBy
<1>4. ASSUME NEW k \in 1 .. n PROVE R[k] = G[k][R[k - 1]]
  <2>1. /\ 1 .. k \in SUBSET (1 .. n) /\ 1 .. k # {} /\ R[k] = it[1 .. k]
        /\ R[k - 1] = it[1 .. k - 1]
    OBVIOUS
  <2>2. Max(1 .. k) = k
    BY UpToMax
  <2>3. (1 .. k) \ {k} = 1 .. k - 1
    OBVIOUS
  <2> QED
    BY <1>1, <2>1, <2>2, <2>3 DEF FoldsBy
<1> HIDE DEF R
<1>5. Runs(R, n, base, G)
  BY <1>3, <1>4 DEF Runs
<1> QED
  BY <1>2, <1>5

\* F[k] is the first k of the sequences, concatenated.
Flattens(F, s) == F[0] = <<>> /\ \A k \in 1 .. Len(s) : F[k] = F[k - 1] \o s[k]

\* FlattenSeq is the last of the concatenations.
LEMMA FlattenRun ==
    ASSUME NEW S, NEW s \in Seq(Seq(S))
    PROVE  \E F \in [0 .. Len(s) -> Seq(S)] : Flattens(F, s) /\ FlattenSeq(s) = F[Len(s)]
<1> DEFINE n == Len(s)
           G == [i \in 1 .. n |-> [x \in Seq(S) |-> x \o s[i]]]
           Eqn(f) == f = [i \in 1 .. n |-> IF i = 1 THEN s[i] ELSE f[i - 1] \o s[i]]
           flatten == CHOOSE f : Eqn(f)
           F == [k \in 0 .. n |-> IF k = 0 THEN <<>> ELSE flatten[k]]
<1>1. n \in Nat /\ \A i \in 1 .. n : s[i] \in Seq(S)
  OBVIOUS
<1>2. <<>> \in Seq(S) /\ \A x, y \in Seq(S) : x \o y \in Seq(S) /\ <<>> \o y = y
  BY ConcatProperties, ConcatEmptySeq
<1>3. n # 0 => FlattenSeq(s) = flatten[n]
  BY DEF FlattenSeq
<1>4. n = 0 => FlattenSeq(s) = <<>>
  BY DEF FlattenSeq
<1> HIDE DEF n
<1>5. \E f : Eqn(f)
  <2>1. \A i \in 1 .. n, x \in Seq(S) : G[i][x] = x \o s[i] /\ G[i][x] \in Seq(S)
    BY <1>1, <1>2
  <2> HIDE DEF G
  <2>2. PICK R \in [0 .. n -> Seq(S)] : Runs(R, n, <<>>, G)
    BY <1>1, <1>2, <2>1, RunExists
  <2> DEFINE f == [i \in 1 .. n |-> R[i]]
  <2>3. ASSUME NEW i \in 1 .. n PROVE f[i] = IF i = 1 THEN s[i] ELSE f[i - 1] \o s[i]
    <3>1. i - 1 \in 0 .. n /\ R[i - 1] \in Seq(S) /\ f[i] = R[i]
      BY <1>1
    <3>2. R[i] = R[i - 1] \o s[i] /\ R[0] = <<>>
      BY <2>1, <2>2, <3>1 DEF Runs
    <3>3. CASE i = 1
      <4>1. R[i - 1] = <<>> /\ <<>> \o s[i] = s[i]
        BY <1>1, <1>2, <3>2, <3>3
      <4> QED
        BY <3>1, <3>2, <3>3, <4>1
    <3>4. CASE i # 1
      <4>1. i - 1 \in 1 .. n
        BY <1>1, <3>4
      <4> QED
        BY <3>1, <3>2, <3>4, <4>1
    <3> QED
      BY <3>3, <3>4
  <2>4. f = [i \in 1 .. n |-> f[i]]
    OBVIOUS
  <2> HIDE DEF f
  <2>5. Eqn(f)
    BY <2>3, <2>4
  <2> QED
    BY <2>5
<1>6. Eqn(flatten)
  BY <1>5
<1> HIDE DEF flatten
<1>7. \A i \in 1 .. n : flatten[i] = IF i = 1 THEN s[i] ELSE flatten[i - 1] \o s[i]
  BY <1>6
<1> HIDE DEF Eqn
<1>8. F[0] = <<>> /\ \A k \in 1 .. n : F[k] = flatten[k]
  BY <1>1
<1> HIDE DEF F
<1> DEFINE good == {k \in 0 .. n : F[k] \in Seq(S) /\ (k # 0 => F[k] = F[k - 1] \o s[k])}
<1>9. \A k \in 0 .. n : k \in good
  <2>1. 0 \in good
    <3>1. 0 \in 0 .. n /\ F[0] \in Seq(S)
      BY <1>1, <1>2, <1>8
    <3> QED
      BY <3>1
  <2>2. ASSUME NEW k \in 1 .. n, k - 1 \in good PROVE k \in good
    <3>1. s[k] \in Seq(S) /\ F[k - 1] \in Seq(S) /\ F[k] = flatten[k] /\ k \in 0 .. n
      BY <1>1, <1>8, <2>2
    <3>2. F[k] = F[k - 1] \o s[k]
      <4>1. CASE k = 1
        <5>1. F[k - 1] = <<>> /\ flatten[k] = s[k] /\ <<>> \o s[k] = s[k]
          BY <1>2, <1>7, <1>8, <3>1, <4>1
        <5> QED
          BY <3>1, <5>1
      <4>2. CASE k # 1
        <5>1. k - 1 \in 1 .. n
          BY <1>1, <4>2
        <5> QED
          BY <1>7, <1>8, <3>1, <4>2, <5>1
      <4> QED
        BY <4>1, <4>2
    <3> QED
      BY <1>2, <3>1, <3>2
  <2> HIDE DEF good
  <2> QED
    BY <1>1, <2>1, <2>2, UpTo
<1>10. F \in [0 .. n -> Seq(S)]
  <2>1. \A k \in 0 .. n : F[k] \in Seq(S)
    BY <1>9
  <2>2. F = [k \in 0 .. n |-> F[k]]
    BY DEF F
  <2> QED
    BY <2>1, <2>2
<1>11. FlattenSeq(s) = F[n]
  <2>1. n = 0 \/ n \in 1 .. n
    BY <1>1
  <2> QED
    BY <1>3, <1>4, <1>8, <2>1
<1>12. \A k \in 1 .. n : F[k] = F[k - 1] \o s[k]
  <2>1. \A k \in 1 .. n : k \in 0 .. n /\ k # 0
    BY <1>1
  <2> QED
    BY <1>9, <2>1
<1>13. Flattens(F, s)
  BY <1>8, <1>12 DEF Flattens, n
<1> QED
  BY <1>10, <1>11, <1>13 DEF n

\* One more sequence is one more at the end of the concatenation.
LEMMA FlattenAppend ==
    ASSUME NEW S, NEW s \in Seq(Seq(S)), NEW t \in Seq(S)
    PROVE  /\ FlattenSeq(s) \in Seq(S) /\ FlattenSeq(Append(s, t)) \in Seq(S)
           /\ FlattenSeq(Append(s, t)) = FlattenSeq(s) \o t
<1> DEFINE n == Len(s)  u == Append(s, t)
<1>1. n \in Nat /\ u \in Seq(Seq(S)) /\ Len(u) = n + 1 /\ u[n + 1] = t /\ \A i \in 1 .. n : u[i] = s[i]
  BY AppendProperties
<1>2. PICK F \in [0 .. Len(s) -> Seq(S)] : Flattens(F, s) /\ FlattenSeq(s) = F[Len(s)]
  BY FlattenRun
<1> HIDE DEF u
<1>3. PICK H \in [0 .. Len(u) -> Seq(S)] : Flattens(H, u) /\ FlattenSeq(u) = H[Len(u)]
  BY <1>1, FlattenRun
<1> HIDE DEF n
<1> DEFINE same == {k \in 0 .. n : F[k] = H[k]}
<1>4. \A k \in 0 .. n : k \in same
  <2>1. 0 \in same
    BY <1>1, <1>2, <1>3 DEF Flattens
  <2>2. ASSUME NEW k \in 1 .. n, k - 1 \in same PROVE k \in same
    <3>1. k \in 0 .. n /\ k \in 1 .. Len(u) /\ k \in 1 .. Len(s) /\ u[k] = s[k] /\ F[k - 1] = H[k - 1]
      BY <1>1, <2>2 DEF n
    <3> QED
      BY <1>2, <1>3, <3>1 DEF Flattens
  <2> HIDE DEF same
  <2> QED
    BY <1>1, <2>1, <2>2, UpTo
<1>5. n \in 0 .. n /\ n + 1 \in 1 .. Len(u) /\ (n + 1) - 1 = n
  BY <1>1
<1>6. H[n + 1] = H[n] \o t /\ F[n] = H[n]
  BY <1>1, <1>3, <1>4, <1>5 DEF Flattens
<1>7. F[n] \in Seq(S) /\ H[n + 1] \in Seq(S)
  <2>1. n \in 0 .. Len(s) /\ n + 1 \in 0 .. Len(u)
    BY <1>1 DEF n
  <2> QED
    BY <2>1
<1> QED
  BY <1>1, <1>2, <1>3, <1>6, <1>7 DEF u, n

\* A function that is s and has t behind it is Append(s, t).
LEMMA AppendIs ==
    ASSUME NEW S, NEW s \in Seq(S), NEW t \in S, NEW u, DOMAIN u = 1 .. Len(s) + 1,
           u = [i \in DOMAIN u |-> u[i]], u[Len(s) + 1] = t, \A i \in 1 .. Len(s) : u[i] = s[i]
    PROVE  u = Append(s, t)
<1>1. /\ Append(s, t) \in Seq(S) /\ Len(Append(s, t)) = Len(s) + 1
      /\ Append(s, t)[Len(s) + 1] = t /\ \A i \in 1 .. Len(s) : Append(s, t)[i] = s[i]
  BY AppendProperties
<1>2. Len(s) \in Nat
  BY LenProperties
<1>3. \A i \in 1 .. Len(s) + 1 : i = Len(s) + 1 \/ i \in 1 .. Len(s)
  BY <1>2
<1>4. u \in Seq(S)
  BY <1>2, <1>3
<1>5. Len(u) = Len(s) + 1
  BY <1>2, <1>4, LenProperties
<1>6. \A i \in 1 .. Len(u) : u[i] = Append(s, t)[i]
  BY <1>1, <1>3, <1>5
<1> QED
  BY <1>1, <1>4, <1>5, <1>6, SeqEqual

LEMMA FlattenType == ASSUME NEW S, NEW s \in Seq(Seq(S)) PROVE FlattenSeq(s) \in Seq(S)
<1>1. PICK F \in [0 .. Len(s) -> Seq(S)] : Flattens(F, s) /\ FlattenSeq(s) = F[Len(s)]
  BY FlattenRun
<1>2. Len(s) \in 0 .. Len(s)
  BY LenProperties
<1> QED
  BY <1>1, <1>2

LEMMA FlattenNone == FlattenSeq(<<>>) = <<>>
BY DEF FlattenSeq

\* The same of a function of which no more is known than what it makes of values in T.
FoldsIn(it, n, base, G, T) ==
    /\ it[{}] = base
    /\ \A s \in SUBSET (1 .. n) :
           s # {} /\ it[s \ {Max(s)}] \in T => it[s] = G[Max(s)][it[s \ {Max(s)}]]

\* What such a function makes of the first places, one after the other.
LEMMA FoldRun ==
    ASSUME NEW n \in Nat, NEW T, NEW base \in T, NEW G, NEW it, FoldsIn(it, n, base, G, T),
           \A i \in 1 .. n, x \in T : G[i][x] \in T
    PROVE  \E R \in [0 .. n -> T] : Runs(R, n, base, G) /\ R[n] = it[1 .. n]
<1> DEFINE R == [k \in 0 .. n |-> it[1 .. k]]
           good == {k \in 0 .. n : R[k] \in T /\ (k # 0 => R[k] = G[k][R[k - 1]])}
<1>1. R[0] = base
  <2>1. 1 .. 0 = {} /\ R[0] = it[1 .. 0]
    OBVIOUS
  <2> QED
    BY <2>1 DEF FoldsIn
<1>2. ASSUME NEW k \in 1 .. n, R[k - 1] \in T PROVE R[k] = G[k][R[k - 1]]
  <2>1. /\ 1 .. k \in SUBSET (1 .. n) /\ 1 .. k # {} /\ R[k] = it[1 .. k]
        /\ R[k - 1] = it[1 .. k - 1]
    OBVIOUS
  <2>2. Max(1 .. k) = k
    BY UpToMax
  <2>3. (1 .. k) \ {Max(1 .. k)} = 1 .. k - 1
    <3>1. (1 .. k) \ {k} = 1 .. k - 1
      OBVIOUS
    <3> QED
      BY <2>2, <3>1
  <2> DEFINE s == 1 .. k
  <2> HIDE DEF R, s
  <2>4. it[s] = G[Max(s)][it[s \ {Max(s)}]]
    BY <1>2, <2>1, <2>3 DEF s, FoldsIn
  <2> QED
    BY <2>1, <2>2, <2>3, <2>4 DEF s
<1>3. R[n] = it[1 .. n]
  OBVIOUS
<1>4. R = [k \in 0 .. n |-> R[k]]
  OBVIOUS
<1> HIDE DEF R
<1>5. \A k \in 0 .. n : k \in good
  <2>1. 0 \in good
    BY <1>1
  <2>2. ASSUME NEW k \in 1 .. n, k - 1 \in good PROVE k \in good
    <3>1. R[k - 1] \in T /\ k \in 0 .. n
      BY <2>2
    <3>2. R[k] = G[k][R[k - 1]] /\ G[k][R[k - 1]] \in T
      BY <1>2, <3>1
    <3> QED
      BY <3>1, <3>2
  <2> HIDE DEF good
  <2> QED
    BY <2>1, <2>2, UpTo
<1>6. R \in [0 .. n -> T]
  <2>1. \A k \in 0 .. n : R[k] \in T
    BY <1>5
  <2> QED
    BY <1>4, <2>1
<1>7. \A k \in 1 .. n : R[k] = G[k][R[k - 1]]
  <2>1. \A k \in 1 .. n : k \in 0 .. n /\ k # 0
    OBVIOUS
  <2> QED
    BY <1>5, <2>1
<1>8. Runs(R, n, base, G)
  BY <1>1, <1>7 DEF Runs
<1> QED
  BY <1>3, <1>6, <1>8

\* What is in a concatenation is what is in its parts.
LEMMA WithMore ==
    ASSUME NEW S, NEW s \in Seq(S), NEW t \in Seq(S)
    PROVE  s \o t \in Seq(S) /\ ToSet(s \o t) = ToSet(s) \cup ToSet(t)
<1>1. /\ s \o t \in Seq(S) /\ Len(s) \in Nat /\ Len(t) \in Nat /\ Len(s \o t) = Len(s) + Len(t)
      /\ DOMAIN s = 1 .. Len(s) /\ DOMAIN t = 1 .. Len(t) /\ DOMAIN (s \o t) = 1 .. Len(s) + Len(t)
      /\ \A i \in 1 .. Len(s) : (s \o t)[i] = s[i]
      /\ \A i \in 1 .. Len(t) : (s \o t)[Len(s) + i] = t[i]
  OBVIOUS
<1>2. \A i \in 1 .. Len(s) + Len(t) :
          \/ i \in 1 .. Len(s)
          \/ i - Len(s) \in 1 .. Len(t) /\ Len(s) + (i - Len(s)) = i
  BY <1>1
<1>3. \A i \in 1 .. Len(t) : Len(s) + i \in 1 .. Len(s) + Len(t)
  BY <1>1
<1>4. \A i \in 1 .. Len(s) : i \in 1 .. Len(s) + Len(t)
  BY <1>1
<1>5. ASSUME NEW x \in ToSet(s \o t) PROVE x \in ToSet(s) \cup ToSet(t)
  <2>1. PICK i \in 1 .. Len(s) + Len(t) : x = (s \o t)[i]
    BY <1>1 DEF ToSet
  <2> QED
    BY <1>1, <1>2, <2>1 DEF ToSet
<1>6. ToSet(s) \subseteq ToSet(s \o t)
  BY <1>1, <1>4 DEF ToSet
<1>7. ToSet(t) \subseteq ToSet(s \o t)
  BY <1>1, <1>3 DEF ToSet
<1> QED
  BY <1>1, <1>5, <1>6, <1>7

\* Sequences of one element each, one behind the other.
LEMMA FlattenOnes ==
    ASSUME NEW S, NEW u \in Seq(S), NEW v, v = [i \in DOMAIN u |-> <<u[i]>>]
    PROVE  FlattenSeq(v) = u
<1> DEFINE n == Len(u)
<1>1. n \in Nat /\ DOMAIN u = 1 .. n /\ \A i \in 1 .. n : u[i] \in S
  OBVIOUS
<1>2. v \in Seq(Seq(S)) /\ Len(v) = n /\ \A i \in 1 .. n : v[i] = <<u[i]>>
  <2>1. \A i \in 1 .. n : <<u[i]>> \in Seq(S)
    BY <1>1
  <2>2. v \in [1 .. n -> Seq(S)]
    BY <1>1, <2>1
  <2>3. \A i \in 1 .. n : v[i] = <<u[i]>>
    BY <1>1
  <2> QED
    BY <1>1, <2>2, <2>3
<1>3. PICK F \in [0 .. Len(v) -> Seq(S)] : Flattens(F, v) /\ FlattenSeq(v) = F[Len(v)]
  BY <1>2, FlattenRun
<1> DEFINE good == {k \in 0 .. n : Len(F[k]) = k /\ \A i \in 1 .. k : F[k][i] = u[i]}
<1> HIDE DEF n
<1>4. 0 \in good
  <2>1. F[0] = <<>> /\ Len(<<>>) = 0 /\ 1 .. 0 = {}
    BY <1>3 DEF Flattens
  <2> QED
    BY <1>1, <2>1
<1>5. ASSUME NEW k \in 1 .. n, k - 1 \in good PROVE k \in good
  <2>1. /\ k \in 0 .. n /\ k - 1 \in Nat /\ k - 1 \in 0 .. n /\ (k - 1) + 1 = k
        /\ u[k] \in S /\ 1 .. k = (1 .. k - 1) \cup {k}
    BY <1>1
  <2>2. F[k] = F[k - 1] \o <<u[k]>> /\ F[k - 1] \in Seq(S)
    BY <1>2, <1>3, <2>1 DEF Flattens
  <2>3. PICK before \in Seq(S) : before = F[k - 1]
    BY <2>2
  <2>4. Len(before) = k - 1 /\ \A i \in 1 .. k - 1 : before[i] = u[i]
    BY <1>5, <2>3
  <2>5. F[k] = Append(before, u[k])
    BY <2>1, <2>2, <2>3, AppendProperties
  <2>6. Len(F[k]) = k /\ F[k][k] = u[k] /\ \A i \in 1 .. k - 1 : F[k][i] = before[i]
    BY <2>1, <2>4, <2>5, AppendProperties
  <2> QED
    BY <2>1, <2>4, <2>6
<1>6. \A k \in 0 .. n : k \in good
  <2> HIDE DEF good
  <2> QED
    BY <1>1, <1>4, <1>5, UpTo
<1>7. n \in 0 .. n
  BY <1>1
<1>8. PICK w \in Seq(S) : w = F[n] /\ FlattenSeq(v) = w
  BY <1>2, <1>3, <1>7
<1>9. Len(w) = Len(u) /\ \A i \in 1 .. Len(w) : w[i] = u[i]
  BY <1>6, <1>7, <1>8 DEF n
<1> QED
  BY <1>8, <1>9, SeqEqual

\* Numbers below a bound have a minimum.
LEMMA FiniteMin == ASSUME NEW n \in Nat, NEW S, S \subseteq 1 .. n, S # {}
                   PROVE  Min(S) \in S
<1>1. \A x, y \in Nat : y < x => <<y, x>> \in OpToRel(<, Nat)
  BY DEF OpToRel
<1>2. S \subseteq Nat
  OBVIOUS
<1>3. PICK x \in S : \A y \in S : ~ (<<y, x>> \in OpToRel(<, Nat))
  BY <1>2, NatLessThanWellFounded, WFMin
<1>4. \A y \in S : x \in Nat /\ y \in Nat /\ ~ (y < x)
  BY ONLY <1>1, <1>2, <1>3
<1>5. \A y \in S : x <= y
  BY ONLY <1>4
<1> QED
  BY <1>5 DEF Min

-----------------------------------------------------------------------------
(***************************************************************************)
(* Reading a file: every sentence goes to the test it is in, every header  *)
(* to the test whose heading it is below.                                  *)
(***************************************************************************)

\* Where the reading of a file can be.
Says == STRING \cup {""}
HeadersRead == [environment : Says, risk : Says]
ReadTests == [name : Says, headers : HeadersRead, body : Seq(Lines)]
Readings == [tests : Seq(ReadTests), name : Says, headers : HeadersRead, body : Seq(Lines)]

\* Reading begins somewhere reading can be, and each line leaves it there.
LEMMA NothingReadType == NothingRead \in Readings
<1>1. NoHeaders \in HeadersRead /\ "" \in Says
  BY DEF HeadersRead, NoHeaders, Says
<1>2. <<>> \in Seq(ReadTests) /\ <<>> \in Seq(Lines)
  OBVIOUS
<1> QED
  BY <1>1, <1>2 DEF NothingRead, Readings

LEMMA FlushType == ASSUME NEW r \in Readings PROVE Flush(r) \in Seq(ReadTests)
<1> DEFINE new == [name |-> r.name, headers |-> r.headers, body |-> r.body]
<1>1. new \in ReadTests /\ r.tests \in Seq(ReadTests)
  BY DEF Readings, ReadTests
<1>2. Flush(r) = r.tests \/ Flush(r) = Append(r.tests, new)
  BY DEF Flush
<1> HIDE DEF new
<1> QED
  BY <1>1, <1>2, AppendProperties

\* A test that is titled has a name, whatever is taken off its title.
LEMMA TestNameIs ==
    ASSUME NEW title
    PROVE  /\ title \in STRING => TestName(title) \in STRING
           /\ TestName(title) # "" <=> title # ""
<1>1. /\ \A t \in DOMAIN NameOf : NameOf[t] \in STRING \ {""}
      /\ \A t \in DOMAIN NameOf : t # ""
  BY EnglishAssumption DEF EnglishAssumption
<1> QED
  BY <1>1 DEF TestName

\* The four kinds of lines, by what they are to the test being read.
LEMMA ReadCases ==
    ASSUME NEW r \in Readings, NEW line \in Lines
    PROVE  \/ line.kind = "comment" /\ Read(r, line) = r
           \/ /\ line.kind = "heading" /\ line.name \in STRING
              /\ Read(r, line) = [tests |-> Flush(r), name |-> TestName(line.name), headers |-> NoHeaders, body |-> <<>>]
           \/ /\ line.kind = "header" /\ r.body = <<>>
              /\ line.key \in {"environment", "risk"} /\ line.value \in STRING
              /\ Read(r, line) = [r EXCEPT !.headers = [@ EXCEPT ![line.key] = line.value]]
           \/ /\ line.kind = "sentence" \/ line.kind = "header"
              /\ Read(r, line) = [r EXCEPT !.body = Append(r.body, line)]
<1>1. CASE line \in Comment
  BY <1>1 DEF Read, Comment
<1>2. CASE line \in Heading
  BY <1>2 DEF Read, Heading, NothingRead
<1>3. CASE line \in Header
  BY <1>3 DEF Read, Header
<1>4. CASE line \in Sentence
  BY <1>4 DEF Read, Sentence
<1> QED
  BY <1>1, <1>2, <1>3, <1>4 DEF Lines

LEMMA ReadType == ASSUME NEW r \in Readings, NEW line \in Lines PROVE Read(r, line) \in Readings
<1>1. CASE line.kind = "comment" /\ Read(r, line) = r
  BY <1>1
<1>2. CASE /\ line.name \in STRING
           /\ Read(r, line) = [tests |-> Flush(r), name |-> TestName(line.name), headers |-> NoHeaders, body |-> <<>>]
  <2>1. NoHeaders \in HeadersRead /\ <<>> \in Seq(Lines)
    BY DEF HeadersRead, NoHeaders, Says
  <2>3. Flush(r) \in Seq(ReadTests) /\ TestName(line.name) \in Says
    BY <1>2, FlushType, TestNameIs DEF Says
  <2>2. \A tests \in Seq(ReadTests), name \in Says, headers \in HeadersRead, body \in Seq(Lines) :
            [tests |-> tests, name |-> name, headers |-> headers, body |-> body] \in Readings
    BY DEF Readings
  <2> QED
    BY <1>2, <2>1, <2>2, <2>3
<1>3. CASE /\ line.key \in {"environment", "risk"} /\ line.value \in STRING
           /\ Read(r, line) = [r EXCEPT !.headers = [@ EXCEPT ![line.key] = line.value]]
  <2>1. [r.headers EXCEPT ![line.key] = line.value] \in HeadersRead
    BY <1>3 DEF Readings, HeadersRead, Says
  <2> QED
    BY <1>3, <2>1 DEF Readings
<1>4. CASE Read(r, line) = [r EXCEPT !.body = Append(r.body, line)]
  <2>1. Append(r.body, line) \in Seq(Lines)
    BY AppendProperties DEF Readings
  <2> QED
    BY <1>4, <2>1 DEF Readings
<1> QED
  BY ReadCases, <1>1, <1>2, <1>3, <1>4

\* What has been read behind each line.
Reading(R, text) == R[0] = NothingRead /\ \A k \in 1 .. Len(text) : R[k] = Read(R[k - 1], text[k])

\* Splitting a file is reading it line by line and ending the last test.
LEMMA SplitReads ==
    ASSUME NEW text \in Seq(Lines)
    PROVE  \E R \in [0 .. Len(text) -> Readings] : Reading(R, text) /\ SplitTests(text) = Flush(R[Len(text)])
<1> DEFINE n == Len(text)
           G == [i \in 1 .. n |-> [x \in Readings |-> Read(x, text[i])]]
           Eqn(it) == it = [s \in SUBSET DOMAIN text |->
                               IF s = {} THEN NothingRead ELSE Read(it[s \ {Max(s)}], text[Max(s)])]
           iter == CHOOSE it : Eqn(it)
           R == [k \in 0 .. n |-> iter[1 .. k]]
<1>1. n \in Nat /\ DOMAIN text = 1 .. n /\ \A i \in 1 .. n : text[i] \in Lines
  OBVIOUS
<1>2. SplitTests(text) = Flush(iter[DOMAIN text])
  BY DEF SplitTests, FoldLeft, MapThenFoldSet
<1> HIDE DEF n
<1>3. \E it : Eqn(it)
  <2>1. \A i \in 1 .. n, x \in Readings : G[i][x] = Read(x, text[i]) /\ G[i][x] \in Readings
    BY <1>1, ReadType
  <2> HIDE DEF G
  <2>2. PICK it \in [SUBSET (1 .. n) -> Readings] : FoldsBy(it, n, NothingRead, G)
    BY <1>1, <2>1, NothingReadType, FoldExists
  <2>3. ASSUME NEW s \in SUBSET (1 .. n)
        PROVE  it[s] = IF s = {} THEN NothingRead ELSE Read(it[s \ {Max(s)}], text[Max(s)])
    <3>1. CASE s # {}
      <4>1. Max(s) \in 1 .. n
        BY <1>1, <3>1, FiniteMax
      <4>2. it[s \ {Max(s)}] \in Readings
        OBVIOUS
      <4>3. it[s] = G[Max(s)][it[s \ {Max(s)}]]
        BY <2>2, <3>1 DEF FoldsBy
      <4> QED
        BY <2>1, <3>1, <4>1, <4>2, <4>3
    <3>2. CASE s = {}
      BY <2>2, <3>2 DEF FoldsBy
    <3> QED
      BY <3>1, <3>2
  <2>4. it = [s \in SUBSET DOMAIN text |-> it[s]]
    BY <1>1
  <2> QED
    BY <1>1, <2>3, <2>4
<1>4. Eqn(iter)
  BY <1>3
<1> HIDE DEF iter
<1>5. \A s \in SUBSET (1 .. n) :
          iter[s] = IF s = {} THEN NothingRead ELSE Read(iter[s \ {Max(s)}], text[Max(s)])
  BY <1>1, <1>4
<1> HIDE DEF Eqn
<1>6. R[0] = NothingRead
  <2>1. 1 .. 0 = {} /\ R[0] = iter[1 .. 0]
    BY <1>1
  <2> QED
    BY <1>5, <2>1
<1>7. ASSUME NEW k \in 1 .. n PROVE R[k] = Read(R[k - 1], text[k])
  <2>1. /\ 1 .. k \in SUBSET (1 .. n) /\ 1 .. k # {} /\ R[k] = iter[1 .. k]
        /\ R[k - 1] = iter[1 .. k - 1]
    BY <1>1
  <2>2. Max(1 .. k) = k
    BY <1>1, UpToMax
  <2>3. (1 .. k) \ {k} = 1 .. k - 1
    BY <1>1
  <2> QED
    BY <1>5, <2>1, <2>2, <2>3
<1>8. SplitTests(text) = Flush(R[n])
  BY <1>1, <1>2
<1>9. R = [k \in 0 .. n |-> R[k]]
  OBVIOUS
<1> HIDE DEF R
<1> DEFINE typed == {k \in 0 .. n : R[k] \in Readings}
<1>10. \A k \in 0 .. n : k \in typed
  <2>1. 0 \in typed
    BY <1>1, <1>6, NothingReadType
  <2>2. ASSUME NEW k \in 1 .. n, k - 1 \in typed PROVE k \in typed
    BY <1>1, <1>7, <2>2, ReadType
  <2> HIDE DEF typed
  <2> QED
    BY <1>1, <2>1, <2>2, UpTo
<1>11. R \in [0 .. n -> Readings]
  <2>1. \A k \in 0 .. n : R[k] \in Readings
    BY <1>10
  <2> QED
    BY <1>9, <2>1
<1>12. Reading(R, text)
  BY <1>6, <1>7 DEF Reading, n
<1> QED
  BY <1>8, <1>11, <1>12 DEF n

\* Sentences, and the steps they become.

\* The steps that lines can become; a line that is no sentence has none that matters.
StepsMade == {StepsOf(line)[1] : line \in Lines}

\* A line makes a sequence of steps that lines can make.
LEMMA StepsOfType == ASSUME NEW line \in Lines PROVE StepsOf(line) \in Seq(StepsMade)
<1>1. CASE StepsOf(line) = <<>>
  BY <1>1
<1>2. CASE StepsOf(line) # <<>>
  <2>1. StepsOf(line)[1] \in StepsMade
    BY DEF StepsMade
  <2>2. PICK step : StepsOf(line) = <<step>>
    BY <1>2 DEF StepsOf
  <2> HIDE DEF StepsOf
  <2>3. step \in StepsMade
    BY <2>1, <2>2
  <2> QED
    BY <2>2, <2>3
<1> QED
  BY <1>1, <1>2

LEMMA StepsOfAllType ==
    ASSUME NEW body \in Seq(Lines)
    PROVE  StepsOfAll(body) \in Seq(StepsMade)
<1> DEFINE s == [i \in DOMAIN body |-> StepsOf(body[i])]
<1>1. s \in Seq(Seq(StepsMade))
  <2>1. Len(body) \in Nat /\ DOMAIN body = 1 .. Len(body) /\ \A i \in 1 .. Len(body) : body[i] \in Lines
    OBVIOUS
  <2>2. s \in [1 .. Len(body) -> Seq(StepsMade)]
    BY <2>1, StepsOfType
  <2> QED
    BY <2>1, <2>2
<1> QED
  BY <1>1, FlattenType DEF StepsOfAll

\* One more line of a test is its step behind the others.
LEMMA StepsOfAllAppend ==
    ASSUME NEW body \in Seq(Lines), NEW line \in Lines
    PROVE  StepsOfAll(Append(body, line)) = StepsOfAll(body) \o StepsOf(line)
<1> DEFINE s == [i \in DOMAIN body |-> StepsOf(body[i])]
           u == [i \in DOMAIN Append(body, line) |-> StepsOf(Append(body, line)[i])]
           n == Len(body)
<1>0. StepsOf(line) \in Seq(StepsMade)
  BY StepsOfType
<1>1. n \in Nat /\ DOMAIN body = 1 .. n /\ \A i \in 1 .. n : body[i] \in Lines
  OBVIOUS
<1>2. /\ DOMAIN Append(body, line) = 1 .. n + 1 /\ Append(body, line)[n + 1] = line
      /\ \A i \in 1 .. n : Append(body, line)[i] = body[i]
  OBVIOUS
<1> HIDE DEF n
<1>3. \A i \in 1 .. n : StepsOf(body[i]) \in Seq(StepsMade)
  BY <1>1, StepsOfType
<1>4. s \in Seq(Seq(StepsMade)) /\ Len(s) = n
  <2>1. s \in [1 .. n -> Seq(StepsMade)]
    BY <1>1, <1>3
  <2> QED
    BY <1>1, <2>1
<1>5. u = Append(s, StepsOf(line))
  <2>1. DOMAIN u = 1 .. n + 1 /\ u = [i \in DOMAIN u |-> u[i]]
    BY <1>2
  <2>2. u[n + 1] = StepsOf(line)
    BY <1>1, <1>2
  <2>3. \A i \in 1 .. n : u[i] = s[i]
    BY <1>1, <1>2
  <2> HIDE DEF s, u
  <2> QED
    BY <1>0, <1>4, <2>1, <2>2, <2>3, AppendIs
<1>6. StepsOfAll(body) = FlattenSeq(s) /\ StepsOfAll(Append(body, line)) = FlattenSeq(u)
  BY DEF StepsOfAll
<1> HIDE DEF s, u
<1> QED
  BY <1>4, <1>5, <1>6, StepsOfType, FlattenAppend

LEMMA StepsOfNone == StepsOfAll(<<>>) = <<>>
<1>1. [i \in DOMAIN <<>> |-> StepsOf(<<>>[i])] = <<>>
  OBVIOUS
<1> QED
  BY <1>1, FlattenNone DEF StepsOfAll

\* The steps of tests, one test behind the other.
StepsOfTests(tests) == FlattenSeq([i \in DOMAIN tests |-> StepsOfAll(tests[i].body)])

LEMMA StepsOfTestsType ==
    ASSUME NEW tests \in Seq(ReadTests)
    PROVE  StepsOfTests(tests) \in Seq(StepsMade)
<1> DEFINE s == [i \in DOMAIN tests |-> StepsOfAll(tests[i].body)]
<1>1. s \in Seq(Seq(StepsMade))
  <2>1. /\ Len(tests) \in Nat /\ DOMAIN tests = 1 .. Len(tests)
        /\ \A i \in 1 .. Len(tests) : tests[i] \in ReadTests
    OBVIOUS
  <2>3. \A test \in ReadTests : test.body \in Seq(Lines)
    BY DEF ReadTests
  <2>2. s \in [1 .. Len(tests) -> Seq(StepsMade)]
    BY <2>1, <2>3, StepsOfAllType
  <2> QED
    BY <2>1, <2>2
<1> QED
  BY <1>1, FlattenType DEF StepsOfTests

\* One more test has its steps behind those of the others.
LEMMA StepsOfTestsAppend ==
    ASSUME NEW tests \in Seq(ReadTests), NEW test \in ReadTests
    PROVE  StepsOfTests(Append(tests, test)) = StepsOfTests(tests) \o StepsOfAll(test.body)
<1> DEFINE s == [i \in DOMAIN tests |-> StepsOfAll(tests[i].body)]
           u == [i \in DOMAIN Append(tests, test) |-> StepsOfAll(Append(tests, test)[i].body)]
           n == Len(tests)
<1>0. \A t \in ReadTests : StepsOfAll(t.body) \in Seq(StepsMade)
  BY StepsOfAllType DEF ReadTests
<1>1. n \in Nat /\ DOMAIN tests = 1 .. n /\ \A i \in 1 .. n : tests[i] \in ReadTests
  OBVIOUS
<1>2. /\ DOMAIN Append(tests, test) = 1 .. n + 1 /\ Append(tests, test)[n + 1] = test
      /\ \A i \in 1 .. n : Append(tests, test)[i] = tests[i]
  OBVIOUS
<1> HIDE DEF n
<1>3. \A i \in 1 .. n : StepsOfAll(tests[i].body) \in Seq(StepsMade)
  BY <1>0, <1>1
<1>4. s \in Seq(Seq(StepsMade)) /\ Len(s) = n
  <2>1. s \in [1 .. n -> Seq(StepsMade)]
    BY <1>1, <1>3
  <2> QED
    BY <1>1, <2>1
<1>5. u = Append(s, StepsOfAll(test.body))
  <2>1. DOMAIN u = 1 .. n + 1 /\ u = [i \in DOMAIN u |-> u[i]]
    BY <1>2
  <2>2. u[n + 1] = StepsOfAll(test.body)
    BY <1>1, <1>2
  <2>3. \A i \in 1 .. n : u[i] = s[i]
    BY <1>1, <1>2
  <2> HIDE DEF s, u
  <2> QED
    BY <1>0, <1>4, <2>1, <2>2, <2>3, AppendIs
<1>6. StepsOfTests(tests) = FlattenSeq(s) /\ StepsOfTests(Append(tests, test)) = FlattenSeq(u)
  BY DEF StepsOfTests
<1> HIDE DEF s, u
<1> QED
  BY <1>0, <1>4, <1>5, <1>6, FlattenAppend

\* Every sentence of these tests is understood.
AllUnderstood(tests) == \A i \in DOMAIN tests : \A j \in DOMAIN tests[i].body : Understood(tests[i].body[j])

BodyUnderstood(r) == \A j \in DOMAIN r.body : Understood(r.body[j])

LEMMA AppendUnderstood ==
    ASSUME NEW tests \in Seq(ReadTests), NEW test \in ReadTests
    PROVE  AllUnderstood(Append(tests, test)) <=> AllUnderstood(tests) /\ BodyUnderstood(test)
<1> DEFINE n == Len(tests)
<1>1. /\ n \in Nat /\ DOMAIN tests = 1 .. n /\ DOMAIN Append(tests, test) = 1 .. n + 1
      /\ Append(tests, test)[n + 1] = test /\ \A i \in 1 .. n : Append(tests, test)[i] = tests[i]
  OBVIOUS
<1> HIDE DEF n
<1>2. 1 .. n + 1 = (1 .. n) \cup {n + 1}
  BY <1>1
<1> QED
  BY <1>1, <1>2 DEF AllUnderstood, BodyUnderstood

\* The test being read counts as one of the tests already.
LEMMA FlushFacts ==
    ASSUME NEW r \in Readings
    PROVE  /\ StepsOfTests(Flush(r)) = StepsOfTests(r.tests) \o StepsOfAll(r.body)
           /\ AllUnderstood(Flush(r)) <=> AllUnderstood(r.tests) /\ BodyUnderstood(r)
<1> DEFINE test == [name |-> r.name, headers |-> r.headers, body |-> r.body]
<1>1. test \in ReadTests /\ r.tests \in Seq(ReadTests) /\ r.body \in Seq(Lines) /\ test.body = r.body
  BY DEF Readings, ReadTests
<1>2. BodyUnderstood(test) <=> BodyUnderstood(r)
  BY <1>1 DEF BodyUnderstood
<1>3. CASE r.body = <<>> /\ r.name = ""
  <2>1. Flush(r) = r.tests
    BY <1>3 DEF Flush
  <2>4. BodyUnderstood(r)
    <3>1. DOMAIN r.body = {}
      <4>1. Len(r.body) = 0 /\ DOMAIN r.body = 1 .. Len(r.body)
        BY <1>1, <1>3, EmptySeq, LenProperties
      <4> QED
        BY <4>1
    <3> QED
      BY <3>1 DEF BodyUnderstood
  <2>2. StepsOfTests(r.tests) \in Seq(StepsMade)
    BY <1>1, StepsOfTestsType
  <2>3. StepsOfTests(r.tests) \o <<>> = StepsOfTests(r.tests)
    BY <2>2, ConcatEmptySeq
  <2> QED
    BY <1>3, <2>1, <2>3, <2>4, StepsOfNone
<1>4. CASE ~(r.body = <<>> /\ r.name = "")
  <2>1. Flush(r) = Append(r.tests, test)
    BY <1>4 DEF Flush
  <2> HIDE DEF test
  <2> QED
    BY <1>1, <1>2, <2>1, StepsOfTestsAppend, AppendUnderstood
<1> QED
  BY <1>3, <1>4

Contributed(line) == IF line.kind = "sentence" THEN StepsOf(line) ELSE <<>>

\* A line adds to the steps what it says; if it is a sentence, it is in the test being read.
LEMMA LineCounts ==
    ASSUME NEW r \in Readings, NEW line \in Lines, NEW q \in Readings, q = Read(r, line),
           AllUnderstood(Flush(q))
    PROVE  /\ AllUnderstood(Flush(r))
           /\ line.kind = "sentence" => Understood(line)
           /\ line.kind = "header" => r.body = <<>> /\ q.body = <<>>
           /\ line.kind = "sentence" => q.body # <<>>
           /\ StepsOfTests(Flush(q)) = StepsOfTests(Flush(r)) \o Contributed(line)
<1>1. r.tests \in Seq(ReadTests) /\ r.body \in Seq(Lines)
  BY DEF Readings
<1>2. /\ StepsOfTests(r.tests) \in Seq(StepsMade) /\ StepsOfAll(r.body) \in Seq(StepsMade)
      /\ StepsOf(line) \in Seq(StepsMade)
  BY <1>1, StepsOfTestsType, StepsOfAllType, StepsOfType
<1>3. StepsOfTests(Flush(r)) \in Seq(StepsMade)
  BY <1>2, FlushFacts, ConcatProperties
<1>4. StepsOfTests(Flush(r)) \o <<>> = StepsOfTests(Flush(r))
  BY <1>3, ConcatEmptySeq
<1>5. /\ StepsOfTests(Flush(q)) = StepsOfTests(q.tests) \o StepsOfAll(q.body)
      /\ AllUnderstood(q.tests) /\ BodyUnderstood(q)
  BY FlushFacts
<1>6. CASE line.kind = "comment" /\ q = r
  <2>1. line.kind # "sentence" /\ line.kind # "header"
    BY <1>6
  <2> QED
    BY <1>4, <1>6, <2>1 DEF Contributed
<1>7. CASE /\ line.kind = "heading"
           /\ q = [tests |-> Flush(r), name |-> TestName(line.name), headers |-> NoHeaders, body |-> <<>>]
  <2>1. q.tests = Flush(r) /\ q.body = <<>>
    BY <1>7
  <2> QED
    BY <1>4, <1>5, <1>7, <2>1, StepsOfNone DEF Contributed
<1>8. CASE /\ line.kind = "header" /\ r.body = <<>>
           /\ q = [r EXCEPT !.headers = [@ EXCEPT ![line.key] = line.value]]
  <2>1. q.tests = r.tests /\ q.body = r.body /\ q.body = <<>>
    BY <1>8 DEF Readings
  <2>2. AllUnderstood(Flush(r))
    BY <1>5, <2>1, FlushFacts DEF BodyUnderstood
  <2> QED
    BY <1>4, <1>5, <1>8, <2>1, <2>2, FlushFacts DEF Contributed
<1>9. CASE /\ line.kind = "sentence" \/ line.kind = "header"
           /\ q = [r EXCEPT !.body = Append(r.body, line)]
  <2>1. q.tests = r.tests /\ q.body = Append(r.body, line)
    BY <1>9 DEF Readings
  <2>2. Understood(line) /\ BodyUnderstood(r)
    <3>1. /\ Len(r.body) + 1 \in DOMAIN q.body /\ q.body[Len(r.body) + 1] = line
          /\ \A j \in DOMAIN r.body : j \in DOMAIN q.body /\ q.body[j] = r.body[j]
      BY <1>1, <2>1
    <3> QED
      BY <1>5, <3>1 DEF BodyUnderstood
  <2>3. line.kind = "sentence"
    BY <2>2 DEF Understood
  <2>4. StepsOfAll(q.body) = StepsOfAll(r.body) \o StepsOf(line)
    BY <1>1, <2>1, StepsOfAllAppend
  <2>5. StepsOfTests(Flush(q)) = (StepsOfTests(r.tests) \o StepsOfAll(r.body)) \o StepsOf(line)
    BY SMTT(40), <1>2, <1>5, <2>1, <2>4, ConcatAssociative
  <2>6. AllUnderstood(Flush(r)) /\ q.body # <<>>
    <3>1. AllUnderstood(Flush(r))
      BY <1>5, <2>1, <2>2, FlushFacts
    <3>2. q.body # <<>>
      BY <1>1, <2>1
    <3> QED
      BY <3>1, <3>2
  <2>7. StepsOfTests(Flush(q)) = StepsOfTests(Flush(r)) \o Contributed(line)
    BY <2>3, <2>5, FlushFacts DEF Contributed
  <2> QED
    BY <2>2, <2>3, <2>6, <2>7
<1> QED
  BY ReadCases, <1>6, <1>7, <1>8, <1>9

IsHeader(line, key) == line.kind = "header" /\ line.key = key

LEMMA SaidOfNone == ASSUME NEW text, NEW key PROVE Said(text, {}, key) = ""
BY DEF Said

\* A line below others says what they said, or what it says itself.
LEMMA SaidGrows ==
    ASSUME NEW text, NEW h \in Nat, NEW k \in Nat, h < k, NEW key
    PROVE  Said(text, h + 1 .. k, key) =
               IF IsHeader(text[k], key) THEN text[k].value ELSE Said(text, h + 1 .. k - 1, key)
<1> DEFINE before == {j \in h + 1 .. k - 1 : text[j].kind = "header" /\ text[j].key = key}
           now == {j \in h + 1 .. k : text[j].kind = "header" /\ text[j].key = key}
<1>1. h + 1 .. k = (h + 1 .. k - 1) \cup {k}
  OBVIOUS
<1>2. CASE IsHeader(text[k], key)
  <2>1. k \in now /\ now \subseteq Int /\ \A j \in now : j <= k
    BY <1>1, <1>2 DEF IsHeader
  <2>2. now # {} /\ Max(now) = k
    BY <2>1, MaxIs
  <2>3. Said(text, h + 1 .. k, key) = IF now = {} THEN "" ELSE text[Max(now)].value
    BY DEF Said
  <2> HIDE DEF now
  <2> QED
    BY <1>2, <2>2, <2>3
<1>3. CASE ~ IsHeader(text[k], key)
  <2>1. now = before
    BY <1>1, <1>3 DEF IsHeader
  <2>2. Said(text, h + 1 .. k, key) = IF now = {} THEN "" ELSE text[Max(now)].value
    BY DEF Said
  <2>3. Said(text, h + 1 .. k - 1, key) = IF before = {} THEN "" ELSE text[Max(before)].value
    BY DEF Said
  <2> HIDE DEF now, before
  <2> QED
    BY <1>3, <2>1, <2>2, <2>3
<1> QED
  BY <1>2, <1>3

\* No heading has been read below the one at h.
Open(text, h, k) == \A j \in h + 1 .. k : text[j].kind # "heading"

\* A test has the name and the headers that some lines below a heading give it.
OfHeading(test, text, h, lines) ==
    /\ test.name = TestName(text[h].name)
    /\ test.headers.environment = Said(text, lines, "environment")
    /\ test.headers.risk = Said(text, lines, "risk")

\* The heading that is open is that of the test being read, the others have their test.
HeadingsKept(text, k, r) ==
    /\ \A h \in 1 .. k : text[h].kind = "heading" /\ Open(text, h, k) =>
           /\ OfHeading(r, text, h, h + 1 .. k)
           /\ (\E j \in h + 1 .. k : text[j].kind = "sentence") => r.body # <<>>
    /\ \A h \in 1 .. k : BeginsTest(text, h) /\ ~ Open(text, h, k) =>
           \E i \in DOMAIN r.tests : OfHeading(r.tests[i], text, h, Below(text, h))

\* Ending the test being read changes no earlier one.
LEMMA FlushKeeps ==
    ASSUME NEW r \in Readings, NEW i \in DOMAIN r.tests
    PROVE  i \in DOMAIN Flush(r) /\ Flush(r)[i] = r.tests[i]
<1>1. r.tests \in Seq(ReadTests)
  BY DEF Readings
<1> DEFINE new == [name |-> r.name, headers |-> r.headers, body |-> r.body]
<1>2. Flush(r) = r.tests \/ Flush(r) = Append(r.tests, new)
  BY DEF Flush
<1> HIDE DEF new
<1> QED
  BY <1>1, <1>2

\* When the test being read ends, every heading has its test.
LEMMA FlushHolds ==
    ASSUME NEW r \in Readings, NEW text, NEW k, HeadingsKept(text, k, r), NEW h \in 1 .. k,
           BeginsTest(text, h), Open(text, h, k) => Below(text, h) = h + 1 .. k
    PROVE  \E i \in DOMAIN Flush(r) : OfHeading(Flush(r)[i], text, h, Below(text, h))
<1>1. CASE ~ Open(text, h, k)
  <2>1. PICK i \in DOMAIN r.tests : OfHeading(r.tests[i], text, h, Below(text, h))
    BY <1>1 DEF HeadingsKept
  <2> QED
    BY <2>1, FlushKeeps
<1>2. CASE Open(text, h, k)
  <2> DEFINE new == [name |-> r.name, headers |-> r.headers, body |-> r.body]
  <2>1. /\ OfHeading(r, text, h, Below(text, h))
        /\ (\E j \in Below(text, h) : text[j].kind = "sentence") => r.body # <<>>
    BY <1>2 DEF HeadingsKept, BeginsTest
  <2>2. OfHeading(new, text, h, Below(text, h))
    BY <2>1 DEF OfHeading
  <2>3. r.name # "" \/ r.body # <<>>
    BY <2>1, TestNameIs DEF BeginsTest, OfHeading
  <2>4. Flush(r) = Append(r.tests, new) /\ r.tests \in Seq(ReadTests)
    BY <2>3 DEF Flush, Readings
  <2> HIDE DEF new
  <2>5. Len(r.tests) + 1 \in DOMAIN Flush(r) /\ Flush(r)[Len(r.tests) + 1] = new
    BY <2>4
  <2> QED
    BY <2>2, <2>5
<1> QED
  BY <1>1, <1>2

\* Reading a line keeps every heading with its test.
LEMMA HeadingsStep ==
    ASSUME NEW text \in Seq(Lines), NEW k \in 1 .. Len(text), NEW r \in Readings, NEW q \in Readings,
           q = Read(r, text[k]), AllUnderstood(Flush(q)), HeadingsKept(text, k - 1, r)
    PROVE  HeadingsKept(text, k, q)
<1>1. k \in Nat /\ k >= 1 /\ text[k] \in Lines /\ Len(text) \in Nat
  OBVIOUS
<1>2. /\ text[k].kind = "header" => r.body = <<>> /\ q.body = <<>>
      /\ text[k].kind = "sentence" => q.body # <<>>
  BY <1>1, LineCounts
<1>3. \/ text[k].kind = "comment" /\ q = r
      \/ /\ text[k].kind = "heading"
         /\ q.tests = Flush(r) /\ q.name = TestName(text[k].name) /\ q.headers = NoHeaders
      \/ /\ text[k].kind = "header" /\ text[k].key \in {"environment", "risk"}
         /\ q.tests = r.tests /\ q.name = r.name /\ q.body = r.body
         /\ q.headers = [r.headers EXCEPT ![text[k].key] = text[k].value]
      \/ /\ text[k].kind = "sentence"
         /\ q.tests = r.tests /\ q.name = r.name /\ q.headers = r.headers
  <2>1. CASE text[k].kind = "comment" /\ Read(r, text[k]) = r
    BY <2>1
  <2>2. CASE /\ text[k].kind = "heading"
             /\ Read(r, text[k]) = [tests |-> Flush(r), name |-> TestName(text[k].name),
                                    headers |-> NoHeaders, body |-> <<>>]
    BY <2>2
  <2>3. CASE /\ text[k].kind = "header" /\ r.body = <<>>
             /\ text[k].key \in {"environment", "risk"} /\ text[k].value \in STRING
             /\ Read(r, text[k]) = [r EXCEPT !.headers = [@ EXCEPT ![text[k].key] = text[k].value]]
    BY <2>3 DEF Readings
  <2>4. CASE /\ text[k].kind = "sentence" \/ text[k].kind = "header"
             /\ Read(r, text[k]) = [r EXCEPT !.body = Append(r.body, text[k])]
    <3>1. /\ q.tests = r.tests /\ q.name = r.name /\ q.headers = r.headers /\ q.body = Append(r.body, text[k])
          /\ r.body \in Seq(Lines)
      BY <2>4 DEF Readings
    <3>2. q.body # <<>>
      BY <1>1, <3>1
    <3> QED
      BY <1>2, <2>4, <3>1, <3>2
  <2> QED
    BY <1>1, <2>1, <2>2, <2>3, <2>4, ReadCases
<1>4. ASSUME NEW h \in 1 .. k, text[h].kind = "heading", Open(text, h, k)
      PROVE  /\ OfHeading(q, text, h, h + 1 .. k)
             /\ (\E j \in h + 1 .. k : text[j].kind = "sentence") => q.body # <<>>
  <2>1. CASE h = k
    <3>1. q.name = TestName(text[h].name) /\ q.headers = NoHeaders
      BY <1>3, <1>4, <2>1
    <3>2. h + 1 .. k = {}
      BY <2>1
    <3>3. \A key : Said(text, h + 1 .. k, key) = ""
      BY <3>2, SaidOfNone
    <3>4. q.headers.environment = "" /\ q.headers.risk = ""
      <4>1. NoHeaders.environment = "" /\ NoHeaders.risk = ""
        BY DEF NoHeaders
      <4> QED
        BY <3>1, <4>1
    <3>5. OfHeading(q, text, h, h + 1 .. k)
      BY <3>1, <3>3, <3>4 DEF OfHeading
    <3> QED
      BY <3>2, <3>5
  <2>2. CASE h # k
    <3>1. /\ h \in Nat /\ h < k /\ h \in 1 .. k - 1 /\ k \in h + 1 .. k
          /\ h + 1 .. k = (h + 1 .. k - 1) \cup {k}
      BY <2>2
    <3>2. Open(text, h, k - 1) /\ text[k].kind # "heading"
      BY <1>4, <3>1 DEF Open
    <3>3. /\ OfHeading(r, text, h, h + 1 .. k - 1)
          /\ (\E j \in h + 1 .. k - 1 : text[j].kind = "sentence") => r.body # <<>>
      BY <1>4, <3>1, <3>2 DEF HeadingsKept
    <3>4. \A key : Said(text, h + 1 .. k, key) =
                       IF IsHeader(text[k], key) THEN text[k].value ELSE Said(text, h + 1 .. k - 1, key)
      BY <1>1, <3>1, SaidGrows
    <3>5. OfHeading(q, text, h, h + 1 .. k)
      <4>1. CASE text[k].kind # "header"
        <5>1. q.name = r.name /\ q.headers = r.headers
          BY <1>3, <3>2, <4>1
        <5> QED
          BY <3>3, <3>4, <4>1, <5>1 DEF OfHeading, IsHeader
      <4>2. CASE text[k].kind = "header"
        <5>1. /\ text[k].key \in {"environment", "risk"} /\ q.name = r.name
              /\ q.headers = [r.headers EXCEPT ![text[k].key] = text[k].value]
              /\ r.headers \in HeadersRead
          BY <1>3, <4>2 DEF Readings
        <5>2. CASE text[k].key = "environment"
          <6>1. q.headers.environment = text[k].value /\ q.headers.risk = r.headers.risk
            BY <5>1, <5>2 DEF HeadersRead
          <6> QED
            BY <3>3, <3>4, <4>2, <5>1, <5>2, <6>1 DEF OfHeading, IsHeader
        <5>3. CASE text[k].key = "risk"
          <6>1. q.headers.risk = text[k].value /\ q.headers.environment = r.headers.environment
            BY <5>1, <5>3 DEF HeadersRead
          <6> QED
            BY <3>3, <3>4, <4>2, <5>1, <5>3, <6>1 DEF OfHeading, IsHeader
        <5> QED
          BY <5>1, <5>2, <5>3
      <4> QED
        BY <4>1, <4>2
    <3>6. (\E j \in h + 1 .. k : text[j].kind = "sentence") => q.body # <<>>
      <4>1. CASE text[k].kind = "sentence"
        BY <1>2, <4>1
      <4>2. CASE text[k].kind # "sentence"
        <5>1. q.body = r.body
          BY <1>3, <3>2, <4>2
        <5> QED
          BY <3>1, <3>3, <4>2, <5>1
      <4> QED
        BY <4>1, <4>2
    <3> QED
      BY <3>5, <3>6
  <2> QED
    BY <2>1, <2>2
<1>5. ASSUME NEW h \in 1 .. k, BeginsTest(text, h), ~ Open(text, h, k)
      PROVE  \E i \in DOMAIN q.tests : OfHeading(q.tests[i], text, h, Below(text, h))
  <2>1. h \in 1 .. k - 1 /\ h + 1 .. k = (h + 1 .. k - 1) \cup {k} /\ h \in Nat
    <3>1. h # k
      BY <1>5 DEF Open
    <3> QED
      BY <1>1, <3>1
  <2>2. CASE text[k].kind = "heading"
    <3>1. q.tests = Flush(r)
      BY <1>3, <2>2
    <3>2. Open(text, h, k - 1) => Below(text, h) = h + 1 .. k - 1
      <4> SUFFICES ASSUME Open(text, h, k - 1) PROVE Below(text, h) = h + 1 .. k - 1
        OBVIOUS
      <4>1. ASSUME NEW j \in h + 1 .. k - 1 PROVE j \in Below(text, h)
        <5>1. j \in h + 1 .. Len(text) /\ \A i \in h + 1 .. j : i \in h + 1 .. k - 1
          BY <1>1
        <5> QED
          BY <5>1 DEF Below, Open
      <4>2. ASSUME NEW j \in Below(text, h) PROVE j \in h + 1 .. k - 1
        <5>1. j \in h + 1 .. Len(text) /\ \A i \in h + 1 .. j : text[i].kind # "heading"
          BY DEF Below
        <5>2. k \notin h + 1 .. j
          BY <2>2, <5>1
        <5> QED
          BY <1>1, <2>1, <5>1, <5>2
      <4> QED
        BY <4>1, <4>2
    <3> QED
      BY <1>5, <2>1, <3>1, <3>2, FlushHolds
  <2>3. CASE text[k].kind # "heading"
    <3>1. q.tests = r.tests
      BY <1>3, <2>3
    <3>2. ~ Open(text, h, k - 1)
      BY <1>5, <2>1, <2>3 DEF Open
    <3> QED
      BY <1>5, <2>1, <3>1, <3>2 DEF HeadingsKept
  <2> QED
    BY <2>2, <2>3
<1> QED
  BY <1>4, <1>5 DEF HeadingsKept

\* The steps of the sentences among the first k lines.
StepsUpTo(text, k) ==
    FlattenSeq([j \in 1 .. k |-> IF text[j].kind = "sentence" THEN StepsOf(text[j]) ELSE <<>>])

LEMMA StepsUpToNext ==
    ASSUME NEW text \in Seq(Lines), NEW k \in 1 .. Len(text)
    PROVE  StepsUpTo(text, k) = StepsUpTo(text, k - 1) \o Contributed(text[k])
<1> DEFINE s == [j \in 1 .. k - 1 |-> IF text[j].kind = "sentence" THEN StepsOf(text[j]) ELSE <<>>]
           u == [j \in 1 .. k |-> IF text[j].kind = "sentence" THEN StepsOf(text[j]) ELSE <<>>]
<1>1. k \in Nat /\ k - 1 \in Nat /\ (k - 1) + 1 = k /\ \A j \in 1 .. k : text[j] \in Lines
  OBVIOUS
<1>2. \A j \in 1 .. k : u[j] = Contributed(text[j]) /\ Contributed(text[j]) \in Seq(StepsMade)
  BY <1>1, StepsOfType DEF Contributed
<1>3. s \in Seq(Seq(StepsMade)) /\ Len(s) = k - 1
  <2>1. \A j \in 1 .. k - 1 : j \in 1 .. k /\ s[j] = u[j]
    BY <1>1
  <2> HIDE DEF u
  <2>2. s \in [1 .. k - 1 -> Seq(StepsMade)]
    BY <1>2, <2>1
  <2> QED
    BY <1>1, <2>2
<1>4. u = Append(s, Contributed(text[k]))
  <2>1. DOMAIN u = 1 .. (k - 1) + 1 /\ u = [i \in DOMAIN u |-> u[i]]
    BY <1>1
  <2>2. u[(k - 1) + 1] = Contributed(text[k]) /\ Contributed(text[k]) \in Seq(StepsMade)
    BY <1>1, <1>2
  <2>3. \A i \in 1 .. k - 1 : u[i] = s[i]
    BY <1>1
  <2> HIDE DEF s, u
  <2> QED
    BY <1>3, <2>1, <2>2, <2>3, AppendIs
<1>5. StepsUpTo(text, k) = FlattenSeq(u) /\ StepsUpTo(text, k - 1) = FlattenSeq(s)
  BY DEF StepsUpTo
<1>6. Contributed(text[k]) \in Seq(StepsMade)
  BY <1>1, <1>2
<1> HIDE DEF s, u
<1> QED
  BY <1>3, <1>4, <1>5, <1>6, FlattenAppend

\* What has been read of a file up to a line is all there, if its tests are understood.
ReadSoFar(text, k, r) ==
    AllUnderstood(Flush(r)) =>
        /\ \A j \in 1 .. k : text[j].kind = "sentence" => Understood(text[j])
        /\ StepsOfTests(Flush(r)) = StepsUpTo(text, k)
        /\ HeadingsKept(text, k, r)

LEMMA AllIsRead ==
    ASSUME NEW text \in Seq(Lines), NEW R \in [0 .. Len(text) -> Readings], Reading(R, text)
    PROVE  ReadSoFar(text, Len(text), R[Len(text)])
<1> DEFINE n == Len(text)
           good == {k \in 0 .. n : ReadSoFar(text, k, R[k])}
<1>1. n \in Nat /\ n \in 0 .. n
  OBVIOUS
<1>2. 0 \in good
  <2>1. R[0] = NothingRead
    BY DEF Reading
  <2>2. Flush(R[0]) = <<>>
    <3>1. NothingRead.body = <<>> /\ NothingRead.name = "" /\ NothingRead.tests = <<>>
      BY DEF NothingRead
    <3> QED
      BY <2>1, <3>1 DEF Flush
  <2>3. StepsOfTests(<<>>) = <<>>
    <3>1. [i \in DOMAIN <<>> |-> StepsOfAll(<<>>[i].body)] = <<>>
      OBVIOUS
    <3> QED
      BY <3>1, FlattenNone DEF StepsOfTests
  <2>4. StepsUpTo(text, 0) = <<>>
    <3>1. [j \in 1 .. 0 |-> IF text[j].kind = "sentence" THEN StepsOf(text[j]) ELSE <<>>] = <<>>
      OBVIOUS
    <3> QED
      BY <3>1, FlattenNone DEF StepsUpTo
  <2>5. 1 .. 0 = {}
    OBVIOUS
  <2>6. ReadSoFar(text, 0, R[0])
    BY <2>2, <2>3, <2>4, <2>5 DEF ReadSoFar, HeadingsKept
  <2> QED
    BY <1>1, <2>6
<1>3. ASSUME NEW k \in 1 .. n, k - 1 \in good PROVE k \in good
  <2>1. /\ k \in 0 .. n /\ k - 1 \in 0 .. n /\ ReadSoFar(text, k - 1, R[k - 1])
        /\ 1 .. k = (1 .. k - 1) \cup {k}
    BY <1>1, <1>3
  <2>2. R[k] = Read(R[k - 1], text[k]) /\ R[k] \in Readings /\ R[k - 1] \in Readings /\ text[k] \in Lines
    BY <2>1 DEF Reading
  <2>3. SUFFICES ASSUME AllUnderstood(Flush(R[k]))
                 PROVE  /\ \A j \in 1 .. k : text[j].kind = "sentence" => Understood(text[j])
                        /\ StepsOfTests(Flush(R[k])) = StepsUpTo(text, k)
                        /\ HeadingsKept(text, k, R[k])
    BY <2>1 DEF ReadSoFar
  <2>4. /\ AllUnderstood(Flush(R[k - 1]))
        /\ text[k].kind = "sentence" => Understood(text[k])
        /\ StepsOfTests(Flush(R[k])) = StepsOfTests(Flush(R[k - 1])) \o Contributed(text[k])
    BY <2>2, <2>3, LineCounts
  <2>5. /\ \A j \in 1 .. k - 1 : text[j].kind = "sentence" => Understood(text[j])
        /\ StepsOfTests(Flush(R[k - 1])) = StepsUpTo(text, k - 1)
        /\ HeadingsKept(text, k - 1, R[k - 1])
    BY <2>1, <2>4 DEF ReadSoFar
  <2>6. HeadingsKept(text, k, R[k])
    BY <2>2, <2>3, <2>5, HeadingsStep
  <2>7. StepsOfTests(Flush(R[k])) = StepsUpTo(text, k)
    BY <2>4, <2>5, StepsUpToNext
  <2>8. \A j \in 1 .. k : text[j].kind = "sentence" => Understood(text[j])
    BY <2>1, <2>4, <2>5
  <2> QED
    BY <2>6, <2>7, <2>8
<1>4. \A k \in 0 .. n : k \in good
  <2> HIDE DEF good, n
  <2> QED
    BY <1>1, <1>2, <1>3, UpTo
<1> QED
  BY <1>1, <1>4

LEMMA PlanFromIs ==
    ASSUME NEW test
    PROVE  /\ PlanFrom(test).steps = StepsOfAll(test.body)
           /\ PlanFrom(test).name = OrElse(test.name, "Untitled test")
           /\ PlanFrom(test).risk = OrElse(test.headers.risk, "low")
           /\ PlanFrom(test).environment = OrElse(test.headers.environment, DefaultEnvironment)
BY DEF PlanFrom, OrElse, EnvironmentOf

\* A file that is understood is its plans: every sentence is in them and every heading has its own.
LEMMA FileIsItsPlans ==
    ASSUME NEW text \in Seq(Lines), Understands(text)
    PROVE  /\ \A k \in DOMAIN text : text[k].kind = "sentence" => Understood(text[k])
           /\ FlattenSeq([i \in DOMAIN PlansOf(text) |-> PlansOf(text)[i].steps]) =
                  StepsUpTo(text, Len(text))
           /\ \A h \in DOMAIN text : BeginsTest(text, h) =>
                  \E i \in DOMAIN PlansOf(text) :
                      /\ PlansOf(text)[i].name = OrElse(TestName(text[h].name), "Untitled test")
                      /\ PlansOf(text)[i].risk = OrElse(Said(text, Below(text, h), "risk"), "low")
                      /\ PlansOf(text)[i].environment =
                             OrElse(Said(text, Below(text, h), "environment"), DefaultEnvironment)
<1> DEFINE tests == SplitTests(text)
           n == Len(text)
<1>1. PICK R \in [0 .. Len(text) -> Readings] : Reading(R, text) /\ tests = Flush(R[Len(text)])
  BY SplitReads
<1>2. n \in Nat /\ DOMAIN text = 1 .. n /\ R[n] \in Readings
  OBVIOUS
<1>3. AllUnderstood(Flush(R[n]))
  BY <1>1 DEF Understands, Compiles, AllUnderstood
<1>4. /\ \A j \in 1 .. n : text[j].kind = "sentence" => Understood(text[j])
      /\ StepsOfTests(tests) = StepsUpTo(text, n)
      /\ HeadingsKept(text, n, R[n])
  BY <1>1, <1>3, AllIsRead DEF ReadSoFar
<1>5. /\ DOMAIN PlansOf(text) = DOMAIN tests
      /\ \A i \in DOMAIN tests : PlansOf(text)[i] = PlanFrom(tests[i])
  BY DEF PlansOf
<1>6. FlattenSeq([i \in DOMAIN PlansOf(text) |-> PlansOf(text)[i].steps]) = StepsUpTo(text, n)
  <2>1. \A i \in DOMAIN tests : PlansOf(text)[i].steps = StepsOfAll(tests[i].body)
    BY <1>5, PlanFromIs
  <2>2. [i \in DOMAIN PlansOf(text) |-> PlansOf(text)[i].steps] = [i \in DOMAIN tests |-> StepsOfAll(tests[i].body)]
    BY <1>5, <2>1
  <2> QED
    BY <1>4, <2>2 DEF StepsOfTests
<1>7. ASSUME NEW h \in 1 .. n, BeginsTest(text, h)
      PROVE  \E i \in DOMAIN PlansOf(text) :
                 /\ PlansOf(text)[i].name = OrElse(TestName(text[h].name), "Untitled test")
                 /\ PlansOf(text)[i].risk = OrElse(Said(text, Below(text, h), "risk"), "low")
                 /\ PlansOf(text)[i].environment =
                        OrElse(Said(text, Below(text, h), "environment"), DefaultEnvironment)
  <2>1. Open(text, h, n) => Below(text, h) = h + 1 .. n
    BY <1>2 DEF Open, Below
  <2>2. PICK i \in DOMAIN tests : OfHeading(tests[i], text, h, Below(text, h))
    BY <1>1, <1>2, <1>4, <1>7, <2>1, FlushHolds
  <2> HIDE DEF tests
  <2>3. i \in DOMAIN PlansOf(text) /\ PlansOf(text)[i] = PlanFrom(tests[i])
    BY <1>5
  <2>4. /\ PlansOf(text)[i].name = OrElse(TestName(text[h].name), "Untitled test")
        /\ PlansOf(text)[i].risk = OrElse(Said(text, Below(text, h), "risk"), "low")
        /\ PlansOf(text)[i].environment =
               OrElse(Said(text, Below(text, h), "environment"), DefaultEnvironment)
    BY <2>2, <2>3, PlanFromIs DEF OfHeading
  <2> QED
    BY <2>3, <2>4
<1> QED
  BY <1>2, <1>4, <1>6, <1>7

-----------------------------------------------------------------------------
(***************************************************************************)
(* Drafting: what a test case says is never lost on the way to a draft.    *)
(***************************************************************************)

\* The steps that a draft of the case can have.
DraftSteps(case, environment) ==
    {Authenticate(case)} \cup
    {Mapped(case, environment, step) :
        step \in {step \in CaseStep : step.kind \in {"navigate", "api", "fill", "click"}}} \cup
    {AssertionFor(e)[1] : e \in {e \in Expectation : e.kind \notin {"none", "prose"}}}

ToDo == {"actor", "step", "expectation", "result"} \X Nat

DraftsOf(case, environment) ==
    [steps : Seq(DraftSteps(case, environment)), todos : SUBSET ToDo, mapped : SUBSET Nat,
     signedIn : BOOLEAN]

\* What is expected becomes at most one step, and none exactly when it is prose.
LEMMA AssertionType ==
    ASSUME NEW case, NEW environment, NEW e \in Expectation
    PROVE  /\ AssertionFor(e) \in Seq(DraftSteps(case, environment))
           /\ e.kind \in {"none", "prose"} <=> AssertionFor(e) = <<>>
           /\ AssertionFor(e) # <<>> => AssertionFor(e) = <<Head(AssertionFor(e))>>
<1>1. CASE e.kind \in {"none", "prose"}
  <2>1. AssertionFor(e) = <<>>
    BY <1>1 DEF AssertionFor
  <2> QED
    BY <1>1, <2>1
<1>2. CASE e.kind \notin {"none", "prose"}
  <2>1. AssertionFor(e)[1] \in DraftSteps(case, environment)
    BY <1>2 DEF DraftSteps
  <2>2. PICK step : AssertionFor(e) = <<step>>
    BY <1>2 DEF AssertionFor
  <2>3. step \in DraftSteps(case, environment) /\ AssertionFor(e) # <<>> /\ Head(AssertionFor(e)) = step
    BY <2>1, <2>2
  <2> QED
    BY <1>2, <2>2, <2>3
<1> QED
  BY <1>1, <1>2

\* What has been noted of a draft is never lost.
Grows(x, y) ==
    /\ x.mapped \subseteq y.mapped /\ x.todos \subseteq y.todos
    /\ ToSet(x.steps) \subseteq ToSet(y.steps)

\* What is expected has become an assertion or something to do.
Asserted(e, x) == AssertionFor(e) # <<>> /\ Head(AssertionFor(e)) \in ToSet(x.steps)
ExpectationKept(e, i, x) == e = Nothing \/ Asserted(e, x) \/ <<"expectation", i>> \in x.todos

\* Taking an expectation with its step loses nothing and keeps the expectation.
LEMMA ExpectedAdds ==
    ASSUME NEW case, NEW environment, NEW draft \in DraftsOf(case, environment), NEW i \in Nat,
           NEW e \in Expectation, NEW new \in Seq(DraftSteps(case, environment)),
           NEW q, q = WithExpected(draft, i, e, new)
    PROVE  /\ q \in DraftsOf(case, environment) /\ Grows(draft, q)
           /\ new # <<>> => i \in q.mapped
           /\ ExpectationKept(e, i, q) /\ ToSet(new) \subseteq ToSet(q.steps)
<1> DEFINE S == DraftSteps(case, environment)
           a == AssertionFor(e)
           all == new \o a
           marked == IF all = <<>> THEN draft.mapped ELSE draft.mapped \cup {i}
           todo == IF e.kind = "prose" THEN draft.todos \cup {<<"expectation", i>>} ELSE draft.todos
<1>1. /\ a \in Seq(S)
      /\ e.kind \in {"none", "prose"} <=> a = <<>>
      /\ a # <<>> => a = <<Head(a)>>
  BY AssertionType
<1>2. /\ draft.steps \in Seq(S) /\ draft.todos \subseteq ToDo /\ draft.mapped \subseteq Nat
      /\ draft.signedIn \in BOOLEAN
      /\ q = [steps |-> draft.steps \o all, todos |-> todo, mapped |-> marked, signedIn |-> draft.signedIn]
  BY DEF DraftsOf, WithExpected
<1>3. all \in Seq(S) /\ ToSet(all) = ToSet(new) \cup ToSet(a)
  BY <1>1, WithMore
<1>4. draft.steps \o all \in Seq(S) /\ ToSet(draft.steps \o all) = ToSet(draft.steps) \cup ToSet(all)
  <2> HIDE DEF all
  <2> QED
    BY <1>2, <1>3, WithMore
<1>5. todo \subseteq ToDo /\ draft.todos \subseteq todo /\ (e.kind = "prose" => <<"expectation", i>> \in todo)
  BY <1>2 DEF ToDo
<1>6. /\ marked \subseteq Nat /\ draft.mapped \subseteq marked
      /\ new # <<>> => i \in marked
  <2>1. new # <<>> => all # <<>>
    <3>1. Len(all) = Len(new) + Len(a) /\ Len(a) \in Nat /\ Len(new) \in Nat
      BY <1>1
    <3>2. new # <<>> => Len(new) # 0
      BY EmptySeq
    <3> QED
      BY <3>1, <3>2
  <2> HIDE DEF all
  <2> QED
    BY <1>2, <2>1
<1>7. a # <<>> => Head(a) \in ToSet(a)
  <2>1. \A x : x \in ToSet(<<x>>)
    <3>1. \A x : 1 \in DOMAIN <<x>> /\ <<x>>[1] = x
      OBVIOUS
    <3> QED
      BY <3>1 DEF ToSet
  <2> HIDE DEF a
  <2> QED
    BY <1>1, <2>1
<1>8. e.kind = "none" => e = Nothing
  BY DEF Expectation
<1> HIDE DEF a, all, todo, marked
<1>9. q \in DraftsOf(case, environment) /\ Grows(draft, q)
  BY <1>2, <1>4, <1>5, <1>6 DEF DraftsOf, Grows
<1>10. ExpectationKept(e, i, q)
  BY <1>1, <1>2, <1>3, <1>4, <1>5, <1>7, <1>8 DEF ExpectationKept, Asserted, a
<1>11. ToSet(new) \subseteq ToSet(q.steps)
  BY <1>2, <1>3, <1>4
<1> QED
  BY <1>2, <1>6, <1>9, <1>10, <1>11

\* A step of the case is mapped or something to do, and so is what it expects.
StepKept(case, i, x) ==
    /\ i \in x.mapped \/ <<"step", i>> \in x.todos
    /\ \/ case.steps[i].kind \in {"verify", "other"}
       \/ ExpectationKept(case.steps[i].expected, i, x)
    /\ case.steps[i].kind = "verify" => Asserted(case.steps[i].checks, x) \/ <<"step", i>> \in x.todos

\* What is noted stays noted over several steps, and so does what is kept.
LEMMA GrowsOn ==
    ASSUME NEW x, NEW y, NEW z, Grows(x, y), Grows(y, z)
    PROVE  Grows(x, z)
BY DEF Grows

LEMMA KeptOn ==
    ASSUME NEW case, NEW i, NEW x, NEW y, StepKept(case, i, x), Grows(x, y)
    PROVE  StepKept(case, i, y)
BY DEF StepKept, ExpectationKept, Asserted, Grows

\* More to do, or one more step mapped, is a draft still.
LEMMA NotesAdd ==
    ASSUME NEW case, NEW environment, NEW x \in DraftsOf(case, environment), NEW todo \in ToDo, NEW i \in Nat
    PROVE  /\ [x EXCEPT !.todos = @ \cup {todo}] \in DraftsOf(case, environment)
           /\ Grows(x, [x EXCEPT !.todos = @ \cup {todo}])
           /\ todo \in [x EXCEPT !.todos = @ \cup {todo}].todos
           /\ [x EXCEPT !.mapped = @ \cup {i}] \in DraftsOf(case, environment)
           /\ Grows(x, [x EXCEPT !.mapped = @ \cup {i}])
           /\ i \in [x EXCEPT !.mapped = @ \cup {i}].mapped
BY DEF DraftsOf, Grows

\* Signing in adds to a draft.
LEMMA SigningInType ==
    ASSUME NEW case, NEW environment, NEW x \in DraftsOf(case, environment)
    PROVE  SigningIn(case, x) \in DraftsOf(case, environment) /\ Grows(x, SigningIn(case, x))
<1>1. <<"actor", 0>> \in ToDo
  BY DEF ToDo
<1> QED
  BY <1>1 DEF SigningIn, DraftsOf, Grows

LEMMA OneStep ==
    ASSUME NEW case, NEW environment, NEW step \in DraftSteps(case, environment)
    PROVE  <<step>> \in Seq(DraftSteps(case, environment)) /\ <<step>> # <<>>
OBVIOUS

\* The mapping of the steps begins with a draft.
LEMMA StartedType ==
    ASSUME NEW case, NEW environment
    PROVE  Started(case) \in DraftsOf(case, environment)
<1>1. Untouched \in DraftsOf(case, environment)
  BY DEF Untouched, DraftsOf
<1>2. Authenticate(case) \in DraftSteps(case, environment)
  BY DEF DraftSteps
<1>3. <<Authenticate(case)>> \in Seq(DraftSteps(case, environment))
  BY <1>2, OneStep
<1>4. SigningIn(case, Untouched) \in DraftsOf(case, environment)
  BY <1>1, SigningInType
<1>5. [SigningIn(case, Untouched) EXCEPT !.steps = <<Authenticate(case)>>] \in DraftsOf(case, environment)
  BY <1>3, <1>4 DEF DraftsOf
<1> QED
  BY <1>1, <1>5 DEF Started

\* One step of the case leaves a draft that has lost nothing and keeps that step.
LEMMA MapStepKeeps ==
    ASSUME NEW case \in Case, NEW environment, NEW i \in DOMAIN case.steps,
           NEW x \in DraftsOf(case, environment), NEW q, q = MapStep(case, environment, x, i)
    PROVE  q \in DraftsOf(case, environment) /\ Grows(x, q) /\ StepKept(case, i, q)
<1> DEFINE step == case.steps[i]
           S == DraftSteps(case, environment)
           noted == [x EXCEPT !.todos = @ \cup {<<"step", i>>}]
           marked == [x EXCEPT !.mapped = @ \cup {i}]
<1>1. /\ i \in Nat /\ step \in CaseStep /\ step.checks \in Expectation /\ step.expected \in Expectation
      /\ Nothing \in Expectation /\ <<>> \in Seq(S) /\ <<"step", i>> \in ToDo
  <2>1. case.steps \in Seq(CaseStep)
    BY DEF Case
  <2>2. i \in Nat /\ step \in CaseStep
    BY <2>1
  <2>3. step.checks \in Expectation /\ step.expected \in Expectation
    BY <2>2 DEF CaseStep
  <2>4. Nothing \in Expectation /\ <<"step", i>> \in ToDo
    BY <2>2 DEF Expectation, ToDo
  <2> QED
    BY <2>2, <2>3, <2>4
<1>2. /\ noted \in DraftsOf(case, environment) /\ Grows(x, noted) /\ <<"step", i>> \in noted.todos
      /\ marked \in DraftsOf(case, environment) /\ Grows(x, marked) /\ i \in marked.mapped
  BY <1>1, NotesAdd
<1> HIDE DEF noted, marked
<1>3. CASE step.kind = "log in" /\ x.signedIn
  <2>1. q = WithExpected(marked, i, step.expected, <<>>)
    BY <1>3 DEF MapStep, marked
  <2>2. /\ q \in DraftsOf(case, environment) /\ Grows(marked, q) /\ ExpectationKept(step.expected, i, q)
    BY <1>1, <1>2, <2>1, ExpectedAdds
  <2>3. Grows(x, q) /\ i \in q.mapped
    BY <1>2, <2>2 DEF Grows
  <2> QED
    BY <1>3, <2>2, <2>3 DEF StepKept
<1>4. CASE step.kind = "log in" /\ ~x.signedIn
  <2>1. q = WithExpected(SigningIn(case, x), i, step.expected, <<Authenticate(case)>>)
    BY <1>4 DEF MapStep
  <2>2. <<Authenticate(case)>> \in Seq(S) /\ <<Authenticate(case)>> # <<>>
    <3>1. Authenticate(case) \in S
      BY DEF DraftSteps
    <3> QED
      BY <3>1, OneStep
  <2>3. SigningIn(case, x) \in DraftsOf(case, environment) /\ Grows(x, SigningIn(case, x))
    BY SigningInType
  <2>4. /\ q \in DraftsOf(case, environment) /\ Grows(SigningIn(case, x), q)
        /\ ExpectationKept(step.expected, i, q) /\ i \in q.mapped
    <3>1. PICK new : new = <<Authenticate(case)>>
      OBVIOUS
    <3>2. PICK y : y = SigningIn(case, x)
      OBVIOUS
    <3>3. new \in Seq(DraftSteps(case, environment)) /\ new # <<>>
      BY <2>2, <3>1
    <3>4. y \in DraftsOf(case, environment) /\ q = WithExpected(y, i, step.expected, new)
      BY <2>1, <2>3, <3>1, <3>2
    <3>5. PICK e \in Expectation : e = step.expected
      BY <1>1
    <3>6. i \in Nat /\ q = WithExpected(y, i, e, new)
      BY <1>1, <3>4, <3>5
    <3>7. /\ q \in DraftsOf(case, environment) /\ Grows(y, q)
          /\ new # <<>> => i \in q.mapped
          /\ ExpectationKept(e, i, q)
      BY ONLY <3>3, <3>4, <3>6, ExpectedAdds
    <3> QED
      BY <3>2, <3>3, <3>5, <3>7
  <2>5. Grows(x, q)
    BY <2>3, <2>4, GrowsOn
  <2> QED
    BY <1>4, <2>4, <2>5 DEF StepKept
<1>5. CASE step.kind \in {"navigate", "api", "fill", "click"}
  <2>1. q = WithExpected(noted, i, step.expected, <<Mapped(case, environment, step)>>)
    BY <1>5 DEF MapStep, noted
  <2>2. <<Mapped(case, environment, step)>> \in Seq(S)
    <3>1. Mapped(case, environment, step) \in S
      BY <1>1, <1>5 DEF DraftSteps
    <3> HIDE DEF S
    <3> QED
      BY <3>1
  <2>3. q \in DraftsOf(case, environment) /\ Grows(noted, q) /\ ExpectationKept(step.expected, i, q)
    BY <1>1, <1>2, <2>1, <2>2, ExpectedAdds
  <2>4. Grows(x, q) /\ <<"step", i>> \in q.todos
    BY <1>2, <2>3 DEF Grows
  <2> QED
    BY <2>3, <2>4 DEF StepKept
<1>6. CASE step.kind = "credential"
  <2>1. q = WithExpected(noted, i, step.expected, <<>>)
    BY <1>6 DEF MapStep, noted
  <2>2. q \in DraftsOf(case, environment) /\ Grows(noted, q) /\ ExpectationKept(step.expected, i, q)
    BY <1>1, <1>2, <2>1, ExpectedAdds
  <2>3. Grows(x, q) /\ <<"step", i>> \in q.todos
    BY <1>2, <2>2 DEF Grows
  <2> QED
    BY <2>2, <2>3 DEF StepKept
<1>7. CASE step.kind = "verify" /\ AssertionFor(step.checks) # <<>>
  <2>1. q = WithExpected(x, i, Nothing, AssertionFor(step.checks))
    BY <1>7 DEF MapStep
  <2>2. AssertionFor(step.checks) \in Seq(S)
    BY <1>1, AssertionType
  <2>3. /\ q \in DraftsOf(case, environment) /\ Grows(x, q) /\ i \in q.mapped
        /\ ToSet(AssertionFor(step.checks)) \subseteq ToSet(q.steps)
    <3>1. PICK new : new = AssertionFor(step.checks)
      OBVIOUS
    <3> HIDE DEF step
    <3>2. /\ new \in Seq(DraftSteps(case, environment)) /\ new # <<>>
          /\ q = WithExpected(x, i, Nothing, new)
      BY <1>7, <2>1, <2>2, <3>1
    <3>3. Nothing \in Expectation /\ i \in Nat
      BY <1>1 DEF Expectation
    <3>4. /\ q \in DraftsOf(case, environment) /\ Grows(x, q) /\ i \in q.mapped
          /\ ToSet(new) \subseteq ToSet(q.steps)
      BY ONLY <3>2, <3>3, ExpectedAdds
    <3> QED
      BY <3>1, <3>4
  <2>4. Asserted(step.checks, q)
    <3>1. PICK a : AssertionFor(step.checks) = <<a>>
      BY <1>1, <1>7, AssertionType
    <3>2. Head(<<a>>) = a /\ a \in ToSet(<<a>>)
      <4>1. 1 \in DOMAIN <<a>> /\ <<a>>[1] = a
        OBVIOUS
      <4> QED
        BY <4>1 DEF ToSet
    <3> QED
      BY <1>7, <2>3, <3>1, <3>2 DEF Asserted
  <2> QED
    BY <1>7, <2>3, <2>4 DEF StepKept
<1>8. CASE \/ step.kind = "verify" /\ AssertionFor(step.checks) = <<>>
           \/ step.kind = "other"
  <2>1. q = noted
    BY <1>8 DEF MapStep, noted
  <2> QED
    BY <1>2, <1>8, <2>1 DEF StepKept
<1>9. /\ step.kind \in {"log in", "navigate", "api", "fill", "credential", "click", "verify", "other"}
      /\ x.signedIn \in BOOLEAN
  BY <1>1 DEF CaseStep, DraftsOf
<1> QED
  BY <1>3, <1>4, <1>5, <1>6, <1>7, <1>8, <1>9

\* The draft behind each step of the case.
Mapping(R, case, environment) ==
    /\ R[0] = Started(case)
    /\ \A k \in 1 .. Len(case.steps) : R[k] = MapStep(case, environment, R[k - 1], k)

\* Mapping the steps is mapping them one by one.
LEMMA MapStepsRun ==
    ASSUME NEW case \in Case, NEW environment
    PROVE  \E R \in [0 .. Len(case.steps) -> DraftsOf(case, environment)] :
               Mapping(R, case, environment) /\ MapSteps(case, environment) = R[Len(case.steps)]
<1> DEFINE n == Len(case.steps)
           T == DraftsOf(case, environment)
           places == [i \in DOMAIN case.steps |-> i]
           Eqn(it) == it = [s \in SUBSET DOMAIN places |->
                               IF s = {} THEN Started(case)
                               ELSE MapStep(case, environment, it[s \ {Max(s)}], places[Max(s)])]
           iter == CHOOSE it : Eqn(it)
           G == [i \in 1 .. n |-> [x \in T |-> MapStep(case, environment, x, i)]]
<1>1. MapSteps(case, environment) = iter[DOMAIN places]
  BY DEF MapSteps, FoldLeftDomain, FoldLeft, MapThenFoldSet
<1>2. n \in Nat /\ DOMAIN case.steps = 1 .. n /\ DOMAIN places = 1 .. n /\ \A i \in 1 .. n : places[i] = i
  <2>1. case.steps \in Seq(CaseStep)
    BY DEF Case
  <2> QED
    BY <2>1
<1> HIDE DEF places, n
<1>3. \A i \in 1 .. n, x \in T : G[i][x] = MapStep(case, environment, x, i) /\ G[i][x] \in T
  BY <1>2, MapStepKeeps
<1>4. Started(case) \in T
  BY StartedType
<1> HIDE DEF G, T
<1>5. \E it : Eqn(it)
  <2>1. PICK it \in [SUBSET (1 .. n) -> T] : FoldsBy(it, n, Started(case), G)
    BY <1>2, <1>3, <1>4, FoldExists
  <2>2. ASSUME NEW s \in SUBSET (1 .. n)
        PROVE  it[s] = IF s = {} THEN Started(case)
                       ELSE MapStep(case, environment, it[s \ {Max(s)}], places[Max(s)])
    <3>1. CASE s # {}
      <4>1. Max(s) \in 1 .. n
        BY <1>2, <3>1, FiniteMax
      <4>2. it[s \ {Max(s)}] \in T
        OBVIOUS
      <4>3. it[s] = G[Max(s)][it[s \ {Max(s)}]]
        BY <2>1, <3>1 DEF FoldsBy
      <4> QED
        BY <1>2, <1>3, <3>1, <4>1, <4>2, <4>3
    <3>2. CASE s = {}
      BY <2>1, <3>2 DEF FoldsBy
    <3> QED
      BY <3>1, <3>2
  <2>3. it = [s \in SUBSET DOMAIN places |-> it[s]]
    BY <1>2
  <2>4. it = [s \in SUBSET DOMAIN places |->
                 IF s = {} THEN Started(case)
                 ELSE MapStep(case, environment, it[s \ {Max(s)}], places[Max(s)])]
    <3>1. \A s \in SUBSET DOMAIN places :
              it[s] = IF s = {} THEN Started(case)
                      ELSE MapStep(case, environment, it[s \ {Max(s)}], places[Max(s)])
      BY <1>2, <2>2
    <3> QED
      BY <2>3, <3>1
  <2>5. Eqn(it)
    BY <2>4
  <2> HIDE DEF Eqn
  <2> QED
    BY <2>5
<1>6. Eqn(iter)
  BY <1>5
<1> HIDE DEF iter
<1>7. \A s \in SUBSET (1 .. n) :
          iter[s] = IF s = {} THEN Started(case)
                    ELSE MapStep(case, environment, iter[s \ {Max(s)}], places[Max(s)])
  BY <1>2, <1>6
<1> HIDE DEF Eqn
<1>8. PICK R \in [0 .. n -> T] : Runs(R, n, Started(case), G) /\ R[n] = iter[1 .. n]
  <2>1. iter[{}] = Started(case)
    BY <1>7
  <2>2. ASSUME NEW s \in SUBSET (1 .. n), s # {}, iter[s \ {Max(s)}] \in T
        PROVE  iter[s] = G[Max(s)][iter[s \ {Max(s)}]]
    <3>1. Max(s) \in 1 .. n
      BY <1>2, <2>2, FiniteMax
    <3>2. iter[s] = MapStep(case, environment, iter[s \ {Max(s)}], Max(s))
      BY <1>2, <1>7, <2>2, <3>1
    <3> QED
      BY <1>3, <2>2, <3>1, <3>2
  <2>3. FoldsIn(iter, n, Started(case), G, T)
    BY <2>1, <2>2 DEF FoldsIn
  <2>4. \E R \in [0 .. n -> T] : Runs(R, n, Started(case), G) /\ R[n] = iter[1 .. n]
    <3>1. n \in Nat /\ \A i \in 1 .. n, x \in T : G[i][x] \in T
      BY <1>2, <1>3
    <3> QED
      BY ONLY <1>4, <2>3, <3>1, FoldRun
  <2> QED
    BY <2>4
<1>9. ASSUME NEW k \in 1 .. n PROVE R[k] = MapStep(case, environment, R[k - 1], k)
  <2>1. k - 1 \in 0 .. n
    BY <1>2
  <2> QED
    BY <1>3, <1>8, <2>1 DEF Runs
<1>10. Mapping(R, case, environment)
  BY <1>8, <1>9 DEF Mapping, Runs, n
<1> QED
  BY <1>1, <1>2, <1>8, <1>10 DEF n, T

\* Every step of the case is kept by the time the last is mapped.
LEMMA MapStepsKeep ==
    ASSUME NEW case \in Case, NEW environment
    PROVE  /\ MapSteps(case, environment) \in DraftsOf(case, environment)
           /\ \A i \in DOMAIN case.steps : StepKept(case, i, MapSteps(case, environment))
<1> DEFINE n == Len(case.steps)
<1>1. n \in Nat /\ DOMAIN case.steps = 1 .. n
  <2>1. case.steps \in Seq(CaseStep)
    BY DEF Case
  <2> QED
    BY <2>1
<1>2. PICK R \in [0 .. Len(case.steps) -> DraftsOf(case, environment)] :
          Mapping(R, case, environment) /\ MapSteps(case, environment) = R[Len(case.steps)]
  BY MapStepsRun
<1> DEFINE good == {k \in 0 .. n : \A i \in 1 .. k : StepKept(case, i, R[k])}
<1>3. 0 \in good
  BY <1>1
<1>4. ASSUME NEW k \in 1 .. n, k - 1 \in good PROVE k \in good
  <2>1. k \in 0 .. n /\ k - 1 \in 0 .. n /\ k \in DOMAIN case.steps /\ 1 .. k = (1 .. k - 1) \cup {k}
    BY <1>1
  <2>2. R[k] = MapStep(case, environment, R[k - 1], k) /\ R[k - 1] \in DraftsOf(case, environment)
    BY <1>2, <2>1 DEF Mapping
  <2>3. Grows(R[k - 1], R[k]) /\ StepKept(case, k, R[k])
    BY <2>1, <2>2, MapStepKeeps
  <2>4. \A i \in 1 .. k - 1 : StepKept(case, i, R[k])
    BY <1>4, <2>3, KeptOn
  <2> QED
    BY <2>1, <2>3, <2>4
<1>5. \A k \in 0 .. n : k \in good
  <2> HIDE DEF good, n
  <2> QED
    BY <1>1, <1>3, <1>4, UpTo
<1>6. n \in 0 .. n
  BY <1>1
<1> QED
  BY <1>1, <1>2, <1>5, <1>6

\* What the case expects as a whole is asserted or something to do.
ResultKept(case, i, x) == Asserted(case.expects[i], x) \/ <<"result", i>> \in x.todos

\* One expectation of the whole leaves a draft that has lost nothing and keeps it.
LEMMA ConcludedKeeps ==
    ASSUME NEW case \in Case, NEW environment, NEW i \in DOMAIN case.expects,
           NEW x \in DraftsOf(case, environment), NEW q, q = Concluded(case, x, i)
    PROVE  q \in DraftsOf(case, environment) /\ Grows(x, q) /\ ResultKept(case, i, q)
<1> DEFINE a == AssertionFor(case.expects[i])
           todo == IF a = <<>> THEN x.todos \cup {<<"result", i>>} ELSE x.todos
<1>1. i \in Nat /\ case.expects[i] \in Expectation /\ <<"result", i>> \in ToDo
  <2>1. case.expects \in Seq(Expectation)
    BY DEF Case
  <2>2. i \in Nat /\ case.expects[i] \in Expectation
    BY <2>1
  <2> QED
    BY <2>2 DEF ToDo
<1>2. a \in Seq(DraftSteps(case, environment)) /\ (a # <<>> => a = <<Head(a)>>)
  BY <1>1, AssertionType
<1>3. /\ x.steps \in Seq(DraftSteps(case, environment)) /\ x.todos \subseteq ToDo
      /\ x.mapped \subseteq Nat /\ x.signedIn \in BOOLEAN
      /\ q = [steps |-> x.steps \o a, todos |-> todo, mapped |-> x.mapped, signedIn |-> x.signedIn]
  BY DEF DraftsOf, Concluded
<1>4. todo \subseteq ToDo /\ x.todos \subseteq todo
  BY <1>1, <1>3
<1>5. a # <<>> => Head(a) \in ToSet(a)
  <2>1. \A y : y \in ToSet(<<y>>)
    <3>1. \A y : 1 \in DOMAIN <<y>> /\ <<y>>[1] = y
      OBVIOUS
    <3> QED
      BY <3>1 DEF ToSet
  <2> HIDE DEF a
  <2> QED
    BY <1>2, <2>1
<1>6. a = <<>> => <<"result", i>> \in todo
  OBVIOUS
<1> HIDE DEF a, todo
<1>7. x.steps \o a \in Seq(DraftSteps(case, environment)) /\ ToSet(x.steps \o a) = ToSet(x.steps) \cup ToSet(a)
  BY <1>2, <1>3, WithMore
<1>8. q \in DraftsOf(case, environment) /\ Grows(x, q)
  BY <1>3, <1>4, <1>7 DEF DraftsOf, Grows
<1>9. ResultKept(case, i, q)
  BY <1>3, <1>5, <1>6, <1>7 DEF ResultKept, Asserted, a
<1> QED
  BY <1>8, <1>9

\* What is kept of it stays kept.
LEMMA ResultOn ==
    ASSUME NEW case, NEW i, NEW x, NEW y, ResultKept(case, i, x), Grows(x, y)
    PROVE  ResultKept(case, i, y)
BY DEF ResultKept, Asserted, Grows

\* The draft behind each expectation of the whole.
Concluding(R, case, draft) ==
    /\ R[0] = draft
    /\ \A k \in 1 .. Len(case.expects) : R[k] = Concluded(case, R[k - 1], k)

\* Concluding is taking the expectations one by one.
LEMMA ConcludeRun ==
    ASSUME NEW case \in Case, NEW environment, NEW draft \in DraftsOf(case, environment)
    PROVE  \E R \in [0 .. Len(case.expects) -> DraftsOf(case, environment)] :
               Concluding(R, case, draft) /\ Conclude(case, draft) = R[Len(case.expects)]
<1> DEFINE n == Len(case.expects)
           T == DraftsOf(case, environment)
           places == [i \in DOMAIN case.expects |-> i]
           Eqn(it) == it = [s \in SUBSET DOMAIN places |->
                               IF s = {} THEN draft
                               ELSE Concluded(case, it[s \ {Max(s)}], places[Max(s)])]
           iter == CHOOSE it : Eqn(it)
           G == [i \in 1 .. n |-> [x \in T |-> Concluded(case, x, i)]]
<1>1. Conclude(case, draft) = iter[DOMAIN places]
  BY DEF Conclude, FoldLeftDomain, FoldLeft, MapThenFoldSet
<1>2. n \in Nat /\ DOMAIN case.expects = 1 .. n /\ DOMAIN places = 1 .. n /\ \A i \in 1 .. n : places[i] = i
  <2>1. case.expects \in Seq(Expectation)
    BY DEF Case
  <2> QED
    BY <2>1
<1> HIDE DEF places, n
<1>3. \A i \in 1 .. n, x \in T : G[i][x] = Concluded(case, x, i) /\ G[i][x] \in T
  BY <1>2, ConcludedKeeps
<1> HIDE DEF G, T
<1>4. draft \in T
  BY DEF T
<1>5. \E it : Eqn(it)
  <2>1. PICK it \in [SUBSET (1 .. n) -> T] : FoldsBy(it, n, draft, G)
    BY <1>2, <1>3, <1>4, FoldExists
  <2>2. ASSUME NEW s \in SUBSET (1 .. n)
        PROVE  it[s] = IF s = {} THEN draft ELSE Concluded(case, it[s \ {Max(s)}], places[Max(s)])
    <3>1. CASE s # {}
      <4>1. Max(s) \in 1 .. n
        BY <1>2, <3>1, FiniteMax
      <4>2. it[s \ {Max(s)}] \in T
        OBVIOUS
      <4>3. it[s] = G[Max(s)][it[s \ {Max(s)}]]
        BY <2>1, <3>1 DEF FoldsBy
      <4> QED
        BY <1>2, <1>3, <3>1, <4>1, <4>2, <4>3
    <3>2. CASE s = {}
      BY <2>1, <3>2 DEF FoldsBy
    <3> QED
      BY <3>1, <3>2
  <2>3. \A s \in SUBSET DOMAIN places :
            it[s] = IF s = {} THEN draft ELSE Concluded(case, it[s \ {Max(s)}], places[Max(s)])
    BY <1>2, <2>2
  <2>4. it = [s \in SUBSET DOMAIN places |-> it[s]]
    BY <1>2
  <2>5. Eqn(it)
    BY <2>3, <2>4
  <2> HIDE DEF Eqn
  <2> QED
    BY <2>5
<1>6. Eqn(iter)
  BY <1>5
<1> HIDE DEF iter
<1>7. \A s \in SUBSET (1 .. n) :
          iter[s] = IF s = {} THEN draft ELSE Concluded(case, iter[s \ {Max(s)}], places[Max(s)])
  BY <1>2, <1>6
<1> HIDE DEF Eqn
<1>8. PICK R \in [0 .. n -> T] : Runs(R, n, draft, G) /\ R[n] = iter[1 .. n]
  <2>1. iter[{}] = draft
    BY <1>7
  <2>2. ASSUME NEW s \in SUBSET (1 .. n), s # {}, iter[s \ {Max(s)}] \in T
        PROVE  iter[s] = G[Max(s)][iter[s \ {Max(s)}]]
    <3>1. Max(s) \in 1 .. n
      BY <1>2, <2>2, FiniteMax
    <3>2. iter[s] = Concluded(case, iter[s \ {Max(s)}], Max(s))
      BY <1>2, <1>7, <2>2, <3>1
    <3> QED
      BY <1>3, <2>2, <3>1, <3>2
  <2>3. FoldsIn(iter, n, draft, G, T)
    BY <2>1, <2>2 DEF FoldsIn
  <2> QED
    BY <1>2, <1>3, <1>4, <2>3, FoldRun
<1>9. ASSUME NEW k \in 1 .. n PROVE R[k] = Concluded(case, R[k - 1], k)
  <2>1. k - 1 \in 0 .. n
    BY <1>2
  <2> QED
    BY <1>3, <1>8, <2>1 DEF Runs
<1>10. Concluding(R, case, draft)
  BY <1>8, <1>9 DEF Concluding, Runs, n
<1> QED
  BY <1>1, <1>2, <1>8, <1>10 DEF n, T

\* Every expectation of the whole is kept.
LEMMA ConcludeKeeps ==
    ASSUME NEW case \in Case, NEW environment, NEW draft \in DraftsOf(case, environment)
    PROVE  /\ Conclude(case, draft) \in DraftsOf(case, environment) /\ Grows(draft, Conclude(case, draft))
           /\ \A i \in DOMAIN case.expects : ResultKept(case, i, Conclude(case, draft))
<1> DEFINE n == Len(case.expects)
<1>1. n \in Nat /\ DOMAIN case.expects = 1 .. n
  <2>1. case.expects \in Seq(Expectation)
    BY DEF Case
  <2> QED
    BY <2>1
<1>2. PICK R \in [0 .. Len(case.expects) -> DraftsOf(case, environment)] :
          Concluding(R, case, draft) /\ Conclude(case, draft) = R[Len(case.expects)]
  BY ConcludeRun
<1> DEFINE good == {k \in 0 .. n : Grows(draft, R[k]) /\ \A i \in 1 .. k : ResultKept(case, i, R[k])}
<1>3. 0 \in good
  <2>1. Grows(draft, draft) /\ R[0] = draft
    BY <1>2 DEF Grows, Concluding
  <2> QED
    BY <1>1, <2>1
<1>4. ASSUME NEW k \in 1 .. n, k - 1 \in good PROVE k \in good
  <2>1. k \in 0 .. n /\ k - 1 \in 0 .. n /\ k \in DOMAIN case.expects /\ 1 .. k = (1 .. k - 1) \cup {k}
    BY <1>1
  <2>2. R[k] = Concluded(case, R[k - 1], k) /\ R[k - 1] \in DraftsOf(case, environment)
    BY <1>2, <2>1 DEF Concluding
  <2>3. Grows(R[k - 1], R[k]) /\ ResultKept(case, k, R[k])
    BY <2>1, <2>2, ConcludedKeeps
  <2>4. \A i \in 1 .. k - 1 : ResultKept(case, i, R[k])
    BY <1>4, <2>3, ResultOn
  <2>5. Grows(draft, R[k])
    BY <1>4, <2>3, GrowsOn
  <2> QED
    BY <2>1, <2>3, <2>4, <2>5
<1>5. \A k \in 0 .. n : k \in good
  <2> HIDE DEF good, n
  <2> QED
    BY <1>1, <1>3, <1>4, UpTo
<1>6. n \in 0 .. n
  BY <1>1
<1> QED
  BY <1>1, <1>2, <1>5, <1>6

\* A step that is dropped is there already.
LEMMA KeptKeeps ==
    ASSUME NEW S, NEW kept \in Seq(S), NEW step \in S
    PROVE  Kept(kept, step) \in Seq(S) /\ ToSet(Kept(kept, step)) = ToSet(kept) \cup {step}
<1>1. CASE step \in ToSet(kept) /\ Kept(kept, step) = kept
  BY <1>1
<1>2. CASE Kept(kept, step) = Append(kept, step)
  <2>1. <<step>> \in Seq(S) /\ Append(kept, step) = kept \o <<step>>
    BY AppendProperties
  <2>2. ToSet(<<step>>) = {step}
    <3>1. DOMAIN <<step>> = {1} /\ <<step>>[1] = step
      OBVIOUS
    <3> QED
      BY <3>1 DEF ToSet
  <2>3. PICK one : one = <<step>>
    OBVIOUS
  <2>4. one \in Seq(S) /\ ToSet(one) = {step} /\ Append(kept, step) = kept \o one
    BY <2>1, <2>2, <2>3
  <2> QED
    BY <1>2, <2>4, WithMore
<1> QED
  BY <1>1, <1>2 DEF Kept

\* What is kept behind each step.
Keeping(R, steps) ==
    R[0] = <<>> /\ \A k \in 1 .. Len(steps) : R[k] = Kept(R[k - 1], steps[k])

\* Dropping repeated assertions is going over the steps one by one.
LEMMA DedupeRun ==
    ASSUME NEW S, NEW steps \in Seq(S)
    PROVE  \E R \in [0 .. Len(steps) -> Seq(S)] : Keeping(R, steps) /\ Dedupe(steps) = R[Len(steps)]
<1> DEFINE n == Len(steps)
           T == Seq(S)
           Eqn(it) == it = [s \in SUBSET DOMAIN steps |->
                               IF s = {} THEN <<>> ELSE Kept(it[s \ {Max(s)}], steps[Max(s)])]
           iter == CHOOSE it : Eqn(it)
           G == [i \in 1 .. n |-> [x \in T |-> Kept(x, steps[i])]]
           base == <<>>
<1>1. Dedupe(steps) = iter[DOMAIN steps]
  BY DEF Dedupe, FoldLeft, MapThenFoldSet
<1>2. n \in Nat /\ DOMAIN steps = 1 .. n /\ \A i \in 1 .. n : steps[i] \in S
  OBVIOUS
<1> HIDE DEF n
<1>3. \A i \in 1 .. n, x \in T : G[i][x] = Kept(x, steps[i]) /\ G[i][x] \in T
  BY <1>2, KeptKeeps
<1>4. base \in T
  OBVIOUS
<1> HIDE DEF G, T
<1>5. \E it : Eqn(it)
  <2>1. PICK it \in [SUBSET (1 .. n) -> T] : FoldsBy(it, n, <<>>, G)
    BY <1>2, <1>3, <1>4, FoldExists
  <2>2. ASSUME NEW s \in SUBSET (1 .. n)
        PROVE  it[s] = IF s = {} THEN <<>> ELSE Kept(it[s \ {Max(s)}], steps[Max(s)])
    <3>1. CASE s # {}
      <4>1. Max(s) \in 1 .. n
        BY <1>2, <3>1, FiniteMax
      <4>2. it[s \ {Max(s)}] \in T
        OBVIOUS
      <4>3. it[s] = G[Max(s)][it[s \ {Max(s)}]]
        BY <2>1, <3>1 DEF FoldsBy
      <4> QED
        BY <1>3, <3>1, <4>1, <4>2, <4>3
    <3>2. CASE s = {}
      BY <2>1, <3>2 DEF FoldsBy
    <3> QED
      BY <3>1, <3>2
  <2>3. \A s \in SUBSET DOMAIN steps :
            it[s] = IF s = {} THEN <<>> ELSE Kept(it[s \ {Max(s)}], steps[Max(s)])
    BY <1>2, <2>2
  <2>4. it = [s \in SUBSET DOMAIN steps |-> it[s]]
    BY <1>2
  <2>5. Eqn(it)
    BY <2>3, <2>4
  <2> HIDE DEF Eqn
  <2> QED
    BY <2>5
<1>6. Eqn(iter)
  BY <1>5
<1> HIDE DEF iter
<1>7. \A s \in SUBSET (1 .. n) :
          iter[s] = IF s = {} THEN <<>> ELSE Kept(iter[s \ {Max(s)}], steps[Max(s)])
  BY <1>2, <1>6
<1> HIDE DEF Eqn
<1> HIDE DEF base
<1>8. PICK R \in [0 .. n -> T] : Runs(R, n, base, G) /\ R[n] = iter[1 .. n]
  <2>1. iter[{}] = base
    BY <1>7 DEF base
  <2>2. ASSUME NEW s \in SUBSET (1 .. n), s # {}, iter[s \ {Max(s)}] \in T
        PROVE  iter[s] = G[Max(s)][iter[s \ {Max(s)}]]
    <3>1. Max(s) \in 1 .. n
      BY <1>2, <2>2, FiniteMax
    <3>2. iter[s] = Kept(iter[s \ {Max(s)}], steps[Max(s)])
      BY <1>7, <2>2
    <3> QED
      BY <1>3, <2>2, <3>1, <3>2
  <2>3. FoldsIn(iter, n, base, G, T)
    BY <2>1, <2>2 DEF FoldsIn
  <2>4. n \in Nat /\ \A i \in 1 .. n, x \in T : G[i][x] \in T
    BY <1>2, <1>3
  <2> QED
    BY ONLY <1>4, <2>3, <2>4, FoldRun
<1>9. ASSUME NEW k \in 1 .. n PROVE R[k] = Kept(R[k - 1], steps[k])
  <2>1. k - 1 \in 0 .. n
    BY <1>2
  <2> QED
    BY <1>3, <1>8, <2>1 DEF Runs
<1>10. Keeping(R, steps)
  BY <1>8, <1>9 DEF Keeping, Runs, n, base
<1> QED
  BY <1>1, <1>2, <1>8, <1>10 DEF n, T

\* Dropping what was asserted before leaves every step there is.
LEMMA DedupeKeeps ==
    ASSUME NEW S, NEW steps \in Seq(S)
    PROVE  Dedupe(steps) \in Seq(S) /\ ToSet(Dedupe(steps)) = ToSet(steps)
<1> DEFINE n == Len(steps)
<1>1. n \in Nat /\ DOMAIN steps = 1 .. n /\ \A i \in 1 .. n : steps[i] \in S
  OBVIOUS
<1>2. PICK R \in [0 .. Len(steps) -> Seq(S)] : Keeping(R, steps) /\ Dedupe(steps) = R[Len(steps)]
  BY DedupeRun
<1> DEFINE good == {k \in 0 .. n : ToSet(R[k]) = {steps[i] : i \in 1 .. k}}
<1>3. 0 \in good
  <2>1. R[0] = <<>> /\ 1 .. 0 = {}
    BY <1>2 DEF Keeping
  <2>2. ToSet(R[0]) = {}
    BY <2>1 DEF ToSet
  <2> QED
    BY <1>1, <2>1, <2>2
<1>4. ASSUME NEW k \in 1 .. n, k - 1 \in good PROVE k \in good
  <2>1. k \in 0 .. n /\ k - 1 \in 0 .. n /\ 1 .. k = (1 .. k - 1) \cup {k}
    BY <1>1
  <2>2. R[k] = Kept(R[k - 1], steps[k]) /\ R[k - 1] \in Seq(S) /\ steps[k] \in S
    BY <1>1, <1>2, <2>1 DEF Keeping
  <2>3. ToSet(R[k]) = ToSet(R[k - 1]) \cup {steps[k]}
    <3>1. \A kept \in Seq(S), step \in S : ToSet(Kept(kept, step)) = ToSet(kept) \cup {step}
      BY KeptKeeps
    <3> QED
      BY <2>2, <3>1
  <2>4. {steps[i] : i \in 1 .. k} = {steps[i] : i \in 1 .. k - 1} \cup {steps[k]}
    BY <2>1
  <2> QED
    BY <1>4, <2>1, <2>3, <2>4
<1>5. \A k \in 0 .. n : k \in good
  <2> HIDE DEF good, n
  <2> QED
    BY <1>1, <1>3, <1>4, UpTo
<1>6. n \in 0 .. n
  BY <1>1
<1>7. ToSet(steps) = {steps[i] : i \in 1 .. n}
  BY <1>1 DEF ToSet
<1> QED
  BY <1>2, <1>5, <1>6, <1>7

\* A draft that is done.
LEMMA DraftedFacts ==
    ASSUME NEW case \in Case, NEW environment
    PROVE  /\ Drafted(case, environment) \in DraftsOf(case, environment)
           /\ \A i \in DOMAIN case.steps : StepKept(case, i, Drafted(case, environment))
           /\ \A i \in DOMAIN case.expects : ResultKept(case, i, Drafted(case, environment))
<1> DEFINE x == MapSteps(case, environment)
           y == Conclude(case, x)
<1>1. x \in DraftsOf(case, environment) /\ \A i \in DOMAIN case.steps : StepKept(case, i, x)
  BY MapStepsKeep
<1>2. /\ y \in DraftsOf(case, environment) /\ Grows(x, y)
      /\ \A i \in DOMAIN case.expects : ResultKept(case, i, y)
  BY <1>1, ConcludeKeeps
<1>3. Drafted(case, environment) = [y EXCEPT !.steps = Dedupe(y.steps)]
  BY DEF Drafted
<1> HIDE DEF x, y
<1>4. /\ Dedupe(y.steps) \in Seq(DraftSteps(case, environment))
      /\ ToSet(Dedupe(y.steps)) = ToSet(y.steps)
  BY <1>2, DedupeKeeps DEF DraftsOf
<1>5. Drafted(case, environment) \in DraftsOf(case, environment) /\ Grows(y, Drafted(case, environment))
  BY <1>2, <1>3, <1>4 DEF DraftsOf, Grows
<1>6. \A i \in DOMAIN case.steps : StepKept(case, i, Drafted(case, environment))
  BY <1>1, <1>2, <1>5, KeptOn
<1>7. \A i \in DOMAIN case.expects : ResultKept(case, i, Drafted(case, environment))
  BY <1>2, <1>5, ResultOn
<1> QED
  BY <1>5, <1>6, <1>7

-----------------------------------------------------------------------------
(***************************************************************************)
(* Reading back: what the writer makes of a draft is one test again, with  *)
(* the draft's steps.                                                      *)
(***************************************************************************)

\* Whoever a draft suggests is a candidate.
LEMMA SuggestedIs ==
    ASSUME NEW case \in Case, NEW environment
    PROVE  /\ Suggested(case) \in {""} \cup Candidates
           /\ SuggestedAlias(case, environment) \in {""} \cup Candidates
<1> DEFINE available == {i \in DOMAIN case.implied : case.implied[i] \in Capabilities}
<1>1. Suggested(case) \in {""} \cup Candidates
  <2>1. case.implied \in Seq(STRING)
    BY DEF Case
  <2>2. Len(case.implied) \in Nat /\ available \subseteq 1 .. Len(case.implied)
    BY <2>1
  <2>3. available # {} => Min(available) \in available
    <3> HIDE DEF available
    <3> QED
      BY <2>2, FiniteMin
  <2>4. available # {} => case.implied[Min(available)] \in Capabilities
    <3>1. \A i \in available : case.implied[i] \in Capabilities
      OBVIOUS
    <3> HIDE DEF available
    <3> QED
      BY <2>3, <3>1
  <2>5. Suggested(case) = IF available = {} THEN "" ELSE case.implied[Min(available)]
    BY DEF Suggested
  <2> HIDE DEF available
  <2> QED
    BY <2>4, <2>5 DEF Candidates
<1>2. SuggestedAlias(case, environment) \in {""} \cup Candidates
  BY DEF SuggestedAlias, Candidates
<1> QED
  BY <1>1, <1>2

\* The steps of a draft can be written, and name nobody but the placeholder and candidates.
Writable == {"authenticate", "navigate", "click", "fill", "api_request", "assert", "assert_status"}

\* What a step of a draft is.
LEMMA DraftStepIs ==
    ASSUME NEW case \in Case, NEW environment, NEW step \in DraftSteps(case, environment)
    PROVE  /\ step = PlanStep(step.action, step.method, step.who, step.words, step.expects)
           /\ step.action \in Writable
           /\ step.who \in {"", Placeholder} \cup Candidates
<1>1. ASSUME NEW action \in Writable, NEW method, NEW who \in {"", Placeholder} \cup Candidates,
             NEW words, NEW expects, step = PlanStep(action, method, who, words, expects)
      PROVE  /\ step = PlanStep(step.action, step.method, step.who, step.words, step.expects)
             /\ step.action \in Writable
             /\ step.who \in {"", Placeholder} \cup Candidates
  <2>1. /\ step.action = action /\ step.method = method /\ step.who = who /\ step.words = words
        /\ step.expects = expects
    BY <1>1 DEF PlanStep
  <2> QED
    BY <1>1, <2>1
<1>2. CASE step = Authenticate(case)
  <2>1. PICK who : who = IF Suggested(case) = "" THEN Placeholder ELSE Suggested(case)
    OBVIOUS
  <2>2. who \in {"", Placeholder} \cup Candidates
    BY <2>1, SuggestedIs
  <2>3. step = PlanStep("authenticate", "none", who, <<>>, NoStatus) /\ "authenticate" \in Writable
    BY <1>2, <2>1 DEF Authenticate, Writable
  <2> QED
    BY <1>1, <2>2, <2>3
<1>3. ASSUME NEW s \in CaseStep, s.kind \in {"navigate", "api", "fill", "click"},
             step = Mapped(case, environment, s)
      PROVE  /\ step = PlanStep(step.action, step.method, step.who, step.words, step.expects)
             /\ step.action \in Writable
             /\ step.who \in {"", Placeholder} \cup Candidates
  <2>1. \E action \in {"navigate", "click", "fill"} : step = PlanStep(action, "none", "", s.words, NoStatus)
        \/ step = PlanStep("api_request", s.method, SuggestedAlias(case, environment), s.words, NoStatus)
    BY <1>3 DEF Mapped
  <2>2. CASE \E action \in {"navigate", "click", "fill"} : step = PlanStep(action, "none", "", s.words, NoStatus)
    BY <1>1, <2>2 DEF Writable
  <2>3. CASE step = PlanStep("api_request", s.method, SuggestedAlias(case, environment), s.words, NoStatus)
    <3>1. SuggestedAlias(case, environment) \in {"", Placeholder} \cup Candidates /\ "api_request" \in Writable
      BY SuggestedIs DEF Writable
    <3> QED
      BY <1>1, <2>3, <3>1
  <2> QED
    BY <2>1, <2>2, <2>3
<1>4. ASSUME NEW e \in Expectation, e.kind \notin {"none", "prose"}, step = AssertionFor(e)[1]
      PROVE  /\ step = PlanStep(step.action, step.method, step.who, step.words, step.expects)
             /\ step.action \in Writable
             /\ step.who \in {"", Placeholder} \cup Candidates
  <2>1. \/ step = PlanStep("assert_status", "none", "", <<>>, e.status)
        \/ step = PlanStep("assert", "none", "", <<e.says>>, NoStatus)
    BY <1>4 DEF AssertionFor
  <2>2. "assert_status" \in Writable /\ "assert" \in Writable /\ "" \in {"", Placeholder} \cup Candidates
    BY DEF Writable
  <2> QED
    BY <1>1, <2>1, <2>2
<1> QED
  BY <1>2, <1>3, <1>4 DEF DraftSteps

\* The sentence of a draft's step is understood unless a person has to say who signs in, and
\* becomes the step again.
LEMMA StepReadsBack ==
    ASSUME NEW case \in Case, NEW environment, NEW step \in DraftSteps(case, environment), NEW line,
           line = ScrubLine(SentenceFor(step), {})
    PROVE  /\ step.action \notin Unwritable
           /\ line.kind = "sentence"
           /\ Understood(line) <=> step.who # Placeholder
           /\ ScrubStep(step, {}).who = step.who
           /\ step.who # Placeholder => StepsOf(line) = <<ScrubStep(step, {})>>
           /\ NamesNobody(line) <=> step.who = Placeholder
           /\ Gist(SentenceFor(ScrubStep(step, {}))) = Gist(line)
           /\ line = [kind |-> "sentence", rule |-> line.rule, method |-> line.method,
                      expects |-> line.expects, who |-> line.who, words |-> line.words]
<1>1. /\ step = PlanStep(step.action, step.method, step.who, step.words, step.expects)
      /\ step.action \in Writable
      /\ step.who \in {"", Placeholder} \cup Candidates
  BY DraftStepIs
<1>2. /\ ActorOf[Placeholder] = Nobody /\ Placeholder \notin CredentialShaped /\ Placeholder # ""
      /\ \A who \in Candidates : ActorOf[who] = who /\ who \notin CredentialShaped \cup {Nobody}
      /\ "" \notin CredentialShaped
  BY DraftingAssumption, EnglishAssumption DEF DraftingAssumption, EnglishAssumption, Placeholder
<1>3. \E rule \in DOMAIN ActionOf : ActionOf[rule] = step.action
  <2>1. /\ ActionOf["log in"] = "authenticate" /\ "log in" \in DOMAIN ActionOf
        /\ ActionOf["navigate"] = "navigate" /\ "navigate" \in DOMAIN ActionOf
        /\ ActionOf["click"] = "click" /\ "click" \in DOMAIN ActionOf
        /\ ActionOf["type"] = "fill" /\ "type" \in DOMAIN ActionOf
        /\ ActionOf["api call"] = "api_request" /\ "api call" \in DOMAIN ActionOf
        /\ ActionOf["check"] = "assert" /\ "check" \in DOMAIN ActionOf
        /\ ActionOf["check status"] = "assert_status" /\ "check status" \in DOMAIN ActionOf
    BY DEF ActionOf
  <2> QED
    BY <1>1, <2>1 DEF Writable
<1>4. PICK rule \in DOMAIN ActionOf :
          /\ ActionOf[rule] = step.action
          /\ rule = CHOOSE r \in DOMAIN ActionOf : ActionOf[r] = step.action
  BY <1>3
<1>5. SentenceFor(step) = [kind |-> "sentence", rule |-> rule, method |-> step.method,
                           expects |-> step.expects, who |-> step.who, words |-> step.words]
  BY <1>4 DEF SentenceFor
<1>6. ScrubText(step.who, {}) = step.who
  BY <1>1, <1>2 DEF ScrubText
<1>7. PICK words : words = ScrubWords(step.words, {})
  OBVIOUS
<1>8. line = [kind |-> "sentence", rule |-> rule, method |-> step.method, expects |-> step.expects,
              who |-> step.who, words |-> words]
  <2>1. PICK said : said = SentenceFor(step)
    OBVIOUS
  <2>2. said.kind = "sentence" /\ said.words = step.words /\ said.who = step.who
    BY <1>5, <2>1
  <2>3. line = [said EXCEPT !.words = words, !.who = step.who]
    BY <1>6, <1>7, <2>1, <2>2 DEF ScrubLine
  <2>4. PICK half : half = [said EXCEPT !.words = words]
    OBVIOUS
  <2>5. line = [half EXCEPT !.who = step.who]
    BY <2>3, <2>4
  <2>6. half = [kind |-> "sentence", rule |-> rule, method |-> step.method, expects |-> step.expects,
                who |-> step.who, words |-> words]
    BY ONLY <1>5, <2>1, <2>4
  <2> QED
    BY ONLY <2>5, <2>6
<1>9. rule \notin {"note", "unknown", "credential", "log in (no actor)"}
  <2>1. DOMAIN ActionOf = {"log in", "navigate", "click", "type", "wait for", "wait seconds",
                            "switch window", "screenshot", "api call", "check", "check status"}
    BY DEF ActionOf
  <2> QED
    BY <2>1
<1>10. NamesNobody(line) <=> step.who = Placeholder
  <2>1. line.who = step.who
    BY <1>8
  <2>2. CASE step.who = Placeholder
    BY <1>2, <2>1, <2>2 DEF NamesNobody
  <2>3. CASE step.who # Placeholder /\ step.who = ""
    BY <2>1, <2>3 DEF NamesNobody
  <2>4. CASE step.who # Placeholder /\ step.who \in Candidates
    BY <1>2, <2>1, <2>4 DEF NamesNobody
  <2> QED
    BY <1>1, <2>2, <2>3, <2>4
<1>11. step.action \notin Unwritable
  BY <1>1 DEF Writable, Unwritable
<1>12. line.kind = "sentence" /\ line.rule = rule
  BY <1>8
<1>13. Understood(line) <=> step.who # Placeholder
  BY <1>9, <1>10, <1>12 DEF Understood
<1>14. ScrubStep(step, {}) =
           [action |-> step.action, method |-> step.method, destructive |-> Destructive(words),
            css |-> FALSE, expects |-> step.expects, who |-> step.who, words |-> words]
  <2>1. PICK action, method, who, said, expects :
            step = PlanStep(action, method, who, said, expects)
    BY <1>1
  <2>2. /\ step.action = action /\ step.method = method /\ step.who = who /\ step.words = said
        /\ step.expects = expects
    BY <2>1 DEF PlanStep
  <2>3. ScrubText(who, {}) = who /\ words = ScrubWords(said, {})
    BY <1>6, <1>7, <2>2
  <2>4. ScrubStep(step, {}) =
           [action |-> action, method |-> method, destructive |-> Destructive(words),
            css |-> FALSE, expects |-> expects, who |-> who, words |-> words]
    <3>1. step = [action |-> action, method |-> method, destructive |-> Destructive(said), css |-> FALSE,
                  expects |-> expects, who |-> who, words |-> said]
      BY <2>1 DEF PlanStep
    <3>2. ScrubStep(step, {}) = [step EXCEPT !.words = words, !.who = who, !.destructive = Destructive(words)]
      BY <2>2, <2>3 DEF ScrubStep
    <3> QED
      BY <3>1, <3>2
  <2> QED
    BY <2>2, <2>4
<1>15. ScrubStep(step, {}).who = step.who
  BY <1>14
<1>16. ASSUME step.who # Placeholder PROVE StepsOf(line) = <<ScrubStep(step, {})>>
  <2>1. (IF step.who = "" THEN "" ELSE ActorOf[step.who]) = step.who
    BY <1>1, <1>2, <1>16
  <2>2. StepsOf(line) =
            <<[action |-> ActionOf[rule], method |-> step.method, destructive |-> Destructive(words),
               css |-> FALSE, expects |-> step.expects,
               who |-> IF step.who = "" THEN "" ELSE ActorOf[step.who], words |-> words]>>
    <3>1. /\ line.rule = rule /\ line.method = step.method /\ line.expects = step.expects
          /\ line.who = step.who /\ line.words = words
      BY <1>8
    <3> QED
      BY <1>9, <3>1 DEF StepsOf
  <2> QED
    BY <1>4, <1>14, <2>1, <2>2
<1>17. Gist(SentenceFor(ScrubStep(step, {}))) = Gist(line)
  <2>1. PICK shown : shown = ScrubStep(step, {})
    OBVIOUS
  <2>2. shown.action = step.action /\ shown.words = words
    BY <1>14, <2>1
  <2>3. SentenceFor(shown) = [kind |-> "sentence", rule |-> rule, method |-> shown.method,
                              expects |-> shown.expects, who |-> shown.who, words |-> words]
    BY <1>4, <2>2 DEF SentenceFor
  <2>4. Gist(SentenceFor(shown)) = [rule |-> rule, words |-> words]
    BY <2>3 DEF Gist
  <2>5. Gist(line) = [rule |-> rule, words |-> words]
    BY <1>8 DEF Gist
  <2> QED
    BY <2>1, <2>4, <2>5
<1>18. line = [kind |-> "sentence", rule |-> line.rule, method |-> line.method,
               expects |-> line.expects, who |-> line.who, words |-> line.words]
  BY <1>8
<1> QED
  BY <1>10, <1>11, <1>12, <1>13, <1>15, <1>16, <1>17, <1>18

\* The grammar may take it for another, but for one sentence that names the same person and is
\* no note; and when it is clear, for what it is.
LEMMA TakenReadsBack ==
    ASSUME NEW case \in Case, NEW environment, NEW step \in DraftSteps(case, environment), NEW line,
           line = Taken(ScrubLine(SentenceFor(step), {}))
    PROVE  /\ line.kind = "sentence"
           /\ Understood(line) => step.who # Placeholder /\ \E made : StepsOf(line) = <<made>>
           /\ Gist(SentenceFor(ScrubStep(step, {}))) \notin DOMAIN Misread =>
                  /\ Understood(line) <=> step.who # Placeholder
                  /\ step.who # Placeholder => StepsOf(line) = <<ScrubStep(step, {})>>
<1>1. PICK said : said = ScrubLine(SentenceFor(step), {})
  OBVIOUS
<1>2. /\ said.kind = "sentence"
      /\ Understood(said) <=> step.who # Placeholder
      /\ step.who # Placeholder => StepsOf(said) = <<ScrubStep(step, {})>>
      /\ NamesNobody(said) <=> step.who = Placeholder
      /\ Gist(SentenceFor(ScrubStep(step, {}))) = Gist(said)
      /\ said = [kind |-> "sentence", rule |-> said.rule, method |-> said.method,
                 expects |-> said.expects, who |-> said.who, words |-> said.words]
  BY <1>1, StepReadsBack
<1>3. CASE Gist(said) \notin DOMAIN Misread
  <2>1. line = said
    BY <1>1, <1>3 DEF Taken
  <2> QED
    BY <1>2, <2>1
<1>4. CASE Gist(said) \in DOMAIN Misread
  <2>1. PICK rule, words : rule = Misread[Gist(said)].rule /\ words = Misread[Gist(said)].words
    OBVIOUS
  <2>2. rule # "note"
    BY <1>4, <2>1, DraftingAssumption DEF DraftingAssumption
  <2>3. line = [said EXCEPT !.rule = rule, !.words = words]
    BY <1>1, <1>2, <1>4, <2>1 DEF Taken
  <2>4. PICK half : half = [said EXCEPT !.rule = rule]
    OBVIOUS
  <2>5. line = [half EXCEPT !.words = words]
    BY <2>3, <2>4
  <2>6. half = [kind |-> "sentence", rule |-> rule, method |-> said.method,
                expects |-> said.expects, who |-> said.who, words |-> said.words]
    BY ONLY <1>2, <2>4
  <2>7. line = [kind |-> "sentence", rule |-> rule, method |-> said.method,
                expects |-> said.expects, who |-> said.who, words |-> words]
    BY ONLY <2>5, <2>6
  <2>8. line.kind = "sentence" /\ line.rule = rule /\ line.who = said.who
    BY <2>7
  <2>9. NamesNobody(line) <=> step.who = Placeholder
    BY <1>2, <2>8 DEF NamesNobody
  <2>10. \E made : StepsOf(line) = <<made>>
    BY <2>2, <2>8 DEF StepsOf
  <2> QED
    BY <1>2, <1>4, <2>8, <2>9, <2>10 DEF Understood
<1> QED
  BY <1>3, <1>4

\* The sentences of a draft are those of its steps, one for each.
LEMMA SentencesAre ==
    ASSUME NEW case \in Case, NEW environment, NEW s \in Seq(DraftSteps(case, environment))
    PROVE  SentencesFor(s) = [i \in DOMAIN s |-> SentenceFor(s[i])]
<1> DEFINE S == {SentenceFor(step) : step \in DraftSteps(case, environment)}
           u == [i \in DOMAIN s |-> SentenceFor(s[i])]
           v == [i \in DOMAIN s |->
                    IF s[i].action \in Unwritable THEN <<>> ELSE <<SentenceFor(s[i])>>]
<1>1. /\ Len(s) \in Nat /\ DOMAIN s = 1 .. Len(s)
      /\ \A i \in 1 .. Len(s) : s[i] \in DraftSteps(case, environment)
  OBVIOUS
<1>2. u \in Seq(S)
  <2>1. u \in [1 .. Len(s) -> S]
    BY <1>1
  <2> QED
    BY <1>1, <2>1
<1>3. v = [i \in DOMAIN u |-> <<u[i]>>]
  <2>1. \A i \in DOMAIN s : s[i].action \notin Unwritable
    BY <1>1, StepReadsBack
  <2> QED
    BY <2>1
<1>4. SentencesFor(s) = FlattenSeq(v)
  BY DEF SentencesFor
<1> HIDE DEF S, u, v
<1>5. FlattenSeq(v) = u
  BY <1>2, <1>3, FlattenOnes
<1> QED
  BY <1>4, <1>5 DEF u

\* A file of one heading, one header that says where it runs, and m sentences.
IsOneTest(text, m, name, place) ==
    /\ m \in Nat /\ Len(text) = m + 2 /\ name # ""
    /\ text[1].kind = "heading" /\ TestName(text[1].name) = name
    /\ text[2].kind = "header" /\ text[2].key = "environment" /\ text[2].value = place
    /\ \A j \in 1 .. m : text[2 + j].kind = "sentence"

\* What has been read of it behind the k-th sentence.
ReadOne(r, text, k, name, headers) ==
    /\ r.tests = <<>> /\ r.name = name /\ r.headers = headers /\ Len(r.body) = k
    /\ \A j \in 1 .. k : r.body[j] = text[2 + j]

\* One more sentence is read.
LEMMA OneMoreRead ==
    ASSUME NEW k \in Nat, NEW text, NEW name, NEW headers, NEW r \in Readings, NEW line \in Lines, NEW next,
           ReadOne(r, text, k, name, headers), line = text[2 + (k + 1)], line.kind = "sentence",
           next = Read(r, line)
    PROVE  ReadOne(next, text, k + 1, name, headers)
<1>1. /\ r.tests = <<>> /\ r.name = name /\ r.headers = headers /\ Len(r.body) = k
      /\ \A j \in 1 .. k : r.body[j] = text[2 + j]
  BY DEF ReadOne
<1>2. next = [r EXCEPT !.body = Append(r.body, line)]
  BY DEF Read
<1>3. PICK body \in Seq(Lines) : body = r.body
  BY DEF Readings
<1>4. PICK more : more = Append(body, line)
  OBVIOUS
<1>5. Len(more) = k + 1 /\ more[k + 1] = line /\ \A j \in 1 .. k : more[j] = body[j]
  <2>1. Len(body) = k
    BY <1>1, <1>3
  <2> QED
    BY <1>4, <2>1, AppendProperties
<1>6. next.tests = <<>> /\ next.name = name /\ next.headers = headers /\ next.body = more
  BY <1>1, <1>2, <1>3, <1>4 DEF Readings
<1>7. 1 .. k + 1 = (1 .. k) \cup {k + 1}
  OBVIOUS
<1>8. \A j \in 1 .. k + 1 : more[j] = text[2 + j]
  <2>1. more[k + 1] = text[2 + (k + 1)]
    BY <1>5
  <2>2. \A j \in 1 .. k : more[j] = text[2 + j]
    BY <1>1, <1>3, <1>5
  <2> QED
    BY ONLY <1>7, <2>1, <2>2
<1> QED
  BY <1>5, <1>6, <1>8 DEF ReadOne

\* Such a file is one test, with all its sentences.
LEMMA OneTestRead ==
    ASSUME NEW text \in Seq(Lines), NEW m, NEW name, NEW place, IsOneTest(text, m, name, place)
    PROVE  SplitTests(text) = <<[name |-> name, headers |-> [environment |-> place, risk |-> ""],
                                 body |-> [j \in 1 .. m |-> text[2 + j]]]>>
<1>1. PICK R \in [0 .. Len(text) -> Readings] : Reading(R, text) /\ SplitTests(text) = Flush(R[Len(text)])
  BY SplitReads
<1> DEFINE headers == [environment |-> place, risk |-> ""]
           body == [j \in 1 .. m |-> text[2 + j]]
           good == {k \in 0 .. m : ReadOne(R[k + 2], text, k, name, headers)}
<1>0. m \in Nat /\ Len(text) = m + 2
  BY DEF IsOneTest
<1>2. /\ R[0] = NothingRead
      /\ \A k \in 1 .. m + 2 : R[k] = Read(R[k - 1], text[k]) /\ text[k] \in Lines
  <2>1. /\ R[0] = NothingRead
        /\ \A k \in 1 .. m + 2 : R[k] = Read(R[k - 1], text[k])
    BY <1>0, <1>1 DEF Reading
  <2>2. \A k \in 1 .. m + 2 : text[k] \in Lines
    BY <1>0
  <2> QED
    BY <2>1, <2>2
<1>3. R[1] = [tests |-> <<>>, name |-> name, headers |-> NoHeaders, body |-> <<>>]
  <2>1. 1 \in 1 .. m + 2 /\ 1 - 1 = 0
    BY ONLY <1>0
  <2>2. R[1] = Read(NothingRead, text[1]) /\ text[1] \in Lines
    BY <1>2, <2>1
  <2>3. PICK line \in Lines : line = text[1]
    BY <2>2
  <2>4. line.kind = "heading" /\ TestName(line.name) = name
    BY <2>3 DEF IsOneTest
  <2>5. Flush(NothingRead) = <<>>
    BY DEF Flush, NothingRead
  <2>6. Read(NothingRead, line) =
            [tests |-> Flush(NothingRead), name |-> TestName(line.name), headers |-> NoHeaders, body |-> <<>>]
    BY <2>4, NothingReadType, ReadCases
  <2> QED
    BY ONLY <2>2, <2>3, <2>4, <2>5, <2>6
<1>4. ReadOne(R[2], text, 0, name, headers)
  <2>1. 2 \in 1 .. m + 2 /\ 2 - 1 = 1 /\ 1 \in 0 .. Len(text)
    BY ONLY <1>0
  <2>2. PICK r \in Readings : r = R[1]
    BY <1>1, <2>1
  <2>3. PICK line \in Lines : line = text[2]
    BY <1>2, <2>1
  <2>4. R[2] = Read(r, line)
    BY <1>2, <2>1, <2>2, <2>3
  <2>5. line.kind = "header" /\ line.key = "environment" /\ line.value = place
    BY <2>3 DEF IsOneTest
  <2>6. r.body = <<>> /\ r.headers = NoHeaders /\ r.tests = <<>> /\ r.name = name
    BY <1>3, <2>2
  <2>7. Read(r, line) = [r EXCEPT !.headers = [r.headers EXCEPT !["environment"] = place]]
    BY <2>5, <2>6 DEF Read
  <2>8. [NoHeaders EXCEPT !["environment"] = place] = headers
    <3>1. PICK blank : blank = ""
      OBVIOUS
    <3>2. NoHeaders = [environment |-> blank, risk |-> blank] /\ headers = [environment |-> place, risk |-> blank]
      BY <3>1 DEF NoHeaders
    <3> HIDE DEF headers
    <3> QED
      BY ONLY <3>2
  <2>9. R[2] = [r EXCEPT !.headers = headers]
    BY ONLY <2>4, <2>6, <2>7, <2>8
  <2> HIDE DEF headers
  <2>10. R[2].tests = <<>> /\ R[2].name = name /\ R[2].headers = headers /\ R[2].body = <<>>
    BY <2>6, <2>9 DEF Readings
  <2>11. \A j \in 1 .. 0 : R[2].body[j] = text[2 + j]
    OBVIOUS
  <2> QED
    BY ONLY <2>10, <2>11 DEF ReadOne
<1> HIDE DEF headers
<1>5. 0 \in good
  <2>1. 0 \in 0 .. m /\ 0 + 2 = 2
    BY ONLY <1>0
  <2> QED
    BY ONLY <1>4, <2>1
<1>6. ASSUME NEW k \in 1 .. m, k - 1 \in good PROVE k \in good
  <2>1. /\ k \in 0 .. m /\ k - 1 \in Nat /\ (k - 1) + 1 = k /\ k + 2 \in 1 .. m + 2
        /\ (k + 2) - 1 = (k - 1) + 2 /\ (k - 1) + 2 \in 0 .. m + 2 /\ 2 + k = k + 2
    BY ONLY <1>0
  <2>2. PICK r \in Readings : r = R[(k - 1) + 2]
    BY <1>0, <2>1
  <2>3. ReadOne(r, text, k - 1, name, headers)
    BY <1>6, <2>2
  <2>4. PICK line \in Lines : line = text[2 + ((k - 1) + 1)]
    BY <1>2, <2>1
  <2>5. line.kind = "sentence"
    BY <2>1, <2>4 DEF IsOneTest
  <2>6. PICK next : next = Read(r, line)
    OBVIOUS
  <2>7. R[k + 2] = next
    BY <1>2, <2>1, <2>2, <2>4, <2>6
  <2>8. ReadOne(next, text, (k - 1) + 1, name, headers)
    BY <2>1, <2>3, <2>4, <2>5, <2>6, OneMoreRead
  <2> QED
    BY <2>1, <2>7, <2>8
<1>7. \A k \in 0 .. m : k \in good
  <2> HIDE DEF good
  <2> QED
    BY <1>0, <1>5, <1>6, UpTo
<1>8. m \in good
  <2> HIDE DEF good
  <2> QED
    BY ONLY <1>0, <1>7
<1>9. PICK r \in Readings : r = R[m + 2]
  BY <1>0
<1>10. /\ r.tests = <<>> /\ r.name = name /\ r.headers = headers /\ Len(r.body) = m
       /\ \A j \in 1 .. m : r.body[j] = text[2 + j]
  BY <1>8, <1>9 DEF ReadOne
<1>11. r.body = body
  <2>1. r.body \in Seq(Lines)
    BY DEF Readings
  <2>2. r.body = [j \in 1 .. m |-> r.body[j]]
    BY <1>10, <2>1
  <2> QED
    BY <1>10, <2>2
<1> HIDE DEF body
<1>12. SplitTests(text) = Flush(r)
  BY <1>0, <1>1, <1>9
<1>13. Flush(r) = Append(<<>>, [name |-> name, headers |-> headers, body |-> body])
  BY <1>10, <1>11 DEF Flush, IsOneTest
<1>14. SplitTests(text) = <<[name |-> name, headers |-> headers, body |-> body]>>
  BY <1>12, <1>13
<1> QED
  BY <1>14 DEF headers, body

\* A file that begins with a sentence and has no heading is one test, with that sentence first.
LEMMA NoHeadingRead ==
    ASSUME NEW text \in Seq(Lines), text # <<>>, text[1].kind = "sentence",
           \A k \in DOMAIN text : text[k].kind # "heading"
    PROVE  Len(SplitTests(text)) = 1 /\ 1 \in DOMAIN SplitTests(text)[1].body
           /\ SplitTests(text)[1].body[1] = text[1]
<1> DEFINE n == Len(text)
<1>1. PICK R \in [0 .. Len(text) -> Readings] : Reading(R, text) /\ SplitTests(text) = Flush(R[Len(text)])
  BY SplitReads
<1>2. n \in Nat /\ n # 0 /\ DOMAIN text = 1 .. n /\ \A k \in 1 .. n : text[k] \in Lines
  OBVIOUS
<1>3. R[0] = NothingRead /\ \A k \in 1 .. n : R[k] = Read(R[k - 1], text[k])
  BY <1>1 DEF Reading
<1> DEFINE Good(r) == r.tests = <<>> /\ Len(r.body) # 0 /\ r.body[1] = text[1]
           good == {k \in 0 .. n : k # 0 => Good(R[k])}
<1> HIDE DEF n
<1>4. 0 \in good
  BY <1>2
<1>5. ASSUME NEW k \in 1 .. n, k - 1 \in good PROVE k \in good
  <2>1. k \in 0 .. n /\ k - 1 \in 0 .. n
    BY <1>2
  <2>2. PICK line \in Lines : line = text[k]
    BY <1>2
  <2>3. line.kind # "heading"
    BY <1>2, <2>2
  <2>4. PICK r \in Readings : r = R[k - 1]
    BY <1>1, <2>1 DEF n
  <2>5. R[k] = Read(r, line)
    BY <1>3, <2>2, <2>4
  <2>6. r.body \in Seq(Lines)
    BY DEF Readings
  <2>7. CASE k = 1
    <3>1. r.tests = <<>> /\ r.body = <<>>
      <4>1. k - 1 = 0
        BY <2>7
      <4>2. r = NothingRead
        BY <1>3, <2>4, <4>1
      <4> QED
        BY <4>2 DEF NothingRead
    <3>2. line = text[1] /\ line.kind = "sentence"
      BY <2>2, <2>7
    <3>3. R[k] = [r EXCEPT !.body = Append(r.body, line)]
      BY <2>5, <3>2 DEF Read
    <3>4. PICK body : body = Append(<<>>, line)
      OBVIOUS
    <3>5. Len(body) # 0 /\ body[1] = line
      BY <3>4
    <3>6. R[k].tests = <<>> /\ R[k].body = body
      BY <3>1, <3>3, <3>4 DEF Readings
    <3> QED
      BY <2>1, <3>2, <3>5, <3>6
  <2>8. CASE k # 1
    <3>1. Good(r)
      BY <1>5, <2>1, <2>4, <2>8
    <3>2. Len(r.body) \in Nat /\ r.body # <<>>
      BY <2>6, <3>1
    <3>3. CASE R[k] = r
      BY <2>1, <3>1, <3>3
    <3>4. CASE R[k] = [r EXCEPT !.body = Append(r.body, line)]
      <4>1. PICK body : body = Append(r.body, line)
        OBVIOUS
      <4>2. Len(body) = Len(r.body) + 1 /\ body[1] = r.body[1]
        BY <2>6, <3>2, <4>1, AppendProperties
      <4>3. R[k].tests = <<>> /\ R[k].body = body
        BY <3>1, <3>4, <4>1 DEF Readings
      <4> QED
        BY <2>1, <3>1, <3>2, <4>2, <4>3
    <3> QED
      BY <2>3, <2>5, <3>2, <3>3, <3>4 DEF Read
  <2> QED
    BY <2>7, <2>8
<1>6. \A k \in 0 .. n : k \in good
  <2> HIDE DEF good
  <2> QED
    BY <1>2, <1>4, <1>5, UpTo
<1>7. PICK r \in Readings : r = R[n]
  BY <1>1, <1>2 DEF n
<1>8. Good(r)
  BY <1>2, <1>6, <1>7
<1>9. r.body \in Seq(Lines) /\ r.body # <<>> /\ 1 \in DOMAIN r.body
  BY <1>8 DEF Readings
<1>10. SplitTests(text) = Flush(r)
  BY <1>1, <1>7 DEF n
<1>11. Flush(r) = <<[name |-> r.name, headers |-> r.headers, body |-> r.body]>>
  BY <1>8, <1>9 DEF Flush
<1> QED
  BY <1>8, <1>9, <1>10, <1>11

\* The lines of a draft's file.
IsFileOf(file, title, environment, s) ==
    /\ Len(file) = Len(s) + 2
    /\ file[1] = Taken(ScrubLine(HeadingFor(title), {}))
    /\ file[2].kind = "header" /\ file[2].key = "environment"
    /\ file[2].value = ScrubText(environment, {})
    /\ \A j \in 1 .. Len(s) : file[2 + j] = Taken(ScrubLine(SentenceFor(s[j]), {}))

\* What the writer makes of a draft, line by line.
LEMMA LinesWritten ==
    ASSUME NEW case \in Case, NEW environment, NEW s \in Seq(DraftSteps(case, environment)),
           NEW plan, plan.name = case.title, plan.environment = environment, plan.steps = s, NEW file,
           file = [k \in DOMAIN Written(plan) |-> Taken(ScrubLine(Written(plan)[k], {}))]
    PROVE  IsFileOf(file, case.title, environment, s)
<1> DEFINE head == HeadingFor(case.title)
           place == [kind |-> "header", key |-> "environment", value |-> environment]
           S == {head, place} \cup {SentenceFor(step) : step \in DraftSteps(case, environment)}
           u == [i \in DOMAIN s |-> SentenceFor(s[i])]
           n == Len(s)
<1>1. n \in Nat /\ DOMAIN s = 1 .. n /\ \A i \in 1 .. n : s[i] \in DraftSteps(case, environment)
  OBVIOUS
<1>2. u \in Seq(S) /\ Len(u) = n /\ \A i \in 1 .. n : u[i] = SentenceFor(s[i])
  <2>1. u \in [1 .. n -> S]
    BY <1>1
  <2>2. \A i \in 1 .. n : u[i] = SentenceFor(s[i])
    BY <1>1
  <2> HIDE DEF u, S, n
  <2> QED
    BY <1>1, <2>1, <2>2
<1>3. Written(plan) = <<head, place>> \o u
  BY SentencesAre DEF Written
<1>4. <<head, place>> \in Seq(S)
  <2>1. head \in S /\ place \in S
    OBVIOUS
  <2> HIDE DEF head, place, S
  <2> QED
    BY <2>1
<1> HIDE DEF S, u, n, head
<1>5. PICK w \in Seq(S) : w = Written(plan)
  <2>1. PICK front \in Seq(S) : front = <<head, place>>
    BY <1>4
  <2>2. front \o u \in Seq(S)
    BY <1>2
  <2>3. Written(plan) = front \o u
    BY <1>3, <2>1
  <2> QED
    BY <2>2, <2>3
<1>6. Len(w) = n + 2 /\ w[1] = head /\ w[2] = place /\ \A j \in 1 .. n : w[2 + j] = u[j]
  <2> HIDE DEF place
  <2> QED
    BY <1>1, <1>2, <1>3, <1>4, <1>5
<1>7. DOMAIN w = 1 .. n + 2
  <2> HIDE DEF place
  <2> QED
    BY <1>6
<1>8. file = [k \in 1 .. n + 2 |-> Taken(ScrubLine(w[k], {}))]
  BY <1>5, <1>7
<1>9. Len(file) = n + 2
  BY <1>1, <1>8
<1>10. 1 \in 1 .. n + 2 /\ 2 \in 1 .. n + 2 /\ \A j \in 1 .. n : 2 + j \in 1 .. n + 2
  BY <1>1
<1>11. file[1] = Taken(ScrubLine(head, {}))
  BY <1>6, <1>8, <1>10
<1>12. file[2] = Taken(ScrubLine(place, {}))
  <2> HIDE DEF place
  <2> QED
    BY <1>6, <1>8, <1>10
<1>13. ASSUME NEW j \in 1 .. n PROVE file[2 + j] = Taken(ScrubLine(SentenceFor(s[j]), {}))
  <2> HIDE DEF place
  <2>1. 2 + j \in 1 .. n + 2 /\ w[2 + j] = u[j] /\ u[j] = SentenceFor(s[j])
    BY <1>2, <1>6, <1>10
  <2> QED
    BY <1>8, <2>1
<1>14. /\ file[2].kind = "header" /\ file[2].key = "environment"
       /\ file[2].value = ScrubText(environment, {})
  <2>1. place.kind = "header" /\ place.value = environment
    OBVIOUS
  <2>2. PICK value : value = ScrubText(environment, {})
    OBVIOUS
  <2>3. PICK line : line = place
    OBVIOUS
  <2>4. ScrubLine(line, {}) = [line EXCEPT !.value = value]
    BY <2>1, <2>2, <2>3 DEF ScrubLine
  <2>5. ScrubLine(line, {}) = [kind |-> "header", key |-> "environment", value |-> value]
    BY <2>3, <2>4
  <2>6. Taken(ScrubLine(line, {})) = ScrubLine(line, {})
    BY <2>5 DEF Taken
  <2>7. file[2] = [kind |-> "header", key |-> "environment", value |-> value]
    BY <1>12, <2>3, <2>5, <2>6
  <2> QED
    BY ONLY <2>2, <2>7
<1> QED
  BY <1>9, <1>11, <1>13, <1>14 DEF IsFileOf, n, head

\* So it is for every draft.
LEMMA FileIs ==
    ASSUME NEW d \in Drafts
    PROVE  /\ d[1] \in Case
           /\ Drafted(d[1], d[2]).steps \in Seq(DraftSteps(d[1], d[2]))
           /\ FileOf[d] \in Seq(Lines)
           /\ IsFileOf(FileOf[d], d[1].title, d[2], Drafted(d[1], d[2]).steps)
<1>1. d[1] \in Case /\ FileOf[d] \in Seq(Lines)
  <2>1. d \in Case \X (STRING \ {""}) /\ Files(Drafts) \subseteq Seq(Lines)
    BY AuthoringAssumption DEF AuthoringAssumption
  <2> QED
    BY <2>1 DEF Files
<1>2. Drafted(d[1], d[2]).steps \in Seq(DraftSteps(d[1], d[2]))
  <2>1. Drafted(d[1], d[2]) \in DraftsOf(d[1], d[2])
    BY <1>1, DraftedFacts
  <2> QED
    BY <2>1 DEF DraftsOf
<1>3. PICK plan : plan = DraftPlan(d[1], d[2])
  OBVIOUS
<1>4. /\ plan.name = d[1].title /\ plan.environment = d[2]
      /\ plan.steps = Drafted(d[1], d[2]).steps
  BY <1>3 DEF DraftPlan
<1>5. PICK file : file = FileOf[d]
  OBVIOUS
<1>6. file = [k \in DOMAIN Written(plan) |-> Taken(ScrubLine(Written(plan)[k], {}))]
  BY <1>3, <1>5 DEF FileOf
<1>7. PICK s : s = Drafted(d[1], d[2]).steps
  OBVIOUS
<1>8. s \in Seq(DraftSteps(d[1], d[2])) /\ plan.steps = s
  BY <1>2, <1>4, <1>7
<1>9. IsFileOf(file, d[1].title, d[2], s)
  BY <1>1, <1>4, <1>6, <1>8, LinesWritten
<1> QED
  BY <1>1, <1>2, <1>5, <1>7, <1>9

\* The plan a draft shows.
LEMMA ShownIs ==
    ASSUME NEW d \in Drafts, NEW plan, plan = Scrub(DraftPlan(d[1], d[2]), {}), NEW s, s = Drafted(d[1], d[2]).steps
    PROVE  /\ plan.name = ScrubText(d[1].title, {}) /\ plan.environment = ScrubText(d[2], {})
           /\ plan.steps = [i \in DOMAIN s |-> ScrubStep(s[i], {})]
<1>1. PICK title, environment, risk :
          DraftPlan(d[1], d[2]) = [name |-> title, environment |-> environment, risk |-> risk, steps |-> s]
          /\ title = d[1].title /\ environment = d[2]
  BY DEF DraftPlan
<1>2. PICK draft : draft = DraftPlan(d[1], d[2])
  OBVIOUS
<1>3. draft.name = title /\ draft.environment = environment /\ draft.steps = s
  BY <1>1, <1>2
<1>4. PICK name, place, steps : /\ name = ScrubText(title, {}) /\ place = ScrubText(environment, {})
                                /\ steps = [i \in DOMAIN s |-> ScrubStep(s[i], {})]
  OBVIOUS
<1>5. plan = [draft EXCEPT !.name = name, !.environment = place, !.steps = steps]
  BY <1>2, <1>3, <1>4 DEF Scrub
<1>6. PICK one : one = [draft EXCEPT !.name = name]
  OBVIOUS
<1>7. PICK two : two = [one EXCEPT !.environment = place]
  OBVIOUS
<1>8. plan = [two EXCEPT !.steps = steps]
  BY <1>5, <1>6, <1>7
<1>9. one = [name |-> name, environment |-> environment, risk |-> risk, steps |-> s]
  BY ONLY <1>1, <1>2, <1>6
<1>10. two = [name |-> name, environment |-> place, risk |-> risk, steps |-> s]
  BY ONLY <1>7, <1>9
<1>11. plan = [name |-> name, environment |-> place, risk |-> risk, steps |-> steps]
  BY ONLY <1>8, <1>10
<1>12. plan.name = name /\ plan.environment = place /\ plan.steps = steps
  BY ONLY <1>11
<1> QED
  BY <1>1, <1>4, <1>12

\* A draft of a case without a title, or for no environment.
Unnamed(d) == d[1].title = ""
Unplaced(d) == d[2] = ""

\* Redacting neither makes nor fills a blank.
LEMMA TextStays ==
    ASSUME NEW token
    PROVE  ScrubText(token, {}) # "" <=> token # ""
<1>1. "" \notin CredentialShaped /\ Redacted # ""
  BY EnglishAssumption DEF EnglishAssumption, Redacted
<1> QED
  BY <1>1 DEF ScrubText

\* Lines that are understood are one step for each of these, and the same step where it is clear.
BodyIs(body, steps) ==
    /\ (\A i \in DOMAIN body : Understood(body[i])) =>
           /\ NamesSomebody(steps) /\ DOMAIN StepsOfAll(body) = DOMAIN steps
           /\ StepsOfAll(body) # <<>> <=> steps # <<>>
           /\ \A i \in Clear(steps) : StepsOfAll(body)[i] = steps[i]
    /\ NamesSomebody(steps) /\ Clear(steps) = DOMAIN steps => \A i \in DOMAIN body : Understood(body[i])

\* So are the sentences of a draft's steps, read as one test's.
LEMMA BodyReadsBack ==
    ASSUME NEW case \in Case, NEW environment, NEW s \in Seq(DraftSteps(case, environment)), NEW steps, NEW body,
           steps = [i \in DOMAIN s |-> ScrubStep(s[i], {})],
           body = [i \in DOMAIN s |-> Taken(ScrubLine(SentenceFor(s[i]), {}))]
    PROVE  BodyIs(body, steps)
<1>1. /\ Len(s) \in Nat /\ DOMAIN s = 1 .. Len(s) /\ DOMAIN body = DOMAIN s /\ DOMAIN steps = DOMAIN s
      /\ \A i \in DOMAIN s : s[i] \in DraftSteps(case, environment)
  OBVIOUS
<1>2. ASSUME NEW i \in DOMAIN s
      PROVE  /\ Understood(body[i]) => steps[i].who # Placeholder /\ \E made : StepsOf(body[i]) = <<made>>
             /\ i \in Clear(steps) => /\ Understood(body[i]) <=> steps[i].who # Placeholder
                                      /\ steps[i].who # Placeholder => StepsOf(body[i]) = <<steps[i]>>
  <2>1. PICK step \in DraftSteps(case, environment) : step = s[i]
    BY <1>1
  <2>2. PICK line : line = Taken(ScrubLine(SentenceFor(step), {}))
    OBVIOUS
  <2>3. body[i] = line /\ steps[i] = ScrubStep(step, {})
    BY <2>1, <2>2
  <2>4. /\ Understood(line) => step.who # Placeholder /\ \E made : StepsOf(line) = <<made>>
        /\ Gist(SentenceFor(ScrubStep(step, {}))) \notin DOMAIN Misread =>
               /\ Understood(line) <=> step.who # Placeholder
               /\ step.who # Placeholder => StepsOf(line) = <<ScrubStep(step, {})>>
    BY <2>2, TakenReadsBack
  <2>5. ScrubStep(step, {}).who = step.who
    <3>1. PICK said : said = ScrubLine(SentenceFor(step), {})
      OBVIOUS
    <3> QED
      BY <3>1, StepReadsBack
  <2>6. i \in Clear(steps) => Gist(SentenceFor(steps[i])) \notin DOMAIN Misread
    BY DEF Clear
  <2> QED
    BY <2>3, <2>4, <2>5, <2>6
<1>3. ASSUME \A i \in DOMAIN body : Understood(body[i])
      PROVE  /\ NamesSomebody(steps) /\ DOMAIN StepsOfAll(body) = DOMAIN steps
             /\ StepsOfAll(body) # <<>> <=> steps # <<>>
             /\ \A i \in Clear(steps) : StepsOfAll(body)[i] = steps[i]
  <2> DEFINE made == [i \in DOMAIN s |-> StepsOf(body[i])[1]]
             S == {StepsOf(body[i])[1] : i \in DOMAIN s}
             v == [i \in DOMAIN body |-> StepsOf(body[i])]
  <2>1. NamesSomebody(steps)
    BY <1>1, <1>2, <1>3 DEF NamesSomebody
  <2>2. ASSUME NEW i \in DOMAIN s PROVE StepsOf(body[i]) = <<StepsOf(body[i])[1]>>
    <3>1. PICK one : StepsOf(body[i]) = <<one>>
      BY <1>1, <1>2, <1>3
    <3> QED
      BY <3>1
  <2>3. made \in Seq(S)
    <3>1. made \in [1 .. Len(s) -> S]
      BY <1>1
    <3> HIDE DEF S, made
    <3> QED
      BY <1>1, <3>1
  <2>4. DOMAIN made = DOMAIN s /\ v = [i \in DOMAIN made |-> <<made[i]>>]
    BY <1>1, <2>2
  <2>5. \A i \in Clear(steps) : i \in DOMAIN s /\ made[i] = steps[i]
    <3> SUFFICES ASSUME NEW i \in Clear(steps) PROVE i \in DOMAIN s /\ made[i] = steps[i]
      OBVIOUS
    <3>1. i \in DOMAIN s
      BY <1>1 DEF Clear
    <3>2. StepsOf(body[i]) = <<steps[i]>>
      BY <1>2, <2>1, <3>1, <1>1 DEF NamesSomebody
    <3> QED
      BY <3>1, <3>2
  <2>6. StepsOfAll(body) = FlattenSeq(v)
    BY DEF StepsOfAll
  <2> HIDE DEF made, S, v
  <2>7. FlattenSeq(v) = made
    BY <2>3, <2>4, FlattenOnes
  <2>8. made # <<>> <=> steps # <<>>
    <3>1. steps \in Seq({steps[i] : i \in DOMAIN s})
      <4> DEFINE T == {steps[i] : i \in DOMAIN s}
      <4>1. steps \in [1 .. Len(s) -> T]
        BY <1>1
      <4> HIDE DEF T
      <4>2. steps \in Seq(T)
        BY <1>1, <4>1
      <4> QED
        BY <4>2 DEF T
    <3>2. DOMAIN made = {} <=> DOMAIN steps = {}
      BY <1>1, <2>4
    <3>3. made = <<>> <=> DOMAIN made = {}
      BY <2>3
    <3>4. steps = <<>> <=> DOMAIN steps = {}
      BY <3>1
    <3> QED
      BY <3>2, <3>3, <3>4
  <2> QED
    BY <1>1, <2>1, <2>4, <2>5, <2>6, <2>7, <2>8
<1>4. ASSUME NamesSomebody(steps), Clear(steps) = DOMAIN steps
      PROVE  \A i \in DOMAIN body : Understood(body[i])
  BY <1>1, <1>2, <1>4 DEF NamesSomebody
<1> QED
  BY <1>3, <1>4 DEF BodyIs

\* The file of a draft with a name.
LEMMA NamedReadsBack ==
    ASSUME NEW d \in Drafts, ~ Unnamed(d), ~ Unplaced(d)
    PROVE  ReadsBack(d)
<1>1. PICK s : s = Drafted(d[1], d[2]).steps
  OBVIOUS
<1>2. PICK file : file = FileOf[d]
  OBVIOUS
<1>3. PICK plan : plan = Scrub(DraftPlan(d[1], d[2]), {})
  OBVIOUS
<1>4. /\ d[1] \in Case /\ s \in Seq(DraftSteps(d[1], d[2])) /\ file \in Seq(Lines)
      /\ IsFileOf(file, d[1].title, d[2], s)
  BY <1>1, <1>2, FileIs
<1>5. PICK m : m = Len(s)
  OBVIOUS
<1>6. PICK name, place, short :
          name = ScrubText(d[1].title, {}) /\ place = ScrubText(d[2], {}) /\ short = TestName(name)
  OBVIOUS
<1>7. name # "" /\ short # ""
  BY <1>6, TextStays, TestNameIs DEF Unnamed
<1>8. place # ""
  BY <1>6, TextStays DEF Unplaced
<1>9. PICK steps : steps = [i \in DOMAIN s |-> ScrubStep(s[i], {})]
  OBVIOUS
<1>10. plan.name = name /\ plan.environment = place /\ plan.steps = steps
  BY <1>1, <1>3, <1>6, <1>9, ShownIs
<1>11. m \in Nat /\ DOMAIN s = 1 .. m
  BY <1>4, <1>5
<1>12. file[1].kind = "heading" /\ file[1].name = name
  <2>1. PICK title : title = d[1].title
    OBVIOUS
  <2>2. PICK line : line = HeadingFor(title)
    OBVIOUS
  <2>3. line = [kind |-> "heading", name |-> title]
    BY <2>1, <2>2 DEF HeadingFor, Unnamed
  <2>4. line.kind = "heading" /\ line.name = title
    BY <2>3
  <2>5. ScrubLine(line, {}) = [line EXCEPT !.name = name]
    BY <1>6, <2>1, <2>4 DEF ScrubLine
  <2>6. ScrubLine(line, {}) = [kind |-> "heading", name |-> name]
    BY ONLY <2>3, <2>5
  <2>7. Taken(ScrubLine(line, {})) = ScrubLine(line, {})
    BY <2>6 DEF Taken
  <2>8. file[1] = Taken(ScrubLine(line, {}))
    BY <1>4, <2>1, <2>2 DEF IsFileOf
  <2> QED
    BY ONLY <2>6, <2>7, <2>8
<1>13. ASSUME NEW j \in 1 .. m
       PROVE  file[2 + j] = Taken(ScrubLine(SentenceFor(s[j]), {})) /\ file[2 + j].kind = "sentence"
  <2>1. PICK step \in DraftSteps(d[1], d[2]) : step = s[j]
    BY <1>4, <1>11
  <2>2. PICK line : line = Taken(ScrubLine(SentenceFor(step), {}))
    OBVIOUS
  <2>3. line.kind = "sentence"
    BY <1>4, <2>2, TakenReadsBack
  <2>4. file[2 + j] = line
    BY <1>4, <1>5, <2>1, <2>2 DEF IsFileOf
  <2> QED
    BY <2>1, <2>2, <2>3, <2>4
<1>14. IsOneTest(file, m, short, place)
  <2>1. /\ Len(file) = m + 2 /\ file[2].kind = "header" /\ file[2].key = "environment"
        /\ file[2].value = place
    BY <1>4, <1>5, <1>6 DEF IsFileOf
  <2> QED
    BY <1>6, <1>7, <1>11, <1>12, <1>13, <2>1 DEF IsOneTest
<1>15. PICK body : body = [j \in 1 .. m |-> file[2 + j]]
  OBVIOUS
<1>16. PICK headers : headers = [environment |-> place, risk |-> ""]
  OBVIOUS
<1>17. PICK test : test = [name |-> short, headers |-> headers, body |-> body]
  OBVIOUS
<1>18. SplitTests(file) = <<test>>
  BY <1>4, <1>14, <1>15, <1>16, <1>17, OneTestRead
<1>19. test.name = short /\ test.headers = headers /\ test.body = body
  BY <1>17
<1>20. headers.environment = place /\ headers.risk = ""
  BY <1>16
<1>21. body = [i \in DOMAIN s |-> Taken(ScrubLine(SentenceFor(s[i]), {}))]
  BY <1>11, <1>13, <1>15
<1>22. BodyIs(body, steps)
  <2>1. PICK case \in Case : case = d[1]
    BY <1>4
  <2>2. PICK environment : environment = d[2]
    OBVIOUS
  <2>3. s \in Seq(DraftSteps(case, environment))
    BY <1>4, <2>1, <2>2
  <2> QED
    BY ONLY <1>9, <1>21, <2>3, BodyReadsBack
<1>23. EnvironmentOf(test) = place
  BY <1>8, <1>19, <1>20 DEF EnvironmentOf
<1>24. Compiles(test) <=> /\ Environments # {} => place \in Environments
                          /\ \A i \in DOMAIN body : Understood(body[i])
                          /\ StepsOfAll(body) # <<>>
  BY <1>19, <1>20, <1>23 DEF Compiles
<1>25. Len(SplitTests(file)) = 1 /\ DOMAIN SplitTests(file) = {1} /\ SplitTests(file)[1] = test
       /\ SplitTests(file) # <<>>
  BY <1>18
<1>26. Understands(file) <=> Compiles(test)
  BY <1>25 DEF Understands
<1>27. ReadyToRun(plan) <=> /\ steps # <<>> /\ NamesSomebody(steps)
                            /\ Environments # {} => place \in Environments
  BY <1>7, <1>10 DEF ReadyToRun
<1>28. Understands(file) => ReadyToRun(plan)
  BY <1>22, <1>24, <1>26, <1>27 DEF BodyIs
<1>29. ReadyToRun(plan) /\ Clear(plan.steps) = DOMAIN plan.steps => Understands(file)
  BY <1>10, <1>22, <1>24, <1>26, <1>27 DEF BodyIs
<1>30. ASSUME Understands(file)
       PROVE  /\ PlansOf(file)[1].name = TestName(plan.name)
              /\ PlansOf(file)[1].environment = plan.environment
              /\ DOMAIN PlansOf(file)[1].steps = DOMAIN plan.steps
              /\ \A i \in Clear(plan.steps) : PlansOf(file)[1].steps[i] = plan.steps[i]
  <2>1. PICK made : made = StepsOfAll(body)
    OBVIOUS
  <2>2. DOMAIN made = DOMAIN steps /\ \A i \in Clear(steps) : made[i] = steps[i]
    BY <1>22, <1>24, <1>26, <1>30, <2>1 DEF BodyIs
  <2>3. PlansOf(file)[1] = PlanFrom(test)
    BY <1>25 DEF PlansOf
  <2>4. PlanFrom(test).name = short /\ PlanFrom(test).environment = place /\ PlanFrom(test).steps = made
    BY <1>7, <1>19, <1>23, <2>1 DEF PlanFrom
  <2> QED
    BY <1>6, <1>10, <2>2, <2>3, <2>4
<1> QED
  BY <1>2, <1>3, <1>25, <1>28, <1>29, <1>30 DEF ReadsBack

\* The file of a draft without a name begins with a line nobody understands.
LEMMA UnnamedReadsBack ==
    ASSUME NEW d \in Drafts, Unnamed(d)
    PROVE  ReadsBack(d)
<1>1. PICK s : s = Drafted(d[1], d[2]).steps
  OBVIOUS
<1>2. PICK file : file = FileOf[d]
  OBVIOUS
<1>3. PICK plan : plan = Scrub(DraftPlan(d[1], d[2]), {})
  OBVIOUS
<1>4. /\ d[1] \in Case /\ s \in Seq(DraftSteps(d[1], d[2])) /\ file \in Seq(Lines)
      /\ IsFileOf(file, d[1].title, d[2], s)
  BY <1>1, <1>2, FileIs
<1>5. plan.name = ""
  <2>1. plan.name = ScrubText(d[1].title, {})
    BY <1>1, <1>3, ShownIs
  <2> QED
    BY <2>1, TextStays DEF Unnamed
<1>6. PICK m \in Nat : m = Len(s) /\ DOMAIN s = 1 .. m
  BY <1>4
<1>7. file[1].kind = "sentence" /\ file[1].rule = "unknown"
  <2>1. PICK line : line = HeadingFor("")
    OBVIOUS
  <2>2. line.kind = "sentence" /\ line.rule = "unknown"
    BY <2>1 DEF HeadingFor
  <2>3. file[1] = Taken(ScrubLine(line, {}))
    BY <1>4, <2>1 DEF IsFileOf, Unnamed
  <2>4. PICK words, who : words = ScrubWords(line.words, {}) /\ who = ScrubText(line.who, {})
    OBVIOUS
  <2>5. ScrubLine(line, {}) = [line EXCEPT !.words = words, !.who = who]
    BY <2>2, <2>4 DEF ScrubLine
  <2>6. PICK said : said = ScrubLine(line, {})
    OBVIOUS
  <2>7. said.kind = line.kind /\ said.rule = line.rule
    <3>1. line = [kind |-> line.kind, rule |-> line.rule, method |-> line.method, expects |-> line.expects,
                  who |-> line.who, words |-> line.words]
      BY <2>1 DEF HeadingFor
    <3> QED
      BY ONLY <2>5, <2>6, <3>1
  <2>8. Gist(said) \notin DOMAIN Misread
    <3>1. Gist(said).rule = "unknown"
      BY <2>2, <2>7 DEF Gist
    <3>2. \A gist \in DOMAIN Misread : gist.rule \in {"navigate", "click", "type", "check"}
      BY DraftingAssumption DEF DraftingAssumption
    <3> QED
      BY <3>1, <3>2
  <2>9. file[1] = said
    BY <2>3, <2>6, <2>8 DEF Taken
  <2> QED
    BY <2>2, <2>7, <2>9
<1>8. file[2].kind = "header" /\ Len(file) = m + 2
  BY <1>4, <1>6 DEF IsFileOf
<1>9. ASSUME NEW j \in 1 .. m PROVE file[2 + j].kind = "sentence"
  <2>1. PICK step \in DraftSteps(d[1], d[2]) : step = s[j]
    BY <1>4, <1>6
  <2>2. PICK line : line = Taken(ScrubLine(SentenceFor(step), {}))
    OBVIOUS
  <2>3. line.kind = "sentence"
    BY <1>4, <2>2, TakenReadsBack
  <2>4. file[2 + j] = line
    BY <1>4, <1>6, <2>1, <2>2 DEF IsFileOf
  <2> QED
    BY <2>3, <2>4
<1>10. ASSUME NEW k \in DOMAIN file PROVE file[k].kind # "heading"
  <2>1. k = 1 \/ k = 2 \/ (k - 2 \in 1 .. m /\ 2 + (k - 2) = k)
    BY <1>4, <1>6, <1>8
  <2>2. CASE k = 1
    BY <1>7, <2>2
  <2>3. CASE k = 2
    BY <1>8, <2>3
  <2>4. CASE k - 2 \in 1 .. m /\ 2 + (k - 2) = k
    <3>1. file[2 + (k - 2)].kind = "sentence"
      BY <1>9, <2>4
    <3> QED
      BY <2>4, <3>1
  <2> QED
    BY <2>1, <2>2, <2>3, <2>4
<1>11. file # <<>>
  BY <1>4, <1>6, <1>8
<1>12. /\ Len(SplitTests(file)) = 1 /\ 1 \in DOMAIN SplitTests(file)[1].body
       /\ SplitTests(file)[1].body[1] = file[1]
  BY <1>4, <1>7, <1>10, <1>11, NoHeadingRead
<1>13. ~ Understood(file[1])
  BY <1>7 DEF Understood
<1>14. ~ Compiles(SplitTests(file)[1])
  BY <1>12, <1>13 DEF Compiles
<1>15. 1 \in DOMAIN SplitTests(file)
  <2>1. PICK R \in [0 .. Len(file) -> Readings] : SplitTests(file) = Flush(R[Len(file)])
    BY <1>4, SplitReads
  <2>2. Len(file) \in 0 .. Len(file)
    BY <1>6, <1>8
  <2>3. SplitTests(file) \in Seq(ReadTests)
    BY <2>1, <2>2, FlushType
  <2> QED
    BY <1>12, <2>3
<1>16. ~ Understands(file)
  BY <1>14, <1>15 DEF Understands
<1>17. ~ ReadyToRun(plan)
  BY <1>5 DEF ReadyToRun
<1> QED
  BY <1>2, <1>3, <1>12, <1>16, <1>17 DEF ReadsBack
=============================================================================
