----------------------------- MODULE Recursion -----------------------------
(***************************************************************************)
(* Induction and recursion over the natural numbers, with sets and          *)
(* functions in the place of predicates and operators: the lemmas the       *)
(* proofs about recursive functions rest on.                               *)
(***************************************************************************)
EXTENDS Integers, SequenceTheorems, WellFoundedInduction, TLAPS

\* A set of numbers that is not empty has a least one.
LEMMA LeastOf ==
    ASSUME NEW S, S \subseteq Nat, S # {}
    PROVE  \E n \in S : \A k \in S : n <= k
<1>1. PICK n \in S : \A k \in S : ~ (<<k, n>> \in OpToRel(<, Nat))
  BY NatLessThanWellFounded, WFMin
<1>2. OpToRel(<, Nat) = {ss \in Nat \X Nat : ss[1] < ss[2]}
  BY Zenon DEF OpToRel
<1>3. \A k \in S : <<k, n>> \notin {ss \in Nat \X Nat : ss[1] < ss[2]}
  BY <1>1, <1>2, Zenon
<1>4. \A k \in S : k \in Nat /\ n \in Nat /\ ~ (k < n)
  BY <1>3
<1>. QED BY <1>4

\* A set that has 0, and the successor of each number it has, has them all.
LEMMA Induction ==
    ASSUME NEW S, 0 \in S, \A n \in Nat : n \in S => n + 1 \in S
    PROVE  Nat \subseteq S
<1>. DEFINE Missing == Nat \ S
<1>1. SUFFICES ASSUME Missing # {} PROVE FALSE
  OBVIOUS
<1>2. PICK n \in Missing : \A k \in Missing : n <= k
  BY <1>1, LeastOf
<1>3. n # 0 /\ n - 1 \in Nat /\ n - 1 \notin Missing
  BY <1>2
<1>4. (n - 1) + 1 \in S
  BY <1>3
<1>. QED BY <1>2, <1>4

\* f starts at c and takes one step after the other.
Iterates(f, S, c, step) ==
    /\ f \in [Nat -> S]
    /\ f[0] = c
    /\ \A n \in Nat : f[n + 1] = step[n][f[n]]

\* There is a function that starts at c and takes one step after the other.
LEMMA Iteration ==
    ASSUME NEW S, NEW c, c \in S, NEW step, \A n \in Nat, x \in S : step[n][x] \in S
    PROVE  \E f : Iterates(f, S, c, step)
<1>. DEFINE Begins(n, f) == /\ f \in [0 .. n -> S]
                            /\ f[0] = c
                            /\ \A k \in 0 .. n - 1 : f[k + 1] = step[k][f[k]]
            Begun == {n \in Nat : \E f : Begins(n, f)}
<1>1. 0 \in Begun
  <2>1. Begins(0, [k \in 0 .. 0 |-> c])
    OBVIOUS
  <2>. QED BY <2>1
<1>2. ASSUME NEW n \in Nat, n \in Begun PROVE n + 1 \in Begun
  <2>1. PICK f : Begins(n, f)
    BY <1>2
  <2>. DEFINE g == [k \in 0 .. n + 1 |-> IF k = n + 1 THEN step[n][f[n]] ELSE f[k]]
  <2>2. f[n] \in S /\ step[n][f[n]] \in S
    <3>1. f[n] \in S
      BY <2>1
    <3>. QED BY <3>1
  <2>3. g \in [0 .. n + 1 -> S]
    <3>1. ASSUME NEW k \in 0 .. n + 1 PROVE g[k] \in S
      BY <2>1, <2>2
    <3>. QED BY <3>1
  <2>4. g[0] = c
    BY <2>1
  <2>5. ASSUME NEW k \in 0 .. (n + 1) - 1 PROVE g[k + 1] = step[k][g[k]]
    BY <2>1
  <2>6. Begins(n + 1, g)
    BY <2>3, <2>4, <2>5
  <2>. HIDE DEF Begins
  <2>. QED BY <2>6
<1>3. Nat \subseteq Begun
  <2>. HIDE DEF Begun
  <2>. QED BY <1>1, <1>2, Induction
<1>. DEFINE part(n) == CHOOSE f : Begins(n, f)
            F == [n \in Nat |-> part(n)[n]]
<1>4. \A n \in Nat : Begins(n, part(n))
  <2>. HIDE DEF Begins
  <2>. QED BY <1>3
<1>. HIDE DEF part
<1>5. ASSUME NEW n \in Nat PROVE part(n + 1)[n] = part(n)[n]
  <2>. DEFINE Same == {k \in Nat : k <= n => part(n + 1)[k] = part(n)[k]}
  <2>1. 0 \in Same
    BY <1>4
  <2>2. ASSUME NEW k \in Nat, k \in Same PROVE k + 1 \in Same
    <3>1. SUFFICES ASSUME k + 1 <= n PROVE part(n + 1)[k + 1] = part(n)[k + 1]
      OBVIOUS
    <3>2. part(n)[k + 1] = step[k][part(n)[k]]
      BY <1>4, <3>1
    <3>3. part(n + 1)[k + 1] = step[k][part(n + 1)[k]]
      <4>1. k \in 0 .. (n + 1) - 1 /\ n + 1 \in Nat
        BY <3>1
      <4>. QED BY <1>4, <4>1
    <3>. QED BY <2>2, <3>1, <3>2, <3>3
  <2>3. Nat \subseteq Same
    <3>. HIDE DEF Same
    <3>. QED BY <2>1, <2>2, Induction
  <2>. QED BY <2>3
<1>6. F \in [Nat -> S]
  <2>1. ASSUME NEW n \in Nat PROVE part(n)[n] \in S
    BY <1>4
  <2>. QED BY <2>1
<1>7. F[0] = c
  BY <1>4
<1>8. ASSUME NEW n \in Nat PROVE F[n + 1] = step[n][F[n]]
  <2>1. n + 1 \in Nat /\ n \in 0 .. (n + 1) - 1
    OBVIOUS
  <2>2. part(n + 1)[n + 1] = step[n][part(n + 1)[n]]
    BY <1>4, <2>1
  <2>. QED BY <1>5, <2>1, <2>2
<1>. HIDE DEF F
<1>9. Iterates(F, S, c, step)
  BY <1>6, <1>7, <1>8 DEF Iterates
<1>. QED BY <1>9, Zenon

\* Below L, g's value at o is made of its value further on; from L on it is c.
Descends(g, S, c, L, next, join) ==
    /\ g \in [Nat -> S]
    /\ \A o \in Nat : g[o] = IF o >= L THEN c ELSE join[o][g[next[o]]]

\* There is a function whose values are made of its values further on, up to L.
LEMMA Descent ==
    ASSUME NEW S, NEW c, c \in S, NEW L \in Nat,
           NEW next, \A o \in Nat : o < L => next[o] \in Nat /\ next[o] > o,
           NEW join, \A o \in Nat, x \in S : join[o][x] \in S
    PROVE  \E g : Descends(g, S, c, L, next, join)
<1>. DEFINE T == [Nat -> S]
            first == [o \in Nat |-> c]
            once(h) == [o \in Nat |-> IF o >= L THEN c ELSE join[o][h[next[o]]]]
            step == [n \in Nat |-> [h \in T |-> once(h)]]
<1>1. first \in T
  OBVIOUS
<1>2. ASSUME NEW h \in T PROVE once(h) \in T
  <2>1. ASSUME NEW o \in Nat PROVE (IF o >= L THEN c ELSE join[o][h[next[o]]]) \in S
    <3>1. CASE o >= L
      BY <3>1
    <3>2. CASE ~ (o >= L)
      <4>1. h[next[o]] \in S
        BY <3>2
      <4>. QED BY <3>2, <4>1
    <3>. QED BY <3>1, <3>2
  <2>. QED BY <2>1
<1>3. \A n \in Nat, h \in T : step[n][h] = once(h) /\ step[n][h] \in T
  <2>. HIDE DEF once, T
  <2>. QED BY <1>2
<1>4. PICK F : Iterates(F, T, first, step)
  <2>. HIDE DEF step, T, first
  <2>. QED BY <1>1, <1>3, Iteration, Zenon
<1>. HIDE DEF step
<1>5. ASSUME NEW n \in Nat PROVE F[n] \in T /\ F[n + 1] = once(F[n])
  <2>. HIDE DEF once, T
  <2>. QED BY <1>3, <1>4 DEF Iterates
<1>6. ASSUME NEW n \in Nat, NEW o \in Nat
      PROVE  F[n + 1][o] = IF o >= L THEN c ELSE join[o][F[n][next[o]]]
  <2>. DEFINE h == F[n]
  <2>1. once(h)[o] = IF o >= L THEN c ELSE join[o][h[next[o]]]
    OBVIOUS
  <2>. HIDE DEF once
  <2>2. F[n + 1] = once(h)
    BY <1>5
  <2>. QED BY <2>1, <2>2
<1>7. F[0] = first
  BY <1>4 DEF Iterates
<1>. DEFINE Stable == {n \in Nat : \A o \in Nat : o + n >= L => F[n + 1][o] = F[n][o]}
<1>8. 0 \in Stable
  <2>1. ASSUME NEW o \in Nat, o + 0 >= L PROVE F[0 + 1][o] = F[0][o]
    <3>1. F[0][o] = c
      BY <1>7
    <3>2. F[0 + 1][o] = c
      BY <1>6, <2>1
    <3>. QED BY <3>1, <3>2
  <2>. QED BY <2>1
<1>9. ASSUME NEW n \in Nat, n \in Stable PROVE n + 1 \in Stable
  <2>1. ASSUME NEW o \in Nat, o + (n + 1) >= L PROVE F[(n + 1) + 1][o] = F[n + 1][o]
    <3>1. F[n + 1][o] = IF o >= L THEN c ELSE join[o][F[n][next[o]]]
      BY <1>6
    <3>2. F[(n + 1) + 1][o] = IF o >= L THEN c ELSE join[o][F[n + 1][next[o]]]
      <4>1. n + 1 \in Nat
        OBVIOUS
      <4>. QED BY <1>6, <4>1
    <3>3. ASSUME ~ (o >= L) PROVE F[n + 1][next[o]] = F[n][next[o]]
      <4>1. next[o] \in Nat /\ next[o] + n >= L
        BY <2>1, <3>3
      <4>. QED BY <1>9, <4>1
    <3>. QED BY <3>1, <3>2, <3>3
  <2>. QED BY <2>1
<1>10. Nat \subseteq Stable
  <2>. HIDE DEF Stable
  <2>. QED BY <1>8, <1>9, Induction
<1>11. ASSUME NEW o \in Nat PROVE F[L + 1][o] = F[L][o]
  <2>1. L \in Stable /\ o + L >= L
    BY <1>10
  <2>. QED BY <2>1
<1>12. ASSUME NEW o \in Nat
       PROVE  F[L][o] = IF o >= L THEN c ELSE join[o][F[L][next[o]]]
  BY <1>6, <1>11
<1>13. Descends(F[L], S, c, L, next, join)
  BY <1>5, <1>12 DEF Descends
<1>. QED BY <1>13, Zenon

\* f[n] is what c has become after the first n elements of s.
Folds(f, S, c, step, s) ==
    /\ f \in [0 .. Len(s) -> S]
    /\ f[0] = c
    /\ \A n \in 1 .. Len(s) : f[n] = step[f[n - 1]][s[n]]

\* The same of a g whose values are not known to be in S.
FoldsInto(g, S, c, step, s) ==
    /\ DOMAIN g = 0 .. Len(s)
    /\ g[0] = c
    /\ \A n \in 1 .. Len(s) : g[n - 1] \in S => g[n] = step[g[n - 1]][s[n]]

\* There is such an f.
LEMMA Folding ==
    ASSUME NEW S, NEW E, NEW c, c \in S, NEW step, \A x \in S, e \in E : step[x][e] \in S,
           NEW s \in Seq(E)
    PROVE  \E f : Folds(f, S, c, step, s)
<1>. DEFINE N == Len(s)
            next == [n \in Nat |-> [x \in S |-> IF n + 1 <= N THEN step[x][s[n + 1]] ELSE x]]
<1>1. N \in Nat
  BY LenProperties
<1>2. \A n \in 1 .. N : s[n] \in E
  BY ElementOfSeq
<1>. HIDE DEF N
<1>3. \A n \in Nat, x \in S : next[n][x] = IF n + 1 <= N THEN step[x][s[n + 1]] ELSE x
  OBVIOUS
<1>4. \A n \in Nat, x \in S : next[n][x] \in S
  BY <1>1, <1>2, <1>3
<1>. HIDE DEF next
<1>5. PICK F : Iterates(F, S, c, next)
  BY <1>4, Iteration, Zenon
<1>. DEFINE f == [n \in 0 .. N |-> F[n]]
<1>6. ASSUME NEW n \in 1 .. N PROVE f[n] = step[f[n - 1]][s[n]]
  <2>1. n - 1 \in Nat /\ (n - 1) + 1 <= N /\ (n - 1) + 1 = n /\ n - 1 \in 0 .. N /\ n \in 0 .. N
    BY <1>1
  <2>2. F[n - 1] \in S /\ F[(n - 1) + 1] = next[n - 1][F[n - 1]]
    BY <1>5, <2>1 DEF Iterates
  <2>3. F[(n - 1) + 1] = step[F[n - 1]][s[(n - 1) + 1]]
    BY <1>3, <2>1, <2>2, Zenon
  <2>4. f[n] = F[n] /\ f[n - 1] = F[n - 1]
    BY <2>1
  <2>. QED BY <2>1, <2>3, <2>4
<1>7. f \in [0 .. N -> S] /\ f[0] = c
  BY <1>1, <1>5 DEF Iterates
<1>. HIDE DEF f
<1>8. Folds(f, S, c, step, s)
  BY <1>6, <1>7 DEF Folds, N
<1>. QED BY <1>8, Zenon

\* There is only one.
LEMMA FoldingUnique ==
    ASSUME NEW S, NEW c, NEW step, NEW s, Len(s) \in Nat, NEW f, Folds(f, S, c, step, s),
           NEW g, FoldsInto(g, S, c, step, s)
    PROVE  g[Len(s)] = f[Len(s)]
<1>. DEFINE Same == {n \in Nat : n <= Len(s) => g[n] = f[n]}
<1>1. Len(s) \in Nat
  OBVIOUS
<1>2. 0 \in Same
  BY DEF Folds, FoldsInto
<1>3. ASSUME NEW n \in Nat, n \in Same PROVE n + 1 \in Same
  <2>1. SUFFICES ASSUME n + 1 <= Len(s) PROVE g[n + 1] = f[n + 1]
    OBVIOUS
  <2>2. n + 1 \in 1 .. Len(s) /\ (n + 1) - 1 = n /\ n \in 0 .. Len(s)
    BY <1>1, <2>1
  <2>3. g[n] = f[n] /\ f[n] \in S
    BY <1>3, <2>2 DEF Folds
  <2>4. f[n + 1] = step[f[n]][s[n + 1]]
    BY <2>2 DEF Folds
  <2>5. g[n + 1] = step[g[n]][s[n + 1]]
    BY <2>2, <2>3 DEF FoldsInto
  <2>. QED BY <2>3, <2>4, <2>5
<1>4. Nat \subseteq Same
  <2>. HIDE DEF Same
  <2>. QED BY <1>2, <1>3, Induction
<1>. QED BY <1>1, <1>4

\* One element more is one step more.
LEMMA FoldingGrows ==
    ASSUME NEW S, NEW E, NEW c, NEW step, NEW s \in Seq(E), NEW e \in E,
           NEW f, Folds(f, S, c, step, s), NEW g, Folds(g, S, c, step, Append(s, e))
    PROVE  f[Len(s)] \in S /\ g[Len(s) + 1] = step[f[Len(s)]][e]
<1>. DEFINE t == Append(s, e)
            h == [n \in 0 .. Len(s) |-> g[n]]
<1>1. /\ Len(t) = Len(s) + 1 /\ Len(s) \in Nat
      /\ \A n \in 1 .. Len(s) : t[n] = s[n]
      /\ t[Len(s) + 1] = e
  BY AppendProperties, LenProperties
<1>. HIDE DEF t
<1>2. /\ g[0] = c /\ \A n \in 1 .. Len(s) + 1 : g[n] = step[g[n - 1]][t[n]]
  BY <1>1 DEF Folds, t
<1>3. ASSUME NEW n \in 1 .. Len(s) PROVE h[n] = step[h[n - 1]][s[n]]
  <2>1. n \in 1 .. Len(s) + 1 /\ n \in 0 .. Len(s) /\ n - 1 \in 0 .. Len(s)
    BY <1>1
  <2>2. h[n] = g[n] /\ h[n - 1] = g[n - 1]
    BY <2>1
  <2>. QED BY <1>1, <1>2, <2>1, <2>2
<1>4. h[0] = c /\ h[Len(s)] = g[Len(s)] /\ DOMAIN h = 0 .. Len(s)
  BY <1>1, <1>2
<1>. HIDE DEF h
<1>5. h[Len(s)] = f[Len(s)]
  <2>1. FoldsInto(h, S, c, step, s)
    BY <1>3, <1>4 DEF FoldsInto
  <2>. QED BY <1>1, <2>1, FoldingUnique
<1>6. g[Len(s)] = f[Len(s)] /\ f[Len(s)] \in S
  BY <1>1, <1>4, <1>5 DEF Folds
<1>7. g[Len(s) + 1] = step[g[Len(s)]][t[Len(s) + 1]]
  <2>1. Len(s) + 1 \in 1 .. Len(s) + 1 /\ (Len(s) + 1) - 1 = Len(s)
    BY <1>1
  <2>. QED BY <1>2, <2>1
<1>. QED BY <1>1, <1>6, <1>7

\* data[n] is put together of the first n parts.
Joins(data, part, N, E) ==
    /\ N \in Nat
    /\ \A n \in 0 .. N : data[n] \in Seq(E)
    /\ \A n \in 1 .. N : part[n] \in Seq(E) /\ data[n] = data[n - 1] \o part[n]

\* Of a sequence put together part by part, what is behind the first n parts.
LEMMA SuffixesJoin ==
    ASSUME NEW E, NEW N, NEW data, NEW part, Joins(data, part, N, E), NEW n \in 0 .. N
    PROVE  \E t : t \in Seq(E) /\ data[N] = data[n] \o t
<1>. USE DEF Joins
<1>. DEFINE Done == {k \in Nat : k <= N =>
                       \E t : t \in Seq(E) /\ data[N] = data[N - k] \o t}
<1>1. 0 \in Done
  <2>1. data[N] \in Seq(E) /\ N - 0 = N
    OBVIOUS
  <2>2. data[N] = data[N - 0] \o <<>>
    BY <2>1, ConcatEmptySeq
  <2>3. <<>> \in Seq(E)
    BY EmptySeq
  <2>4. \E t : t \in Seq(E) /\ data[N] = data[N - 0] \o t
    BY <2>2, <2>3, Zenon
  <2>. QED BY <2>4
<1>2. ASSUME NEW k \in Nat, k \in Done PROVE k + 1 \in Done
  <2>1. SUFFICES ASSUME k + 1 <= N
                 PROVE  \E t : t \in Seq(E) /\ data[N] = data[N - (k + 1)] \o t
    OBVIOUS
  <2>. DEFINE m == N - k
              b == part[m]
              before == data[m - 1]
  <2>2. m \in 1 .. N /\ m - 1 \in 0 .. N /\ N - (k + 1) = m - 1
    BY <2>1
  <2>3. PICK t : t \in Seq(E) /\ data[N] = data[m] \o t
    BY <1>2, <2>1
  <2>. HIDE DEF m
  <2>4. before \in Seq(E) /\ b \in Seq(E) /\ data[m] = before \o b
    BY <2>2
  <2>. HIDE DEF b, before
  <2>5. b \o t \in Seq(E)
    BY <2>3, <2>4, ConcatProperties
  <2>6. (before \o b) \o t = before \o (b \o t)
    BY <2>3, <2>4, ConcatAssociative
  <2>7. data[N] = before \o (b \o t)
    BY <2>3, <2>4, <2>6
  <2>8. \E u : u \in Seq(E) /\ data[N] = before \o u
    BY <2>5, <2>7, Zenon
  <2>. QED BY <2>2, <2>8 DEF before
<1>3. Nat \subseteq Done
  <2>. HIDE DEF Done
  <2>. QED BY <1>1, <1>2, Induction
<1>4. N - n \in Nat /\ N - n <= N /\ N - (N - n) = n
  OBVIOUS
<1>. QED BY <1>3, <1>4
=============================================================================
