-------------------------- MODULE TextMode_proofs --------------------------
(***************************************************************************)
(* Proofs about TextMode, for every size of the screen and all texts.      *)
(*   - Induction over data is done on sets: UpTo.  A fold of the community *)
(*     modules is a chain of states, of which one element is a step of the *)
(*     one before: FoldExists, FoldRuns.                                   *)
(*   - memmove copies and memset fills; so a scroll moves the lines up.    *)
(*   - StoreInv bounds the cells that are written, CalmInv the column of   *)
(*     the cursor after main was disturbed, and TextInv says what the      *)
(*     screen will show when main's call returns.                          *)
(***************************************************************************)
EXTENDS TextMode, WellFoundedInduction, TLAPS

-----------------------------------------------------------------------------
(* Induction and folds.                                                    *)

LEMMA Least ==
    ASSUME NEW S, S \subseteq Nat, S # {}
    PROVE  \E k \in S : \A j \in S : k <= j
<1> DEFINE R == OpToRel(<, Nat)
<1>1. \A i, j \in Nat : i < j => <<i, j>> \in R
  BY DEF OpToRel
<1>2. IsWellFoundedOn(R, Nat)
  BY NatLessThanWellFounded
<1> HIDE DEF R
<1>3. PICK k \in S : \A j \in S : ~(<<j, k>> \in R)
  BY <1>2, WFMin, Zenon
<1>4. \A j \in S : k <= j
  <2> TAKE j \in S
  <2>1. k \in Nat /\ j \in Nat
    OBVIOUS
  <2>2. ~(j < k)
    BY <1>1, <1>3, <2>1, Zenon
  <2> QED
    BY <2>1, <2>2
<1> QED
  BY <1>4

\* Induction up to n, about the set of the numbers that have a property.
LEMMA UpTo ==
    ASSUME NEW n \in Nat, NEW P,
           0 \in P, \A k \in 1..n : k - 1 \in P => k \in P
    PROVE  0..n \subseteq P
<1> SUFFICES ASSUME (0..n) \ P # {}
             PROVE  FALSE
  OBVIOUS
<1> DEFINE S == (0..n) \ P
<1>0. S \subseteq Nat
  OBVIOUS
<1> HIDE DEF S
<1>1. PICK k \in S : \A j \in S : k <= j
  BY <1>0, Least DEF S
<1> USE DEF S
<1>2. k \in 1..n /\ k - 1 \in 0..n /\ ~(k <= k - 1)
  BY <1>1
<1>3. k - 1 \in P
  BY <1>1, <1>2
<1> QED
  BY <1>1, <1>2, <1>3

LEMMA MaxIn ==
    ASSUME NEW n \in Nat, NEW s \in SUBSET (1..n), s # {}
    PROVE  Max(s) \in s /\ \A i \in s : i <= Max(s)
<1> DEFINE Up == {k \in Nat : \A i \in s : i <= k}
<1>1. n \in Up
  OBVIOUS
<1>2. PICK k \in Up : \A j \in Up : k <= j
  BY <1>1, Least
<1>3. k \in s
  <2> SUFFICES ASSUME k \notin s
               PROVE  FALSE
    OBVIOUS
  <2>1. PICK i \in s : TRUE
    OBVIOUS
  <2>2. k - 1 \in Nat /\ ~(k <= k - 1)
    BY <1>2, <2>1
  <2>3. \A j \in s : j <= k - 1
    BY <1>2
  <2>4. k - 1 \in Up
    BY <2>2, <2>3
  <2> QED
    BY <1>2, <2>2, <2>4
<1>4. \E i \in s : \A j \in s : i >= j
  BY <1>2, <1>3
<1> QED
  BY <1>4 DEF Max

\* The last element of a part of 1..k that has k.
LEMMA MaxLast ==
    ASSUME NEW k \in Nat \ {0}, NEW s \in SUBSET (1..k), k \in s
    PROVE  Max(s) = k /\ s \ {k} \in SUBSET (1..(k - 1))
<1>1. Max(s) \in s /\ \A i \in s : i <= Max(s)
  BY MaxIn
<1>2. \A i \in s : i \in 1..k
  OBVIOUS
<1>3. Max(s) = k
  <2>1. Max(s) \in 1..k /\ k <= Max(s)
    BY <1>1, <1>2
  <2> QED
    BY <2>1
<1>4. \A i \in s \ {k} : i \in 1..(k - 1)
  BY <1>2
<1> QED
  BY <1>3, <1>4

\* What the folds of the community modules are, on the parts of a sequence:
\* FoldLeft takes the step of its last element behind the fold of the others.
Steps(F, base, seq, n, g) ==
    \A s \in SUBSET (1..n) :
        g[s] = IF s = {} THEN base ELSE F[<<g[s \ {Max(s)}], seq[Max(s)]>>]

LEMMA FoldExists ==
    ASSUME NEW St, NEW E, NEW F \in [St \X E -> St], NEW base \in St,
           NEW n \in Nat, NEW seq \in [1..n -> E]
    PROVE  \E g \in [SUBSET (1..n) -> St] : Steps(F, base, seq, n, g)
<1> DEFINE P == {k \in 0..n : \E g \in [SUBSET (1..k) -> St] :
                                  Steps(F, base, seq, k, g)}
<1>1. 0 \in P
  <2> DEFINE g == [s \in SUBSET (1..0) |-> base]
  <2>1. g \in [SUBSET (1..0) -> St] /\ \A s \in SUBSET (1..0) : s = {}
    OBVIOUS
  <2>2. Steps(F, base, seq, 0, g)
    BY <2>1 DEF Steps
  <2> QED
    BY <2>1, <2>2
<1>2. ASSUME NEW k \in 1..n, k - 1 \in P
      PROVE  k \in P
  <2>1. PICK g \in [SUBSET (1..(k - 1)) -> St] : Steps(F, base, seq, k - 1, g)
    BY <1>2
  <2> DEFINE g2 == [s \in SUBSET (1..k) |->
                       IF k \in s THEN F[<<g[s \ {k}], seq[k]>>] ELSE g[s]]
  <2>2. ASSUME NEW s \in SUBSET (1..k)
        PROVE  /\ g2[s] \in St
               /\ g2[s] = IF s = {} THEN base
                          ELSE F[<<g2[s \ {Max(s)}], seq[Max(s)]>>]
    <3>1. CASE k \in s
      <4>1. Max(s) = k /\ s \ {k} \in SUBSET (1..(k - 1))
        BY <3>1, MaxLast
      <4>2. g[s \ {k}] \in St /\ seq[k] \in E
        BY <4>1
      <4>3. g2[s \ {k}] = g[s \ {k}]
        BY <4>1
      <4>4. g2[s] = F[<<g[s \ {k}], seq[k]>>]
        BY <3>1
      <4> HIDE DEF g2
      <4> QED
        BY <3>1, <4>1, <4>2, <4>3, <4>4
    <3>2. CASE k \notin s
      <4>0. \A i \in s : i \in 1..(k - 1)
        BY <3>2
      <4>1. s \in SUBSET (1..(k - 1)) /\ s \ {Max(s)} \in SUBSET (1..(k - 1))
        BY <4>0
      <4>2. g2[s] = g[s] /\ g2[s \ {Max(s)}] = g[s \ {Max(s)}] /\ g[s] \in St
        BY <3>2, <4>1
      <4> HIDE DEF g2
      <4> QED
        BY <2>1, <4>1, <4>2 DEF Steps
    <3> QED
      BY <3>1, <3>2
  <2>3. g2 \in [SUBSET (1..k) -> St] /\ Steps(F, base, seq, k, g2)
    BY <2>2 DEF Steps
  <2> HIDE DEF g2
  <2> QED
    BY <2>3
<1> HIDE DEF P
<1>3. 0..n \subseteq P
  BY <1>1, <1>2, UpTo
<1>4. n \in P
  BY <1>3
<1> QED
  BY <1>4 DEF P
\* The states that a fold of a sequence of length n goes through.
Runs(F, base, seq, n, h) ==
    h[0] = base /\ \A k \in 1..n : h[k] = F[<<h[k - 1], seq[k]>>]

\* The last of them.
Yields(St, F, base, seq, n, last) ==
    \E h \in [0..n -> St] : Runs(F, base, seq, n, h) /\ h[n] = last

\* The steps of a fold, from states of the right kind.
Follows(St, F, base, seq, n, iter) ==
    /\ iter[{}] = base
    /\ \A s \in SUBSET (1..n) :
          s # {} /\ iter[s \ {Max(s)}] \in St
              => iter[s] = F[<<iter[s \ {Max(s)}], seq[Max(s)]>>]

\* They lead through such states.
LEMMA FoldRuns ==
    ASSUME NEW St, NEW E, NEW F \in [St \X E -> St], NEW base \in St,
           NEW n \in Nat, NEW seq \in [1..n -> E], NEW iter,
           Follows(St, F, base, seq, n, iter)
    PROVE  Yields(St, F, base, seq, n, iter[1..n])
<1> DEFINE h == [k \in 0..n |-> iter[1..k]]
<1>1. 1..0 = {}
  OBVIOUS
<1>2. h[0] = base
  BY <1>1 DEF Follows
<1>3. ASSUME NEW k \in 1..n, h[k - 1] \in St
      PROVE  h[k] = F[<<h[k - 1], seq[k]>>] /\ h[k] \in St
  <2>1. 1..k \in SUBSET (1..n) /\ k \in 1..k /\ k - 1 \in 0..n
    OBVIOUS
  <2>2. Max(1..k) = k
    BY <2>1, MaxLast
  <2>3. (1..k) \ {k} = 1..(k - 1)
    OBVIOUS
  <2>4. h[k] = iter[1..k] /\ h[k - 1] = iter[1..(k - 1)]
    BY <2>1
  <2>5. seq[k] \in E
    OBVIOUS
  <2> HIDE DEF h
  <2>6. h[k] = F[<<h[k - 1], seq[k]>>]
    BY <1>3, <2>1, <2>2, <2>3, <2>4 DEF Follows
  <2> QED
    BY <1>3, <2>5, <2>6
<1> DEFINE P == {k \in 0..n : h[k] \in St}
<1>4. 0..n \subseteq P
  <2>1. 0 \in P
    BY <1>2
  <2>2. \A k \in 1..n : k \in 0..n
    OBVIOUS
  <2>3. \A k \in 1..n : k - 1 \in P => k \in P
    BY <1>3, <2>2
  <2> HIDE DEF P
  <2> QED
    BY <2>1, <2>3, UpTo
<1>5. \A k \in 0..n : h[k] \in St
  BY <1>4
<1>6. h[n] = iter[1..n] /\ h \in [0..n -> St]
  BY <1>5
<1>7. \A k \in 1..n : k - 1 \in 0..n
  OBVIOUS
<1> HIDE DEF h
<1>8. Runs(F, base, seq, n, h)
  BY <1>2, <1>3, <1>5, <1>7 DEF Runs
<1> QED
  BY <1>6, <1>8 DEF Yields

\* The first states do not depend on what comes behind.
LEMMA SameRuns ==
    ASSUME NEW F, NEW base, NEW n \in Nat, NEW seq, NEW seq2, NEW h, NEW h2,
           Runs(F, base, seq, n, h), Runs(F, base, seq2, n, h2),
           \A k \in 1..n : seq[k] = seq2[k]
    PROVE  \A k \in 0..n : h[k] = h2[k]
<1> DEFINE P == {k \in 0..n : h[k] = h2[k]}
<1>1. 0 \in P
  BY DEF Runs
<1>2. ASSUME NEW k \in 1..n, k - 1 \in P
      PROVE  k \in P
  <2>1. h[k - 1] = h2[k - 1] /\ seq[k] = seq2[k] /\ k \in 0..n
    BY <1>2
  <2>2. h[k] = F[<<h[k - 1], seq[k]>>] /\ h2[k] = F[<<h2[k - 1], seq2[k]>>]
    BY DEF Runs
  <2> QED
    BY <2>1, <2>2
<1>3. 0..n \subseteq P
  <2> HIDE DEF P
  <2> QED
    BY <1>1, <1>2, UpTo
<1> QED
  BY <1>3

-----------------------------------------------------------------------------
(* memmove and memset.                                                     *)

\* A region of n addresses lies in D.
Within(D, s, n) == \A i \in 0..n - 1 : s + i \in D

\* The memories that a copy goes through, and a fill.
Copying(D, V, mem, dest, src, n, seq) ==
    \E h \in [0..n -> [D -> V]] :
        /\ h[0] = mem /\ h[n] = RepMovsb(mem, dest, src, seq)
        /\ \A k \in 1..n : h[k] = [h[k - 1] EXCEPT ![dest + seq[k]] =
                                                 h[k - 1][src + seq[k]]]
Filling(D, V, mem, s, c, n) ==
    \E h \in [0..n -> [D -> V]] :
        /\ h[0] = mem /\ h[n] = memset(mem, s, c, n)
        /\ \A k \in 1..n : h[k] = [h[k - 1] EXCEPT ![s + (k - 1)] = c]

LEMMA CopyRuns ==
    ASSUME NEW D, NEW V, NEW mem \in [D -> V], NEW n \in Nat,
           NEW dest \in Nat, NEW src \in Nat,
           Within(D, dest, n), Within(D, src, n),
           NEW seq \in [1..n -> 0..n - 1]
    PROVE  Copying(D, V, mem, dest, src, n, seq)
<1> DEFINE St == [D -> V]
           E == 0..n - 1
           Op(m, i) == [m EXCEPT ![dest + i] = m[src + i]]
           F == [p \in St \X E |-> Op(p[1], p[2])]
           iter == CHOOSE g : g = [s \in SUBSET DOMAIN seq |->
                       IF s = {} THEN mem
                       ELSE Op(g[s \ {Max(s)}], seq[Max(s)])]
<1>1. RepMovsb(mem, dest, src, seq) = iter[DOMAIN seq]
  BY Zenon DEF RepMovsb, FoldLeft, MapThenFoldSet
<1>2. DOMAIN seq = 1..n
  OBVIOUS
<1>3. \A m \in St, i \in E : Op(m, i) \in St
  BY DEF Within
<1>4. \A m \in St, i \in E : F[<<m, i>>] = Op(m, i)
  OBVIOUS
<1>5. F \in [St \X E -> St] /\ mem \in St /\ seq \in [1..n -> E]
  BY <1>3
<1> HIDE DEF St, E, F, Op, iter
<1>6. PICK g \in [SUBSET (1..n) -> St] : Steps(F, mem, seq, n, g)
  BY <1>5, FoldExists
<1>7. ASSUME NEW s \in SUBSET (1..n), s # {}
      PROVE  seq[Max(s)] \in E /\ s \ {Max(s)} \in SUBSET (1..n)
  BY <1>5, <1>7, MaxIn
<1>8. g = [s \in SUBSET (1..n) |->
              IF s = {} THEN mem ELSE Op(g[s \ {Max(s)}], seq[Max(s)])]
  BY <1>4, <1>6, <1>7 DEF Steps
<1>9. iter = [s \in SUBSET (1..n) |->
              IF s = {} THEN mem ELSE Op(iter[s \ {Max(s)}], seq[Max(s)])]
  BY <1>2, <1>8, Zenon DEF iter
<1>10. iter[{}] = mem
  BY <1>9
<1>11. Follows(St, F, mem, seq, n, iter)
  BY <1>4, <1>7, <1>9, <1>10 DEF Follows
<1>12. Yields(St, F, mem, seq, n, iter[1..n])
  BY <1>5, <1>11, FoldRuns
<1>13. PICK h \in [0..n -> St] : Runs(F, mem, seq, n, h) /\ h[n] = iter[1..n]
  BY <1>12 DEF Yields
<1>14. \A k \in 1..n : h[k - 1] \in St /\ seq[k] \in E
  BY DEF E
<1>15. \A k \in 1..n : h[k] = Op(h[k - 1], seq[k])
  BY <1>4, <1>13, <1>14 DEF Runs
<1> QED
  BY <1>1, <1>2, <1>13, <1>15 DEF Runs, St, Op, Copying
LEMMA FillRuns ==
    ASSUME NEW D, NEW V, NEW mem \in [D -> V], NEW n \in Nat, NEW s \in Nat,
           NEW c \in V, Within(D, s, n)
    PROVE  Filling(D, V, mem, s, c, n)
<1> DEFINE St == [D -> V]
           E == 0..n - 1
           seq == Upwards(n)
           Op(m, i) == [m EXCEPT ![s + i] = c]
           F == [p \in St \X E |-> Op(p[1], p[2])]
           iter == CHOOSE g : g = [t \in SUBSET DOMAIN seq |->
                       IF t = {} THEN mem
                       ELSE Op(g[t \ {Max(t)}], seq[Max(t)])]
<1>1. memset(mem, s, c, n) = iter[DOMAIN seq]
  BY Zenon DEF memset, FoldLeft, MapThenFoldSet
<1>2. DOMAIN seq = 1..n /\ \A k \in 1..n : seq[k] = k - 1
  BY DEF Upwards
<1>3. \A m \in St, i \in E : Op(m, i) \in St
  BY DEF Within
<1>4. \A m \in St, i \in E : F[<<m, i>>] = Op(m, i)
  OBVIOUS
<1>5. F \in [St \X E -> St] /\ mem \in St /\ seq \in [1..n -> E]
  BY <1>3 DEF Upwards
<1> HIDE DEF St, E, F, Op, iter, seq
<1>6. PICK g \in [SUBSET (1..n) -> St] : Steps(F, mem, seq, n, g)
  BY <1>5, FoldExists
<1>7. ASSUME NEW t \in SUBSET (1..n), t # {}
      PROVE  seq[Max(t)] \in E /\ t \ {Max(t)} \in SUBSET (1..n)
  BY <1>5, <1>7, MaxIn
<1>8. g = [t \in SUBSET (1..n) |->
              IF t = {} THEN mem ELSE Op(g[t \ {Max(t)}], seq[Max(t)])]
  BY <1>4, <1>6, <1>7 DEF Steps
<1>9. iter = [t \in SUBSET (1..n) |->
              IF t = {} THEN mem ELSE Op(iter[t \ {Max(t)}], seq[Max(t)])]
  BY <1>2, <1>8, Zenon DEF iter
<1>10. iter[{}] = mem
  BY <1>9
<1>11. Follows(St, F, mem, seq, n, iter)
  BY <1>4, <1>7, <1>9, <1>10 DEF Follows
<1>12. Yields(St, F, mem, seq, n, iter[1..n])
  BY <1>5, <1>11, FoldRuns
<1>13. PICK h \in [0..n -> St] : Runs(F, mem, seq, n, h) /\ h[n] = iter[1..n]
  BY <1>12 DEF Yields
<1>14. \A k \in 1..n : h[k - 1] \in St /\ seq[k] \in E
  BY <1>5
<1>15. \A k \in 1..n : h[k] = Op(h[k - 1], seq[k])
  BY <1>4, <1>13, <1>14 DEF Runs
<1>16. \A k \in 1..n : h[k] = [h[k - 1] EXCEPT ![s + (k - 1)] = c]
  BY <1>2, <1>15 DEF Op
<1> QED
  BY <1>1, <1>2, <1>13, <1>16 DEF Runs, St, Filling

\* A copy upwards reads no byte that it has written, unless it lies in the
\* region below the end of the source.
LEMMA CopiesUpwards ==
    ASSUME NEW D \in SUBSET Int, NEW V, NEW mem \in [D -> V], NEW n \in Nat,
           NEW dest \in Nat, NEW src \in Nat,
           Within(D, dest, n), Within(D, src, n),
           dest < src \/ dest >= src + n
    PROVE  RepMovsb(mem, dest, src, Upwards(n)) = Moved(mem, dest, src, n)
<1>1. Upwards(n) \in [1..n -> 0..n - 1] /\ \A k \in 1..n : Upwards(n)[k] = k - 1
  BY DEF Upwards
<1>0. Copying(D, V, mem, dest, src, n, Upwards(n))
  BY <1>1, CopyRuns
<1>2. PICK h \in [0..n -> [D -> V]] :
         /\ h[0] = mem /\ h[n] = RepMovsb(mem, dest, src, Upwards(n))
         /\ \A k \in 1..n :
               h[k] = [h[k - 1] EXCEPT ![dest + Upwards(n)[k]] =
                                           h[k - 1][src + Upwards(n)[k]]]
  BY <1>0 DEF Copying
<1> DEFINE P == {k \in 0..n : h[k] = Moved(mem, dest, src, k)}
<1>3. 0 \in P
  BY <1>2 DEF Moved
<1>4. ASSUME NEW k \in 1..n, k - 1 \in P
      PROVE  k \in P
  <2> DEFINE j == k - 1
  <2>0. j \in 0..n - 1 /\ k = j + 1
    OBVIOUS
  <2>2. h[k] = [h[j] EXCEPT ![dest + j] = h[j][src + j]]
    BY <1>1, <1>2
  <2>3. h[j] = Moved(mem, dest, src, j)
    BY <1>4
  <2> HIDE DEF j
  <2>1. dest + j \in D /\ src + j \in D
    BY <2>0 DEF Within
  <2>4. src + j \notin dest..dest + j - 1
    BY <2>0, <2>1
  <2>5. h[j][src + j] = mem[src + j]
    BY <2>0, <2>1, <2>3, <2>4 DEF Moved
  <2>6. h[k] = Moved(mem, dest, src, k)
    <3>1. h[k] \in [D -> V] /\ h[j] \in [D -> V] /\ DOMAIN mem = D
      BY <2>0
    <3>2. ASSUME NEW a \in D
          PROVE  h[k][a] = Moved(mem, dest, src, k)[a]
      <4>1. CASE a = dest + j
        BY <2>0, <2>1, <2>2, <2>5, <3>1, <4>1 DEF Moved
      <4>2. CASE a # dest + j
        BY <2>0, <2>1, <2>2, <2>3, <3>1, <4>2 DEF Moved
      <4> QED
        BY <4>1, <4>2
    <3> QED
      BY <3>1, <3>2 DEF Moved
  <2> QED
    BY <2>6
<1>5. 0..n \subseteq P
  <2> HIDE DEF P
  <2> QED
    BY <1>3, <1>4, UpTo
<1> QED
  BY <1>2, <1>5

\* A copy downwards, from below the destination, reads none either.
LEMMA CopiesDownwards ==
    ASSUME NEW D \in SUBSET Int, NEW V, NEW mem \in [D -> V], NEW n \in Nat,
           NEW dest \in Nat, NEW src \in Nat,
           Within(D, dest, n), Within(D, src, n),
           src < dest
    PROVE  RepMovsb(mem, dest, src, Downwards(n)) = Moved(mem, dest, src, n)
<1> DEFINE Part(k) ==
        [a \in D |-> IF a \in dest + n - k..dest + n - 1
                     THEN mem[src + a - dest] ELSE mem[a]]
<1>1. /\ Downwards(n) \in [1..n -> 0..n - 1]
      /\ \A k \in 1..n : Downwards(n)[k] = n - k
  BY DEF Downwards
<1>0. Copying(D, V, mem, dest, src, n, Downwards(n))
  BY <1>1, CopyRuns
<1>2. PICK h \in [0..n -> [D -> V]] :
         /\ h[0] = mem /\ h[n] = RepMovsb(mem, dest, src, Downwards(n))
         /\ \A k \in 1..n :
               h[k] = [h[k - 1] EXCEPT ![dest + Downwards(n)[k]] =
                                           h[k - 1][src + Downwards(n)[k]]]
  BY <1>0 DEF Copying
<1> DEFINE P == {k \in 0..n : h[k] = Part(k)}
<1>3. 0 \in P
  BY <1>2
<1>4. ASSUME NEW k \in 1..n, k - 1 \in P
      PROVE  k \in P
  <2> DEFINE j == n - k
  <2>0. j \in 0..n - 1 /\ k = n - j
    OBVIOUS
  <2>2. h[k] = [h[k - 1] EXCEPT ![dest + j] = h[k - 1][src + j]]
    BY <1>1, <1>2
  <2>3. h[k - 1] = Part(k - 1)
    BY <1>4
  <2> HIDE DEF j
  <2>1. dest + j \in D /\ src + j \in D
    BY <2>0 DEF Within
  <2>4. src + j \notin dest + n - (k - 1)..dest + n - 1
    BY <2>0, <2>1
  <2>5. h[k - 1][src + j] = mem[src + j]
    BY <2>0, <2>1, <2>3, <2>4
  <2>6. h[k] = Part(k)
    <3>1. h[k] \in [D -> V] /\ h[k - 1] \in [D -> V] /\ DOMAIN mem = D
      BY <2>0
    <3>2. ASSUME NEW a \in D
          PROVE  h[k][a] = Part(k)[a]
      <4>1. CASE a = dest + j
        BY <2>0, <2>1, <2>2, <2>5, <3>1, <4>1
      <4>2. CASE a # dest + j
        BY <2>0, <2>1, <2>2, <2>3, <3>1, <4>2
      <4> QED
        BY <4>1, <4>2
    <3> QED
      BY <3>1, <3>2
  <2> QED
    BY <2>6
<1>5. 0..n \subseteq P
  <2> HIDE DEF P
  <2> QED
    BY <1>3, <1>4, UpTo
<1>6. h[n] = Part(n)
  BY <1>5
<1>7. Part(n) = Moved(mem, dest, src, n)
  BY DEF Moved
<1> QED
  BY <1>2, <1>6, <1>7

\* memmove (memmove.s) copies overlapping regions right in both directions, as
\* long as the source ends at an address.
THEOREM MemmoveCopies ==
    ASSUME NEW D \in SUBSET Int, NEW V, NEW mem \in [D -> V], NEW n \in Nat,
           NEW dest \in Nat, NEW src \in Nat,
           Within(D, dest, n), Within(D, src, n),
           src + n < AddressRange
    PROVE  memmove(mem, dest, src, n) = Moved(mem, dest, src, n)
<1>1. (src + n) % AddressRange = src + n
  BY MemMoveAssumption
<1>2. CASE dest = src
  BY <1>2 DEF memmove, Moved
<1>3. CASE dest # src /\ (dest < src \/ dest >= src + n)
  BY <1>1, <1>3, CopiesUpwards DEF memmove, Fast
<1>4. CASE src < dest /\ dest < src + n
  BY <1>1, <1>4, CopiesDownwards DEF memmove, Fast
<1> QED
  BY <1>2, <1>3, <1>4

\* memset (memset.s) fills what it is told to, and nothing else.
THEOREM MemsetFills ==
    ASSUME NEW D \in SUBSET Int, NEW V, NEW mem \in [D -> V], NEW n \in Nat,
           NEW s \in Nat, NEW c \in V, Within(D, s, n)
    PROVE  memset(mem, s, c, n) = Filled(mem, s, c, n)
<1>0. Filling(D, V, mem, s, c, n)
  BY FillRuns
<1>1. PICK h \in [0..n -> [D -> V]] :
         /\ h[0] = mem /\ h[n] = memset(mem, s, c, n)
         /\ \A k \in 1..n : h[k] = [h[k - 1] EXCEPT ![s + (k - 1)] = c]
  BY <1>0 DEF Filling
<1> DEFINE P == {k \in 0..n : h[k] = Filled(mem, s, c, k)}
<1>2. 0 \in P
  BY <1>1 DEF Filled
<1>3. ASSUME NEW k \in 1..n, k - 1 \in P
      PROVE  k \in P
  <2> DEFINE j == k - 1
  <2>0. j \in 0..n - 1 /\ k = j + 1
    OBVIOUS
  <2>2. h[k] = [h[j] EXCEPT ![s + j] = c] /\ h[j] = Filled(mem, s, c, j)
    BY <1>1, <1>3
  <2> HIDE DEF j
  <2>1. s + j \in D
    BY <2>0 DEF Within
  <2>3. h[k] = Filled(mem, s, c, k)
    <3>1. h[k] \in [D -> V] /\ h[j] \in [D -> V] /\ DOMAIN mem = D
      BY <2>0
    <3>2. ASSUME NEW a \in D
          PROVE  h[k][a] = Filled(mem, s, c, k)[a]
      BY <2>0, <2>1, <2>2, <3>1 DEF Filled
    <3> QED
      BY <3>1, <3>2 DEF Filled
  <2> QED
    BY <2>3
<1>4. 0..n \subseteq P
  <2> HIDE DEF P
  <2> QED
    BY <1>2, <1>3, UpTo
<1> QED
  BY <1>1, <1>4

\* Both, on a memory of each size that the addresses reach.
THEOREM MemoryIsMoved == Spec => []MemoryMoves
<1> DEFINE mem == [a \in 0..AddressRange - 1 |-> a]
<1>1. ASSUME NEW dest \in 0..AddressRange - 1, NEW src \in 0..AddressRange - 1,
             NEW n \in 0..AddressRange - 1,
             dest + n < AddressRange, src + n < AddressRange
      PROVE  /\ memmove(mem, dest, src, n) = Moved(mem, dest, src, n)
             /\ memset(mem, dest, AddressRange, n)
                    = Filled(mem, dest, AddressRange, n)
  <2> DEFINE D == 0..AddressRange - 1
             V == 0..AddressRange
  <2>1. D \in SUBSET Int /\ mem \in [D -> V] /\ AddressRange \in V
    BY MemMoveAssumption
  <2>2. Within(D, dest, n) /\ Within(D, src, n)
    BY <1>1, MemMoveAssumption DEF Within
  <2>3. n \in Nat /\ dest \in Nat /\ src \in Nat
    OBVIOUS
  <2> HIDE DEF mem, D, V
  <2>4. memmove(mem, dest, src, n) = Moved(mem, dest, src, n)
    BY <1>1, <2>1, <2>2, <2>3, MemmoveCopies
  <2>5. memset(mem, dest, AddressRange, n) = Filled(mem, dest, AddressRange, n)
    BY <2>1, <2>2, <2>3, MemsetFills
  <2> QED
    BY <2>4, <2>5
<1>2. MemoryMoves
  BY <1>1 DEF MemoryMoves, MovesWell
<1> QED
  BY <1>2, PTL
-----------------------------------------------------------------------------
(* The handlers' print_char, on every screen.                              *)

Printed == MainChars \cup UNION {Range(str) : str \in IrqTexts}
Char == Printed \cup {Blank}
Byte == 0..ByteRange - 1
LastLine == Width * (Height - 1)
Screens == [0..Size - 1 -> Char]

LEMMA BlankIsChar == Blank \in Char
  BY DEF Char

LEMMA Sizes ==
    /\ Width \in Nat \ {0} /\ Height \in Nat /\ Height >= 2
    /\ ByteRange \in Nat /\ Width < ByteRange /\ Height + 1 < ByteRange
    /\ Size \in Nat /\ LastLine \in Nat /\ LastLine + Width = Size
    /\ Size < AddressRange /\ Width <= LastLine
<1>1. /\ Width \in Nat \ {0} /\ Height \in Nat /\ Height >= 2
      /\ ByteRange \in Nat /\ Width < ByteRange /\ Height + 1 < ByteRange
  BY TextModeAssumption
<1>2. Width * Height = Width * (Height - 1) + Width
  BY <1>1
<1>3. Width * (Height - 1) \in Nat /\ Width * (Height - 1) >= Width
  BY <1>1
<1> QED
  BY <1>1, <1>2, <1>3, TextModeAssumption DEF Size, LastLine

\* The screen, n lines up.
Lines(scr, n) ==
    [a \in 0..Size - 1 |-> IF a + n * Width < Size THEN scr[a + n * Width]
                                                   ELSE Blank]

LEMMA LinesType ==
    ASSUME NEW scr \in Screens, NEW n \in Nat
    PROVE  Lines(scr, n) \in Screens
<1>1. n * Width \in Nat
  BY Sizes
<1>2. \A a \in 0..Size - 1 : a + n * Width < Size => a + n * Width \in 0..Size - 1
  BY <1>1, Sizes
<1> QED
  BY <1>2, BlankIsChar DEF Lines, Screens

\* move_lines_up (text_mode.c:16) moves the lines below the first one up, and
\* blanks the last one.
LEMMA MovesUp ==
    ASSUME NEW scr \in Screens
    PROVE  move_lines_up(scr) = Lines(scr, 1)
<1> DEFINE D == 0..Size - 1
           moved == Moved(scr, 0, Width, LastLine)
<1>1. D \in SUBSET Int /\ scr \in [D -> Char] /\ Blank \in Char
  BY BlankIsChar, Sizes DEF Screens
<1>2. /\ Within(D, 0, LastLine) /\ Within(D, Width, LastLine)
      /\ Within(D, LastLine, Width) /\ Width + LastLine < AddressRange
      /\ 0 \in Nat /\ Width \in Nat /\ LastLine \in Nat
  BY Sizes DEF Within
<1> HIDE DEF D, moved
<1>3. memmove(scr, 0, Width, LastLine) = moved
  BY <1>1, <1>2, MemmoveCopies DEF moved
<1>4. moved \in [D -> Char]
  <2>1. \A a \in 0..0 + LastLine - 1 : Width + a - 0 \in D
    BY Sizes DEF D
  <2> QED
    BY <1>1, <2>1 DEF moved, Moved
<1>5. memset(moved, LastLine, Blank, Width) = Filled(moved, LastLine, Blank, Width)
  BY <1>1, <1>2, <1>4, MemsetFills
<1>6. move_lines_up(scr) = Filled(moved, LastLine, Blank, Width)
  BY <1>3, <1>5 DEF move_lines_up, LastLine
<1>7. ASSUME NEW a \in D
      PROVE  Filled(moved, LastLine, Blank, Width)[a] = Lines(scr, 1)[a]
  <2>1. moved[a] = IF a \in 0..LastLine - 1 THEN scr[Width + a] ELSE scr[a]
    BY <1>1, Sizes DEF moved, Moved, D
  <2>2. a \in LastLine..LastLine + Width - 1 <=> ~(a + 1 * Width < Size)
    BY Sizes DEF D
  <2>3. a \in 0..LastLine - 1 <=> a + 1 * Width < Size
    BY Sizes DEF D
  <2>4. 1 * Width = Width
    BY Sizes
  <2>5. Filled(moved, LastLine, Blank, Width)[a]
            = IF a \in LastLine..LastLine + Width - 1 THEN Blank ELSE moved[a]
    BY <1>4 DEF Filled
  <2>6. Lines(scr, 1)[a] = IF a + Width < Size THEN scr[a + Width] ELSE Blank
    BY <2>4 DEF Lines, D
  <2>7. a + Width = Width + a
    BY Sizes DEF D
  <2> QED
    BY <2>1, <2>2, <2>3, <2>4, <2>5, <2>6, <2>7
<1>8. Filled(moved, LastLine, Blank, Width) = [a \in D |-> Filled(moved, LastLine, Blank, Width)[a]]
  BY <1>4 DEF Filled
<1>9. Lines(scr, 1) = [a \in D |-> Lines(scr, 1)[a]]
  BY DEF Lines, D
<1> QED
  BY <1>6, <1>7, <1>8, <1>9

LEMMA MovesMore ==
    ASSUME NEW scr \in Screens, NEW n \in Nat
    PROVE  /\ Lines(Lines(scr, n), 1) = Lines(scr, n + 1)
           /\ Lines(Lines(scr, 1), n) = Lines(scr, n + 1)
           /\ Lines(scr, 0) = scr
<1>1. /\ n * Width \in Nat /\ (n + 1) * Width = n * Width + Width
      /\ 1 * Width = Width /\ 0 * Width = 0
  BY Sizes
<1> DEFINE m == n * Width
<1>2. m \in Nat /\ (n + 1) * Width = m + Width
  BY <1>1
<1> HIDE DEF m
<1>3. ASSUME NEW a \in 0..Size - 1
      PROVE  /\ Lines(Lines(scr, n), 1)[a] = Lines(scr, n + 1)[a]
             /\ Lines(Lines(scr, 1), n)[a] = Lines(scr, n + 1)[a]
             /\ Lines(scr, 0)[a] = scr[a]
  <2>1. Lines(scr, n) = [b \in 0..Size - 1 |-> IF b + m < Size THEN scr[b + m] ELSE Blank]
    BY DEF Lines, m
  <2>2. Lines(scr, 1) = [b \in 0..Size - 1 |-> IF b + Width < Size THEN scr[b + Width] ELSE Blank]
    BY <1>1 DEF Lines
  <2>3. Lines(scr, n + 1)[a] = IF a + (m + Width) < Size THEN scr[a + (m + Width)] ELSE Blank
    BY <1>2 DEF Lines
  <2>4. Lines(scr, 0)[a] = IF a + 0 < Size THEN scr[a + 0] ELSE Blank
    BY <1>1 DEF Lines
  <2>5. Lines(Lines(scr, n), 1)[a] = IF a + Width < Size THEN Lines(scr, n)[a + Width] ELSE Blank
    BY <1>1 DEF Lines
  <2>6. Lines(Lines(scr, 1), n)[a] = IF a + m < Size THEN Lines(scr, 1)[a + m] ELSE Blank
    BY DEF Lines, m
  <2>7. a + Width < Size => a + Width \in 0..Size - 1
    BY Sizes
  <2>8. a + m < Size => a + m \in 0..Size - 1
    BY <1>2, Sizes
  <2>9. (a + Width) + m = a + (m + Width) /\ (a + m) + Width = a + (m + Width)
    BY <1>2, Sizes
  <2>10. /\ a + (m + Width) < Size => a + Width < Size /\ a + m < Size
    BY <1>2, Sizes
  <2>11. Lines(Lines(scr, n), 1)[a] = Lines(scr, n + 1)[a]
    BY <2>1, <2>3, <2>5, <2>7, <2>9, <2>10
  <2>12. Lines(Lines(scr, 1), n)[a] = Lines(scr, n + 1)[a]
    <3>1. a + m < Size =>
              Lines(scr, 1)[a + m] = IF (a + m) + Width < Size
                                     THEN scr[(a + m) + Width] ELSE Blank
      BY <2>2, <2>8
    <3> QED
      BY <2>3, <2>6, <2>9, <2>10, <3>1
  <2> QED
    BY <2>4, <2>11, <2>12, Sizes
<1>4. ASSUME NEW p, NEW q, p = [a \in 0..Size - 1 |-> p[a]],
             q = [a \in 0..Size - 1 |-> q[a]],
             \A a \in 0..Size - 1 : p[a] = q[a]
      PROVE  p = q
  BY <1>4
<1>5. \A t, k : Lines(t, k) = [a \in 0..Size - 1 |-> Lines(t, k)[a]]
  BY DEF Lines
<1>6. scr = [a \in 0..Size - 1 |-> scr[a]]
  BY DEF Screens
<1>7. Lines(Lines(scr, n), 1) = Lines(scr, n + 1)
  BY <1>3, <1>4, <1>5
<1>8. Lines(Lines(scr, 1), n) = Lines(scr, n + 1)
  BY <1>3, <1>4, <1>5
<1>9. Lines(scr, 0) = scr
  <2>1. \A a \in 0..Size - 1 : Lines(scr, 0)[a] = scr[a]
    BY <1>3
  <2>2. Lines(scr, 0) = [a \in 0..Size - 1 |-> Lines(scr, 0)[a]]
    BY <1>5
  <2> QED
    BY <1>4, <1>6, <2>1, <2>2
<1> QED
  BY <1>7, <1>8, <1>9
\* The scrolling loop of wrap_curs (text_mode.c:26).
LEMMA ScrollRuns ==
    ASSUME NEW scr \in Screens, NEW n \in Nat
    PROVE  FoldLeft(LAMBDA s, i : move_lines_up(s), scr, Upwards(n))
               = Lines(scr, n)
<1> DEFINE E == 0..n - 1
           seq == Upwards(n)
           Op(s, i) == move_lines_up(s)
           F == [p \in Screens \X E |-> Op(p[1], p[2])]
           iter == CHOOSE g : g = [t \in SUBSET DOMAIN seq |->
                       IF t = {} THEN scr
                       ELSE Op(g[t \ {Max(t)}], seq[Max(t)])]
<1>1. FoldLeft(LAMBDA s, i : move_lines_up(s), scr, Upwards(n)) = iter[DOMAIN seq]
  BY Zenon DEF FoldLeft, MapThenFoldSet
<1>2. DOMAIN seq = 1..n
  BY DEF Upwards
<1>3. \A s \in Screens, i \in E : Op(s, i) = Lines(s, 1) /\ Op(s, i) \in Screens
  BY MovesUp, LinesType
<1>4. \A s \in Screens, i \in E : F[<<s, i>>] = Op(s, i)
  OBVIOUS
<1>5. F \in [Screens \X E -> Screens] /\ seq \in [1..n -> E]
  BY <1>3 DEF Upwards
<1> HIDE DEF E, F, Op, iter, seq
<1>6. PICK g \in [SUBSET (1..n) -> Screens] : Steps(F, scr, seq, n, g)
  BY <1>5, FoldExists
<1>7. ASSUME NEW t \in SUBSET (1..n), t # {}
      PROVE  seq[Max(t)] \in E /\ t \ {Max(t)} \in SUBSET (1..n)
  BY <1>5, <1>7, MaxIn
<1>8. g = [t \in SUBSET (1..n) |->
              IF t = {} THEN scr ELSE Op(g[t \ {Max(t)}], seq[Max(t)])]
  BY <1>4, <1>6, <1>7 DEF Steps
<1>9. iter = [t \in SUBSET (1..n) |->
              IF t = {} THEN scr ELSE Op(iter[t \ {Max(t)}], seq[Max(t)])]
  BY <1>2, <1>8, Zenon DEF iter
<1>10. iter[{}] = scr
  BY <1>9
<1>11. Follows(Screens, F, scr, seq, n, iter)
  BY <1>4, <1>7, <1>9, <1>10 DEF Follows
<1>12. Yields(Screens, F, scr, seq, n, iter[1..n])
  BY <1>5, <1>11, FoldRuns
<1>13. PICK h \in [0..n -> Screens] : Runs(F, scr, seq, n, h) /\ h[n] = iter[1..n]
  BY <1>12 DEF Yields
<1>14. \A k \in 1..n : h[k - 1] \in Screens /\ seq[k] \in E
  BY <1>5
<1>15. h[0] = scr /\ \A k \in 1..n : h[k] = Lines(h[k - 1], 1)
  <2>1. h[0] = scr /\ \A k \in 1..n : h[k] = F[<<h[k - 1], seq[k]>>]
    BY <1>13 DEF Runs
  <2>2. ASSUME NEW k \in 1..n
        PROVE  F[<<h[k - 1], seq[k]>>] = Lines(h[k - 1], 1)
    BY <1>3, <1>4, <1>14
  <2> QED
    BY <2>1, <2>2
<1> DEFINE P == {k \in 0..n : h[k] = Lines(scr, k)}
<1>16. 0 \in P
  BY <1>15, MovesMore
<1>17. ASSUME NEW k \in 1..n, k - 1 \in P
       PROVE  k \in P
  <2>1. k - 1 \in Nat /\ (k - 1) + 1 = k
    OBVIOUS
  <2>2. Lines(Lines(scr, k - 1), 1) = Lines(scr, k)
    BY <2>1, MovesMore
  <2> QED
    BY <1>15, <1>17, <2>2
<1>18. 0..n \subseteq P
  <2> HIDE DEF P
  <2> QED
    BY <1>16, <1>17, UpTo
<1>19. h[n] = Lines(scr, n)
  BY <1>18
<1> QED
  BY <1>1, <1>2, <1>13, <1>19

\* What print_char works on, with the cursor in a column up to n.
Shown(n) ==
    [x : 0..n, y : Byte, scr : Screens, cell : 0..LastLine + ByteRange - 1]

LEMMA WrapsY ==
    ASSUME NEW n \in Nat, NEW s \in Shown(n)
    PROVE  /\ WrapY(s) = IF s.y < Height THEN s
                         ELSE [s EXCEPT !.y = Height - 1,
                                        !.scr = Lines(s.scr, s.y - (Height - 1))]
           /\ WrapY(s) \in Shown(n) /\ WrapY(s).y < Height
           /\ WrapY(s).x = s.x /\ WrapY(s).cell = s.cell
<1>1. s.y \in Byte /\ s.scr \in Screens
  BY DEF Shown
<1>2. CASE s.y < Height
  BY <1>1, <1>2 DEF WrapY
<1>3. CASE ~(s.y < Height)
  <2> DEFINE k == s.y - (Height - 1)
             t == [s EXCEPT !.y = Height - 1, !.scr = Lines(s.scr, k)]
  <2>1. k \in Nat /\ Height - 1 \in Byte /\ Height - 1 < Height
    BY <1>1, <1>3, Sizes DEF Byte
  <2>2. WrapY(s) = t
    <3>1. FoldLeft(LAMBDA scr, i : move_lines_up(scr), s.scr, Upwards(k)) = Lines(s.scr, k)
      BY <1>1, <2>1, ScrollRuns
    <3>2. WrapY(s) = [s EXCEPT !.y = Height - 1,
               !.scr = FoldLeft(LAMBDA scr, i : move_lines_up(scr), s.scr, Upwards(k))]
      BY <1>3, Zenon DEF WrapY
    <3> QED
      BY <3>1, <3>2
  <2>3. Lines(s.scr, k) \in Screens
    BY <1>1, <2>1, LinesType
  <2> HIDE DEF k
  <2>4. t \in Shown(n) /\ t.y = Height - 1 /\ t.x = s.x /\ t.cell = s.cell
    BY <2>1, <2>3 DEF Shown
  <2> HIDE DEF t
  <2> QED
    BY <1>3, <2>1, <2>2, <2>4 DEF t, k
<1> QED
  BY <1>2, <1>3
LEMMA WrapsX ==
    ASSUME NEW n \in Width..ByteRange - 1, NEW s \in Shown(n)
    PROVE  /\ WrapX(s) \in Shown(n)
           /\ WrapX(s).x < Width \/ WrapX(s).x <= n - Width
<1>1. /\ s.x \in 0..n /\ s.y \in Byte /\ s.scr \in Screens
      /\ s.cell \in 0..LastLine + ByteRange - 1
  BY DEF Shown
<1>2. CASE s.x < Width
  BY <1>1, <1>2 DEF WrapX
<1>3. CASE ~(s.x < Width)
  <2>1. (s.y + 1) % ByteRange \in Byte
    BY <1>1, Sizes DEF Byte
  <2>2. s.x - Width \in 0..n - Width
    BY <1>1, <1>3, Sizes
  <2>3. WrapX(s) = [s EXCEPT !.x = s.x - Width, !.y = (s.y + 1) % ByteRange]
    BY <1>3 DEF WrapX
  <2>4. s.x - Width \in 0..n
    BY <2>2, Sizes
  <2>5. WrapX(s) \in Shown(n) /\ WrapX(s).x = s.x - Width
    BY <1>1, <2>1, <2>3, <2>4 DEF Shown
  <2> QED
    BY <2>2, <2>5, Sizes
<1> QED
  BY <1>2, <1>3

\* wrap_curs (text_mode.c:21) brings the cursor into a line of the screen.
LEMMA Wraps ==
    ASSUME NEW n \in Width..ByteRange - 1, NEW s \in Shown(n)
    PROVE  /\ wrap_curs(s) \in Shown(n) /\ wrap_curs(s).y < Height
           /\ wrap_curs(s).x < Width \/ wrap_curs(s).x <= n - Width
<1>1. n \in Nat
  BY Sizes
<1>2. /\ WrapX(s) \in Shown(n)
      /\ WrapX(s).x < Width \/ WrapX(s).x <= n - Width
  BY WrapsX
<1>3. /\ WrapY(WrapX(s)) \in Shown(n) /\ WrapY(WrapX(s)).y < Height
      /\ WrapY(WrapX(s)).x = WrapX(s).x
  BY <1>1, <1>2, WrapsY
<1> QED
  BY <1>2, <1>3 DEF wrap_curs

\* The switch of print_char, behind wrap_curs.
Place(w, c) ==
    LET cell == w.y * Width + w.x
    IN  CASE c = "\n" ->
                wrap_curs([w EXCEPT !.x = 0, !.y = (@ + 1) % ByteRange])
          [] c = "\r" -> [w EXCEPT !.x = 0]
          [] OTHER ->
                [w EXCEPT !.scr = Stored(@, cell, c), !.cell = cell,
                          !.x = (@ + 1) % ByteRange]

LEMMA Prints ==
    ASSUME NEW s, NEW c
    PROVE  print_char(s, c) = Place(wrap_curs(s), c)
  BY Zenon DEF print_char, Place

LEMMA Stores ==
    ASSUME NEW scr \in Screens, NEW cell \in Nat, NEW c \in Char
    PROVE  Stored(scr, cell, c) \in Screens
  BY Sizes DEF Stored, Screens

\* The cell that a row and a column name.
LEMMA Cells ==
    ASSUME NEW r \in 0..Height - 1, NEW k \in Nat
    PROVE  /\ r * Width \in Nat /\ r * Width <= LastLine
           /\ r * Width + k \in Nat
           /\ k < Width => r * Width + k < Size
<1>1. r * Width \in Nat
  BY Sizes
<1>2. r * Width <= (Height - 1) * Width
  BY Sizes
<1>3. (Height - 1) * Width = LastLine
  BY Sizes DEF LastLine
<1> QED
  BY <1>1, <1>2, <1>3, Sizes

LEMMA Places ==
    ASSUME NEW n \in Width..ByteRange - 1, NEW w \in Shown(n), NEW c \in Char,
           w.y < Height, w.x < n \/ n = ByteRange - 1
    PROVE  Place(w, c) \in Shown(n) /\ Place(w, c).y < Height
<1>1. /\ w.x \in 0..n /\ w.y \in Byte /\ w.scr \in Screens
      /\ w.cell \in 0..LastLine + ByteRange - 1
      /\ n \in Nat /\ n <= ByteRange - 1 /\ 0 \in 0..n
  BY Sizes DEF Shown
<1>2. CASE c = "\n"
  <2> DEFINE t == [w EXCEPT !.x = 0, !.y = (w.y + 1) % ByteRange]
  <2>1. Place(w, c) = wrap_curs(t)
    BY <1>2 DEF Place
  <2>2. (w.y + 1) % ByteRange \in Byte
    BY <1>1, Sizes DEF Byte
  <2>3. t \in Shown(n)
    BY <1>1, <2>2 DEF Shown
  <2> HIDE DEF t
  <2> QED
    BY <2>1, <2>3, Wraps
<1>3. CASE c = "\r"
  <2>1. Place(w, c) = [w EXCEPT !.x = 0]
    BY <1>3 DEF Place
  <2> QED
    BY <1>1, <2>1 DEF Shown
<1>4. CASE c \notin {"\n", "\r"}
  <2> DEFINE cell == w.y * Width + w.x
  <2>1. Place(w, c) = [w EXCEPT !.scr = Stored(w.scr, cell, c), !.cell = cell,
                                !.x = (w.x + 1) % ByteRange]
    BY <1>4, Zenon DEF Place
  <2>2. w.y \in 0..Height - 1 /\ w.x \in Nat
    BY <1>1, Sizes DEF Byte
  <2>3. cell \in Nat /\ cell <= LastLine + w.x
    <3>1. w.y * Width \in Nat /\ w.y * Width <= LastLine
      BY <2>2, Cells
    <3> QED
      BY <2>2, <3>1, Sizes
  <2>4. cell \in 0..LastLine + ByteRange - 1
    BY <1>1, <2>3, Sizes
  <2>5. (w.x + 1) % ByteRange \in 0..n
    BY <1>1, Sizes
  <2>6. Stored(w.scr, cell, c) \in Screens
    BY <1>1, <2>3, Stores
  <2> HIDE DEF cell
  <2> QED
    BY <1>1, <2>1, <2>4, <2>5, <2>6 DEF Shown
<1> QED
  BY <1>2, <1>3, <1>4

\* A call of print_char keeps the cursor in the same columns, if they reach
\* behind the end of a line, and leaves it in a line of the screen.
LEMMA PrintsChar ==
    ASSUME NEW n \in Width..ByteRange - 1, NEW s \in Shown(n), NEW c \in Char
    PROVE  print_char(s, c) \in Shown(n) /\ print_char(s, c).y < Height
<1>1. /\ wrap_curs(s) \in Shown(n) /\ wrap_curs(s).y < Height
      /\ wrap_curs(s).x < Width \/ wrap_curs(s).x <= n - Width
  BY Wraps
<1>2. wrap_curs(s).x \in Nat
  BY <1>1 DEF Shown
<1>3. wrap_curs(s).x < n
  BY <1>1, <1>2, Sizes
<1> QED
  BY <1>1, <1>3, Places, Prints
LEMMA TextsAreChars ==
    ASSUME NEW str \in IrqTexts
    PROVE  str \in Seq(Char)
<1>1. str \in Seq(Range(str))
  BY TextModeAssumption
<1>2. Range(str) \subseteq Char
  BY Zenon DEF Char, Printed
<1> QED
  BY <1>1, <1>2

\* print_string (text_mode.c:63), character by character.
Printing(n, s, str) ==
    \E h \in [0..Len(str) -> Shown(n)] :
        /\ h[0] = s /\ h[Len(str)] = print_string(s, str)
        /\ \A k \in 1..Len(str) : h[k] = print_char(h[k - 1], str[k])

LEMMA StringRuns ==
    ASSUME NEW n \in Width..ByteRange - 1, NEW s \in Shown(n),
           NEW seq \in Seq(Char)
    PROVE  Printing(n, s, seq)
<1> DEFINE St == Shown(n)
           l == Len(seq)
           Op(t, c) == print_char(t, c)
           F == [p \in St \X Char |-> Op(p[1], p[2])]
           iter == CHOOSE g : g = [t \in SUBSET DOMAIN seq |->
                       IF t = {} THEN s
                       ELSE Op(g[t \ {Max(t)}], seq[Max(t)])]
<1>1. print_string(s, seq) = iter[DOMAIN seq]
  BY Zenon DEF print_string, FoldLeft, MapThenFoldSet
<1>2. DOMAIN seq = 1..l /\ l \in Nat /\ seq \in [1..l -> Char] /\ s \in St
  OBVIOUS
<1>3. \A t \in St, c \in Char : Op(t, c) \in St
  BY PrintsChar
<1>4. \A t \in St, c \in Char : F[<<t, c>>] = Op(t, c)
  OBVIOUS
<1>5. F \in [St \X Char -> St]
  BY <1>3
<1> HIDE DEF St, F, Op, iter, l
<1>6. PICK g \in [SUBSET (1..l) -> St] : Steps(F, s, seq, l, g)
  BY <1>2, <1>5, FoldExists
<1>7. ASSUME NEW t \in SUBSET (1..l), t # {}
      PROVE  seq[Max(t)] \in Char /\ t \ {Max(t)} \in SUBSET (1..l)
  BY <1>2, <1>7, MaxIn
<1>8. g = [t \in SUBSET (1..l) |->
              IF t = {} THEN s ELSE Op(g[t \ {Max(t)}], seq[Max(t)])]
  BY <1>4, <1>6, <1>7 DEF Steps
<1>9. iter = [t \in SUBSET (1..l) |->
              IF t = {} THEN s ELSE Op(iter[t \ {Max(t)}], seq[Max(t)])]
  BY <1>2, <1>8, Zenon DEF iter
<1>10. iter[{}] = s
  BY <1>9
<1>11. Follows(St, F, s, seq, l, iter)
  BY <1>4, <1>7, <1>9, <1>10 DEF Follows
<1>12. Yields(St, F, s, seq, l, iter[1..l])
  BY <1>2, <1>5, <1>11, FoldRuns
<1>13. PICK h \in [0..l -> St] : Runs(F, s, seq, l, h) /\ h[l] = iter[1..l]
  BY <1>12 DEF Yields
<1>14. \A k \in 1..l : h[k - 1] \in St /\ seq[k] \in Char
  BY <1>2
<1>15. h[0] = s /\ \A k \in 1..l : h[k] = Op(h[k - 1], seq[k])
  <2>1. h[0] = s /\ \A k \in 1..l : h[k] = F[<<h[k - 1], seq[k]>>]
    BY <1>13 DEF Runs
  <2>2. ASSUME NEW k \in 1..l
        PROVE  F[<<h[k - 1], seq[k]>>] = Op(h[k - 1], seq[k])
    BY <1>4, <1>14
  <2> QED
    BY <2>1, <2>2
<1>16. h[l] = print_string(s, seq)
  BY <1>1, <1>2, <1>13
<1> QED
  BY <1>15, <1>16 DEF Printing, St, l, Op

LEMMA PrintsString ==
    ASSUME NEW n \in Width..ByteRange - 1, NEW s \in Shown(n),
           NEW str \in Seq(Char)
    PROVE  /\ print_string(s, str) \in Shown(n)
           /\ s.y < Height => print_string(s, str).y < Height
<1>1. Printing(n, s, str)
  BY StringRuns
<1>2. PICK h \in [0..Len(str) -> Shown(n)] :
         /\ h[0] = s /\ h[Len(str)] = print_string(s, str)
         /\ \A k \in 1..Len(str) : h[k] = print_char(h[k - 1], str[k])
  BY <1>1 DEF Printing
<1>3. Len(str) \in Nat
  OBVIOUS
<1>4. h[Len(str)] \in Shown(n)
  BY <1>3
<1>5. CASE Len(str) = 0
  BY <1>2, <1>4, <1>5
<1>6. CASE Len(str) # 0
  <2> DEFINE l == Len(str)
  <2>1. l \in 1..l /\ l - 1 \in 0..l
    BY <1>3, <1>6
  <2>2. str[l] \in Char /\ h[l - 1] \in Shown(n) /\ h[l] = print_char(h[l - 1], str[l])
    BY <1>2, <2>1
  <2>3. h[l].y < Height
    BY <2>2, PrintsChar
  <2> QED
    BY <1>2, <1>4, <2>3
<1> QED
  BY <1>5, <1>6

-----------------------------------------------------------------------------
(* Main's print_char, access by access.                                    *)

Now == [x |-> x, y |-> y, scr |-> screen, cell |-> stored]

Ops == {"wrap_x", "wrap_y", "scrolled", "newline", "next"}
Labels ==
    ({"load", "store"} \X Ops)
    \cup {<<"idle", "call">>, <<"test", "x">>, <<"test", "y">>, <<"lines", "up">>,
          <<"switch", "ch">>, <<"row", "y">>, <<"column", "x">>, <<"cell", "ch">>}

LEMMA LoadCases ==
    ASSUME pc \in Labels, Load
    PROVE  \E op \in Ops :
               /\ pc = <<"load", op>> /\ pc' = <<"store", op>>
               /\ reg' = IF op \in {"wrap_x", "next"} THEN x ELSE y
               /\ UNCHANGED <<x, y, screen, stored, ch, again, history>>
<1>1. pc[1] = "load"
  BY DEF Load
<1>2. pc \in {"load", "store"} \X Ops
  BY <1>1 DEF Labels
<1>3. PICK op \in Ops : pc = <<"load", op>>
  BY <1>1, <1>2
<1>4. pc[2] = op
  BY <1>3
<1> QED
  BY <1>3, <1>4 DEF Load, Goto, cursor

LEMMA StoreCases ==
    ASSUME pc \in Labels, reg \in Nat, again \in BOOLEAN, Store
    PROVE  /\ UNCHANGED <<screen, stored, ch, reg, history>>
           /\ \/ /\ Here("store", "wrap_x") /\ pc' = <<"load", "wrap_y">>
                 /\ x' = (reg - Width) % ByteRange /\ UNCHANGED <<y, again>>
              \/ /\ Here("store", "wrap_y") /\ pc' = <<"test", "y">>
                 /\ y' = (reg + 1) % ByteRange /\ UNCHANGED <<x, again>>
              \/ /\ Here("store", "scrolled") /\ pc' = <<"test", "y">>
                 /\ y' = (reg - 1) % ByteRange /\ UNCHANGED <<x, again>>
              \/ /\ Here("store", "newline") /\ pc' = <<"test", "x">>
                 /\ y' = (reg + 1) % ByteRange /\ again' = TRUE /\ UNCHANGED x
              \/ /\ Here("store", "next") /\ pc' = <<"idle", "call">>
                 /\ x' = (reg + 1) % ByteRange /\ UNCHANGED <<y, again>>
<1>1. pc[1] = "store"
  BY DEF Store
<1>2. pc \in {"load", "store"} \X Ops
  BY <1>1 DEF Labels
<1>3. PICK op \in Ops : pc = <<"store", op>>
  BY <1>1, <1>2
<1>4. pc[2] = op
  BY <1>3
<1>5. /\ Adds["wrap_x"] = 0 - Width /\ Adds["wrap_y"] = 1
      /\ Adds["scrolled"] = -1 /\ Adds["newline"] = 1 /\ Adds["next"] = 1
  BY DEF Adds
<1>6. reg + (0 - Width) = reg - Width /\ reg + -1 = reg - 1
  BY Sizes
<1>7. /\ After("wrap_x") = <<"load", "wrap_y">>
      /\ After("wrap_y") = <<"test", "y">> /\ After("scrolled") = <<"test", "y">>
      /\ After("newline") = <<"test", "x">> /\ After("next") = <<"idle", "call">>
  BY DEF After
<1>8. /\ UNCHANGED <<screen, stored, ch, reg, history>>
      /\ pc' = After(op) /\ again' = (again \/ op = "newline")
      /\ IF op \in {"wrap_x", "next"}
         THEN x' = (reg + Adds[op]) % ByteRange /\ UNCHANGED y
         ELSE y' = (reg + Adds[op]) % ByteRange /\ UNCHANGED x
  BY <1>4, Zenon DEF Store
<1>9. CASE op = "wrap_x"
  BY <1>3, <1>5, <1>6, <1>7, <1>8, <1>9 DEF Here
<1>10. CASE op = "wrap_y"
  BY <1>3, <1>5, <1>6, <1>7, <1>8, <1>10 DEF Here
<1>11. CASE op = "scrolled"
  BY <1>3, <1>5, <1>6, <1>7, <1>8, <1>11 DEF Here
<1>12. CASE op = "newline"
  BY <1>3, <1>5, <1>6, <1>7, <1>8, <1>12 DEF Here
<1>13. CASE op = "next"
  BY <1>3, <1>5, <1>6, <1>7, <1>8, <1>13 DEF Here
<1> QED
  BY <1>9, <1>10, <1>11, <1>12, <1>13 DEF Ops
-----------------------------------------------------------------------------
(* Types, and how far behind the screen a character can be stored.         *)

\* The row of a character is on the screen, whatever a handler prints once it
\* was tested: each of its characters leaves the cursor in a line of the screen.
StoreInv ==
    /\ x \in Byte /\ y \in Byte /\ screen \in Screens
    /\ stored \in 0..LastLine + ByteRange - 1
    /\ pc \in Labels /\ ch \in Char /\ again \in BOOLEAN /\ reg \in Nat
    /\ Here("switch", "ch") \/ Here("row", "y") => y < Height
    /\ Here("column", "x") => reg <= LastLine
    /\ Here("cell", "ch") => reg < LastLine + ByteRange

LEMMA InByte ==
    ASSUME NEW i \in Int
    PROVE  i % ByteRange \in Byte
  BY Sizes DEF Byte

LEMMA NowShown ==
    ASSUME StoreInv
    PROVE  /\ Now \in Shown(ByteRange - 1)
           /\ ByteRange - 1 \in Width..ByteRange - 1
<1>1. ByteRange - 1 \in Width..ByteRange - 1
  BY Sizes
<1>2. Now \in Shown(ByteRange - 1)
  BY DEF StoreInv, Now, Shown, Byte
<1> QED
  BY <1>1, <1>2

LEMMA StoreInit == Init => StoreInv
<1> SUFFICES ASSUME Init
             PROVE  StoreInv
  OBVIOUS
<1>1. 0 \in Byte /\ 0 \in 0..LastLine + ByteRange - 1
  BY Sizes DEF Byte
<1>2. [a \in 0..Size - 1 |-> Blank] \in Screens
  BY BlankIsChar DEF Screens
<1> QED
  BY <1>1, <1>2, BlankIsChar DEF Init, StoreInv, Labels, Here

LEMMA MainKeepsStore ==
    ASSUME StoreInv, Main
    PROVE  StoreInv'
<1> USE DEF StoreInv, Here, Goto, cursor, history
<1>1. ASSUME NEW c \in MainChars, PrintChar(c)
      PROVE  StoreInv'
  <2>1. c \in Char
    BY Zenon DEF Char, Printed
  <2> QED
    BY <1>1, <2>1 DEF PrintChar, Labels
<1>2. CASE TestX
  BY <1>2 DEF TestX, Labels, Ops
<1>3. CASE TestY
  BY <1>3, Sizes DEF TestY, Labels, Byte
<1>4. CASE Load
  <2>1. PICK op \in Ops :
            /\ pc' = <<"store", op>>
            /\ reg' = IF op \in {"wrap_x", "next"} THEN x ELSE y
            /\ UNCHANGED <<x, y, screen, stored, ch, again, history>>
    BY <1>4, LoadCases
  <2> QED
    BY <2>1 DEF Labels, Byte
<1>5. CASE Store
  <2>1. /\ reg - Width \in Int /\ reg + 1 \in Int /\ reg - 1 \in Int
    BY Sizes
  <2>2. /\ (reg - Width) % ByteRange \in Byte
        /\ (reg + 1) % ByteRange \in Byte /\ (reg - 1) % ByteRange \in Byte
    BY <2>1, InByte
  <2>3. /\ UNCHANGED <<screen, stored, ch, reg>>
        /\ x' \in Byte /\ y' \in Byte /\ again' \in BOOLEAN
        /\ pc' \in {<<"load", "wrap_y">>, <<"test", "y">>, <<"test", "x">>,
                    <<"idle", "call">>}
    BY <1>5, <2>2, StoreCases
  <2> QED
    BY <2>3 DEF Labels, Ops
<1>6. CASE LinesUp
  <2>1. move_lines_up(screen) \in Screens
    BY MovesUp, LinesType
  <2> QED
    BY <1>6, <2>1 DEF LinesUp, Labels, Ops
<1>7. CASE Switch
  <2>1. 0 \in Byte
    BY Sizes DEF Byte
  <2> QED
    BY <1>7, <2>1 DEF Switch, Labels, Ops
<1>8. CASE Row
  <2>1. y \in 0..Height - 1
    BY <1>8, Sizes DEF Row, Byte
  <2>2. y * Width \in Nat /\ y * Width <= LastLine
    BY <2>1, Cells
  <2> QED
    BY <1>8, <2>2 DEF Row, Labels
<1>9. CASE Column
  <2>1. reg + x \in Nat /\ reg + x < LastLine + ByteRange
    BY <1>9, Sizes DEF Column, Byte
  <2> QED
    BY <1>9, <2>1 DEF Column, Labels
<1>10. CASE Cell
  <2>1. Stored(screen, reg, ch) \in Screens
    BY Stores
  <2>2. reg \in 0..LastLine + ByteRange - 1
    BY <1>10, Sizes DEF Cell
  <2> QED
    BY <1>10, <2>1, <2>2 DEF Cell, Labels, Ops
<1> QED
  BY <1>1, <1>2, <1>3, <1>4, <1>5, <1>6, <1>7, <1>8, <1>9, <1>10 DEF Main

LEMMA InterruptKeepsStore ==
    ASSUME StoreInv, NEW str \in IrqTexts, Interrupt(str)
    PROVE  StoreInv'
<1> DEFINE s == print_string(Now, str)
<1>1. /\ x' = s.x /\ y' = s.y /\ screen' = s.scr /\ stored' = s.cell
      /\ UNCHANGED <<pc, ch, reg, again>>
  BY Zenon DEF Interrupt, Now
<1>2. s \in Shown(ByteRange - 1) /\ (Now.y < Height => s.y < Height)
  BY NowShown, TextsAreChars, PrintsString
<1>3. Now.y = y
  BY DEF Now
<1> HIDE DEF s
<1>4. /\ x' \in Byte /\ y' \in Byte /\ screen' \in Screens
      /\ stored' \in 0..LastLine + ByteRange - 1
      /\ y < Height => y' < Height
  BY <1>1, <1>2, <1>3 DEF Shown, Byte
<1> QED
  BY <1>1, <1>4 DEF StoreInv, Here

LEMMA StoreStep == StoreInv /\ [Next]_vars => StoreInv'
<1> SUFFICES ASSUME StoreInv, [Next]_vars
             PROVE  StoreInv'
  OBVIOUS
<1>1. CASE UNCHANGED vars
  BY <1>1 DEF vars, cursor, StoreInv, Here
<1> QED
  BY <1>1, MainKeepsStore, InterruptKeepsStore DEF Next

\* However main and the handlers interleave (text_mode.c:54), a character is
\* stored at most as far behind the screen as a column of one byte reaches, for
\* every size of the screen and all texts.
THEOREM StoresAreBounded == Spec => []StoresBounded
<1>1. StoreInv => StoresBounded
  BY Sizes DEF StoreInv, StoresBounded, LastLine
<1> QED
  BY <1>1, StoreInit, StoreStep, PTL DEF Spec
-----------------------------------------------------------------------------
(* The recovery of the column, after main was disturbed.                   *)

AtLeast(n) == IF n < Width THEN Width ELSE n

\* The columns the cursor can be in once main has begun n calls, for lines of
\* a quarter of a byte and more.
Reach(n) ==
    CASE n = 0 -> ByteRange - 1
      [] n = 1 -> AtLeast(ByteRange - Width)
      [] n = 2 -> AtLeast(ByteRange - 2 * Width + 1)
      [] n = 3 -> Width

LEMMA Reaches ==
    ASSUME ByteRange <= 4 * Width - 2
    PROVE  /\ \A n \in 0..3 : Reach(n) \in Width..ByteRange - 1
           /\ \A n \in 1..3 : /\ Reach(n - 1) - Width < Reach(n)
                              /\ Reach(n) <= Reach(n - 1)
           /\ Reach(3) = Width
<1>1. /\ Reach(0) = ByteRange - 1 /\ Reach(1) = AtLeast(ByteRange - Width)
      /\ Reach(2) = AtLeast(ByteRange - 2 * Width + 1) /\ Reach(3) = Width
  BY DEF Reach
<1>2. \A n \in 0..3 : n = 0 \/ n = 1 \/ n = 2 \/ n = 3
  OBVIOUS
<1> DEFINE r0 == Reach(0)
           r1 == Reach(1)
           r2 == Reach(2)
           r3 == Reach(3)
<1>3. /\ r0 \in Width..ByteRange - 1 /\ r1 \in Width..ByteRange - 1
      /\ r2 \in Width..ByteRange - 1 /\ r3 \in Width..ByteRange - 1
      /\ r0 - Width < r1 /\ r1 - Width < r2 /\ r2 - Width < r3
      /\ r1 <= r0 /\ r2 <= r1 /\ r3 <= r2
  BY <1>1, Sizes DEF AtLeast
<1> HIDE DEF r0, r1, r2, r3
<1>4. Reach(0) = r0 /\ Reach(1) = r1 /\ Reach(2) = r2 /\ Reach(3) = r3
  BY DEF r0, r1, r2, r3
<1>5. ASSUME NEW n \in 0..3
      PROVE  Reach(n) \in Width..ByteRange - 1
  BY <1>2, <1>3, <1>4
<1>6. ASSUME NEW n \in 1..3
      PROVE  Reach(n - 1) - Width < Reach(n) /\ Reach(n) <= Reach(n - 1)
  <2>1. CASE n = 1
    BY <1>3, <1>4, <2>1
  <2>2. CASE n = 2
    BY <1>3, <1>4, <2>2
  <2>3. CASE n = 3
    BY <1>3, <1>4, <2>3
  <2> QED
    BY <2>1, <2>2, <2>3
<1> QED
  BY <1>1, <1>5, <1>6

\* Every call that is not disturbed takes the cursor back by a line, until it
\* is in one.
Unwrapped == Here("test", "x") \/ Here("load", "wrap_x") \/ Here("store", "wrap_x")
CalmInv ==
    /\ calm \in 0..3
    /\ Here("idle", "call") => x <= Reach(calm)
    /\ calm # 0 =>
          /\ Unwrapped => x <= Reach(calm - 1)
          /\ ~Unwrapped /\ ~Here("idle", "call") => x < Reach(calm)
          /\ Here("store", "wrap_x") \/ Here("store", "next") => reg = x
          /\ Here("load", "wrap_x") \/ Here("store", "wrap_x") => x >= Width
          /\ Here("column", "x") => y < Height /\ reg = y * Width
          /\ Here("cell", "ch") => y < Height /\ reg = y * Width + x

LEMMA CalmInit ==
    ASSUME ByteRange <= 4 * Width - 2, Init
    PROVE  CalmInv
<1>1. 0 <= Reach(3)
  BY Reaches, Sizes
<1> QED
  BY <1>1 DEF Init, CalmInv, Unwrapped, Here

LEMMA MainKeepsCalm ==
    ASSUME ByteRange <= 4 * Width - 2, StoreInv, CalmInv, Main
    PROVE  CalmInv'
<1>1. /\ calm \in 0..3 /\ x \in Byte /\ y \in Byte
      /\ Reach(calm) \in Width..ByteRange - 1 /\ Reach(3) = Width
      /\ calm # 0 => /\ Reach(calm - 1) \in Width..ByteRange - 1
                     /\ Reach(calm - 1) - Width < Reach(calm)
                     /\ Reach(calm) <= Reach(calm - 1)
  <2>1. calm \in 0..3 /\ x \in Byte /\ y \in Byte
    BY DEF CalmInv, StoreInv
  <2>2. calm # 0 => calm \in 1..3 /\ calm - 1 \in 0..3
    BY <2>1
  <2> QED
    BY <2>1, <2>2, Reaches
<1> DEFINE R == Reach(calm)
           Q == Reach(calm - 1)
<1>2. R \in Nat /\ (calm # 0 => Q \in Nat) /\ Width <= R
  BY <1>1, Sizes
<1>3. \A n \in Byte : n \in Nat /\ n <= ByteRange - 1
  BY Sizes DEF Byte
<1>4. ASSUME NEW c \in MainChars, PrintChar(c)
      PROVE  CalmInv'
  <2>1. /\ x' = x /\ pc = <<"idle", "call">> /\ pc' = <<"test", "x">>
        /\ calm' = IF calm = 3 THEN 3 ELSE calm + 1
    BY <1>4 DEF PrintChar, Goto, Here, cursor
  <2>2. x <= R
    BY <2>1 DEF CalmInv, Here
  <2>3. calm' \in 1..3 /\ x <= Reach(calm' - 1)
    <3>1. CASE calm = 3
      BY <1>1, <1>3, <2>1, <2>2, <3>1
    <3>2. CASE calm # 3
      <4>1. calm' = calm + 1 /\ calm' \in 1..3 /\ calm' - 1 = calm
        BY <1>1, <2>1, <3>2
      <4> QED
        BY <2>2, <4>1
    <3> QED
      BY <3>1, <3>2
  <2> QED
    BY <2>1, <2>3 DEF CalmInv, Unwrapped, Here
<1>5. ASSUME ~(\E c \in MainChars : PrintChar(c))
      PROVE  CalmInv'
  <2>1. calm' = calm
    BY <1>5 DEF Main, TestX, TestY, Load, Store, LinesUp, Switch, Row, Column, Cell, history
  <2> USE DEF CalmInv, Unwrapped, Here, Goto, cursor
  <2>2. CASE TestX
    BY <1>1, <1>2, <1>3, <2>1, <2>2, Sizes DEF TestX
  <2>3. CASE TestY
    <3>1. /\ pc = <<"test", "y">> /\ x' = x
          /\ pc' \in {<<"lines", "up">>, <<"idle", "call">>, <<"switch", "ch">>}
      BY <2>3 DEF TestY
    <3>2. IF calm = 0 THEN R = ByteRange - 1 ELSE x < R
      BY <3>1 DEF Reach
    <3>3. x <= R
      BY <1>1, <1>2, <1>3, <3>2
    <3> HIDE DEF R
    <3> QED
      BY <2>1, <3>1, <3>2, <3>3 DEF R
  <2>4. CASE Load
    <3>1. PICK op \in Ops :
              /\ pc = <<"load", op>> /\ pc' = <<"store", op>>
              /\ reg' = IF op \in {"wrap_x", "next"} THEN x ELSE y
              /\ UNCHANGED <<x, y, screen, stored, ch, again, history>>
      BY <2>4, LoadCases DEF StoreInv
    <3> QED
      BY <1>1, <2>1, <3>1
  <2>5. CASE Store
    <3>1. /\ pc[1] = "store" /\ x \in Nat /\ x <= ByteRange - 1 /\ reg \in Nat
      BY <1>1, <1>3, <2>5 DEF Store, StoreInv
    <3>2. \/ /\ pc = <<"store", "wrap_x">> /\ pc' = <<"load", "wrap_y">>
             /\ x' = (reg - Width) % ByteRange
          \/ /\ pc \in {<<"store", "wrap_y">>, <<"store", "scrolled">>}
             /\ pc' = <<"test", "y">> /\ x' = x
          \/ /\ pc = <<"store", "newline">> /\ pc' = <<"test", "x">> /\ x' = x
          \/ /\ pc = <<"store", "next">> /\ pc' = <<"idle", "call">>
             /\ x' = (reg + 1) % ByteRange
      BY <2>5, StoreCases DEF StoreInv
    <3>3. CASE pc = <<"store", "wrap_x">>
      <4>1. pc' = <<"load", "wrap_y">> /\ x' = (reg - Width) % ByteRange
        BY <3>2, <3>3
      <4>2. calm # 0 => x' = x - Width /\ x' < R
        BY <1>1, <3>1, <3>3, <4>1, Sizes
      <4> QED
        BY <2>1, <1>1, <4>1, <4>2
    <3>4. CASE pc \in {<<"store", "wrap_y">>, <<"store", "scrolled">>}
      BY <1>1, <2>1, <3>2, <3>4
    <3>5. CASE pc = <<"store", "newline">>
      BY <1>1, <1>2, <2>1, <3>1, <3>2, <3>5
    <3>6. CASE pc = <<"store", "next">>
      <4>1. pc' = <<"idle", "call">> /\ x' = (reg + 1) % ByteRange
        BY <3>2, <3>6
      <4>2. CASE calm = 0
        <5>1. x' \in Byte
          BY <3>1, <4>1, InByte
        <5>2. R = ByteRange - 1
          BY <4>2 DEF Reach
        <5> QED
          BY <1>3, <2>1, <4>1, <4>2, <5>1, <5>2
      <4>3. CASE calm # 0
        <5>1. reg = x /\ x < R
          BY <3>6, <4>3
        <5>2. x' = x + 1
          BY <1>1, <3>1, <4>1, <5>1, Sizes
        <5> QED
          BY <1>1, <1>2, <2>1, <3>1, <4>1, <5>1, <5>2
      <4> QED
        BY <4>2, <4>3
    <3> QED
      BY <3>2, <3>3, <3>4, <3>5, <3>6
  <2>6. CASE LinesUp
    BY <1>1, <2>1, <2>6 DEF LinesUp
  <2>7. CASE Switch
    BY <1>1, <1>2, <2>1, <2>7, Sizes DEF Switch
  <2>8. CASE Row
    <3>1. y < Height
      BY <2>8 DEF Row, StoreInv
    <3> QED
      BY <1>1, <2>1, <2>8, <3>1 DEF Row
  <2>9. CASE Column
    BY <1>1, <2>1, <2>9 DEF Column
  <2>10. CASE Cell
    BY <1>1, <2>1, <2>10 DEF Cell
  <2> QED
    BY <1>5, <2>2, <2>3, <2>4, <2>5, <2>6, <2>7, <2>8, <2>9, <2>10 DEF Main
<1> QED
  BY <1>4, <1>5

LEMMA InterruptKeepsCalm ==
    ASSUME ByteRange <= 4 * Width - 2, StoreInv, CalmInv,
           NEW str \in IrqTexts, Interrupt(str)
    PROVE  CalmInv'
<1>1. CASE Here("idle", "call")
  <2> DEFINE s == print_string(Now, str)
             n == Reach(calm)
  <2>1. pc' = pc /\ calm' = calm /\ x' = s.x
    <3>1. pc[1] = "idle"
      BY <1>1 DEF Here
    <3> QED
      BY <3>1, Zenon DEF Interrupt, Now
  <2>2. n \in Width..ByteRange - 1 /\ x <= n /\ calm \in 0..3
    BY <1>1, Reaches DEF CalmInv
  <2>3. Now \in Shown(n)
    BY <2>2, Sizes DEF StoreInv, Now, Shown, Byte
  <2>4. s \in Shown(n)
    <3> HIDE DEF n
    <3> QED
      BY <2>2, <2>3, TextsAreChars, PrintsString
  <2>5. x' <= n
    <3> HIDE DEF s, n
    <3> QED
      BY <2>1, <2>2, <2>4, Sizes DEF Shown
  <2> HIDE DEF s
  <2> QED
    BY <1>1, <2>1, <2>2, <2>5 DEF CalmInv, Unwrapped, Here
<1>2. CASE ~Here("idle", "call")
  <2>1. pc[1] # "idle"
    BY <1>2 DEF StoreInv, Labels, Ops, Here
  <2>2. pc' = pc /\ calm' = 0
    BY <2>1, Zenon DEF Interrupt
  <2> QED
    BY <1>2, <2>2 DEF CalmInv, Here
<1> QED
  BY <1>1, <1>2

\* Two calls that no handler disturbs bring the column back into the line, and
\* the third stores on the screen: wrap_curs (text_mode.c:21) takes one line's
\* width off the column at a time, which suffices where a byte reaches less
\* than four lines far.  With 80 columns it does.
THEOREM TextRecovers == ByteRange <= 4 * Width - 2 => (Spec => []Recovers)
<1> SUFFICES ASSUME ByteRange <= 4 * Width - 2
             PROVE  Spec => []Recovers
  OBVIOUS
<1>1. Init => StoreInv /\ CalmInv
  BY StoreInit, CalmInit
<1>2. StoreInv /\ CalmInv /\ [Next]_vars => StoreInv' /\ CalmInv'
  <2> SUFFICES ASSUME StoreInv, CalmInv, [Next]_vars
               PROVE  StoreInv' /\ CalmInv'
    OBVIOUS
  <2>1. CASE UNCHANGED vars
    BY <2>1, StoreStep DEF vars, cursor, history, CalmInv, Unwrapped, Here
  <2>2. CASE Next
    BY <2>2, StoreStep, MainKeepsCalm, InterruptKeepsCalm DEF Next
  <2> QED
    BY <2>1, <2>2
<1>3. StoreInv /\ CalmInv => Recovers
  <2> SUFFICES ASSUME StoreInv, CalmInv, calm = 3, Here("cell", "ch")
               PROVE  reg < Size
    BY DEF Recovers
  <2>1. ~Unwrapped /\ ~Here("idle", "call")
    BY DEF Unwrapped, Here
  <2>2. x < Width /\ y < Height /\ reg = y * Width + x
    BY <2>1, Reaches DEF CalmInv
  <2>3. x \in Nat /\ y \in 0..Height - 1
    BY <2>2, Sizes DEF StoreInv, Byte
  <2> QED
    BY <2>2, <2>3, Cells
<1> QED
  BY <1>1, <1>2, <1>3, PTL DEF Spec
-----------------------------------------------------------------------------
(* The sheet, and what the screen shows of it.                             *)

Places2 == Nat \X (0..Width - 1)
Sheets ==
    {sheet \in [row : Nat, col : 0..Width,
                cells : UNION {[D -> Char] : D \in SUBSET Places2}] :
        \A p \in DOMAIN sheet.cells : p[1] <= sheet.row}
Clean == [row |-> 0, col |-> 0, cells |-> [p \in {} |-> Blank]]
SheetOf(t) == FoldLeft(Put, Clean, t)

Down(sheet) == [sheet EXCEPT !.row = @ + 1, !.col = 0]
Wrapped(sheet) == IF sheet.col = Width THEN Down(sheet) ELSE sheet
Written(sheet, c) ==
    [row |-> sheet.row, col |-> sheet.col + 1,
     cells |-> [p \in DOMAIN sheet.cells \cup {<<sheet.row, sheet.col>>} |->
                   IF p = <<sheet.row, sheet.col>> THEN c ELSE sheet.cells[p]]]
PutIn(sheet, c) ==
    CASE c = "\n" -> Down(sheet)
      [] c = "\r" -> [sheet EXCEPT !.col = 0]
      [] OTHER -> Written(sheet, c)

LEMMA SheetParts ==
    ASSUME NEW sheet \in Sheets
    PROVE  /\ sheet = [row |-> sheet.row, col |-> sheet.col, cells |-> sheet.cells]
           /\ sheet.row \in Nat /\ sheet.col \in 0..Width
           /\ DOMAIN sheet.cells \in SUBSET Places2
           /\ sheet.cells \in [DOMAIN sheet.cells -> Char]
           /\ \A p \in DOMAIN sheet.cells : p[1] <= sheet.row
<1>1. /\ sheet \in [row : Nat, col : 0..Width,
                    cells : UNION {[D -> Char] : D \in SUBSET Places2}]
      /\ \A p \in DOMAIN sheet.cells : p[1] <= sheet.row
  BY Zenon DEF Sheets
<1>2. sheet.cells \in UNION {[D -> Char] : D \in SUBSET Places2}
  BY <1>1
<1>3. PICK D \in SUBSET Places2 : sheet.cells \in [D -> Char]
  BY <1>2, Zenon
<1>4. DOMAIN sheet.cells = D
  BY <1>3
<1> QED
  BY <1>1, <1>3, <1>4

LEMMA SheetChanged ==
    ASSUME NEW sheet \in Sheets, NEW r, NEW k
    PROVE  /\ [sheet EXCEPT !.row = r, !.col = k]
                  = [row |-> r, col |-> k, cells |-> sheet.cells]
           /\ [sheet EXCEPT !.col = k]
                  = [row |-> sheet.row, col |-> k, cells |-> sheet.cells]
           /\ Down(sheet) = [row |-> sheet.row + 1, col |-> 0, cells |-> sheet.cells]
<1>0. sheet = [row |-> sheet.row, col |-> sheet.col, cells |-> sheet.cells]
  BY SheetParts
<1>1. ASSUME NEW t, t = [sheet EXCEPT !.row = r, !.col = k]
      PROVE  t = [row |-> r, col |-> k, cells |-> sheet.cells]
  BY <1>0, <1>1
<1>2. ASSUME NEW t, t = [sheet EXCEPT !.col = k]
      PROVE  t = [row |-> sheet.row, col |-> k, cells |-> sheet.cells]
  BY <1>0, <1>2
<1>3. ASSUME NEW t, t = Down(sheet)
      PROVE  t = [row |-> sheet.row + 1, col |-> 0, cells |-> sheet.cells]
  BY <1>0, <1>3 DEF Down
<1> QED
  BY <1>1, <1>2, <1>3, Zenon

LEMMA SheetMade ==
    ASSUME NEW row \in Nat, NEW col \in 0..Width, NEW D \in SUBSET Places2,
           NEW cells \in [D -> Char], \A p \in D : p[1] <= row
    PROVE  [row |-> row, col |-> col, cells |-> cells] \in Sheets
<1> DEFINE sheet == [row |-> row, col |-> col, cells |-> cells]
<1>1. cells \in UNION {[E -> Char] : E \in SUBSET Places2}
  BY Zenon
<1>2. sheet \in [row : Nat, col : 0..Width,
                 cells : UNION {[E -> Char] : E \in SUBSET Places2}]
  BY <1>1
<1>3. \A p \in DOMAIN sheet.cells : p[1] <= sheet.row
  OBVIOUS
<1> HIDE DEF sheet
<1>4. sheet \in Sheets
  BY <1>2, <1>3, Zenon DEF Sheets
<1> QED
  BY <1>4 DEF sheet

LEMMA CleanIsSheet == Clean \in Sheets
<1>1. [p \in {} |-> Blank] \in [{} -> Char] /\ {} \in SUBSET Places2
  OBVIOUS
<1>2. 0 \in 0..Width
  BY Sizes
<1> QED
  BY <1>1, <1>2, SheetMade DEF Clean

LEMMA DownIsSheet ==
    ASSUME NEW sheet \in Sheets
    PROVE  Down(sheet) \in Sheets
<1> DEFINE r == sheet.row
           D == DOMAIN sheet.cells
           cells == sheet.cells
<1>1. r \in Nat /\ D \in SUBSET Places2 /\ cells \in [D -> Char]
      /\ \A p \in D : p \in Places2 /\ p[1] <= r
  BY SheetParts
<1>2. Down(sheet) = [row |-> r + 1, col |-> 0, cells |-> cells]
  BY SheetChanged, Zenon
<1> HIDE DEF r, D, cells
<1>3. \A p \in D : p[1] <= r + 1
  BY <1>1 DEF Places2
<1>4. r + 1 \in Nat /\ 0 \in 0..Width
  BY <1>1, Sizes
<1> QED
  BY <1>1, <1>2, <1>3, <1>4, SheetMade

LEMMA WrappedIsSheet ==
    ASSUME NEW sheet \in Sheets
    PROVE  Wrapped(sheet) \in Sheets /\ Wrapped(sheet).col < Width
<1>1. sheet.col \in 0..Width
  BY SheetParts
<1>2. Down(sheet).col = 0
  BY SheetParts DEF Down
<1> QED
  BY <1>1, <1>2, DownIsSheet, Sizes DEF Wrapped

LEMMA WrittenIsSheet ==
    ASSUME NEW sheet \in Sheets, sheet.col < Width, NEW c \in Char
    PROVE  Written(sheet, c) \in Sheets
<1> DEFINE p == <<sheet.row, sheet.col>>
           D == DOMAIN sheet.cells \cup {p}
           cells == [q \in D |-> IF q = p THEN c ELSE sheet.cells[q]]
<1>1. /\ sheet.row \in Nat /\ sheet.col \in 0..Width
      /\ DOMAIN sheet.cells \in SUBSET Places2
      /\ sheet.cells \in [DOMAIN sheet.cells -> Char]
      /\ \A q \in DOMAIN sheet.cells : q[1] <= sheet.row
  BY SheetParts
<1>2. p \in Places2 /\ p[1] <= sheet.row
  BY <1>1, Sizes DEF Places2
<1>3. D \in SUBSET Places2 /\ \A q \in D : q[1] <= sheet.row
  BY <1>1, <1>2
<1>4. cells \in [D -> Char]
  BY <1>1
<1>5. sheet.col + 1 \in 0..Width
  BY <1>1, Sizes
<1>6. Written(sheet, c) = [row |-> sheet.row, col |-> sheet.col + 1, cells |-> cells]
  BY Zenon DEF Written
<1> HIDE DEF cells, D, p
<1> QED
  BY <1>1, <1>3, <1>4, <1>5, <1>6, SheetMade

LEMMA PutInIsSheet ==
    ASSUME NEW sheet \in Sheets, sheet.col < Width, NEW c \in Char
    PROVE  PutIn(sheet, c) \in Sheets
<1>1. [sheet EXCEPT !.col = 0] \in Sheets
  <2>1. [sheet EXCEPT !.col = 0] = [row |-> sheet.row, col |-> 0, cells |-> sheet.cells]
    BY SheetParts
  <2>2. 0 \in 0..Width
    BY Sizes
  <2> QED
    BY <2>1, <2>2, SheetParts, SheetMade
<1> QED
  BY <1>1, DownIsSheet, WrittenIsSheet, Zenon DEF PutIn

\* Put starts a line of its own where the line is full.
LEMMA Puts ==
    ASSUME NEW sheet \in Sheets, NEW c \in Char
    PROVE  Put(sheet, c) = PutIn(Wrapped(sheet), c) /\ Put(sheet, c) \in Sheets
<1> DEFINE w == Wrapped(sheet)
           row == IF sheet.col = Width THEN sheet.row + 1 ELSE sheet.row
           col == IF sheet.col = Width THEN 0 ELSE sheet.col
<1>1. w = [row |-> row, col |-> col, cells |-> sheet.cells]
  <2>1. sheet = [row |-> sheet.row, col |-> sheet.col, cells |-> sheet.cells]
    BY SheetParts
  <2>2. Down(sheet) = [row |-> sheet.row + 1, col |-> 0, cells |-> sheet.cells]
    BY SheetChanged, Zenon
  <2> QED
    BY <2>1, <2>2 DEF Wrapped
<1>2. Put(sheet, c) =
          CASE c = "\n" -> [sheet EXCEPT !.row = row + 1, !.col = 0]
            [] c = "\r" -> [sheet EXCEPT !.row = row, !.col = 0]
            [] OTHER -> [row |-> row, col |-> col + 1,
                         cells |-> [p \in DOMAIN sheet.cells \cup {<<row, col>>} |->
                                       IF p = <<row, col>> THEN c ELSE sheet.cells[p]]]
  BY Zenon DEF Put
<1>3. sheet = [row |-> sheet.row, col |-> sheet.col, cells |-> sheet.cells]
  BY SheetParts
<1> HIDE DEF w, row, col
<1>4. w.row = row /\ w.col = col /\ w.cells = sheet.cells
  BY <1>1
<1>5. Put(sheet, c) = PutIn(w, c)
  <2>0. /\ Down(w) = [row |-> row + 1, col |-> 0, cells |-> sheet.cells]
        /\ [w EXCEPT !.col = 0] = [row |-> row, col |-> 0, cells |-> sheet.cells]
        /\ [sheet EXCEPT !.row = row + 1, !.col = 0]
               = [row |-> row + 1, col |-> 0, cells |-> sheet.cells]
        /\ [sheet EXCEPT !.row = row, !.col = 0]
               = [row |-> row, col |-> 0, cells |-> sheet.cells]
    <3>1. w \in Sheets
      BY WrappedIsSheet DEF w
    <3>2. /\ Down(w) = [row |-> w.row + 1, col |-> 0, cells |-> w.cells]
          /\ [w EXCEPT !.col = 0] = [row |-> w.row, col |-> 0, cells |-> w.cells]
      BY <3>1, SheetChanged, Zenon
    <3>3. /\ [sheet EXCEPT !.row = row + 1, !.col = 0]
                 = [row |-> row + 1, col |-> 0, cells |-> sheet.cells]
          /\ [sheet EXCEPT !.row = row, !.col = 0]
                 = [row |-> row, col |-> 0, cells |-> sheet.cells]
      <4>1. ASSUME NEW r, NEW t, t = [sheet EXCEPT !.row = r, !.col = 0]
            PROVE  t = [row |-> r, col |-> 0, cells |-> sheet.cells]
        BY <1>3, <4>1
      <4> QED
        BY <4>1, Zenon
    <3> QED
      BY <1>4, <3>2, <3>3
  <2>1. CASE c = "\n"
    <3>1. Put(sheet, c) = [sheet EXCEPT !.row = row + 1, !.col = 0]
      BY <1>2, <2>1
    <3>2. PutIn(w, c) = Down(w)
      BY <2>1 DEF PutIn
    <3> QED
      BY <2>0, <3>1, <3>2
  <2>2. CASE c = "\r"
    <3>1. Put(sheet, c) = [sheet EXCEPT !.row = row, !.col = 0]
      BY <1>2, <2>2
    <3>2. PutIn(w, c) = [w EXCEPT !.col = 0]
      BY <2>2 DEF PutIn
    <3> QED
      BY <2>0, <3>1, <3>2
  <2>3. CASE c \notin {"\n", "\r"}
    <3>1. PutIn(w, c) = Written(w, c)
      BY <2>3, Zenon DEF PutIn
    <3>2. Written(w, c) =
              [row |-> row, col |-> col + 1,
               cells |-> [p \in DOMAIN sheet.cells \cup {<<row, col>>} |->
                             IF p = <<row, col>> THEN c ELSE sheet.cells[p]]]
      BY <1>4, Zenon DEF Written
    <3> QED
      BY <1>2, <2>3, <3>1, <3>2, Zenon
  <2> QED
    BY <2>1, <2>2, <2>3
<1>6. PutIn(w, c) \in Sheets
  BY WrappedIsSheet, PutInIsSheet DEF w
<1> QED
  BY <1>5, <1>6 DEF w
\* The sheets of the first characters of a text.
Laying(seq) ==
    \E h \in [0..Len(seq) -> Sheets] :
        /\ h[0] = Clean /\ h[Len(seq)] = SheetOf(seq)
        /\ \A k \in 1..Len(seq) : h[k] = Put(h[k - 1], seq[k])

LEMMA SheetRuns ==
    ASSUME NEW seq \in Seq(Char)
    PROVE  Laying(seq)
<1> DEFINE l == Len(seq)
           Op(t, c) == Put(t, c)
           F == [p \in Sheets \X Char |-> Op(p[1], p[2])]
           iter == CHOOSE g : g = [t \in SUBSET DOMAIN seq |->
                       IF t = {} THEN Clean
                       ELSE Op(g[t \ {Max(t)}], seq[Max(t)])]
<1>1. SheetOf(seq) = iter[DOMAIN seq]
  BY Zenon DEF SheetOf, FoldLeft, MapThenFoldSet
<1>2. DOMAIN seq = 1..l /\ l \in Nat /\ seq \in [1..l -> Char] /\ Clean \in Sheets
  BY CleanIsSheet
<1>3. \A t \in Sheets, c \in Char : Op(t, c) \in Sheets
  BY Puts
<1>4. \A t \in Sheets, c \in Char : F[<<t, c>>] = Op(t, c)
  OBVIOUS
<1>5. F \in [Sheets \X Char -> Sheets]
  BY <1>3
<1> HIDE DEF F, Op, iter, l
<1>6. PICK g \in [SUBSET (1..l) -> Sheets] : Steps(F, Clean, seq, l, g)
  BY <1>2, <1>5, FoldExists
<1>7. ASSUME NEW t \in SUBSET (1..l), t # {}
      PROVE  seq[Max(t)] \in Char /\ t \ {Max(t)} \in SUBSET (1..l)
  BY <1>2, <1>7, MaxIn
<1>8. g = [t \in SUBSET (1..l) |->
              IF t = {} THEN Clean ELSE Op(g[t \ {Max(t)}], seq[Max(t)])]
  BY <1>4, <1>6, <1>7 DEF Steps
<1>9. iter = [t \in SUBSET (1..l) |->
              IF t = {} THEN Clean ELSE Op(iter[t \ {Max(t)}], seq[Max(t)])]
  BY <1>2, <1>8, Zenon DEF iter
<1>10. iter[{}] = Clean
  BY <1>9
<1>11. Follows(Sheets, F, Clean, seq, l, iter)
  BY <1>4, <1>7, <1>9, <1>10 DEF Follows
<1>12. Yields(Sheets, F, Clean, seq, l, iter[1..l])
  BY <1>2, <1>5, <1>11, FoldRuns
<1>13. PICK h \in [0..l -> Sheets] : Runs(F, Clean, seq, l, h) /\ h[l] = iter[1..l]
  BY <1>12 DEF Yields
<1>14. \A k \in 1..l : h[k - 1] \in Sheets /\ seq[k] \in Char
  BY <1>2
<1>15. h[0] = Clean /\ \A k \in 1..l : h[k] = Op(h[k - 1], seq[k])
  <2>1. h[0] = Clean /\ \A k \in 1..l : h[k] = F[<<h[k - 1], seq[k]>>]
    BY <1>13 DEF Runs
  <2>2. ASSUME NEW k \in 1..l
        PROVE  F[<<h[k - 1], seq[k]>>] = Op(h[k - 1], seq[k])
    BY <1>4, <1>14
  <2> QED
    BY <2>1, <2>2
<1>16. h[l] = SheetOf(seq)
  BY <1>1, <1>2, <1>13
<1> QED
  BY <1>15, <1>16 DEF Laying, l, Op

LEMMA NoText == SheetOf(<<>>) = Clean
<1>1. <<>> \in Seq(Char) /\ Len(<<>>) = 0
  OBVIOUS
<1>2. Laying(<<>>)
  BY <1>1, SheetRuns
<1> QED
  BY <1>1, <1>2 DEF Laying

\* The sheet of a text with one character more.
LEMMA SheetGrows ==
    ASSUME NEW seq \in Seq(Char), NEW c \in Char
    PROVE  /\ SheetOf(seq) \in Sheets
           /\ SheetOf(Append(seq, c)) = Put(SheetOf(seq), c)
<1> DEFINE seq2 == Append(seq, c)
           l == Len(seq)
           F == [p \in Sheets \X Char |-> Put(p[1], p[2])]
<1>1. /\ seq2 \in Seq(Char) /\ Len(seq2) = l + 1 /\ seq2[l + 1] = c /\ l \in Nat
      /\ \A k \in 1..l : seq2[k] = seq[k] /\ seq[k] \in Char
  OBVIOUS
<1> HIDE DEF seq2, l
<1>2. Laying(seq) /\ Laying(seq2)
  BY <1>1, SheetRuns
<1>3. PICK h \in [0..l -> Sheets] :
         /\ h[0] = Clean /\ h[l] = SheetOf(seq)
         /\ \A k \in 1..l : h[k] = Put(h[k - 1], seq[k])
  BY <1>2 DEF Laying, l
<1>4. PICK h2 \in [0..l + 1 -> Sheets] :
         /\ h2[0] = Clean /\ h2[l + 1] = SheetOf(seq2)
         /\ \A k \in 1..l + 1 : h2[k] = Put(h2[k - 1], seq2[k])
  BY <1>1, <1>2 DEF Laying
<1>5. ASSUME NEW k \in 1..l
      PROVE  k - 1 \in 0..l /\ k \in 1..l + 1 /\ k - 1 \in 0..l + 1
  BY <1>1
<1>6. \A t \in Sheets, e \in Char : F[<<t, e>>] = Put(t, e)
  OBVIOUS
<1> HIDE DEF F
<1>7. Runs(F, Clean, seq, l, h) /\ Runs(F, Clean, seq, l, h2)
  <2>1. \A k \in 1..l : h[k - 1] \in Sheets /\ h2[k - 1] \in Sheets
    BY <1>5
  <2>2. \A k \in 1..l : h[k] = F[<<h[k - 1], seq[k]>>]
    BY <1>1, <1>3, <1>6, <2>1
  <2>3. \A k \in 1..l : h2[k] = F[<<h2[k - 1], seq[k]>>]
    BY <1>1, <1>4, <1>5, <1>6, <2>1
  <2> QED
    BY <1>3, <1>4, <2>2, <2>3 DEF Runs
<1>8. h[l] = h2[l]
  <2>1. \A k \in 0..l : h[k] = h2[k]
    BY <1>1, <1>7, SameRuns
  <2> QED
    BY <1>1, <2>1
<1>9. h2[l + 1] = Put(h2[l], c)
  <2>1. l + 1 \in 1..l + 1 /\ (l + 1) - 1 = l
    BY <1>1
  <2> QED
    BY <1>1, <1>4, <2>1
<1>10. h[l] \in Sheets
  BY <1>1
<1> QED
  BY <1>3, <1>4, <1>8, <1>9, <1>10 DEF seq2
\* The screen shows the last lines of a sheet, and the cursor its end.
Top(sheet) == IF sheet.row < Height THEN 0 ELSE sheet.row - (Height - 1)
Laid(sheet, r, k) ==
    IF <<r, k>> \in DOMAIN sheet.cells THEN sheet.cells[<<r, k>>] ELSE Blank
Pictured(sheet, scr, top) ==
    \A r \in 0..Height - 1, k \in 0..Width - 1 :
        scr[r * Width + k] = Laid(sheet, top + r, k)
Shows(sheet, s) ==
    /\ s.x = sheet.col /\ s.y = sheet.row - Top(sheet)
    /\ Pictured(sheet, s.scr, Top(sheet))

LEMMA TopRow ==
    ASSUME NEW sheet \in Sheets
    PROVE  /\ Top(sheet) \in Nat
           /\ sheet.row - Top(sheet) \in 0..Height - 1
           /\ Top(sheet) + (sheet.row - Top(sheet)) = sheet.row
<1> DEFINE row == sheet.row
           top == Top(sheet)
<1>1. row \in Nat /\ top = IF row < Height THEN 0 ELSE row - (Height - 1)
  BY SheetParts DEF Top
<1> HIDE DEF row, top
<1>2. top \in Nat /\ row - top \in 0..Height - 1 /\ top + (row - top) = row
  BY <1>1, Sizes
<1> QED
  BY <1>2 DEF row, top

\* Two cells of the screen are the same where their rows and columns are.
LEMMA OneCell ==
    ASSUME NEW r \in 0..Height - 1, NEW q \in 0..Height - 1,
           NEW k \in 0..Width - 1, NEW j \in 0..Width - 1,
           r * Width + k = q * Width + j
    PROVE  r = q /\ k = j
<1>1. r * Width \in Nat /\ q * Width \in Nat
  BY Sizes
<1>2. /\ r < q => r * Width + Width <= q * Width
      /\ q < r => q * Width + Width <= r * Width
  <2>1. ASSUME NEW a \in Nat, NEW b \in Nat, a < b
        PROVE  a * Width + Width <= b * Width
    <3>1. PICK d \in Nat : b = (a + 1) + d
      <4>1. b - (a + 1) \in Nat /\ b = (a + 1) + (b - (a + 1))
        BY <2>1
      <4> QED
        BY <4>1
    <3>2. b * Width = (a * Width + Width) + d * Width
      BY <3>1, Sizes
    <3>3. a * Width \in Nat /\ d * Width \in Nat
      BY Sizes
    <3> QED
      BY <3>2, <3>3, Sizes
  <2> QED
    BY <2>1, Sizes
<1>3. k \in Nat /\ j \in Nat /\ k < Width /\ j < Width /\ r \in Nat /\ q \in Nat
  BY Sizes
<1>4. ~(r < q) /\ ~(q < r)
  BY <1>1, <1>2, <1>3, Sizes
<1>5. r = q
  BY <1>3, <1>4
<1> QED
  BY <1>1, <1>3, <1>5

LEMMA NextIsByte ==
    ASSUME NEW n \in Nat, n < Height \/ n < Width
    PROVE  (n + 1) % ByteRange = n + 1 /\ n + 1 \in Byte
<1>1. n + 1 \in Nat /\ n + 1 < ByteRange
  BY Sizes
<1> QED
  BY <1>1, Sizes DEF Byte

\* A line further down, with the cursor before its first column.
LEMMA ShowsDown ==
    ASSUME NEW sheet \in Sheets, NEW s \in Shown(Width), Shows(sheet, s)
    PROVE  Shows(Down(sheet), WrapY([s EXCEPT !.x = 0, !.y = (s.y + 1) % ByteRange]))
<1> DEFINE row == sheet.row
           top == Top(sheet)
           d == Down(sheet)
           t == [s EXCEPT !.x = 0, !.y = (s.y + 1) % ByteRange]
           w == WrapY(t)
<1>1. /\ row \in Nat /\ top \in Nat /\ row - top \in 0..Height - 1
      /\ top = IF row < Height THEN 0 ELSE row - (Height - 1)
      /\ \A p \in DOMAIN sheet.cells : p[1] <= row
  BY SheetParts, TopRow DEF Top
<1>2. d.row = row + 1 /\ d.col = 0 /\ d.cells = sheet.cells
  <2>1. d = [row |-> row + 1, col |-> 0, cells |-> sheet.cells]
    BY SheetChanged, Zenon
  <2> QED
    BY <2>1
<1>3. /\ s.y = row - top /\ s.scr \in Screens
      /\ Pictured(sheet, s.scr, top)
  BY DEF Shows, Shown
<1>4. (s.y + 1) % ByteRange = s.y + 1 /\ s.y + 1 \in Byte
  <2>1. s.y \in 0..Height - 1
    BY <1>1, <1>3
  <2>2. s.y \in Nat /\ s.y < Height
    BY <2>1, Sizes
  <2> QED
    BY <2>2, NextIsByte
<1>5. /\ t \in Shown(Width) /\ t.x = 0 /\ t.y = s.y + 1 /\ t.scr = s.scr
  <2>1. 0 \in 0..Width
    BY Sizes
  <2> QED
    BY <1>4, <2>1 DEF Shown
<1>6. \A r, k : Laid(d, r, k) = Laid(sheet, r, k)
  BY <1>2 DEF Laid
<1> HIDE DEF d, t, top, row
<1>7. /\ w = IF t.y < Height THEN t
             ELSE [t EXCEPT !.y = Height - 1, !.scr = Lines(t.scr, t.y - (Height - 1))]
      /\ w.x = 0 /\ w \in Shown(Width)
  BY <1>5, WrapsY, Sizes
<1> HIDE DEF w
<1>8. CASE s.y + 1 < Height
  <2>1. w = t
    BY <1>5, <1>7, <1>8
  <2>2. Top(d) = top /\ w.y = (row + 1) - Top(d)
    BY <1>1, <1>2, <1>3, <1>5, <1>8, <2>1, Sizes DEF Top
  <2>3. Pictured(d, w.scr, Top(d))
    BY <1>3, <1>5, <1>6, <2>1, <2>2 DEF Pictured
  <2> QED
    BY <1>2, <1>7, <2>2, <2>3 DEF Shows, w, t, d
<1>9. CASE ~(s.y + 1 < Height)
  <2>1. s.y + 1 = Height /\ t.y - (Height - 1) = 1 /\ ~(t.y < Height)
    BY <1>1, <1>3, <1>5, <1>9, Sizes
  <2>2. w.y = Height - 1 /\ w.scr = Lines(s.scr, 1)
    <3>1. w = [t EXCEPT !.y = Height - 1, !.scr = Lines(t.scr, 1)]
      BY <1>7, <2>1
    <3> QED
      BY <1>5, <3>1 DEF Shown
  <2>3. Top(d) = top + 1 /\ w.y = (row + 1) - Top(d)
    BY <1>1, <1>2, <1>3, <2>1, <2>2, Sizes DEF Top
  <2>4. top + Height = row + 1
    BY <1>1, <1>3, <2>1, Sizes
  <2>5. ASSUME NEW r \in 0..Height - 1, NEW k \in 0..Width - 1
        PROVE  w.scr[r * Width + k] = Laid(sheet, (top + 1) + r, k)
    <3> DEFINE m == r * Width
    <3>1. m \in Nat /\ m + k \in 0..Size - 1 /\ 1 * Width = Width
      BY Cells, Sizes
    <3>2. w.scr[m + k] = IF m + k + Width < Size THEN s.scr[m + k + Width] ELSE Blank
      BY <2>2, <3>1 DEF Lines
    <3>3. CASE r < Height - 1
      <4>1. r + 1 \in 0..Height - 1
        BY <3>3, Sizes
      <4>2. (r + 1) * Width = m + Width
        BY Sizes
      <4>3. (r + 1) * Width + k < Size
        BY <4>1, Cells, Sizes
      <4>4. s.scr[(r + 1) * Width + k] = Laid(sheet, top + (r + 1), k)
        BY <1>3, <4>1 DEF Pictured
      <4> HIDE DEF m
      <4>5. m + k + Width = (r + 1) * Width + k
        BY <3>1, <4>2, Sizes
      <4>6. top + (r + 1) = (top + 1) + r
        BY <1>1, <4>1, Sizes
      <4> QED
        BY <3>2, <4>3, <4>4, <4>5, <4>6 DEF m
    <3>4. CASE ~(r < Height - 1)
      <4>1. r = Height - 1
        BY <3>4, Sizes
      <4>2. m = LastLine
        BY <4>1, Sizes DEF LastLine
      <4> HIDE DEF m
      <4>3. ~(m + k + Width < Size)
        BY <4>2, Sizes
      <4>4. (top + 1) + r = row + 1
        BY <1>1, <2>4, <4>1, Sizes
      <4>5. <<row + 1, k>> \notin DOMAIN sheet.cells
        <5>1. ~(row + 1 <= row)
          BY <1>1
        <5> QED
          BY <1>1, <5>1
      <4> QED
        BY <3>2, <4>3, <4>4, <4>5 DEF Laid, m
    <3> QED
      BY <3>3, <3>4
  <2>6. Pictured(d, w.scr, Top(d))
    BY <1>6, <2>3, <2>5 DEF Pictured
  <2> QED
    BY <1>2, <1>7, <2>3, <2>6 DEF Shows, w, t, d
<1> QED
  BY <1>8, <1>9

\* A character stored at the cursor.
LEMMA ShowsWritten ==
    ASSUME NEW sheet \in Sheets, sheet.col < Width, NEW s \in Shown(Width),
           Shows(sheet, s), NEW c \in Char,
           NEW t, t = [s EXCEPT !.scr = Stored(s.scr, s.y * Width + s.x, c),
                                !.cell = s.y * Width + s.x,
                                !.x = (s.x + 1) % ByteRange]
    PROVE  Shows(Written(sheet, c), t)
<1> DEFINE row == sheet.row
           col == sheet.col
           top == Top(sheet)
           d == Written(sheet, c)
           cell == s.y * Width + s.x
<1>1. /\ row \in Nat /\ top \in Nat /\ row - top \in 0..Height - 1
      /\ top + (row - top) = row /\ col \in 0..Width - 1
  BY SheetParts, TopRow, Sizes
<1>2. /\ d.row = row /\ d.col = col + 1 /\ Top(d) = top
      /\ DOMAIN d.cells = DOMAIN sheet.cells \cup {<<row, col>>}
      /\ \A p \in DOMAIN d.cells :
            d.cells[p] = IF p = <<row, col>> THEN c ELSE sheet.cells[p]
  BY DEF Written, Top
<1>3. /\ s.x = col /\ s.y = row - top /\ s.scr \in Screens
      /\ Pictured(sheet, s.scr, top)
  BY DEF Shows, Shown
<1>4. (s.x + 1) % ByteRange = col + 1
  BY <1>1, <1>3, NextIsByte
<1>5. cell < Size /\ cell \in Nat
  BY <1>1, <1>3, Cells
<1>6. t.x = col + 1 /\ t.y = row - top /\ t.scr = [s.scr EXCEPT ![cell] = c]
  BY <1>3, <1>4, <1>5 DEF Stored, Shown
<1> HIDE DEF d, top, row, col
<1>7. ASSUME NEW r \in 0..Height - 1, NEW k \in 0..Width - 1
      PROVE  t.scr[r * Width + k] = Laid(d, top + r, k)
  <2>1. r * Width + k \in 0..Size - 1
    BY Cells, Sizes
  <2>2. t.scr[r * Width + k] = IF r * Width + k = cell THEN c ELSE s.scr[r * Width + k]
    BY <1>3, <1>6, <2>1 DEF Screens
  <2>3. r * Width + k = cell <=> r = row - top /\ k = col
    <3>1. r * Width + k = cell => r = row - top /\ k = col
      BY <1>1, <1>3, OneCell
    <3>2. r = row - top /\ k = col => r * Width + k = cell
      BY <1>3
    <3> QED
      BY <3>1, <3>2
  <2>4. <<top + r, k>> = <<row, col>> <=> r = row - top /\ k = col
    BY <1>1
  <2>5. s.scr[r * Width + k] = Laid(sheet, top + r, k)
    BY <1>3 DEF Pictured
  <2>6. Laid(d, top + r, k) = IF <<top + r, k>> = <<row, col>> THEN c
                              ELSE Laid(sheet, top + r, k)
    BY <1>2 DEF Laid
  <2> HIDE DEF cell
  <2> QED
    BY <2>2, <2>3, <2>4, <2>5, <2>6
<1>8. Pictured(d, t.scr, Top(d))
  BY <1>2, <1>7 DEF Pictured
<1> QED
  BY <1>2, <1>6, <1>8 DEF Shows, d

\* print_char (text_mode.c:47) puts a character on the sheet.
LEMMA ShowsPut ==
    ASSUME NEW sheet \in Sheets, NEW s \in Shown(Width), Shows(sheet, s),
           NEW c \in Char
    PROVE  Shows(Put(sheet, c), print_char(s, c))
<1> DEFINE v == Wrapped(sheet)
           w == wrap_curs(s)
<1>1. /\ sheet.col \in 0..Width /\ s.x = sheet.col
      /\ s.y \in 0..Height - 1
      /\ s.scr \in Screens
  BY SheetParts, TopRow DEF Shows, Shown
<1>2. Shows(v, w)
  <2>1. CASE sheet.col = Width
    <3>1. v = Down(sheet)
      BY <2>1 DEF Wrapped
    <3>2. WrapX(s) = [s EXCEPT !.x = s.x - Width, !.y = (s.y + 1) % ByteRange]
      BY <1>1, <2>1, Sizes DEF WrapX
    <3>3. s.x - Width = 0
      BY <1>1, <2>1, Sizes
    <3>4. w = WrapY([s EXCEPT !.x = 0, !.y = (s.y + 1) % ByteRange])
      BY <3>2, <3>3, Zenon DEF wrap_curs
    <3> QED
      BY <3>1, <3>4, ShowsDown
  <2>2. CASE sheet.col # Width
    <3>1. WrapX(s) = s /\ v = sheet
      BY <1>1, <2>2, Sizes DEF WrapX, Wrapped
    <3>2. s.y < Height
      BY <1>1, Sizes
    <3>3. WrapY(s) = s
      BY <3>2, WrapsY, Sizes
    <3> QED
      BY <3>1, <3>3 DEF wrap_curs
  <2> QED
    BY <2>1, <2>2
<1>3. w \in Shown(Width) /\ v \in Sheets /\ v.col < Width
  BY Wraps, WrappedIsSheet, Sizes
<1>4. Put(sheet, c) = PutIn(v, c) /\ print_char(s, c) = Place(w, c)
  BY Puts, Prints
<1> HIDE DEF v, w
<1>5. CASE c = "\n"
  <2> DEFINE t == [w EXCEPT !.x = 0, !.y = (w.y + 1) % ByteRange]
  <2>1. PutIn(v, c) = Down(v)
    BY <1>5 DEF PutIn
  <2>2. Place(w, c) = wrap_curs(t)
    BY <1>5 DEF Place
  <2>3. t.x = 0
    BY <1>3 DEF Shown
  <2>4. WrapX(t) = t
    BY <2>3, Sizes DEF WrapX
  <2>5. Shows(Down(v), WrapY(t))
    BY <1>2, <1>3, ShowsDown
  <2> HIDE DEF t
  <2> QED
    BY <1>4, <2>1, <2>2, <2>4, <2>5 DEF wrap_curs
<1>6. CASE c = "\r"
  <2>1. PutIn(v, c) = [v EXCEPT !.col = 0]
    BY <1>6 DEF PutIn
  <2>2. Place(w, c) = [w EXCEPT !.x = 0]
    BY <1>6 DEF Place
  <2> DEFINE d == [v EXCEPT !.col = 0]
             t == [w EXCEPT !.x = 0]
  <2>3. d.col = 0 /\ d.row = v.row /\ d.cells = v.cells
    <3>1. d = [row |-> v.row, col |-> 0, cells |-> v.cells]
      BY <1>3, SheetChanged, Zenon
    <3> QED
      BY <3>1
  <2>4. t.x = 0 /\ t.y = w.y /\ t.scr = w.scr
    BY <1>3 DEF Shown
  <2> HIDE DEF d, t
  <2>5. Top(d) = Top(v) /\ \A r, k : Laid(d, r, k) = Laid(v, r, k)
    BY <2>3 DEF Top, Laid
  <2>6. Pictured(d, t.scr, Top(d))
    BY <1>2, <2>4, <2>5 DEF Shows, Pictured
  <2>7. Shows(d, t)
    BY <1>2, <2>3, <2>4, <2>5, <2>6 DEF Shows
  <2> QED
    BY <1>4, <2>1, <2>2, <2>7 DEF d, t
<1>7. CASE c \notin {"\n", "\r"}
  <2>1. PutIn(v, c) = Written(v, c)
    BY <1>7, Zenon DEF PutIn
  <2>2. Place(w, c) = [w EXCEPT !.scr = Stored(w.scr, w.y * Width + w.x, c),
                                !.cell = w.y * Width + w.x,
                                !.x = (w.x + 1) % ByteRange]
    BY <1>7, Zenon DEF Place
  <2> DEFINE t == Place(w, c)
  <2> HIDE DEF t
  <2>3. Shows(Written(v, c), t)
    BY <1>2, <1>3, <2>2, ShowsWritten DEF t
  <2> QED
    BY <1>4, <2>1, <2>3 DEF t
<1> QED
  BY <1>5, <1>6, <1>7
\* The sheets that a text goes through behind another one.
LayingOn(seq, str) ==
    \E h \in [0..Len(str) -> Sheets] :
        /\ h[0] = SheetOf(seq) /\ h[Len(str)] = SheetOf(seq \o str)
        /\ \A k \in 1..Len(str) : h[k] = Put(h[k - 1], str[k])

LEMMA SheetJoins ==
    ASSUME NEW seq \in Seq(Char), NEW str \in Seq(Char)
    PROVE  LayingOn(seq, str)
<1> DEFINE seq2 == seq \o str
           l == Len(seq)
           m == Len(str)
           F == [p \in Sheets \X Char |-> Put(p[1], p[2])]
<1>1. /\ seq2 \in Seq(Char) /\ Len(seq2) = l + m /\ l \in Nat /\ m \in Nat
      /\ \A k \in 1..l : seq2[k] = seq[k] /\ seq[k] \in Char
      /\ \A k \in 1..m : seq2[l + k] = str[k]
  OBVIOUS
<1> HIDE DEF seq2, l, m
<1>2. Laying(seq) /\ Laying(seq2)
  BY <1>1, SheetRuns
<1>3. PICK h \in [0..l -> Sheets] :
         /\ h[0] = Clean /\ h[l] = SheetOf(seq)
         /\ \A k \in 1..l : h[k] = Put(h[k - 1], seq[k])
  BY <1>2 DEF Laying, l
<1>4. PICK h2 \in [0..l + m -> Sheets] :
         /\ h2[0] = Clean /\ h2[l + m] = SheetOf(seq2)
         /\ \A k \in 1..l + m : h2[k] = Put(h2[k - 1], seq2[k])
  BY <1>1, <1>2 DEF Laying
<1>5. ASSUME NEW k \in 1..l
      PROVE  k - 1 \in 0..l /\ k \in 1..l + m /\ k - 1 \in 0..l + m
  BY <1>1
<1>6. \A t \in Sheets, e \in Char : F[<<t, e>>] = Put(t, e)
  OBVIOUS
<1> HIDE DEF F
<1>7. Runs(F, Clean, seq, l, h) /\ Runs(F, Clean, seq, l, h2)
  <2>1. \A k \in 1..l : h[k - 1] \in Sheets /\ h2[k - 1] \in Sheets
    BY <1>5
  <2>2. \A k \in 1..l : h[k] = F[<<h[k - 1], seq[k]>>]
    BY <1>1, <1>3, <1>6, <2>1
  <2>3. \A k \in 1..l : h2[k] = F[<<h2[k - 1], seq[k]>>]
    BY <1>1, <1>4, <1>5, <1>6, <2>1
  <2> QED
    BY <1>3, <1>4, <2>2, <2>3 DEF Runs
<1>8. h[l] = h2[l]
  <2>1. \A k \in 0..l : h[k] = h2[k]
    BY <1>1, <1>7, SameRuns
  <2> QED
    BY <1>1, <2>1
<1> DEFINE g == [k \in 0..m |-> h2[l + k]]
<1>9. ASSUME NEW k \in 0..m
      PROVE  l + k \in 0..l + m /\ g[k] = h2[l + k]
  BY <1>1
<1>10. \A k \in 0..m : h2[l + k] \in Sheets
  BY <1>9
<1>11. g \in [0..m -> Sheets]
  BY <1>10
<1>12. g[0] = SheetOf(seq) /\ g[m] = SheetOf(seq2)
  <2>1. 0 \in 0..m /\ m \in 0..m /\ l + 0 = l
    BY <1>1
  <2> QED
    BY <1>3, <1>4, <1>8, <1>9, <2>1
<1>13. ASSUME NEW k \in 1..m
       PROVE  g[k] = Put(g[k - 1], str[k])
  <2>1. /\ k \in 0..m /\ k - 1 \in 0..m /\ l + k \in 1..l + m
        /\ (l + k) - 1 = l + (k - 1)
    BY <1>1
  <2>2. g[k] = h2[l + k] /\ g[k - 1] = h2[l + (k - 1)]
    BY <1>9, <2>1
  <2>3. h2[l + k] = Put(h2[(l + k) - 1], seq2[l + k])
    BY <1>4, <2>1
  <2> HIDE DEF g
  <2> QED
    BY <1>1, <2>1, <2>2, <2>3
<1> HIDE DEF g
<1> QED
  BY <1>11, <1>12, <1>13 DEF LayingOn, seq2, m

\* print_string (text_mode.c:63) puts a text on the sheet.
LEMMA ShowsString ==
    ASSUME NEW seq \in Seq(Char), NEW str \in Seq(Char),
           NEW s \in Shown(Width), Shows(SheetOf(seq), s)
    PROVE  Shows(SheetOf(seq \o str), print_string(s, str))
<1> DEFINE m == Len(str)
<1>1. Width \in Width..ByteRange - 1 /\ m \in Nat /\ \A k \in 1..m : str[k] \in Char
  BY Sizes
<1>2. Printing(Width, s, str) /\ LayingOn(seq, str)
  BY <1>1, StringRuns, SheetJoins
<1> HIDE DEF m
<1>3. PICK h \in [0..m -> Shown(Width)] :
         /\ h[0] = s /\ h[m] = print_string(s, str)
         /\ \A k \in 1..m : h[k] = print_char(h[k - 1], str[k])
  BY <1>2 DEF Printing, m
<1>4. PICK g \in [0..m -> Sheets] :
         /\ g[0] = SheetOf(seq) /\ g[m] = SheetOf(seq \o str)
         /\ \A k \in 1..m : g[k] = Put(g[k - 1], str[k])
  BY <1>2 DEF LayingOn, m
<1> DEFINE P == {k \in 0..m : Shows(g[k], h[k])}
<1>5. 0 \in P
  BY <1>1, <1>3, <1>4
<1>6. ASSUME NEW k \in 1..m, k - 1 \in P
      PROVE  k \in P
  <2>1. k \in 0..m /\ k - 1 \in 0..m
    BY <1>1
  <2>2. g[k - 1] \in Sheets /\ h[k - 1] \in Shown(Width) /\ str[k] \in Char
    BY <1>1, <2>1
  <2>3. Shows(g[k - 1], h[k - 1])
    BY <1>6
  <2>4. Shows(Put(g[k - 1], str[k]), print_char(h[k - 1], str[k]))
    BY <2>2, <2>3, ShowsPut
  <2> QED
    BY <1>3, <1>4, <2>1, <2>4
<1> HIDE DEF P
<1>7. 0..m \subseteq P
  BY <1>1, <1>5, <1>6, UpTo
<1>8. m \in P
  BY <1>1, <1>7
<1> QED
  BY <1>3, <1>4, <1>8 DEF P
-----------------------------------------------------------------------------
(* What main's call will have printed, from where it is.                   *)

Then(a, w, c) == IF a THEN w ELSE Place(w, c)
AddY(s, d) == [s EXCEPT !.y = (s.y + d) % ByteRange]
LineOn(s) == [s EXCEPT !.x = s.x - Width, !.y = (s.y + 1) % ByteRange]
ColumnOn(s) == [s EXCEPT !.x = (s.x + 1) % ByteRange]

OutcomeAt(p, s, a, c) ==
    CASE p = <<"idle", "call">> -> s
      [] p = <<"test", "x">> -> Then(a, wrap_curs(s), c)
      [] p \in {"load", "store"} \X {"wrap_x"} -> Then(a, WrapY(LineOn(s)), c)
      [] p \in {"load", "store"} \X {"wrap_y"} -> Then(a, WrapY(AddY(s, 1)), c)
      [] p \in {<<"test", "y">>, <<"lines", "up">>} -> Then(a, WrapY(s), c)
      [] p \in {"load", "store"} \X {"scrolled"} -> Then(a, WrapY(AddY(s, -1)), c)
      [] p \in {<<"switch", "ch">>, <<"row", "y">>, <<"column", "x">>,
                <<"cell", "ch">>} -> Place(s, c)
      [] p \in {"load", "store"} \X {"newline"} -> wrap_curs(AddY(s, 1))
      [] p \in {"load", "store"} \X {"next"} -> ColumnOn(s)
Outcome == OutcomeAt(pc, Now, again, ch)

LEMMA Outcomes ==
    ASSUME NEW s, NEW a, NEW c
    PROVE  /\ OutcomeAt(<<"idle", "call">>, s, a, c) = s
           /\ OutcomeAt(<<"test", "x">>, s, a, c) = Then(a, wrap_curs(s), c)
           /\ OutcomeAt(<<"test", "y">>, s, a, c) = Then(a, WrapY(s), c)
           /\ OutcomeAt(<<"lines", "up">>, s, a, c) = Then(a, WrapY(s), c)
           /\ OutcomeAt(<<"switch", "ch">>, s, a, c) = Place(s, c)
           /\ OutcomeAt(<<"row", "y">>, s, a, c) = Place(s, c)
           /\ OutcomeAt(<<"column", "x">>, s, a, c) = Place(s, c)
           /\ OutcomeAt(<<"cell", "ch">>, s, a, c) = Place(s, c)
           /\ \A k \in {"load", "store"} :
                 /\ OutcomeAt(<<k, "wrap_x">>, s, a, c) = Then(a, WrapY(LineOn(s)), c)
                 /\ OutcomeAt(<<k, "wrap_y">>, s, a, c) = Then(a, WrapY(AddY(s, 1)), c)
                 /\ OutcomeAt(<<k, "scrolled">>, s, a, c) = Then(a, WrapY(AddY(s, -1)), c)
                 /\ OutcomeAt(<<k, "newline">>, s, a, c) = wrap_curs(AddY(s, 1))
                 /\ OutcomeAt(<<k, "next">>, s, a, c) = ColumnOn(s)
  BY DEF OutcomeAt

\* Where main is decides what its register holds and which way it took.
Undisturbed ==
    /\ \A op \in {"wrap_x", "next"} : Here("store", op) => reg = x
    /\ \A op \in {"wrap_y", "scrolled", "newline"} : Here("store", op) => reg = y
    /\ Here("load", "wrap_x") \/ Here("store", "wrap_x") => x >= Width
    /\ Here("lines", "up") => y >= Height
    /\ Here("switch", "ch") => again = FALSE
    /\ Here("row", "y") \/ Here("column", "x") \/ Here("cell", "ch")
           => ch \notin {"\n", "\r"}
    /\ Here("column", "x") => reg = y * Width
    /\ Here("cell", "ch") => reg = y * Width + x

LEMMA MainUndisturbed ==
    ASSUME StoreInv, Undisturbed, Main
    PROVE  Undisturbed'
<1> USE DEF Undisturbed, Here, Goto, cursor
<1>1. ASSUME NEW c \in MainChars, PrintChar(c)
      PROVE  Undisturbed'
  BY <1>1 DEF PrintChar
<1>2. CASE TestX
  BY <1>2 DEF TestX
<1>3. CASE TestY
  BY <1>3 DEF TestY, StoreInv
<1>4. CASE Load
  <2>1. PICK op \in Ops :
            /\ pc = <<"load", op>> /\ pc' = <<"store", op>>
            /\ reg' = IF op \in {"wrap_x", "next"} THEN x ELSE y
            /\ UNCHANGED <<x, y, screen, stored, ch, again, history>>
    BY <1>4, LoadCases DEF StoreInv
  <2> QED
    BY <2>1
<1>5. CASE Store
  <2>1. pc' \in {<<"load", "wrap_y">>, <<"test", "y">>, <<"test", "x">>,
                 <<"idle", "call">>}
    BY <1>5, StoreCases DEF StoreInv
  <2> QED
    BY <2>1
<1>6. CASE LinesUp
  BY <1>6 DEF LinesUp
<1>7. CASE Switch
  BY <1>7 DEF Switch
<1>8. CASE Row
  BY <1>8 DEF Row
<1>9. CASE Column
  BY <1>9 DEF Column
<1>10. CASE Cell
  BY <1>10 DEF Cell
<1> QED
  BY <1>1, <1>2, <1>3, <1>4, <1>5, <1>6, <1>7, <1>8, <1>9, <1>10 DEF Main

\* One line of the scrolling loop.
LEMMA ScrollsOnce ==
    ASSUME NEW n \in Nat, NEW s \in Shown(n), ~(s.y < Height),
           NEW t, t = [s EXCEPT !.y = s.y - 1, !.scr = move_lines_up(s.scr)]
    PROVE  WrapY(t) = WrapY(s)
<1> DEFINE k == s.y - Height
<1>1. s.y \in Byte /\ s.scr \in Screens /\ k \in Nat /\ s.y = Height + k
      /\ s.y - (Height - 1) = k + 1
  <2>1. s.y \in Byte /\ s.scr \in Screens
    BY DEF Shown
  <2> QED
    BY <2>1, Sizes DEF Byte
<1>2. move_lines_up(s.scr) = Lines(s.scr, 1) /\ Lines(s.scr, 1) \in Screens
  BY <1>1, MovesUp, LinesType
<1>3. t \in Shown(n) /\ t.y = s.y - 1 /\ t.scr = Lines(s.scr, 1)
  <2>1. s.y - 1 \in Byte
    BY <1>1, Sizes DEF Byte
  <2> QED
    BY <1>2, <2>1 DEF Shown
<1>4. WrapY(s) = [s EXCEPT !.y = Height - 1, !.scr = Lines(s.scr, k + 1)]
  BY <1>1, WrapsY
<1>5. Lines(Lines(s.scr, 1), k) = Lines(s.scr, k + 1)
  BY <1>1, MovesMore
<1> HIDE DEF k
<1>6. CASE k = 0
  <2>1. t.y < Height /\ t.y = Height - 1
    BY <1>1, <1>3, <1>6, Sizes
  <2>2. WrapY(t) = t
    BY <1>3, <2>1, WrapsY
  <2>3. t = [s EXCEPT !.y = Height - 1, !.scr = Lines(s.scr, 1)]
    BY <1>2, <1>3, <2>1
  <2> QED
    BY <1>4, <1>6, <2>2, <2>3
<1>7. CASE k # 0
  <2>1. ~(t.y < Height) /\ t.y - (Height - 1) = k
    BY <1>1, <1>3, <1>7, Sizes
  <2>2. WrapY(t) = [t EXCEPT !.y = Height - 1, !.scr = Lines(s.scr, k + 1)]
    <3>1. WrapY(t) = [t EXCEPT !.y = Height - 1,
                               !.scr = Lines(t.scr, t.y - (Height - 1))]
      BY <1>3, <2>1, WrapsY
    <3>2. Lines(t.scr, t.y - (Height - 1)) = Lines(s.scr, k + 1)
      BY <1>3, <1>5, <2>1
    <3> QED
      BY <3>1, <3>2
  <2>3. ASSUME NEW u, u = [t EXCEPT !.y = Height - 1, !.scr = Lines(s.scr, k + 1)]
        PROVE  u = [s EXCEPT !.y = Height - 1, !.scr = Lines(s.scr, k + 1)]
    BY <1>3, <2>3 DEF Shown
  <2> QED
    BY <1>4, <2>2, <2>3, Zenon
<1> QED
  BY <1>6, <1>7
At(a, b, scr, cell) == [x |-> a, y |-> b, scr |-> scr, cell |-> cell]

LEMMA AtChanges ==
    ASSUME NEW a, NEW b, NEW scr, NEW cell
    PROVE  /\ LineOn(At(a, b, scr, cell)) = At(a - Width, (b + 1) % ByteRange, scr, cell)
           /\ \A e : AddY(At(a, b, scr, cell), e)
                        = At(a, (b + e) % ByteRange, scr, cell)
           /\ ColumnOn(At(a, b, scr, cell)) = At((a + 1) % ByteRange, b, scr, cell)
<1> DEFINE s == At(a, b, scr, cell)
<1>1. s.x = a /\ s.y = b /\ s.scr = scr /\ s.cell = cell
      /\ s = [x |-> a, y |-> b, scr |-> scr, cell |-> cell]
  BY DEF At
<1> HIDE DEF s
<1>2. ASSUME NEW t, t = LineOn(s)
      PROVE  t = At(a - Width, (b + 1) % ByteRange, scr, cell)
  BY <1>1, <1>2 DEF LineOn, At
<1>3. ASSUME NEW e, NEW t, t = AddY(s, e)
      PROVE  t = At(a, (b + e) % ByteRange, scr, cell)
  BY <1>1, <1>3 DEF AddY, At
<1>4. ASSUME NEW t, t = ColumnOn(s)
      PROVE  t = At((a + 1) % ByteRange, b, scr, cell)
  BY <1>1, <1>4 DEF ColumnOn, At
<1> QED
  BY <1>2, <1>3, <1>4, Zenon DEF s

LEMMA AtPlaces ==
    ASSUME NEW a, NEW b, NEW scr, NEW cell, NEW c
    PROVE  /\ c = "\n" => Place(At(a, b, scr, cell), c)
                              = wrap_curs(At(0, (b + 1) % ByteRange, scr, cell))
           /\ c = "\r" => Place(At(a, b, scr, cell), c) = At(0, b, scr, cell)
<1> DEFINE s == At(a, b, scr, cell)
<1>1. s.x = a /\ s.y = b /\ s.scr = scr /\ s.cell = cell
      /\ s = [x |-> a, y |-> b, scr |-> scr, cell |-> cell]
  BY DEF At
<1> HIDE DEF s
<1>2. ASSUME c = "\n"
      PROVE  Place(s, c) = wrap_curs(At(0, (b + 1) % ByteRange, scr, cell))
  <2>1. Place(s, c) = wrap_curs([s EXCEPT !.x = 0, !.y = (s.y + 1) % ByteRange])
    BY <1>2 DEF Place
  <2>2. ASSUME NEW t, t = [s EXCEPT !.x = 0, !.y = (s.y + 1) % ByteRange]
        PROVE  t = At(0, (b + 1) % ByteRange, scr, cell)
    BY <1>1, <2>2 DEF At
  <2> QED
    BY <2>1, <2>2, Zenon
<1>3. ASSUME c = "\r"
      PROVE  Place(s, c) = At(0, b, scr, cell)
  <2>1. ASSUME NEW t, t = Place(s, c)
        PROVE  t = At(0, b, scr, cell)
    BY <1>1, <1>3, <2>1 DEF Place, At
  <2> QED
    BY <2>1, Zenon
<1> QED
  BY <1>2, <1>3 DEF s

Plain(c) == c \notin {"\n", "\r"}

LEMMA AtStores ==
    ASSUME NEW a, NEW b, NEW scr, NEW cell, NEW c, Plain(c)
    PROVE  Place(At(a, b, scr, cell), c)
               = At((a + 1) % ByteRange, b,
                    Stored(scr, b * Width + a, c), b * Width + a)
<1> DEFINE s == At(a, b, scr, cell)
           k == b * Width + a
<1>1. s.x = a /\ s.y = b /\ s.scr = scr /\ s.cell = cell
      /\ s = [x |-> a, y |-> b, scr |-> scr, cell |-> cell]
  BY DEF At
<1> HIDE DEF s
<1>2. c \notin {"\n", "\r"}
  BY DEF Plain
<1>3. Place(s, c) = [s EXCEPT !.scr = Stored(s.scr, s.y * Width + s.x, c),
                              !.cell = s.y * Width + s.x,
                              !.x = (s.x + 1) % ByteRange]
  BY <1>2, Zenon DEF Place
<1>4. s.y * Width + s.x = k
  BY <1>1, Zenon
<1> HIDE DEF k
<1>5. ASSUME NEW t, t = Place(s, c)
      PROVE  t = At((a + 1) % ByteRange, b, Stored(scr, k, c), k)
  BY <1>1, <1>3, <1>4, <1>5 DEF At
<1>6. Place(s, c) = At((a + 1) % ByteRange, b, Stored(scr, k, c), k)
  BY <1>5, Zenon
<1> QED
  BY <1>6 DEF s, k

\* What main is about to do is the same after each of its accesses.
LEMMA OutcomeKept ==
    ASSUME StoreInv, Undisturbed, Main, ~(\E c \in MainChars : PrintChar(c))
    PROVE  Outcome' = Outcome
<1> DEFINE now == At(x, y, screen, stored)
           next == At(x', y', screen', stored')
<1>1. /\ Outcome = OutcomeAt(pc, now, again, ch)
      /\ Outcome' = OutcomeAt(pc', next, again', ch')
      /\ Now = now
  BY Zenon DEF Outcome, Now, At
<1>2. x \in Byte /\ y \in Byte /\ screen \in Screens /\ again \in BOOLEAN
  BY DEF StoreInv
<1>3. \A n \in Byte : n \in Nat /\ n < ByteRange
  BY Sizes DEF Byte
<1>4. /\ WrapY(now) = IF y < Height THEN now ELSE WrapY(now)
      /\ WrapX(now) = IF x < Width THEN now ELSE LineOn(now)
      /\ wrap_curs(now) = WrapY(WrapX(now))
  <2>1. now.x = x /\ now.y = y
    BY DEF At
  <2> HIDE DEF now
  <2>2. y < Height => WrapY(now) = now
    BY <2>1 DEF WrapY
  <2>3. WrapX(now) = IF now.x < Width THEN now ELSE LineOn(now)
    BY Zenon DEF WrapX, LineOn
  <2> QED
    BY <2>1, <2>2, <2>3 DEF wrap_curs
<1> DEFINE T(w) == Then(again, w, ch)
<1>5. CASE TestX
  <2>1. next = now /\ again' = again /\ ch' = ch /\ pc = <<"test", "x">>
        /\ pc' = IF x >= Width THEN <<"load", "wrap_x">> ELSE <<"test", "y">>
    BY <1>5, Zenon DEF TestX, Goto, Here, cursor
  <2> HIDE DEF now, next
  <2>2. Outcome = T(WrapY(WrapX(now)))
    BY <1>1, <1>4, <2>1, Outcomes
  <2>3. CASE x >= Width
    <3>1. WrapX(now) = LineOn(now)
      BY <1>2, <1>3, <1>4, <2>3, Sizes
    <3>2. Outcome' = T(WrapY(LineOn(now)))
      BY <1>1, <2>1, <2>3, Outcomes
    <3> QED
      BY <2>2, <3>1, <3>2
  <2>4. CASE ~(x >= Width)
    <3>1. WrapX(now) = now
      BY <1>2, <1>3, <1>4, <2>4, Sizes
    <3>2. Outcome' = T(WrapY(now))
      BY <1>1, <2>1, <2>4, Outcomes
    <3> QED
      BY <2>2, <3>1, <3>2
  <2> QED
    BY <2>3, <2>4
<1>6. CASE TestY
  <2>1. next = now /\ again' = again /\ ch' = ch /\ pc = <<"test", "y">>
        /\ pc' = IF y >= Height THEN <<"lines", "up">>
                 ELSE IF again THEN <<"idle", "call">> ELSE <<"switch", "ch">>
    BY <1>6, Zenon DEF TestY, Goto, Here, cursor
  <2> HIDE DEF now, next
  <2>2. Outcome = T(WrapY(now))
    BY <1>1, <2>1, Outcomes
  <2>3. CASE y >= Height
    BY <1>1, <2>1, <2>2, <2>3, Outcomes
  <2>4. CASE ~(y >= Height)
    <3>1. WrapY(now) = now
      BY <1>2, <1>3, <1>4, <2>4, Sizes
    <3>2. CASE again
      <4>1. pc' = <<"idle", "call">>
        BY <2>1, <2>4, <3>2
      <4>2. Outcome' = now
        BY <1>1, <2>1, <4>1, Outcomes
      <4> QED
        BY <2>2, <3>1, <3>2, <4>2 DEF Then
    <3>3. CASE ~again
      <4>1. pc' = <<"switch", "ch">>
        BY <2>1, <2>4, <3>3
      <4>2. Outcome' = Place(now, ch)
        BY <1>1, <2>1, <4>1, Outcomes
      <4> QED
        BY <2>2, <3>1, <3>3, <4>2 DEF Then
    <3> QED
      BY <3>2, <3>3
  <2> QED
    BY <2>3, <2>4
<1>7. CASE Load
  <2>1. PICK op \in Ops :
            /\ pc = <<"load", op>> /\ pc' = <<"store", op>>
            /\ UNCHANGED <<x, y, screen, stored, ch, again, history>>
    BY <1>7, LoadCases DEF StoreInv
  <2>2. next = now /\ again' = again /\ ch' = ch
    BY <2>1
  <2> HIDE DEF now, next
  <2> QED
    BY <1>1, <2>1, <2>2, Outcomes DEF Ops
<1>8. CASE Store
  <2>1. /\ screen' = screen /\ stored' = stored /\ ch' = ch
        /\ \/ /\ Here("store", "wrap_x") /\ pc' = <<"load", "wrap_y">>
              /\ x' = (reg - Width) % ByteRange /\ y' = y /\ again' = again
           \/ /\ Here("store", "wrap_y") /\ pc' = <<"test", "y">>
              /\ y' = (reg + 1) % ByteRange /\ x' = x /\ again' = again
           \/ /\ Here("store", "scrolled") /\ pc' = <<"test", "y">>
              /\ y' = (reg - 1) % ByteRange /\ x' = x /\ again' = again
           \/ /\ Here("store", "newline") /\ pc' = <<"test", "x">>
              /\ y' = (reg + 1) % ByteRange /\ again' = TRUE /\ x' = x
           \/ /\ Here("store", "next") /\ pc' = <<"idle", "call">>
              /\ x' = (reg + 1) % ByteRange /\ y' = y /\ again' = again
    BY <1>8, StoreCases DEF StoreInv
  <2>2. CASE Here("store", "wrap_x")
    <3>1. /\ pc = <<"store", "wrap_x">> /\ pc' = <<"load", "wrap_y">>
          /\ x' = (reg - Width) % ByteRange /\ y' = y /\ again' = again
      BY <2>1, <2>2 DEF Here
    <3>2. reg = x /\ x >= Width
      BY <2>2 DEF Undisturbed
    <3>3. x' = x - Width
      BY <1>2, <1>3, <3>1, <3>2, Sizes
    <3>4. Outcome = T(WrapY(LineOn(now)))
      <4> HIDE DEF now
      <4> QED
        BY <1>1, <3>1, Outcomes
    <3>5. Outcome' = T(WrapY(AddY(next, 1)))
      <4> HIDE DEF next
      <4> QED
        BY <1>1, <2>1, <3>1, Outcomes
    <3>6. LineOn(now) = At(x - Width, (y + 1) % ByteRange, screen, stored)
      BY AtChanges
    <3>7. AddY(next, 1) = At(x', (y' + 1) % ByteRange, screen', stored')
      BY AtChanges
    <3> QED
      BY <2>1, <3>1, <3>3, <3>4, <3>5, <3>6, <3>7, Zenon
  <2>3. CASE Here("store", "wrap_y")
    <3>1. /\ pc = <<"store", "wrap_y">> /\ pc' = <<"test", "y">>
          /\ y' = (reg + 1) % ByteRange /\ x' = x /\ again' = again
      BY <2>1, <2>3 DEF Here
    <3>2. reg = y
      BY <2>3 DEF Undisturbed
    <3>3. Outcome = T(WrapY(AddY(now, 1)))
      <4> HIDE DEF now
      <4> QED
        BY <1>1, <3>1, Outcomes
    <3>4. Outcome' = T(WrapY(next))
      <4> HIDE DEF next
      <4> QED
        BY <1>1, <2>1, <3>1, Outcomes
    <3>5. AddY(now, 1) = At(x, (y + 1) % ByteRange, screen, stored)
      BY AtChanges
    <3> QED
      BY <2>1, <3>1, <3>2, <3>3, <3>4, <3>5, Zenon
  <2>4. CASE Here("store", "scrolled")
    <3>1. /\ pc = <<"store", "scrolled">> /\ pc' = <<"test", "y">>
          /\ y' = (reg - 1) % ByteRange /\ x' = x /\ again' = again
      BY <2>1, <2>4 DEF Here
    <3>2. reg = y
      BY <2>4 DEF Undisturbed
    <3>3. Outcome = T(WrapY(AddY(now, -1)))
      <4> HIDE DEF now
      <4> QED
        BY <1>1, <3>1, Outcomes
    <3>4. Outcome' = T(WrapY(next))
      <4> HIDE DEF next
      <4> QED
        BY <1>1, <2>1, <3>1, Outcomes
    <3>5. AddY(now, -1) = At(x, (y + -1) % ByteRange, screen, stored)
      BY AtChanges
    <3>6. y + -1 = y - 1
      BY <1>2, <1>3
    <3> QED
      BY <2>1, <3>1, <3>2, <3>3, <3>4, <3>5, <3>6, Zenon
  <2>5. CASE Here("store", "newline")
    <3>1. /\ pc = <<"store", "newline">> /\ pc' = <<"test", "x">>
          /\ y' = (reg + 1) % ByteRange /\ x' = x /\ again' = TRUE
      BY <2>1, <2>5 DEF Here
    <3>2. reg = y
      BY <2>5 DEF Undisturbed
    <3>3. Outcome = wrap_curs(AddY(now, 1))
      <4> HIDE DEF now
      <4> QED
        BY <1>1, <3>1, Outcomes
    <3>4. Outcome' = wrap_curs(next)
      <4>1. Outcome' = Then(again', wrap_curs(next), ch')
        <5>1. pc' = <<"test", "x">>
          BY <3>1
        <5> HIDE DEF next
        <5> QED
          BY <1>1, <5>1, Outcomes
      <4> QED
        BY <3>1, <4>1, Zenon DEF Then
    <3>5. AddY(now, 1) = At(x, (y + 1) % ByteRange, screen, stored)
      BY AtChanges
    <3> QED
      BY <2>1, <3>1, <3>2, <3>3, <3>4, <3>5, Zenon
  <2>6. CASE Here("store", "next")
    <3>1. /\ pc = <<"store", "next">> /\ pc' = <<"idle", "call">>
          /\ x' = (reg + 1) % ByteRange /\ y' = y /\ again' = again
      BY <2>1, <2>6 DEF Here
    <3>2. reg = x
      BY <2>6 DEF Undisturbed
    <3>3. Outcome = ColumnOn(now)
      <4> HIDE DEF now
      <4> QED
        BY <1>1, <3>1, Outcomes
    <3>4. Outcome' = next
      <4>1. OutcomeAt(<<"idle", "call">>, next, again', ch') = next
        BY Outcomes
      <4> QED
        BY <1>1, <3>1, <4>1, Zenon
    <3>5. ColumnOn(now) = At((x + 1) % ByteRange, y, screen, stored)
      BY AtChanges
    <3> QED
      BY <2>1, <3>1, <3>2, <3>3, <3>4, <3>5, Zenon
  <2> QED
    BY <2>1, <2>2, <2>3, <2>4, <2>5, <2>6
<1>9. CASE LinesUp
  <2>1. /\ pc = <<"lines", "up">> /\ pc' = <<"load", "scrolled">>
        /\ screen' = move_lines_up(screen)
        /\ x' = x /\ y' = y /\ stored' = stored /\ ch' = ch /\ again' = again
    BY <1>9 DEF LinesUp, Goto, Here
  <2>2. y >= Height
    BY <2>1 DEF Undisturbed, Here
  <2>3. Outcome = T(WrapY(now))
    <3> HIDE DEF now
    <3> QED
      BY <1>1, <2>1, Outcomes
  <2>4. Outcome' = T(WrapY(AddY(next, -1)))
    <3> HIDE DEF next
    <3> QED
      BY <1>1, <2>1, Outcomes
  <2>5. AddY(next, -1) = At(x, y - 1, move_lines_up(screen), stored)
    <3>1. AddY(next, -1) = At(x', (y' + -1) % ByteRange, screen', stored')
      BY AtChanges
    <3>2. (y + -1) % ByteRange = y - 1
      BY <1>2, <1>3, <2>2, Sizes
    <3> QED
      BY <2>1, <3>1, <3>2, Zenon
  <2>6. now \in Shown(ByteRange - 1) /\ now.y = y /\ now.scr = screen
    BY <1>1, NowShown DEF At
  <2>7. At(x, y - 1, move_lines_up(screen), stored)
            = [now EXCEPT !.y = now.y - 1, !.scr = move_lines_up(now.scr)]
    <3>1. ASSUME NEW t, t = [now EXCEPT !.y = now.y - 1, !.scr = move_lines_up(now.scr)]
          PROVE  t = At(x, y - 1, move_lines_up(screen), stored)
      BY <2>6, <3>1 DEF At
    <3> QED
      BY <3>1, Zenon
  <2>8. ByteRange - 1 \in Nat /\ ~(now.y < Height)
    BY <1>2, <1>3, <2>2, <2>6, Sizes
  <2>9. WrapY(AddY(next, -1)) = WrapY(now)
    <3> HIDE DEF now, next
    <3> QED
      BY <2>5, <2>6, <2>7, <2>8, ScrollsOnce
  <2> QED
    BY <2>3, <2>4, <2>9
<1>10. CASE Switch
  <2>1. pc = <<"switch", "ch">>
        /\ y' = y /\ screen' = screen /\ stored' = stored /\ ch' = ch /\ again' = again
    BY <1>10 DEF Switch, Here
  <2>2. /\ ch = "\n" => x' = 0 /\ pc' = <<"load", "newline">>
        /\ ch = "\r" => x' = 0 /\ pc' = <<"idle", "call">>
        /\ ch \notin {"\n", "\r"} => x' = x /\ pc' = <<"row", "y">>
    BY <1>10 DEF Switch, Goto
  <2>3. Outcome = Place(now, ch)
    <3> HIDE DEF now
    <3> QED
      BY <1>1, <2>1, Outcomes
  <2>4. CASE ch = "\n"
    <3>1. Outcome' = wrap_curs(AddY(next, 1))
      <4> HIDE DEF next
      <4> QED
        BY <1>1, <2>1, <2>2, <2>4, Outcomes
    <3>2. AddY(next, 1) = At(x', (y' + 1) % ByteRange, screen', stored')
      BY AtChanges
    <3>3. Place(now, ch) = wrap_curs(At(0, (y + 1) % ByteRange, screen, stored))
      BY <2>4, AtPlaces
    <3>4. x' = 0
      BY <2>2, <2>4
    <3> QED
      BY <2>1, <2>3, <3>1, <3>2, <3>3, <3>4, Zenon
  <2>5. CASE ch = "\r"
    <3>1. Outcome' = next
      <4> HIDE DEF next
      <4> QED
        BY <1>1, <2>1, <2>2, <2>5, Outcomes
    <3>2. Place(now, ch) = At(0, y, screen, stored)
      BY <2>5, AtPlaces
    <3>3. x' = 0
      BY <2>2, <2>5
    <3> QED
      BY <2>1, <2>3, <3>1, <3>2, <3>3, Zenon
  <2>6. CASE ch \notin {"\n", "\r"}
    <3>1. next = now
      BY <2>1, <2>2, <2>6
    <3>2. Outcome' = Place(next, ch)
      <4> HIDE DEF next
      <4> QED
        BY <1>1, <2>1, <2>2, <2>6, Outcomes
    <3> QED
      BY <2>3, <3>1, <3>2
  <2> QED
    BY <2>4, <2>5, <2>6
<1>11. CASE Row \/ Column
  <2>1. next = now /\ again' = again /\ ch' = ch
        /\ pc \in {<<"row", "y">>, <<"column", "x">>}
        /\ pc' \in {<<"column", "x">>, <<"cell", "ch">>}
    BY <1>11 DEF Row, Column, Goto, Here, cursor
  <2>2. Outcome = Place(now, ch) /\ Outcome' = Place(next, ch)
    <3> HIDE DEF now, next
    <3> QED
      BY <1>1, <2>1, Outcomes
  <2> QED
    BY <2>1, <2>2
<1>12. CASE Cell
  <2>1. /\ pc = <<"cell", "ch">> /\ pc' = <<"load", "next">>
        /\ screen' = Stored(screen, reg, ch) /\ stored' = reg
        /\ x' = x /\ y' = y /\ ch' = ch /\ again' = again
    BY <1>12 DEF Cell, Goto, Here
  <2>2. ch \notin {"\n", "\r"} /\ reg = y * Width + x
    BY <2>1 DEF Undisturbed, Here
  <2>3. Outcome = Place(now, ch)
    <3> HIDE DEF now
    <3> QED
      BY <1>1, <2>1, Outcomes
  <2>4. Outcome' = ColumnOn(next)
    <3> HIDE DEF next
    <3> QED
      BY <1>1, <2>1, Outcomes
  <2>5. Place(now, ch) = At((x + 1) % ByteRange, y,
                            Stored(screen, y * Width + x, ch), y * Width + x)
    <3>1. Plain(ch)
      BY <2>2 DEF Plain
    <3> QED
      BY <3>1, AtStores, Zenon
  <2>6. ColumnOn(next) = At((x' + 1) % ByteRange, y', screen', stored')
    BY AtChanges
  <2> QED
    BY <2>1, <2>2, <2>3, <2>4, <2>5, <2>6, Zenon
<1> QED
  BY <1>5, <1>6, <1>7, <1>8, <1>9, <1>10, <1>11, <1>12 DEF Main

LEMMA TextInit ==
    ASSUME Init
    PROVE  Outcome \in Shown(Width) /\ Shows(SheetOf(<<>>), Outcome)
<1>1. Outcome = Now
  <2>1. pc = <<"idle", "call">>
    BY DEF Init
  <2> QED
    BY <2>1, Outcomes DEF Outcome
<1>2. /\ Now.x = 0 /\ Now.y = 0 /\ Now.scr = [a \in 0..Size - 1 |-> Blank]
      /\ Now = [x |-> 0, y |-> 0, scr |-> [a \in 0..Size - 1 |-> Blank], cell |-> 0]
  BY DEF Init, Now
<1>3. Now \in Shown(Width)
  <2>1. 0 \in 0..Width /\ 0 \in Byte /\ 0 \in 0..LastLine + ByteRange - 1
    BY Sizes DEF Byte
  <2>2. [a \in 0..Size - 1 |-> Blank] \in Screens
    BY BlankIsChar DEF Screens
  <2> QED
    BY <1>2, <2>1, <2>2 DEF Shown
<1>4. Clean.row = 0 /\ Clean.col = 0 /\ \A r, k : Laid(Clean, r, k) = Blank
  BY DEF Clean, Laid
<1>5. Top(Clean) = 0
  BY <1>4, Sizes DEF Top
<1>6. Pictured(Clean, Now.scr, 0)
  <2>1. ASSUME NEW r \in 0..Height - 1, NEW k \in 0..Width - 1
        PROVE  r * Width + k \in 0..Size - 1
    BY Cells, Sizes
  <2> QED
    BY <1>2, <1>4, <2>1 DEF Pictured
<1>7. Shows(Clean, Now)
  BY <1>2, <1>4, <1>5, <1>6 DEF Shows
<1> QED
  BY <1>1, <1>3, <1>7, NoText
\* As long as no handler prints inside main's call, what the call will have
\* printed is the sheet of the whole text.
TextInv ==
    ~disturbed =>
        /\ text \in Seq(Char) /\ Undisturbed
        /\ Outcome \in Shown(Width) /\ Shows(SheetOf(text), Outcome)

LEMMA IdleOutcome ==
    ASSUME Here("idle", "call")
    PROVE  Outcome = Now
  BY Outcomes DEF Outcome, Here

LEMMA PrintCharText ==
    ASSUME StoreInv, TextInv, NEW c \in MainChars, PrintChar(c), ~disturbed'
    PROVE  TextInv'
<1>1. /\ Here("idle", "call") /\ ~disturbed /\ text' = Append(text, c)
      /\ pc' = <<"test", "x">> /\ ch' = c /\ again' = FALSE
      /\ x' = x /\ y' = y /\ screen' = screen /\ stored' = stored
  BY Zenon DEF PrintChar, Goto, cursor
<1>2. c \in Char
  BY Zenon DEF Char, Printed
<1>3. /\ text \in Seq(Char) /\ Now \in Shown(Width) /\ Shows(SheetOf(text), Now)
  BY <1>1, IdleOutcome DEF TextInv
<1>4. Outcome' = print_char(Now, c)
  <2>1. Outcome' = OutcomeAt(pc', Now, again', ch')
    <3>1. Now' = Now
      BY <1>1 DEF Now
    <3> QED
      BY <3>1, Zenon DEF Outcome
  <2>2. Outcome' = Then(again', wrap_curs(Now), ch')
    <3>1. pc' = <<"test", "x">>
      BY <1>1
    <3> QED
      BY <2>1, <3>1, Outcomes
  <2>3. Outcome' = Place(wrap_curs(Now), c)
    BY <1>1, <2>2, Zenon DEF Then
  <2> QED
    BY <2>3, Prints
<1>5. print_char(Now, c) \in Shown(Width)
  <2>1. Width \in Width..ByteRange - 1
    BY Sizes
  <2> QED
    BY <1>2, <1>3, <2>1, PrintsChar
<1>6. /\ SheetOf(text) \in Sheets
      /\ SheetOf(text') = Put(SheetOf(text), c)
  BY <1>1, <1>2, <1>3, SheetGrows
<1>7. Shows(SheetOf(text'), print_char(Now, c))
  BY <1>2, <1>3, <1>6, ShowsPut
<1>8. text' \in Seq(Char)
  BY <1>1, <1>2, <1>3
<1>9. Undisturbed'
  <2>1. pc' = <<"test", "x">>
    BY <1>1
  <2> QED
    BY <2>1 DEF Undisturbed, Here
<1> QED
  BY <1>4, <1>5, <1>7, <1>8, <1>9 DEF TextInv

LEMMA MainKeepsText ==
    ASSUME StoreInv, TextInv, Main
    PROVE  TextInv'
<1>1. CASE disturbed'
  BY <1>1 DEF TextInv
<1>2. ASSUME NEW c \in MainChars, PrintChar(c), ~disturbed'
      PROVE  TextInv'
  BY <1>2, PrintCharText
<1>3. CASE ~disturbed' /\ ~(\E c \in MainChars : PrintChar(c))
  <2>1. text' = text /\ disturbed' = disturbed
    BY <1>3 DEF Main, TestX, TestY, Load, Store, LinesUp, Switch, Row, Column, Cell, history
  <2>2. Undisturbed
    BY <1>3, <2>1 DEF TextInv
  <2>3. Outcome' = Outcome /\ Undisturbed'
    BY <1>3, <2>2, OutcomeKept, MainUndisturbed
  <2> QED
    BY <2>1, <2>3 DEF TextInv
<1> QED
  BY <1>1, <1>2, <1>3

LEMMA InterruptKeepsText ==
    ASSUME StoreInv, TextInv, NEW str \in IrqTexts, Interrupt(str)
    PROVE  TextInv'
<1> DEFINE s == print_string(Now, str)
<1>1. /\ x' = s.x /\ y' = s.y /\ screen' = s.scr /\ stored' = s.cell
      /\ UNCHANGED <<pc, ch, reg, again>>
  BY Zenon DEF Interrupt, Now
<1>2. CASE disturbed'
  BY <1>2 DEF TextInv
<1>3. CASE ~disturbed'
  <2>1. ~disturbed /\ pc[1] = "idle" /\ text' = text \o str
    BY <1>3, Zenon DEF Interrupt
  <2>2. Here("idle", "call")
    BY <2>1 DEF StoreInv, Labels, Ops, Here
  <2>3. text \in Seq(Char) /\ Now \in Shown(Width) /\ Shows(SheetOf(text), Now)
    BY <2>1, <2>2, IdleOutcome DEF TextInv
  <2>4. str \in Seq(Char) /\ Width \in Width..ByteRange - 1
    BY TextsAreChars, Sizes
  <2>5. s \in Shown(Width)
    BY <2>3, <2>4, PrintsString
  <2>6. Shows(SheetOf(text'), s)
    BY <2>1, <2>3, <2>4, ShowsString
  <2> HIDE DEF s
  <2>7. Now' = s
    <3>1. s = [x |-> s.x, y |-> s.y, scr |-> s.scr, cell |-> s.cell]
      BY <2>5 DEF Shown
    <3>2. Now' = [x |-> x', y |-> y', scr |-> screen', cell |-> stored']
      BY DEF Now
    <3> QED
      BY <1>1, <3>1, <3>2, Zenon
  <2>8. pc' = <<"idle", "call">>
    BY <1>1, <2>2 DEF Here
  <2>9. Outcome' = s
    <3>1. Outcome' = OutcomeAt(pc', Now', again', ch')
      BY Zenon DEF Outcome
    <3>2. OutcomeAt(pc', Now', again', ch') = Now'
      BY <2>8, Outcomes
    <3> QED
      BY <2>7, <3>1, <3>2, Zenon
  <2>10. text' \in Seq(Char)
    BY <2>1, <2>3, <2>4
  <2>11. Undisturbed'
    BY <2>8 DEF Undisturbed, Here
  <2> QED
    BY <2>5, <2>6, <2>9, <2>10, <2>11 DEF TextInv
<1> QED
  BY <1>2, <1>3

\* print_char and print_string (text_mode.c:47, 63), with their wrapping and
\* scrolling, lay out everything that is printed in lines of the screen's width
\* and show the last ones, for all texts and sizes of the screen, as long as no
\* handler prints inside main's call.
THEOREM ScreenShowsText == Spec => []ShowsText
<1>1. Init => StoreInv /\ TextInv
  <2> SUFFICES ASSUME Init
               PROVE  StoreInv /\ TextInv
    OBVIOUS
  <2>1. text = <<>> /\ pc = <<"idle", "call">>
    BY DEF Init
  <2>2. Undisturbed
    BY <2>1 DEF Undisturbed, Here
  <2> QED
    BY <2>1, <2>2, StoreInit, TextInit DEF TextInv
<1>2. StoreInv /\ TextInv /\ [Next]_vars => StoreInv' /\ TextInv'
  <2> SUFFICES ASSUME StoreInv, TextInv, [Next]_vars
               PROVE  StoreInv' /\ TextInv'
    OBVIOUS
  <2>1. CASE UNCHANGED vars
    <3>1. Now' = Now /\ pc' = pc /\ again' = again /\ ch' = ch /\ reg' = reg
          /\ x' = x /\ y' = y /\ text' = text /\ disturbed' = disturbed
      BY <2>1 DEF vars, cursor, history, Now
    <3>2. Outcome' = Outcome
      BY <3>1, Zenon DEF Outcome
    <3>3. Undisturbed' = Undisturbed
      BY <3>1 DEF Undisturbed, Here
    <3> QED
      BY <3>1, <3>2, <3>3, StoreStep DEF TextInv
  <2>2. CASE Next
    BY <2>2, StoreStep, MainKeepsText, InterruptKeepsText DEF Next
  <2> QED
    BY <2>1, <2>2
<1>3. StoreInv /\ TextInv => ShowsText
  <2> SUFFICES ASSUME StoreInv, TextInv, pc[1] = "idle", ~disturbed
               PROVE  ShowsText
    BY Zenon DEF ShowsText
  <2>1. Here("idle", "call")
    BY DEF StoreInv, Labels, Ops, Here
  <2>2. Shows(SheetOf(text), Now)
    BY <2>1, IdleOutcome DEF TextInv
  <2>3. Sheet = SheetOf(text)
    BY Zenon DEF Sheet, SheetOf, Clean
  <2>4. Now.x = x /\ Now.y = y /\ Now.scr = screen
    BY DEF Now
  <2> DEFINE sheet == Sheet
             top == IF sheet.row < Height THEN 0 ELSE sheet.row - (Height - 1)
  <2>5. top = Top(sheet)
    BY DEF Top
  <2> HIDE DEF sheet
  <2>6. Shows(sheet, Now)
    BY <2>2, <2>3 DEF sheet
  <2> HIDE DEF top
  <2>7. /\ x = sheet.col /\ y = sheet.row - top
        /\ \A r \in 0..Height - 1, k \in 0..Width - 1 :
              screen[r * Width + k] = Laid(sheet, top + r, k)
    BY <2>4, <2>5, <2>6, Zenon DEF Shows, Pictured
  <2>8. /\ x = sheet.col /\ y = sheet.row - top
        /\ \A r \in 0..Height - 1, c \in 0..Width - 1 :
              screen[r * Width + c] =
                  IF <<top + r, c>> \in DOMAIN sheet.cells
                  THEN sheet.cells[<<top + r, c>>] ELSE Blank
    BY <2>7, Zenon DEF Laid
  <2> QED
    BY <2>8, Zenon DEF ShowsText, sheet, top
<1> QED
  BY <1>1, <1>2, <1>3, PTL DEF Spec
=============================================================================
