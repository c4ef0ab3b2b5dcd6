----------------------------- MODULE FoldTheorems -----------------------------
(***************************************************************************)
(* Induction and folds for the proofs, and the reducer of view.py, which is *)
(* one.  A fold of SequencesExt is a recursive function over the sets of   *)
(* positions; what a proof needs of it is the sequence of its partial      *)
(* results.                                                                *)
(***************************************************************************)
EXTENDS View, FiniteSetTheorems, SequenceTheorems, TLAPS

(* Induction over the naturals, for a set instead of a predicate.          *)
LEMMA NatSetInduction ==
    ASSUME NEW S \in SUBSET Nat, 0 \in S, \A n \in S : n + 1 \in S
    PROVE  S = Nat
<1> SUFFICES ASSUME NEW n \in Nat, n \notin S PROVE FALSE
  OBVIOUS
<1> DEFINE T == S \cap (0..n)
           f == [x \in T |-> x + 1]
<1>1. IsFiniteSet(T)
  <2>1. IsFiniteSet(0..n)
    BY FS_Interval
  <2>2. T \in SUBSET (0..n)
    OBVIOUS
  <2> HIDE DEF T
  <2> QED BY <2>1, <2>2, FS_Subset
<1>2. f \in Injection(T, T)
  <2>1. \A x \in T : x + 1 \in T
    OBVIOUS
  <2>2. \A x \in T : x \in Int
    OBVIOUS
  <2> HIDE DEF T
  <2> QED BY <2>1, <2>2 DEF Injection, IsInjective
<1>3. f \in Surjection(T, T)
  <2> HIDE DEF T, f
  <2> QED BY <1>1, <1>2, FS_Injection
<1>4. 0 \in T
  OBVIOUS
<1>5. PICK x \in T : f[x] = 0
  <2> HIDE DEF T, f
  <2> QED BY <1>3, <1>4 DEF Surjection
<1>6. f[x] = x + 1 /\ x \in Nat
  OBVIOUS
<1> QED BY <1>5, <1>6

(* The greatest of a set of positions up to k + 1 that holds k + 1.        *)
LEMMA MaxIsLast ==
    ASSUME NEW k \in Nat, NEW s \in SUBSET (1..k+1), k + 1 \in s
    PROVE  Max(s) = k + 1
<1>1. \A y \in s : y \in Int /\ k + 1 >= y
  OBVIOUS
<1>2. \E x \in s : \A y \in s : x >= y
  BY <1>1
<1>3. Max(s) \in s /\ \A y \in s : Max(s) >= y
  BY <1>2, Zenon DEF Max
<1>4. ASSUME NEW m \in s, \A y \in s : m >= y PROVE m = k + 1
  BY <1>1, <1>4
<1> QED BY <1>3, <1>4, Zenon

(* A set of positions that is not empty has a greatest one.                *)
LEMMA MaxIsIn ==
    ASSUME NEW n \in Nat, NEW s \in SUBSET (1..n), s # {}
    PROVE  Max(s) \in s /\ \A y \in s : Max(s) >= y
<1> DEFINE Has(k) == \A t \in SUBSET (1..k) : t # {} => \E x \in t : \A y \in t : x >= y
           S == {k \in Nat : Has(k)}
<1>1. 0 \in S
  <2>1. 1..0 = {}
    OBVIOUS
  <2> QED BY <2>1
<1>2. ASSUME NEW k \in S PROVE k + 1 \in S
  <2>0. k \in Nat /\ Has(k)
    OBVIOUS
  <2>1. ASSUME NEW t \in SUBSET (1..(k+1)), t # {}
        PROVE  \E x \in t : \A y \in t : x >= y
    <3>1. CASE k + 1 \in t
      BY <2>0, <3>1
    <3>2. CASE k + 1 \notin t
      <4>1. t \in SUBSET (1..k)
        BY <2>0, <3>2
      <4> QED BY <2>0, <2>1, <4>1
    <3> QED BY <3>1, <3>2
  <2> QED BY <2>0, <2>1
<1>3. Has(n)
  <2>1. S \in SUBSET Nat
    OBVIOUS
  <2>2. S = Nat
    <3> HIDE DEF S
    <3> QED BY <1>1, <1>2, <2>1, NatSetInduction
  <2> HIDE DEF Has
  <2> QED BY <2>2
<1>4. \E x \in s : \A y \in s : x >= y
  BY <1>3
<1> QED BY <1>4, Zenon DEF Max

(* A step applied at the greatest position of a set, to what it made of    *)
(* the others.                                                             *)
FoldsTo(g, n, base, step, seq) ==
    g = [s \in SUBSET (1..n) |->
            IF s = {} THEN base
            ELSE step[<<g[s \ {Max(s)}], seq[Max(s)]>>]]

(* There is such a function for every sequence, over values of one set.    *)
LEMMA FoldExists ==
    ASSUME NEW A, NEW E, NEW base \in A, NEW step \in [A \X E -> A],
           NEW seq \in Seq(E)
    PROVE  \E g \in [SUBSET (1..Len(seq)) -> A] : FoldsTo(g, Len(seq), base, step, seq)
<1> DEFINE Exists(k) == \E g \in [SUBSET (1..k) -> A] : FoldsTo(g, k, base, step, seq)
           S == {k \in Nat : k <= Len(seq) => Exists(k)}
<1>1. 0 \in S
  <2> DEFINE g == [s \in SUBSET (1..0) |-> base]
  <2>1. 1..0 = {}
    OBVIOUS
  <2>2. g \in [SUBSET (1..0) -> A]
    OBVIOUS
  <2>3. FoldsTo(g, 0, base, step, seq)
    BY <2>1 DEF FoldsTo
  <2> QED BY <2>2, <2>3
<1>2. ASSUME NEW k \in S PROVE k + 1 \in S
  <2> SUFFICES ASSUME k + 1 <= Len(seq) PROVE Exists(k + 1)
    <3> HIDE DEF Exists
    <3> QED OBVIOUS
  <2>0. k \in Nat /\ Len(seq) \in Nat
    OBVIOUS
  <2>1. PICK g \in [SUBSET (1..k) -> A] : FoldsTo(g, k, base, step, seq)
    <3>1. Exists(k)
      <4> HIDE DEF Exists
      <4> QED BY <2>0
    <3> QED BY <3>1, Zenon
  <2> DEFINE h == [s \in SUBSET (1..k+1) |->
                      IF k + 1 \in s THEN step[<<g[s \ {k + 1}], seq[k + 1]>>] ELSE g[s]]
  <2>2. \A s \in SUBSET (1..k+1) : /\ s \ {k + 1} \in SUBSET (1..k)
                                   /\ k + 1 \notin s => s \in SUBSET (1..k)
    BY <2>0
  <2>3. seq[k + 1] \in E
    BY <2>0
  <2>4. h \in [SUBSET (1..k+1) -> A]
    BY <2>2, <2>3
  <2>5. ASSUME NEW s \in SUBSET (1..k+1)
        PROVE  h[s] = IF s = {} THEN base ELSE step[<<h[s \ {Max(s)}], seq[Max(s)]>>]
    <3>1. CASE k + 1 \in s
      <4>1. Max(s) = k + 1
        BY <2>0, <3>1, MaxIsLast
      <4>2. h[s \ {k + 1}] = g[s \ {k + 1}]
        OBVIOUS
      <4> HIDE DEF h
      <4>3. h[s] = step[<<g[s \ {k + 1}], seq[k + 1]>>]
        BY <3>1 DEF h
      <4> QED BY <3>1, <4>1, <4>2, <4>3
    <3>2. CASE k + 1 \notin s
      <4>1. s \in SUBSET (1..k)
        BY <2>2, <3>2
      <4>2. h[s] = g[s]
        BY <3>2
      <4>3. h[s \ {Max(s)}] = g[s \ {Max(s)}]
        BY <3>2
      <4>4. g[s] = IF s = {} THEN base ELSE step[<<g[s \ {Max(s)}], seq[Max(s)]>>]
        BY <2>1, <4>1 DEF FoldsTo
      <4> HIDE DEF h
      <4> QED BY <4>2, <4>3, <4>4
    <3> QED BY <3>1, <3>2
  <2>6. FoldsTo(h, k + 1, base, step, seq)
    <3>1. h = [s \in SUBSET (1..k+1) |-> h[s]]
      OBVIOUS
    <3> HIDE DEF h
    <3> QED BY <2>5, <3>1 DEF FoldsTo
  <2> HIDE DEF h
  <2> QED BY <2>4, <2>6
<1> HIDE DEF Exists
<1>3. S = Nat
  <2>1. S \in SUBSET Nat
    OBVIOUS
  <2> HIDE DEF S
  <2> QED BY <1>1, <1>2, <2>1, NatSetInduction
<1>4. Exists(Len(seq))
  <2>1. Len(seq) \in Nat /\ Len(seq) <= Len(seq)
    OBVIOUS
  <2> QED BY <1>3, <2>1
<1> QED BY <1>4 DEF Exists

(* What its values are, with all that a step on them needs to know.        *)
Folded(g, n, A, E, base, step, seq) ==
    /\ g = [s \in SUBSET (1..n) |-> g[s]]
    /\ g[{}] = base
    /\ \A s \in SUBSET (1..n) : s # {} =>
          /\ g[s \ {Max(s)}] \in A /\ seq[Max(s)] \in E
          /\ g[s] = step[<<g[s \ {Max(s)}], seq[Max(s)]>>]

LEMMA FoldValues ==
    ASSUME NEW A, NEW E, NEW base \in A, NEW step \in [A \X E -> A],
           NEW n \in Nat, NEW seq \in Seq(E), Len(seq) = n
    PROVE  \E g : Folded(g, n, A, E, base, step, seq)
<1>1. PICK g \in [SUBSET (1..n) -> A] : FoldsTo(g, n, base, step, seq)
  BY FoldExists
<1>2. ASSUME NEW s \in SUBSET (1..n), s # {}
      PROVE  /\ g[s \ {Max(s)}] \in A /\ seq[Max(s)] \in E
             /\ g[s] = step[<<g[s \ {Max(s)}], seq[Max(s)]>>]
  <2>1. Max(s) \in 1..n
    BY <1>2, MaxIsIn
  <2>2. g[s] = step[<<g[s \ {Max(s)}], seq[Max(s)]>>]
    BY <1>1, <1>2 DEF FoldsTo
  <2>3. g[s \ {Max(s)}] \in A
    OBVIOUS
  <2>4. seq[Max(s)] \in E
    BY <2>1
  <2> QED BY <2>2, <2>3, <2>4
<1>3. g[{}] = base
  BY <1>1 DEF FoldsTo
<1>4. g = [s \in SUBSET (1..n) |-> g[s]]
  OBVIOUS
<1>5. Folded(g, n, A, E, base, step, seq)
  BY <1>2, <1>3, <1>4 DEF Folded
<1> QED BY <1>5

(* Of the sets 1..k: what a fold over positions takes next.                *)
LEMMA NextPosition ==
    ASSUME NEW n \in Nat, NEW k \in 0..(n - 1)
    PROVE  /\ 1..(k+1) \in SUBSET (1..n) /\ 1..(k+1) # {}
           /\ Max(1..(k+1)) = k + 1
           /\ (1..(k+1)) \ {k + 1} = 1..k
           /\ k + 1 \in 1..n
<1>1. k \in Nat /\ k + 1 \in 1..(k+1) /\ k + 1 \in 1..n
  OBVIOUS
<1>2. Max(1..(k+1)) = k + 1
  BY <1>1, MaxIsLast
<1>3. \A x \in 1..(k+1) : x \in 1..n
  OBVIOUS
<1>4. \A x : x \in (1..(k+1)) \ {k + 1} <=> x \in 1..k
  OBVIOUS
<1> QED BY <1>1, <1>2, <1>3, <1>4

(* The partial results of a fold, by how much of the sequence they took.   *)
Running(h, A, base, step, seq) ==
    /\ \A k \in 0..Len(seq) : h[k] \in A
    /\ h[0] = base
    /\ \A k \in 0..(Len(seq) - 1) : h[k + 1] = step[<<h[k], seq[k + 1]>>]

(* The last of them is the fold of the whole sequence.                     *)
FoldsInto(last, A, base, step, seq) ==
    \E h : Running(h, A, base, step, seq) /\ h[Len(seq)] = last

(* Whatever follows the step on the sets 1..k has the partial results.     *)
Steps(iter, n, A, base, step, seq) ==
    /\ iter[1..0] = base
    /\ \A k \in 0..(n - 1) : iter[1..k] \in A =>
          iter[1..(k + 1)] = step[<<iter[1..k], seq[k + 1]>>]

LEMMA FoldResult ==
    ASSUME NEW A, NEW E, NEW base \in A, NEW step \in [A \X E -> A],
           NEW n \in Nat, NEW seq \in Seq(E), Len(seq) = n,
           NEW iter, Steps(iter, n, A, base, step, seq)
    PROVE  FoldsInto(iter[1..n], A, base, step, seq)
<1> DEFINE h == [k \in 0..n |-> iter[1..k]]
           S == {k \in Nat : k <= n => iter[1..k] \in A}
<1>1. 0 \in S
  BY DEF Steps
<1>2. ASSUME NEW k \in S PROVE k + 1 \in S
  <2> SUFFICES ASSUME k + 1 <= n PROVE iter[1..(k+1)] \in A
    OBVIOUS
  <2>1. k \in 0..(n-1) /\ iter[1..k] \in A
    OBVIOUS
  <2>2. seq[k + 1] \in E
    BY <2>1
  <2>3. iter[1..(k+1)] = step[<<iter[1..k], seq[k + 1]>>]
    BY <2>1 DEF Steps
  <2> QED BY <2>1, <2>2, <2>3
<1>3. \A k \in 0..n : iter[1..k] \in A
  <2>1. S \in SUBSET Nat
    OBVIOUS
  <2>2. S = Nat
    <3> HIDE DEF S
    <3> QED BY <1>1, <1>2, <2>1, NatSetInduction
  <2> QED BY <2>2
<1>4. \A k \in 0..n : h[k] \in A
  BY <1>3
<1>5. Running(h, A, base, step, seq)
  <2>1. h[0] = base
    BY DEF Steps
  <2>2. ASSUME NEW k \in 0..(n-1) PROVE h[k + 1] = step[<<h[k], seq[k + 1]>>]
    <3>1. k \in 0..n /\ k + 1 \in 0..n
      OBVIOUS
    <3>2. h[k + 1] = iter[1..(k+1)] /\ h[k] = iter[1..k] /\ iter[1..k] \in A
      BY <1>3, <3>1
    <3> HIDE DEF h
    <3> QED BY <3>2 DEF Steps
  <2> HIDE DEF h
  <2> QED BY <1>4, <2>1, <2>2 DEF Running
<1>6. h[n] = iter[1..n]
  OBVIOUS
<1> HIDE DEF h
<1> QED BY <1>5, <1>6 DEF FoldsInto

Begins(seq, more) == Len(seq) <= Len(more) /\ \A i \in 1..Len(seq) : more[i] = seq[i]

(* They are determined by the part of the sequence they took.              *)
LEMMA RunningUnique ==
    ASSUME NEW A, NEW base, NEW step, NEW E, NEW seq \in Seq(E), NEW more \in Seq(E),
           Begins(seq, more),
           NEW h, Running(h, A, base, step, seq),
           NEW g, Running(g, A, base, step, more)
    PROVE  \A k \in 0..Len(seq) : g[k] = h[k]
<1> DEFINE Same == {k \in Nat : k <= Len(seq) => g[k] = h[k]}
<1>0. Len(seq) \in Nat /\ Len(more) \in Nat /\ Len(seq) <= Len(more)
  BY DEF Begins
<1>1. 0 \in Same
  BY DEF Running
<1>2. ASSUME NEW k \in Same PROVE k + 1 \in Same
  <2> SUFFICES ASSUME k + 1 <= Len(seq) PROVE g[k+1] = h[k+1]
    OBVIOUS
  <2>1. k \in 0..(Len(seq) - 1) /\ k \in 0..(Len(more) - 1) /\ g[k] = h[k]
    BY <1>0
  <2>2. more[k+1] = seq[k+1]
    BY <1>0, <2>1 DEF Begins
  <2> QED BY <2>1, <2>2 DEF Running
<1>3. Same = Nat
  <2>1. Same \in SUBSET Nat
    OBVIOUS
  <2> HIDE DEF Same
  <2> QED BY <1>1, <1>2, <2>1, NatSetInduction
<1> QED BY <1>0, <1>3

(* One element more is one step more.                                      *)
LEMMA FoldAppend ==
    ASSUME NEW A, NEW base, NEW step, NEW E, NEW seq \in Seq(E), NEW e \in E,
           NEW before, FoldsInto(before, A, base, step, seq),
           NEW after, FoldsInto(after, A, base, step, Append(seq, e))
    PROVE  before \in A /\ after = step[<<before, e>>]
<1> DEFINE n == Len(seq)
           more == Append(seq, e)
<1>1. /\ n \in Nat /\ more \in Seq(E) /\ Len(more) = n + 1
      /\ more[n + 1] = e /\ \A k \in 1..n : more[k] = seq[k]
  OBVIOUS
<1> HIDE DEF more
<1>2. PICK h : Running(h, A, base, step, seq) /\ h[n] = before
  BY DEF FoldsInto
<1>3. PICK g : Running(g, A, base, step, more) /\ g[Len(more)] = after
  BY DEF FoldsInto, more
<1>4. g[n] = h[n]
  <2>1. Begins(seq, more)
    BY <1>1 DEF Begins
  <2>2. \A k \in 0..Len(seq) : g[k] = h[k]
    BY <1>1, <1>2, <1>3, <2>1, RunningUnique
  <2> QED BY <1>1, <2>2
<1>5. n \in 0..(Len(more) - 1)
  BY <1>1
<1>6. g[n + 1] = step[<<g[n], more[n + 1]>>]
  BY <1>3, <1>5 DEF Running
<1>7. h[n] \in A
  BY <1>1, <1>2 DEF Running
<1> QED BY <1>1, <1>2, <1>3, <1>4, <1>6, <1>7

LEMMA FoldEmpty ==
    ASSUME NEW A, NEW base, NEW step, NEW last, FoldsInto(last, A, base, step, <<>>)
    PROVE  last = base
<1>1. Len(<<>>) = 0
  OBVIOUS
<1> QED BY <1>1 DEF FoldsInto, Running

LEMMA FoldType ==
    ASSUME NEW A, NEW base, NEW step, NEW E, NEW seq \in Seq(E),
           NEW last, FoldsInto(last, A, base, step, seq)
    PROVE  last \in A
<1>1. Len(seq) \in 0..Len(seq)
  OBVIOUS
<1> QED BY <1>1 DEF FoldsInto, Running

(* FlattenSeq, by how many of the sequences it has joined.                 *)
Joining(f, n, seqs) ==
    /\ f[1] = seqs[1]
    /\ \A k \in 1..(n - 1) : f[k + 1] = f[k] \o seqs[k + 1]

JoinsInto(last, A, n, seqs) ==
    \E f \in [1..n -> Seq(A)] : Joining(f, n, seqs) /\ last = f[n]

LEMMA FlattenRuns ==
    ASSUME NEW A, NEW n \in Nat, n > 0, NEW seqs, seqs \in [1..n -> Seq(A)]
    PROVE  JoinsInto(FlattenSeq(seqs), A, n, seqs)
<1> DEFINE Joins(f, m) == f = [i \in 1..m |-> IF i = 1 THEN seqs[i] ELSE f[i - 1] \o seqs[i]]
           Exists(m) == \E f \in [1..m -> Seq(A)] : Joins(f, m)
           S == {m \in Nat : m + 1 <= n => Exists(m + 1)}
<1>0. n \in Nat /\ n > 0
  OBVIOUS
<1>a. Len(seqs) = n
  <2>1. seqs \in Seq(Seq(A)) /\ DOMAIN seqs = 1..n
    OBVIOUS
  <2> QED BY <2>1
<1>1. 0 \in S
  <2> DEFINE f == [i \in 1..1 |-> seqs[1]]
  <2>1. f \in [1..1 -> Seq(A)]
    BY <1>0
  <2>2. Joins(f, 1)
    OBVIOUS
  <2> HIDE DEF f
  <2>3. Exists(1)
    BY <2>1, <2>2
  <2> HIDE DEF Exists
  <2> QED BY <2>3
<1>2. ASSUME NEW k \in S PROVE k + 1 \in S
  <2>0. k \in Nat
    OBVIOUS
  <2> SUFFICES ASSUME k + 2 <= n PROVE Exists(k + 2)
    <3> HIDE DEF Exists
    <3> QED BY <2>0
  <2>1. Exists(k + 1)
    <3> HIDE DEF Exists
    <3> QED BY <1>0, <2>0
  <2>2. PICK f \in [1..(k+1) -> Seq(A)] : Joins(f, k + 1)
    BY <2>1, Zenon
  <2> DEFINE g == [i \in 1..(k+2) |-> IF i = k + 2 THEN f[k+1] \o seqs[k+2] ELSE f[i]]
  <2>3. f[k+1] \in Seq(A) /\ seqs[k+2] \in Seq(A)
    BY <1>0, <2>0
  <2>4. f[k+1] \o seqs[k+2] \in Seq(A)
    BY <2>3, ConcatProperties
  <2>5. g \in [1..(k+2) -> Seq(A)]
    BY <2>0, <2>4
  <2>6. ASSUME NEW i \in 1..(k+2)
        PROVE  g[i] = IF i = 1 THEN seqs[i] ELSE g[i - 1] \o seqs[i]
    <3>1. CASE i = k + 2
      <4>2. i - 1 = k + 1 /\ i # 1 /\ i - 1 \in 1..(k+2) /\ i - 1 # k + 2
        BY <2>0, <3>1
      <4>1. g[i] = f[k+1] \o seqs[k+2] /\ g[i - 1] = f[k+1]
        <5> HIDE DEF Joins
        <5> QED BY <3>1, <4>2
      <4> HIDE DEF g
      <4> QED BY <3>1, <4>1, <4>2
    <3>2. CASE i # k + 2
      <4>1. i \in 1..(k+1)
        BY <2>0, <3>2
      <4>2. g[i] = f[i] /\ (i # 1 => g[i - 1] = f[i - 1])
        BY <2>0, <3>2
      <4>3. f[i] = IF i = 1 THEN seqs[i] ELSE f[i - 1] \o seqs[i]
        BY <2>2, <4>1
      <4> HIDE DEF g
      <4> QED BY <4>2, <4>3
    <3> QED BY <3>1, <3>2
  <2>7. Joins(g, k + 2)
    <3>1. g = [i \in 1..(k+2) |-> g[i]]
      OBVIOUS
    <3> HIDE DEF g
    <3> QED BY <2>6, <3>1
  <2> HIDE DEF g, Joins
  <2> QED BY <2>5, <2>7
<1>3. Exists(n)
  <2>1. S \in SUBSET Nat
    OBVIOUS
  <2> HIDE DEF S
  <2>2. S = Nat
    BY <1>1, <1>2, <2>1, NatSetInduction
  <2>3. n - 1 \in S
    BY <1>0, <2>2
  <2> HIDE DEF Exists
  <2> QED BY <1>0, <2>3 DEF S
<1>4. PICK f \in [1..n -> Seq(A)] : Joins(f, n)
  BY <1>3, Zenon
<1> DEFINE flatten == CHOOSE g : Joins(g, n)
<1>5. Joins(flatten, n)
  BY <1>4, Zenon
<1>6. FlattenSeq(seqs) = flatten[n]
  BY <1>0, <1>a DEF FlattenSeq
<1> HIDE DEF flatten
<1>7. flatten[1] = seqs[1] /\ \A k \in 1..(n-1) : flatten[k+1] = flatten[k] \o seqs[k+1]
  <2>1. \A i \in 1..n : flatten[i] = IF i = 1 THEN seqs[i] ELSE flatten[i - 1] \o seqs[i]
    BY <1>5
  <2>2. ASSUME NEW k \in 1..(n-1) PROVE flatten[k+1] = flatten[k] \o seqs[k+1]
    <3>1. k + 1 \in 1..n /\ k + 1 # 1 /\ (k + 1) - 1 = k
      BY <1>0
    <3> QED BY <2>1, <3>1
  <2>3. 1 \in 1..n
    BY <1>0
  <2> HIDE DEF Joins
  <2> QED BY <2>1, <2>2, <2>3
<1>8. f[1] = seqs[1] /\ \A k \in 1..(n-1) : f[k+1] = f[k] \o seqs[k+1]
  <2>1. \A i \in 1..n : f[i] = IF i = 1 THEN seqs[i] ELSE f[i - 1] \o seqs[i]
    BY <1>4
  <2>2. ASSUME NEW k \in 1..(n-1) PROVE f[k+1] = f[k] \o seqs[k+1]
    <3>1. k + 1 \in 1..n /\ k + 1 # 1 /\ (k + 1) - 1 = k
      BY <1>0
    <3> QED BY <2>1, <3>1
  <2>3. 1 \in 1..n
    BY <1>0
  <2> HIDE DEF Joins
  <2> QED BY <2>1, <2>2, <2>3
<1> DEFINE Same == {m \in Nat : m + 1 <= n => flatten[m + 1] = f[m + 1]}
<1>9. flatten[n] = f[n]
  <2>1. 0 \in Same
    BY <1>7, <1>8
  <2>2. ASSUME NEW k \in Same PROVE k + 1 \in Same
    <3> SUFFICES ASSUME k + 2 <= n PROVE flatten[k + 2] = f[k + 2]
      OBVIOUS
    <3>1. k + 1 \in 1..(n-1) /\ (k + 1) + 1 = k + 2 /\ flatten[k + 1] = f[k + 1]
      BY <1>0
    <3> QED BY <1>7, <1>8, <3>1
  <2>3. Same \in SUBSET Nat
    OBVIOUS
  <2>4. Same = Nat
    <3> HIDE DEF Same
    <3> QED BY <2>1, <2>2, <2>3, NatSetInduction
  <2>5. n - 1 \in Same
    <3> HIDE DEF Same
    <3> QED BY <1>0, <2>4
  <2> QED BY <1>0, <2>5
<1>10. Joining(f, n, seqs)
  BY <1>8 DEF Joining
<1> HIDE DEF Joins
<1> QED BY <1>6, <1>9, <1>10 DEF JoinsInto

LEMMA FlattenOne ==
    ASSUME NEW A, NEW seqs, seqs \in [1..1 -> Seq(A)]
    PROVE  FlattenSeq(seqs) = seqs[1]
<1>1. PICK n : n = 1
  OBVIOUS
<1>2. n \in Nat /\ n > 0 /\ seqs \in [1..n -> Seq(A)]
  BY <1>1
<1>3. JoinsInto(FlattenSeq(seqs), A, n, seqs)
  BY <1>2, FlattenRuns
<1> QED BY <1>1, <1>3 DEF JoinsInto, Joining

(* Sequences of four are joined without a gap.                             *)
Fours(seqs, A, n) == seqs \in [1..n -> Seq(A)] /\ \A i \in 1..n : Len(seqs[i]) = 4

FourByFour(u, A, n, seqs) ==
    /\ u \in Seq(A) /\ Len(u) = 4 * n
    /\ \A i \in 1..n : \A j \in 1..4 : u[4 * (i - 1) + j] = seqs[i][j]

LEMMA FlattenFours ==
    ASSUME NEW A, NEW n \in Nat, NEW seqs, Fours(seqs, A, n)
    PROVE  FourByFour(FlattenSeq(seqs), A, n, seqs)
<1> seqs \in [1..n -> Seq(A)] /\ \A i \in 1..n : Len(seqs[i]) = 4
  BY DEF Fours
<1> SUFFICES ASSUME NEW u, u = FlattenSeq(seqs) PROVE FourByFour(u, A, n, seqs)
  OBVIOUS
<1>0. n \in Nat
  OBVIOUS
<1>1. CASE n = 0
  <2>1. seqs = <<>>
    <3>1. seqs \in Seq(Seq(A)) /\ DOMAIN seqs = 1..0 /\ 1..0 = {}
      BY <1>1
    <3> QED BY <3>1
  <2>2. u = <<>>
    BY <2>1 DEF FlattenSeq
  <2>3. u \in Seq(A) /\ Len(u) = 4 * n
    BY <1>1, <2>2
  <2> QED BY <1>1, <2>3 DEF FourByFour
<1>2. CASE n > 0
  <2>1. PICK f \in [1..n -> Seq(A)] : Joining(f, n, seqs) /\ u = f[n]
    <3>1. JoinsInto(FlattenSeq(seqs), A, n, seqs)
      BY <1>2, FlattenRuns
    <3> QED BY <3>1 DEF JoinsInto
  <2> DEFINE Joined(m) == /\ Len(f[m]) = 4 * m
                          /\ \A i \in 1..m : \A j \in 1..4 : f[m][4 * (i - 1) + j] = seqs[i][j]
             S == {m \in Nat : m + 1 <= n => Joined(m + 1)}
  <2>2. 0 \in S
    BY <1>0, <1>2, <2>1 DEF Joining
  <2>3. ASSUME NEW k \in S PROVE k + 1 \in S
    <3>0. k \in Nat
      OBVIOUS
    <3> SUFFICES ASSUME k + 2 <= n PROVE Joined(k + 2)
      <4> HIDE DEF Joined
      <4> QED BY <3>0
    <3>1. Joined(k + 1)
      <4> HIDE DEF Joined
      <4> QED BY <1>0, <3>0
    <3>2. k + 1 \in 1..(n-1) /\ (k + 1) + 1 = k + 2 /\ k + 1 \in 1..n /\ k + 2 \in 1..n
      BY <1>0, <3>0
    <3>3. f[k+1] \in Seq(A) /\ seqs[k+2] \in Seq(A) /\ Len(seqs[k+2]) = 4
      BY <3>2
    <3>4. f[k+2] = f[k+1] \o seqs[k+2]
      BY <2>1, <3>2 DEF Joining
    <3>5. /\ Len(f[k+2]) = 4 * (k + 2)
          /\ \A x \in 1..(4 * (k + 2)) :
                f[k+2][x] = IF x <= 4 * (k + 1) THEN f[k+1][x] ELSE seqs[k+2][x - 4 * (k + 1)]
      <4>1. /\ Len(f[k+1] \o seqs[k+2]) = Len(f[k+1]) + Len(seqs[k+2])
            /\ \A x \in 1..(Len(f[k+1]) + Len(seqs[k+2])) :
                  (f[k+1] \o seqs[k+2])[x] = IF x <= Len(f[k+1]) THEN f[k+1][x]
                                             ELSE seqs[k+2][x - Len(f[k+1])]
        BY <3>3, ConcatProperties
      <4>2. Len(f[k+1]) = 4 * (k + 1) /\ Len(f[k+1]) + Len(seqs[k+2]) = 4 * (k + 2)
        BY <3>0, <3>1, <3>3
      <4> QED BY <3>4, <4>1, <4>2
    <3>6. ASSUME NEW i \in 1..(k+2), NEW j \in 1..4
          PROVE  f[k+2][4 * (i - 1) + j] = seqs[i][j]
      <4>0. 4 * (i - 1) + j \in 1..(4 * (k + 2))
        BY <3>0
      <4>1. CASE i = k + 2
        <5>1. (4 * (i - 1) + j) - 4 * (k + 1) = j /\ ~(4 * (i - 1) + j <= 4 * (k + 1))
          BY <3>0, <4>1
        <5> QED BY <3>5, <4>0, <4>1, <5>1
      <4>2. CASE i # k + 2
        <5>1. i \in 1..(k+1) /\ 4 * (i - 1) + j <= 4 * (k + 1)
          BY <3>0, <4>2
        <5> QED BY <3>1, <3>5, <4>0, <5>1
      <4> QED BY <4>1, <4>2
    <3> QED BY <3>5, <3>6
  <2>4. S \in SUBSET Nat
    OBVIOUS
  <2>5. Joined(n)
    <3> HIDE DEF S
    <3>1. S = Nat
      BY <2>2, <2>3, <2>4, NatSetInduction
    <3>2. n - 1 \in S
      BY <1>0, <1>2, <3>1
    <3> HIDE DEF Joined
    <3> QED BY <1>0, <1>2, <3>2 DEF S
  <2>6. f[n] \in Seq(A)
    BY <1>0, <1>2
  <2>7. /\ Len(u) = 4 * n
        /\ \A i \in 1..n : \A j \in 1..4 : u[4 * (i - 1) + j] = seqs[i][j]
    BY <2>1, <2>5
  <2>8. u \in Seq(A)
    BY <2>1, <2>6
  <2> QED BY <2>7, <2>8 DEF FourByFour
<1> QED BY <1>0, <1>1, <1>2

-----------------------------------------------------------------------------
\* u is s followed by t; their lengths are a and b.
Glued(u, A, s, a, t, b) ==
    /\ u \in Seq(A) /\ Len(u) = a + b
    /\ \A i \in 1..a : u[i] = s[i]
    /\ \A i \in 1..b : u[a + i] = t[i]

LEMMA Concatenated ==
    ASSUME NEW A, NEW a, NEW s \in Seq(A), Len(s) = a, NEW b, NEW t \in Seq(A), Len(t) = b
    PROVE  Glued(s \o t, A, s, a, t, b)
<1>1. /\ s \o t \in Seq(A)
      /\ Len(s \o t) = Len(s) + Len(t)
      /\ \A i \in 1..Len(s) + Len(t) : (s \o t)[i] = IF i <= Len(s) THEN s[i] ELSE t[i - Len(s)]
  BY ConcatProperties
<1>2. a \in Nat /\ b \in Nat
  OBVIOUS
<1>3. ASSUME NEW i \in 1..b PROVE (s \o t)[a + i] = t[i]
  <2>1. a + i \in 1..Len(s) + Len(t) /\ ~(a + i <= Len(s)) /\ (a + i) - Len(s) = i
    BY <1>2
  <2> QED BY <1>1, <2>1
<1>4. ASSUME NEW i \in 1..a PROVE (s \o t)[i] = s[i]
  <2>1. i \in 1..Len(s) + Len(t) /\ i <= Len(s)
    BY <1>2
  <2> QED BY <1>1, <2>1
<1> QED BY <1>1, <1>3, <1>4 DEF Glued

-----------------------------------------------------------------------------
(* The view reducer: what it makes of the rows of a log, run by run.       *)

\* What a call or an error names.
Labels == {None, "tool", "<brain>"}

(* The values of the view reducer, for runs with ids of a set R.           *)
RunView == [openTool : Labels, thinking : Seq(Nat), prey : Nat, errors : Nat,
            turns : Nat, spent : Nat]

RowTypes == {"tool_call", "tool_result", "error", "prey_captured", "thinking_delta", "usage"}

\* A row, with its seq or without.
LogRow(R) == [id : Nat, seq : Nat, run : R, type : RowTypes, tool : Labels, cost : Nat]
             \cup [id : Nat, run : R, type : RowTypes, tool : Labels, cost : Nat]

RunsBy(R) == UNION {[d -> RunView] : d \in SUBSET R}

Projection(R) == [highWater : Nat, runs : RunsBy(R), pen : Seq(Nat)]

\* The run of a row before it, as Apply reads it.
RunIn(runs, r) == IF r \in DOMAIN runs THEN runs[r] ELSE NewRun

LEMMA RunsAre ==
    ASSUME NEW R, NEW runs
    PROVE  runs \in RunsBy(R) <=> /\ DOMAIN runs \subseteq R
                                  /\ runs \in [DOMAIN runs -> RunView]
<1>1. ASSUME runs \in RunsBy(R) PROVE DOMAIN runs \subseteq R /\ runs \in [DOMAIN runs -> RunView]
  <2>1. PICK d \in SUBSET R : runs \in [d -> RunView]
    BY <1>1 DEF RunsBy
  <2> QED BY <2>1
<1>2. ASSUME DOMAIN runs \subseteq R, runs \in [DOMAIN runs -> RunView] PROVE runs \in RunsBy(R)
  <2>1. PICK d \in SUBSET R : d = DOMAIN runs
    BY <1>2
  <2>2. runs \in [d -> RunView]
    BY <1>2, <2>1
  <2> QED BY <2>2 DEF RunsBy
<1> QED BY <1>1, <1>2

LEMMA AccumulatorType == ASSUME NEW R PROVE Accumulator \in Projection(R)
<1>1. PICK runs : runs = <<>>
  OBVIOUS
<1>2. DOMAIN runs = {} /\ runs \in [DOMAIN runs -> RunView]
  BY <1>1
<1>3. runs \in RunsBy(R)
  BY <1>2, RunsAre
<1>4. <<>> \in Seq(Nat)
  OBVIOUS
<1> QED BY <1>1, <1>3, <1>4 DEF Accumulator, Projection

LEMMA NewRunType == NewRun \in RunView
BY DEF NewRun, RunView, Labels

LEMMA AppliedType ==
    ASSUME NEW R, NEW run \in RunView, NEW row \in LogRow(R)
    PROVE  Applied(run, row) \in RunView
<1>1. /\ run.openTool \in Labels /\ run.thinking \in Seq(Nat) /\ run.prey \in Nat
      /\ run.errors \in Nat /\ run.turns \in Nat /\ run.spent \in Nat
      /\ row.id \in Nat /\ row.tool \in Labels /\ row.cost \in Nat
      /\ row.type \in {"tool_call", "tool_result", "error", "prey_captured", "thinking_delta",
                       "usage"}
  BY DEF RunView, LogRow, RowTypes
<1>2. Append(run.thinking, row.id) \in Seq(Nat)
  BY <1>1
<1>3. run.turns + 1 \in Nat /\ run.errors + 1 \in Nat /\ run.prey + 1 \in Nat
      /\ run.spent + row.cost \in Nat
  <2>1. \A m, n \in Nat : m + 1 \in Nat /\ m + n \in Nat
    OBVIOUS
  <2>2. /\ run.prey \in Nat /\ run.errors \in Nat /\ run.turns \in Nat
        /\ run.spent \in Nat /\ row.cost \in Nat
    BY <1>1
  <2> QED BY ONLY <2>1, <2>2
<1>n. None \in Labels
  BY DEF Labels
<1>4. CASE row.type = "tool_call"
  BY <1>1, <1>3, <1>4 DEF Applied, AppliedIf, RunView
<1>5. CASE row.type = "tool_result"
  BY <1>1, <1>n, <1>5 DEF Applied, AppliedIf, RunView
<1>6. CASE row.type = "error"
  BY <1>1, <1>3, <1>n, <1>6 DEF Applied, AppliedIf, RunView
<1>7. CASE row.type = "prey_captured"
  BY <1>1, <1>3, <1>7 DEF Applied, AppliedIf, RunView
<1>8. CASE row.type = "thinking_delta"
  BY <1>1, <1>2, <1>8 DEF Applied, AppliedIf, RunView
<1>9. CASE row.type = "usage"
  BY <1>1, <1>3, <1>9 DEF Applied, AppliedIf, RunView
<1> QED BY <1>1, <1>4, <1>5, <1>6, <1>7, <1>8, <1>9

(* What a row past the high-water mark does.                               *)
Moved(new, acc, row) ==
    /\ new.highWater = row.id
    /\ DOMAIN new.runs = DOMAIN acc.runs \cup {row.run}
    /\ new.runs[row.run] = Applied(RunIn(acc.runs, row.run), row)
    /\ \A r \in DOMAIN acc.runs : r # row.run => new.runs[r] = acc.runs[r]
    /\ new.runs = [r \in DOMAIN new.runs |-> new.runs[r]]
    /\ new.pen = IF row.type = "prey_captured" THEN Append(acc.pen, row.id) ELSE acc.pen

LEMMA StepIs ==
    ASSUME NEW R, NEW acc \in Projection(R), NEW row \in LogRow(R)
    PROVE  /\ row.id <= acc.highWater => Step(acc, row) = acc
           /\ row.id > acc.highWater => Moved(Step(acc, row), acc, row)
           /\ Step(acc, row) \in Projection(R)
<1>1. /\ acc.highWater \in Nat /\ acc.runs \in RunsBy(R) /\ acc.pen \in Seq(Nat)
      /\ acc = [highWater |-> acc.highWater, runs |-> acc.runs, pen |-> acc.pen]
      /\ row.id \in Nat /\ row.run \in R
  BY DEF Projection, LogRow
<1>2. CASE row.id <= acc.highWater
  <2>1. Step(acc, row) = acc
    BY <1>2 DEF Step, StepPast
  <2> QED BY <1>1, <1>2, <2>1
<1>3. CASE row.id > acc.highWater
  <2>1. PICK runs : runs = [r \in DOMAIN acc.runs \cup {row.run} |->
                               IF r = row.run THEN Applied(RunIn(acc.runs, r), row)
                               ELSE RunIn(acc.runs, r)]
    OBVIOUS
  <2>2. PICK pen : pen = IF row.type = "prey_captured" THEN Append(acc.pen, row.id) ELSE acc.pen
    OBVIOUS
  <2>3. Step(acc, row) = [highWater |-> row.id, runs |-> runs, pen |-> pen]
    <3>1. ~(row.id <= acc.highWater)
      BY <1>1, <1>3
    <3>2. Step(acc, row) = [Apply(acc, row) EXCEPT !.highWater = row.id]
      BY <3>1 DEF Step, StepPast
    <3>3. Apply(acc, row) = [acc EXCEPT !.runs = runs, !.pen = pen]
      BY <2>1, <2>2 DEF Apply, RunIn
    <3> QED BY <1>1, <3>2, <3>3
  <2>4. /\ DOMAIN runs = DOMAIN acc.runs \cup {row.run}
        /\ runs[row.run] = Applied(RunIn(acc.runs, row.run), row)
        /\ \A r \in DOMAIN acc.runs : r # row.run => runs[r] = acc.runs[r]
        /\ runs = [r \in DOMAIN runs |-> runs[r]]
    BY <2>1 DEF RunIn
  <2>5. DOMAIN acc.runs \subseteq R /\ acc.runs \in [DOMAIN acc.runs -> RunView]
    BY <1>1, RunsAre
  <2>6. RunIn(acc.runs, row.run) \in RunView
    BY <2>5, NewRunType DEF RunIn
  <2>7. \A r \in DOMAIN runs : runs[r] \in RunView
    BY <2>4, <2>5, <2>6, AppliedType
  <2>8. DOMAIN runs \subseteq R
    BY <1>1, <2>4, <2>5
  <2>9. runs \in [DOMAIN runs -> RunView]
    BY <2>4, <2>7
  <2>10. runs \in RunsBy(R)
    BY <2>8, <2>9, RunsAre
  <2>11. pen \in Seq(Nat)
    BY <1>1, <2>2
  <2>12. Step(acc, row) \in Projection(R)
    BY <1>1, <2>3, <2>10, <2>11 DEF Projection
  <2>13. Moved(Step(acc, row), acc, row)
    BY <2>2, <2>3, <2>4 DEF Moved
  <2>14. ~(row.id <= acc.highWater)
    BY <1>1, <1>3
  <2> QED BY <2>12, <2>13, <2>14
<1> QED BY <1>1, <1>2, <1>3

RowStep(R) == [p \in Projection(R) \X LogRow(R) |-> Step(p[1], p[2])]

LEMMA StepIsRowStep ==
    ASSUME NEW R
    PROVE  /\ RowStep(R) \in [Projection(R) \X LogRow(R) -> Projection(R)]
           /\ \A before \in Projection(R), e \in LogRow(R) :
                 RowStep(R)[<<before, e>>] = Step(before, e)
BY StepIs DEF RowStep

LEMMA ViewRuns ==
    ASSUME NEW R, NEW acc \in Projection(R), NEW l \in Seq(LogRow(R))
    PROVE  FoldsInto(FoldFrom(acc, l), Projection(R), acc, RowStep(R), l)
<1> DEFINE Folds(g) == g = [s \in SUBSET DOMAIN l |->
                               IF s = {} THEN acc ELSE Step(g[s \ {Max(s)}], l[Max(s)])]
<1>0. PICK n \in Nat : Len(l) = n /\ DOMAIN l = 1..n /\ \A i \in 1..n : l[i] \in LogRow(R)
  OBVIOUS
<1>1. \E g : Folds(g)
  <2>1. PICK g : Folded(g, n, Projection(R), LogRow(R), acc, RowStep(R), l)
    BY <1>0, StepIsRowStep, FoldValues
  <2>2. ASSUME NEW s \in SUBSET (1..n)
        PROVE  g[s] = IF s = {} THEN acc ELSE Step(g[s \ {Max(s)}], l[Max(s)])
    <3>1. CASE s = {}
      BY <2>1, <3>1 DEF Folded
    <3>2. CASE s # {}
      <4>1. /\ g[s \ {Max(s)}] \in Projection(R) /\ l[Max(s)] \in LogRow(R)
            /\ g[s] = RowStep(R)[<<g[s \ {Max(s)}], l[Max(s)]>>]
        BY <2>1, <3>2 DEF Folded
      <4> QED BY <3>2, <4>1, StepIsRowStep
    <3> QED BY <3>1, <3>2
  <2>3. Folds(g)
    BY <1>0, <2>1, <2>2 DEF Folded
  <2> QED BY <2>3
<1> DEFINE iter == CHOOSE g : Folds(g)
<1>2. Folds(iter)
  BY <1>1, Zenon
<1>3. FoldFrom(acc, l) = iter[DOMAIN l]
  BY DEF FoldFrom, FoldLeft, MapThenFoldSet
<1> HIDE DEF iter
<1>4. iter[1..0] = acc
  BY <1>0, <1>2
<1>5. \A s \in SUBSET (1..n) : s # {} => iter[s] = Step(iter[s \ {Max(s)}], l[Max(s)])
  BY <1>0, <1>2
<1> HIDE DEF Folds
<1>6. ASSUME NEW k \in 0..(n-1), iter[1..k] \in Projection(R)
      PROVE  iter[1..(k+1)] = RowStep(R)[<<iter[1..k], l[k + 1]>>]
  <2>1. iter[1..(k+1)] = Step(iter[1..k], l[k+1])
    <3>1. /\ 1..(k+1) \in SUBSET (1..n) /\ 1..(k+1) # {}
          /\ Max(1..(k+1)) = k + 1 /\ (1..(k+1)) \ {k + 1} = 1..k
      BY <1>0, NextPosition
    <3> QED BY <1>5, <3>1
  <2>2. l[k+1] \in LogRow(R)
    BY <1>0
  <2> QED BY <1>6, <2>1, <2>2, StepIsRowStep
<1>7. Steps(iter, n, Projection(R), acc, RowStep(R), l)
  BY <1>4, <1>6 DEF Steps
<1>8. FoldsInto(iter[1..n], Projection(R), acc, RowStep(R), l)
  BY <1>0, <1>7, StepIsRowStep, FoldResult
<1> QED BY <1>0, <1>3, <1>8

(* One more row folds by one more step.                                    *)
LEMMA FoldAppends ==
    ASSUME NEW R, NEW l \in Seq(LogRow(R)), NEW row \in LogRow(R)
    PROVE  Fold(l) \in Projection(R) /\ Fold(Append(l, row)) = Step(Fold(l), row)
<1>1. Append(l, row) \in Seq(LogRow(R)) /\ Accumulator \in Projection(R)
  BY AccumulatorType
<1>2. /\ FoldsInto(Fold(l), Projection(R), Accumulator, RowStep(R), l)
      /\ FoldsInto(Fold(Append(l, row)), Projection(R), Accumulator, RowStep(R), Append(l, row))
  BY <1>1, ViewRuns DEF Fold
<1>3. Fold(l) \in Projection(R) /\ Fold(Append(l, row)) = RowStep(R)[<<Fold(l), row>>]
  BY <1>2, FoldAppend
<1> QED BY <1>3, StepIsRowStep

LEMMA FoldOfNone == Fold(<<>>) = Accumulator
<1>1. PICK R : R = {}
  OBVIOUS
<1>2. <<>> \in Seq(LogRow(R)) /\ Accumulator \in Projection(R)
  BY AccumulatorType
<1> QED BY <1>2, ViewRuns, FoldEmpty DEF Fold

(* A log in the order of its ids, as the log is read.                      *)
IdsRise(rows) ==
    /\ \A i \in 1..Len(rows) : rows[i].id > 0
    /\ \A i, j \in 1..Len(rows) : i < j => rows[i].id < rows[j].id

WaterAt(rows, k) == IF k = 0 THEN 0 ELSE rows[k].id

(* The high-water mark is the id of the last row folded.                   *)
LEMMA WaterIsLast ==
    ASSUME NEW R, NEW rows \in Seq(LogRow(R)), IdsRise(rows),
           NEW h, Running(h, Projection(R), Accumulator, RowStep(R), rows)
    PROVE  \A k \in 0..Len(rows) : h[k] \in Projection(R) /\ h[k].highWater = WaterAt(rows, k)
<1> DEFINE S == {k \in Nat : k <= Len(rows) => h[k].highWater = WaterAt(rows, k)}
<1>0. PICK n \in Nat : n = Len(rows)
  OBVIOUS
<1>1. 0 \in S
  BY DEF Running, Accumulator, WaterAt
<1>2. ASSUME NEW k \in S PROVE k + 1 \in S
  <2> SUFFICES ASSUME k + 1 <= Len(rows) PROVE h[k + 1].highWater = WaterAt(rows, k + 1)
    OBVIOUS
  <2>1. k \in 0..n /\ k \in 0..(n - 1) /\ h[k].highWater = WaterAt(rows, k) /\ k + 1 \in 1..n
    BY <1>0
  <2>2. PICK acc \in Projection(R) : acc = h[k]
    BY <1>0, <2>1 DEF Running
  <2>3. PICK row \in LogRow(R) : row = rows[k + 1] /\ row.id = WaterAt(rows, k + 1)
    BY <1>0, <2>1 DEF WaterAt
  <2>4. h[k + 1] = Step(acc, row)
    <3>1. h[k + 1] = RowStep(R)[<<acc, row>>]
      BY <1>0, <2>1, <2>2, <2>3 DEF Running
    <3> QED BY <3>1, StepIsRowStep
  <2>5. row.id > acc.highWater
    <3>1. CASE k = 0
      BY <1>0, <2>1, <2>2, <2>3, <3>1 DEF IdsRise, WaterAt
    <3>2. CASE k # 0
      <4>1. k \in 1..n /\ k + 1 \in 1..n /\ k < k + 1
        BY <2>1, <3>2
      <4>2. rows[k].id < rows[k + 1].id /\ rows[k] \in LogRow(R)
        BY <1>0, <4>1 DEF IdsRise
      <4>3. rows[k].id \in Nat /\ row.id \in Nat
        BY <4>2 DEF LogRow
      <4> QED BY <2>1, <2>2, <2>3, <3>2, <4>2, <4>3 DEF WaterAt
    <3> QED BY <3>1, <3>2
  <2>6. Moved(Step(acc, row), acc, row)
    BY <2>5, StepIs
  <2> QED BY <2>3, <2>4, <2>6 DEF Moved
<1>3. S = Nat
  <2>1. S \in SUBSET Nat
    OBVIOUS
  <2> HIDE DEF S
  <2> QED BY <1>1, <1>2, <2>1, NatSetInduction
<1>4. \A k \in 0..Len(rows) : h[k] \in Projection(R)
  BY DEF Running
<1> QED BY <1>0, <1>3, <1>4

\* The partial results of a fold over a log that is sent to a
\* viewer who has already folded m of its rows.
LEMMA SentAgain ==
    ASSUME NEW R, NEW rows \in Seq(LogRow(R)), IdsRise(rows), NEW m \in 0..Len(rows),
           NEW h, Running(h, Projection(R), Accumulator, RowStep(R), rows),
           NEW g, Running(g, Projection(R), h[m], RowStep(R), rows)
    PROVE  \A k \in 0..Len(rows) : g[k] = IF k <= m THEN h[m] ELSE h[k]
<1> DEFINE S == {k \in Nat : k <= Len(rows) => g[k] = IF k <= m THEN h[m] ELSE h[k]}
<1>0. PICK n \in Nat : n = Len(rows) /\ m \in 0..n
  OBVIOUS
<1>1. 0 \in S
  BY DEF Running
<1>2. ASSUME NEW k \in S PROVE k + 1 \in S
  <2> SUFFICES ASSUME k + 1 <= Len(rows)
               PROVE  g[k + 1] = IF k + 1 <= m THEN h[m] ELSE h[k + 1]
    OBVIOUS
  <2>1. /\ k \in 0..(Len(rows) - 1) /\ k \in 0..Len(rows) /\ k + 1 \in 1..n
        /\ g[k] = IF k <= m THEN h[m] ELSE h[k]
    BY <1>0
  <2>2. PICK row \in LogRow(R) : row = rows[k + 1]
    BY <1>0, <2>1
  <2>3. /\ g[k + 1] = RowStep(R)[<<g[k], row>>]
        /\ h[k + 1] = RowStep(R)[<<h[k], row>>]
    BY <2>1, <2>2 DEF Running
  <2>4. CASE k + 1 <= m
    <3>1. PICK acc \in Projection(R) : acc = h[m] /\ acc.highWater = WaterAt(rows, m)
      BY WaterIsLast
    <3>2. g[k] = acc
      BY <1>0, <2>1, <2>4, <3>1
    <3>3. g[k + 1] = Step(acc, row)
      BY <2>3, <3>2, StepIsRowStep
    <3>4. row.id <= acc.highWater
      <4>1. m \in 1..n /\ m # 0 /\ rows[m] \in LogRow(R)
        BY <1>0, <2>1, <2>4
      <4>2. acc.highWater = rows[m].id /\ rows[m].id \in Nat /\ row.id \in Nat
        BY <3>1, <4>1 DEF WaterAt, LogRow
      <4>3. k + 1 = m \/ k + 1 < m
        BY <1>0, <2>1, <2>4
      <4>4. k + 1 = m \/ rows[k + 1].id < rows[m].id
        BY <1>0, <2>1, <4>1, <4>3 DEF IdsRise
      <4> QED BY <2>2, <4>2, <4>4
    <3> QED BY <2>4, <3>1, <3>3, <3>4, StepIs
  <2>5. CASE ~(k + 1 <= m)
    <3>1. g[k] = h[k]
      <4>1. k = m \/ ~(k <= m)
        BY <1>0, <2>1, <2>5
      <4> QED BY <2>1, <4>1
    <3> QED BY <2>3, <2>5, <3>1
  <2> QED BY <2>4, <2>5
<1>3. S = Nat
  <2>1. S \in SUBSET Nat
    OBVIOUS
  <2> HIDE DEF S
  <2> QED BY <1>1, <1>2, <2>1, NatSetInduction
<1> QED BY <1>0, <1>3

(* view.step's law, for any log in the order of its ids: a viewer who has  *)
(* folded it up to m and is sent all of it again has the fold of the whole *)
(* log, whatever runs and events it holds.                                 *)
THEOREM ReplayIdempotent ==
    ASSUME NEW R, NEW rows \in Seq(LogRow(R)), IdsRise(rows), NEW m \in 0..Len(rows)
    PROVE  FoldFrom(Fold(SubSeq(rows, 1, m)), rows) = Fold(rows)
<1>0. PICK n \in Nat : n = Len(rows) /\ m \in 0..n /\ m \in Nat
  OBVIOUS
<1>1. PICK part \in Seq(LogRow(R)) : /\ part = SubSeq(rows, 1, m) /\ Len(part) = m
                                         /\ \A i \in 1..m : part[i] = rows[i]
  <2>1. \A i \in 1..m : rows[i] \in LogRow(R)
    BY <1>0
  <2>2. /\ SubSeq(rows, 1, m) \in Seq(LogRow(R))
        /\ Len(SubSeq(rows, 1, m)) = IF 1 <= m THEN m - 1 + 1 ELSE 0
        /\ \A i \in 1..(m - 1 + 1) : SubSeq(rows, 1, m)[i] = rows[1 + i - 1]
    BY <1>0, <2>1, SubSeqProperties
  <2>3. PICK part : part = SubSeq(rows, 1, m)
    OBVIOUS
  <2>4. Len(part) = m
    BY <1>0, <2>2, <2>3
  <2>5. ASSUME NEW i \in 1..m PROVE part[i] = rows[i]
    <3>1. i \in 1..(m - 1 + 1) /\ 1 + i - 1 = i
      BY <1>0
    <3> QED BY <2>2, <2>3, <3>1
  <2> QED BY <2>2, <2>3, <2>4, <2>5
<1>2. Accumulator \in Projection(R)
  BY AccumulatorType
<1>3. /\ FoldsInto(Fold(rows), Projection(R), Accumulator, RowStep(R), rows)
      /\ FoldsInto(Fold(part), Projection(R), Accumulator, RowStep(R), part)
  BY <1>2, ViewRuns DEF Fold
<1>4. PICK h : /\ Running(h, Projection(R), Accumulator, RowStep(R), rows)
               /\ h[n] = Fold(rows)
  BY <1>0, <1>3 DEF FoldsInto
<1>5. PICK f : /\ Running(f, Projection(R), Accumulator, RowStep(R), part)
               /\ f[m] = Fold(part)
  BY <1>1, <1>3 DEF FoldsInto
<1>6. Fold(part) = h[m]
  <2>1. Begins(part, rows)
    BY <1>0, <1>1 DEF Begins
  <2>2. \A k \in 0..Len(part) : h[k] = f[k]
    BY <1>4, <1>5, <2>1, RunningUnique
  <2> QED BY <1>0, <1>1, <1>5, <2>2
<1>7. h[m] \in Projection(R)
  BY <1>4 DEF Running
<1>8. FoldsInto(FoldFrom(h[m], rows), Projection(R), h[m], RowStep(R), rows)
  BY <1>7, ViewRuns
<1>9. PICK g : /\ Running(g, Projection(R), h[m], RowStep(R), rows)
               /\ g[n] = FoldFrom(h[m], rows)
  BY <1>0, <1>8 DEF FoldsInto
<1>10. \A k \in 0..Len(rows) : g[k] = IF k <= m THEN h[m] ELSE h[k]
  BY <1>4, <1>9, SentAgain
<1>11. g[n] = h[n]
  <2>1. g[n] = IF n <= m THEN h[m] ELSE h[n]
    BY <1>0, <1>10
  <2>2. n <= m => n = m
    BY <1>0
  <2> QED BY <2>1, <2>2
<1> QED BY <1>1, <1>4, <1>6, <1>9, <1>11
=============================================================================
