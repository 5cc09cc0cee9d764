---------------------------- MODULE Warnings_proofs ----------------------------
(***************************************************************************)
(* The store, the toasts and the settings page of MCWarnings, for any data *)
(* links, levels, cap, size of the stack and file found at the start.      *)
(*                                                                         *)
(* The recursive functions of the models (the replay of a batch, the       *)
(* filter of the toasts) are CHOOSEn by their equation: RecursionExists    *)
(* shows that there is such a function, and UpTo is the induction over its *)
(* argument, stated of a set instead of a predicate and proved from the    *)
(* least counterexample.                                                   *)
(*                                                                         *)
(* The store (StoreInv): what is shown and open follows the levels of the  *)
(* evaluator, ids name one entry each and none is above the counter, and   *)
(* before the mount nothing has happened.  KeepInv orders the versions of  *)
(* the history: the file is kept by the snapshot of a failed save and by   *)
(* the one being sent, and both by the history.                            *)
(* The toasts (ToastInv): the two lists account for each other, and the    *)
(* toasts on the screen fit the levels and the stack.                      *)
(* The page (PageInv): FrozenHasWayOut is not inductive, for a failed      *)
(* re-read leaves a row a retry only if it is known how to resume it.      *)
(* WayOut says when it is: a suspended data link whose resolution is not   *)
(* known has a write in the queue, whose answer makes it known or ends the *)
(* suspension.  Told says who will tell the evaluator of a change: a       *)
(* re-read in the queue, or the timer that makes one.                      *)
(***************************************************************************)
EXTENDS MCWarnings, SequenceTheorems, FiniteSetTheorems, WellFoundedInduction, TLAPS

------------------------------------------------------------------------------
(* Induction up to a bound, and functions defined by it. *)

(* A set of naturals below a bound has a least element.                     *)
LEMMA LeastExists ==
  ASSUME NEW n \in Nat, NEW H \in SUBSET (0..n), H # {}
  PROVE  \E i \in H : \A j \in H : i <= j
<1> DEFINE T == {0..i : i \in H}
<1>1. IsFiniteSet(0..n)
  BY FS_Interval
<1>2. T \subseteq FiniteSubsetsOf(0..n) /\ T # {}
  <2>1. \A i \in H : 0..i \subseteq 0..n
    OBVIOUS
  <2>2. FiniteSubsetsOf(0..n) = SUBSET (0..n)
    BY <1>1, FS_FiniteSubsetsOfFinite
  <2>3. PICK h \in H : TRUE
    OBVIOUS
  <2>4. (0..h) \in T
    OBVIOUS
  <2>5. T \subseteq SUBSET (0..n)
    BY <2>1
  <2> QED BY <2>2, <2>4, <2>5
<1>3. \E x \in T : \A y \in T : ~(<<y, x>> \in StrictSubsetOrdering(0..n))
  <2> HIDE DEF T
  <2> QED BY <1>2, FS_StrictSubsetOrderingWellFounded, WFMin
<1>4. PICK i \in H : \A j \in H : ~(<<0..j, 0..i>> \in StrictSubsetOrdering(0..n))
  BY <1>3
<1>5. ASSUME NEW j \in H, j < i PROVE FALSE
  <2>1. (0..j) \subseteq (0..i) /\ i \in 0..i /\ i \notin 0..j
    BY <1>5
  <2>2. (0..j) \in SUBSET (0..n) /\ (0..i) \in SUBSET (0..n)
    OBVIOUS
  <2>3. <<0..j, 0..i>> \in StrictSubsetOrdering(0..n)
    <3> DEFINE a == 0..j  b == 0..i  N == 0..n
    <3>1. a \in SUBSET N /\ b \in SUBSET N /\ a \subseteq b /\ a # b
      BY <2>1, <2>2
    <3> HIDE DEF a, b, N
    <3>2. <<a, b>> \in StrictSubsetOrdering(N)
      BY <3>1 DEF StrictSubsetOrdering
    <3> QED BY <3>2 DEF a, b, N
  <2> QED BY <1>4, <2>3
<1> QED BY <1>5

(* Induction up to a bound, over a set instead of a predicate. *)
LEMMA UpTo ==
  ASSUME NEW N \in Nat, NEW P, 0 \in P, \A n \in 1..N : n - 1 \in P => n \in P
  PROVE  \A n \in 0..N : n \in P
<1> DEFINE H == {n \in 0..N : n \notin P}
<1> SUFFICES ASSUME H # {} PROVE FALSE
  OBVIOUS
<1>1. PICK n \in H : \A m \in H : n <= m
  <2>1. H \in SUBSET (0..N)
    OBVIOUS
  <2> HIDE DEF H
  <2> QED BY <2>1, LeastExists
<1>2. n \in 1..N /\ n - 1 \in 0..N /\ ~(n <= n - 1)
  OBVIOUS
<1>3. n - 1 \in P
  BY <1>1, <1>2
<1> QED BY <1>2, <1>3

(* R is defined by recursion up to N: from a, by the steps g. *)
Steps(N, S) == [(1..N) \X S -> S]
Recursion(R, N, S, a, g) ==
  R \in [0..N -> S] /\ R[0] = a /\ \A n \in 1..N : R[n] = g[<<n, R[n - 1]>>]

(* A function that is defined by recursion exists; its steps are a function. *)
LEMMA RecursionExists ==
  ASSUME NEW N \in Nat, NEW S, NEW a \in S, NEW g \in Steps(N, S)
  PROVE  \E R : Recursion(R, N, S, a, g)
<1> USE DEF Steps
<1> DEFINE Good(n, R) == R[0] = a /\ \A k \in 1..n : R[k] = g[<<k, R[k - 1]>>]
           P == {n \in 0..N : \E R \in [0..n -> S] : Good(n, R)}
<1>1. 0 \in P
  <2>1. [k \in 0..0 |-> a] \in [0..0 -> S] /\ Good(0, [k \in 0..0 |-> a])
    OBVIOUS
  <2>2. 0 \in 0..N
    OBVIOUS
  <2> HIDE DEF Good
  <2> QED BY <2>1, <2>2
<1>2. ASSUME NEW n \in 1..N, n - 1 \in P PROVE n \in P
  <2>1. PICK R \in [0..(n - 1) -> S] : Good(n - 1, R)
    BY <1>2
  <2> DEFINE Q == [k \in 0..n |-> IF k = n THEN g[<<n, R[n - 1]>>] ELSE R[k]]
  <2>2. /\ n - 1 \in 0..(n - 1) /\ n \in Nat /\ n # 0
        /\ \A k \in 0..n : k # n => k \in 0..(n - 1)
        /\ \A k \in 1..n : k \in 0..n /\ k - 1 \in 0..(n - 1) /\ k - 1 \in 0..n /\ k - 1 # n
        /\ \A k \in 1..n : k # n => k \in 1..(n - 1)
        /\ 0 \in 0..n
    OBVIOUS
  <2>3. Q \in [0..n -> S]
    <3>1. g[<<n, R[n - 1]>>] \in S
      BY <2>1, <2>2
    <3> QED BY <2>1, <2>2, <3>1
  <2>4. Good(n, Q)
    <3>1. Q[0] = a
      BY <2>1, <2>2
    <3>2. ASSUME NEW k \in 1..n PROVE Q[k] = g[<<k, Q[k - 1]>>]
      <4>1. Q[k - 1] = R[k - 1]
        BY <2>2
      <4>2. CASE k = n
        BY <2>2, <4>1, <4>2
      <4>3. CASE k # n
        BY <2>1, <2>2, <4>1, <4>3
      <4> QED BY <4>2, <4>3
    <3> QED BY <3>1, <3>2
  <2>5. n \in 0..N
    OBVIOUS
  <2> HIDE DEF Q, Good
  <2> QED BY <2>3, <2>4, <2>5
<1>3. N \in P
  <2> HIDE DEF P
  <2>1. \A n \in 0..N : n \in P
    BY <1>1, <1>2, UpTo
  <2> QED BY <2>1
<1> QED BY <1>3 DEF Recursion

------------------------------------------------------------------------------
(* Sequences: what is kept, appended or taken, as sets. *)

(* k is what is kept of the first n of ts: f says where each comes from. *)
Picks(k, f, ts, n, S) ==
  /\ f \in [1..Len(k) -> 1..n]
  /\ \A i \in 1..Len(k) : k[i] = ts[f[i]] /\ ts[f[i]] \in S
  /\ \A i, j \in 1..Len(k) : f[i] = f[j] => i = j
  /\ \A m \in 1..n : ts[m] \in S => \E i \in 1..Len(k) : f[i] = m

(* Nothing is kept of no element. *)
LEMMA PicksNone ==
  ASSUME NEW ts, NEW S
  PROVE  \E f : Picks(<<>>, f, ts, 0, S)
<1>1. Picks(<<>>, [i \in 1..0 |-> 0], ts, 0, S)
  BY DEF Picks
<1> QED BY <1>1

(* One more element is looked at. *)
LEMMA PicksMore ==
  ASSUME NEW T, NEW ts \in Seq(T), NEW S, NEW n \in 1..Len(ts), NEW k \in Seq(T),
         NEW f, Picks(k, f, ts, n - 1, S)
  PROVE  /\ ts[n] \notin S => \E g : Picks(k, g, ts, n, S)
         /\ ts[n] \in S => Append(k, ts[n]) \in Seq(T) /\ \E g : Picks(Append(k, ts[n]), g, ts, n, S)
<1>1. /\ Len(ts) \in Nat /\ n \in Nat /\ Len(k) \in Nat /\ ts[n] \in T
      /\ \A m \in 1..n : m = n \/ m \in 1..(n - 1)
      /\ \A m \in 1..(n - 1) : m \in 1..n /\ m # n
  BY LenProperties, ElementOfSeq
<1>2. CASE ts[n] \notin S
  <2>1. Picks(k, f, ts, n, S)
    BY <1>1, <1>2 DEF Picks
  <2> QED BY <1>2, <2>1
<1>3. CASE ts[n] \in S
  <2> DEFINE K == Append(k, ts[n])
             g == [i \in 1..Len(K) |-> IF i = Len(K) THEN n ELSE f[i]]
  <2>1. /\ K \in Seq(T) /\ Len(K) = Len(k) + 1 /\ K[Len(k) + 1] = ts[n]
        /\ \A i \in 1..Len(k) : K[i] = k[i]
    BY <1>1, AppendProperties
  <2>2. /\ \A i \in 1..Len(K) : i = Len(K) \/ i \in 1..Len(k)
        /\ \A i \in 1..Len(k) : i \in 1..Len(K) /\ i # Len(K)
        /\ Len(K) \in 1..Len(K)
    BY <1>1, <2>1
  <2> HIDE DEF K
  <2>3. /\ g[Len(K)] = n /\ \A i \in 1..Len(k) : g[i] = f[i] /\ f[i] \in 1..(n - 1)
        /\ g \in [1..Len(K) -> 1..n]
    <3>1. \A i \in 1..Len(k) : f[i] \in 1..(n - 1)
      BY DEF Picks
    <3> QED BY <1>1, <2>2, <3>1
  <2> HIDE DEF g
  <2>4. \A i \in 1..Len(K) : K[i] = ts[g[i]] /\ ts[g[i]] \in S
    BY <1>3, <2>1, <2>2, <2>3 DEF Picks
  <2>5. ASSUME NEW i \in 1..Len(K), NEW j \in 1..Len(K), g[i] = g[j] PROVE i = j
    <3>1. CASE i = Len(K) /\ j = Len(K)
      BY <3>1
    <3>2. CASE i = Len(K) /\ j # Len(K)
      BY <1>1, <2>2, <2>3, <2>5, <3>2
    <3>3. CASE i # Len(K) /\ j = Len(K)
      BY <1>1, <2>2, <2>3, <2>5, <3>3
    <3>4. CASE i # Len(K) /\ j # Len(K)
      BY <2>2, <2>3, <2>5, <3>4 DEF Picks
    <3> QED BY <3>1, <3>2, <3>3, <3>4
  <2>6. ASSUME NEW m \in 1..n, ts[m] \in S PROVE \E i \in 1..Len(K) : g[i] = m
    <3>1. CASE m = n
      BY <2>2, <2>3, <3>1
    <3>2. CASE m # n
      <4>1. PICK i \in 1..Len(k) : f[i] = m
        BY <1>1, <2>6, <3>2 DEF Picks
      <4> QED BY <2>2, <2>3, <4>1
    <3> QED BY <3>1, <3>2
  <2>7. Picks(K, g, ts, n, S)
    BY <2>3, <2>4, <2>5, <2>6 DEF Picks
  <2> QED BY <1>3, <2>1, <2>7 DEF K
<1> QED BY <1>2, <1>3

(* Kept picks the elements of a list that are in a set, each once. *)
LEMMA KeptPicks ==
  ASSUME NEW T, NEW ts \in Seq(T), NEW S
  PROVE  Kept(ts, S) \in Seq(T) /\ \E f : Picks(Kept(ts, S), f, ts, Len(ts), S)
<1> DEFINE N == Len(ts)
           g == [x \in (1..N) \X Seq(T) |-> IF ts[x[1]] \in S THEN Append(x[2], ts[x[1]]) ELSE x[2]]
           st == Seq(T)
           empty == <<>>
<1>0. N \in Nat
  BY LenProperties
<1>1. N \in Nat /\ empty \in st
  BY <1>0, EmptySeq
<1>2. g \in Steps(N, st)
  <2>1. ASSUME NEW n \in 1..N, NEW k \in Seq(T) PROVE Append(k, ts[n]) \in Seq(T)
    BY AppendProperties, ElementOfSeq
  <2>2. \A x \in (1..N) \X Seq(T) : x[1] \in 1..N /\ x[2] \in Seq(T)
    OBVIOUS
  <2> QED BY <2>1, <2>2 DEF Steps
<1>3. \E R : Recursion(R, N, st, empty, g)
  <2> HIDE DEF g, N, st, empty
  <2> QED BY <1>1, <1>2, RecursionExists
<1>4. PICK R : Recursion(R, N, st, empty, g)
  BY <1>3
<1> DEFINE F(r) == [n \in 0..Len(ts) |->
                      IF n = 0 THEN <<>>
                      ELSE IF ts[n] \in S THEN Append(r[n - 1], ts[n]) ELSE r[n - 1]]
<1>5. R = F(R)
  <2>1. \A n \in 1..N : n - 1 \in 0..N /\ n \in 0..N /\ n # 0
    BY <1>1
  <2>2. \A n \in 1..N : R[n] = IF ts[n] \in S THEN Append(R[n - 1], ts[n]) ELSE R[n - 1]
    BY <1>4, <2>1 DEF Recursion
  <2>3. \A n \in 0..N : n = 0 \/ n \in 1..N
    BY <1>1
  <2>4. R \in [0..N -> Seq(T)] /\ R[0] = <<>>
    BY <1>4 DEF Recursion
  <2> QED BY <2>2, <2>3, <2>4
<1> DEFINE K == KeptTo(ts, S)
<1>6. K = F(K)
  <2>1. K = CHOOSE r : r = F(r)
    BY DEF KeptTo
  <2> HIDE DEF F, K
  <2> QED BY <1>5, <2>1
<1>7. K[0] = <<>> /\ \A n \in 1..N : K[n] = IF ts[n] \in S THEN Append(K[n - 1], ts[n]) ELSE K[n - 1]
  <2>1. 0 \in 0..N /\ \A n \in 1..N : n \in 0..N /\ n # 0
    BY <1>1
  <2> HIDE DEF K
  <2> QED BY <1>6, <2>1
<1> HIDE DEF K
<1> DEFINE P == {n \in 0..N : K[n] \in Seq(T) /\ \E f : Picks(K[n], f, ts, n, S)}
<1>8. \A n \in 0..N : n \in P
  <2>1. 0 \in P
    <3>1. 0 \in 0..N /\ K[0] = <<>> /\ <<>> \in Seq(T)
      BY <1>1, <1>7, EmptySeq
    <3>2. \E f : Picks(K[0], f, ts, 0, S)
      BY <3>1, PicksNone
    <3> QED BY <3>1, <3>2
  <2>2. ASSUME NEW n \in 1..N, n - 1 \in P PROVE n \in P
    <3>1. K[n - 1] \in Seq(T) /\ n \in 0..N /\ n \in 1..Len(ts)
      BY <1>1, <2>2
    <3>2. PICK f : Picks(K[n - 1], f, ts, n - 1, S)
      BY <2>2
    <3>3. K[n] \in Seq(T) /\ \E h : Picks(K[n], h, ts, n, S)
      <4>1. CASE ts[n] \in S
        <5>1. K[n] = Append(K[n - 1], ts[n])
          BY <1>7, <4>1
        <5>2. /\ Append(K[n - 1], ts[n]) \in Seq(T)
              /\ \E h : Picks(Append(K[n - 1], ts[n]), h, ts, n, S)
          BY <3>1, <3>2, <4>1, PicksMore
        <5> QED BY <5>1, <5>2
      <4>2. CASE ts[n] \notin S
        BY <1>7, <3>1, <3>2, <4>2, PicksMore
      <4> QED BY <4>1, <4>2
    <3> QED BY <3>1, <3>3
  <2> HIDE DEF P, N, g, st, empty, F
  <2> QED BY <1>0, <2>1, <2>2, UpTo
<1>9. N \in 0..N /\ Kept(ts, S) = K[N]
  BY <1>1 DEF Kept, K
<1> QED BY <1>8, <1>9

Distinct(s) == \A i, j \in DOMAIN s : s[i].id = s[j].id => i = j

(* What is kept of a list: its members in S, and still with distinct ids. *)
LEMMA KeptIs ==
  ASSUME NEW T, NEW ts \in Seq(T), NEW S
  PROVE  /\ Kept(ts, S) \in Seq(T)
         /\ ToSet(Kept(ts, S)) = ToSet(ts) \cap S
         /\ Distinct(ts) => Distinct(Kept(ts, S))
<1> DEFINE k == Kept(ts, S)
           N == Len(ts)
<1>1. k \in Seq(T) /\ \E f : Picks(k, f, ts, N, S)
  BY KeptPicks
<1> HIDE DEF k
<1>2. PICK f : Picks(k, f, ts, N, S)
  BY <1>1
<1>3. DOMAIN k = 1..Len(k) /\ DOMAIN ts = 1..N
  BY <1>1, LenProperties
<1> HIDE DEF N
<1>4. ToSet(k) = ToSet(ts) \cap S
  <2>1. ASSUME NEW i \in 1..Len(k) PROVE k[i] \in ToSet(ts) /\ k[i] \in S
    BY <1>2, <1>3, <2>1 DEF Picks, ToSet
  <2>2. ASSUME NEW m \in 1..N, ts[m] \in S PROVE ts[m] \in ToSet(k)
    BY <1>2, <1>3, <2>2 DEF Picks, ToSet
  <2> QED BY <1>3, <2>1, <2>2 DEF ToSet
<1>5. ASSUME Distinct(ts) PROVE Distinct(k)
  BY <1>2, <1>3, <1>5 DEF Picks, Distinct
<1> QED BY <1>1, <1>4, <1>5 DEF k

(* A list with distinct ids is as long as it has ids. *)
LEMMA Counted ==
  ASSUME NEW T, NEW ts \in Seq(T)
  PROVE  /\ IsFiniteSet(ToastIds(ts)) /\ Cardinality(ToastIds(ts)) \in Nat
         /\ Cardinality(ToastIds(ts)) <= Len(ts)
         /\ Distinct(ts) => Cardinality(ToastIds(ts)) = Len(ts)
<1> DEFINE D == 1..Len(ts)
           f == [i \in D |-> ts[i].id]
           I == ToastIds(ts)
<1>1. Len(ts) \in Nat /\ DOMAIN ts = D
  BY LenProperties
<1>2. f \in [D -> I] /\ \A x \in I : \E i \in D : f[i] = x
  BY <1>1 DEF ToastIds
<1>3. f \in Surjection(D, I)
  BY <1>2 DEF Surjection
<1>4. IsFiniteSet(D) /\ Cardinality(D) = Len(ts)
  <2>1. 1 \in Int /\ Len(ts) \in Int /\ (IF 1 > Len(ts) THEN 0 ELSE Len(ts) - 1 + 1) = Len(ts)
    BY <1>1
  <2> QED BY <2>1, FS_Interval
<1>5. Distinct(ts) => f \in Injection(D, I)
  BY <1>1, <1>2 DEF Distinct, Injection, IsInjective
<1> HIDE DEF D, f, I
<1>6. IsFiniteSet(I) /\ Cardinality(I) <= Cardinality(D) /\ (Cardinality(I) = Cardinality(D) <=> f \in Injection(D, I))
  BY <1>3, <1>4, FS_Surjection
<1>7. Cardinality(I) \in Nat
  BY <1>6, FS_CardinalityType
<1> QED BY <1>4, <1>5, <1>6, <1>7 DEF I

(* An element is appended, or the first one taken. *)
LEMMA AppendIs ==
  ASSUME NEW T, NEW s \in Seq(T), NEW x \in T
  PROVE  /\ Append(s, x) \in Seq(T)
         /\ ToSet(Append(s, x)) = ToSet(s) \cup {x}
         /\ Distinct(s) /\ x.id \notin ToastIds(s) => Distinct(Append(s, x))
<1> DEFINE a == Append(s, x)
<1>1. /\ a \in Seq(T) /\ Len(s) \in Nat /\ DOMAIN s = 1..Len(s) /\ DOMAIN a = 1..(Len(s) + 1)
      /\ a[Len(s) + 1] = x /\ \A i \in 1..Len(s) : a[i] = s[i]
  BY AppendProperties, LenProperties
<1> HIDE DEF a
<1>2. /\ \A i \in 1..(Len(s) + 1) : i = Len(s) + 1 \/ i \in 1..Len(s)
      /\ \A i \in 1..Len(s) : i \in 1..(Len(s) + 1)
      /\ Len(s) + 1 \in 1..(Len(s) + 1)
  BY <1>1
<1>3. ToSet(a) = ToSet(s) \cup {x}
  BY <1>1, <1>2 DEF ToSet
<1>4. ASSUME Distinct(s), x.id \notin ToastIds(s) PROVE Distinct(a)
  <2>1. \A i \in 1..Len(s) : s[i].id # x.id
    BY <1>1, <1>4 DEF ToastIds
  <2> QED BY <1>1, <1>2, <1>4, <2>1 DEF Distinct
<1> QED BY <1>1, <1>3, <1>4 DEF a

(* The first element and the rest. *)
LEMMA TailIs ==
  ASSUME NEW T, NEW s \in Seq(T), s # <<>>
  PROVE  /\ Head(s) \in T /\ Head(s) \in ToSet(s) /\ Tail(s) \in Seq(T)
         /\ ToSet(Tail(s)) \subseteq ToSet(s)
         /\ \A x \in ToSet(s) : x = Head(s) \/ x \in ToSet(Tail(s))
         /\ Distinct(s) => Distinct(Tail(s)) /\ \A x \in ToSet(Tail(s)) : x.id # Head(s).id
<1> DEFINE t == Tail(s)
           h == Head(s)
<1>1. /\ t \in Seq(T) /\ h \in T /\ h = s[1] /\ Len(s) \in Nat /\ Len(s) # 0 /\ DOMAIN s = 1..Len(s)
      /\ DOMAIN t = 1..(Len(s) - 1) /\ \A i \in 1..(Len(s) - 1) : t[i] = s[i + 1]
  BY HeadTailProperties, EmptySeq, LenProperties
<1> HIDE DEF t, h
<1>2. /\ \A i \in 1..Len(s) : i = 1 \/ (i - 1 \in 1..(Len(s) - 1) /\ t[i - 1] = s[i])
      /\ \A i \in 1..(Len(s) - 1) : i + 1 \in 1..Len(s) /\ i + 1 # 1
      /\ 1 \in 1..Len(s)
  BY <1>1
<1>3. h \in ToSet(s) /\ ToSet(t) \subseteq ToSet(s)
  <2>1. h \in ToSet(s)
    BY <1>1, <1>2 DEF ToSet
  <2>2. ASSUME NEW i \in DOMAIN t PROVE t[i] \in ToSet(s)
    <3>1. i + 1 \in DOMAIN s /\ t[i] = s[i + 1]
      BY <1>1, <1>2
    <3> QED BY <3>1 DEF ToSet
  <2> QED BY <2>1, <2>2 DEF ToSet
<1>4. \A x \in ToSet(s) : x = h \/ x \in ToSet(t)
  <2>1. ASSUME NEW i \in 1..Len(s) PROVE s[i] = h \/ s[i] \in ToSet(t)
    <3>1. CASE i = 1
      BY <1>1, <3>1
    <3>2. CASE i # 1
      <4>1. i - 1 \in DOMAIN t /\ t[i - 1] = s[i]
        BY <1>1, <1>2, <3>2
      <4> QED BY <4>1 DEF ToSet
    <3> QED BY <3>1, <3>2
  <2> QED BY <1>1, <2>1 DEF ToSet
<1>5. ASSUME Distinct(s) PROVE Distinct(t) /\ \A x \in ToSet(t) : x.id # h.id
  <2>1. ASSUME NEW i \in 1..(Len(s) - 1), NEW j \in 1..(Len(s) - 1), t[i].id = t[j].id PROVE i = j
    <3>1. i + 1 \in DOMAIN s /\ j + 1 \in DOMAIN s /\ s[i + 1].id = s[j + 1].id
      BY <1>1, <1>2, <2>1
    <3>2. i + 1 = j + 1
      BY <1>5, <3>1 DEF Distinct
    <3> QED BY <3>2
  <2>2. \A i \in 1..(Len(s) - 1) : t[i].id # h.id
    BY <1>1, <1>2, <1>5 DEF Distinct
  <2> QED BY <1>1, <2>1, <2>2 DEF Distinct, ToSet
<1> QED BY <1>1, <1>3, <1>4, <1>5 DEF t, h

(* A list and its set. *)
LEMMA SetOf ==
  ASSUME NEW T, NEW s \in Seq(T)
  PROVE  /\ ToSet(s) \subseteq T
         /\ ToastIds(s) = {x.id : x \in ToSet(s)}
         /\ Distinct(s) => \A x, y \in ToSet(s) : x.id = y.id => x = y
         /\ s = <<>> <=> ToSet(s) = {}
<1>1. Len(s) \in Nat /\ DOMAIN s = 1..Len(s) /\ \A i \in 1..Len(s) : s[i] \in T
  BY LenProperties, ElementOfSeq
<1>2. s # <<>> => 1 \in 1..Len(s)
  BY <1>1, EmptySeq
<1>3. s = <<>> => 1..Len(s) = {}
  BY EmptySeq
<1>4. s = <<>> <=> ToSet(s) = {}
  BY <1>1, <1>2, <1>3 DEF ToSet
<1>5. ToSet(s) \subseteq T /\ ToastIds(s) = {x.id : x \in ToSet(s)}
  BY <1>1 DEF ToSet, ToastIds
<1>6. Distinct(s) => \A x, y \in ToSet(s) : x.id = y.id => x = y
  BY DEF ToSet, Distinct
<1> QED BY <1>4, <1>5, <1>6

(* Elements replaced in place by ones of the same id. *)
LEMMA ReplacedIs ==
  ASSUME NEW T, NEW s \in Seq(T), NEW g, g \in [DOMAIN s -> T], \A i \in DOMAIN s : g[i].id = s[i].id
  PROVE  /\ g \in Seq(T)
         /\ ToSet(g) = {g[i] : i \in DOMAIN s}
         /\ Distinct(s) => Distinct(g)
<1>1. Len(s) \in Nat /\ DOMAIN s = 1..Len(s) /\ DOMAIN g = DOMAIN s
  BY LenProperties
<1>2. g \in Seq(T)
  BY <1>1, IsASeq
<1> QED BY <1>1, <1>2 DEF ToSet, Distinct

------------------------------------------------------------------------------
(* WarningSource. *)

LevelsOrNone == Levels \cup {None}
Map == [Datalinks -> LevelsOrNone]

Updated(map, d, level) == [map EXCEPT ![d] = level]

(* Replaying events whose levels are levels, or None, gives a map again. *)
LEMMA ReplayIsMap ==
  ASSUME NEW map \in Map, NEW N \in Nat, NEW events,
         Len(events) = N, \A n \in 1..N : events[n].level \in LevelsOrNone
  PROVE  /\ Replay(map, events) \in Map
         /\ N = 0 => Replay(map, events) = map
         /\ N = 1 => Replay(map, events) = Updated(map, events[1].link, events[1].level)
<1> DEFINE g == [x \in (1..N) \X Map |-> [x[2] EXCEPT ![events[x[1]].link] = events[x[1]].level]]
<1>1. g \in Steps(N, Map)
  <2>1. ASSUME NEW n \in 1..N, NEW m \in Map, NEW d
        PROVE  [m EXCEPT ![d] = events[n].level] \in Map
    BY DEF Map
  <2>2. \A x \in (1..N) \X Map : x[1] \in 1..N /\ x[2] \in Map
    OBVIOUS
  <2> QED BY <2>1, <2>2 DEF Steps
<1>2. \E R : Recursion(R, N, Map, map, g)
  <2> HIDE DEF g
  <2> QED BY <1>1, RecursionExists
<1>3. PICK R : Recursion(R, N, Map, map, g)
  BY <1>2
<1> DEFINE F(r) == [n \in 0..Len(events) |->
                      IF n = 0 THEN map
                      ELSE [r[n - 1] EXCEPT ![events[n].link] = events[n].level]]
<1>4. R = F(R)
  <2>1. \A n \in 1..N : n - 1 \in 0..N /\ n \in 0..N /\ n # 0
    OBVIOUS
  <2>2. \A n \in 1..N : R[n] = [R[n - 1] EXCEPT ![events[n].link] = events[n].level]
    BY <1>3, <2>1 DEF Recursion
  <2>3. \A n \in 0..N : n = 0 \/ n \in 1..N
    OBVIOUS
  <2> QED BY <1>3, <2>2, <2>3 DEF Recursion
<1> DEFINE K == ReplayTo(map, events)
<1>5. K = F(K)
  <2>1. K = CHOOSE r : r = F(r)
    BY DEF ReplayTo
  <2> HIDE DEF F, K
  <2> QED BY <1>4, <2>1
<1>6. K[0] = map /\ \A n \in 1..N : K[n] = [K[n - 1] EXCEPT ![events[n].link] = events[n].level]
  <2>1. \A n \in 1..N : n \in 0..N /\ n # 0
    OBVIOUS
  <2>2. 0 \in 0..N
    OBVIOUS
  <2> HIDE DEF K
  <2> QED BY <1>5, <2>1, <2>2
<1> HIDE DEF K
<1> DEFINE P == {n \in 0..N : K[n] \in Map}
<1>7. \A n \in 0..N : n \in P
  <2>1. 0 \in P
    BY <1>6
  <2>2. ASSUME NEW n \in 1..N, n - 1 \in P PROVE n \in P
    <3>1. K[n - 1] \in Map /\ n \in 0..N
      BY <2>2
    <3>2. [K[n - 1] EXCEPT ![events[n].link] = events[n].level] \in Map
      BY <3>1 DEF Map
    <3> QED BY <1>6, <3>1, <3>2
  <2> HIDE DEF P
  <2> QED BY <2>1, <2>2, UpTo
<1>8. N = 1 => K[1] = Updated(map, events[1].link, events[1].level)
  <2>1. N = 1 => 1 \in 1..N /\ 1 - 1 = 0
    OBVIOUS
  <2> QED BY <1>6, <2>1 DEF Updated
<1>9. Replay(map, events) = K[N]
  BY DEF Replay, K
<1> QED BY <1>6, <1>7, <1>8, <1>9

(* A published event of the evaluator. *)
LEMMA PossibleIs ==
  ASSUME active \in Map, NEW e \in Possible
  PROVE  /\ e.link \in Datalinks /\ e.level \in LevelsOrNone
         /\ e.type \in {"drop", "activation"}
         /\ e.type = "activation" => e.level \in Levels /\ ~(e.eligible /\ e.recompute)
         /\ e.type = "drop" => e.level # e.from /\ e.from = active[e.link] /\ e.from \in Levels
<1>1. \/ \E d \in Datalinks, level \in LevelsOrNone :
            e = Drop(d, active[d], level) /\ active[d] # None /\ e.level # e.from
      \/ \E d \in Datalinks, level \in Levels, eligible \in BOOLEAN, recompute \in BOOLEAN :
            e = Activation(d, level, eligible, recompute, 0) /\ ~(e.eligible /\ e.recompute)
  BY DEF Possible, LevelsOrNone
<1>2. CASE \E d \in Datalinks, level \in LevelsOrNone :
            e = Drop(d, active[d], level) /\ active[d] # None /\ e.level # e.from
  <2>1. PICK d \in Datalinks, level \in LevelsOrNone :
            e = Drop(d, active[d], level) /\ active[d] # None /\ e.level # e.from
    BY <1>2
  <2>2. active[d] \in Levels
    BY <2>1 DEF Map, LevelsOrNone
  <2> QED BY <2>1, <2>2 DEF Drop
<1>3. CASE \E d \in Datalinks, level \in Levels, eligible \in BOOLEAN, recompute \in BOOLEAN :
            e = Activation(d, level, eligible, recompute, 0) /\ ~(e.eligible /\ e.recompute)
  BY <1>3 DEF Activation, LevelsOrNone
<1> QED BY <1>1, <1>2, <1>3

(* A single event is published: the map changes at its data link. *)
LEMMA PublishOne ==
  ASSUME active \in Map, NEW e \in Possible, Publish(<<e>>)
  PROVE  active' = [active EXCEPT ![e.link] = e.level] /\ active' \in Map
<1> DEFINE events == <<e>>
           N == 1
<1>1. e.level \in LevelsOrNone
  BY PossibleIs
<1>2. /\ N = 1 /\ N \in Nat /\ Len(events) = N /\ events[1] = e
      /\ \A n \in 1..N : events[n].level \in LevelsOrNone
  BY <1>1
<1>3. active' = Replay(active, events) /\ active \in Map
  BY DEF Publish
<1> HIDE DEF events, N
<1>4. Replay(active, events) \in Map /\ Replay(active, events) = Updated(active, e.link, e.level)
  <2>1. /\ Replay(active, events) \in Map
        /\ N = 1 => Replay(active, events) = Updated(active, events[1].link, events[1].level)
    BY <1>2, <1>3, ReplayIsMap
  <2> QED BY <1>2, <2>1
<1> QED BY <1>3, <1>4 DEF Updated

(* The evaluator drops every level. *)
LEMMA PublishDrops ==
  ASSUME active \in Map, IsFiniteSet(Datalinks), Publish(DropsOfAll)
  PROVE  active' \in Map
<1> DEFINE L == {d \in Datalinks : active[d] # None}
           links == SetToSeq(L)
           D == [i \in DOMAIN links |-> Drop(links[i], active[links[i]], None)]
<1>1. IsFiniteSet(L)
  <2>1. L \in SUBSET Datalinks
    OBVIOUS
  <2> HIDE DEF L
  <2> QED BY <2>1, FS_Subset
<1>2. links \in [1..Cardinality(L) -> L] /\ Cardinality(L) \in Nat
  <2> HIDE DEF L
  <2>1. ExistsBijection(1..Cardinality(L), L) /\ Cardinality(L) \in Nat
    BY <1>1, FS_CardinalityType
  <2>2. \E f \in [1..Cardinality(L) -> L] : IsInjective(f)
    BY <2>1 DEF ExistsBijection, Bijection, Injection
  <2> QED BY <2>1, <2>2 DEF SetToSeq
<1>3. DropsOfAll = D
  BY DEF DropsOfAll
<1>4. Len(D) = Cardinality(L) /\ \A n \in 1..Cardinality(L) : D[n].level \in LevelsOrNone
  <2> HIDE DEF L
  <2> QED BY <1>2 DEF Drop, LevelsOrNone
<1>5. Replay(active, D) \in Map
  <2> HIDE DEF D
  <2> QED BY <1>2, <1>4, ReplayIsMap
<1> QED BY <1>3, <1>5 DEF Publish

------------------------------------------------------------------------------
(* WarningStore. *)
USE StoreAssumption DEF StoreAssumption

OpenEntry == [id : Nat, level : Levels]
OpenMap == [Datalinks -> OpenEntry \cup {None}]
StoreRec == [shown : Map, history : EntrySeq, counter : Nat, open : OpenMap]

(* The open entries and the panel follow a map of the levels. *)
Follows(s, map) ==
  /\ \A d \in Datalinks : s.open[d] # None => s.shown[d] = map[d] /\ s.open[d].level = map[d]
  /\ \A d \in Datalinks : s.shown[d] \in {map[d], None}

(* Ids name one entry each, and none of them is still to be given. *)
Named(s) ==
  /\ \A i, j \in DOMAIN s.history : s.history[i].id = s.history[j].id => i = j
  /\ \A d \in Datalinks, i \in DOMAIN s.history :
       s.open[d] # None /\ s.history[i].id = s.open[d].id =>
         s.history[i].link = d /\ ~s.history[i].cleared
  /\ \A i \in DOMAIN s.history : s.history[i].id <= s.counter
  /\ \A d \in Datalinks : s.open[d] # None => s.open[d].id <= s.counter

(* Before the mount has read the file nothing has happened. *)
Untouched ==
  /\ shown = [d \in Datalinks |-> None]
  /\ open = [d \in Datalinks |-> None]
  /\ history = <<>>
  /\ file = Stored
  /\ ~timer
  /\ pendingSave = None /\ saving = None

StoreInv ==
  /\ StoreTypeOK
  /\ active \in Map
  /\ StoreState \in StoreRec
  /\ Follows(StoreState, active)
  /\ Named(StoreState)
  /\ ~mounted => Untouched

EntryRec == [id : Nat, link : Datalinks, cleared : BOOLEAN]

(* The entries of a history. *)
LEMMA HistoryIs ==
  ASSUME NEW h \in EntrySeq
  PROVE  /\ Len(h) \in Nat /\ DOMAIN h = 1..Len(h)
         /\ h \in [1..Len(h) -> EntryRec]
         /\ \A i \in DOMAIN h : h[i].id \in Nat /\ h[i].link \in Datalinks /\ h[i].cleared \in BOOLEAN
<1>1. Len(h) \in Nat /\ h \in [1..Len(h) -> EntryRec]
  BY LenProperties DEF EntrySeq, EntryRec
<1> QED BY <1>1 DEF EntryRec

(* Entries whose ids are in a set are closed in place. *)
LEMMA ClosedInPlace ==
  ASSUME NEW h \in EntrySeq, NEW ids
  PROVE  LET c == [i \in DOMAIN h |-> IF h[i].id \in ids THEN [h[i] EXCEPT !.cleared = TRUE] ELSE h[i]]
         IN  /\ c \in EntrySeq /\ DOMAIN c = DOMAIN h
             /\ \A i \in DOMAIN h : c[i].id = h[i].id /\ c[i].link = h[i].link
             /\ \A i \in DOMAIN h : h[i].id \notin ids => c[i].cleared = h[i].cleared
<1> DEFINE c == [i \in DOMAIN h |-> IF h[i].id \in ids THEN [h[i] EXCEPT !.cleared = TRUE] ELSE h[i]]
<1>1. Len(h) \in Nat /\ DOMAIN h = 1..Len(h) /\ \A i \in DOMAIN h : h[i] \in EntryRec
  BY HistoryIs
<1>2. \A r \in EntryRec : LET q == [r EXCEPT !.cleared = TRUE]
                          IN q \in EntryRec /\ q.id = r.id /\ q.link = r.link
  BY DEF EntryRec
<1>3. \A i \in DOMAIN h : c[i] \in EntryRec /\ c[i].id = h[i].id /\ c[i].link = h[i].link
  BY <1>1, <1>2
<1>4. \A i \in DOMAIN h : h[i].id \notin ids => c[i] = h[i]
  OBVIOUS
<1>5. c \in Seq(EntryRec)
  <2>1. c \in [1..Len(h) -> EntryRec]
    BY <1>1, <1>3
  <2> QED BY <1>1, <2>1, IsASeq
<1>6. DOMAIN c = DOMAIN h
  OBVIOUS
<1> HIDE DEF c
<1>7. /\ c \in EntrySeq /\ DOMAIN c = DOMAIN h
      /\ \A i \in DOMAIN h : c[i].id = h[i].id /\ c[i].link = h[i].link
      /\ \A i \in DOMAIN h : h[i].id \notin ids => c[i].cleared = h[i].cleared
  BY <1>3, <1>4, <1>5, <1>6 DEF EntrySeq, EntryRec
<1> QED BY <1>7 DEF c

(* The fields of a store. *)
LEMMA StoreFields ==
  ASSUME NEW s \in StoreRec
  PROVE  /\ s.shown \in Map /\ s.history \in EntrySeq /\ s.counter \in Nat /\ s.open \in OpenMap
         /\ \A d \in Datalinks : s.open[d] # None => s.open[d].id \in Nat /\ s.open[d].level \in Levels
         /\ \A v \in Map : LET r == [s EXCEPT !.shown = v]
              IN r \in StoreRec /\ r.shown = v /\ r.history = s.history /\ r.counter = s.counter /\ r.open = s.open
<1>1. s.shown \in Map /\ s.history \in EntrySeq /\ s.counter \in Nat /\ s.open \in OpenMap
  BY DEF StoreRec
<1>2. \A d \in Datalinks : s.open[d] # None => s.open[d].id \in Nat /\ s.open[d].level \in Levels
  BY <1>1 DEF OpenMap, OpenEntry
<1>3. ASSUME NEW v \in Map
      PROVE  LET r == [s EXCEPT !.shown = v]
             IN r \in StoreRec /\ r.shown = v /\ r.history = s.history /\ r.counter = s.counter /\ r.open = s.open
  BY DEF StoreRec
<1> QED BY <1>1, <1>2, <1>3

(* A map of the levels that changes at one data link. *)
LEMMA MapUpdated ==
  ASSUME NEW m \in Map, NEW d \in Datalinks, NEW v \in LevelsOrNone
  PROVE  LET u == [m EXCEPT ![d] = v]
         IN  u \in Map /\ u[d] = v /\ \A x \in Datalinks : x # d => u[x] = m[x]
  BY DEF Map

(* The open entry of a link is closed. *)
LEMMA CloseSound ==
  ASSUME NEW s \in StoreRec, Named(s), NEW d \in Datalinks
  PROVE  /\ Close(s, d) \in StoreRec /\ Named(Close(s, d))
         /\ Close(s, d).shown = s.shown
         /\ Close(s, d).open[d] = None
         /\ \A x \in Datalinks : x # d => Close(s, d).open[x] = s.open[x]
<1>1. s.shown \in Map /\ s.history \in EntrySeq /\ s.counter \in Nat /\ s.open \in OpenMap
  BY StoreFields
<1>2. CASE s.open[d] = None
  BY <1>1, <1>2 DEF Close
<1>3. CASE s.open[d] # None
  <2> DEFINE ids == {s.open[d].id}
             h == s.history
             c == [i \in DOMAIN h |-> IF h[i].id \in ids THEN [h[i] EXCEPT !.cleared = TRUE] ELSE h[i]]
             o == [s.open EXCEPT ![d] = None]
             r == Close(s, d)
  <2>1. r = [s EXCEPT !.open = o, !.history = c]
    BY <1>3 DEF Close
  <2>2. /\ c \in EntrySeq /\ DOMAIN c = DOMAIN h
        /\ \A i \in DOMAIN h : c[i].id = h[i].id /\ c[i].link = h[i].link
        /\ \A i \in DOMAIN h : h[i].id \notin ids => c[i].cleared = h[i].cleared
    <3> HIDE DEF ids, h
    <3> QED BY <1>1, ClosedInPlace DEF h
  <2>3. /\ o \in OpenMap /\ o[d] = None
        /\ \A x \in Datalinks : x # d => o[x] = s.open[x]
    BY <1>1 DEF OpenMap
  <2> HIDE DEF c, o, r
  <2>4. r \in StoreRec /\ r.shown = s.shown /\ r.history = c /\ r.counter = s.counter /\ r.open = o
    BY <2>1, <2>2, <2>3 DEF StoreRec
  <2>5. ASSUME NEW x \in Datalinks, NEW i \in DOMAIN c, o[x] # None, c[i].id = o[x].id
        PROVE  c[i].link = x /\ ~c[i].cleared
    <3>1. x # d /\ o[x] = s.open[x] /\ i \in DOMAIN h /\ h[i].id = s.open[x].id
      BY <2>2, <2>3, <2>5
    <3>2. h[i].link = x /\ ~h[i].cleared
      BY <2>5, <3>1 DEF Named
    <3>3. h[i].id \notin ids
      <4>1. h[i].id = s.open[d].id => h[i].link = d
        BY <1>3, <3>1 DEF Named
      <4> QED BY <3>1, <3>2, <4>1
    <3> QED BY <2>2, <3>1, <3>2, <3>3
  <2>6. Named(r)
    BY <2>2, <2>3, <2>4, <2>5 DEF Named
  <2> QED BY <2>3, <2>4, <2>6 DEF r
<1> QED BY <1>2, <1>3

(* An entry is opened for a link that has none. *)
LEMMA OpenSound ==
  ASSUME NEW s \in StoreRec, Named(s), NEW d \in Datalinks, NEW level \in Levels
  PROVE  /\ Open(s, d, level) \in StoreRec /\ Named(Open(s, d, level))
         /\ Open(s, d, level).shown = s.shown
         /\ s.open[d] # None => Open(s, d, level).open = s.open
         /\ s.open[d] = None => Open(s, d, level).open[d].level = level
         /\ \A x \in Datalinks : x # d => Open(s, d, level).open[x] = s.open[x]
<1>1. s.shown \in Map /\ s.history \in EntrySeq /\ s.counter \in Nat /\ s.open \in OpenMap
  BY StoreFields
<1>2. CASE s.open[d] # None
  BY <1>2 DEF Open
<1>3. CASE s.open[d] = None
  <2> DEFINE id == s.counter + 1
             h == s.history
             all == <<Entry(id, d)>> \o h
             n == IF Len(all) < MaxHistory THEN Len(all) ELSE MaxHistory
             c == SubSeq(all, 1, n)
             new == [id |-> id, level |-> level]
             o == [s.open EXCEPT ![d] = new]
             r == Open(s, d, level)
  <2>1. r = [s EXCEPT !.counter = id, !.history = c, !.open = o]
    BY <1>3 DEF Open
  <2>2. Len(h) \in Nat /\ DOMAIN h = 1..Len(h) /\ h \in Seq(EntryRec)
    BY <1>1, HistoryIs DEF EntrySeq, EntryRec
  <2>3. Entry(id, d) \in EntryRec /\ <<Entry(id, d)>> \in Seq(EntryRec)
    BY <1>1 DEF Entry, EntryRec
  <2>4. /\ all \in Seq(EntryRec) /\ Len(all) = Len(h) + 1
        /\ all[1] = Entry(id, d)
        /\ \A i \in 1..Len(all) : i # 1 => i - 1 \in 1..Len(h) /\ all[i] = h[i - 1]
    <3>1. /\ all \in Seq(EntryRec) /\ Len(all) = 1 + Len(h)
          /\ \A i \in 1..(1 + Len(h)) : all[i] = IF i <= 1 THEN <<Entry(id, d)>>[i] ELSE h[i - 1]
      BY <2>2, <2>3, ConcatProperties
    <3> HIDE DEF all
    <3> QED BY <2>2, <3>1
  <2>5. n \in Nat /\ n <= Len(all)
    BY <2>2, <2>4
  <2>6. c \in Seq(EntryRec) /\ DOMAIN c = 1..n /\ \A i \in 1..n : c[i] = all[i] /\ i \in 1..Len(all)
    <3> HIDE DEF all, n
    <3>1. 1..n \subseteq 1..Len(all) /\ Len(all) \in Nat
      BY <2>4, <2>5, LenProperties
    <3>2. c \in Seq(EntryRec) /\ Len(c) = n /\ \A i \in 1..n : c[i] = all[i]
      BY <2>4, <2>5, <3>1, SubSeqProperties
    <3> QED BY <3>1, <3>2, LenProperties
  <2>7. id \in Nat /\ new \in OpenEntry /\ new.id = id /\ new.level = level /\ s.counter < id
    BY <1>1 DEF OpenEntry
  <2>8. o \in OpenMap /\ o[d] = new /\ \A x \in Datalinks : x # d => o[x] = s.open[x]
    BY <1>1, <2>7 DEF OpenMap
  <2> HIDE DEF c, o, r, new, id
  <2>9. r \in StoreRec /\ r.shown = s.shown /\ r.history = c /\ r.counter = id /\ r.open = o
    BY <2>1, <2>6, <2>7, <2>8 DEF StoreRec, EntrySeq, EntryRec
  <2>10. \A i \in 1..n : \/ i = 1 /\ c[i].id = id /\ c[i].link = d /\ c[i].cleared = FALSE
                         \/ i # 1 /\ i - 1 \in DOMAIN h /\ c[i] = h[i - 1]
    BY <2>2, <2>4, <2>6 DEF Entry
  <2>11. \A i \in DOMAIN h : h[i].id \in Nat /\ h[i].id <= s.counter /\ h[i].id < id
    BY <1>1, <2>7, HistoryIs DEF Named
  <2>12. \A i, j \in 1..n : c[i].id = c[j].id => i = j
    <3> SUFFICES ASSUME NEW i \in 1..n, NEW j \in 1..n, c[i].id = c[j].id PROVE i = j
      OBVIOUS
    <3>1. CASE i = 1 \/ j = 1
      BY <2>7, <2>10, <2>11, <3>1
    <3>2. CASE i # 1 /\ j # 1
      <4>1. i - 1 = j - 1
        BY <2>10, <3>2 DEF Named
      <4> QED BY <2>5, <4>1
    <3> QED BY <3>1, <3>2
  <2>13. ASSUME NEW x \in Datalinks, NEW i \in 1..n, o[x] # None, c[i].id = o[x].id
         PROVE  c[i].link = x /\ ~c[i].cleared
    <3>1. CASE x = d
      <4>1. c[i].id = id
        BY <2>7, <2>8, <2>13, <3>1
      <4>2. i = 1
        BY <2>7, <2>10, <2>11, <4>1
      <4> QED BY <2>10, <3>1, <4>2
    <3>2. CASE x # d
      <4>1. s.open[x] # None /\ s.open[x].id = c[i].id /\ s.open[x].id <= s.counter /\ s.open[x].id \in Nat
        BY <2>8, <2>13, <3>2, StoreFields DEF Named
      <4>2. c[i].id # id
        BY <1>1, <2>7, <4>1
      <4>3. i - 1 \in DOMAIN h /\ c[i] = h[i - 1]
        BY <2>10, <4>2
      <4> QED BY <4>1, <4>3 DEF Named
    <3> QED BY <3>1, <3>2
  <2>14. \A i \in 1..n : c[i].id <= id
    BY <2>7, <2>10, <2>11
  <2>15. ASSUME NEW x \in Datalinks, o[x] # None PROVE o[x].id <= id
    <3>1. CASE x = d
      BY <2>7, <2>8, <3>1
    <3>2. CASE x # d
      <4>1. s.open[x] # None /\ o[x] = s.open[x]
        BY <2>8, <2>15, <3>2
      <4>2. s.open[x].id \in Nat /\ s.open[x].id <= s.counter
        BY <4>1, StoreFields DEF Named
      <4> QED BY <1>1, <2>7, <4>1, <4>2
    <3> QED BY <3>1, <3>2
  <2>16. Named(r)
    <3> HIDE DEF n, h, all
    <3> QED BY <2>6, <2>9, <2>12, <2>13, <2>14, <2>15 DEF Named
  <2>17. /\ r \in StoreRec /\ Named(r) /\ r.shown = s.shown /\ r.open[d].level = level
         /\ \A x \in Datalinks : x # d => r.open[x] = s.open[x]
    <3>1. r.open = o /\ o[d] = new /\ new.level = level
      BY <2>7, <2>8, <2>9
    <3>2. r.open[d] = new
      BY <3>1
    <3>3. \A x \in Datalinks : x # d => r.open[x] = s.open[x]
      BY <2>8, <3>1
    <3> QED BY <2>7, <2>9, <2>16, <3>2, <3>3
  <2>18. r = Open(s, d, level)
    BY DEF r
  <2> HIDE DEF r
  <2> QED BY <1>3, <2>17, <2>18
<1> QED BY <1>2, <1>3

(* What a level shown instead of another one changes. *)
LEMMA ShownSound ==
  ASSUME NEW s \in StoreRec, Named(s), NEW d \in Datalinks, NEW v \in LevelsOrNone
  PROVE  LET r == [s EXCEPT !.shown[d] = v]
         IN  /\ r \in StoreRec /\ Named(r) /\ r.open = s.open /\ r.shown[d] = v
             /\ \A x \in Datalinks : x # d => r.shown[x] = s.shown[x]
<1> DEFINE u == [s.shown EXCEPT ![d] = v]
           r == [s EXCEPT !.shown = u]
<1>1. u \in Map /\ u[d] = v /\ \A x \in Datalinks : x # d => u[x] = s.shown[x]
  BY StoreFields, MapUpdated
<1>2. r = [s EXCEPT !.shown[d] = v]
  OBVIOUS
<1>3. r \in StoreRec /\ r.shown = u /\ r.history = s.history /\ r.counter = s.counter /\ r.open = s.open
  <2> HIDE DEF u
  <2> QED BY <1>1, StoreFields
<1> HIDE DEF u, r
<1>4. Named(r)
  BY <1>3 DEF Named
<1> QED BY <1>1, <1>2, <1>3, <1>4

(* The store follows an activation. *)
LEMMA ActivationSound ==
  ASSUME NEW s \in StoreRec, NEW map \in Map, Follows(s, map), Named(s),
         NEW e, e.link \in Datalinks, e.level \in Levels, NEW autolog,
         NEW m2 \in Map, m2 = Updated(map, e.link, e.level)
  PROVE  LET r == OnActivation(s, e, autolog)
         IN  r \in StoreRec /\ Follows(r, m2) /\ Named(r)
<1> DEFINE d == e.link
           up == [s EXCEPT !.shown[d] = e.level]
           cl == IF s.open[d] # None /\ s.open[d].level # e.level THEN Close(up, d) ELSE up
           r == OnActivation(s, e, autolog)
<1>1. /\ up \in StoreRec /\ Named(up) /\ up.open = s.open /\ up.shown[d] = e.level
      /\ \A x \in Datalinks : x # d => up.shown[x] = s.shown[x]
  BY ShownSound DEF LevelsOrNone
<1>2. m2[d] = e.level /\ \A x \in Datalinks : x # d => m2[x] = map[x]
  BY MapUpdated DEF Updated, LevelsOrNone
<1> HIDE DEF up
<1>3. /\ cl \in StoreRec /\ Named(cl) /\ cl.shown = up.shown
      /\ cl.open[d] = None \/ cl.open[d].level = e.level
      /\ \A x \in Datalinks : x # d => cl.open[x] = s.open[x]
  <2>1. CASE s.open[d] # None /\ s.open[d].level # e.level
    <3>1. cl = Close(up, d) /\ d \in Datalinks
      BY <2>1
    <3> HIDE DEF cl, d
    <3>2. /\ Close(up, d) \in StoreRec /\ Named(Close(up, d))
          /\ Close(up, d).shown = up.shown
          /\ Close(up, d).open[d] = None
          /\ \A x \in Datalinks : x # d => Close(up, d).open[x] = up.open[x]
      BY <1>1, <3>1, CloseSound
    <3> QED BY <1>1, <3>1, <3>2
  <2>2. CASE ~(s.open[d] # None /\ s.open[d].level # e.level)
    BY <1>1, <2>2
  <2> QED BY <2>1, <2>2
<1> HIDE DEF cl
<1>4. /\ r \in StoreRec /\ Named(r) /\ r.shown = up.shown
      /\ r.open[d] = None \/ r.open[d].level = e.level
      /\ \A x \in Datalinks : x # d => r.open[x] = s.open[x]
  <2>1. CASE ~e.recompute /\ autolog
    <3>1. r = Open(cl, d, e.level)
      BY <2>1 DEF OnActivation, cl, up
    <3> HIDE DEF r
    <3> QED BY <1>3, <3>1, OpenSound
  <2>2. CASE ~(~e.recompute /\ autolog)
    <3>1. r = cl
      BY <2>2 DEF OnActivation, cl, up
    <3> QED BY <1>3, <3>1
  <2> QED BY <2>1, <2>2
<1> HIDE DEF r
<1>5. Follows(r, m2)
  BY <1>1, <1>2, <1>4 DEF Follows
<1> QED BY <1>4, <1>5 DEF r

(* The store follows a drop. *)
LEMMA DropSound ==
  ASSUME NEW s \in StoreRec, NEW map \in Map, Follows(s, map), Named(s),
         NEW e, e.link \in Datalinks, e.level \in LevelsOrNone, NEW autolog,
         NEW m2 \in Map, m2 = Updated(map, e.link, e.level)
  PROVE  LET r == OnDrop(s, e, autolog)
         IN  r \in StoreRec /\ Follows(r, m2) /\ Named(r)
<1> DEFINE d == e.link
           c0 == Close(s, d)
           cl == [c0 EXCEPT !.shown[d] = e.level]
           r == OnDrop(s, e, autolog)
<1>1. /\ c0 \in StoreRec /\ Named(c0) /\ c0.shown = s.shown /\ c0.open[d] = None
      /\ \A x \in Datalinks : x # d => c0.open[x] = s.open[x]
  BY CloseSound
<1>2. m2[d] = e.level /\ \A x \in Datalinks : x # d => m2[x] = map[x]
  BY MapUpdated DEF Updated
<1> HIDE DEF c0
<1>3. /\ cl \in StoreRec /\ Named(cl) /\ cl.open = c0.open /\ cl.shown[d] = e.level
      /\ \A x \in Datalinks : x # d => cl.shown[x] = s.shown[x]
  BY <1>1, ShownSound
<1> HIDE DEF cl
<1>4. /\ r \in StoreRec /\ Named(r) /\ r.shown = cl.shown
      /\ r.open[d] = None \/ r.open[d].level = e.level
      /\ \A x \in Datalinks : x # d => r.open[x] = s.open[x]
  <2>1. CASE e.level # None /\ autolog
    <3>1. r = Open(cl, d, e.level) /\ e.level \in Levels
      BY <2>1 DEF OnDrop, cl, c0, LevelsOrNone
    <3> DEFINE o == Open(cl, d, e.level)
    <3>2. /\ o \in StoreRec /\ Named(o) /\ o.shown = cl.shown
          /\ cl.open[d] = None => o.open[d].level = e.level
          /\ \A x \in Datalinks : x # d => o.open[x] = cl.open[x]
      BY <1>3, <3>1, OpenSound
    <3> HIDE DEF r, o
    <3>3. r = o
      BY <3>1 DEF o
    <3> QED BY <1>1, <1>3, <3>2, <3>3
  <2>2. CASE ~(e.level # None /\ autolog)
    <3>1. r = cl
      BY <2>2 DEF OnDrop, cl, c0
    <3> QED BY <1>1, <1>3, <3>1
  <2> QED BY <2>1, <2>2
<1> HIDE DEF r
<1>5. Follows(r, m2)
  BY <1>1, <1>2, <1>3, <1>4 DEF Follows
<1> QED BY <1>4, <1>5 DEF r

(* The open entries of some links are closed, and nothing is shown for them. *)
LEMMA ClearedSound ==
  ASSUME NEW s \in StoreRec, Named(s), NEW links \in SUBSET Datalinks
  PROVE  LET r == Cleared(s, links)
         IN  /\ r \in StoreRec /\ Named(r)
             /\ \A d \in links : r.open[d] = None /\ r.shown[d] = None
             /\ \A d \in Datalinks \ links : r.open[d] = s.open[d] /\ r.shown[d] = s.shown[d]
<1> DEFINE ids == {s.open[d].id : d \in {x \in links : s.open[x] # None}}
           h == s.history
           c == [i \in DOMAIN h |-> IF h[i].id \in ids THEN [h[i] EXCEPT !.cleared = TRUE] ELSE h[i]]
           o == [d \in Datalinks |-> IF d \in links THEN None ELSE s.open[d]]
           u == [d \in Datalinks |-> IF d \in links THEN None ELSE s.shown[d]]
           r == Cleared(s, links)
<1>1. s.shown \in Map /\ s.history \in EntrySeq /\ s.counter \in Nat /\ s.open \in OpenMap
  BY StoreFields
<1>2. r = [s EXCEPT !.open = o, !.shown = u, !.history = c]
  BY DEF Cleared
<1>3. /\ c \in EntrySeq /\ DOMAIN c = DOMAIN h
      /\ \A i \in DOMAIN h : c[i].id = h[i].id /\ c[i].link = h[i].link
      /\ \A i \in DOMAIN h : h[i].id \notin ids => c[i].cleared = h[i].cleared
  <2> HIDE DEF ids, h
  <2> QED BY <1>1, ClosedInPlace DEF h
<1>4. o \in OpenMap /\ u \in Map
  BY <1>1 DEF OpenMap, Map, LevelsOrNone
<1>5. /\ \A d \in links : o[d] = None /\ u[d] = None
      /\ \A d \in Datalinks \ links : o[d] = s.open[d] /\ u[d] = s.shown[d]
  OBVIOUS
<1>6. \A i \in DOMAIN h, d \in Datalinks \ links :
        s.open[d] # None /\ h[i].id = s.open[d].id => h[i].id \notin ids
  BY DEF Named
<1> HIDE DEF c, o, u, r
<1>7. r \in StoreRec /\ r.shown = u /\ r.history = c /\ r.counter = s.counter /\ r.open = o
  BY <1>2, <1>3, <1>4 DEF StoreRec
<1>8. ASSUME NEW x \in Datalinks, NEW i \in DOMAIN c, o[x] # None, c[i].id = o[x].id
      PROVE  c[i].link = x /\ ~c[i].cleared
  <2>1. x \in Datalinks \ links /\ o[x] = s.open[x] /\ i \in DOMAIN h /\ h[i].id = s.open[x].id
    BY <1>3, <1>5, <1>8
  <2>2. h[i].link = x /\ ~h[i].cleared
    BY <1>8, <2>1 DEF Named
  <2> QED BY <1>3, <1>6, <1>8, <2>1, <2>2
<1>9. \A d \in Datalinks : o[d] # None => o[d] = s.open[d]
  BY <1>5
<1>10. Named(r)
  BY <1>3, <1>7, <1>8, <1>9 DEF Named
<1> QED BY <1>5, <1>7, <1>10 DEF r

(* A history that is not empty has a largest id. *)
LEMMA MaxIdIs ==
  ASSUME NEW h \in EntrySeq, h # <<>>
  PROVE  MaxId(h) \in Nat /\ \A i \in DOMAIN h : h[i].id <= MaxId(h)
<1> DEFINE N == Len(h)
           P == {n \in 0..N : \E k \in 1..N : \A i \in 1..n : h[i].id <= h[k].id}
<1>1. N \in Nat /\ N # 0 /\ DOMAIN h = 1..N /\ \A i \in 1..N : h[i].id \in Nat
  BY HistoryIs, EmptySeq DEF EntrySeq
<1> HIDE DEF N
<1>2. 0 \in P
  <2>1. 1 \in 1..N /\ 0 \in 0..N /\ \A i \in 1..0 : FALSE
    BY <1>1
  <2> QED BY <2>1
<1>3. ASSUME NEW n \in 1..N, n - 1 \in P PROVE n \in P
  <2>1. PICK k \in 1..N : \A i \in 1..(n - 1) : h[i].id <= h[k].id
    BY <1>3
  <2>2. n \in 0..N /\ \A i \in 1..n : i = n \/ i \in 1..(n - 1)
    BY <1>1
  <2>3. \A i \in 1..n : i \in 1..N
    BY <1>1
  <2>4. CASE h[n].id <= h[k].id
    BY <2>1, <2>2, <2>4
  <2>5. CASE ~(h[n].id <= h[k].id)
    <3>1. \A i \in 1..n : h[i].id <= h[n].id
      BY <1>1, <2>1, <2>2, <2>3, <2>5
    <3> QED BY <2>2, <3>1
  <2> QED BY <2>4, <2>5
<1>4. N \in P
  <2> HIDE DEF P
  <2>1. \A n \in 0..N : n \in P
    BY <1>1, <1>2, <1>3, UpTo
  <2> QED BY <1>1, <2>1
<1>5. PICK k \in 1..N : \A i \in 1..N : h[i].id <= h[k].id
  BY <1>4
<1>6. \E id \in Ids(h) : \A other \in Ids(h) : other <= id
  BY <1>1, <1>5 DEF Ids
<1>7. MaxId(h) \in Ids(h) /\ \A other \in Ids(h) : other <= MaxId(h)
  BY <1>6 DEF MaxId
<1> QED BY <1>1, <1>7 DEF Ids

------------------------------------------------------------------------------
(* The steps of the store. *)

LEMMA StoreStarts ==
  Init /\ StoreInit => StoreInv
<1> SUFFICES ASSUME Init, StoreInit PROVE StoreInv
  OBVIOUS
<1> DEFINE none == [d \in Datalinks |-> None]
<1>1. none \in Map /\ none \in OpenMap
  BY DEF Map, OpenMap, LevelsOrNone
<1>2. <<>> \in EntrySeq /\ DOMAIN <<>> = {} /\ 0 \in Nat
  BY EmptySeq DEF EntrySeq
<1>3. \A d \in Datalinks : none[d] = None
  OBVIOUS
<1>4. shown = none /\ open = none /\ active = none /\ history = <<>> /\ counter = 0
  BY DEF Init, StoreInit
<1> HIDE DEF none
<1>5. StoreState \in StoreRec
  BY <1>1, <1>2, <1>4 DEF StoreState, StoreRec
<1>6. Follows(StoreState, active)
  BY <1>3, <1>4 DEF Follows, StoreState
<1>7. Named(StoreState)
  BY <1>2, <1>3, <1>4 DEF Named, StoreState
<1>8. StoreTypeOK
  BY <1>2, <1>4 DEF StoreTypeOK, StoreInit
<1>9. Untouched
  BY <1>4 DEF Untouched, StoreInit, none
<1> QED BY <1>1, <1>4, <1>5, <1>6, <1>7, <1>8, <1>9 DEF StoreInv

(* The store becomes one that follows the evaluator. *)
LEMMA BecomesSound ==
  ASSUME StoreInv, mounted, NEW s, Becomes(s), s \in StoreRec, active' \in Map,
         Follows(s, active'), Named(s)
  PROVE  StoreInv'
<1>1. /\ shown' = s.shown /\ history' = s.history /\ counter' = s.counter /\ open' = s.open
      /\ timer' = TRUE
      /\ UNCHANGED <<pendingSave, saving, file, loaded, mounted, forgot>>
  BY DEF Becomes
<1>2. s = [shown |-> s.shown, history |-> s.history, counter |-> s.counter, open |-> s.open]
  BY DEF StoreRec
<1>3. StoreState' = s
  BY <1>1, <1>2 DEF StoreState
<1>4. StoreTypeOK'
  BY <1>1, StoreFields DEF StoreInv, StoreTypeOK
<1> QED BY <1>1, <1>3, <1>4 DEF StoreInv

(* Nothing is shown before the mount. *)
LEMMA ShownIsMounted ==
  ASSUME StoreInv, NEW d \in Datalinks, shown[d] # None
  PROVE  mounted
  BY DEF StoreInv, Untouched

(* The fields of the state. *)
LEMMA StateIs ==
  ASSUME StoreInv
  PROVE  /\ StoreState \in StoreRec /\ Follows(StoreState, active) /\ Named(StoreState)
         /\ StoreState.shown = shown /\ StoreState.history = history
         /\ StoreState.counter = counter /\ StoreState.open = open
         /\ active \in Map
  BY DEF StoreInv, StoreState

(* Each kind of step keeps the invariant. *)
LEMMA SeesEventSound ==
  ASSUME StoreInv, StoreSeesEvent
  PROVE  StoreInv'
<1>1. mounted
  BY DEF StoreSeesEvent
<1>2. PICK e \in Possible : Publish(<<e>>) /\ StoreReacts(e)
  BY DEF StoreSeesEvent
<1>3. PICK autolog \in BOOLEAN : Becomes(StoreAfter(e, autolog))
  BY <1>2 DEF StoreReacts
<1>4. active \in Map
  BY StateIs
<1>5. active' = Updated(active, e.link, e.level) /\ active' \in Map
  BY <1>2, <1>4, PublishOne DEF Updated
<1>6. /\ e.link \in Datalinks /\ e.level \in LevelsOrNone /\ e.type \in {"drop", "activation"}
      /\ e.type = "activation" => e.level \in Levels
  BY <1>4, PossibleIs
<1> DEFINE r == StoreAfter(e, autolog)
<1>7. r \in StoreRec /\ Follows(r, active') /\ Named(r)
  <2> DEFINE m2 == active'
             s0 == StoreState
  <2>1. s0 \in StoreRec /\ Follows(s0, active) /\ Named(s0)
    BY StateIs
  <2>2. m2 \in Map /\ m2 = Updated(active, e.link, e.level)
    BY <1>5
  <2>3. CASE e.type = "activation"
    <3>1. r = OnActivation(s0, e, autolog)
      BY <2>3 DEF StoreAfter
    <3> HIDE DEF m2, s0, r
    <3>2. r \in StoreRec /\ Follows(r, m2) /\ Named(r)
      BY <1>4, <1>6, <2>1, <2>2, <2>3, <3>1, ActivationSound
    <3> QED BY <3>2 DEF m2, r
  <2>4. CASE e.type # "activation"
    <3>1. r = OnDrop(s0, e, autolog)
      BY <2>4 DEF StoreAfter
    <3> HIDE DEF m2, s0, r
    <3>2. r \in StoreRec /\ Follows(r, m2) /\ Named(r)
      BY <1>4, <1>6, <2>1, <2>2, <3>1, DropSound
    <3> QED BY <3>2 DEF m2, r
  <2> QED BY <2>3, <2>4
<1> HIDE DEF r
<1>8. Becomes(r)
  BY <1>3 DEF r
<1> QED BY <1>1, <1>5, <1>7, <1>8, BecomesSound

(* The reset drops every level. *)
LEMMA SeesResetSound ==
  ASSUME StoreInv, StoreSeesReset
  PROVE  StoreInv'
<1> DEFINE links == {d \in Datalinks : active[d] # None}
           r == Cleared(StoreState, links)
<1>1. mounted /\ active' \in Map
  BY StateIs, PublishDrops DEF StoreSeesReset
<1>2. CASE links = {}
  <2>1. \A d \in Datalinks : shown[d] = None /\ open[d] = None
    <3>1. \A d \in Datalinks : active[d] = None
      BY <1>2
    <3>2. \A d \in Datalinks : shown[d] = None
      BY <3>1, StateIs DEF Follows
    <3>3. \A d \in Datalinks : open[d] # None => open[d].level \in Levels /\ open[d].level = None
      BY <3>1, StateIs, StoreFields DEF Follows
    <3> QED BY <3>2, <3>3
  <2>2. UNCHANGED storeVars
    BY <1>2 DEF StoreSeesReset
  <2>3. StoreState' = StoreState /\ StoreState.shown = shown /\ StoreState.open = open
    BY <2>2 DEF storeVars, StoreState
  <2>4. Follows(StoreState, active')
    BY <2>1, <2>3 DEF Follows
  <2> QED BY <1>1, <2>2, <2>3, <2>4 DEF StoreInv, storeVars, StoreTypeOK, Untouched
<1>3. CASE links # {}
  <2>1. Becomes(r)
    BY <1>3 DEF StoreSeesReset
  <2>2. /\ r \in StoreRec /\ Named(r)
        /\ \A d \in links : r.open[d] = None /\ r.shown[d] = None
        /\ \A d \in Datalinks \ links : r.open[d] = open[d] /\ r.shown[d] = shown[d]
    <3>1. links \in SUBSET Datalinks
      OBVIOUS
    <3> HIDE DEF links
    <3> QED BY <3>1, StateIs, ClearedSound
  <2>3. \A d \in Datalinks : r.open[d] = None /\ r.shown[d] = None
    <3>1. ASSUME NEW d \in Datalinks \ links PROVE shown[d] = None /\ open[d] = None
      <4>1. active[d] = None /\ d \in Datalinks
        OBVIOUS
      <4>2. shown[d] = None
        BY <4>1, StateIs DEF Follows
      <4>3. open[d] # None => open[d].level \in Levels /\ open[d].level = None
        BY <4>1, StateIs, StoreFields DEF Follows
      <4> QED BY <4>2, <4>3
    <3> HIDE DEF links, r
    <3> QED BY <2>2, <3>1
  <2> HIDE DEF r
  <2>4. Follows(r, active')
    BY <2>3 DEF Follows
  <2> QED BY <1>1, <2>1, <2>2, <2>4, BecomesSound
<1> QED BY <1>2, <1>3

(* The user disconnects: nothing is active and nothing is shown. *)
LEMMA UserDisconnectSound ==
  ASSUME StoreInv, UserDisconnect
  PROVE  StoreInv'
<1> DEFINE none == [d \in Datalinks |-> None]
<1>1. none \in Map /\ none \in OpenMap /\ \A d \in Datalinks : none[d] = None
  BY DEF Map, OpenMap, LevelsOrNone
<1>2. /\ shown' = none /\ open' = none /\ history' = <<>> /\ timer' = FALSE /\ loaded' = FALSE
      /\ pendingSave' = None /\ UNCHANGED <<counter, saving, file, mounted, active>> /\ mounted
  BY DEF UserDisconnect, StoreReset, sourceVars
<1>3. <<>> \in EntrySeq /\ DOMAIN <<>> = {}
  BY EmptySeq DEF EntrySeq
<1> HIDE DEF none
<1>4. StoreState' \in StoreRec /\ counter' \in Nat
  BY <1>1, <1>2, <1>3 DEF StoreState, StoreRec, StoreInv, StoreTypeOK
<1>5. Follows(StoreState, active)' /\ Named(StoreState)'
  BY <1>1, <1>2, <1>3 DEF StoreState, Follows, Named
<1>6. StoreTypeOK'
  BY <1>2, <1>3 DEF StoreInv, StoreTypeOK
<1> QED BY <1>2, <1>4, <1>5, <1>6 DEF StoreInv

(* The operations of the panel, the shell and the timers. *)
LEMMA StoreOperationSound ==
  ASSUME StoreInv, StoreOperation, UNCHANGED sourceVars
  PROVE  StoreInv'
<1> USE StateIs
<1>1. active' = active
  BY DEF sourceVars
<1>2. ASSUME NEW d \in Datalinks, NEW level \in Levels, SnapshotToggle(d, level) PROVE StoreInv'
  <2> DEFINE s0 == StoreState
             r == Open(s0, d, level)
  <2>1. shown[d] = level /\ level # None /\ open[d] = None /\ Becomes(r)
    BY <1>2 DEF SnapshotToggle
  <2>2. mounted /\ active[d] = level
    BY <2>1, ShownIsMounted DEF Follows
  <2>3. s0 \in StoreRec /\ Named(s0) /\ Follows(s0, active) /\ s0.open = open /\ s0.shown = shown
    OBVIOUS
  <2> HIDE DEF s0
  <2>4. /\ r \in StoreRec /\ Named(r) /\ r.shown = s0.shown /\ r.open[d].level = level
        /\ \A x \in Datalinks : x # d => r.open[x] = s0.open[x]
    BY <2>1, <2>3, OpenSound
  <2> HIDE DEF r
  <2>5. Follows(r, active')
    BY <1>1, <2>1, <2>2, <2>3, <2>4 DEF Follows
  <2> QED BY <1>1, <2>1, <2>2, <2>4, <2>5, BecomesSound
<1>3. ASSUME NEW d \in Datalinks, ClearWarning(d) PROVE StoreInv'
  <2> DEFINE s0 == StoreState
             c0 == Close(s0, d)
             r == [c0 EXCEPT !.shown[d] = None]
  <2>1. shown[d] # None /\ Becomes(r)
    BY <1>3 DEF ClearWarning
  <2>2. mounted
    BY <2>1, ShownIsMounted
  <2>3. s0 \in StoreRec /\ Named(s0) /\ Follows(s0, active)
    OBVIOUS
  <2> HIDE DEF s0
  <2>4. /\ c0 \in StoreRec /\ Named(c0) /\ c0.shown = s0.shown /\ c0.open[d] = None
        /\ \A x \in Datalinks : x # d => c0.open[x] = s0.open[x]
    BY <2>3, CloseSound
  <2> HIDE DEF c0
  <2>5. /\ r \in StoreRec /\ Named(r) /\ r.open = c0.open /\ r.shown[d] = None
        /\ \A x \in Datalinks : x # d => r.shown[x] = c0.shown[x]
    BY <2>4, ShownSound DEF LevelsOrNone
  <2> HIDE DEF r
  <2>6. Follows(r, active')
    BY <1>1, <2>3, <2>4, <2>5 DEF Follows
  <2> QED BY <1>1, <2>1, <2>2, <2>5, <2>6, BecomesSound
<1>4. ASSUME ClearAllWarnings PROVE StoreInv'
  <2> DEFINE links == {d \in Datalinks : shown[d] # None}
             s0 == StoreState
             r == Cleared(s0, links)
  <2>1. links # {} /\ Becomes(r)
    BY <1>4 DEF ClearAllWarnings
  <2>2. mounted
    BY <2>1, ShownIsMounted
  <2>3. s0 \in StoreRec /\ Named(s0) /\ Follows(s0, active) /\ links \in SUBSET Datalinks
    OBVIOUS
  <2> HIDE DEF s0, links
  <2>4. /\ r \in StoreRec /\ Named(r)
        /\ \A d \in links : r.open[d] = None /\ r.shown[d] = None
        /\ \A d \in Datalinks \ links : r.open[d] = s0.open[d] /\ r.shown[d] = s0.shown[d]
    BY <2>3, ClearedSound
  <2> HIDE DEF r
  <2>5. Follows(r, active')
    <3>1. \A d \in Datalinks : d \in links \/ d \in Datalinks \ links
      OBVIOUS
    <3> QED BY <1>1, <2>3, <2>4, <3>1 DEF Follows
  <2> QED BY <1>1, <2>1, <2>2, <2>4, <2>5, BecomesSound
<1>5. ASSUME LoadHistory PROVE StoreInv'
  <2>1. /\ ~mounted /\ mounted' = TRUE /\ loaded' = TRUE
        /\ UNCHANGED <<shown, open, timer, pendingSave, saving, file>>
        /\ \/ history' = file /\ counter' = IF file = <<>> THEN counter ELSE MaxId(file)
           \/ UNCHANGED <<history, counter>>
    BY <1>5 DEF LoadHistory
  <2>2. Untouched
    BY <2>1 DEF StoreInv
  <2>3. /\ file \in EntrySeq /\ \A i, j \in DOMAIN file : file[i].id = file[j].id => i = j
        /\ \A d \in Datalinks : open[d] = None
        /\ <<>> \in EntrySeq /\ DOMAIN <<>> = {}
    BY <2>2, EmptySeq DEF Untouched, EntrySeq
  <2>4. /\ history' \in EntrySeq /\ counter' \in Nat
        /\ \A i, j \in DOMAIN history' : history'[i].id = history'[j].id => i = j
        /\ \A i \in DOMAIN history' : history'[i].id <= counter'
    <3>1. CASE history' = file /\ file # <<>> /\ counter' = MaxId(file)
      BY <2>3, <3>1, MaxIdIs
    <3>2. CASE history' = <<>> /\ counter' = counter
      BY <2>3, <3>2 DEF StoreInv, StoreTypeOK
    <3> QED BY <2>1, <2>2, <3>1, <3>2 DEF Untouched
  <2>5. StoreState' \in StoreRec
    BY <2>1, <2>4 DEF StoreRec, StoreState
  <2>6. Follows(StoreState, active)' /\ Named(StoreState)'
    BY <1>1, <2>1, <2>3, <2>4 DEF Follows, Named, StoreState
  <2>7. StoreTypeOK'
    BY <2>1, <2>4 DEF StoreInv, StoreTypeOK
  <2> QED BY <1>1, <2>1, <2>5, <2>6, <2>7 DEF StoreInv
<1>6. ASSUME SaveTimerFires \/ SaveReturns \/ SaveFails PROVE StoreInv'
  <2>1. mounted
    BY <1>6 DEF StoreInv, Untouched, SaveTimerFires, SaveReturns, SaveFails
  <2>2. UNCHANGED <<shown, history, counter, open, loaded, mounted>> /\ StoreState' = StoreState
    BY <1>6 DEF SaveTimerFires, SaveReturns, SaveFails, StoreState
  <2>3. StoreTypeOK'
    <3>1. CASE SaveTimerFires
      BY <2>2, <3>1 DEF SaveTimerFires, StoreInv, StoreTypeOK
    <3>2. CASE SaveReturns
      BY <2>2, <3>2 DEF SaveReturns, StoreInv, StoreTypeOK
    <3>3. CASE SaveFails
      BY <2>2, <3>3 DEF SaveFails, StoreInv, StoreTypeOK
    <3> QED BY <1>6, <3>1, <3>2, <3>3
  <2> QED BY <1>1, <2>1, <2>2, <2>3 DEF StoreInv, Follows, Named
<1> QED BY <1>2, <1>3, <1>4, <1>5, <1>6 DEF StoreOperation

(* Each step of the store keeps the invariant. *)
LEMMA StoreStepSound ==
  ASSUME StoreInv, StoreNext
  PROVE  StoreInv'
  BY SeesEventSound, SeesResetSound, UserDisconnectSound, StoreOperationSound DEF StoreNext

(* The invariant gives the properties. *)
LEMMA StoreInvTells ==
  ASSUME StoreInv
  PROVE  StoreTypeOK /\ StoreAgrees
<1>1. OpenEntryIsOngoing /\ PanelAgrees
  BY StateIs DEF Follows, OpenEntryIsOngoing, PanelAgrees
<1>2. IdsNameEntries
  BY StateIs DEF Named, IdsNameEntries
<1> QED BY <1>1, <1>2 DEF StoreInv, StoreAgrees

------------------------------------------------------------------------------
(* The versions of the history that are saved. *)

(* What a later version h of the history keeps of an earlier one x. *)
Keeps(x, h) ==
  /\ Ids(x) \subseteq Ids(h) \/ Len(h) = MaxHistory
  /\ \A i \in DOMAIN x, j \in DOMAIN h : x[i].id = h[j].id /\ x[i].cleared => h[j].cleared

Below(x, n) == \A i \in DOMAIN x : x[i].id <= n

(* The file, the snapshot of a failed save and the one being sent are earlier *)
(* versions of the history, the file the earliest.                            *)
KeepInv ==
  ~forgot =>
    /\ Below(file, counter) /\ Keeps(file, history)
    /\ pendingSave # None =>
         /\ Below(pendingSave, counter)
         /\ Keeps(file, pendingSave) /\ Keeps(pendingSave, history)
    /\ saving # None =>
         /\ Below(saving.sent, counter)
         /\ Keeps(file, saving.sent) /\ Keeps(saving.sent, history)
         /\ saving.kind = "current" => pendingSave = None

(* The history of r keeps what that of s kept. *)
Onward(s, r) ==
  /\ s.counter <= r.counter
  /\ \A x \in EntrySeq : Below(x, s.counter) /\ Keeps(x, s.history) => Keeps(x, r.history)

(* Ids below a counter stay below a later one. *)
LEMMA BelowMore ==
  ASSUME NEW x \in EntrySeq, NEW n \in Nat, NEW m \in Nat, n <= m, Below(x, n)
  PROVE  Below(x, m)
<1>1. \A i \in DOMAIN x : x[i].id \in Nat
  BY HistoryIs
<1> QED BY <1>1 DEF Below

(* What is kept is kept by the next step, too. *)
LEMMA OnwardOn ==
  ASSUME NEW s \in StoreRec, NEW r \in StoreRec, NEW q \in StoreRec, Onward(s, r), Onward(r, q)
  PROVE  Onward(s, q)
<1>1. s.counter \in Nat /\ r.counter \in Nat /\ q.counter \in Nat
  BY StoreFields
<1>2. \A x \in EntrySeq : Below(x, s.counter) => Below(x, r.counter)
  BY <1>1, BelowMore DEF Onward
<1> QED BY <1>1, <1>2 DEF Onward

(* The history stays as it is. *)
LEMMA SameOnward ==
  ASSUME NEW s \in StoreRec, NEW r, r.history = s.history, r.counter = s.counter
  PROVE  Onward(s, r)
<1>1. s.counter \in Nat
  BY StoreFields
<1> QED BY <1>1 DEF Onward

(* Entries are closed in place. *)
LEMMA ClosedOnward ==
  ASSUME NEW s \in StoreRec, NEW r, NEW ids, r.counter = s.counter,
         r.history = [i \in DOMAIN s.history |->
                        IF s.history[i].id \in ids THEN [s.history[i] EXCEPT !.cleared = TRUE] ELSE s.history[i]]
  PROVE  Onward(s, r)
<1> DEFINE h == s.history
           c == [i \in DOMAIN h |-> IF h[i].id \in ids THEN [h[i] EXCEPT !.cleared = TRUE] ELSE h[i]]
<1>1. /\ s.counter \in Nat /\ h \in EntrySeq /\ Len(h) \in Nat /\ DOMAIN h = 1..Len(h)
      /\ \A i \in DOMAIN h : h[i] \in EntryRec
  BY StoreFields, HistoryIs
<1>2. /\ c \in EntrySeq /\ DOMAIN c = DOMAIN h
      /\ \A i \in DOMAIN h : c[i].id = h[i].id /\ c[i].link = h[i].link
      /\ \A i \in DOMAIN h : h[i].id \notin ids => c[i].cleared = h[i].cleared
  <2> HIDE DEF h
  <2> QED BY <1>1, ClosedInPlace DEF h
<1>3. \A i \in DOMAIN h : h[i].cleared => c[i].cleared
  <2>1. \A e \in EntryRec : [e EXCEPT !.cleared = TRUE].cleared
    BY DEF EntryRec
  <2> QED BY <1>1, <2>1
<1>4. Len(c) = Len(h)
  <2>1. Len(c) \in Nat /\ DOMAIN c = 1..Len(c)
    BY <1>2, HistoryIs
  <2>2. 1..Len(c) = 1..Len(h)
    BY <1>1, <1>2, <2>1
  <2>3. \A m, n \in Nat : 1..m = 1..n => m = n
    <3> SUFFICES ASSUME NEW m \in Nat, NEW n \in Nat, 1..m = 1..n PROVE m = n
      OBVIOUS
    <3>1. \A k \in Nat \ {0} : k <= m <=> k <= n
      <4>1. \A k \in Nat \ {0} : (k \in 1..m <=> k <= m) /\ (k \in 1..n <=> k <= n)
        OBVIOUS
      <4> QED BY <4>1
    <3>2. m # 0 => m <= n
      BY <3>1
    <3>3. n # 0 => n <= m
      BY <3>1
    <3> QED BY <3>2, <3>3
  <2> QED BY <1>1, <2>1, <2>2, <2>3
<1>5. r.history = c
  OBVIOUS
<1> HIDE DEF h, c
<1>7. Ids(c) = Ids(h)
  BY <1>2 DEF Ids
<1>6. ASSUME NEW x \in EntrySeq, Keeps(x, h) PROVE Keeps(x, c)
  <2>1. Ids(x) \subseteq Ids(c) \/ Len(c) = MaxHistory
    BY <1>4, <1>6, <1>7 DEF Keeps
  <2>2. ASSUME NEW i \in DOMAIN x, NEW j \in DOMAIN c, x[i].id = c[j].id, x[i].cleared PROVE c[j].cleared
    BY <1>2, <1>3, <1>6, <2>2 DEF Keeps
  <2> QED BY <2>1, <2>2 DEF Keeps
<1> HIDE DEF h
<1>8. r.history = c /\ s.history = h /\ r.counter = s.counter
  BY <1>5 DEF h
<1>9. s.counter <= r.counter
  BY <1>1
<1> QED BY <1>6, <1>8, <1>9 DEF Onward

(* A new entry pushes out an old one only when the cap is reached. *)
LEMMA OpenOnward ==
  ASSUME NEW s \in StoreRec, NEW d \in Datalinks, NEW level \in Levels
  PROVE  Onward(s, Open(s, d, level))
<1>1. s.history \in EntrySeq /\ s.counter \in Nat
  BY StoreFields
<1>2. CASE s.open[d] # None
  <2>1. Open(s, d, level) = s
    BY <1>2 DEF Open
  <2> QED BY <2>1, SameOnward
<1>3. CASE s.open[d] = None
  <2> DEFINE id == s.counter + 1
             h == s.history
             all == <<Entry(id, d)>> \o h
             n == IF Len(all) < MaxHistory THEN Len(all) ELSE MaxHistory
             c == SubSeq(all, 1, n)
             r == Open(s, d, level)
  <2>1. r.history = c /\ r.counter = id
    BY <1>3 DEF Open, StoreRec
  <2>2. Len(h) \in Nat /\ DOMAIN h = 1..Len(h) /\ h \in Seq(EntryRec)
    BY <1>1, HistoryIs DEF EntrySeq, EntryRec
  <2>3. Entry(id, d) \in EntryRec /\ <<Entry(id, d)>> \in Seq(EntryRec)
    BY <1>1 DEF Entry, EntryRec
  <2>4. /\ all \in Seq(EntryRec) /\ Len(all) = Len(h) + 1
        /\ all[1] = Entry(id, d)
        /\ \A i \in 1..Len(all) : i # 1 => i - 1 \in 1..Len(h) /\ all[i] = h[i - 1]
        /\ \A i \in 1..Len(h) : i + 1 \in 1..Len(all) /\ all[i + 1] = h[i]
    <3>1. /\ all \in Seq(EntryRec) /\ Len(all) = 1 + Len(h)
          /\ \A i \in 1..(1 + Len(h)) : all[i] = IF i <= 1 THEN <<Entry(id, d)>>[i] ELSE h[i - 1]
      BY <2>2, <2>3, ConcatProperties
    <3> HIDE DEF all
    <3> QED BY <2>2, <3>1
  <2>5. n \in Nat /\ n <= Len(all) /\ (n = Len(all) \/ n = MaxHistory)
    BY <2>2, <2>4
  <2>6. c \in Seq(EntryRec) /\ DOMAIN c = 1..n /\ Len(c) = n /\ \A i \in 1..n : c[i] = all[i] /\ i \in 1..Len(all)
    <3> HIDE DEF all, n
    <3>1. 1..n \subseteq 1..Len(all) /\ Len(all) \in Nat
      BY <2>4, <2>5, LenProperties
    <3>2. c \in Seq(EntryRec) /\ Len(c) = n /\ \A i \in 1..n : c[i] = all[i]
      BY <2>4, <2>5, <3>1, SubSeqProperties
    <3> QED BY <3>1, <3>2, LenProperties
  <2>7. (Len(h) = MaxHistory => n = MaxHistory) /\ (n = MaxHistory \/ n = Len(h) + 1)
    BY <2>2, <2>4
  <2> HIDE DEF c, n
  <2>8. n = Len(all) => Ids(h) \subseteq Ids(c)
    <3> SUFFICES ASSUME n = Len(all), NEW i \in 1..Len(h) PROVE h[i].id \in Ids(c)
      BY <2>2 DEF Ids
    <3>1. i + 1 \in 1..n /\ c[i + 1] = h[i]
      BY <2>4, <2>6
    <3> QED BY <2>6, <3>1 DEF Ids
  <2>9. ASSUME NEW i \in 1..n
        PROVE  c[i].id = id \/ \E j \in DOMAIN h : c[i] = h[j]
    <3>1. CASE i = 1
      <4>1. c[i] = Entry(id, d)
        BY <2>4, <2>6, <3>1
      <4> QED BY <4>1 DEF Entry
    <3>2. CASE i # 1
      <4>1. i - 1 \in DOMAIN h /\ c[i] = h[i - 1]
        BY <2>2, <2>4, <2>6, <3>2
      <4> QED BY <4>1
    <3> QED BY <3>1, <3>2
  <2>10. ASSUME NEW x \in EntrySeq, Below(x, s.counter), Keeps(x, h) PROVE Keeps(x, c)
    <3>1. Ids(x) \subseteq Ids(c) \/ Len(c) = MaxHistory
      <4>1. CASE n = MaxHistory
        BY <2>6, <4>1
      <4>2. CASE n # MaxHistory
        <5>1. n = Len(all) /\ Len(h) # MaxHistory
          BY <2>5, <2>7, <4>2
        <5> QED BY <2>8, <2>10, <5>1 DEF Keeps
      <4> QED BY <4>1, <4>2
    <3>2. ASSUME NEW i \in DOMAIN x, NEW j \in DOMAIN c, x[i].id = c[j].id, x[i].cleared PROVE c[j].cleared
      <4>1. x[i].id \in Nat /\ x[i].id <= s.counter
        BY <2>10, HistoryIs DEF Below
      <4>2. c[j].id # id
        BY <1>1, <3>2, <4>1
      <4> QED BY <2>6, <2>9, <2>10, <3>2, <4>2 DEF Keeps
    <3> QED BY <3>1, <3>2 DEF Keeps
  <2> HIDE DEF r, h
  <2>11. s.counter <= id
    BY <1>1
  <2> QED BY <2>1, <2>10, <2>11 DEF Onward, r, h
<1> QED BY <1>2, <1>3

(* closeOpenEntry. *)
LEMMA CloseOnward ==
  ASSUME NEW s \in StoreRec, NEW d \in Datalinks
  PROVE  Onward(s, Close(s, d))
<1>1. CASE s.open[d] = None
  <2>1. Close(s, d) = s
    BY <1>1 DEF Close
  <2> QED BY <2>1, SameOnward
<1>2. CASE s.open[d] # None
  <2> DEFINE ids == {s.open[d].id}
             r == Close(s, d)
  <2>1. r.history = [i \in DOMAIN s.history |->
          IF s.history[i].id \in ids THEN [s.history[i] EXCEPT !.cleared = TRUE] ELSE s.history[i]]
        /\ r.counter = s.counter
    BY <1>2 DEF Close, StoreRec
  <2> HIDE DEF ids, r
  <2> QED BY <2>1, ClosedOnward DEF r
<1> QED BY <1>1, <1>2

(* clearAllWarnings and the reset of the evaluator. *)
LEMMA ClearedOnward ==
  ASSUME NEW s \in StoreRec, NEW links
  PROVE  Onward(s, Cleared(s, links))
<1> DEFINE ids == {s.open[d].id : d \in {x \in links : s.open[x] # None}}
           r == Cleared(s, links)
<1>1. r.history = [i \in DOMAIN s.history |->
        IF s.history[i].id \in ids THEN [s.history[i] EXCEPT !.cleared = TRUE] ELSE s.history[i]]
      /\ r.counter = s.counter
  BY DEF Cleared, StoreRec
<1> HIDE DEF ids, r
<1> QED BY <1>1, ClosedOnward DEF r

(* The level shown is no part of the history. *)
LEMMA ShownOnward ==
  ASSUME NEW s \in StoreRec, NEW d, NEW v
  PROVE  Onward(s, [s EXCEPT !.shown[d] = v])
<1> DEFINE r == [s EXCEPT !.shown[d] = v]
<1>1. r.history = s.history /\ r.counter = s.counter
  BY DEF StoreRec
<1> HIDE DEF r
<1> QED BY <1>1, SameOnward DEF r

(* An activation and a drop keep what the history kept. *)
LEMMA ActivationOnward ==
  ASSUME NEW s \in StoreRec, Named(s), NEW e, e.link \in Datalinks, e.level \in Levels, NEW autolog
  PROVE  Onward(s, OnActivation(s, e, autolog))
<1> DEFINE d == e.link
           up == [s EXCEPT !.shown[d] = e.level]
           cl == IF s.open[d] # None /\ s.open[d].level # e.level THEN Close(up, d) ELSE up
           r == OnActivation(s, e, autolog)
<1>1. up \in StoreRec /\ Named(up) /\ Onward(s, up)
  BY ShownSound, ShownOnward DEF LevelsOrNone
<1> HIDE DEF up
<1>2. cl \in StoreRec /\ Named(cl) /\ Onward(up, cl)
  <2>1. CASE s.open[d] # None /\ s.open[d].level # e.level
    <3>1. cl = Close(up, d) /\ d \in Datalinks
      BY <2>1
    <3> HIDE DEF cl, d
    <3> QED BY <1>1, <3>1, CloseSound, CloseOnward
  <2>2. CASE ~(s.open[d] # None /\ s.open[d].level # e.level)
    <3>1. cl = up
      BY <2>2
    <3> HIDE DEF cl
    <3> QED BY <1>1, <3>1, SameOnward
  <2> QED BY <2>1, <2>2
<1> HIDE DEF cl
<1>3. Onward(s, cl)
  BY <1>1, <1>2, OnwardOn
<1>4. CASE ~e.recompute /\ autolog
  <2>1. r = Open(cl, d, e.level)
    BY <1>4 DEF OnActivation, cl, up
  <2>2. r \in StoreRec /\ Onward(cl, r)
    <3> HIDE DEF r
    <3> QED BY <1>2, <2>1, OpenSound, OpenOnward
  <2> HIDE DEF r
  <2>3. Onward(s, r)
    BY <1>2, <1>3, <2>2, OnwardOn
  <2> QED BY <2>3 DEF r
<1>5. CASE ~(~e.recompute /\ autolog)
  <2>1. r = cl
    BY <1>5 DEF OnActivation, cl, up
  <2> HIDE DEF r
  <2> QED BY <1>3, <2>1 DEF r
<1> QED BY <1>4, <1>5

(* A drop closes the entry and may open the next one. *)
LEMMA DropOnward ==
  ASSUME NEW s \in StoreRec, Named(s), NEW e, e.link \in Datalinks, e.level \in LevelsOrNone, NEW autolog
  PROVE  Onward(s, OnDrop(s, e, autolog))
<1> DEFINE d == e.link
           c0 == Close(s, d)
           cl == [c0 EXCEPT !.shown[d] = e.level]
           r == OnDrop(s, e, autolog)
<1>1. c0 \in StoreRec /\ Named(c0) /\ Onward(s, c0)
  BY CloseSound, CloseOnward
<1> HIDE DEF c0
<1>2. cl \in StoreRec /\ Named(cl) /\ Onward(c0, cl)
  BY <1>1, ShownSound, ShownOnward
<1> HIDE DEF cl
<1>3. Onward(s, cl)
  BY <1>1, <1>2, OnwardOn
<1>4. CASE e.level # None /\ autolog
  <2>1. r = Open(cl, d, e.level) /\ e.level \in Levels
    BY <1>4 DEF OnDrop, cl, c0, LevelsOrNone
  <2>2. r \in StoreRec /\ Onward(cl, r)
    <3> HIDE DEF r
    <3> QED BY <1>2, <2>1, OpenSound, OpenOnward
  <2> HIDE DEF r
  <2>3. Onward(s, r)
    BY <1>2, <1>3, <2>2, OnwardOn
  <2> QED BY <2>3 DEF r
<1>5. CASE ~(e.level # None /\ autolog)
  <2>1. r = cl
    BY <1>5 DEF OnDrop, cl, c0
  <2> HIDE DEF r
  <2> QED BY <1>3, <2>1 DEF r
<1> QED BY <1>4, <1>5

(* The sequences of the store. *)
LEMMA StoreSequences ==
  ASSUME StoreInv
  PROVE  /\ file \in EntrySeq /\ history \in EntrySeq /\ counter \in Nat
         /\ pendingSave # None => pendingSave \in EntrySeq
         /\ saving # None => saving.sent \in EntrySeq
  BY DEF StoreInv, StoreTypeOK

(* A store that goes onward keeps the file, the snapshot and the save under way. *)
LEMMA BecomesKeeps ==
  ASSUME StoreInv, KeepInv, NEW s \in StoreRec, Becomes(s), Onward(StoreState, s)
  PROVE  KeepInv'
<1>1. /\ history' = s.history /\ counter' = s.counter
      /\ UNCHANGED <<pendingSave, saving, file, forgot>>
  BY DEF Becomes
<1>2. /\ counter <= counter' /\ counter \in Nat /\ counter' \in Nat
      /\ \A x \in EntrySeq : Below(x, counter) /\ Keeps(x, history) => Keeps(x, history')
  BY <1>1, StateIs, StoreFields DEF Onward
<1>3. \A x \in EntrySeq : Below(x, counter) /\ Keeps(x, history) => Below(x, counter') /\ Keeps(x, history')
  <2> DEFINE n == counter
             m == counter'
             h == history
             h2 == history'
  <2>1. n \in Nat /\ m \in Nat /\ n <= m /\ \A x \in EntrySeq : Below(x, n) /\ Keeps(x, h) => Keeps(x, h2)
    BY <1>2
  <2> HIDE DEF n, m, h, h2
  <2>2. \A x \in EntrySeq : Below(x, n) => Below(x, m)
    BY <2>1, BelowMore
  <2>3. \A x \in EntrySeq : Below(x, n) /\ Keeps(x, h) => Below(x, m) /\ Keeps(x, h2)
    BY <2>1, <2>2
  <2> QED BY <2>3 DEF n, m, h, h2
<1> SUFFICES ASSUME ~forgot' PROVE
    /\ Below(file', counter') /\ Keeps(file', history')
    /\ pendingSave' # None =>
         /\ Below(pendingSave', counter')
         /\ Keeps(file', pendingSave') /\ Keeps(pendingSave', history')
    /\ saving' # None =>
         /\ Below(saving'.sent, counter')
         /\ Keeps(file', saving'.sent) /\ Keeps(saving'.sent, history')
         /\ saving'.kind = "current" => pendingSave' = None
  BY DEF KeepInv
<1> QED BY <1>1, <1>3, StoreSequences DEF KeepInv

(* A history keeps itself. *)
LEMMA KeepsItself ==
  ASSUME NEW h \in EntrySeq, \A i, j \in DOMAIN h : h[i].id = h[j].id => i = j
  PROVE  Keeps(h, h)
BY DEF Keeps

(* The history now. *)
LEMMA HistoryNow ==
  ASSUME StoreInv
  PROVE  Below(history, counter) /\ Keeps(history, history)
<1>1. Named(StoreState) /\ StoreState.history = history /\ StoreState.counter = counter
  BY StateIs
<1>2. Below(history, counter)
  BY <1>1 DEF Named, Below
<1>3. \A i, j \in DOMAIN history : history[i].id = history[j].id => i = j
  BY <1>1 DEF Named
<1> QED BY <1>2, <1>3, StoreSequences, KeepsItself

(* Before the first load nothing is claimed. *)
LEMMA KeepStarts ==
  ASSUME StoreInit
  PROVE  KeepInv
BY DEF StoreInit, KeepInv

(* Each step of the store keeps KeepInv. *)
LEMMA KeepStepSound ==
  ASSUME StoreInv, KeepInv, StoreNext
  PROVE  KeepInv'
<1>0. StoreState \in StoreRec /\ Named(StoreState)
  BY StateIs
<1>1. CASE StoreSeesEvent
  <2>1. PICK e \in Possible : Publish(<<e>>) /\ StoreReacts(e)
    BY <1>1 DEF StoreSeesEvent
  <2>2. PICK autolog \in BOOLEAN : Becomes(StoreAfter(e, autolog))
    BY <2>1 DEF StoreReacts
  <2>3. /\ e.link \in Datalinks /\ e.level \in LevelsOrNone
        /\ e.type = "activation" => e.level \in Levels
    BY StateIs, PossibleIs
  <2>4. PICK map \in Map : Follows(StoreState, map)
    BY StateIs
  <2> DEFINE s0 == StoreState
             m2 == Updated(map, e.link, e.level)
  <2>5. m2 \in Map
    BY <2>3, MapUpdated DEF Updated
  <2>6. s0 \in StoreRec /\ Named(s0) /\ Follows(s0, map)
    BY <1>0, <2>4
  <2>7. CASE e.type = "activation"
    <3> DEFINE r == OnActivation(s0, e, autolog)
    <3>1. Becomes(r)
      BY <2>2, <2>7 DEF StoreAfter
    <3> HIDE DEF s0, m2
    <3>2. r \in StoreRec /\ Onward(s0, r)
      BY <2>3, <2>5, <2>6, <2>7, ActivationSound, ActivationOnward DEF m2
    <3> HIDE DEF r
    <3> QED BY <3>1, <3>2, BecomesKeeps DEF s0
  <2>8. CASE e.type # "activation"
    <3> DEFINE r == OnDrop(s0, e, autolog)
    <3>1. Becomes(r)
      BY <2>2, <2>8 DEF StoreAfter
    <3> HIDE DEF s0, m2
    <3>2. r \in StoreRec /\ Onward(s0, r)
      BY <2>3, <2>5, <2>6, DropSound, DropOnward DEF m2
    <3> HIDE DEF r
    <3> QED BY <3>1, <3>2, BecomesKeeps DEF s0
  <2> QED BY <2>7, <2>8
<1>2. ASSUME UNCHANGED storeVars PROVE KeepInv'
  BY <1>2 DEF KeepInv, storeVars
<1>3. ASSUME NEW links \in SUBSET Datalinks, Becomes(Cleared(StoreState, links)) PROVE KeepInv'
  <2> DEFINE s0 == StoreState
             r == Cleared(s0, links)
  <2>1. s0 \in StoreRec /\ Named(s0) /\ Becomes(r)
    BY <1>0, <1>3
  <2> HIDE DEF s0
  <2>2. r \in StoreRec /\ Onward(s0, r)
    BY <2>1, ClearedSound, ClearedOnward
  <2> HIDE DEF r
  <2> QED BY <2>1, <2>2, BecomesKeeps DEF s0
<1>4. CASE StoreSeesReset
  <2> DEFINE links == {d \in Datalinks : active[d] # None}
  <2>1. links \in SUBSET Datalinks
    OBVIOUS
  <2>2. IF links = {} THEN UNCHANGED storeVars ELSE Becomes(Cleared(StoreState, links))
    BY <1>4 DEF StoreSeesReset
  <2> HIDE DEF links
  <2> QED BY <1>2, <1>3, <2>1, <2>2
<1>5. CASE UserDisconnect
  BY <1>5 DEF UserDisconnect, StoreReset, KeepInv
<1>6. CASE StoreOperation
  <2>1. ASSUME NEW d \in Datalinks, NEW level \in Levels, SnapshotToggle(d, level) PROVE KeepInv'
    <3> DEFINE s0 == StoreState
               r == Open(s0, d, level)
    <3>1. s0 \in StoreRec /\ Named(s0) /\ Becomes(r)
      BY <1>0, <2>1 DEF SnapshotToggle
    <3> HIDE DEF s0
    <3>2. r \in StoreRec /\ Onward(s0, r)
      BY <3>1, OpenSound, OpenOnward
    <3> HIDE DEF r
    <3> QED BY <3>1, <3>2, BecomesKeeps DEF s0
  <2>2. ASSUME NEW d \in Datalinks, ClearWarning(d) PROVE KeepInv'
    <3> DEFINE s0 == StoreState
               c0 == Close(s0, d)
               r == [c0 EXCEPT !.shown[d] = None]
    <3>1. s0 \in StoreRec /\ Named(s0) /\ Becomes(r)
      BY <1>0, <2>2 DEF ClearWarning
    <3> HIDE DEF s0
    <3>2. c0 \in StoreRec /\ Named(c0) /\ Onward(s0, c0)
      BY <3>1, CloseSound, CloseOnward
    <3> HIDE DEF c0
    <3>3. r \in StoreRec /\ Onward(c0, r)
      BY <3>2, ShownSound, ShownOnward DEF LevelsOrNone
    <3> HIDE DEF r
    <3>4. Onward(s0, r)
      BY <3>1, <3>2, <3>3, OnwardOn
    <3> QED BY <3>1, <3>3, <3>4, BecomesKeeps DEF s0
  <2>3. ASSUME ClearAllWarnings PROVE KeepInv'
    <3> DEFINE links == {d \in Datalinks : shown[d] # None}
    <3>1. links \in SUBSET Datalinks
      OBVIOUS
    <3>2. Becomes(Cleared(StoreState, links))
      BY <2>3 DEF ClearAllWarnings
    <3> HIDE DEF links
    <3> QED BY <1>3, <3>1, <3>2
  <2>4. ASSUME LoadHistory PROVE KeepInv'
    <3>1. ~mounted /\ UNCHANGED <<pendingSave, saving, file>> /\ mounted'
      BY <2>4 DEF LoadHistory
    <3>2. pendingSave = None /\ saving = None /\ file = Stored
      BY <3>1 DEF StoreInv, Untouched
    <3>3. CASE history' = file /\ counter' = IF file = <<>> THEN counter ELSE MaxId(file)
      <4>1. Keeps(file, file)
        BY <3>2, KeepsItself
      <4>2. Below(file, counter')
        <5>1. CASE file = <<>>
          <6>1. DOMAIN file = {}
            BY <5>1
          <6> QED BY <6>1 DEF Below
        <5>2. CASE file # <<>>
          BY <3>2, <3>3, <5>2, MaxIdIs DEF Below
        <5> QED BY <5>1, <5>2
      <4> QED BY <3>1, <3>2, <3>3, <4>1, <4>2 DEF KeepInv
    <3>4. CASE UNCHANGED <<history, counter, forgot>>
      BY <3>1, <3>2, <3>4 DEF KeepInv
    <3> QED BY <2>4, <3>3, <3>4 DEF LoadHistory
  <2>5. ASSUME SaveTimerFires PROVE KeepInv'
    BY <2>5, HistoryNow DEF SaveTimerFires, KeepInv
  <2>6. ASSUME SaveReturns PROVE KeepInv'
    <3>1. /\ saving # None /\ file' \in {saving.sent, file}
          /\ UNCHANGED <<history, counter, forgot>>
      BY <2>6 DEF SaveReturns
    <3>2. ~forgot => Below(file', counter) /\ Keeps(file', history)
      BY <3>1 DEF KeepInv
    <3>3. CASE saving.kind = "pending"
      <4>1. pendingSave' = None /\ saving' = [kind |-> "current", sent |-> history]
        BY <2>6, <3>3 DEF SaveReturns
      <4> QED BY <3>1, <3>2, <4>1, HistoryNow DEF KeepInv
    <3>4. CASE saving.kind # "pending"
      <4>1. saving.kind = "current"
        BY <3>1, <3>4 DEF StoreInv, StoreTypeOK
      <4>2. saving' = None /\ pendingSave' = pendingSave
        BY <2>6, <3>4 DEF SaveReturns
      <4> QED BY <3>1, <3>2, <4>1, <4>2 DEF KeepInv
    <3> QED BY <3>3, <3>4
  <2>7. ASSUME SaveFails PROVE KeepInv'
    BY <2>7, HistoryNow DEF SaveFails, KeepInv
  <2> QED BY <1>6, <2>1, <2>2, <2>3, <2>4, <2>5, <2>6, <2>7 DEF StoreOperation
<1> QED BY <1>1, <1>4, <1>5, <1>6 DEF StoreNext

(* The file is changed by an answer to a save, to a version that keeps it. *)
SaveKeeps ==
  (file' # file /\ ~forgot) =>
       /\ Ids(file) \subseteq Ids(file') \/ Len(file') = MaxHistory
       /\ \A i \in DOMAIN file, j \in DOMAIN file' :
            (file[i].id = file'[j].id /\ file[i].cleared) => file'[j].cleared

(* Only the answer to a save changes the file. *)
LEMMA SaveKeepsSound ==
  ASSUME KeepInv, StoreNext
  PROVE  SaveKeeps
<1> SUFFICES ASSUME file' # file, ~forgot
             PROVE  Keeps(file, file')
  BY DEF SaveKeeps, Keeps
<1>1. SaveReturns
  BY DEF StoreNext, StoreSeesEvent, StoreSeesReset, StoreReacts, Becomes, storeVars, UserDisconnect,
         StoreReset, StoreOperation, SnapshotToggle, ClearWarning, ClearAllWarnings, LoadHistory,
         SaveTimerFires, SaveFails
<1> QED BY <1>1 DEF SaveReturns, KeepInv

HIDE StoreAssumption DEF StoreAssumption

------------------------------------------------------------------------------
(* WarningToasts. *)
USE ToastAssumption DEF ToastAssumption

ToastRec == [id : Nat, link : Datalinks, level : Levels, class : {"activation", "escalation"},
             displayed : BOOLEAN, queued : BOOLEAN]
QueueRec == [id : Nat, link : Datalinks, level : Levels]
PairRec == [toasts : Seq(ToastRec), queue : Seq(QueueRec)]

(* A queued toast is hidden and in the queue, as it was when it was queued. *)
Accounted(s) ==
  /\ s \in PairRec
  /\ Distinct(s.toasts) /\ Distinct(s.queue)
  /\ \A t \in ToSet(s.toasts) :
       t.queued => ~t.displayed /\ \E q \in ToSet(s.queue) : q.id = t.id
  /\ \A t \in ToSet(s.toasts), q \in ToSet(s.queue) :
       t.id = q.id => t.queued /\ t.link = q.link /\ t.level = q.level

(* The toasts on the screen follow a map of the levels, one for each link that *)
(* is not doubled.                                                             *)
Agree(ts, map, dbl) ==
  /\ \A t \in ToSet(ts) : t.displayed /\ t.link \notin dbl => t.level = map[t.link]
  /\ \A t, u \in ToSet(ts) :
       t.displayed /\ u.displayed /\ t.link = u.link /\ t.link \notin dbl => t.id = u.id

OnScreen(ts) == {t.id : t \in {x \in ToSet(ts) : x.displayed}}

(* The toasts that are displayed. *)
LEMMA DisplayedIs ==
  ASSUME NEW ts \in Seq(ToastRec)
  PROVE  /\ Displayed(ts) \in Seq(ToastRec)
         /\ ToSet(Displayed(ts)) = {t \in ToSet(ts) : t.displayed}
         /\ ToastIds(Displayed(ts)) = OnScreen(ts)
         /\ IsFiniteSet(OnScreen(ts)) /\ Cardinality(OnScreen(ts)) \in Nat
         /\ Len(Displayed(ts)) \in Nat
         /\ Distinct(ts) => Len(Displayed(ts)) = Cardinality(OnScreen(ts))
<1> DEFINE S == {t \in ToSet(ts) : t.displayed}
           k == Displayed(ts)
<1>1. k \in Seq(ToastRec) /\ ToSet(k) = ToSet(ts) \cap S /\ (Distinct(ts) => Distinct(k))
  <2>1. k = Kept(ts, S)
    BY DEF Displayed
  <2> HIDE DEF S, k
  <2> QED BY <2>1, KeptIs
<1>2. ToSet(ts) \cap S = S
  OBVIOUS
<1> HIDE DEF k
<1>3. ToastIds(k) = OnScreen(ts)
  <2>1. ToastIds(k) = {x.id : x \in ToSet(k)}
    BY <1>1, SetOf
  <2>2. OnScreen(ts) = {x.id : x \in S}
    BY DEF OnScreen
  <2> HIDE DEF S
  <2> QED BY <1>1, <1>2, <2>1, <2>2
<1>4. /\ IsFiniteSet(ToastIds(k)) /\ Cardinality(ToastIds(k)) \in Nat
      /\ Distinct(k) => Cardinality(ToastIds(k)) = Len(k)
  BY <1>1, Counted
<1>5. Len(k) \in Nat
  BY <1>1, LenProperties
<1> QED BY <1>1, <1>2, <1>3, <1>4, <1>5 DEF k

(* A toast less on the screen, or a toast more. *)
LEMMA ScreenCounts ==
  ASSUME NEW A, IsFiniteSet(A), NEW x
  PROVE  /\ Cardinality(A) \in Nat
         /\ Cardinality(A \cup {x}) <= Cardinality(A) + 1
         /\ x \in A => Cardinality(A \ {x}) = Cardinality(A) - 1
         /\ \A B \in SUBSET A : IsFiniteSet(B) /\ Cardinality(B) <= Cardinality(A) /\ Cardinality(B) \in Nat
<1>1. Cardinality(A) \in Nat
  BY FS_CardinalityType
<1>2. Cardinality(A \cup {x}) <= Cardinality(A) + 1
  <2>1. Cardinality(A \cup {x}) = IF x \in A THEN Cardinality(A) ELSE Cardinality(A) + 1
    BY FS_AddElement
  <2> QED BY <1>1, <2>1
<1>3. x \in A => Cardinality(A \ {x}) = Cardinality(A) - 1
  BY FS_RemoveElement
<1>4. \A B \in SUBSET A : IsFiniteSet(B) /\ Cardinality(B) <= Cardinality(A)
  BY FS_Subset
<1>5. \A B \in SUBSET A : Cardinality(B) \in Nat
  BY <1>4, FS_CardinalityType
<1> QED BY <1>1, <1>2, <1>3, <1>4, <1>5

(* There is an id that no toast and no queue item has. *)
LEMMA FreshIs ==
  ASSUME NEW s \in PairRec
  PROVE  /\ FreshId(s) \in Nat
         /\ FreshId(s) \notin ToastIds(s.toasts) /\ FreshId(s) \notin ToastIds(s.queue)
<1> DEFINE A == ToastIds(s.toasts)
           B == ToastIds(s.queue)
           n == Len(s.toasts)
           m == Len(s.queue)
           I == 1..(n + m + 1)
<1>1. s.toasts \in Seq(ToastRec) /\ s.queue \in Seq(QueueRec)
  BY DEF PairRec
<1>2. /\ IsFiniteSet(A) /\ Cardinality(A) \in Nat /\ Cardinality(A) <= n
      /\ IsFiniteSet(B) /\ Cardinality(B) \in Nat /\ Cardinality(B) <= m
  BY <1>1, Counted
<1>3. n \in Nat /\ m \in Nat
  BY <1>1, LenProperties
<1> HIDE DEF A, B, n, m
<1>4. IsFiniteSet(I) /\ Cardinality(I) = n + m + 1
  <2>1. 1 \in Int /\ n + m + 1 \in Int /\ ~(1 > n + m + 1) /\ n + m + 1 - 1 + 1 = n + m + 1
    BY <1>3
  <2> DEFINE b == n + m + 1
  <2>2. b \in Int /\ ~(1 > b) /\ b - 1 + 1 = b
    BY <2>1
  <2> HIDE DEF b
  <2>3. IsFiniteSet(1..b) /\ Cardinality(1..b) = b
    BY <2>2, FS_Interval
  <2> QED BY <2>3 DEF b
<1>5. IsFiniteSet(A \cup B) /\ Cardinality(A \cup B) <= n + m
  <2>1. /\ IsFiniteSet(A \cup B)
        /\ Cardinality(A \cup B) = Cardinality(A) + Cardinality(B) - Cardinality(A \cap B)
    BY <1>2, FS_Union
  <2>2. Cardinality(A \cap B) \in Nat
    BY <1>2, FS_Intersection, FS_CardinalityType
  <2> QED BY <1>2, <1>3, <2>1, <2>2
<1>6. \E id \in I : id \notin A \cup B
  <2> SUFFICES ASSUME I \in SUBSET (A \cup B) PROVE FALSE
    OBVIOUS
  <2> DEFINE U == A \cup B
  <2> HIDE DEF I, U
  <2>1. Cardinality(I) <= Cardinality(U) /\ Cardinality(U) \in Nat
    BY <1>5, FS_Subset, FS_CardinalityType DEF U
  <2> QED BY <1>3, <1>4, <1>5, <2>1 DEF U
<1>7. FreshId(s) = CHOOSE id \in I : id \notin A \cup B
  BY DEF FreshId, A, B, n, m
<1>8. FreshId(s) \in I /\ FreshId(s) \notin A \cup B
  <2> HIDE DEF I
  <2> QED BY <1>6, <1>7
<1> QED BY <1>3, <1>8 DEF A, B

(* The fields of a pair of lists. *)
LEMMA PairFields ==
  ASSUME NEW s \in PairRec
  PROVE  /\ s.toasts \in Seq(ToastRec) /\ s.queue \in Seq(QueueRec)
         /\ \A v \in Seq(ToastRec) : LET r == [s EXCEPT !.toasts = v]
               IN r \in PairRec /\ r.toasts = v /\ r.queue = s.queue
         /\ \A v \in Seq(QueueRec) : LET r == [s EXCEPT !.queue = v]
               IN r \in PairRec /\ r.toasts = s.toasts /\ r.queue = v
<1>1. s.toasts \in Seq(ToastRec) /\ s.queue \in Seq(QueueRec)
  BY DEF PairRec
<1>2. ASSUME NEW v \in Seq(ToastRec)
      PROVE  LET r == [s EXCEPT !.toasts = v]
               IN r \in PairRec /\ r.toasts = v /\ r.queue = s.queue
  BY DEF PairRec
<1>3. ASSUME NEW v \in Seq(QueueRec)
      PROVE LET r == [s EXCEPT !.queue = v]
               IN r \in PairRec /\ r.toasts = s.toasts /\ r.queue = v
  BY DEF PairRec
<1> QED BY <1>1, <1>2, <1>3

(* What the members of the two lists are, as sets. *)
LEMMA Members ==
  ASSUME NEW s, Accounted(s)
  PROVE  /\ s \in PairRec /\ s.toasts \in Seq(ToastRec) /\ s.queue \in Seq(QueueRec)
         /\ \A t \in ToSet(s.toasts) : /\ t \in ToastRec /\ t.id \in Nat /\ t.link \in Datalinks
                                       /\ t.level \in Levels /\ t.displayed \in BOOLEAN
                                       /\ t.queued \in BOOLEAN /\ t.id \in ToastIds(s.toasts)
         /\ \A q \in ToSet(s.queue) : q \in QueueRec /\ q.id \in ToastIds(s.queue)
         /\ \A t, u \in ToSet(s.toasts) : t.id = u.id => t = u
<1>1. s \in PairRec /\ s.toasts \in Seq(ToastRec) /\ s.queue \in Seq(QueueRec)
      /\ Distinct(s.toasts)
  BY PairFields DEF Accounted
<1>2. ToSet(s.toasts) \subseteq ToastRec /\ ToSet(s.queue) \subseteq QueueRec
      /\ \A t, u \in ToSet(s.toasts) : t.id = u.id => t = u
  BY <1>1, SetOf
<1>3. /\ \A t \in ToSet(s.toasts) : t.id \in ToastIds(s.toasts)
      /\ \A q \in ToSet(s.queue) : q.id \in ToastIds(s.queue)
  BY <1>1, SetOf
<1> QED BY <1>1, <1>2, <1>3 DEF ToastRec

(* The toasts ts2 are the toasts ts and a new one. *)
OneMore(ts2, ts, e, shows) ==
  \E n : /\ ToSet(ts2) = ToSet(ts) \cup {n}
         /\ n.link = e.link /\ n.level = e.level /\ n.displayed = shows
         /\ n.id \notin ToastIds(ts)

(* A toast is added. *)
LEMMA AddedSound ==
  ASSUME NEW s, Accounted(s), NEW e, e.link \in Datalinks, e.level \in Levels,
         NEW class \in {"activation", "escalation"}, NEW shows \in BOOLEAN
  PROVE  LET r == Added(s, e, class, shows)
         IN  Accounted(r) /\ OneMore(r.toasts, s.toasts, e, shows)
<1> DEFINE id == FreshId(s)
           n == Toast(id, e, class, shows)
           v == Append(s.toasts, n)
           r == Added(s, e, class, shows)
<1>1. id \in Nat /\ id \notin ToastIds(s.toasts) /\ id \notin ToastIds(s.queue)
  BY Members, FreshIs
<1>2. r = [s EXCEPT !.toasts = v]
  BY DEF Added
<1> HIDE DEF id
<1>3. /\ n \in ToastRec /\ n.id = id /\ n.link = e.link /\ n.level = e.level
      /\ n.displayed = shows /\ n.queued = FALSE
  BY <1>1 DEF Toast, ToastRec
<1> HIDE DEF n
<1>4. v \in Seq(ToastRec) /\ ToSet(v) = ToSet(s.toasts) \cup {n} /\ Distinct(v)
  BY <1>1, <1>3, Members, AppendIs DEF Accounted
<1> HIDE DEF v, r
<1>5. r \in PairRec /\ r.toasts = v /\ r.queue = s.queue
  <2>1. s \in PairRec
    BY Members
  <2> QED BY <1>2, <1>4, <2>1, PairFields
<1>6. \A q \in ToSet(s.queue) : q.id # n.id
  BY <1>1, <1>3, Members
<1>7. Accounted(r)
  BY <1>3, <1>4, <1>5, <1>6 DEF Accounted
<1> QED BY <1>1, <1>3, <1>4, <1>5, <1>7 DEF r, OneMore

(* Toasts are taken away. *)
LEMMA KeptSound ==
  ASSUME NEW s, Accounted(s), NEW S
  PROVE  LET r == [s EXCEPT !.toasts = Kept(@, S)]
         IN  Accounted(r) /\ ToSet(r.toasts) = ToSet(s.toasts) \cap S /\ r.queue = s.queue
<1> DEFINE v == Kept(s.toasts, S)
           r == [s EXCEPT !.toasts = v]
<1>1. v \in Seq(ToastRec) /\ ToSet(v) = ToSet(s.toasts) \cap S /\ Distinct(v)
  BY Members, KeptIs DEF Accounted
<1>2. r = [s EXCEPT !.toasts = Kept(@, S)]
  OBVIOUS
<1> HIDE DEF v
<1>3. r \in PairRec /\ r.toasts = v /\ r.queue = s.queue
  BY <1>1, Members, PairFields
<1> HIDE DEF r
<1>4. Accounted(r)
  BY <1>1, <1>3 DEF Accounted
<1> QED BY <1>1, <1>2, <1>3, <1>4

(* A toast that is displayed is queued. *)
LEMMA MovedSound ==
  ASSUME NEW s, Accounted(s), NEW t \in ToSet(s.toasts), t.displayed
  PROVE  LET r == MovedToPending(s, t)
         IN  /\ Accounted(r)
             /\ \A x \in ToSet(r.toasts) : x.displayed => x \in ToSet(s.toasts) /\ x.id # t.id
<1> DEFINE ts == s.toasts
           hid(x) == [x EXCEPT !.displayed = FALSE, !.queued = TRUE]
           v == [i \in DOMAIN ts |-> IF ts[i].id = t.id THEN hid(ts[i]) ELSE ts[i]]
           item == [id |-> t.id, link |-> t.link, level |-> t.level]
           w == Append(s.queue, item)
           r == MovedToPending(s, t)
<1>1. r = [s EXCEPT !.toasts = v, !.queue = w]
  BY DEF MovedToPending
<1>2. /\ s \in PairRec /\ ts \in Seq(ToastRec) /\ s.queue \in Seq(QueueRec)
      /\ t \in ToastRec /\ Distinct(ts) /\ Distinct(s.queue)
      /\ \A x \in ToSet(ts) : x \in ToastRec /\ (x.id = t.id => x = t)
  BY Members DEF Accounted
<1>3. \A x \in ToastRec : LET y == hid(x)
                         IN y \in ToastRec /\ y.id = x.id /\ y.link = x.link /\ y.level = x.level
                            /\ y.displayed = FALSE /\ y.queued = TRUE
  BY DEF ToastRec
<1>4. /\ item \in QueueRec /\ item.id = t.id /\ item.link = t.link /\ item.level = t.level
      /\ \A q \in ToSet(s.queue) : q.id # t.id
  <2>1. item \in QueueRec /\ item.id = t.id /\ item.link = t.link /\ item.level = t.level
    BY <1>2 DEF QueueRec, ToastRec
  <2>2. ~t.queued
    BY DEF Accounted
  <2> QED BY <2>1, <2>2 DEF Accounted
<1> HIDE DEF item
<1>5. w \in Seq(QueueRec) /\ ToSet(w) = ToSet(s.queue) \cup {item} /\ Distinct(w)
  <2>1. item.id \notin ToastIds(s.queue)
    BY <1>2, <1>4, SetOf
  <2> QED BY <1>2, <1>4, <2>1, AppendIs
<1>6. ASSUME NEW i \in DOMAIN ts
      PROVE  /\ ts[i] \in ToSet(ts) /\ ts[i] \in ToastRec /\ v[i] \in ToastRec /\ v[i].id = ts[i].id
             /\ \/ ts[i].id # t.id /\ v[i] = ts[i]
                \/ ts[i] = t /\ v[i] = hid(t)
  <2>1. ts[i] \in ToSet(ts)
    BY DEF ToSet
  <2> HIDE DEF hid
  <2>2. v[i] = IF ts[i].id = t.id THEN hid(ts[i]) ELSE ts[i]
    OBVIOUS
  <2> QED BY <1>2, <1>3, <2>1, <2>2
<1>7. v \in Seq(ToastRec) /\ ToSet(v) = {v[i] : i \in DOMAIN ts} /\ Distinct(v)
  <2>1. v \in [DOMAIN ts -> ToastRec] /\ \A i \in DOMAIN ts : v[i].id = ts[i].id
    BY <1>6
  <2> HIDE DEF v, ts
  <2> QED BY <1>2, <2>1, ReplacedIs
<1> HIDE DEF v, w, r
<1>8. r \in PairRec /\ r.toasts = v /\ r.queue = w
  <2>1. s \in PairRec /\ v \in Seq(ToastRec) /\ w \in Seq(QueueRec)
    BY <1>2, <1>5, <1>7
  <2> QED BY <1>1, <2>1 DEF PairRec
<1> DEFINE h == hid(t)
<1>9. \A x \in ToSet(v) : \/ x \in ToSet(ts) /\ x.id # t.id
                         \/ x = h
  BY <1>6, <1>7
<1>10. h.id = t.id /\ h.link = t.link /\ h.level = t.level /\ h.displayed = FALSE /\ h.queued = TRUE
  BY <1>2, <1>3
<1> HIDE DEF h, hid, ts
<1>11. ASSUME NEW x \in ToSet(v), x.queued
       PROVE  ~x.displayed /\ \E q \in ToSet(w) : q.id = x.id
  <2>1. CASE x = h
    BY <1>4, <1>5, <1>10, <2>1
  <2>2. CASE x \in ToSet(ts) /\ x.id # t.id
    BY <1>5, <1>11, <2>2 DEF Accounted, ts
  <2> QED BY <1>9, <2>1, <2>2
<1>12. ASSUME NEW x \in ToSet(v), NEW q \in ToSet(w), x.id = q.id
       PROVE  x.queued /\ x.link = q.link /\ x.level = q.level
  <2>1. CASE x = h
    <3>1. q = item
      BY <1>4, <1>5, <1>10, <1>12, <2>1
    <3> QED BY <1>4, <1>10, <2>1, <3>1
  <2>2. CASE x \in ToSet(ts) /\ x.id # t.id
    <3>1. q \in ToSet(s.queue)
      BY <1>4, <1>5, <1>12, <2>2
    <3> QED BY <1>12, <2>2, <3>1 DEF Accounted, ts
  <2> QED BY <1>9, <2>1, <2>2
<1>13. Accounted(r)
  BY <1>5, <1>7, <1>8, <1>11, <1>12 DEF Accounted
<1>14. \A x \in ToSet(v) : x.displayed => x \in ToSet(s.toasts) /\ x.id # t.id
  BY <1>9, <1>10 DEF ts
<1> QED BY <1>8, <1>13, <1>14 DEF r

(* A toast gives way. *)
LEMMA EvictedSound ==
  ASSUME NEW s, Accounted(s), NEW t \in ToSet(s.toasts), t.displayed, NEW forGood
  PROVE  LET r == Evicted(s, t, forGood)
         IN  /\ Accounted(r)
             /\ \A x \in ToSet(r.toasts) : x.displayed => x \in ToSet(s.toasts) /\ x.id # t.id
<1>1. CASE ~forGood
  <2>1. Evicted(s, t, forGood) = MovedToPending(s, t)
    BY <1>1 DEF Evicted
  <2> QED BY <2>1, MovedSound
<1>2. CASE forGood
  <2> DEFINE S == {x \in ToSet(s.toasts) : x.id # t.id}
             r == Evicted(s, t, forGood)
  <2>1. r = [s EXCEPT !.toasts = Kept(@, S)]
    BY <1>2 DEF Evicted, Without
  <2>2. \A x : x \in ToSet(s.toasts) \cap S => x \in ToSet(s.toasts) /\ x.id # t.id
    OBVIOUS
  <2> HIDE DEF S, r
  <2>3. Accounted(r) /\ ToSet(r.toasts) = ToSet(s.toasts) \cap S
    BY <2>1, KeptSound
  <2> QED BY <2>2, <2>3 DEF r
<1> QED BY <1>1, <1>2

(* The stack agrees with the levels and is not too large. *)
Fits(s, map, dbl) ==
  /\ Accounted(s)
  /\ Agree(s.toasts, map, dbl)
  /\ Cardinality(OnScreen(s.toasts)) <= MaxStack

Free(s, d, dbl) == d \notin dbl => \A t \in ToSet(s.toasts) : t.displayed => t.link # d

(* The toasts on the screen are counted by their ids. *)
LEMMA ScreenIs ==
  ASSUME NEW s, Accounted(s)
  PROVE  /\ IsFiniteSet(OnScreen(s.toasts)) /\ Cardinality(OnScreen(s.toasts)) \in Nat
         /\ Len(Displayed(s.toasts)) = Cardinality(OnScreen(s.toasts))
         /\ \A id : id \in OnScreen(s.toasts) <=> \E t \in ToSet(s.toasts) : t.displayed /\ t.id = id
<1>1. s.toasts \in Seq(ToastRec) /\ Distinct(s.toasts)
  BY Members DEF Accounted
<1>2. \A id : id \in OnScreen(s.toasts) <=> \E t \in ToSet(s.toasts) : t.displayed /\ t.id = id
  BY DEF OnScreen
<1> QED BY <1>1, <1>2, DisplayedIs

(* Fewer toasts on the screen. *)
LEMMA Fewer ==
  ASSUME NEW s, NEW map, NEW dbl, Fits(s, map, dbl), NEW r, Accounted(r),
         \A x \in ToSet(r.toasts) : x.displayed => x \in ToSet(s.toasts)
  PROVE  /\ Fits(r, map, dbl)
         /\ \A d : Free(s, d, dbl) => Free(r, d, dbl)
         /\ \A t \in ToSet(s.toasts) :
              t.displayed /\ (\A x \in ToSet(r.toasts) : x.displayed => x.id # t.id)
                => Cardinality(OnScreen(r.toasts)) + 1 <= MaxStack
<1> DEFINE A == OnScreen(s.toasts)
           B == OnScreen(r.toasts)
<1>1. /\ IsFiniteSet(A) /\ Cardinality(A) \in Nat /\ Cardinality(A) <= MaxStack
      /\ Cardinality(B) \in Nat
      /\ \A id : id \in A <=> \E t \in ToSet(s.toasts) : t.displayed /\ t.id = id
      /\ \A id : id \in B <=> \E t \in ToSet(r.toasts) : t.displayed /\ t.id = id
  BY ScreenIs DEF Fits
<1> HIDE DEF A, B
<1>2. B \in SUBSET A
  BY <1>1
<1>3. Cardinality(B) <= Cardinality(A)
  BY <1>1, <1>2, FS_Subset
<1>4. Agree(r.toasts, map, dbl)
  BY DEF Fits, Agree
<1>5. Fits(r, map, dbl)
  BY <1>1, <1>3, <1>4 DEF Fits, B
<1>6. \A d : Free(s, d, dbl) => Free(r, d, dbl)
  BY DEF Free
<1>7. ASSUME NEW t \in ToSet(s.toasts), t.displayed,
             \A x \in ToSet(r.toasts) : x.displayed => x.id # t.id
      PROVE  Cardinality(B) + 1 <= MaxStack
  <2>1. t.id \in A /\ t.id \notin B
    BY <1>1, <1>7
  <2>2. B \in SUBSET (A \ {t.id})
    BY <1>2, <2>1
  <2>3. IsFiniteSet(A \ {t.id}) /\ Cardinality(A \ {t.id}) = Cardinality(A) - 1
    BY <1>1, <2>1, FS_RemoveElement
  <2>4. Cardinality(B) <= Cardinality(A) - 1
    BY <2>2, <2>3, FS_Subset
  <2> QED BY <1>1, <2>4
<1> QED BY <1>5, <1>6, <1>7 DEF B

(* A toast more, where there is room or it is not shown. *)
LEMMA AddedFits ==
  ASSUME NEW s, NEW map, NEW dbl, Fits(s, map, dbl), NEW e, e.link \in Datalinks, e.level \in Levels,
         map[e.link] = e.level, Free(s, e.link, dbl),
         NEW class \in {"activation", "escalation"}, NEW shows \in BOOLEAN,
         shows => Cardinality(OnScreen(s.toasts)) + 1 <= MaxStack
  PROVE  Fits(Added(s, e, class, shows), map, dbl)
<1> DEFINE r == Added(s, e, class, shows)
           A == OnScreen(s.toasts)
           B == OnScreen(r.toasts)
<1>1. Accounted(r) /\ OneMore(r.toasts, s.toasts, e, shows)
  <2>1. Accounted(s)
    BY DEF Fits
  <2> QED BY <2>1, AddedSound
<1>2. PICK n : /\ ToSet(r.toasts) = ToSet(s.toasts) \cup {n}
               /\ n.link = e.link /\ n.level = e.level /\ n.displayed = shows
               /\ n.id \notin ToastIds(s.toasts)
  BY <1>1 DEF OneMore
<1> HIDE DEF r
<1>3. /\ IsFiniteSet(A) /\ Cardinality(A) \in Nat /\ Cardinality(A) <= MaxStack
      /\ \A id : id \in A <=> \E t \in ToSet(s.toasts) : t.displayed /\ t.id = id
      /\ \A id : id \in B <=> \E t \in ToSet(r.toasts) : t.displayed /\ t.id = id
  BY <1>1, ScreenIs DEF Fits
<1> HIDE DEF A, B
<1>4. Cardinality(B) <= MaxStack
  <2>1. CASE ~shows
    <3>1. B \in SUBSET A
      BY <1>2, <1>3, <2>1
    <3>2. Cardinality(B) <= Cardinality(A) /\ Cardinality(B) \in Nat
      BY <1>3, <3>1, ScreenCounts
    <3> QED BY <1>3, <3>2
  <2>2. CASE shows
    <3>1. B \in SUBSET (A \cup {n.id})
      BY <1>2, <1>3
    <3>2. IsFiniteSet(A \cup {n.id}) /\ Cardinality(A \cup {n.id}) <= Cardinality(A) + 1
      BY <1>3, FS_AddElement, ScreenCounts
    <3>3. Cardinality(B) <= Cardinality(A \cup {n.id}) /\ Cardinality(B) \in Nat /\ Cardinality(A \cup {n.id}) \in Nat
      BY <3>1, <3>2, ScreenCounts
    <3>4. Cardinality(A) + 1 <= MaxStack
      BY <2>2 DEF A
    <3> QED BY <1>3, <3>2, <3>3, <3>4
  <2> QED BY <2>1, <2>2
<1>5. Agree(r.toasts, map, dbl)
  <2>1. ASSUME NEW t \in ToSet(r.toasts), t.displayed, t.link \notin dbl PROVE t.level = map[t.link]
    BY <1>2, <2>1 DEF Fits, Agree
  <2>2. ASSUME NEW t \in ToSet(r.toasts), NEW u \in ToSet(r.toasts), t.displayed, u.displayed,
               t.link = u.link, t.link \notin dbl
        PROVE  t.id = u.id
    <3>1. CASE t \in ToSet(s.toasts) /\ u \in ToSet(s.toasts)
      BY <2>2, <3>1 DEF Fits, Agree
    <3>2. CASE t = n \/ u = n
      BY <1>2, <2>2, <3>2 DEF Free
    <3> QED BY <1>2, <3>1, <3>2
  <2> QED BY <2>1, <2>2 DEF Agree
<1> QED BY <1>1, <1>4, <1>5 DEF Fits, r, B

(* An arrival finds room, makes room or is not shown. *)
LEMMA PushArrivalSound ==
  ASSUME NEW s, NEW map, NEW dbl, Fits(s, map, dbl), NEW e, e.link \in Datalinks, e.level \in Levels,
         map[e.link] = e.level, Free(s, e.link, dbl),
         NEW class \in {"activation", "escalation"}, NEW panelOpen \in BOOLEAN
  PROVE  Fits(PushArrival(s, e, class, panelOpen), map, dbl)
<1> DEFINE stack == Displayed(s.toasts)
           plain == Kept(stack, {t \in ToSet(stack) : t.class # "escalation"})
<1>1. Accounted(s) /\ s.toasts \in Seq(ToastRec) /\ Distinct(s.toasts)
  BY Members DEF Fits, Accounted
<1>2. /\ stack \in Seq(ToastRec) /\ ToSet(stack) = {t \in ToSet(s.toasts) : t.displayed}
      /\ Len(stack) = Cardinality(OnScreen(s.toasts)) /\ Len(stack) \in Nat
  BY <1>1, DisplayedIs
<1> HIDE DEF stack
<1>3. plain \in Seq(ToastRec) /\ ToSet(plain) \subseteq ToSet(stack)
  <2> DEFINE S == {t \in ToSet(stack) : t.class # "escalation"}
  <2>1. plain = Kept(stack, S)
    OBVIOUS
  <2> HIDE DEF S, plain
  <2> QED BY <1>2, <2>1, KeptIs
<1>4. ASSUME NEW q \in Seq(ToastRec), q # <<>>, ToSet(q) \subseteq ToSet(stack), NEW forGood
      PROVE  Fits(Added(Evicted(s, Head(q), forGood), e, class, TRUE), map, dbl)
  <2> DEFINE t == Head(q)
             r == Evicted(s, t, forGood)
  <2>1. t \in ToSet(s.toasts) /\ t.displayed
    BY <1>2, <1>4, TailIs
  <2> HIDE DEF t
  <2>2. /\ Accounted(r)
        /\ \A x \in ToSet(r.toasts) : x.displayed => x \in ToSet(s.toasts) /\ x.id # t.id
    BY <1>1, <2>1, EvictedSound
  <2> HIDE DEF r
  <2>3. Fits(r, map, dbl) /\ Free(r, e.link, dbl) /\ Cardinality(OnScreen(r.toasts)) + 1 <= MaxStack
    BY <2>1, <2>2, Fewer
  <2> QED BY <2>3, AddedFits DEF r, t
<1>5. PushArrival(s, e, class, panelOpen) =
        IF Len(stack) < MaxStack THEN Added(s, e, class, TRUE)
        ELSE IF plain # <<>> THEN Added(Evicted(s, Head(plain), firstRunDone), e, class, TRUE)
        ELSE IF class = "escalation"
          THEN IF panelOpen THEN s ELSE Added(s, e, class, FALSE)
        ELSE Added(Evicted(s, Head(stack), TRUE), e, class, TRUE)
  BY DEF PushArrival, stack
<1> HIDE DEF plain
<1>6. CASE Len(stack) < MaxStack
  <2>1. Cardinality(OnScreen(s.toasts)) + 1 <= MaxStack
    BY <1>2, <1>6
  <2>2. Fits(Added(s, e, class, TRUE), map, dbl)
    BY <2>1, AddedFits
  <2> QED BY <1>5, <1>6, <2>2
<1>7. CASE ~(Len(stack) < MaxStack) /\ plain # <<>>
  BY <1>3, <1>4, <1>5, <1>7
<1>8. CASE ~(Len(stack) < MaxStack) /\ plain = <<>> /\ class = "escalation"
  <2>1. Fits(Added(s, e, class, FALSE), map, dbl)
    BY AddedFits
  <2> QED BY <1>5, <1>8, <2>1
<1>9. CASE ~(Len(stack) < MaxStack) /\ plain = <<>> /\ class # "escalation"
  <2>1. stack # <<>>
    BY <1>2, <1>9, EmptySeq
  <2>2. Fits(Added(Evicted(s, Head(stack), TRUE), e, class, TRUE), map, dbl)
    BY <1>2, <1>4, <2>1
  <2> QED BY <1>5, <1>9, <2>2
<1> QED BY <1>6, <1>7, <1>8, <1>9

(* Toasts take another level. *)
LEMMA RelabelledSound ==
  ASSUME NEW s, Accounted(s), NEW d \in Datalinks, NEW level \in Levels
  PROVE  LET r == [s EXCEPT !.toasts = Relabelled(@, d, level)]
         IN  /\ Accounted(r)
             /\ \A x \in ToSet(r.toasts) : x.displayed =>
                  \E t \in ToSet(s.toasts) :
                    t.displayed /\ t.id = x.id /\ t.link = x.link
                    /\ x.level = (IF x.link = d THEN level ELSE t.level)
<1> DEFINE ts == s.toasts
           rel(x) == IF x.displayed /\ x.link = d THEN [x EXCEPT !.level = level] ELSE x
           v == Relabelled(ts, d, level)
           r == [s EXCEPT !.toasts = v]
<1>1. r = [s EXCEPT !.toasts = Relabelled(@, d, level)]
  OBVIOUS
<1>2. /\ s \in PairRec /\ ts \in Seq(ToastRec) /\ Distinct(ts) /\ Distinct(s.queue)
      /\ \A x \in ToSet(ts) : x \in ToastRec
  BY Members DEF Accounted
<1>3. \A x \in ToastRec : LET y == rel(x)
         IN y \in ToastRec /\ y.id = x.id /\ y.link = x.link /\ y.displayed = x.displayed
            /\ y.queued = x.queued /\ y.level = (IF x.displayed /\ x.link = d THEN level ELSE x.level)
  <2> SUFFICES ASSUME NEW x \in ToastRec
               PROVE  LET y == rel(x)
         IN y \in ToastRec /\ y.id = x.id /\ y.link = x.link /\ y.displayed = x.displayed
            /\ y.queued = x.queued /\ y.level = (IF x.displayed /\ x.link = d THEN level ELSE x.level)
    OBVIOUS
  <2>1. CASE x.displayed /\ x.link = d
    BY <2>1 DEF ToastRec
  <2>2. CASE ~(x.displayed /\ x.link = d)
    BY <2>2
  <2> QED BY <2>1, <2>2
<1>4. v = [i \in DOMAIN ts |-> rel(ts[i])]
  BY DEF Relabelled
<1> HIDE DEF rel, v
<1>5. ASSUME NEW i \in DOMAIN ts
      PROVE  ts[i] \in ToSet(ts) /\ ts[i] \in ToastRec /\ v[i] = rel(ts[i])
  BY <1>2, <1>4 DEF ToSet
<1>6. v \in Seq(ToastRec) /\ ToSet(v) = {v[i] : i \in DOMAIN ts} /\ Distinct(v)
  <2>1. v \in [DOMAIN ts -> ToastRec] /\ \A i \in DOMAIN ts : v[i].id = ts[i].id
    BY <1>3, <1>4, <1>5
  <2> HIDE DEF ts
  <2> QED BY <1>2, <2>1, ReplacedIs
<1>7. \A x \in ToSet(v) : \E t \in ToSet(ts) : x = rel(t)
  BY <1>5, <1>6
<1>8. \A x \in ToSet(v) : \E t \in ToSet(ts) :
        /\ x.id = t.id /\ x.link = t.link /\ x.displayed = t.displayed /\ x.queued = t.queued
        /\ x.level = (IF t.displayed /\ t.link = d THEN level ELSE t.level)
  <2> SUFFICES ASSUME NEW x \in ToSet(v)
               PROVE  \E t \in ToSet(ts) :
        /\ x.id = t.id /\ x.link = t.link /\ x.displayed = t.displayed /\ x.queued = t.queued
        /\ x.level = (IF t.displayed /\ t.link = d THEN level ELSE t.level)
    OBVIOUS
  <2>1. PICK t \in ToSet(ts) : x = rel(t)
    BY <1>7
  <2>2. t \in ToastRec
    BY <1>2
  <2> QED BY <1>3, <2>1, <2>2
<1>9. r \in PairRec /\ r.toasts = v /\ r.queue = s.queue
  <2> HIDE DEF ts
  <2> QED BY <1>2, <1>6, PairFields
<1> HIDE DEF r, ts
<1>10. ASSUME NEW x \in ToSet(v)
       PROVE  /\ x.queued => ~x.displayed /\ \E q \in ToSet(s.queue) : q.id = x.id
              /\ \A q \in ToSet(s.queue) : x.id = q.id => x.queued /\ x.link = q.link /\ x.level = q.level
  <2>1. PICK t \in ToSet(ts) :
        /\ x.id = t.id /\ x.link = t.link /\ x.displayed = t.displayed /\ x.queued = t.queued
        /\ x.level = (IF t.displayed /\ t.link = d THEN level ELSE t.level)
    BY <1>8
  <2>2. t.queued => ~t.displayed /\ \E q \in ToSet(s.queue) : q.id = t.id
    BY DEF Accounted, ts
  <2>3. \A q \in ToSet(s.queue) : t.id = q.id => t.queued /\ t.link = q.link /\ t.level = q.level
    BY DEF Accounted, ts
  <2> QED BY <2>1, <2>2, <2>3
<1>11. Accounted(r)
  BY <1>2, <1>6, <1>9, <1>10 DEF Accounted
<1>12. \A x \in ToSet(v) : x.displayed => \E t \in ToSet(ts) :
         t.displayed /\ t.id = x.id /\ t.link = x.link
         /\ x.level = (IF x.link = d THEN level ELSE t.level)
  BY <1>8
<1> QED BY <1>1, <1>9, <1>11, <1>12 DEF r, ts

(* The toasts take the level that their data link now has. *)
LEMMA RelabelledFits ==
  ASSUME NEW s, NEW map, NEW dbl, Fits(s, map, dbl), NEW d \in Datalinks, NEW level \in Levels,
         map \in Map
  PROVE  Fits([s EXCEPT !.toasts = Relabelled(@, d, level)], Updated(map, d, level), dbl)
<1> DEFINE r == [s EXCEPT !.toasts = Relabelled(@, d, level)]
           u == Updated(map, d, level)
<1>1. /\ Accounted(s) /\ Cardinality(OnScreen(s.toasts)) <= MaxStack /\ Agree(s.toasts, map, dbl)
      /\ \A t \in ToSet(s.toasts) : t.link \in Datalinks
  BY Members DEF Fits
<1>2. /\ Accounted(r)
      /\ \A x \in ToSet(r.toasts) : x.displayed =>
                  \E t \in ToSet(s.toasts) :
                    t.displayed /\ t.id = x.id /\ t.link = x.link
                    /\ x.level = (IF x.link = d THEN level ELSE t.level)
  BY <1>1, RelabelledSound
<1> HIDE DEF r
<1>3. \A l \in Datalinks : u[l] = IF l = d THEN level ELSE map[l]
  BY DEF Updated, Map
<1> HIDE DEF u
<1>4. Agree(r.toasts, u, dbl)
  <2>1. ASSUME NEW x \in ToSet(r.toasts), x.displayed, x.link \notin dbl PROVE x.level = u[x.link]
    <3>1. PICK t \in ToSet(s.toasts) : t.displayed /\ t.id = x.id /\ t.link = x.link
                    /\ x.level = (IF x.link = d THEN level ELSE t.level)
      BY <1>2, <2>1
    <3>2. t.level = map[t.link] /\ x.link \in Datalinks
      BY <1>1, <2>1, <3>1 DEF Agree
    <3> QED BY <1>3, <3>1, <3>2
  <2>2. ASSUME NEW x \in ToSet(r.toasts), NEW y \in ToSet(r.toasts), x.displayed, y.displayed,
               x.link = y.link, x.link \notin dbl
        PROVE  x.id = y.id
    <3>1. PICK t \in ToSet(s.toasts) : t.displayed /\ t.id = x.id /\ t.link = x.link
      BY <1>2, <2>2
    <3>2. PICK w \in ToSet(s.toasts) : w.displayed /\ w.id = y.id /\ w.link = y.link
      BY <1>2, <2>2
    <3> QED BY <1>1, <2>2, <3>1, <3>2 DEF Agree
  <2> QED BY <2>1, <2>2 DEF Agree
<1>5. Cardinality(OnScreen(r.toasts)) <= MaxStack
  <2> DEFINE A == OnScreen(s.toasts)
             B == OnScreen(r.toasts)
  <2>1. /\ IsFiniteSet(A) /\ Cardinality(A) \in Nat
        /\ \A id : id \in A <=> \E t \in ToSet(s.toasts) : t.displayed /\ t.id = id
        /\ \A id : id \in B <=> \E t \in ToSet(r.toasts) : t.displayed /\ t.id = id
    BY <1>1, <1>2, ScreenIs
  <2> HIDE DEF A, B
  <2>2. B \in SUBSET A
    BY <1>2, <2>1
  <2>3. Cardinality(B) <= Cardinality(A) /\ Cardinality(B) \in Nat
    BY <2>1, <2>2, ScreenCounts
  <2> QED BY <1>1, <2>1, <2>3 DEF A, B
<1> QED BY <1>2, <1>4, <1>5 DEF Fits, r, u

(* Some of the toasts are taken away, and with them those of a data link. *)
LEMMA ClearedFits ==
  ASSUME NEW s, NEW map, NEW dbl, Fits(s, map, dbl), NEW S,
         NEW d \in Datalinks, NEW level \in LevelsOrNone, map \in Map,
         d \notin dbl => \A t \in ToSet(s.toasts) \cap S : t.displayed => t.link # d
  PROVE  LET r == [s EXCEPT !.toasts = Kept(@, S)]
         IN  Fits(r, Updated(map, d, level), dbl) /\ Free(r, d, dbl)
<1> DEFINE r == [s EXCEPT !.toasts = Kept(@, S)]
           u == Updated(map, d, level)
<1>1. /\ Accounted(s) /\ \A t \in ToSet(s.toasts) : t.link \in Datalinks
  BY Members DEF Fits
<1>2. Accounted(r) /\ ToSet(r.toasts) = ToSet(s.toasts) \cap S
  BY <1>1, KeptSound
<1> HIDE DEF r
<1>3. Free(r, d, dbl)
  BY <1>2 DEF Free
<1>4. Fits(r, map, dbl)
  BY <1>2, Fewer
<1>5. \A l \in Datalinks : u[l] = IF l = d THEN level ELSE map[l]
  BY DEF Updated, Map
<1> HIDE DEF u
<1>6. Agree(r.toasts, u, dbl)
  BY <1>1, <1>2, <1>3, <1>4, <1>5 DEF Agree, Fits, Free
<1> QED BY <1>3, <1>4, <1>6 DEF Fits, r, u

(* With more data links doubled there is less to agree on. *)
LEMMA MoreDoubled ==
  ASSUME NEW s, NEW map, NEW dbl, NEW dbl2, Fits(s, map, dbl), dbl \subseteq dbl2
  PROVE  Fits(s, map, dbl2)
BY DEF Fits, Agree

(* A data link is doubled if two toasts on the screen have it. *)
LEMMA DoubledIs ==
  ASSUME NEW T, NEW ts \in Seq(T)
  PROVE  /\ \A t, u \in ToSet(ts) :
              t.displayed /\ u.displayed /\ t.link = u.link /\ t.link \notin Doubled(ts) => t.id = u.id
         /\ \A d \in Doubled(ts) : Distinct(ts) =>
              \E t, u \in ToSet(ts) : t.displayed /\ u.displayed /\ t.link = d /\ u.link = d /\ t.id # u.id
<1>1. \A t \in ToSet(ts) : \E i \in DOMAIN ts : ts[i] = t
  BY DEF ToSet
<1>2. \A i \in DOMAIN ts : ts[i] \in ToSet(ts)
  BY DEF ToSet
<1>3. ASSUME NEW t \in ToSet(ts), NEW u \in ToSet(ts), t.displayed, u.displayed, t.link = u.link,
             t.link \notin Doubled(ts)
      PROVE  t.id = u.id
  <2>1. PICK i \in DOMAIN ts : ts[i] = t
    BY <1>1
  <2>2. PICK j \in DOMAIN ts : ts[j] = u
    BY <1>1
  <2>3. CASE i = j
    BY <2>1, <2>2, <2>3
  <2>4. CASE i # j
    BY <1>3, <2>1, <2>2, <2>4 DEF Doubled
  <2> QED BY <2>3, <2>4
<1>4. ASSUME NEW d \in Doubled(ts), Distinct(ts)
      PROVE  \E t, u \in ToSet(ts) : t.displayed /\ u.displayed /\ t.link = d /\ u.link = d /\ t.id # u.id
  <2>1. PICK x \in DOMAIN ts, y \in DOMAIN ts :
          ts[x].displayed /\ ts[x].link = d /\ y # x /\ ts[y].displayed /\ ts[y].link = ts[x].link
    BY DEF Doubled
  <2>2. ts[x].id # ts[y].id
    BY <1>4, <2>1 DEF Distinct
  <2> QED BY <1>2, <2>1, <2>2
<1> QED BY <1>3, <1>4

(* The head of the queue is dropped when no toast has it. *)
LEMMA UnqueuedSound ==
  ASSUME NEW s, Accounted(s), s.queue # <<>>, Head(s.queue).id \notin ToastIds(s.toasts)
  PROVE  LET r == [s EXCEPT !.queue = Tail(@)]
         IN  Accounted(r) /\ r.toasts = s.toasts
<1> DEFINE w == Tail(s.queue)
           h == Head(s.queue)
           r == [s EXCEPT !.queue = w]
<1>1. /\ s \in PairRec /\ s.queue \in Seq(QueueRec) /\ Distinct(s.toasts) /\ Distinct(s.queue)
      /\ \A t \in ToSet(s.toasts) : t.id \in ToastIds(s.toasts)
  BY Members DEF Accounted
<1>2. /\ w \in Seq(QueueRec) /\ Distinct(w) /\ ToSet(w) \subseteq ToSet(s.queue)
      /\ \A q \in ToSet(s.queue) : q = h \/ q \in ToSet(w)
  BY <1>1, TailIs
<1> HIDE DEF w
<1>3. r \in PairRec /\ r.toasts = s.toasts /\ r.queue = w
  BY <1>1, <1>2, PairFields
<1> HIDE DEF r, h
<1>4. \A t \in ToSet(s.toasts) : t.id # h.id
  BY <1>1 DEF h
<1>5. Accounted(r)
  BY <1>1, <1>2, <1>3, <1>4 DEF Accounted
<1> QED BY <1>3, <1>5 DEF r, w

(* The head of the queue is shown again. *)
Replayed(s) ==
  [s EXCEPT !.queue = Tail(@),
            !.toasts = [i \in DOMAIN @ |->
              IF @[i].id = Head(s.queue).id THEN [@[i] EXCEPT !.displayed = TRUE, !.queued = FALSE]
              ELSE @[i]]]

(* It keeps the id, the data link and the level it was queued with. *)
LEMMA ReplayedSound ==
  ASSUME NEW s, Accounted(s), s.queue # <<>>
  PROVE  LET r == Replayed(s)
         IN  /\ Accounted(r)
             /\ \A x \in ToSet(r.toasts) : x.displayed =>
                  \/ x \in ToSet(s.toasts)
                  \/ x.id = Head(s.queue).id /\ x.link = Head(s.queue).link /\ x.level = Head(s.queue).level
<1> DEFINE ts == s.toasts
           item == Head(s.queue)
           sho(x) == [x EXCEPT !.displayed = TRUE, !.queued = FALSE]
           v == [i \in DOMAIN ts |-> IF ts[i].id = item.id THEN sho(ts[i]) ELSE ts[i]]
           w == Tail(s.queue)
           r == Replayed(s)
<1>1. r = [s EXCEPT !.toasts = v, !.queue = w]
  BY DEF Replayed
<1>2. /\ s \in PairRec /\ ts \in Seq(ToastRec) /\ s.queue \in Seq(QueueRec)
      /\ Distinct(ts) /\ Distinct(s.queue)
      /\ \A x \in ToSet(ts) : x \in ToastRec
  BY Members DEF Accounted
<1>3. /\ w \in Seq(QueueRec) /\ Distinct(w) /\ ToSet(w) \subseteq ToSet(s.queue)
      /\ item \in ToSet(s.queue)
      /\ \A q \in ToSet(s.queue) : q = item \/ q \in ToSet(w)
      /\ \A q \in ToSet(w) : q.id # item.id
  BY <1>2, TailIs
<1>4. \A x \in ToastRec : LET y == sho(x)
                         IN y \in ToastRec /\ y.id = x.id /\ y.link = x.link /\ y.level = x.level
                            /\ y.queued = FALSE
  BY DEF ToastRec
<1> HIDE DEF item, w
<1>5. ASSUME NEW i \in DOMAIN ts
      PROVE  /\ ts[i] \in ToSet(ts) /\ ts[i] \in ToastRec /\ v[i] \in ToastRec /\ v[i].id = ts[i].id
             /\ \/ ts[i].id # item.id /\ v[i] = ts[i]
                \/ ts[i].id = item.id /\ v[i] = sho(ts[i])
  <2>1. ts[i] \in ToSet(ts)
    BY DEF ToSet
  <2> HIDE DEF sho
  <2>2. v[i] = IF ts[i].id = item.id THEN sho(ts[i]) ELSE ts[i]
    OBVIOUS
  <2> QED BY <1>2, <1>4, <2>1, <2>2
<1>6. v \in Seq(ToastRec) /\ ToSet(v) = {v[i] : i \in DOMAIN ts} /\ Distinct(v)
  <2>1. v \in [DOMAIN ts -> ToastRec] /\ \A i \in DOMAIN ts : v[i].id = ts[i].id
    BY <1>5
  <2> HIDE DEF v, ts
  <2> QED BY <1>2, <2>1, ReplacedIs
<1> HIDE DEF v, r
<1>7. r \in PairRec /\ r.toasts = v /\ r.queue = w
  <2>1. s \in PairRec /\ v \in Seq(ToastRec) /\ w \in Seq(QueueRec)
    BY <1>2, <1>3, <1>6
  <2> QED BY <1>1, <2>1 DEF PairRec
<1> HIDE DEF ts
<1>8. \A x \in ToSet(v) : \/ x \in ToSet(ts) /\ x.id # item.id
                          \/ \E t \in ToSet(ts) : t.id = item.id /\ x = sho(t)
  <2> HIDE DEF sho
  <2> QED BY <1>5, <1>6
<1> HIDE DEF sho
<1>9. \A x \in ToSet(v) : \/ x \in ToSet(ts) /\ x.id # item.id
                          \/ x.id = item.id /\ x.link = item.link /\ x.level = item.level /\ ~x.queued
  <2> SUFFICES ASSUME NEW x \in ToSet(v), NEW t \in ToSet(ts), t.id = item.id, x = sho(t)
               PROVE  x.id = item.id /\ x.link = item.link /\ x.level = item.level /\ ~x.queued
    BY <1>8
  <2>1. t.link = item.link /\ t.level = item.level
    BY <1>3 DEF Accounted, ts
  <2> QED BY <1>2, <1>4, <2>1
<1>10. ASSUME NEW x \in ToSet(v), x.queued
       PROVE  ~x.displayed /\ \E q \in ToSet(w) : q.id = x.id
  BY <1>3, <1>9, <1>10 DEF Accounted, ts
<1>11. ASSUME NEW x \in ToSet(v), NEW q \in ToSet(w), x.id = q.id
       PROVE  x.queued /\ x.link = q.link /\ x.level = q.level
  <2>1. x \in ToSet(ts) /\ q \in ToSet(s.queue)
    BY <1>3, <1>9, <1>11
  <2> QED BY <1>11, <2>1 DEF Accounted, ts
<1>12. Accounted(r)
  BY <1>3, <1>6, <1>7, <1>10, <1>11 DEF Accounted
<1> QED BY <1>7, <1>9, <1>12 DEF r, ts, item

(* One toast of the queue at most is dealt with. *)
LEMMA SurfacedSound ==
  ASSUME NEW s, NEW dbl, Fits(s, active, dbl), NEW gapPassed
  PROVE  Fits(Surfaced(s, gapPassed), active, dbl \cup Doubled(Surfaced(s, gapPassed).toasts))
<1> DEFINE r == Surfaced(s, gapPassed)
           item == Head(s.queue)
           S == {t \in ToSet(s.toasts) : t.id # item.id}
           k == [s EXCEPT !.toasts = Kept(@, S)]
<1>0. Accounted(s)
  BY DEF Fits
<1>1. CASE Fits(r, active, dbl)
  <2> DEFINE more == dbl \cup Doubled(r.toasts)
  <2>1. dbl \subseteq more
    OBVIOUS
  <2> HIDE DEF more, r
  <2>2. Fits(r, active, more)
    BY <1>1, <2>1, MoreDoubled
  <2> QED BY <2>2 DEF more, r
<1>2. CASE r = s
  BY <1>1, <1>2
<1>3. CASE s.queue # <<>> /\ item.id \notin ToastIds(s.toasts) /\ r = [s EXCEPT !.queue = Tail(@)]
  <2>1. Accounted(r) /\ r.toasts = s.toasts
    BY <1>0, <1>3, UnqueuedSound
  <2> HIDE DEF r
  <2>2. Fits(r, active, dbl)
    BY <2>1, Fewer
  <2> QED BY <1>1, <2>2
<1>4. CASE s.queue # <<>> /\ r = [s EXCEPT !.queue = Tail(@), !.toasts = Kept(@, S)]
  <2>1. s \in PairRec
    BY <1>0 DEF Accounted
  <2>2. r = [k EXCEPT !.queue = Tail(@)]
    BY <1>4, <2>1 DEF PairRec
  <2>3. \A t : t \in ToSet(s.toasts) \cap S => t.id # item.id /\ t \in ToSet(s.toasts)
    OBVIOUS
  <2> HIDE DEF r, S, item
  <2>4. Accounted(k) /\ ToSet(k.toasts) = ToSet(s.toasts) \cap S /\ k.queue = s.queue
    BY <1>0, KeptSound
  <2> HIDE DEF k
  <2>5. item.id \notin ToastIds(k.toasts)
    <3>1. k.toasts \in Seq(ToastRec)
      BY <2>4, Members
    <3>2. ToastIds(k.toasts) = {x.id : x \in ToSet(k.toasts)}
      BY <3>1, SetOf
    <3> QED BY <2>3, <2>4, <3>2
  <2>6. Accounted(r) /\ r.toasts = k.toasts
    <3>1. k.queue # <<>> /\ Head(k.queue).id \notin ToastIds(k.toasts)
      BY <1>4, <2>4, <2>5 DEF item
    <3> QED BY <2>2, <2>4, <3>1, UnqueuedSound
  <2>7. Fits(r, active, dbl)
    BY <2>3, <2>4, <2>6, Fewer
  <2> QED BY <1>1, <2>7
<1>5. CASE s.queue # <<>> /\ Len(Displayed(s.toasts)) < MaxStack /\ active[item.link] = item.level
           /\ r = Replayed(s)
  <2> DEFINE more == dbl \cup Doubled(r.toasts)
  <2>1. /\ Accounted(r)
        /\ \A x \in ToSet(r.toasts) : x.displayed =>
             \/ x \in ToSet(s.toasts)
             \/ x.id = item.id /\ x.link = item.link /\ x.level = item.level
    BY <1>0, <1>5, ReplayedSound
  <2>2. r.toasts \in Seq(ToastRec)
    BY <2>1, Members
  <2> HIDE DEF r
  <2>3. Agree(r.toasts, active, more)
    <3>1. ASSUME NEW t \in ToSet(r.toasts), t.displayed, t.link \notin more PROVE t.level = active[t.link]
      <4>1. CASE t \in ToSet(s.toasts)
        BY <3>1, <4>1 DEF Fits, Agree
      <4>2. CASE t.id = item.id /\ t.link = item.link /\ t.level = item.level
        BY <1>5, <4>2
      <4> QED BY <2>1, <3>1, <4>1, <4>2
    <3>2. ASSUME NEW t \in ToSet(r.toasts), NEW u \in ToSet(r.toasts), t.displayed, u.displayed,
                 t.link = u.link, t.link \notin more
          PROVE  t.id = u.id
      BY <2>2, <3>2, DoubledIs
    <3> QED BY <3>1, <3>2 DEF Agree
  <2>4. Cardinality(OnScreen(r.toasts)) <= MaxStack
    <3> DEFINE A == OnScreen(s.toasts)
               B == OnScreen(r.toasts)
               x == item.id
    <3>1. /\ IsFiniteSet(A) /\ Cardinality(A) \in Nat
          /\ \A id : id \in A <=> \E t \in ToSet(s.toasts) : t.displayed /\ t.id = id
          /\ \A id : id \in B <=> \E t \in ToSet(r.toasts) : t.displayed /\ t.id = id
      BY <1>0, <2>1, ScreenIs
    <3>2. Cardinality(A) + 1 <= MaxStack
      BY <1>0, <1>5, ScreenIs
    <3> HIDE DEF A, B, x
    <3>3. B \in SUBSET (A \cup {x})
      BY <2>1, <3>1 DEF x
    <3>4. IsFiniteSet(A \cup {x}) /\ Cardinality(A \cup {x}) <= Cardinality(A) + 1
      BY <3>1, FS_AddElement, ScreenCounts
    <3>5. Cardinality(B) <= Cardinality(A \cup {x}) /\ Cardinality(B) \in Nat /\ Cardinality(A \cup {x}) \in Nat
      BY <3>3, <3>4, ScreenCounts
    <3> QED BY <3>1, <3>2, <3>4, <3>5 DEF B
  <2> HIDE DEF more
  <2>5. Fits(r, active, more)
    BY <2>1, <2>3, <2>4 DEF Fits
  <2> QED BY <2>5 DEF more, r
<1>6. \/ r = s
      \/ s.queue # <<>> /\ item.id \notin ToastIds(s.toasts) /\ r = [s EXCEPT !.queue = Tail(@)]
      \/ s.queue # <<>> /\ r = [s EXCEPT !.queue = Tail(@), !.toasts = Kept(@, S)]
      \/ s.queue # <<>> /\ ~(Len(Displayed(s.toasts)) >= MaxStack) /\ active[item.link] = item.level
           /\ r = Replayed(s)
  <2>1. s \in PairRec
    BY <1>0 DEF Accounted
  <2>2. [[s EXCEPT !.queue = Tail(@)] EXCEPT !.toasts = Without(@, item.id)]
          = [s EXCEPT !.queue = Tail(@), !.toasts = Kept(@, S)]
    BY <2>1 DEF PairRec, Without
  <2>3. [[s EXCEPT !.queue = Tail(@)] EXCEPT !.toasts = [i \in DOMAIN @ |->
              IF @[i].id = item.id THEN [@[i] EXCEPT !.displayed = TRUE, !.queued = FALSE]
              ELSE @[i]]]
          = Replayed(s)
    BY <2>1 DEF PairRec, Replayed
  <2> QED BY <2>2, <2>3 DEF Surfaced
<1>7. ~(Len(Displayed(s.toasts)) >= MaxStack) => Len(Displayed(s.toasts)) < MaxStack
  <2>1. Len(Displayed(s.toasts)) \in Nat
    BY <1>0, ScreenIs
  <2> QED BY <2>1
<1> HIDE DEF r, S
<1>8. \/ r = s
      \/ s.queue # <<>> /\ item.id \notin ToastIds(s.toasts) /\ r = [s EXCEPT !.queue = Tail(@)]
      \/ s.queue # <<>> /\ r = [s EXCEPT !.queue = Tail(@), !.toasts = Kept(@, S)]
      \/ s.queue # <<>> /\ Len(Displayed(s.toasts)) < MaxStack /\ active[item.link] = item.level
           /\ r = Replayed(s)
  BY <1>6, <1>7
<1> QED BY <1>2, <1>3, <1>4, <1>5, <1>8

ToastInv ==
  /\ active \in Map
  /\ Fits(ToastState, active, doubled)
  /\ shadow \in Map
  /\ firstRunDone \in BOOLEAN /\ background \in BOOLEAN

(* The toasts become ones that fit. *)
LEMMA ToastsBecomeSound ==
  ASSUME NEW s, ToastsBecome(s), Fits(s, active', doubled'), active' \in Map,
         shadow' \in Map, firstRunDone' \in BOOLEAN, background' \in BOOLEAN
  PROVE  ToastInv'
<1>1. s \in PairRec
  BY DEF Fits, Accounted
<1>2. toasts' = s.toasts /\ queue' = s.queue
  BY DEF ToastsBecome
<1>3. ToastState' = s
  BY <1>1, <1>2 DEF ToastState, PairRec
<1> QED BY <1>3 DEF ToastInv

(* The fields of the state. *)
LEMMA ToastStateIs ==
  ASSUME ToastInv
  PROVE  /\ Fits(ToastState, active, doubled) /\ Accounted(ToastState)
         /\ ToastState.toasts = toasts /\ ToastState.queue = queue
         /\ toasts \in Seq(ToastRec) /\ queue \in Seq(QueueRec)
         /\ active \in Map /\ ToastState \in PairRec
<1>1. Fits(ToastState, active, doubled) /\ Accounted(ToastState)
  BY DEF ToastInv, Fits
<1>2. ToastState.toasts = toasts /\ ToastState.queue = queue
  BY DEF ToastState
<1>3. ToastState \in PairRec /\ ToastState.toasts \in Seq(ToastRec) /\ ToastState.queue \in Seq(QueueRec)
  BY <1>1, Members
<1> QED BY <1>1, <1>2, <1>3 DEF ToastInv

(* An activation makes or finds room for its toast, or none is shown. *)
LEMMA ToastActivationSound ==
  ASSUME ToastInv, NEW e, e.link \in Datalinks, e.level \in Levels, NEW panelOpen \in BOOLEAN
  PROVE  Fits(OnToastActivation(e, panelOpen), Updated(active, e.link, e.level), doubled)
<1> DEFINE class == IF shadow[e.link] # None /\ shadow[e.link] # e.level
                      THEN "escalation" ELSE "activation"
           M == {t \in ToSet(toasts) : t.displayed /\ t.link = e.link}
           mine == Kept(toasts, M)
           S == {t \in ToSet(toasts) : t.id # Head(mine).id}
           gone == [ToastState EXCEPT !.toasts = Kept(@, S)]
           cleared == IF mine = <<>> THEN ToastState ELSE gone
           u == Updated(active, e.link, e.level)
           r == OnToastActivation(e, panelOpen)
<1>1. /\ Fits(ToastState, active, doubled) /\ ToastState.toasts = toasts /\ toasts \in Seq(ToastRec)
      /\ active \in Map /\ Accounted(ToastState) /\ ToastState \in PairRec
  BY ToastStateIs
<1>2. r = IF e.recompute \/ ~e.eligible
            THEN [ToastState EXCEPT !.toasts = Relabelled(@, e.link, e.level)]
          ELSE PushArrival(cleared, e, class, panelOpen)
  <2>1. [ToastState EXCEPT !.toasts = Without(@, Head(mine).id)] = gone
    BY <1>1 DEF Without
  <2> QED BY <2>1 DEF OnToastActivation
<1>3. CASE e.recompute \/ ~e.eligible
  <2>1. Fits([ToastState EXCEPT !.toasts = Relabelled(@, e.link, e.level)], u, doubled)
    BY <1>1, RelabelledFits
  <2> QED BY <1>2, <1>3, <2>1
<1>4. CASE ~(e.recompute \/ ~e.eligible)
  <2>1. class \in {"activation", "escalation"}
    OBVIOUS
  <2>2. e.level \in LevelsOrNone
    BY DEF LevelsOrNone
  <2>3. mine \in Seq(ToastRec) /\ ToSet(mine) = ToSet(toasts) \cap M
    <3> HIDE DEF M
    <3> QED BY <1>1, KeptIs
  <2>4. u[e.link] = e.level
    BY <1>1 DEF Updated, Map
  <2>5. CASE mine = <<>>
    <3>1. \A t \in ToSet(toasts) : t.displayed => t.link # e.link
      <4>1. ToSet(mine) = {}
        BY <2>5 DEF ToSet
      <4> QED BY <2>3, <4>1
    <3>2. Fits(ToastState, u, doubled) /\ Free(ToastState, e.link, doubled)
      <4>1. \A l \in Datalinks : l # e.link => u[l] = active[l]
        BY <1>1 DEF Updated, Map
      <4>2. \A t \in ToSet(toasts) : t.link \in Datalinks
        BY <1>1, Members
      <4> HIDE DEF u
      <4>3. Agree(toasts, u, doubled)
        BY <1>1, <3>1, <4>1, <4>2 DEF Fits, Agree
      <4> QED BY <1>1, <3>1, <4>3 DEF Fits, Free
    <3>3. cleared = ToastState
      BY <2>5
    <3> HIDE DEF class, u, cleared
    <3>4. Fits(PushArrival(cleared, e, class, panelOpen), u, doubled)
      BY <2>1, <2>4, <3>2, <3>3, PushArrivalSound
    <3> QED BY <1>2, <1>4, <3>4 DEF u
  <2>6. CASE mine # <<>>
    <3>1. Head(mine) \in ToSet(toasts) /\ Head(mine).displayed /\ Head(mine).link = e.link
      <4>1. Head(mine) \in ToSet(mine)
        BY <2>3, <2>6, TailIs
      <4> QED BY <2>3, <4>1
    <3>2. e.link \notin doubled =>
            \A t \in ToSet(ToastState.toasts) \cap S : t.displayed => t.link # e.link
      BY <1>1, <3>1 DEF Fits, Agree
    <3> HIDE DEF S, mine, M
    <3>3. Fits(gone, u, doubled) /\ Free(gone, e.link, doubled)
      BY <1>1, <2>2, <3>2, ClearedFits
    <3>4. cleared = gone
      BY <2>6
    <3> HIDE DEF class, u, cleared, gone
    <3>5. Fits(PushArrival(cleared, e, class, panelOpen), u, doubled)
      BY <2>1, <2>4, <3>3, <3>4, PushArrivalSound
    <3> QED BY <1>2, <1>4, <3>5 DEF u
  <2> QED BY <2>5, <2>6
<1> QED BY <1>3, <1>4

(* A drop takes the toasts of its data link off the screen, or relabels them. *)
LEMMA ToastDropSound ==
  ASSUME ToastInv, NEW e, e.link \in Datalinks, e.level \in LevelsOrNone
  PROVE  Fits(OnToastDrop(e), Updated(active, e.link, e.level), doubled)
<1> DEFINE S == {t \in ToSet(toasts) : ~(t.displayed /\ t.link = e.link)}
           u == Updated(active, e.link, e.level)
           r == OnToastDrop(e)
<1>1. /\ Fits(ToastState, active, doubled) /\ ToastState.toasts = toasts
      /\ active \in Map /\ ToastState \in PairRec
  BY ToastStateIs
<1>2. CASE e.level = None
  <2>1. r = [ToastState EXCEPT !.toasts = Kept(@, S)]
    BY <1>1, <1>2 DEF OnToastDrop
  <2>2. \A t \in ToSet(ToastState.toasts) \cap S : t.displayed => t.link # e.link
    OBVIOUS
  <2> HIDE DEF r, u, S
  <2>3. Fits([ToastState EXCEPT !.toasts = Kept(@, S)], Updated(active, e.link, e.level), doubled)
    BY <1>1, <2>2, ClearedFits
  <2> QED BY <2>1, <2>3 DEF r, u
<1>3. CASE e.level # None
  <2>1. r = [ToastState EXCEPT !.toasts = Relabelled(@, e.link, e.level)]
    BY <1>1, <1>3 DEF OnToastDrop
  <2>2. e.level \in Levels
    BY <1>3 DEF LevelsOrNone
  <2> HIDE DEF r
  <2>3. Fits([ToastState EXCEPT !.toasts = Relabelled(@, e.link, e.level)], u, doubled)
    BY <1>1, <2>2, RelabelledFits
  <2> QED BY <2>1, <2>3 DEF r
<1> QED BY <1>2, <1>3

(* The toasts see one event. *)
LEMMA ToastsSeeEventSound ==
  ASSUME ToastInv, ToastsSeeEvent
  PROVE  ToastInv'
<1>1. PICK e \in Possible : Publish(<<e>>) /\ ToastsReact(e)
  BY DEF ToastsSeeEvent
<1>2. active \in Map /\ shadow \in Map /\ firstRunDone \in BOOLEAN /\ background \in BOOLEAN
  BY DEF ToastInv
<1>3. /\ e.link \in Datalinks /\ e.level \in LevelsOrNone
      /\ e.type = "activation" => e.level \in Levels
  BY <1>2, PossibleIs
<1>4. active' = Updated(active, e.link, e.level) /\ active' \in Map
  BY <1>1, <1>2, PublishOne DEF Updated
<1>5. shadow' \in Map /\ UNCHANGED <<firstRunDone, background, doubled>>
  BY <1>1, <1>2, <1>3 DEF ToastsReact, Map
<1>6. PICK panelOpen \in BOOLEAN :
        ToastsBecome(IF e.type = "activation" THEN OnToastActivation(e, panelOpen) ELSE OnToastDrop(e))
  BY <1>1 DEF ToastsReact
<1>7. CASE e.type = "activation"
  <2> DEFINE r == OnToastActivation(e, panelOpen)
  <2>1. ToastsBecome(r)
    BY <1>6, <1>7
  <2>2. Fits(r, Updated(active, e.link, e.level), doubled)
    BY <1>3, <1>7, ToastActivationSound
  <2> HIDE DEF r
  <2> QED BY <1>2, <1>4, <1>5, <2>1, <2>2, ToastsBecomeSound
<1>8. CASE e.type # "activation"
  <2> DEFINE r == OnToastDrop(e)
  <2>1. ToastsBecome(r)
    BY <1>6, <1>8
  <2>2. Fits(r, Updated(active, e.link, e.level), doubled)
    BY <1>3, ToastDropSound
  <2> HIDE DEF r
  <2> QED BY <1>2, <1>4, <1>5, <2>1, <2>2, ToastsBecomeSound
<1> QED BY <1>7, <1>8

(* No toasts. *)
LEMMA NoToastsFit ==
  ASSUME NEW map, NEW dbl, NEW s, s = [toasts |-> <<>>, queue |-> <<>>]
  PROVE  Fits(s, map, dbl)
<1>1. ToSet(<<>>) = {} /\ Distinct(<<>>)
  BY DEF ToSet, Distinct
<1>2. s.toasts = <<>> /\ s.queue = <<>> /\ s \in PairRec
  BY EmptySeq DEF PairRec
<1>3. Accounted(s) /\ Agree(s.toasts, map, dbl)
  BY <1>1, <1>2 DEF Accounted, Agree
<1>4. Cardinality(OnScreen(s.toasts)) = 0
  <2>1. OnScreen(s.toasts) = {}
    BY <1>1, <1>2 DEF OnScreen
  <2> QED BY <2>1, FS_EmptySet
<1> QED BY <1>3, <1>4 DEF Fits

(* The toasts as they start. *)
LEMMA ToastsStart ==
  ASSUME Init, ToastInit
  PROVE  ToastInv
<1>1. active \in Map /\ shadow \in Map /\ firstRunDone = FALSE /\ background = FALSE
  BY DEF Init, ToastInit, Map, LevelsOrNone
<1>2. ToastState = [toasts |-> <<>>, queue |-> <<>>]
  BY DEF ToastState, ToastInit
<1> HIDE DEF ToastState
<1>3. Fits(ToastState, active, doubled)
  BY <1>2, NoToastsFit
<1> QED BY <1>1, <1>3 DEF ToastInv

(* The reset leaves no toast. *)
LEMMA ToastsSeeResetSound ==
  ASSUME ToastInv, ToastsSeeReset
  PROVE  ToastInv'
<1>1. active' \in Map
  BY PublishDrops DEF ToastsSeeReset, ToastInv
<1>2. shadow' \in Map /\ firstRunDone' = FALSE /\ background' = FALSE /\ toasts' = <<>> /\ queue' = <<>>
  BY DEF ToastsSeeReset, ToastReset, Map, LevelsOrNone
<1> DEFINE s == [toasts |-> <<>>, queue |-> <<>>]
<1>3. ToastsBecome(s)
  BY <1>2 DEF ToastsBecome
<1>4. Fits(s, active', doubled')
  <2> DEFINE a == active'
             d == doubled'
  <2> HIDE DEF a, d
  <2>1. Fits(s, a, d)
    BY NoToastsFit
  <2> QED BY <2>1 DEF a, d
<1> HIDE DEF s
<1> QED BY <1>1, <1>2, <1>3, <1>4, ToastsBecomeSound

(* The ticks, the background, the taps and the end of the first run. *)
LEMMA ToastOperationSound ==
  ASSUME ToastInv, ToastOperation, UNCHANGED sourceVars
  PROVE  ToastInv'
<1>1. /\ Fits(ToastState, active, doubled) /\ ToastState.toasts = toasts /\ ToastState.queue = queue
      /\ Accounted(ToastState) /\ ToastState \in PairRec /\ active \in Map /\ active' = active
      /\ shadow \in Map /\ firstRunDone \in BOOLEAN /\ background \in BOOLEAN
  BY ToastStateIs DEF ToastInv, sourceVars
<1>2. ASSUME NEW S, toasts' = Kept(toasts, S),
             UNCHANGED <<queue, shadow, doubled>>, firstRunDone' \in BOOLEAN, background' \in BOOLEAN
      PROVE  ToastInv'
  <2> DEFINE r == [ToastState EXCEPT !.toasts = Kept(@, S)]
  <2>1. Accounted(r) /\ ToSet(r.toasts) = ToSet(ToastState.toasts) \cap S
    BY <1>1, KeptSound
  <2>2. ToastsBecome(r)
    BY <1>1, <1>2 DEF ToastsBecome, PairRec
  <2> HIDE DEF r
  <2>3. Fits(r, active, doubled)
    BY <1>1, <2>1, Fewer
  <2> QED BY <1>1, <1>2, <2>2, <2>3, ToastsBecomeSound
<1>3. ASSUME UNCHANGED <<toasts, queue, shadow, doubled>>, firstRunDone' \in BOOLEAN, background' \in BOOLEAN
      PROVE  ToastInv'
  <2>1. ToastsBecome(ToastState)
    BY <1>1, <1>3 DEF ToastsBecome
  <2> QED BY <1>1, <1>3, <2>1, ToastsBecomeSound
<1>4. CASE ToastTick
  <2>1. PICK past \in SUBSET {t \in ToSet(toasts) : ~t.queued}, gapPassed \in BOOLEAN :
          LET ticked == Surfaced([ToastState EXCEPT !.toasts = Kept(@, ToSet(@) \ past)], gapPassed)
          IN  ToastsBecome(ticked) /\ doubled' = doubled \cup Doubled(ticked.toasts)
    BY <1>4 DEF ToastTick
  <2> DEFINE S == ToSet(ToastState.toasts) \ past
             k == [ToastState EXCEPT !.toasts = Kept(@, S)]
             r == Surfaced(k, gapPassed)
  <2>2. k = [ToastState EXCEPT !.toasts = Kept(@, ToSet(@) \ past)]
    OBVIOUS
  <2>3. ToastsBecome(r) /\ doubled' = doubled \cup Doubled(r.toasts)
    BY <2>1, <2>2
  <2> HIDE DEF S, r
  <2>4. Accounted(k) /\ ToSet(k.toasts) = ToSet(ToastState.toasts) \cap S
    BY <1>1, KeptSound
  <2> HIDE DEF k
  <2>5. Fits(k, active, doubled)
    BY <1>1, <2>4, Fewer
  <2>6. Fits(r, active, doubled \cup Doubled(r.toasts))
    BY <2>5, SurfacedSound DEF r
  <2>7. UNCHANGED <<shadow, firstRunDone, background>>
    BY <1>4 DEF ToastTick
  <2> QED BY <1>1, <2>3, <2>6, <2>7, ToastsBecomeSound
<1>5. CASE Background
  BY <1>1, <1>3, <1>5 DEF Background
<1>6. CASE Foreground
  <2> DEFINE S == {t \in ToSet(toasts) : ~t.displayed \/ active[t.link] = t.level}
  <2>1. toasts' = Kept(toasts, S) /\ UNCHANGED <<queue, shadow, firstRunDone, doubled>> /\ background' = FALSE
    BY <1>6 DEF Foreground
  <2> HIDE DEF S
  <2> QED BY <1>1, <1>2, <2>1
<1>7. CASE TapToast
  <2>1. PICK t \in ToSet(toasts) : toasts' = Without(toasts, t.id)
    BY <1>7 DEF TapToast
  <2> DEFINE S == {x \in ToSet(toasts) : x.id # t.id}
  <2>2. toasts' = Kept(toasts, S)
    BY <2>1 DEF Without
  <2>3. UNCHANGED <<queue, shadow, firstRunDone, background, doubled>>
    BY <1>7 DEF TapToast
  <2> HIDE DEF S
  <2> QED BY <1>1, <1>2, <2>2, <2>3
<1>8. CASE FirstRunCompleted
  BY <1>1, <1>3, <1>8 DEF FirstRunCompleted
<1> QED BY <1>4, <1>5, <1>6, <1>7, <1>8 DEF ToastOperation

(* Each step of the toasts keeps the invariant. *)
LEMMA ToastStepSound ==
  ASSUME ToastInv, ToastsNext
  PROVE  ToastInv'
BY ToastsSeeEventSound, ToastsSeeResetSound, ToastOperationSound DEF ToastsNext

(* The invariant gives the properties. *)
LEMMA ToastInvTells ==
  ASSUME ToastInv
  PROVE  ToastTypeOK /\ ToastsAgree
<1>1. /\ Fits(ToastState, active, doubled) /\ ToastState.toasts = toasts /\ ToastState.queue = queue
      /\ toasts \in Seq(ToastRec) /\ queue \in Seq(QueueRec) /\ Accounted(ToastState)
  BY ToastStateIs
<1>2. \A i \in DOMAIN toasts : toasts[i] \in ToSet(toasts)
  BY DEF ToSet
<1>3. Distinct(toasts) /\ Distinct(queue)
  BY <1>1 DEF Accounted
<1>4. ToastTypeOK
  <2>1. \A t \in ToSet(toasts) : t.queued => ~t.displayed
    BY <1>1 DEF Accounted
  <2>2. \A t \in ToSet(toasts) : t \in ToastRec
    BY <1>1, SetOf
  <2> QED BY <1>2, <2>1, <2>2 DEF ToastTypeOK, ToastInv, ToastRec
<1>5. ShownToastIsTrue
  BY <1>1, <1>2 DEF ShownToastIsTrue, Fits, Agree
<1>6. DoubledByReplay
  <2> SUFFICES ASSUME NEW d \in Doubled(toasts), d \notin doubled PROVE FALSE
    BY DEF DoubledByReplay
  <2>1. PICK t \in ToSet(toasts), u \in ToSet(toasts) :
          t.displayed /\ u.displayed /\ t.link = d /\ u.link = d /\ t.id # u.id
    BY <1>1, <1>3, DoubledIs
  <2> QED BY <1>1, <2>1 DEF Fits, Agree
<1>7. StackBounded
  BY <1>1, ScreenIs DEF StackBounded, Fits
<1>8. QueuedIsQueued
  <2> SUFFICES ASSUME NEW i \in DOMAIN toasts, toasts[i].queued
               PROVE  Cardinality({j \in DOMAIN queue : queue[j].id = toasts[i].id}) = 1
    BY DEF QueuedIsQueued
  <2>1. PICK q \in ToSet(queue) : q.id = toasts[i].id
    BY <1>1, <1>2 DEF Accounted
  <2>2. PICK j \in DOMAIN queue : queue[j] = q
    BY DEF ToSet
  <2>3. {n \in DOMAIN queue : queue[n].id = toasts[i].id} = {j}
    BY <1>3, <2>1, <2>2 DEF Distinct
  <2>4. Cardinality({j}) = 1
    BY FS_Singleton
  <2> QED BY <2>3, <2>4
<1> QED BY <1>4, <1>5, <1>6, <1>7, <1>8 DEF ToastsAgree

HIDE ToastAssumption DEF ToastAssumption

------------------------------------------------------------------------------
(* WarningSettings. *)

Ops == {"load", "save", "read", "display", "retry", "delay", "late", "defaults", "none"}

(* The calls of the page, with what their answers need to know.             *)
PageCalls ==
  {c \in [op : Ops, link : Rows \cup {NotSet}, want : Row \cup Delays \cup {NotSet},
          kind : {"edit", "toggle", "preset", NotSet}, batch : Actions \cup {NotSet},
          todo : SUBSET Rows] :
     /\ c.op \in {"save", "read", "display", "retry"} => c.link \in Rows
     /\ c.op \in {"save", "read", "display"} => c.want \in Row
     /\ c.op = "delay" => c.want \in Delays}

HasSave(q, d) == \E i \in 1..Len(q) : q[i].link = d /\ q[i].op = "save"
HasRead(q, d) == \E i \in 1..Len(q) : q[i].link = d /\ q[i].op \in {"read", "retry"}
Rereads(q) == \E i \in 1..Len(q) : q[i].op \in {"read", "late"}

WayOut ==
  \A d \in frozen \ givenUp :
    \/ HasSave(calls, d)
    \/ resolve[d] # NotSet /\ (d \in failed \/ HasRead(calls, d))

Told == known = stored \/ missed \/ debounce \/ Rereads(calls)

PageInv == PageTypeOK /\ calls \in Seq(PageCalls) /\ WayOut /\ Told

------------------------------------------------------------------------------
USE PageAssumption DEF PageAssumption

(* The queue grows by a call. *)
LEMMA Appended ==
  ASSUME NEW q \in Seq(PageCalls), NEW c \in PageCalls
  PROVE  /\ Append(q, c) \in Seq(PageCalls)
         /\ \A d : HasSave(Append(q, c), d) <=> HasSave(q, d) \/ (c.link = d /\ c.op = "save")
         /\ \A d : HasRead(Append(q, c), d)
                     <=> HasRead(q, d) \/ (c.link = d /\ c.op \in {"read", "retry"})
         /\ Rereads(Append(q, c)) <=> Rereads(q) \/ c.op \in {"read", "late"}
<1>1. /\ Append(q, c) \in Seq(PageCalls) /\ Len(q) \in Nat
      /\ Len(Append(q, c)) = Len(q) + 1
      /\ \A i \in 1..Len(q) : Append(q, c)[i] = q[i]
      /\ Append(q, c)[Len(q) + 1] = c
  BY AppendProperties, LenProperties
<1>2. \A i \in 1..(Len(q) + 1) : i \in 1..Len(q) \/ i = Len(q) + 1
  BY <1>1
<1>3. 1..Len(q) \subseteq 1..(Len(q) + 1) /\ Len(q) + 1 \in 1..(Len(q) + 1)
  BY <1>1
<1>4. \A d : HasSave(Append(q, c), d) <=> HasSave(q, d) \/ (c.link = d /\ c.op = "save")
  BY <1>1, <1>2, <1>3 DEF HasSave
<1>5. \A d : HasRead(Append(q, c), d)
                <=> HasRead(q, d) \/ (c.link = d /\ c.op \in {"read", "retry"})
  BY <1>1, <1>2, <1>3 DEF HasRead
<1>6. Rereads(Append(q, c)) <=> Rereads(q) \/ c.op \in {"read", "late"}
  BY <1>1, <1>2, <1>3 DEF Rereads
<1> QED BY <1>1, <1>4, <1>5, <1>6

(* The host answers the oldest call. *)
LEMMA Taken ==
  ASSUME NEW q \in Seq(PageCalls), q # <<>>
  PROVE  /\ Head(q) \in PageCalls /\ Tail(q) \in Seq(PageCalls)
         /\ \A d : HasSave(q, d) <=> HasSave(Tail(q), d) \/ (Head(q).link = d /\ Head(q).op = "save")
         /\ \A d : HasRead(q, d)
                     <=> HasRead(Tail(q), d) \/ (Head(q).link = d /\ Head(q).op \in {"read", "retry"})
         /\ Rereads(q) <=> Rereads(Tail(q)) \/ Head(q).op \in {"read", "late"}
<1>1. /\ Head(q) \in PageCalls /\ Tail(q) \in Seq(PageCalls)
      /\ Len(q) \in Nat /\ Len(q) # 0 /\ Len(Tail(q)) = Len(q) - 1
      /\ \A i \in 1..Len(Tail(q)) : Tail(q)[i] = q[i + 1]
      /\ Head(q) = q[1]
  BY HeadTailProperties, EmptySeq, LenProperties
<1>2. /\ \A i \in 1..Len(q) : i = 1 \/ (i - 1 \in 1..Len(Tail(q)) /\ Tail(q)[i - 1] = q[i])
      /\ \A i \in 1..Len(Tail(q)) : i + 1 \in 1..Len(q)
      /\ 1 \in 1..Len(q)
  BY <1>1
<1>3. \A d : HasSave(q, d) <=> HasSave(Tail(q), d) \/ (Head(q).link = d /\ Head(q).op = "save")
  BY <1>1, <1>2 DEF HasSave
<1>4. \A d : HasRead(q, d)
                <=> HasRead(Tail(q), d) \/ (Head(q).link = d /\ Head(q).op \in {"read", "retry"})
  BY <1>1, <1>2 DEF HasRead
<1>5. Rereads(q) <=> Rereads(Tail(q)) \/ Head(q).op \in {"read", "late"}
  BY <1>1, <1>2 DEF Rereads
<1> QED BY <1>1, <1>3, <1>4, <1>5

(* What the page sends is a call, and a row it wants one the host can keep. *)
LEMMA PageCallIs ==
  ASSUME NEW op \in Ops \ {"save", "read", "display", "retry", "delay"}
  PROVE  PageCall(op) \in PageCalls /\ PageCall(op).op = op
  BY DEF PageCall, NoCall, PageCalls

LEMMA RetryCallIs ==
  ASSUME NEW d \in Rows
  PROVE  /\ [PageCall("retry") EXCEPT !.link = d] \in PageCalls
         /\ [PageCall("retry") EXCEPT !.link = d].op = "retry"
         /\ [PageCall("retry") EXCEPT !.link = d].link = d
  BY DEF PageCall, NoCall, PageCalls, Ops

LEMMA DelayCallIs ==
  ASSUME NEW v \in Delays
  PROVE  /\ [PageCall("delay") EXCEPT !.want = v] \in PageCalls
         /\ [PageCall("delay") EXCEPT !.want = v].op = "delay"
  BY DEF PageCall, NoCall, PageCalls, Ops

LEMMA DefaultsCallIs ==
  ASSUME NEW action \in Actions, NEW todo \in SUBSET Rows
  PROVE  /\ [PageCall("defaults") EXCEPT !.batch = action, !.todo = todo] \in PageCalls
         /\ [PageCall("defaults") EXCEPT !.batch = action, !.todo = todo].op = "defaults"
  BY DEF PageCall, NoCall, PageCalls, Ops

LEMMA SaveCallIs ==
  ASSUME NEW d \in Rows, NEW want \in Row, NEW kind \in {"edit", "toggle", "preset"}
  PROVE  /\ SaveCall(d, want, kind) \in PageCalls
         /\ SaveCall(d, want, kind).op = "save" /\ SaveCall(d, want, kind).link = d
  BY DEF SaveCall, NoCall, PageCalls, Ops

LEMMA DisplayCallIs ==
  ASSUME NEW d \in Rows, NEW want \in Row
  PROVE  /\ [SaveCall(d, want, "edit") EXCEPT !.op = "display"] \in PageCalls
         /\ [SaveCall(d, want, "edit") EXCEPT !.op = "display"].op = "display"
  BY DEF SaveCall, NoCall, PageCalls, Ops

LEMMA BatchCallIs ==
  ASSUME NEW look \in Config, NEW d \in Rows, NEW action \in Actions \cup {NotSet}, NEW todo \in SUBSET Rows
  PROVE  /\ BatchCall(look, d, action, todo) \in PageCalls
         /\ BatchCall(look, d, action, todo).op = "save" /\ BatchCall(look, d, action, todo).link = d
<1> DEFINE want == IF action = "defaults" THEN [look.rows[d] EXCEPT !.content = 0]
                   ELSE [look.rows[d] EXCEPT !.enabled = (action = "enable")]
           kind == IF action = "defaults" THEN "preset" ELSE "toggle"
           base == SaveCall(d, want, kind)
<1>1. want \in Row
  <2>1. look.rows[d] \in Row
    BY DEF Config
  <2>2. [look.rows[d] EXCEPT !.content = 0] \in Row
    BY <2>1 DEF Row
  <2>3. ASSUME NEW b \in BOOLEAN PROVE [look.rows[d] EXCEPT !.enabled = b] \in Row
    BY <2>1 DEF Row
  <2>4. (action = "enable") \in BOOLEAN
    OBVIOUS
  <2>5. [look.rows[d] EXCEPT !.enabled = (action = "enable")] \in Row
    BY <2>3, <2>4, Zenon
  <2> QED BY <2>2, <2>5, Zenon
<1>2. base \in PageCalls /\ base.op = "save" /\ base.link = d
  BY <1>1, SaveCallIs
<1>3. BatchCall(look, d, action, todo) = [base EXCEPT !.batch = action, !.todo = todo]
  BY DEF BatchCall
<1> HIDE DEF base
<1> QED BY <1>2, <1>3 DEF PageCalls

(* An answered write is read again. *)
LEMMA ReadCallIs ==
  ASSUME NEW c \in PageCalls, c.op = "save"
  PROVE  /\ [c EXCEPT !.op = "read"] \in PageCalls
         /\ [c EXCEPT !.op = "read"].op = "read" /\ [c EXCEPT !.op = "read"].link = c.link
  BY DEF PageCalls, Ops

(* What the host stores of a call is a row. *)
LEMMA WrittenIs ==
  ASSUME PageTypeOK, NEW c \in PageCalls, c.op \in {"save", "display"}
  PROVE  /\ Written(c) \in Row
         /\ [stored EXCEPT !.rows[c.link] = Written(c)] \in Config
<1>1. c.link \in Rows /\ c.want \in Row
  BY DEF PageCalls
<1>2. stored \in Config /\ stored.rows[c.link] \in Row
  BY <1>1 DEF PageTypeOK, Config
<1>3. Written(c) \in Row
  BY <1>1, <1>2 DEF Written, Row
<1> QED BY <1>1, <1>2, <1>3 DEF Config

------------------------------------------------------------------------------
(* The next row of a batch is written, or the batch is over; a data link    *)
(* that becomes suspended by it has a write in the queue.                   *)
LEMMA BatchKeeps ==
  ASSUME PageTypeOK, NEW base \in Seq(PageCalls), NEW action \in Actions \cup {NotSet},
         NEW todo \in SUBSET Rows, NEW row, NEW look \in Config,
         row.pending \subseteq Rows, row.frozen \subseteq Rows, row.givenUp \subseteq Rows,
         BatchGoesOn(base, action, todo, row, look)
  PROVE  /\ pending' \subseteq Rows /\ frozen' \subseteq Rows /\ givenUp' \subseteq Rows
         /\ sheet' \in Actions \cup {NotSet}
         /\ batchBlocks' \in BOOLEAN /\ inFlight' \in BOOLEAN /\ debounce' \in BOOLEAN
         /\ debounce => debounce'
         /\ calls' \in Seq(PageCalls)
         /\ \A d : HasSave(base, d) => HasSave(calls', d)
         /\ \A d : HasRead(base, d) => HasRead(calls', d)
         /\ Rereads(base) => Rereads(calls')
         /\ \A d \in frozen' \ givenUp' : d \in row.frozen \ row.givenUp \/ HasSave(calls', d)
<1>1. CASE todo = {}
  BY <1>1 DEF BatchGoesOn, Send, PageTypeOK
<1>2. CASE todo # {}
  <2>1. PICK d \in todo :
          /\ Send(Append(base, BatchCall(look, d, action, todo \ {d})))
          /\ pending' = row.pending \cup {d}
          /\ frozen' = row.frozen \cup {d}
          /\ givenUp' = row.givenUp \ {d}
    BY <1>2 DEF BatchGoesOn
  <2>2. UNCHANGED <<batchVars, debounce>>
    BY <1>2 DEF BatchGoesOn
  <2> DEFINE c == BatchCall(look, d, action, todo \ {d})
  <2>3. c \in PageCalls /\ c.op = "save" /\ c.link = d /\ calls' = Append(base, c)
    BY <2>1, BatchCallIs DEF Send
  <2> HIDE DEF c
  <2>4. /\ calls' \in Seq(PageCalls)
        /\ \A e : HasSave(calls', e) <=> HasSave(base, e) \/ e = d
        /\ \A e : HasRead(base, e) => HasRead(calls', e)
        /\ Rereads(base) => Rereads(calls')
    BY <2>3, Appended
  <2>5. /\ sheet' = sheet /\ batchBlocks' = batchBlocks /\ inFlight' = inFlight
        /\ debounce' = debounce
    BY <2>2 DEF batchVars
  <2> QED BY <2>1, <2>4, <2>5 DEF PageTypeOK
<1> QED BY <1>1, <1>2

------------------------------------------------------------------------------
(* A call that is sent takes nothing from the queue. *)
LEMMA SentKeeps ==
  ASSUME PageInv, NEW c \in PageCalls, Send(Append(calls, c)),
         \A d \in frozen' \ givenUp' :
           \/ d \in frozen \ givenUp
           \/ c.op = "save" /\ c.link = d,
         \A d \in failed : d \in failed' \/ (c.op = "retry" /\ c.link = d),
         UNCHANGED <<resolve, stored, known, missed>>,
         debounce => debounce' \/ c.op = "late"
  PROVE  calls' \in Seq(PageCalls) /\ WayOut' /\ Told'
<1>1. /\ calls' \in Seq(PageCalls)
      /\ \A d : HasSave(calls', d) <=> HasSave(calls, d) \/ (c.link = d /\ c.op = "save")
      /\ \A d : HasRead(calls', d)
                  <=> HasRead(calls, d) \/ (c.link = d /\ c.op \in {"read", "retry"})
      /\ Rereads(calls') <=> Rereads(calls) \/ c.op \in {"read", "late"}
  BY Appended DEF PageInv, Send
<1>2. WayOut'
  BY <1>1 DEF PageInv, WayOut
<1>3. Told'
  BY <1>1 DEF PageInv, Told
<1> QED BY <1>1, <1>2, <1>3

(* Nothing is sent, and nothing more is suspended. *)
LEMMA QuietKeeps ==
  ASSUME PageInv, UNCHANGED <<calls, resolve, stored, known>>,
         \A d \in frozen' \ givenUp' : d \in frozen \ givenUp,
         \A d \in failed : d \in failed' \/ d \notin frozen' \ givenUp',
         missed \/ debounce => missed' \/ debounce'
  PROVE  calls' \in Seq(PageCalls) /\ WayOut' /\ Told'
<1>1. WayOut'
  BY DEF PageInv, WayOut
<1>2. Told'
  BY DEF PageInv, Told
<1> QED BY <1>1, <1>2 DEF PageInv

(* An answer to which nothing is sent: a row stays suspended only if it was, *)
(* and keeps what it rested on.                                              *)
LEMMA AnswerTakes ==
  ASSUME PageInv, calls # <<>>
  PROVE  /\ Head(calls) \in PageCalls /\ Tail(calls) \in Seq(PageCalls)
         /\ \A d : HasSave(calls, d)
                     => HasSave(Tail(calls), d) \/ (Head(calls).link = d /\ Head(calls).op = "save")
         /\ \A d : HasRead(calls, d)
                     => \/ HasRead(Tail(calls), d)
                        \/ Head(calls).link = d /\ Head(calls).op \in {"read", "retry"}
         /\ Rereads(calls) => Rereads(Tail(calls)) \/ Head(calls).op \in {"read", "late"}
  BY Taken DEF PageInv

------------------------------------------------------------------------------
(* The user. *)

LEMMA EditRowKeeps == ASSUME PageInv, NEW d \in Rows, EditRow(d) PROVE PageInv'
<1> DEFINE want == [page.rows[d] EXCEPT !.content = edits + 1]
<1>1. edits + 1 \in 0..MaxEdits
  BY DEF PageInv, PageTypeOK, EditRow
<1>2. page.rows[d] \in Row
  BY DEF PageInv, PageTypeOK, Config
<1>3. want \in Row
  BY <1>1, <1>2 DEF Row
<1>4. SaveCall(d, want, "edit") \in PageCalls /\ SaveCall(d, want, "edit").op = "save"
      /\ SaveCall(d, want, "edit").link = d
  BY <1>3, SaveCallIs
<1>5. /\ Send(Append(calls, SaveCall(d, want, "edit"))) /\ StartWrite(d)
      /\ UNCHANGED <<stored, known, page, debounce, phase, batchVars, delayVars, missed>>
      /\ edits' = edits + 1
  BY DEF EditRow
<1> HIDE DEF want
<1>6. calls' \in Seq(PageCalls) /\ WayOut' /\ Told'
  BY <1>4, <1>5, SentKeeps DEF StartWrite
<1>7. PageTypeOK'
  BY <1>1, <1>5 DEF PageInv, PageTypeOK, StartWrite, batchVars, delayVars
<1> QED BY <1>6, <1>7 DEF PageInv

(* editDisplay. *)
LEMMA EditDisplayKeeps == ASSUME PageInv, NEW d \in Rows, EditDisplay(d) PROVE PageInv'
<1> DEFINE want == [page.rows[d] EXCEPT !.content = edits + 1]
           call == [SaveCall(d, want, "edit") EXCEPT !.op = "display"]
<1>1. edits + 1 \in 0..MaxEdits
  BY DEF PageInv, PageTypeOK, EditDisplay
<1>2. page.rows[d] \in Row
  BY DEF PageInv, PageTypeOK, Config
<1>3. want \in Row
  BY <1>1, <1>2 DEF Row
<1>4. call \in PageCalls /\ call.op = "display"
  BY <1>3, DisplayCallIs
<1>5. /\ Send(Append(calls, call))
      /\ UNCHANGED <<stored, known, page, rowVars, debounce, phase, batchVars, delayVars, missed>>
      /\ edits' = edits + 1
  BY DEF EditDisplay
<1> HIDE DEF call
<1>6. calls' \in Seq(PageCalls) /\ WayOut' /\ Told'
  BY <1>4, <1>5, SentKeeps DEF rowVars
<1>7. PageTypeOK'
  BY <1>1, <1>5 DEF PageInv, PageTypeOK, rowVars, batchVars, delayVars
<1> QED BY <1>6, <1>7 DEF PageInv

(* toggleEnabled. *)
LEMMA ToggleEnabledKeeps == ASSUME PageInv, NEW d \in Rows, ToggleEnabled(d) PROVE PageInv'
<1> DEFINE want == [page.rows[d] EXCEPT !.enabled = ~@]
<1>1. page.rows[d] \in Row
  BY DEF PageInv, PageTypeOK, Config
<1>2. (~page.rows[d].enabled) \in BOOLEAN
  OBVIOUS
<1>3. want \in Row
  BY <1>1, <1>2 DEF Row
<1>4. SaveCall(d, want, "toggle") \in PageCalls /\ SaveCall(d, want, "toggle").op = "save"
      /\ SaveCall(d, want, "toggle").link = d
  BY <1>3, SaveCallIs
<1>5. /\ Send(Append(calls, SaveCall(d, want, "toggle"))) /\ StartWrite(d)
      /\ UNCHANGED <<stored, known, page, debounce, phase, batchVars, delayVars, edits, missed>>
  BY DEF ToggleEnabled
<1> HIDE DEF want
<1>6. calls' \in Seq(PageCalls) /\ WayOut' /\ Told'
  BY <1>4, <1>5, SentKeeps DEF StartWrite
<1>7. PageTypeOK'
  BY <1>5 DEF PageInv, PageTypeOK, StartWrite, batchVars, delayVars
<1> QED BY <1>6, <1>7 DEF PageInv

(* restoreDefault. *)
LEMMA RestoreKeeps == ASSUME PageInv, NEW d \in Rows, Restore(d) PROVE PageInv'
<1> DEFINE want == [page.rows[d] EXCEPT !.content = 0]
<1>1. page.rows[d] \in Row
  BY DEF PageInv, PageTypeOK, Config
<1>2. want \in Row
  BY <1>1 DEF Row
<1>3. SaveCall(d, want, "preset") \in PageCalls /\ SaveCall(d, want, "preset").op = "save"
      /\ SaveCall(d, want, "preset").link = d
  BY <1>2, SaveCallIs
<1>4. /\ Send(Append(calls, SaveCall(d, want, "preset"))) /\ StartWrite(d)
      /\ UNCHANGED <<stored, known, page, debounce, phase, batchVars, delayVars, edits, missed>>
  BY DEF Restore
<1> HIDE DEF want
<1>5. calls' \in Seq(PageCalls) /\ WayOut' /\ Told'
  BY <1>3, <1>4, SentKeeps DEF StartWrite
<1>6. PageTypeOK'
  BY <1>4 DEF PageInv, PageTypeOK, StartWrite, batchVars, delayVars
<1> QED BY <1>5, <1>6 DEF PageInv

LEMMA RetryWriteKeeps == ASSUME PageInv, NEW d \in Rows, RetryWrite(d) PROVE PageInv'
<1> DEFINE call == [PageCall("retry") EXCEPT !.link = d]
<1>1. call \in PageCalls /\ call.op = "retry" /\ call.link = d
  BY RetryCallIs
<1>2. /\ Send(Append(calls, call)) /\ failed' = failed \ {d}
      /\ UNCHANGED <<stored, known, page, pending, frozen, resolve, givenUp, debounce, phase,
                     batchVars, delayVars, edits, missed>>
  BY DEF RetryWrite
<1> HIDE DEF call
<1>3. calls' \in Seq(PageCalls) /\ WayOut' /\ Told'
  BY <1>1, <1>2, SentKeeps
<1>4. PageTypeOK'
  BY <1>2 DEF PageInv, PageTypeOK, batchVars, delayVars
<1> QED BY <1>3, <1>4 DEF PageInv

LEMMA DiscardWriteKeeps == ASSUME PageInv, NEW d \in Rows, DiscardWrite(d) PROVE PageInv'
<1>1. /\ failed' = failed \ {d}
      /\ givenUp' = IF d \in frozen THEN givenUp \cup {d} ELSE givenUp
      /\ UNCHANGED <<stored, known, page, calls, pending, frozen, resolve, debounce, phase,
                     batchVars, delayVars, edits, missed>>
  BY DEF DiscardWrite
<1>2. calls' \in Seq(PageCalls) /\ WayOut' /\ Told'
  BY <1>1, QuietKeeps
<1>3. PageTypeOK'
  BY <1>1 DEF PageInv, PageTypeOK, batchVars, delayVars
<1> QED BY <1>2, <1>3 DEF PageInv

LEMMA CommitDelayKeeps == ASSUME PageInv, NEW v \in Delays \cup {NotSet}, CommitDelay(v) PROVE PageInv'
<1>1. UNCHANGED <<stored, known, page, rowVars, debounce, phase, batchVars, edits, missed>>
  BY DEF CommitDelay
<1>2. draft' \in {"pending", "rejected"} /\ committing' \in BOOLEAN
  BY DEF CommitDelay, PageInv, PageTypeOK
<1>3. calls' \in Seq(PageCalls) /\ WayOut' /\ Told'
  <2>1. CASE calls' = calls
    BY <1>1, <2>1, QuietKeeps DEF rowVars
  <2>2. CASE calls' # calls
    <3> DEFINE call == [PageCall("delay") EXCEPT !.want = v]
    <3>1. v \in Delays /\ Send(Append(calls, call))
      BY <2>2 DEF CommitDelay
    <3>2. call \in PageCalls /\ call.op = "delay"
      BY <3>1, DelayCallIs
    <3> HIDE DEF call
    <3> QED BY <1>1, <3>1, <3>2, SentKeeps DEF rowVars
  <2> QED BY <2>1, <2>2
<1>4. PageTypeOK'
  BY <1>1, <1>2 DEF PageInv, PageTypeOK, rowVars, batchVars
<1> QED BY <1>3, <1>4 DEF PageInv

LEMMA RetryLoadKeeps == ASSUME PageInv, RetryLoad PROVE PageInv'
<1>1. /\ Send(Append(calls, PageCall("load"))) /\ phase' = "loading"
      /\ UNCHANGED <<stored, known, page, rowVars, debounce, batchVars, delayVars, edits, missed>>
  BY DEF RetryLoad
<1>2. PageCall("load") \in PageCalls /\ PageCall("load").op = "load"
  BY PageCallIs DEF Ops
<1>3. calls' \in Seq(PageCalls) /\ WayOut' /\ Told'
  BY <1>1, <1>2, SentKeeps DEF rowVars
<1>4. PageTypeOK'
  BY <1>1 DEF PageInv, PageTypeOK, rowVars, batchVars, delayVars
<1> QED BY <1>3, <1>4 DEF PageInv

LEMMA LeaveKeeps == ASSUME PageInv, Leave PROVE PageInv'
<1>1. /\ phase' = "left" /\ sheet' = NotSet /\ debounce' = FALSE /\ missed' = (missed \/ debounce)
      /\ UNCHANGED <<stored, known, page, calls, rowVars, batchBlocks, inFlight, delayVars, edits>>
  BY DEF Leave
<1>2. calls' \in Seq(PageCalls) /\ WayOut' /\ Told'
  BY <1>1, QuietKeeps DEF rowVars
<1>3. missed' \in BOOLEAN
  BY <1>1
<1>4. PageTypeOK'
  BY <1>1, <1>3 DEF PageInv, PageTypeOK, rowVars, delayVars
<1> QED BY <1>2, <1>4 DEF PageInv

LEMMA DebounceFiresKeeps == ASSUME PageInv, DebounceFires PROVE PageInv'
<1>1. /\ Send(Append(calls, PageCall("late"))) /\ debounce' = FALSE
      /\ UNCHANGED <<stored, known, page, rowVars, phase, batchVars, delayVars, edits, missed>>
  BY DEF DebounceFires
<1>2. PageCall("late") \in PageCalls /\ PageCall("late").op = "late"
  BY PageCallIs DEF Ops
<1>3. calls' \in Seq(PageCalls) /\ WayOut' /\ Told'
  BY <1>1, <1>2, SentKeeps DEF rowVars
<1>4. PageTypeOK'
  BY <1>1 DEF PageInv, PageTypeOK, rowVars, batchVars, delayVars
<1> QED BY <1>3, <1>4 DEF PageInv

(* The sheet of a batch. *)
LEMMA SheetKeeps ==
  ASSUME PageInv, CancelSheet \/ \E action \in Actions : OpenBatch(action)
  PROVE  PageInv'
<1>1. /\ sheet' \in Actions \cup {NotSet}
      /\ UNCHANGED <<stored, known, page, calls, rowVars, debounce, phase, batchBlocks, inFlight,
                     delayVars, edits, missed>>
  BY DEF CancelSheet, OpenBatch
<1>2. calls' \in Seq(PageCalls) /\ WayOut' /\ Told'
  BY <1>1, QuietKeeps DEF rowVars
<1>3. PageTypeOK'
  BY <1>1 DEF PageInv, PageTypeOK, rowVars, delayVars
<1> QED BY <1>2, <1>3 DEF PageInv

(* A batch begins with the write of a row, or with a look at the defaults. *)
LEMMA ConfirmBatchKeeps ==
  ASSUME PageInv, NEW filtered \in SUBSET Rows, ConfirmBatch(filtered)
  PROVE  PageInv'
<1> DEFINE targets == Targets(filtered, sheet)
<1>1. sheet \in Actions /\ targets \subseteq Rows
  BY DEF ConfirmBatch, PageInv, PageTypeOK, Targets
<1>2. /\ batchBlocks' = TRUE /\ inFlight' \in BOOLEAN /\ sheet' \in Actions \cup {NotSet}
      /\ UNCHANGED <<stored, known, page, failed, resolve, debounce, phase, delayVars, edits, missed>>
  BY <1>1 DEF ConfirmBatch
<1>3. CASE UNCHANGED <<calls, pending, frozen, givenUp>>
  <2>1. calls' \in Seq(PageCalls) /\ WayOut' /\ Told'
    BY <1>2, <1>3, QuietKeeps
  <2>2. PageTypeOK'
    BY <1>2, <1>3 DEF PageInv, PageTypeOK, delayVars
  <2> QED BY <2>1, <2>2 DEF PageInv
<1>4. ASSUME Send(Append(calls, [PageCall("defaults") EXCEPT !.batch = sheet, !.todo = targets])),
             UNCHANGED <<pending, frozen, givenUp>>
      PROVE  PageInv'
  <2> DEFINE call == [PageCall("defaults") EXCEPT !.batch = sheet, !.todo = targets]
  <2>1. call \in PageCalls /\ call.op = "defaults"
    BY <1>1, DefaultsCallIs
  <2>2. Send(Append(calls, call))
    BY <1>4
  <2> HIDE DEF call
  <2>3. calls' \in Seq(PageCalls) /\ WayOut' /\ Told'
    BY <1>2, <1>4, <2>1, <2>2, SentKeeps
  <2>4. PageTypeOK'
    BY <1>2, <1>4 DEF PageInv, PageTypeOK, delayVars
  <2> QED BY <2>3, <2>4 DEF PageInv
<1>5. ASSUME NEW d \in targets,
             Send(Append(calls, BatchCall(page, d, sheet, targets \ {d}))),
             pending' = pending \cup {d}, frozen' = frozen \cup {d}, givenUp' = givenUp \ {d}
      PROVE  PageInv'
  <2> DEFINE call == BatchCall(page, d, sheet, targets \ {d})
  <2>1. call \in PageCalls /\ call.op = "save" /\ call.link = d
    BY <1>1, BatchCallIs DEF PageInv, PageTypeOK
  <2>2. Send(Append(calls, call))
    BY <1>5
  <2> HIDE DEF call
  <2>3. calls' \in Seq(PageCalls) /\ WayOut' /\ Told'
    BY <1>2, <1>5, <2>1, <2>2, SentKeeps
  <2>4. PageTypeOK'
    BY <1>1, <1>2, <1>5 DEF PageInv, PageTypeOK, delayVars
  <2> QED BY <2>3, <2>4 DEF PageInv
<1> HIDE DEF targets
<1>6. \/ UNCHANGED <<calls, pending, frozen, givenUp>>
      \/ /\ Send(Append(calls, [PageCall("defaults") EXCEPT !.batch = sheet, !.todo = targets]))
         /\ UNCHANGED <<pending, frozen, givenUp>>
      \/ \E d \in targets :
           /\ Send(Append(calls, BatchCall(page, d, sheet, targets \ {d})))
           /\ pending' = pending \cup {d} /\ frozen' = frozen \cup {d} /\ givenUp' = givenUp \ {d}
  BY DEF ConfirmBatch, targets
<1> QED BY <1>3, <1>4, <1>5, <1>6

------------------------------------------------------------------------------
(* The answers. *)

(* A write was accepted: its re-read follows, and it is known how to resume. *)
LEMMA SaveAcceptedKeeps == ASSUME PageInv, SaveAccepted PROVE PageInv'
<1> DEFINE c == Head(calls)
           read == [c EXCEPT !.op = "read"]
<1>1. /\ calls # <<>> /\ c.op = "save"
      /\ stored' = [stored EXCEPT !.rows[c.link] = Written(c)]
      /\ pending' = pending \ {c.link}
      /\ Send(Append(Tail(calls), read))
      /\ UNCHANGED <<known, page, failed, frozen, givenUp, debounce, phase, batchVars, delayVars,
                     edits, missed>>
  BY DEF SaveAccepted, Answered
<1>2. resolve' = [resolve EXCEPT ![c.link] =
                   IF c.kind = "toggle" /\ c.want.enabled THEN "restart" ELSE "resume"]
  BY DEF SaveAccepted, Answered
<1>3. /\ c \in PageCalls /\ Tail(calls) \in Seq(PageCalls)
      /\ \A d : HasSave(calls, d) => HasSave(Tail(calls), d) \/ c.link = d
      /\ \A d : HasRead(calls, d) => HasRead(Tail(calls), d)
  BY <1>1, AnswerTakes
<1>4. c.link \in Rows
  BY <1>1, <1>3 DEF PageCalls
<1>5. read \in PageCalls /\ read.op = "read" /\ read.link = c.link
  BY <1>1, <1>3, ReadCallIs
<1>6. stored' \in Config
  BY <1>1, <1>3, WrittenIs DEF PageInv
<1> HIDE DEF c, read
<1>7. /\ calls' \in Seq(PageCalls) /\ Rereads(calls')
      /\ \A d : HasSave(calls, d) => HasSave(calls', d) \/ c.link = d
      /\ \A d : HasRead(calls, d) => HasRead(calls', d)
      /\ HasRead(calls', c.link)
  BY <1>1, <1>3, <1>5, Appended DEF Send
<1>8. /\ resolve' \in [Rows -> {NotSet, "resume", "restart"}]
      /\ resolve'[c.link] # NotSet
      /\ \A d \in Rows \ {c.link} : resolve'[d] = resolve[d]
  BY <1>2, <1>4 DEF PageInv, PageTypeOK
<1>9. PageTypeOK'
  BY <1>1, <1>6, <1>8 DEF PageInv, PageTypeOK, batchVars, delayVars
<1>10. WayOut'
  BY <1>1, <1>7, <1>8 DEF PageInv, WayOut, PageTypeOK
<1> QED BY <1>7, <1>9, <1>10 DEF PageInv, Told

(* A write was refused: its row is resumed. *)
LEMMA SaveRefusedKeeps == ASSUME PageInv, SaveRefused PROVE PageInv'
<1> DEFINE c == Head(calls)
           row == [pending |-> pending \ {c.link}, frozen |-> frozen \ {c.link},
                   givenUp |-> givenUp]
<1>1. /\ calls # <<>> /\ c.op = "save"
      /\ failed' = IF c.batch = NotSet THEN failed \cup {c.link} ELSE failed
      /\ UNCHANGED <<stored, known, page, resolve, phase, delayVars, edits, missed>>
  BY DEF SaveRefused, Answered
<1>2. IF c.batch = NotSet
        THEN /\ calls' = Tail(calls)
             /\ pending' = row.pending /\ frozen' = row.frozen
             /\ UNCHANGED <<givenUp, batchVars, debounce>>
        ELSE BatchGoesOn(Tail(calls), c.batch, c.todo, row, page)
  BY DEF SaveRefused, Answered, Send
<1>3. /\ c \in PageCalls /\ Tail(calls) \in Seq(PageCalls)
      /\ \A d : HasSave(calls, d) => HasSave(Tail(calls), d) \/ c.link = d
      /\ \A d : HasRead(calls, d) => HasRead(Tail(calls), d)
      /\ Rereads(calls) => Rereads(Tail(calls))
  BY <1>1, AnswerTakes
<1>4. c.link \in Rows /\ c.batch \in Actions \cup {NotSet} /\ c.todo \in SUBSET Rows
  BY <1>1, <1>3 DEF PageCalls
<1>5. /\ row.pending \subseteq Rows /\ row.frozen \subseteq Rows /\ row.givenUp \subseteq Rows
      /\ row.frozen \ row.givenUp = (frozen \ givenUp) \ {c.link}
  BY DEF PageInv, PageTypeOK
<1> HIDE DEF c, row
<1>6. /\ pending' \subseteq Rows /\ frozen' \subseteq Rows /\ givenUp' \subseteq Rows
      /\ sheet' \in Actions \cup {NotSet}
      /\ batchBlocks' \in BOOLEAN /\ inFlight' \in BOOLEAN /\ debounce' \in BOOLEAN
      /\ debounce => debounce'
      /\ calls' \in Seq(PageCalls)
      /\ \A d : HasSave(Tail(calls), d) => HasSave(calls', d)
      /\ \A d : HasRead(Tail(calls), d) => HasRead(calls', d)
      /\ Rereads(Tail(calls)) => Rereads(calls')
      /\ \A d \in frozen' \ givenUp' : d \in row.frozen \ row.givenUp \/ HasSave(calls', d)
  <2>1. CASE c.batch = NotSet
    <3>1. givenUp' = row.givenUp
      BY <1>2, <2>1 DEF row
    <3> QED BY <1>2, <1>3, <1>5, <2>1, <3>1 DEF PageInv, PageTypeOK, batchVars
  <2>2. CASE c.batch # NotSet
    BY <1>2, <1>3, <1>4, <1>5, <2>2, BatchKeeps DEF PageInv, PageTypeOK
  <2> QED BY <2>1, <2>2
<1>7. failed' \subseteq Rows /\ failed \subseteq failed'
  BY <1>1, <1>4 DEF PageInv, PageTypeOK
<1>8. PageTypeOK'
  BY <1>1, <1>6, <1>7 DEF PageInv, PageTypeOK, delayVars
<1>9. WayOut'
  BY <1>1, <1>3, <1>5, <1>6, <1>7 DEF PageInv, WayOut
<1>10. Told'
  BY <1>1, <1>3, <1>6 DEF PageInv, Told
<1> QED BY <1>6, <1>8, <1>9, <1>10 DEF PageInv

(* A write threw: nobody resumes its row. *)
LEMMA SaveThrowsKeeps == ASSUME PageInv, SaveThrows PROVE PageInv'
<1> DEFINE c == Head(calls)
<1>1. /\ calls # <<>> /\ c.op = "save"
      /\ stored' \in {stored, [stored EXCEPT !.rows[c.link] = Written(c)]}
      /\ calls' = Tail(calls) /\ givenUp' = givenUp \cup {c.link} /\ missed' = TRUE
      /\ UNCHANGED <<known, page, pending, failed, frozen, resolve, debounce, phase, batchVars,
                     delayVars, edits>>
  BY DEF SaveThrows, Answered, Send
<1>2. /\ c \in PageCalls /\ calls' \in Seq(PageCalls)
      /\ \A d : HasSave(calls, d) => HasSave(calls', d) \/ c.link = d
      /\ \A d : HasRead(calls, d) => HasRead(calls', d)
  BY <1>1, AnswerTakes
<1>3. c.link \in Rows
  BY <1>1, <1>2 DEF PageCalls
<1>4. stored' \in Config
  BY <1>1, <1>2, WrittenIs DEF PageInv, PageTypeOK
<1> HIDE DEF c
<1>5. PageTypeOK'
  BY <1>1, <1>3, <1>4 DEF PageInv, PageTypeOK, batchVars, delayVars
<1>6. WayOut'
  BY <1>1, <1>2 DEF PageInv, WayOut
<1> QED BY <1>1, <1>2, <1>5, <1>6 DEF PageInv, Told

(* What a re-read shows of a row that was restored. *)
LEMMA RestoredIs ==
  ASSUME NEW rows \in [Rows -> Row], NEW d \in Rows
  PROVE  [rows EXCEPT ![d] = [@ EXCEPT !.content = 0, !.custom = FALSE]] \in [Rows -> Row]
<1>1. rows[d] \in Row
  OBVIOUS
<1>2. [rows[d] EXCEPT !.content = 0] \in Row
  BY <1>1 DEF Row
<1>3. ASSUME NEW r \in Row PROVE [r EXCEPT !.custom = FALSE] \in Row
  BY DEF Row
<1>4. [rows[d] EXCEPT !.content = 0, !.custom = FALSE] \in Row
  BY <1>2, <1>3
<1> QED BY <1>4

(* The re-read after a write: the evaluator has what is stored, and the row  *)
(* is resumed.                                                               *)
LEMMA ReadReturnsKeeps == ASSUME PageInv, ReadReturns PROVE PageInv'
<1> DEFINE c == Head(calls)
           row == [RowState EXCEPT !.frozen = @ \ {c.link}]
<1>1. /\ calls # <<>> /\ c.op = "read" /\ known' = stored /\ missed' = FALSE
      /\ resolve' = [resolve EXCEPT ![c.link] = NotSet]
      /\ UNCHANGED <<stored, failed, phase, delayVars, edits>>
  BY DEF ReadReturns, Answered
<1>2. page' = [rows |-> IF c.kind = "preset"
                          THEN [stored.rows EXCEPT ![c.link] =
                                  [@ EXCEPT !.content = 0, !.custom = FALSE]]
                          ELSE stored.rows,
               delay |-> page.delay]
  BY DEF ReadReturns, Answered
<1>3. IF c.batch = NotSet
        THEN /\ calls' = Tail(calls) /\ frozen' = row.frozen
             /\ UNCHANGED <<pending, givenUp, batchVars, debounce>>
        ELSE BatchGoesOn(Tail(calls), c.batch, c.todo, row, page')
  BY DEF ReadReturns, Answered, Send
<1>4. /\ c \in PageCalls /\ Tail(calls) \in Seq(PageCalls)
      /\ \A d : HasSave(calls, d) => HasSave(Tail(calls), d)
      /\ \A d : HasRead(calls, d) => HasRead(Tail(calls), d) \/ c.link = d
  BY <1>1, AnswerTakes
<1>5. c.link \in Rows /\ c.batch \in Actions \cup {NotSet} /\ c.todo \in SUBSET Rows
  BY <1>1, <1>4 DEF PageCalls
<1>6. /\ row.pending = pending /\ row.frozen = frozen \ {c.link} /\ row.givenUp = givenUp
      /\ row.pending \subseteq Rows /\ row.frozen \subseteq Rows /\ row.givenUp \subseteq Rows
  BY DEF PageInv, PageTypeOK, RowState
<1>7. page' \in Config
  <2>1. stored.rows \in [Rows -> Row] /\ page.delay \in Delays
    BY DEF PageInv, PageTypeOK, Config
  <2>2. [stored.rows EXCEPT ![c.link] = [@ EXCEPT !.content = 0, !.custom = FALSE]]
          \in [Rows -> Row]
    BY <1>5, <2>1, RestoredIs
  <2> QED BY <1>2, <2>1, <2>2 DEF Config
<1>8. resolve' \in [Rows -> {NotSet, "resume", "restart"}]
      /\ \A d \in Rows \ {c.link} : resolve'[d] = resolve[d]
  BY <1>1, <1>5 DEF PageInv, PageTypeOK
<1> HIDE DEF c, row
<1>9. /\ pending' \subseteq Rows /\ frozen' \subseteq Rows /\ givenUp' \subseteq Rows
      /\ sheet' \in Actions \cup {NotSet}
      /\ batchBlocks' \in BOOLEAN /\ inFlight' \in BOOLEAN /\ debounce' \in BOOLEAN
      /\ calls' \in Seq(PageCalls)
      /\ \A d : HasSave(Tail(calls), d) => HasSave(calls', d)
      /\ \A d : HasRead(Tail(calls), d) => HasRead(calls', d)
      /\ \A d \in frozen' \ givenUp' : d \in row.frozen \ row.givenUp \/ HasSave(calls', d)
  <2>1. CASE c.batch = NotSet
    BY <1>3, <1>4, <1>6, <2>1 DEF PageInv, PageTypeOK, batchVars
  <2>2. CASE c.batch # NotSet
    BY <1>3, <1>4, <1>5, <1>6, <1>7, <2>2, BatchKeeps DEF PageInv
  <2> QED BY <2>1, <2>2
<1>10. PageTypeOK'
  BY <1>1, <1>7, <1>8, <1>9 DEF PageInv, PageTypeOK, delayVars
<1>11. WayOut'
  BY <1>1, <1>4, <1>6, <1>8, <1>9 DEF PageInv, WayOut, PageTypeOK
<1>12. Told'
  BY <1>1 DEF Told
<1> QED BY <1>9, <1>10, <1>11, <1>12 DEF PageInv

(* The re-read after a write failed: its row offers a retry.                 *)
LEMMA ReadFailsKeeps == ASSUME PageInv, ReadFails PROVE PageInv'
<1> DEFINE c == Head(calls)
<1>1. /\ calls # <<>> /\ c.op = "read" /\ failed' = failed \cup {c.link} /\ missed' = TRUE
      /\ UNCHANGED <<stored, known, resolve, phase, delayVars, edits>>
  BY DEF ReadFails, Answered
<1>2. page' = IF c.kind = "preset"
                THEN [page EXCEPT !.rows[c.link] = [@ EXCEPT !.content = 0, !.custom = FALSE]]
                ELSE page
  BY DEF ReadFails, Answered
<1>3. IF c.batch = NotSet
        THEN calls' = Tail(calls) /\ UNCHANGED <<pending, frozen, givenUp, batchVars, debounce>>
        ELSE BatchGoesOn(Tail(calls), c.batch, c.todo, RowState, page')
  BY DEF ReadFails, Answered, Send
<1>4. /\ c \in PageCalls /\ Tail(calls) \in Seq(PageCalls)
      /\ \A d : HasSave(calls, d) => HasSave(Tail(calls), d)
      /\ \A d : HasRead(calls, d) => HasRead(Tail(calls), d) \/ c.link = d
  BY <1>1, AnswerTakes
<1>5. c.link \in Rows /\ c.batch \in Actions \cup {NotSet} /\ c.todo \in SUBSET Rows
  BY <1>1, <1>4 DEF PageCalls
<1>6. /\ RowState.pending = pending /\ RowState.frozen = frozen /\ RowState.givenUp = givenUp
      /\ RowState.pending \subseteq Rows /\ RowState.frozen \subseteq Rows
      /\ RowState.givenUp \subseteq Rows
  BY DEF PageInv, PageTypeOK, RowState
<1>7. page' \in Config
  <2>1. page \in Config /\ page.rows \in [Rows -> Row]
    BY DEF PageInv, PageTypeOK, Config
  <2>2. [page.rows EXCEPT ![c.link] = [@ EXCEPT !.content = 0, !.custom = FALSE]]
          \in [Rows -> Row]
    BY <1>5, <2>1, RestoredIs
  <2>3. ASSUME NEW rows \in [Rows -> Row] PROVE [page EXCEPT !.rows = rows] \in Config
    BY <2>1 DEF Config
  <2> QED BY <1>2, <2>1, <2>2, <2>3
<1> HIDE DEF c
<1>9. /\ pending' \subseteq Rows /\ frozen' \subseteq Rows /\ givenUp' \subseteq Rows
      /\ sheet' \in Actions \cup {NotSet}
      /\ batchBlocks' \in BOOLEAN /\ inFlight' \in BOOLEAN /\ debounce' \in BOOLEAN
      /\ calls' \in Seq(PageCalls)
      /\ \A d : HasSave(Tail(calls), d) => HasSave(calls', d)
      /\ \A d : HasRead(Tail(calls), d) => HasRead(calls', d)
      /\ \A d \in frozen' \ givenUp' : d \in frozen \ givenUp \/ HasSave(calls', d)
  <2>1. CASE c.batch = NotSet
    BY <1>3, <1>4, <1>6, <2>1 DEF PageInv, PageTypeOK, batchVars
  <2>2. CASE c.batch # NotSet
    BY <1>3, <1>4, <1>5, <1>6, <1>7, <2>2, BatchKeeps DEF PageInv
  <2> QED BY <2>1, <2>2
<1>10. PageTypeOK'
  BY <1>1, <1>5, <1>7, <1>9 DEF PageInv, PageTypeOK, delayVars
<1>11. WayOut'
  BY <1>1, <1>4, <1>9 DEF PageInv, WayOut
<1>12. Told'
  BY <1>1 DEF Told
<1> QED BY <1>9, <1>10, <1>11, <1>12 DEF PageInv

(* The re-read of a retry: a row that knows how is resumed; one that does not *)
(* has a write in the queue.                                                  *)
LEMMA RetryReturnsKeeps == ASSUME PageInv, RetryReturns PROVE PageInv'
<1> DEFINE c == Head(calls)
<1>1. /\ calls # <<>> /\ c.op = "retry" /\ calls' = Tail(calls)
      /\ known' = stored /\ missed' = FALSE /\ page' = [page EXCEPT !.rows = stored.rows]
      /\ frozen' = IF resolve[c.link] # NotSet THEN frozen \ {c.link} ELSE frozen
      /\ resolve' = [resolve EXCEPT ![c.link] = NotSet]
      /\ UNCHANGED <<stored, pending, failed, givenUp, debounce, phase, batchVars, delayVars, edits>>
  BY DEF RetryReturns, Answered, Send
<1>2. /\ c \in PageCalls /\ calls' \in Seq(PageCalls)
      /\ \A d : HasSave(calls, d) => HasSave(calls', d)
      /\ \A d : HasRead(calls, d) => HasRead(calls', d) \/ c.link = d
  BY <1>1, AnswerTakes
<1>3. c.link \in Rows
  BY <1>1, <1>2 DEF PageCalls
<1>4. page' \in Config
  BY <1>1 DEF PageInv, PageTypeOK, Config
<1>5. resolve' \in [Rows -> {NotSet, "resume", "restart"}]
      /\ \A d \in Rows \ {c.link} : resolve'[d] = resolve[d]
  BY <1>1, <1>3 DEF PageInv, PageTypeOK
<1> HIDE DEF c
<1>6. PageTypeOK'
  BY <1>1, <1>4, <1>5 DEF PageInv, PageTypeOK, batchVars, delayVars
<1>7. WayOut'
  BY <1>1, <1>2, <1>5 DEF PageInv, WayOut, PageTypeOK
<1>8. Told'
  BY <1>1 DEF Told
<1> QED BY <1>2, <1>6, <1>7, <1>8 DEF PageInv

LEMMA RetryFailsKeeps == ASSUME PageInv, RetryFails PROVE PageInv'
<1> DEFINE c == Head(calls)
<1>1. /\ calls # <<>> /\ c.op = "retry" /\ calls' = Tail(calls)
      /\ givenUp' = IF c.link \in frozen THEN givenUp \cup {c.link} ELSE givenUp
      /\ missed' = TRUE
      /\ UNCHANGED <<stored, known, page, pending, failed, frozen, resolve, debounce, phase,
                     batchVars, delayVars, edits>>
  BY DEF RetryFails, Answered, Send
<1>2. /\ c \in PageCalls /\ calls' \in Seq(PageCalls)
      /\ \A d : HasSave(calls, d) => HasSave(calls', d)
      /\ \A d : HasRead(calls, d) => HasRead(calls', d) \/ c.link = d
  BY <1>1, AnswerTakes
<1>3. c.link \in Rows
  BY <1>1, <1>2 DEF PageCalls
<1> HIDE DEF c
<1>4. PageTypeOK'
  BY <1>1, <1>3 DEF PageInv, PageTypeOK, batchVars, delayVars
<1>5. WayOut'
  BY <1>1, <1>2 DEF PageInv, WayOut
<1> QED BY <1>1, <1>2, <1>4, <1>5 DEF PageInv, Told

(* An answer that is not about a suspended row leaves the suspensions alone. *)
LEMMA AnswerApart ==
  ASSUME PageInv, calls # <<>>, Head(calls).op \notin {"save", "read", "retry"},
         Send(Tail(calls)), UNCHANGED <<frozen, givenUp, resolve>>, failed \subseteq failed',
         \/ known' = stored' \/ missed' \/ debounce'
         \/ /\ Head(calls).op # "late"
            /\ known = stored => known' = stored'
            /\ missed \/ debounce => missed' \/ debounce'
  PROVE  calls' \in Seq(PageCalls) /\ WayOut' /\ Told'
<1>1. /\ calls' = Tail(calls) /\ calls' \in Seq(PageCalls)
      /\ \A d : HasSave(calls, d) => HasSave(calls', d)
      /\ \A d : HasRead(calls, d) => HasRead(calls', d)
      /\ Rereads(calls) => Rereads(calls') \/ Head(calls).op = "late"
  BY AnswerTakes DEF Send
<1>2. WayOut'
  BY <1>1 DEF PageInv, WayOut
<1>3. Told'
  BY <1>1 DEF PageInv, Told
<1> QED BY <1>1, <1>2, <1>3

LEMMA DisplayKeeps ==
  ASSUME PageInv, DisplayAccepted \/ DisplayRefused \/ DisplayThrows
  PROVE  PageInv'
<1> DEFINE c == Head(calls)
<1>1. calls # <<>> /\ c.op = "display" /\ Send(Tail(calls))
  BY DEF DisplayAccepted, DisplayRefused, DisplayThrows, Answered
<1>2. c \in PageCalls /\ c.link \in Rows /\ c.want \in Row
  BY <1>1, AnswerTakes DEF PageCalls
<1>3. [stored EXCEPT !.rows[c.link] = Written(c)] \in Config
  BY <1>1, <1>2, WrittenIs DEF PageInv
<1>4. [page EXCEPT !.rows[c.link].content = c.want.content] \in Config
  <2>1. page \in Config /\ page.rows \in [Rows -> Row] /\ page.rows[c.link] \in Row
    BY <1>2 DEF PageInv, PageTypeOK, Config
  <2>2. [page.rows[c.link] EXCEPT !.content = c.want.content] \in Row
    BY <1>2, <2>1 DEF Row
  <2>3. [page.rows EXCEPT ![c.link] = [@ EXCEPT !.content = c.want.content]] \in [Rows -> Row]
    BY <2>1, <2>2
  <2>4. ASSUME NEW rows \in [Rows -> Row] PROVE [page EXCEPT !.rows = rows] \in Config
    BY <2>1 DEF Config
  <2> QED BY <2>1, <2>3, <2>4
<1>5. /\ stored' \in Config /\ page' \in Config /\ failed' \subseteq Rows /\ failed \subseteq failed'
      /\ debounce' \in BOOLEAN /\ missed' \in BOOLEAN
      /\ UNCHANGED <<known, pending, frozen, givenUp, resolve, phase, batchVars, delayVars, edits>>
      /\ (known' = known /\ stored' = stored /\ missed' = missed /\ debounce' = debounce)
           \/ missed' \/ debounce'
  <2>1. CASE DisplayAccepted
    BY <1>3, <1>4, <2>1 DEF DisplayAccepted, Answered, rowVars, PageInv, PageTypeOK
  <2>2. CASE DisplayRefused
    BY <1>2, <2>2 DEF DisplayRefused, Answered, PageInv, PageTypeOK
  <2>3. CASE DisplayThrows
    BY <1>3, <2>3 DEF DisplayThrows, Answered, rowVars, PageInv, PageTypeOK
  <2> QED BY <2>1, <2>2, <2>3
<1> HIDE DEF c
<1>6. PageTypeOK'
  BY <1>5 DEF PageInv, PageTypeOK, batchVars, delayVars
<1>7. Head(calls).op = "display"
  BY <1>1 DEF c
<1>8. calls' \in Seq(PageCalls) /\ WayOut' /\ Told'
  BY <1>1, <1>5, <1>7, AnswerApart
<1> QED BY <1>6, <1>8 DEF PageInv

LEMMA LateReadEndsKeeps == ASSUME PageInv, LateReadEnds PROVE PageInv'
<1>1. /\ calls # <<>> /\ Head(calls).op = "late" /\ Send(Tail(calls))
      /\ \/ known' = stored /\ missed' = FALSE
         \/ missed' = TRUE /\ UNCHANGED known
      /\ UNCHANGED <<stored, page, rowVars, debounce, phase, batchVars, delayVars, edits>>
  BY DEF LateReadEnds, Answered
<1>2. PageTypeOK'
  BY <1>1 DEF PageInv, PageTypeOK, rowVars, batchVars, delayVars
<1>3. calls' \in Seq(PageCalls) /\ WayOut' /\ Told'
  BY <1>1, AnswerApart DEF rowVars
<1> QED BY <1>2, <1>3 DEF PageInv

LEMMA LoadEndsKeeps == ASSUME PageInv, LoadEnds PROVE PageInv'
<1>1. /\ calls # <<>> /\ Head(calls).op = "load" /\ Send(Tail(calls))
      /\ UNCHANGED <<stored, rowVars, debounce, batchVars, delayVars, edits>>
      /\ phase' \in {phase, "shown", "error"}
  BY DEF LoadEnds, Answered
<1>2. \/ /\ known' = stored /\ missed' = FALSE
         /\ page' = IF draft = "pending" THEN [page EXCEPT !.rows = stored.rows] ELSE stored
      \/ UNCHANGED <<known, missed, page>>
  BY DEF LoadEnds
<1>3. page' \in Config /\ known' \in Config /\ missed' \in BOOLEAN
  <2>1. [page EXCEPT !.rows = stored.rows] \in Config
    BY DEF PageInv, PageTypeOK, Config
  <2> QED BY <1>2, <2>1 DEF PageInv, PageTypeOK
<1>4. PageTypeOK'
  BY <1>1, <1>3 DEF PageInv, PageTypeOK, rowVars, batchVars, delayVars
<1>5. calls' \in Seq(PageCalls) /\ WayOut' /\ Told'
  BY <1>1, <1>2, AnswerApart DEF rowVars
<1> QED BY <1>4, <1>5 DEF PageInv

(* The defaults of a batch: the first of its rows is written. *)
LEMMA DefaultsEndKeeps == ASSUME PageInv, DefaultsEnd PROVE PageInv'
<1> DEFINE c == Head(calls)
<1>1. /\ calls # <<>> /\ c.op = "defaults"
      /\ UNCHANGED <<stored, known, page, failed, resolve, phase, delayVars, edits, missed>>
  BY DEF DefaultsEnd, Answered
<1>2. \/ BatchGoesOn(Tail(calls), c.batch, c.todo \cap HasDefaults, RowState, page)
      \/ Send(Tail(calls)) /\ UNCHANGED <<pending, frozen, givenUp, batchVars, debounce>>
  BY DEF DefaultsEnd, Answered
<1>3. /\ c \in PageCalls /\ Tail(calls) \in Seq(PageCalls)
      /\ \A d : HasSave(calls, d) => HasSave(Tail(calls), d)
      /\ \A d : HasRead(calls, d) => HasRead(Tail(calls), d)
      /\ Rereads(calls) => Rereads(Tail(calls))
  BY <1>1, AnswerTakes
<1>4. c.batch \in Actions \cup {NotSet} /\ (c.todo \cap HasDefaults) \in SUBSET Rows
  BY <1>3 DEF PageCalls
<1>5. CASE Send(Tail(calls)) /\ UNCHANGED <<pending, frozen, givenUp, batchVars, debounce>>
  <2>1. PageTypeOK'
    BY <1>1, <1>5 DEF PageInv, PageTypeOK, batchVars, delayVars
  <2>2. calls' \in Seq(PageCalls) /\ WayOut' /\ Told'
    BY <1>1, <1>5, AnswerApart
  <2> QED BY <2>1, <2>2 DEF PageInv
<1>6. CASE BatchGoesOn(Tail(calls), c.batch, c.todo \cap HasDefaults, RowState, page)
  <2>1. /\ RowState.pending = pending /\ RowState.frozen = frozen /\ RowState.givenUp = givenUp
        /\ RowState.pending \subseteq Rows /\ RowState.frozen \subseteq Rows
        /\ RowState.givenUp \subseteq Rows
    BY DEF PageInv, PageTypeOK, RowState
  <2> HIDE DEF c
  <2>2. /\ pending' \subseteq Rows /\ frozen' \subseteq Rows /\ givenUp' \subseteq Rows
        /\ sheet' \in Actions \cup {NotSet}
        /\ batchBlocks' \in BOOLEAN /\ inFlight' \in BOOLEAN /\ debounce' \in BOOLEAN
        /\ debounce => debounce'
        /\ calls' \in Seq(PageCalls)
        /\ \A d : HasSave(Tail(calls), d) => HasSave(calls', d)
        /\ \A d : HasRead(Tail(calls), d) => HasRead(calls', d)
        /\ Rereads(Tail(calls)) => Rereads(calls')
        /\ \A d \in frozen' \ givenUp' :
             d \in RowState.frozen \ RowState.givenUp \/ HasSave(calls', d)
    BY <1>3, <1>4, <1>6, <2>1, BatchKeeps DEF PageInv, PageTypeOK
  <2>3. PageTypeOK'
    BY <1>1, <2>2 DEF PageInv, PageTypeOK, delayVars
  <2>4. WayOut'
    BY <1>1, <1>3, <2>1, <2>2 DEF PageInv, WayOut
  <2>5. Told'
    BY <1>1, <1>3, <2>2 DEF PageInv, Told
  <2> QED BY <2>2, <2>3, <2>4, <2>5 DEF PageInv
<1> QED BY <1>2, <1>5, <1>6

(* The delay is told the evaluator together with the host. *)
LEMMA DelayKeeps ==
  ASSUME PageInv, DelayAccepted \/ DelayRefused \/ DelayThrows
  PROVE  PageInv'
<1> DEFINE c == Head(calls)
<1>1. calls # <<>> /\ c.op = "delay" /\ Send(Tail(calls))
  BY DEF DelayAccepted, DelayRefused, DelayThrows, Answered
<1>2. c \in PageCalls /\ c.want \in Delays
  BY <1>1, AnswerTakes DEF PageCalls
<1>3. ASSUME NEW x \in Config PROVE [x EXCEPT !.delay = c.want] \in Config
  BY <1>2 DEF Config
<1>4. /\ stored' \in Config /\ page' \in Config /\ known' \in Config
      /\ missed' \in BOOLEAN
      /\ missed' = missed \/ missed' = TRUE
      /\ draft' \in {draft, "idle"} /\ committing' = FALSE
      /\ UNCHANGED <<pending, failed, frozen, givenUp, resolve, debounce, phase, batchVars, edits>>
      /\ (known = stored => known' = stored') \/ missed' = TRUE
  <2>1. CASE DelayAccepted
    BY <1>3, <2>1 DEF DelayAccepted, Answered, rowVars, PageInv, PageTypeOK
  <2>2. CASE DelayRefused
    BY <2>2 DEF DelayRefused, rowVars, PageInv, PageTypeOK
  <2>3. CASE DelayThrows
    BY <1>3, <2>3 DEF DelayThrows, Answered, rowVars, PageInv, PageTypeOK
  <2> QED BY <2>1, <2>2, <2>3
<1>5. Head(calls).op = "delay"
  BY <1>1
<1> HIDE DEF c
<1>6. PageTypeOK'
  <2>1. sheet' = sheet /\ batchBlocks' = batchBlocks /\ inFlight' = inFlight
    BY <1>4 DEF batchVars
  <2>2. draft' \in {"idle", "pending", "rejected"} /\ committing' \in BOOLEAN
    BY <1>4 DEF PageInv, PageTypeOK
  <2>3. {debounce, batchBlocks, inFlight, committing, missed}' \subseteq BOOLEAN
    BY <1>4, <2>1, <2>2 DEF PageInv, PageTypeOK
  <2> QED BY <1>4, <2>1, <2>2, <2>3 DEF PageInv, PageTypeOK
<1>7. calls' \in Seq(PageCalls) /\ WayOut' /\ Told'
  <2>1. Head(calls).op \notin {"save", "read", "retry", "late"}
    BY <1>5
  <2>2. UNCHANGED <<frozen, givenUp, resolve>> /\ failed \subseteq failed'
    BY <1>4
  <2>3. \/ missed'
        \/ (known = stored => known' = stored') /\ (missed \/ debounce => missed' \/ debounce')
    BY <1>4
  <2> QED BY <1>1, <2>1, <2>2, <2>3, AnswerApart
<1> QED BY <1>6, <1>7 DEF PageInv

------------------------------------------------------------------------------
(* The page as it is mounted: its load is the only call. *)
LEMMA PageInitInv == PageInit => PageInv
<1> SUFFICES ASSUME PageInit PROVE PageInv
  OBVIOUS
<1>1. PageCall("load") \in PageCalls
  BY PageCallIs DEF Ops
<1>2. calls \in Seq(PageCalls)
  BY <1>1 DEF PageInit
<1>3. stored \in Config /\ known = stored /\ page = stored
  BY DEF PageInit
<1>4. PageTypeOK
  <2>1. resolve \in [Rows -> {NotSet, "resume", "restart"}] /\ edits \in 0..MaxEdits
    BY DEF PageInit
  <2>2. {debounce, batchBlocks, inFlight, committing, missed} \subseteq BOOLEAN
    BY DEF PageInit
  <2> QED BY <1>3, <2>1, <2>2 DEF PageInit, PageTypeOK
<1> QED BY <1>2, <1>3, <1>4 DEF PageInit, PageInv, WayOut, Told

(* Every step keeps it. *)
LEMMA PageStepInv == PageInv /\ [PageNext]_pageVars => PageInv'
<1> SUFFICES ASSUME PageInv, [PageNext]_pageVars PROVE PageInv'
  OBVIOUS
<1>1. CASE HostAnswers
  BY <1>1, SaveAcceptedKeeps, SaveRefusedKeeps, SaveThrowsKeeps, ReadReturnsKeeps, ReadFailsKeeps,
     RetryReturnsKeeps, RetryFailsKeeps, DisplayKeeps, LateReadEndsKeeps, LoadEndsKeeps,
     DefaultsEndKeeps, DelayKeeps DEF HostAnswers
<1>2. CASE PageUser
  <2>1. ASSUME NEW d \in Rows,
               EditRow(d) \/ EditDisplay(d) \/ ToggleEnabled(d) \/ Restore(d)
                 \/ RetryWrite(d) \/ DiscardWrite(d)
        PROVE  PageInv'
    BY <2>1, EditRowKeeps, EditDisplayKeeps, ToggleEnabledKeeps, RestoreKeeps, RetryWriteKeeps,
       DiscardWriteKeeps
  <2>2. ASSUME NEW v \in Delays \cup {NotSet}, CommitDelay(v) PROVE PageInv'
    BY <2>2, CommitDelayKeeps
  <2>3. ASSUME NEW filtered \in SUBSET Rows, ConfirmBatch(filtered) PROVE PageInv'
    BY <2>3, ConfirmBatchKeeps
  <2>4. CASE CancelSheet \/ \E action \in Actions : OpenBatch(action)
    BY <2>4, SheetKeeps
  <2>5. CASE RetryLoad \/ Leave
    BY <2>5, RetryLoadKeeps, LeaveKeeps
  <2> QED BY <1>2, <2>1, <2>2, <2>3, <2>4, <2>5 DEF PageUser
<1>3. CASE DebounceFires
  BY <1>3, DebounceFiresKeeps
<1>4. CASE UNCHANGED pageVars
  <2>1. calls' \in Seq(PageCalls) /\ WayOut' /\ Told'
    BY <1>4, QuietKeeps DEF pageVars
  <2>2. PageTypeOK'
    BY <1>4 DEF PageInv, PageTypeOK, pageVars
  <2> QED BY <2>1, <2>2 DEF PageInv
<1> QED BY <1>1, <1>2, <1>3, <1>4 DEF PageNext

(* It holds throughout. *)
LEMMA PageInvAlways == PageSpec => []PageInv
  BY PageInitInv, PageStepInv, PTL DEF PageSpec

(* The settings page keeps its types, and every answer finds in its call the *)
(* data link, the row or the delay it needs, in a queue of any length.       *)
THEOREM PageTypeCorrect == PageSpec => []PageTypeOK
<1>1. PageInv => PageTypeOK
  BY DEF PageInv
<1> QED BY <1>1, PageInvAlways, PTL

(* However writes, batches, retries and re-reads cross in the queue, a data  *)
(* link suspended in the evaluator has a call or a retry that will resume    *)
(* it, unless the page gave it up; and when nothing is under way and nothing *)
(* was missed, the evaluator judges by what the host has stored.             *)
THEOREM PageSoundAlways == PageSpec => []PageSound
<1>1. ASSUME PageInv PROVE PageSound
  <2>1. calls \in Seq(PageCalls) /\ DOMAIN calls = 1..Len(calls)
    BY <1>1, LenProperties DEF PageInv
  <2>2. FrozenHasWayOut
    <3> SUFFICES ASSUME NEW d \in frozen \ givenUp
                 PROVE  \/ \E i \in DOMAIN calls : Serves(calls[i], d)
                        \/ d \in failed /\ resolve[d] # NotSet
      BY DEF FrozenHasWayOut
    <3>1. CASE HasSave(calls, d) \/ HasRead(calls, d)
      BY <2>1, <3>1 DEF HasSave, HasRead, Serves
    <3>2. CASE d \in failed /\ resolve[d] # NotSet
      BY <3>2
    <3> QED BY <1>1, <3>1, <3>2 DEF PageInv, WayOut
  <2>3. calls = <<>> => ~Rereads(calls)
    BY DEF Rereads
  <2>4. EvaluatorReads
    BY <1>1, <2>3 DEF EvaluatorReads, PageInv, Told
  <2> QED BY <2>2, <2>4 DEF PageSound
<1> QED BY <1>1, PageInvAlways, PTL

HIDE PageAssumption DEF PageAssumption

------------------------------------------------------------------------------
(* The three together: one of them moves, the others are as they started.   *)

AllInv ==
  /\ StoreInv /\ KeepInv /\ ToastInv /\ PageInv
  /\ moves # "store" => ~mounted
  /\ moves # "toasts" => toasts = <<>> /\ queue = <<>>

(* A store that has not been mounted follows any levels, and toasts that do  *)
(* not exist agree with any.                                                 *)
LEMMA IdleStoreSound ==
  ASSUME StoreInv, ~mounted, UNCHANGED storeVars, active' \in Map
  PROVE  StoreInv'
<1>1. Untouched
  BY DEF StoreInv
<1>2. StoreState' = StoreState /\ StoreState.shown = shown /\ StoreState.open = open
  BY DEF storeVars, StoreState
<1>3. \A d \in Datalinks : shown[d] = None /\ open[d] = None
  BY <1>1 DEF Untouched
<1>4. Follows(StoreState, active')
  BY <1>2, <1>3 DEF Follows
<1> QED BY <1>2, <1>4 DEF StoreInv, storeVars, StoreTypeOK, Untouched

(* Toasts that do not exist agree with any levels. *)
LEMMA IdleToastsSound ==
  ASSUME ToastInv, toasts = <<>>, queue = <<>>, UNCHANGED toastVars, active' \in Map
  PROVE  ToastInv'
<1>1. /\ shadow' \in Map /\ firstRunDone' \in BOOLEAN /\ background' \in BOOLEAN
      /\ toasts' = <<>> /\ queue' = <<>>
  BY DEF ToastInv, toastVars
<1> DEFINE s == [toasts |-> <<>>, queue |-> <<>>]
<1>2. ToastsBecome(s)
  BY <1>1 DEF ToastsBecome
<1>3. Fits(s, active', doubled')
  <2> DEFINE a == active'
             d == doubled'
  <2> HIDE DEF a, d
  <2>1. Fits(s, a, d)
    BY NoToastsFit
  <2> QED BY <2>1 DEF a, d
<1> HIDE DEF s
<1> QED BY <1>1, <1>2, <1>3, ToastsBecomeSound

(* Nothing of a listener changes. *)
LEMMA StoreStays ==
  ASSUME StoreInv, KeepInv, UNCHANGED <<sourceVars, storeVars>>
  PROVE  StoreInv' /\ KeepInv'
<1>1. active' = active /\ StoreState' = StoreState /\ StoreTypeOK' /\ (Untouched' <=> Untouched)
  BY DEF sourceVars, storeVars, StoreState, StoreInv, StoreTypeOK, Untouched
<1>2. StoreInv'
  BY <1>1 DEF StoreInv, storeVars
<1>3. KeepInv'
  BY DEF KeepInv, storeVars
<1> QED BY <1>2, <1>3

(* Nothing of the toasts and the evaluator changes. *)
LEMMA ToastsStay ==
  ASSUME ToastInv, UNCHANGED <<sourceVars, toastVars>>
  PROVE  ToastInv'
<1>1. active' = active /\ ToastState' = ToastState
  BY DEF sourceVars, toastVars, ToastState
<1> QED BY <1>1 DEF ToastInv, toastVars

(* A step of each keeps the whole. *)
LEMMA AllStart == MCInit => AllInv
<1> SUFFICES ASSUME MCInit PROVE AllInv
  OBVIOUS
<1>1. Init /\ StoreInit /\ ToastInit /\ PageInit
  BY DEF MCInit
<1>2. ~mounted /\ toasts = <<>> /\ queue = <<>>
  BY <1>1 DEF StoreInit, ToastInit
<1> QED BY <1>1, <1>2, StoreStarts, KeepStarts, ToastsStart, PageInitInv DEF AllInv

(* Whichever of the three moves. *)
LEMMA AllStep == AllInv /\ [MCNext]_MCVars => AllInv'
<1> SUFFICES ASSUME AllInv, [MCNext]_MCVars PROVE AllInv'
  OBVIOUS
<1>1. UNCHANGED pageVars => PageInv'
  BY PageStepInv DEF AllInv
<1>2. CASE /\ UNCHANGED moves /\ moves = "store" /\ StoreNext /\ UNCHANGED <<toastVars, pageVars>>
  <2>1. StoreInv' /\ KeepInv'
    BY <1>2, StoreStepSound, KeepStepSound DEF AllInv
  <2>2. active' \in Map
    BY <2>1 DEF StoreInv
  <2>3. toasts = <<>> /\ queue = <<>> /\ toasts' = toasts /\ queue' = queue
    BY <1>2 DEF AllInv, toastVars
  <2>4. ToastInv'
    BY <1>2, <2>2, <2>3, IdleToastsSound DEF AllInv
  <2> QED BY <1>1, <1>2, <2>1, <2>3, <2>4 DEF AllInv
<1>3. CASE /\ UNCHANGED moves /\ moves = "toasts" /\ ToastsNext /\ UNCHANGED <<storeVars, pageVars>>
  <2>1. ToastInv'
    BY <1>3, ToastStepSound DEF AllInv
  <2>2. active' \in Map
    BY <2>1 DEF ToastInv
  <2>3. ~mounted /\ mounted' = mounted
    BY <1>3 DEF AllInv, storeVars
  <2>4. StoreInv'
    BY <1>3, <2>2, <2>3, IdleStoreSound DEF AllInv
  <2>5. KeepInv'
    BY <1>3 DEF AllInv, KeepInv, storeVars
  <2> QED BY <1>1, <1>3, <2>1, <2>3, <2>4, <2>5 DEF AllInv
<1>4. CASE /\ UNCHANGED moves /\ UNCHANGED <<sourceVars, storeVars, toastVars>>
           /\ [PageNext]_pageVars
  <2>1. PageInv'
    BY <1>4, PageStepInv DEF AllInv
  <2>2. StoreInv' /\ KeepInv' /\ ToastInv'
    BY <1>4, StoreStays, ToastsStay DEF AllInv
  <2> QED BY <1>4, <2>1, <2>2 DEF AllInv, storeVars, toastVars
<1>5. CASE UNCHANGED MCVars
  BY <1>4, <1>5 DEF MCVars
<1>6. CASE MCNext
  <2>1. CASE moves = "page" /\ UNCHANGED <<sourceVars, storeVars, toastVars>>
             /\ (HostAnswers \/ DebounceFires \/ PageUser)
    BY <1>4, <1>6, <2>1 DEF MCNext, PageNext
  <2> QED BY <1>2, <1>3, <1>6, <2>1 DEF MCNext
<1> QED BY <1>5, <1>6

(* It holds throughout. *)
LEMMA AllAlways == MCSpec => []AllInv
  BY AllStart, AllStep, PTL DEF MCSpec

(* The panel with its history, the toasts and the settings page keep their   *)
(* types, for any data links, levels, cap of the history and file found.     *)
THEOREM TypesAlways == MCSpec => []TypeOK
<1>1. AllInv => TypeOK
  BY StoreInvTells, ToastInvTells DEF AllInv, TypeOK, PageInv
<1> QED BY <1>1, AllAlways, PTL

(* Each listener follows the evaluator.  However activations, drops,         *)
(* recomputes, toggles, clears, loads and resets follow one another, the     *)
(* panel shows the active level or none, an open entry waits for the end of  *)
(* the level it was opened for, and no id names two entries.  However        *)
(* arrivals, evictions, replays, deadlines, silent activations and the way   *)
(* back from the background follow one another, at most MaxStack toasts are  *)
(* shown, each with the level its data link has unless a replay has doubled  *)
(* the link, and a queued toast is in the queue once.                        *)
THEOREM ListenersAgreeAlways == MCSpec => []ListenersAgree
<1>1. AllInv => ListenersAgree
  BY StoreInvTells, ToastInvTells DEF AllInv, ListenersAgree
<1> QED BY <1>1, AllAlways, PTL

(* The same of the store alone, which may see any data link. *)
THEOREM StoreAgreesAlways == StoreSpec => []StoreAgrees
<1>1. StoreInv /\ [StoreNext]_<<sourceVars, storeVars>> => StoreInv'
  <2>1. StoreInv /\ UNCHANGED <<sourceVars, storeVars>> => StoreInv'
    BY DEF StoreInv, sourceVars, storeVars, StoreState, StoreTypeOK, Untouched
  <2> QED BY <2>1, StoreStepSound
<1>2. StoreInv => StoreAgrees
  BY StoreInvTells
<1> QED BY <1>1, <1>2, StoreStarts, PTL DEF StoreSpec

(* A file is never overwritten by one that lost an entry the cap had room    *)
(* for, or that has a closed entry open again, in whatever order timers,     *)
(* answers and failures of saves and further events come, until the history  *)
(* is reset.                                                                 *)
THEOREM SavesKeepTheFileAlways == MCSpec => SavesKeepTheFile
<1>1. AllInv /\ [MCNext]_MCVars => [SaveKeeps]_storeVars
  <2> SUFFICES ASSUME AllInv, MCNext, ~UNCHANGED storeVars PROVE SaveKeeps
    BY DEF MCVars
  <2>1. StoreNext
    BY DEF MCNext
  <2> QED BY <2>1, SaveKeepsSound DEF AllInv
<1>2. MCSpec => [][SaveKeeps]_storeVars
  BY <1>1, AllAlways, PTL DEF MCSpec
<1> QED BY <1>2 DEF SavesKeepTheFile, SaveKeeps
================================================================================
