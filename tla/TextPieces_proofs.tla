---------------------------- MODULE TextPieces_proofs ---------------------------
(***************************************************************************)
(* Proofs about what the studio cuts before it runs: the chunks of a text  *)
(* of any length, for any budget, and the windows of a recording of any    *)
(* length, for any limits.  The loops and the folds of the model are       *)
(* recursive functions; what they are is proved by taking the least number *)
(* for which it would fail.                                                *)
(***************************************************************************)
EXTENDS TextPieces, SequenceTheorems, WellFoundedInduction, TLAPS

-----------------------------------------------------------------------------
(* Numbers, and sequences one after another.                                *)

(* A set of numbers that is not empty has a least one.                     *)
LEMMA LeastNumber ==
  ASSUME NEW S \in SUBSET Nat, S # {}
  PROVE  \E n \in S : \A m \in S : n <= m
<1> DEFINE R == {p \in Nat \X Nat : p[1] < p[2]}
<1>1. IsWellFoundedOn(R, Nat)
  BY NatLessThanWellFounded DEF OpToRel
<1> HIDE DEF R
<1>2. PICK n \in S : \A m \in S : <<m, n>> \notin R
  BY <1>1, WFMin
<1>3. \A m \in S : ~(m < n)
  BY <1>2 DEF R
<1> QED
  BY <1>3

(* What holds of the first and goes on to the next holds of all.           *)
LEMMA CountUp ==
  ASSUME NEW m \in Nat, NEW n \in Nat, NEW S, m \in S, \A i \in m..(n - 1) : i \in S => i + 1 \in S
  PROVE  \A i \in m..n : i \in S
<1> DEFINE Missing == {i \in m..n : i \notin S}
<1> SUFFICES ASSUME Missing # {} PROVE FALSE
  OBVIOUS
<1>1. PICK i \in Missing : \A j \in Missing : i <= j
  <2>1. Missing \in SUBSET Nat
    OBVIOUS
  <2> QED
    BY <2>1, LeastNumber
<1>2. i # m /\ i - 1 \in m..(n - 1)
  OBVIOUS
<1>3. i - 1 \in S
  BY <1>1, <1>2
<1> QED
  BY <1>2, <1>3

(* What holds of a number if it does of all the greater ones holds of all. *)
LEMMA CountDown ==
  ASSUME NEW n \in Nat, NEW S, \A i \in 1..n : (\A j \in (i + 1)..n : j \in S) => i \in S
  PROVE  \A i \in 1..n : i \in S
<1> DEFINE Missing == {k \in 0..n : n - k \in 1..n /\ n - k \notin S}
<1> SUFFICES ASSUME NEW i \in 1..n, i \notin S PROVE FALSE
  OBVIOUS
<1>1. n - i \in Missing
  OBVIOUS
<1>2. PICK k \in Missing : \A j \in Missing : k <= j
  <2>1. Missing \in SUBSET Nat /\ Missing # {}
    BY <1>1
  <2> HIDE DEF Missing
  <2> QED
    BY <2>1, LeastNumber
<1>3. ASSUME NEW j \in (n - k + 1)..n, j \notin S PROVE FALSE
  <2>1. n - j \in Missing /\ n - j < k
    BY <1>3
  <2> QED
    BY <1>2, <2>1
<1> QED
  BY <1>2, <1>3

-----------------------------------------------------------------------------
(* Three sequences one after another, grouped either way.                  *)
LEMMA Regroup ==
  ASSUME NEW S, NEW a \in Seq(S), NEW b \in Seq(S), NEW c \in Seq(S)
  PROVE  (a \o b) \o c = a \o (b \o c)
BY ConcatAssociative

(* FlattenSeq, as the sums of what it flattens.                            *)
LEMMA FlatIs ==
  ASSUME NEW S, NEW ss \in Seq(Seq(S))
  PROVE  \E sums \in [0..Len(ss) -> Seq(S)] :
           /\ sums[0] = << >>
           /\ \A i \in 1..Len(ss) : sums[i] = sums[i - 1] \o ss[i]
           /\ FlattenSeq(ss) = sums[Len(ss)]
<1> DEFINE n == Len(ss)
           Add(sum, i) == sum \o ss[i]
           Solves(g, m) == g = [i \in 1..m |-> IF i = 1 THEN ss[i] ELSE Add(g[i - 1], i)]
           Unsolved == {m \in Nat : ~ \E g : Solves(g, m)}
<1>0. n \in Nat /\ \A i \in 1..n : ss[i] \in Seq(S)
  OBVIOUS
<1> HIDE DEF Add
<1>1. Unsolved = {}
  <2> SUFFICES ASSUME Unsolved # {} PROVE FALSE
    OBVIOUS
  <2>1. PICK m \in Unsolved : \A k \in Unsolved : m <= k
    <3>1. Unsolved \in SUBSET Nat
      OBVIOUS
    <3> HIDE DEF Unsolved
    <3> QED
      BY <3>1, LeastNumber
  <2>2. CASE m = 0
    <3>1. Solves([i \in 1..0 |-> << >>], 0)
      OBVIOUS
    <3> QED
      BY <2>1, <2>2, <3>1
  <2>3. CASE m # 0
    <3>0. m - 1 \in Nat /\ m - 1 \notin Unsolved
      <4> HIDE DEF Solves
      <4> QED
        BY <2>1, <2>3
    <3>1. PICK g : Solves(g, m - 1)
      <4> HIDE DEF Solves
      <4> QED
        BY <3>0
    <3> DEFINE h == [i \in 1..m |-> IF i = 1 THEN ss[i] ELSE Add(g[i - 1], i)]
    <3>2. \A i \in 1..(m - 1) : h[i] = g[i]
      BY <3>0, <3>1
    <3>3. \A i \in 1..m : i # 1 => h[i - 1] = g[i - 1]
      <4> HIDE DEF h
      <4> QED
        BY <3>0, <3>2
    <3>4. \A i \in 1..m : h[i] = IF i = 1 THEN ss[i] ELSE Add(h[i - 1], i)
      BY <3>3
    <3>5. Solves(h, m)
      BY <3>4
    <3> QED
      BY <2>1, <3>5
  <2> QED
    BY <2>2, <2>3
<1>2. PICK f : Solves(f, n) /\ (n # 0 => FlattenSeq(ss) = f[n])
  <2>1. \E g : Solves(g, n)
    BY <1>0, <1>1
  <2>2. n # 0 => FlattenSeq(ss) = (CHOOSE g : Solves(g, n))[n]
    BY DEF FlattenSeq, Add
  <2> HIDE DEF Solves
  <2> QED
    BY <2>1, <2>2
<1>3. n = 0 => FlattenSeq(ss) = << >>
  BY DEF FlattenSeq
<1>4. n # 0 => f[1] = ss[1] /\ 1 \in 1..n
  BY <1>0, <1>2
<1>5. \A i \in 1..(n - 1) : f[i + 1] = f[i] \o ss[i + 1]
  <2> SUFFICES ASSUME NEW i \in 1..(n - 1) PROVE f[i + 1] = f[i] \o ss[i + 1]
    OBVIOUS
  <2>1. i + 1 \in 1..n /\ i + 1 # 1 /\ (i + 1) - 1 = i
    BY <1>0
  <2> QED
    BY <1>2, <2>1 DEF Add
<1>6. \A i \in 1..n : f[i] \in Seq(S)
  <2> DEFINE Typed == {i \in 1..n : f[i] \in Seq(S)}
  <2>1. n # 0 => 1 \in Typed
    BY <1>0, <1>4
  <2>2. ASSUME NEW i \in 1..(n - 1), i \in Typed PROVE i + 1 \in Typed
    <3>1. i + 1 \in 1..n
      BY <1>0
    <3>2. ss[i + 1] \in Seq(S) /\ f[i] \in Seq(S)
      BY <1>0, <2>2, <3>1
    <3>3. f[i] \o ss[i + 1] \in Seq(S)
      BY <3>2, ConcatProperties
    <3> QED
      BY <1>5, <3>1, <3>3
  <2> HIDE DEF Typed
  <2>3. n # 0 => \A i \in 1..n : i \in Typed
    BY <1>0, <2>1, <2>2, CountUp
  <2> QED
    BY <1>0, <2>3 DEF Typed
<1> DEFINE sums == [i \in 0..n |-> IF i = 0 THEN << >> ELSE f[i]]
<1> HIDE DEF Solves, Unsolved
<1>7. sums \in [0..n -> Seq(S)]
  BY <1>6
<1>8. \A i \in 1..n : sums[i] = sums[i - 1] \o ss[i]
  <2> SUFFICES ASSUME NEW i \in 1..n PROVE sums[i] = sums[i - 1] \o ss[i]
    OBVIOUS
  <2>1. CASE i = 1
    BY <1>0, <1>4, <2>1
  <2>2. CASE i # 1
    <3>1. i - 1 \in 1..(n - 1) /\ (i - 1) + 1 = i
      BY <1>0, <2>2
    <3>2. f[i] = f[i - 1] \o ss[i]
      BY <1>5, <3>1
    <3>3. sums[i] = f[i] /\ sums[i - 1] = f[i - 1]
      BY <1>0, <3>1
    <3> QED
      BY <3>2, <3>3
  <2> QED
    BY <2>1, <2>2
<1>9. FlattenSeq(ss) = sums[n] /\ sums[0] = << >>
  BY <1>0, <1>2, <1>3
<1> QED
  BY <1>7, <1>8, <1>9

(* Flattening one after another.                                           *)
LEMMA FlatConcat ==
  ASSUME NEW S, NEW a \in Seq(Seq(S)), NEW b \in Seq(Seq(S))
  PROVE  /\ FlattenSeq(a) \in Seq(S)
         /\ a \o b \in Seq(Seq(S))
         /\ FlattenSeq(a \o b) = FlattenSeq(a) \o FlattenSeq(b)
<1> DEFINE ab == a \o b
<1>1. /\ ab \in Seq(Seq(S)) /\ Len(ab) = Len(a) + Len(b) /\ Len(a) \in Nat /\ Len(b) \in Nat
      /\ \A i \in 1..Len(a) : ab[i] = a[i] /\ a[i] \in Seq(S)
      /\ \A i \in 1..Len(b) : ab[Len(a) + i] = b[i] /\ b[i] \in Seq(S)
  OBVIOUS
<1>0. Len(a) \in Nat /\ Len(b) \in Nat /\ Len(a) \in 0..Len(a)
  OBVIOUS
<1> HIDE DEF ab
<1>2. PICK fa \in [0..Len(a) -> Seq(S)] :
           /\ fa[0] = << >> /\ FlattenSeq(a) = fa[Len(a)]
           /\ \A i \in 1..Len(a) : fa[i] = fa[i - 1] \o a[i]
  BY FlatIs
<1>3. PICK fb \in [0..Len(b) -> Seq(S)] :
           /\ fb[0] = << >> /\ FlattenSeq(b) = fb[Len(b)]
           /\ \A i \in 1..Len(b) : fb[i] = fb[i - 1] \o b[i]
  BY FlatIs
<1>4. PICK fab \in [0..Len(ab) -> Seq(S)] :
           /\ fab[0] = << >> /\ FlattenSeq(ab) = fab[Len(ab)]
           /\ \A i \in 1..Len(ab) : fab[i] = fab[i - 1] \o ab[i]
  BY <1>1, FlatIs, ZenonT(30)
<1>5. \A i \in 0..Len(a) : fab[i] = fa[i]
  <2> DEFINE Same == {i \in 0..Len(a) : fab[i] = fa[i]}
  <2>1. 0 \in Same
    BY <1>1, <1>2, <1>4
  <2>2. ASSUME NEW i \in 0..(Len(a) - 1), i \in Same PROVE i + 1 \in Same
    <3>1. i + 1 \in 1..Len(a) /\ i + 1 \in 1..Len(ab) /\ (i + 1) - 1 = i /\ i + 1 \in 0..Len(a)
      BY <1>1
    <3>2. fab[i + 1] = fab[i] \o ab[i + 1] /\ fa[i + 1] = fa[i] \o a[i + 1]
      BY <1>2, <1>4, <3>1
    <3> QED
      BY <1>1, <2>2, <3>1, <3>2
  <2> HIDE DEF Same
  <2>3. \A i \in 0..Len(a) : i \in Same
    BY <1>1, <2>1, <2>2, CountUp
  <2> QED
    BY <2>3 DEF Same
<1>9. \A x, y, z \in Seq(S) : (x \o y) \o z = x \o (y \o z)
  BY Regroup
<1>6. \A i \in 0..Len(b) : fab[Len(a) + i] = fa[Len(a)] \o fb[i]
  <2> DEFINE Follows(i) == fab[Len(a) + i] = fa[Len(a)] \o fb[i]
             Same == {i \in 0..Len(b) : Follows(i)}
  <2>0. fa[Len(a)] \in Seq(S)
    BY <1>0
  <2>1. 0 \in Same
    <3>1. Len(a) + 0 = Len(a) /\ fab[Len(a)] = fa[Len(a)] /\ 0 \in 0..Len(b)
      BY <1>0, <1>5
    <3>2. fa[Len(a)] \o << >> = fa[Len(a)]
      BY <2>0, ConcatEmptySeq
    <3>3. fb[0] = << >>
      BY <1>3
    <3>4. fab[Len(a) + 0] = fa[Len(a)] \o fb[0]
      BY <3>1, <3>2, <3>3
    <3>5. 0 \in 0..Len(b) /\ Follows(0)
      BY <3>1, <3>4
    <3> HIDE DEF Follows
    <3> QED
      BY <3>5
  <2>2. ASSUME NEW i \in 0..(Len(b) - 1), i \in Same PROVE i + 1 \in Same
    <3>1. /\ i + 1 \in 1..Len(b) /\ Len(a) + (i + 1) \in 1..Len(ab) /\ (i + 1) - 1 = i
          /\ Len(a) + (i + 1) - 1 = Len(a) + i /\ i + 1 \in 0..Len(b) /\ i \in 0..Len(b)
      BY <1>1, SMTT(30)
    <3>2. fab[Len(a) + (i + 1)] = fab[Len(a) + i] \o ab[Len(a) + (i + 1)]
      <4> DEFINE k == Len(a) + (i + 1)
      <4>1. k \in 1..Len(ab) /\ k - 1 = Len(a) + i
        BY <3>1
      <4> HIDE DEF k
      <4>2. fab[k] = fab[k - 1] \o ab[k]
        BY <1>4, <4>1
      <4> QED
        BY <4>1, <4>2 DEF k
    <3>3. /\ fb[i + 1] = fb[i] \o b[i + 1] /\ ab[Len(a) + (i + 1)] = b[i + 1]
          /\ fb[i] \in Seq(S) /\ b[i + 1] \in Seq(S)
      BY <1>1, <1>3, <3>1
    <3>4. (fa[Len(a)] \o fb[i]) \o b[i + 1] = fa[Len(a)] \o (fb[i] \o b[i + 1])
      BY <1>9, <2>0, <3>3
    <3> QED
      BY <2>2, <3>1, <3>2, <3>3, <3>4
  <2> HIDE DEF Same
  <2>3. \A i \in 0..Len(b) : i \in Same
    BY <1>1, <2>1, <2>2, CountUp
  <2> QED
    BY <2>3 DEF Same
<1>7. fa[Len(a)] \in Seq(S)
  BY <1>0
<1>8. fab[Len(ab)] = fa[Len(a)] \o fb[Len(b)]
  BY <1>1, <1>6
<1> QED
  BY <1>1, <1>2, <1>3, <1>4, <1>7, <1>8 DEF ab

(* Flattening nothing, and one.                                            *)
LEMMA FlatFew ==
  ASSUME NEW S, NEW s \in Seq(S)
  PROVE  FlattenSeq(<< >>) = << >> /\ FlattenSeq(<<s>>) = s
<1>1. FlattenSeq(<< >>) = << >>
  BY DEF FlattenSeq
<1>2. <<s>> \in Seq(Seq(S)) /\ Len(<<s>>) = 1 /\ <<s>>[1] = s
  OBVIOUS
<1> DEFINE one == <<s>>
<1> HIDE DEF one
<1>3. PICK f \in [0..Len(one) -> Seq(S)] :
           /\ f[0] = << >> /\ FlattenSeq(one) = f[Len(one)]
           /\ \A i \in 1..Len(one) : f[i] = f[i - 1] \o one[i]
  BY <1>2, FlatIs DEF one
<1>4. f[1] = f[1 - 1] \o one[1]
  <2>1. 1 \in 1..Len(one)
    BY <1>2 DEF one
  <2> QED
    BY <1>3, <2>1
<1>5. << >> \o s = s
  BY ConcatEmptySeq
<1>6. 1 - 1 = 0 /\ one[1] = s /\ Len(one) = 1
  BY <1>2 DEF one
<1> QED
  BY <1>1, <1>3, <1>4, <1>5, <1>6 DEF one

-----------------------------------------------------------------------------
(* Loops that cut, and the first place of a kind.                           *)

(* A loop over n places goes on from each to a later one, or ends.         *)
GoesOn(next, n) == next \in [1..n -> Nat] /\ \A i \in 1..n : next[i] > i

(* What is cut from each place on is its pieces, and those from the next.  *)
CutsOn(from, next, pieces, n) ==
  \A i \in 1..n : from[i] = IF next[i] \in 1..n THEN pieces[i] \o from[next[i]] ELSE pieces[i]

(* What a loop cuts is what its equation says.                             *)
LEMMA CutFromIs ==
  ASSUME NEW n \in Nat, NEW next, NEW pieces, GoesOn(next, n)
  PROVE  CutsOn(CutFrom(next, pieces), next, pieces, n)
<1> USE DEF GoesOn
<1> DEFINE Cuts(g, i) == IF next[i] \in 1..n THEN pieces[i] \o g[next[i]] ELSE pieces[i]
           Solves(g, m) == g = [i \in (n - m + 1)..n |-> Cuts(g, i)]
           Unsolved == {m \in 0..n : ~ \E g : Solves(g, m)}
<1>1. Unsolved = {}
  <2> SUFFICES ASSUME Unsolved # {} PROVE FALSE
    OBVIOUS
  <2>1. PICK m \in Unsolved : \A k \in Unsolved : m <= k
    <3>1. Unsolved \in SUBSET Nat
      <4> HIDE DEF Solves
      <4> QED
        OBVIOUS
    <3> HIDE DEF Unsolved
    <3> QED
      BY <3>1, LeastNumber
  <2>2. CASE m = 0
    <3>1. Solves([i \in (n + 1)..n |-> << >>], 0)
      <4>1. (n + 1)..n = {} /\ n - 0 + 1 = n + 1
        OBVIOUS
      <4> HIDE DEF Cuts
      <4> QED
        BY <4>1
    <3> QED
      BY <2>1, <2>2, <3>1
  <2>3. CASE m # 0
    <3>0. m - 1 \in 0..n /\ m - 1 \notin Unsolved /\ m \in 1..n
      <4> HIDE DEF Solves
      <4> QED
        BY <2>1, <2>3
    <3>1. PICK g : Solves(g, m - 1)
      <4> HIDE DEF Solves
      <4> QED
        BY <3>0
    <3> DEFINE h == [i \in (n - m + 1)..n |-> Cuts(g, i)]
    <3>2. \A i \in (n - m + 2)..n : h[i] = g[i]
      <4>1. g = [i \in (n - m + 2)..n |-> Cuts(g, i)]
        <5>1. n - (m - 1) + 1 = n - m + 2
          BY <3>0
        <5> QED
          BY <3>1, <5>1
      <4> HIDE DEF Cuts
      <4>2. ASSUME NEW i \in (n - m + 2)..n PROVE h[i] = g[i]
        <5>1. i \in (n - m + 1)..n
          BY <3>0
        <5>2. h[i] = Cuts(g, i)
          BY <5>1
        <5>3. g[i] = Cuts(g, i)
          <6> HIDE DEF h
          <6> QED
            BY <4>1
        <5> QED
          BY <5>2, <5>3
      <4> QED
        BY <4>2
    <3>3. \A i \in (n - m + 1)..n : Cuts(h, i) = Cuts(g, i)
      <4> HIDE DEF h
      <4>1. ASSUME NEW i \in (n - m + 1)..n, next[i] \in 1..n PROVE h[next[i]] = g[next[i]]
        <5>1. i \in 1..n /\ next[i] \in (n - m + 2)..n
          BY <3>0, <4>1
        <5> QED
          BY <3>2, <5>1
      <4> QED
        BY <4>1
    <3>4. Solves(h, m)
      <4> HIDE DEF Cuts
      <4> QED
        BY <3>3
    <3> HIDE DEF h, Solves
    <3> QED
      BY <2>1, <3>4
  <2> QED
    BY <2>2, <2>3
<1>2. \E g : g = [i \in 1..n |-> Cuts(g, i)]
  <2>1. n \in 0..n /\ n - n + 1 = 1
    OBVIOUS
  <2>2. \E g : Solves(g, n)
    <3> HIDE DEF Solves
    <3> QED
      BY <1>1, <2>1
  <2> HIDE DEF Cuts
  <2> QED
    BY <2>1, <2>2
<1>3. CutFrom(next, pieces) = CHOOSE g : g = [i \in 1..n |-> Cuts(g, i)]
  <2>1. DOMAIN next = 1..n
    OBVIOUS
  <2> QED
    BY <2>1 DEF CutFrom
<1>4. CutFrom(next, pieces) = [i \in 1..n |-> Cuts(CutFrom(next, pieces), i)]
  <2> HIDE DEF Cuts
  <2> QED
    BY <1>2, <1>3
<1> DEFINE from == CutFrom(next, pieces)
<1> HIDE DEF from
<1>5. ASSUME NEW i \in 1..n PROVE from[i] = Cuts(from, i)
  <2>1. from = [j \in 1..n |-> Cuts(from, j)]
    BY <1>4 DEF from
  <2> HIDE DEF Cuts
  <2> QED
    BY <2>1
<1> QED
  BY <1>5 DEF from, CutsOn

(* So each of its values is its pieces and those from the next place on.   *)
LEMMA CutFromAt ==
  ASSUME NEW D, NEW n \in Nat, NEW next, NEW pieces, GoesOn(next, n),
         \A i \in 1..n : pieces[i] \in Seq(D)
  PROVE  /\ CutsOn(CutFrom(next, pieces), next, pieces, n)
         /\ \A i \in 1..n : CutFrom(next, pieces)[i] \in Seq(D)
<1> DEFINE from == CutFrom(next, pieces)
<1>1. CutsOn(from, next, pieces, n)
  BY CutFromIs
<1>0. next \in [1..n -> Nat] /\ \A i \in 1..n : next[i] > i
  BY DEF GoesOn
<1> DEFINE Typed == {i \in 1..n : from[i] \in Seq(D)}
<1> HIDE DEF from
<1>2. \A i \in 1..n : (\A j \in (i + 1)..n : j \in Typed) => i \in Typed
  <2> SUFFICES ASSUME NEW i \in 1..n, \A j \in (i + 1)..n : j \in Typed PROVE from[i] \in Seq(D)
    OBVIOUS
  <2>0. pieces[i] \in Seq(D)
    OBVIOUS
  <2>1. CASE next[i] \in 1..n
    <3>1. next[i] \in Typed
      BY <1>0, <2>1
    <3>2. pieces[i] \o from[next[i]] \in Seq(D)
      BY <2>0, <3>1, ConcatProperties
    <3> QED
      BY <1>1, <2>1, <3>2 DEF CutsOn
  <2>2. CASE next[i] \notin 1..n
    BY <1>1, <2>0, <2>2 DEF CutsOn
  <2> QED
    BY <2>1, <2>2
<1> HIDE DEF Typed
<1>3. \A i \in 1..n : i \in Typed
  BY <1>2, CountDown
<1> QED
  BY <1>1, <1>3 DEF Typed, from

(* The place found is the first, or the end.                               *)
LEMMA LeastFacts ==
  ASSUME NEW S \in SUBSET Nat, S # {} PROVE Least(S) \in S /\ \A j \in S : Least(S) <= j
BY LeastNumber DEF Least

(* Before the first place of a character there is none of it (FirstAt).    *)
LEMMA FirstAtFacts ==
  ASSUME NEW D, NEW s \in Seq(D), NEW c, NEW i \in 1..(Len(s) + 1)
  PROVE  /\ FirstAt(s, c, i) \in i..(Len(s) + 1)
         /\ \A j \in i..(FirstAt(s, c, i) - 1) : j \in 1..Len(s) /\ s[j] # c
         /\ FirstAt(s, c, i) # Len(s) + 1 => s[FirstAt(s, c, i)] = c
<1> DEFINE S == {j \in i..Len(s) : s[j] = c} \cup {Len(s) + 1}
<1>1. Len(s) \in Nat
  OBVIOUS
<1>2. Least(S) \in S /\ \A j \in S : Least(S) <= j
  <2>1. S \in SUBSET Nat /\ S # {}
    BY <1>1
  <2> HIDE DEF S
  <2> QED
    BY <2>1, LeastFacts
<1>3. FirstAt(s, c, i) = Least(S)
  BY DEF FirstAt
<1> DEFINE f == Least(S)
<1>4. f \in i..(Len(s) + 1) /\ (f # Len(s) + 1 => s[f] = c)
  <2> HIDE DEF f
  <2> QED
    BY <1>1, <1>2 DEF f
<1>5. ASSUME NEW j \in i..(f - 1) PROVE j \in 1..Len(s) /\ s[j] # c
  <2>1. j \in i..Len(s) /\ j < f
    BY <1>1, <1>4
  <2>2. j \notin S
    BY <1>1, <1>2, <2>1
  <2> QED
    BY <2>1, <2>2
<1> QED
  BY <1>3, <1>4, <1>5

(* Before the first place past a character there is nothing else           *)
(* (FirstPast).                                                            *)
LEMMA FirstPastFacts ==
  ASSUME NEW D, NEW s \in Seq(D), NEW c, NEW i \in 1..(Len(s) + 1)
  PROVE  /\ FirstPast(s, c, i) \in i..(Len(s) + 1)
         /\ \A j \in i..(FirstPast(s, c, i) - 1) : j \in 1..Len(s) /\ s[j] = c
         /\ FirstPast(s, c, i) # Len(s) + 1 => s[FirstPast(s, c, i)] # c
<1> DEFINE S == {j \in i..Len(s) : s[j] # c} \cup {Len(s) + 1}
<1>1. Len(s) \in Nat
  OBVIOUS
<1>2. Least(S) \in S /\ \A j \in S : Least(S) <= j
  <2>1. S \in SUBSET Nat /\ S # {}
    BY <1>1
  <2> HIDE DEF S
  <2> QED
    BY <2>1, LeastFacts
<1>3. FirstPast(s, c, i) = Least(S)
  BY DEF FirstPast
<1> DEFINE f == Least(S)
<1>4. f \in i..(Len(s) + 1) /\ (f # Len(s) + 1 => s[f] # c)
  <2> HIDE DEF f
  <2> QED
    BY <1>1, <1>2 DEF f
<1>5. ASSUME NEW j \in i..(f - 1) PROVE j \in 1..Len(s) /\ s[j] = c
  <2>1. j \in i..Len(s) /\ j < f
    BY <1>1, <1>4
  <2>2. j \notin S
    BY <1>1, <1>2, <2>1
  <2> QED
    BY <2>1, <2>2
<1> QED
  BY <1>3, <1>4, <1>5

-----------------------------------------------------------------------------
(* What is made of each, one after another.                                 *)

(* A function from one set to another, by name: the lemmas below are found *)
(* by it.                                                                  *)
Maps(g, S, T) == g \in [S -> T]

(* What g makes of each.                                                   *)
Each(g, a) == [k \in 1..Len(a) |-> g[a[k]]]

(* It is as long, and made of two one after another it is made of each.    *)
LEMMA EachFacts ==
  ASSUME NEW S, NEW T, NEW g, Maps(g, S, T)
  PROVE  \A a \in Seq(S) : /\ Each(g, a) \in Seq(T) /\ Len(Each(g, a)) = Len(a)
                          /\ \A k \in 1..Len(a) : Each(g, a)[k] = g[a[k]]
BY DEF Each, Maps

(* What is made of one is one.                                             *)
LEMMA EachOne ==
  ASSUME NEW S, NEW T, NEW g, Maps(g, S, T) PROVE \A x \in S : Each(g, <<x>>) = <<g[x]>>
BY DEF Each, Maps

(* What is made of two one after another is what is made of each.          *)
LEMMA EachConcat ==
  ASSUME NEW S, NEW T, NEW g, Maps(g, S, T)
  PROVE  \A a, b \in Seq(S) : Each(g, a \o b) = Each(g, a) \o Each(g, b)
<1>1. \A a \in Seq(S) : /\ Each(g, a) \in Seq(T) /\ Len(Each(g, a)) = Len(a)
                       /\ \A k \in 1..Len(a) : Each(g, a)[k] = g[a[k]]
  BY EachFacts
<1>2. ASSUME NEW a \in Seq(S), NEW b \in Seq(S) PROVE Each(g, a \o b) = Each(g, a) \o Each(g, b)
  <2> DEFINE ab == a \o b
             ga == Each(g, a)
             gb == Each(g, b)
             gab == Each(g, ab)
  <2>1. /\ ab \in Seq(S) /\ Len(ab) = Len(a) + Len(b) /\ Len(a) \in Nat /\ Len(b) \in Nat
        /\ \A i \in 1..(Len(a) + Len(b)) : ab[i] = IF i <= Len(a) THEN a[i] ELSE b[i - Len(a)]
    BY ConcatProperties
  <2>2. ga \in Seq(T) /\ Len(ga) = Len(a) /\ \A i \in 1..Len(a) : ga[i] = g[a[i]]
    BY <1>1
  <2>3. gb \in Seq(T) /\ Len(gb) = Len(b) /\ \A i \in 1..Len(b) : gb[i] = g[b[i]]
    BY <1>1
  <2> HIDE DEF ab
  <2>4. gab \in Seq(T) /\ Len(gab) = Len(ab) /\ \A i \in 1..Len(ab) : gab[i] = g[ab[i]]
    BY <1>1, <2>1
  <2> HIDE DEF ga, gb, gab
  <2>5. /\ ga \o gb \in Seq(T) /\ Len(ga \o gb) = Len(a) + Len(b)
        /\ \A i \in 1..(Len(a) + Len(b)) :
             (ga \o gb)[i] = IF i <= Len(a) THEN ga[i] ELSE gb[i - Len(a)]
    <3>1. ga \in Seq(T) /\ gb \in Seq(T) /\ Len(ga) = Len(a) /\ Len(gb) = Len(b)
      BY <2>2, <2>3
    <3>2. /\ ga \o gb \in Seq(T) /\ Len(ga \o gb) = Len(ga) + Len(gb)
          /\ \A i \in 1..(Len(ga) + Len(gb)) :
               (ga \o gb)[i] = IF i <= Len(ga) THEN ga[i] ELSE gb[i - Len(ga)]
      BY <3>1, ConcatProperties
    <3> QED
      BY <3>1, <3>2
  <2>6. ASSUME NEW i \in 1..Len(gab) PROVE gab[i] = (ga \o gb)[i]
    <3>1. /\ i \in 1..Len(ab) /\ i \in 1..(Len(a) + Len(b)) /\ i \in Int
          /\ Len(a) \in Nat /\ Len(b) \in Nat
      BY <2>1, <2>4
    <3>2. CASE i <= Len(a)
      <4>1. i \in 1..Len(a) /\ ab[i] = a[i] /\ (ga \o gb)[i] = ga[i]
        BY <2>1, <2>5, <3>1, <3>2
      <4> QED
        BY <2>2, <2>4, <3>1, <4>1
    <3>3. CASE ~(i <= Len(a))
      <4>1. i - Len(a) \in 1..Len(b)
        BY <3>1, <3>3
      <4>2. ab[i] = b[i - Len(a)] /\ (ga \o gb)[i] = gb[i - Len(a)]
        BY <2>1, <2>5, <3>1, <3>3
      <4> QED
        BY <2>3, <2>4, <3>1, <4>1, <4>2
    <3> QED
      BY <3>2, <3>3
  <2>7. gab = ga \o gb
    <3>1. Len(gab) = Len(ga \o gb)
      BY <2>1, <2>4, <2>5
    <3> QED
      BY <2>4, <2>5, <2>6, <3>1, SeqEqual
  <2> QED
    BY <2>7 DEF gab, ga, gb, ab
<1> QED
  BY <1>2

(* What f makes of each, one after another.                                *)
FlatMap(f, a) == FlattenSeq(Each(f, a))

(* It is a sequence, of nothing it is nothing, of one what f makes of it.  *)
LEMMA FlatMapFew ==
  ASSUME NEW S, NEW T, NEW f, Maps(f, S, Seq(T))
  PROVE  /\ \A a \in Seq(S) : FlatMap(f, a) \in Seq(T)
         /\ FlatMap(f, << >>) = << >>
         /\ \A x \in S : FlatMap(f, <<x>>) = f[x]
<1>4. \A a \in Seq(S) : Each(f, a) \in Seq(Seq(T))
  BY EachFacts
<1>5. \A x \in S : Each(f, <<x>>) = <<f[x]>>
  BY EachOne
<1>1. ASSUME NEW a \in Seq(S) PROVE FlatMap(f, a) \in Seq(T)
  <2>1. Each(f, a) \in Seq(Seq(T))
    BY <1>4
  <2>2. FlattenSeq(Each(f, a)) \in Seq(T)
    BY <2>1, FlatConcat
  <2> QED
    BY <2>2 DEF FlatMap
<1>2. FlatMap(f, << >>) = << >>
  <2>1. Each(f, << >>) = << >>
    BY DEF Each
  <2> QED
    BY <2>1 DEF FlatMap, FlattenSeq
<1>3. ASSUME NEW x \in S PROVE FlatMap(f, <<x>>) = f[x]
  <2>1. Each(f, <<x>>) = <<f[x]>> /\ f[x] \in Seq(T)
    BY <1>5 DEF Maps
  <2>2. FlattenSeq(<<f[x]>>) = f[x]
    BY <2>1, FlatFew
  <2> QED
    BY <2>1, <2>2 DEF FlatMap
<1> QED
  BY <1>1, <1>2, <1>3

(* What it makes of two one after another is what it makes of each.        *)
LEMMA FlatMapConcat ==
  ASSUME NEW S, NEW T, NEW f, Maps(f, S, Seq(T))
  PROVE  \A a, b \in Seq(S) : FlatMap(f, a \o b) = FlatMap(f, a) \o FlatMap(f, b)
<1>1. \A a \in Seq(S) : Each(f, a) \in Seq(Seq(T))
  BY EachFacts
<1>2. \A a, b \in Seq(S) : Each(f, a \o b) = Each(f, a) \o Each(f, b)
  BY EachConcat
<1> SUFFICES ASSUME NEW a \in Seq(S), NEW b \in Seq(S)
             PROVE  FlatMap(f, a \o b) = FlatMap(f, a) \o FlatMap(f, b)
  OBVIOUS
<1>3. Each(f, a) \in Seq(Seq(T)) /\ Each(f, b) \in Seq(Seq(T))
  BY <1>1
<1>4. FlattenSeq(Each(f, a) \o Each(f, b)) = FlattenSeq(Each(f, a)) \o FlattenSeq(Each(f, b))
  BY <1>3, FlatConcat
<1> QED
  BY <1>2, <1>4 DEF FlatMap

(* If it makes nothing of any, it makes nothing of all.                    *)
LEMMA FlatMapNone ==
  ASSUME NEW S, NEW T, NEW f, Maps(f, S, Seq(T)), NEW a \in Seq(S),
         \A k \in 1..Len(a) : f[a[k]] = << >>
  PROVE  FlatMap(f, a) = << >>
<1> DEFINE m == [k \in 1..Len(a) |-> f[a[k]]]
<1>1. m \in Seq(Seq(T)) /\ Len(m) = Len(a) /\ Len(a) \in Nat /\ \A k \in 1..Len(a) : m[k] = << >>
  BY DEF Maps
<1> HIDE DEF m
<1>2. PICK sums \in [0..Len(m) -> Seq(T)] :
         /\ sums[0] = << >> /\ FlattenSeq(m) = sums[Len(m)]
         /\ \A i \in 1..Len(m) : sums[i] = sums[i - 1] \o m[i]
  BY <1>1, FlatIs
<1> DEFINE Nothing == {i \in 0..Len(m) : sums[i] = << >>}
<1>3. 0 \in Nothing
  BY <1>1, <1>2
<1>4. ASSUME NEW i \in 0..(Len(m) - 1), i \in Nothing PROVE i + 1 \in Nothing
  <2>1. i + 1 \in 1..Len(m) /\ (i + 1) - 1 = i /\ i + 1 \in 0..Len(m)
    BY <1>1
  <2>2. sums[i + 1] = sums[i] \o m[i + 1]
    BY <1>2, <2>1
  <2>3. m[i + 1] = << >> /\ sums[i] = << >>
    BY <1>1, <1>4, <2>1
  <2> QED
    BY <2>1, <2>2, <2>3
<1> HIDE DEF Nothing
<1>5. \A i \in 0..Len(m) : i \in Nothing
  BY <1>1, <1>3, <1>4, CountUp
<1>6. FlattenSeq(m) = << >>
  BY <1>1, <1>2, <1>5 DEF Nothing
<1> QED
  BY <1>6 DEF FlatMap, Each, m

(* What is made of two one after another is what is made of each.          *)
KeepsOrder(h, S) == h[<< >>] = << >> /\ \A x, y \in Seq(S) : h[x \o y] = h[x] \o h[y]

(* What keeps one after another keeps what is flattened.                   *)
LEMMA FlatHom ==
  ASSUME NEW S, NEW T, NEW h, Maps(h, Seq(S), Seq(T)), KeepsOrder(h, S)
  PROVE  \A aa \in Seq(Seq(S)) : h[FlattenSeq(aa)] = FlattenSeq([k \in 1..Len(aa) |-> h[aa[k]]])
<1> SUFFICES ASSUME NEW aa \in Seq(Seq(S))
             PROVE  h[FlattenSeq(aa)] = FlattenSeq([k \in 1..Len(aa) |-> h[aa[k]]])
  OBVIOUS
<1> DEFINE m == [k \in 1..Len(aa) |-> h[aa[k]]]
<1>1. /\ m \in Seq(Seq(T)) /\ Len(m) = Len(aa) /\ Len(aa) \in Nat
      /\ \A k \in 1..Len(aa) : m[k] = h[aa[k]] /\ aa[k] \in Seq(S)
  <2>1. \A k \in 1..Len(aa) : aa[k] \in Seq(S)
    OBVIOUS
  <2>2. \A k \in 1..Len(aa) : h[aa[k]] \in Seq(T)
    BY <2>1 DEF Maps
  <2> QED
    BY <2>1, <2>2
<1> HIDE DEF m
<1>2. PICK sums \in [0..Len(m) -> Seq(T)] :
         /\ sums[0] = << >> /\ FlattenSeq(m) = sums[Len(m)]
         /\ \A i \in 1..Len(m) : sums[i] = sums[i - 1] \o m[i]
  BY <1>1, FlatIs, ZenonT(30)
<1>3. PICK tot \in [0..Len(aa) -> Seq(S)] :
         /\ tot[0] = << >> /\ FlattenSeq(aa) = tot[Len(aa)]
         /\ \A i \in 1..Len(aa) : tot[i] = tot[i - 1] \o aa[i]
  BY FlatIs
<1> DEFINE Same == {i \in 0..Len(m) : sums[i] = h[tot[i]]}
<1>4. 0 \in Same
  <2>1. 0 \in 0..Len(m) /\ sums[0] = << >> /\ tot[0] = << >>
    BY <1>1, <1>2, <1>3
  <2>2. h[<< >>] = << >>
    BY DEF KeepsOrder
  <2> QED
    BY <2>1, <2>2
<1>5. ASSUME NEW i \in 0..(Len(m) - 1), i \in Same PROVE i + 1 \in Same
  <2>1. /\ i + 1 \in 1..Len(m) /\ (i + 1) - 1 = i /\ i + 1 \in 0..Len(m)
        /\ i + 1 \in 1..Len(aa) /\ i \in 0..Len(aa)
    BY <1>1
  <2>2. sums[i + 1] = sums[i] \o m[i + 1] /\ tot[i + 1] = tot[i] \o aa[i + 1]
    BY <1>2, <1>3, <2>1
  <2>3. m[i + 1] = h[aa[i + 1]] /\ sums[i] = h[tot[i]]
    BY <1>1, <1>5, <2>1
  <2>4. tot[i] \in Seq(S) /\ aa[i + 1] \in Seq(S)
    BY <1>1, <2>1
  <2>5. h[tot[i] \o aa[i + 1]] = h[tot[i]] \o h[aa[i + 1]]
    BY <2>4 DEF KeepsOrder
  <2> QED
    BY <2>1, <2>2, <2>3, <2>5
<1> HIDE DEF Same
<1>6. \A i \in 0..Len(m) : i \in Same
  BY <1>1, <1>4, <1>5, CountUp
<1>7. FlattenSeq(m) = h[FlattenSeq(aa)]
  BY <1>1, <1>2, <1>3, <1>6 DEF Same
<1> QED
  BY <1>7 DEF m

-----------------------------------------------------------------------------
(* What a line says, and what trimming leaves.                              *)

(* Bare, as a map of what each character says.                             *)
Solo(D) == [c \in D |-> IF c = Blank THEN << >> ELSE <<c>>]

(* What lines say one after another is what each says, but for its blanks. *)
LEMMA BareFacts ==
  ASSUME NEW D
  PROVE  /\ \A s \in Seq(D) : Bare(s) \in Seq(D)
         /\ \A a, b \in Seq(D) : Bare(a \o b) = Bare(a) \o Bare(b)
         /\ Bare(<< >>) = << >>
         /\ \A c \in D : Bare(<<c>>) = IF c = Blank THEN << >> ELSE <<c>>
<1> DEFINE f == Solo(D)
<1>1. f \in [D -> Seq(D)] /\ \A c \in D : f[c] = IF c = Blank THEN << >> ELSE <<c>>
  BY DEF Solo
<1>2. \A s \in Seq(D) : Bare(s) = FlatMap(f, s)
  <2> SUFFICES ASSUME NEW s \in Seq(D) PROVE Bare(s) = FlatMap(f, s)
    OBVIOUS
  <2>1. \A i \in 1..Len(s) : f[s[i]] = IF s[i] = Blank THEN << >> ELSE <<s[i]>>
    BY <1>1
  <2> HIDE DEF f
  <2>2. [i \in 1..Len(s) |-> f[s[i]]]
          = [i \in 1..Len(s) |-> IF s[i] = Blank THEN << >> ELSE <<s[i]>>]
    BY <2>1
  <2> QED
    BY <2>2 DEF Bare, FlatMap, Each
<1> HIDE DEF f
<1>8. Maps(f, D, Seq(D))
  BY <1>1 DEF Maps
<1>3. /\ \A a \in Seq(D) : FlatMap(f, a) \in Seq(D)
      /\ FlatMap(f, << >>) = << >>
      /\ \A x \in D : FlatMap(f, <<x>>) = f[x]
  BY <1>8, FlatMapFew
<1>4. \A a, b \in Seq(D) : FlatMap(f, a \o b) = FlatMap(f, a) \o FlatMap(f, b)
  BY <1>8, FlatMapConcat
<1>5. \A a, b \in Seq(D) : a \o b \in Seq(D)
  OBVIOUS
<1>6. << >> \in Seq(D) /\ \A c \in D : <<c>> \in Seq(D)
  OBVIOUS
<1>7. \A a, b \in Seq(D) : Bare(a \o b) = Bare(a) \o Bare(b)
  BY <1>2, <1>4, <1>5
<1> QED
  BY <1>1, <1>2, <1>3, <1>6, <1>7

(* What is only blanks says nothing.                                       *)
LEMMA BareBlank ==
  ASSUME NEW D, NEW s \in Seq(D), \A i \in 1..Len(s) : s[i] = Blank
  PROVE  Bare(s) = << >>
<1> DEFINE f == [c \in {Blank} |-> << >>]
<1>1. Maps(f, {Blank}, Seq({Blank})) /\ f[Blank] = << >>
  BY DEF Maps
<1>2. s \in Seq({Blank})
  <2>1. s \in [1..Len(s) -> {Blank}] /\ Len(s) \in Nat
    BY LenProperties
  <2> QED
    BY <2>1
<1>3. \A i \in 1..Len(s) : f[s[i]] = << >>
  BY <1>1
<1>4. [i \in 1..Len(s) |-> f[s[i]]] = [i \in 1..Len(s) |-> IF s[i] = Blank THEN << >> ELSE <<s[i]>>]
  <2> HIDE DEF f
  <2> QED
    BY <1>3
<1> HIDE DEF f
<1>5. FlatMap(f, s) = << >>
  BY <1>1, <1>2, <1>3, FlatMapNone
<1> QED
  BY <1>4, <1>5 DEF Bare, FlatMap, Each

(* A part of a text is a text.                                             *)
LEMMA Part ==
  ASSUME NEW D, NEW s \in Seq(D), NEW i \in 1..(Len(s) + 1), NEW j \in 0..Len(s)
  PROVE  /\ SubSeq(s, i, j) \in Seq(D)
         /\ Len(SubSeq(s, i, j)) = IF i <= j THEN j - i + 1 ELSE 0
         /\ \A k \in 1..Len(SubSeq(s, i, j)) : SubSeq(s, i, j)[k] = s[i + k - 1]
         /\ i > j => SubSeq(s, i, j) = << >>
<1>1. Len(s) \in Nat /\ \A k \in i..j : s[k] \in D
  BY ElementOfSeq
<1>2. i \in Int /\ j \in Int
  BY <1>1
<1>3. /\ SubSeq(s, i, j) \in Seq(D)
      /\ Len(SubSeq(s, i, j)) = IF i <= j THEN j - i + 1 ELSE 0
      /\ \A k \in 1 .. j-i+1 : SubSeq(s, i, j)[k] = s[i+k-1]
  BY <1>1, <1>2, SubSeqProperties
<1>4. i > j => SubSeq(s, i, j) = << >>
  BY <1>2, SubSeqEmpty
<1> QED
  BY <1>1, <1>2, <1>3, <1>4

(* A set of numbers up to another has a largest one.                       *)
LEMMA LargestFacts ==
  ASSUME NEW n \in Nat, NEW S \in SUBSET (0..n), S # {}
  PROVE  Largest(S) \in S /\ \A j \in S : j <= Largest(S)
<1> DEFINE Gone == {k \in 0..n : n - k \in S}
<1>1. Gone \in SUBSET Nat
  OBVIOUS
<1>2. \A j \in S : n - j \in Gone
  <2> SUFFICES ASSUME NEW j \in S PROVE n - j \in Gone
    OBVIOUS
  <2>1. n - j \in 0..n /\ n - (n - j) = j
    OBVIOUS
  <2> QED
    BY <2>1
<1>3. Gone # {}
  BY <1>2
<1>4. PICK k \in Gone : \A m \in Gone : k <= m
  <2> HIDE DEF Gone
  <2> QED
    BY <1>1, <1>3, LeastNumber
<1>5. ASSUME NEW j \in S PROVE j <= n - k
  <2>1. n - j \in Gone
    BY <1>2
  <2>2. k <= n - j /\ k \in 0..n /\ j \in 0..n
    BY <1>4, <2>1
  <2> HIDE DEF Gone
  <2> QED
    BY <2>2
<1>6. n - k \in S
  BY <1>4
<1> QED
  BY <1>5, <1>6 DEF Largest

(* Trimming takes nothing but blanks.                                      *)
LEMMA TrimFacts ==
  ASSUME NEW D, NEW s \in Seq(D)
  PROVE  /\ Trim(s) \in Seq(D) /\ Len(Trim(s)) <= Len(s) /\ Bare(Trim(s)) = Bare(s)
         /\ TrimEnd(s) \in Seq(D) /\ Len(TrimEnd(s)) <= Len(s) /\ Bare(TrimEnd(s)) = Bare(s)
<1>0. Len(s) \in Nat /\ << >> \in Seq(D) /\ Len(<< >>) = 0
  OBVIOUS
<1>1. CASE Solid(s) = {}
  <2>1. Bare(s) = << >>
    <3>1. \A i \in 1..Len(s) : s[i] = Blank
      BY <1>1 DEF Solid
    <3> QED
      BY <3>1, BareBlank
  <2>2. Bare(<< >>) = << >>
    BY BareFacts
  <2> QED
    BY <1>0, <1>1, <2>1, <2>2 DEF Trim, TrimEnd
<1>2. CASE Solid(s) # {}
  <2> DEFINE l == Least(Solid(s))
             h == Largest(Solid(s))
  <2>1. l \in Solid(s) /\ \A j \in Solid(s) : l <= j
    <3>1. Solid(s) \in SUBSET Nat
      BY <1>0 DEF Solid
    <3> QED
      BY <1>2, <3>1, LeastFacts
  <2>2. h \in Solid(s) /\ \A j \in Solid(s) : j <= h
    <3>1. Solid(s) \in SUBSET (0..Len(s))
      BY <1>0 DEF Solid
    <3> QED
      BY <1>0, <1>2, <3>1, LargestFacts
  <2>3. l \in 1..Len(s) /\ h \in 1..Len(s) /\ l <= h
    BY <2>1, <2>2 DEF Solid
  <2>4. \A i \in 1..Len(s) : i < l \/ i > h => s[i] = Blank
    BY <2>1, <2>2, <2>3 DEF Solid
  <2>5. Trim(s) = SubSeq(s, l, h) /\ TrimEnd(s) = SubSeq(s, 1, h)
    BY <1>2 DEF Trim, TrimEnd, Upto
  <2> HIDE DEF l, h
  <2> DEFINE a == SubSeq(s, 1, l - 1)
             b == SubSeq(s, l, h)
             c == SubSeq(s, h + 1, Len(s))
             ab == SubSeq(s, 1, h)
  <2>6. /\ a \in Seq(D) /\ b \in Seq(D) /\ c \in Seq(D) /\ ab \in Seq(D)
        /\ Len(b) <= Len(s) /\ Len(ab) <= Len(s)
        /\ \A i \in 1..Len(a) : a[i] = Blank
        /\ \A i \in 1..Len(c) : c[i] = Blank
    <3>1. /\ a \in Seq(D) /\ Len(a) = l - 1 /\ \A k \in 1..Len(a) : a[k] = s[k]
      <4>1. /\ SubSeq(s, 1, l - 1) \in Seq(D)
            /\ Len(SubSeq(s, 1, l - 1)) = IF 1 <= l - 1 THEN l - 1 - 1 + 1 ELSE 0
            /\ \A k \in 1..Len(SubSeq(s, 1, l - 1)) : SubSeq(s, 1, l - 1)[k] = s[1 + k - 1]
        <5>1. 1 \in 1..(Len(s) + 1) /\ l - 1 \in 0..Len(s)
          BY <1>0, <2>3
        <5> QED
          BY <5>1, Part
      <4> QED
        BY <1>0, <2>3, <4>1
    <3>2. b \in Seq(D) /\ Len(b) <= Len(s)
      <4>1. l \in 1..(Len(s) + 1) /\ h \in 0..Len(s)
        BY <1>0, <2>3
      <4>2. /\ SubSeq(s, l, h) \in Seq(D)
            /\ Len(SubSeq(s, l, h)) = IF l <= h THEN h - l + 1 ELSE 0
        BY <4>1, Part
      <4> QED
        BY <1>0, <2>3, <4>2
    <3>3. c \in Seq(D) /\ Len(c) = Len(s) - h /\ \A k \in 1..Len(c) : c[k] = s[h + k]
      <4>1. h + 1 \in 1..(Len(s) + 1) /\ Len(s) \in 0..Len(s)
        BY <1>0, <2>3
      <4>2. /\ SubSeq(s, h + 1, Len(s)) \in Seq(D)
            /\ Len(SubSeq(s, h + 1, Len(s))) = IF h + 1 <= Len(s) THEN Len(s) - (h + 1) + 1 ELSE 0
            /\ \A k \in 1..Len(SubSeq(s, h + 1, Len(s))) :
                 SubSeq(s, h + 1, Len(s))[k] = s[(h + 1) + k - 1]
        BY <4>1, Part
      <4> QED
        BY <1>0, <2>3, <4>2
    <3>4. ab \in Seq(D) /\ Len(ab) <= Len(s)
      <4>1. 1 \in 1..(Len(s) + 1) /\ h \in 0..Len(s)
        BY <1>0, <2>3
      <4>2. SubSeq(s, 1, h) \in Seq(D) /\ Len(SubSeq(s, 1, h)) = IF 1 <= h THEN h - 1 + 1 ELSE 0
        BY <4>1, Part
      <4> QED
        BY <1>0, <2>3, <4>2
    <3> HIDE DEF a, b, c, ab
    <3> QED
      BY <1>0, <2>3, <2>4, <3>1, <3>2, <3>3, <3>4
  <2>7. ab = a \o b /\ s = ab \o c
    <3>1. SubSeq(s, 1, l - 1) \o SubSeq(s, (l - 1) + 1, h) = SubSeq(s, 1, h)
      <4>1. 1 \in 1..(Len(s) + 1) /\ l - 1 \in (1 - 1)..Len(s) /\ h \in (l - 1)..Len(s)
        BY <1>0, <2>3
      <4> QED
        BY <4>1, ConcatAdjacentSubSeq
    <3>2. SubSeq(s, 1, h) \o SubSeq(s, h + 1, Len(s)) = SubSeq(s, 1, Len(s))
      <4>1. 1 \in 1..(Len(s) + 1) /\ h \in (1 - 1)..Len(s) /\ Len(s) \in h..Len(s)
        BY <1>0, <2>3
      <4> QED
        BY <4>1, ConcatAdjacentSubSeq
    <3>3. (l - 1) + 1 = l /\ SubSeq(s, 1, Len(s)) = s
      BY <2>3, SubSeqFull
    <3> QED
      BY <3>1, <3>2, <3>3
  <2> HIDE DEF a, b, c, ab
  <2>8. Bare(a) = << >> /\ Bare(c) = << >>
    BY <2>6, BareBlank
  <2>9. \A x, y \in Seq(D) : Bare(x \o y) = Bare(x) \o Bare(y)
    BY BareFacts
  <2>10. \A x \in Seq(D) : Bare(x) \in Seq(D)
    BY BareFacts
  <2>11. Bare(ab) = Bare(b) /\ Bare(s) = Bare(ab)
    <3>1. Bare(ab) = << >> \o Bare(b) /\ Bare(s) = Bare(ab) \o << >>
      <4>1. Bare(a \o b) = Bare(a) \o Bare(b) /\ Bare(ab \o c) = Bare(ab) \o Bare(c)
        BY <2>6, <2>9
      <4> QED
        BY <2>7, <2>8, <4>1
    <3>2. Bare(b) \in Seq(D) /\ Bare(ab) \in Seq(D)
      BY <2>6, <2>10
    <3>3. << >> \o Bare(b) = Bare(b) /\ Bare(ab) \o << >> = Bare(ab)
      BY <3>2, ConcatEmptySeq
    <3> QED
      BY <3>1, <3>3
  <2> QED
    BY <2>5, <2>6, <2>11 DEF b, ab
<1> QED
  BY <1>1, <1>2

-----------------------------------------------------------------------------
(* Sentences and words.                                                     *)

(* Sentences are the text, cut (SplitSentences).                           *)
LEMMA SentencesFacts ==
  ASSUME NEW D, NEW s \in Seq(D)
  PROVE  SplitSentences(s) \in Seq(Seq(D)) /\ FlattenSeq(SplitSentences(s)) = s
<1> DEFINE n == Len(s)
           next == [i \in 1..Len(s) |->
                      FirstPast(s, Blank, FirstPast(s, Stop, FirstAt(s, Stop, i)))]
           pieces == [i \in 1..Len(s) |-> <<SubSeq(s, i, next[i] - 1)>>]
           from == CutFrom(next, pieces)
<1>0. n \in Nat
  OBVIOUS
<1>1. \A i \in 1..n : next[i] \in (i + 1)..(n + 1)
  <2> SUFFICES ASSUME NEW i \in 1..n PROVE next[i] \in (i + 1)..(n + 1)
    OBVIOUS
  <2> DEFINE a == FirstAt(s, Stop, i)
             b == FirstPast(s, Stop, a)
             c == FirstPast(s, Blank, b)
  <2>1. a \in i..(n + 1) /\ (a # n + 1 => s[a] = Stop)
    BY FirstAtFacts
  <2>2. b \in a..(n + 1) /\ (b # n + 1 => s[b] # Stop)
    <3>1. a \in 1..(Len(s) + 1)
      BY <1>0, <2>1
    <3> HIDE DEF a
    <3> QED
      BY <3>1, FirstPastFacts
  <2>3. c \in b..(n + 1)
    <3>1. b \in 1..(Len(s) + 1)
      BY <1>0, <2>1, <2>2
    <3> HIDE DEF b
    <3> QED
      BY <3>1, FirstPastFacts
  <2>4. next[i] = c
    OBVIOUS
  <2> HIDE DEF a, b, c
  <2> QED
    BY <1>0, <2>1, <2>2, <2>3, <2>4
<1> HIDE DEF next
<1>2. GoesOn(next, n)
  <2>1. next \in [1..n -> Nat]
    <3>1. \A i \in 1..n : next[i] \in Nat
      BY <1>0, <1>1
    <3> QED
      BY <3>1 DEF next
  <2> QED
    BY <1>0, <1>1, <2>1 DEF GoesOn
<1>3. \A i \in 1..n : pieces[i] = <<SubSeq(s, i, next[i] - 1)>>
        /\ SubSeq(s, i, next[i] - 1) \in Seq(D)
  <2> SUFFICES ASSUME NEW i \in 1..n PROVE SubSeq(s, i, next[i] - 1) \in Seq(D)
    OBVIOUS
  <2>1. i \in 1..(Len(s) + 1) /\ next[i] - 1 \in 0..Len(s)
    BY <1>0, <1>1
  <2> QED
    BY <2>1, Part
<1>4. \A i \in 1..n : pieces[i] \in Seq(Seq(D))
  <2> HIDE DEF pieces
  <2>1. \A x \in Seq(D) : <<x>> \in Seq(Seq(D))
    OBVIOUS
  <2> QED
    BY <1>3, <2>1
<1> HIDE DEF pieces
<1>5. CutsOn(from, next, pieces, n) /\ \A i \in 1..n : from[i] \in Seq(Seq(D))
  BY <1>0, <1>2, <1>4, CutFromAt
<1> HIDE DEF from
<1> DEFINE Whole == {i \in 1..n : FlattenSeq(from[i]) = SubSeq(s, i, n)}
<1>6. \A i \in 1..n : (\A j \in (i + 1)..n : j \in Whole) => i \in Whole
  <2> SUFFICES ASSUME NEW i \in 1..n, \A j \in (i + 1)..n : j \in Whole
               PROVE  FlattenSeq(from[i]) = SubSeq(s, i, n)
    OBVIOUS
  <2> DEFINE p == SubSeq(s, i, next[i] - 1)
  <2>1. p \in Seq(D) /\ pieces[i] = <<p>>
    BY <1>3
  <2> HIDE DEF p
  <2>2. FlattenSeq(<<p>>) = p /\ <<p>> \in Seq(Seq(D))
    BY <2>1, FlatFew
  <2>3. CASE next[i] \in 1..n
    <3>1. next[i] \in Whole
      BY <1>1, <2>3, SMTT(30)
    <3>2. FlattenSeq(<<p>> \o from[next[i]]) = FlattenSeq(<<p>>) \o FlattenSeq(from[next[i]])
      <4>1. from[next[i]] \in Seq(Seq(D))
        BY <1>5, <2>3
      <4> QED
        BY <2>2, <4>1, FlatConcat
    <3>3. SubSeq(s, i, next[i] - 1) \o SubSeq(s, (next[i] - 1) + 1, n) = SubSeq(s, i, n)
      <4>1. i \in 1..(Len(s) + 1) /\ next[i] - 1 \in (i - 1)..Len(s) /\ n \in (next[i] - 1)..Len(s)
        BY <1>0, <1>1, <2>3
      <4> QED
        BY <4>1, ConcatAdjacentSubSeq
    <3>4. (next[i] - 1) + 1 = next[i]
      BY <1>1
    <3> QED
      BY <1>5, <2>1, <2>2, <2>3, <3>1, <3>2, <3>3, <3>4 DEF p, CutsOn
  <2>4. CASE next[i] \notin 1..n
    <3>1. next[i] - 1 = n
      BY <1>0, <1>1, <2>4
    <3> QED
      BY <1>5, <2>1, <2>2, <2>4, <3>1 DEF p, CutsOn
  <2> QED
    BY <2>3, <2>4
<1> HIDE DEF Whole
<1>7. \A i \in 1..n : i \in Whole
  BY <1>0, <1>6, CountDown
<1>8. CASE s = << >>
  <2>1. SplitSentences(s) = << >>
    BY <1>8 DEF SplitSentences
  <2>2. << >> \in Seq(Seq(D)) /\ FlattenSeq(<< >>) = << >>
    BY DEF FlattenSeq
  <2> QED
    BY <1>8, <2>1, <2>2
<1>9. CASE s # << >>
  <2>1. SplitSentences(s) = from[1]
    BY <1>9 DEF SplitSentences, from, pieces, next
  <2>2. 1 \in 1..n /\ SubSeq(s, 1, n) = s
    BY <1>0, <1>9, EmptySeq, SubSeqFull
  <2> QED
    BY <1>5, <1>7, <2>1, <2>2 DEF Whole
<1> QED
  BY <1>8, <1>9

Short(D, most) == {w \in Seq(D) : Len(w) <= most}

(* Where a word ends: past the first character and within the budget.      *)
LEMMA WordEndFacts ==
  ASSUME NEW s, NEW most \in Nat \ {0}, NEW i \in Nat
  PROVE  WordEnd(s, most, i) \in (i + 1)..(i + most)
<1> DEFINE blanks == {j \in (i + 1)..(i + most) : s[j] = Blank}
<1>1. CASE blanks = {}
  <2>1. WordEnd(s, most, i) = i + most
    BY <1>1 DEF WordEnd
  <2> QED
    BY <2>1
<1>2. CASE blanks # {}
  <2>1. WordEnd(s, most, i) = Largest(blanks)
    BY <1>2 DEF WordEnd
  <2>2. blanks \in SUBSET (0..(i + most))
    OBVIOUS
  <2>3. blanks \subseteq (i + 1)..(i + most) /\ i + most \in Nat
    OBVIOUS
  <2> HIDE DEF blanks
  <2>4. Largest(blanks) \in blanks
    BY <1>2, <2>2, <2>3, LargestFacts
  <2> QED
    BY <2>1, <2>3, <2>4
<1> QED
  BY <1>1, <1>2

(* Words keep to the budget and say what the text does (BreakOnWords).     *)
LEMMA WordsFacts ==
  ASSUME NEW D, NEW s \in Seq(D), NEW most \in Nat \ {0}
  PROVE  /\ BreakOnWords(s, most) \in Seq(Short(D, most))
         /\ Bare(FlattenSeq(BreakOnWords(s, most))) = Bare(s)
<1> DEFINE n == Len(s)
           Fits(i) == Len(s) - i < most
           next == [i \in 1..Len(s) |->
                      IF Fits(i) THEN Len(s) + 1 ELSE FirstPast(s, Blank, WordEnd(s, most, i))]
           Word(i) == Trim(SubSeq(s, i, WordEnd(s, most, i) - 1))
           pieces == [i \in 1..Len(s) |-> IF Fits(i) THEN <<From(s, i)>>
                                          ELSE IF Word(i) = << >> THEN << >> ELSE <<Word(i)>>]
           from == CutFrom(next, pieces)
           W == Short(D, most)
<1>0. n \in Nat
  OBVIOUS
<1>1. W \subseteq Seq(D) /\ \A w \in Seq(D) : w \in W <=> Len(w) <= most
  BY DEF Short
<1> HIDE DEF W
<1>20. \A w \in W : <<w>> \in Seq(W) /\ <<w>> \in Seq(Seq(D))
  BY <1>1
<1>21. << >> \in Seq(W) /\ FlattenSeq(<< >>) = << >> /\ << >> \in Seq(D)
  BY DEF FlattenSeq
<1>22. \A x \in Seq(W) : x \in Seq(Seq(D))
  BY <1>1, SeqMonotonic
<1>23. \A x, y \in Seq(D) : Bare(x \o y) = Bare(x) \o Bare(y)
  BY BareFacts
<1>24. Bare(<< >>) = << >> /\ \A x \in Seq(D) : Bare(x) \in Seq(D)
  BY BareFacts
<1>25. \A x \in Seq(D) : x \o << >> = x /\ << >> \o x = x
  BY ConcatEmptySeq
<1>2. ASSUME NEW i \in 1..n, Fits(i)
      PROVE  /\ next[i] = n + 1 /\ pieces[i] = <<SubSeq(s, i, n)>>
             /\ SubSeq(s, i, n) \in W
  <2>1. next[i] = n + 1 /\ pieces[i] = <<SubSeq(s, i, n)>>
    BY <1>2 DEF From
  <2>2. SubSeq(s, i, n) \in Seq(D) /\ Len(SubSeq(s, i, n)) = n - i + 1
    <3>1. i \in 1..(Len(s) + 1) /\ n \in 0..Len(s) /\ i <= n
      BY <1>0
    <3> QED
      BY <3>1, Part
  <2>3. n - i + 1 <= most
    BY <1>0, <1>2
  <2> HIDE DEF next, pieces
  <2> QED
    BY <1>1, <2>1, <2>2, <2>3
<1>3. ASSUME NEW i \in 1..n, ~Fits(i)
      PROVE  \E j \in (i + 1)..n :
               /\ next[i] \in j..(n + 1)
               /\ \A k \in j..(next[i] - 1) : s[k] = Blank
               /\ SubSeq(s, i, j - 1) \in Seq(D)
               /\ Trim(SubSeq(s, i, j - 1)) \in W
               /\ Bare(Trim(SubSeq(s, i, j - 1))) = Bare(SubSeq(s, i, j - 1))
               /\ pieces[i] = IF Trim(SubSeq(s, i, j - 1)) = << >> THEN << >>
                              ELSE <<Trim(SubSeq(s, i, j - 1))>>
  <2> DEFINE j == WordEnd(s, most, i)
  <2>1. j \in (i + 1)..(i + most)
    BY WordEndFacts
  <2>2. j \in (i + 1)..n /\ j \in 1..(Len(s) + 1)
    BY <1>0, <1>3, <2>1
  <2>3. next[i] = FirstPast(s, Blank, j)
    BY <1>3
  <2>4. pieces[i] = IF Trim(SubSeq(s, i, j - 1)) = << >> THEN << >>
                    ELSE <<Trim(SubSeq(s, i, j - 1))>>
    BY <1>3
  <2> HIDE DEF j, next, pieces
  <2>5. next[i] \in j..(n + 1) /\ \A k \in j..(next[i] - 1) : s[k] = Blank
    BY <2>2, <2>3, FirstPastFacts
  <2>6. SubSeq(s, i, j - 1) \in Seq(D) /\ Len(SubSeq(s, i, j - 1)) <= most
    <3>1. i \in 1..(Len(s) + 1) /\ j - 1 \in 0..Len(s) /\ i <= j - 1
      BY <1>0, <2>2
    <3>2. SubSeq(s, i, j - 1) \in Seq(D) /\ Len(SubSeq(s, i, j - 1)) = (j - 1) - i + 1
      BY <3>1, Part
    <3> QED
      BY <1>0, <2>1, <3>2
  <2> DEFINE w == SubSeq(s, i, j - 1)
  <2>7. w \in Seq(D) /\ Len(w) <= most
    BY <2>6
  <2> HIDE DEF w
  <2>8. Trim(w) \in Seq(D) /\ Len(Trim(w)) <= Len(w) /\ Bare(Trim(w)) = Bare(w)
    BY <2>7, TrimFacts
  <2>9. Trim(w) \in W
    <3>1. Len(w) \in Nat /\ Len(Trim(w)) \in Nat
      BY <2>7, <2>8, LenProperties
    <3> QED
      BY <1>1, <2>7, <2>8, <3>1
  <2> QED
    BY <2>2, <2>4, <2>5, <2>7, <2>8, <2>9 DEF w
<1>4. GoesOn(next, n)
  <2>1. \A i \in 1..n : next[i] \in (i + 1)..(n + 1)
    <3> SUFFICES ASSUME NEW i \in 1..n PROVE next[i] \in (i + 1)..(n + 1)
      OBVIOUS
    <3> HIDE DEF next, pieces
    <3>1. CASE Fits(i)
      BY <1>0, <1>2, <3>1
    <3>2. CASE ~Fits(i)
      <4>1. PICK j \in (i + 1)..n : next[i] \in j..(n + 1)
        BY <1>3, <3>2
      <4> QED
        BY <1>0, <4>1
    <3> QED
      BY <3>1, <3>2
  <2> HIDE DEF Fits
  <2>2. next = [i \in 1..n |-> next[i]]
    OBVIOUS
  <2> HIDE DEF next
  <2>3. next \in [1..n -> Nat]
    BY <1>0, <2>1, <2>2
  <2> QED
    BY <1>0, <2>1, <2>3 DEF GoesOn
<1> HIDE DEF next, pieces
<1>5. \A i \in 1..n : pieces[i] \in Seq(W)
  <2> SUFFICES ASSUME NEW i \in 1..n PROVE pieces[i] \in Seq(W)
    OBVIOUS
  <2>1. CASE Fits(i)
    BY <1>2, <1>20, <2>1
  <2>2. CASE ~Fits(i)
    <3>1. PICK j \in (i + 1)..n :
               /\ Trim(SubSeq(s, i, j - 1)) \in W
               /\ pieces[i] = IF Trim(SubSeq(s, i, j - 1)) = << >> THEN << >>
                              ELSE <<Trim(SubSeq(s, i, j - 1))>>
      BY <1>3, <2>2
    <3> QED
      BY <1>20, <1>21, <3>1
  <2> QED
    BY <2>1, <2>2
<1>6. CutsOn(from, next, pieces, n) /\ \A i \in 1..n : from[i] \in Seq(W)
  BY <1>0, <1>4, <1>5, CutFromAt
<1> HIDE DEF from
<1> DEFINE Whole == {i \in 1..n : Bare(FlattenSeq(from[i])) = Bare(SubSeq(s, i, n))}
<1>7. \A i \in 1..n : (\A j \in (i + 1)..n : j \in Whole) => i \in Whole
  <2> SUFFICES ASSUME NEW i \in 1..n, \A j \in (i + 1)..n : j \in Whole
               PROVE  Bare(FlattenSeq(from[i])) = Bare(SubSeq(s, i, n))
    OBVIOUS
  <2>1. CASE Fits(i)
    <3>1. next[i] = n + 1 /\ pieces[i] = <<SubSeq(s, i, n)>> /\ SubSeq(s, i, n) \in W
      BY <1>2, <2>1
    <3>2. SubSeq(s, i, n) \in Seq(D)
      BY <1>1, <3>1
    <3>3. FlattenSeq(<<SubSeq(s, i, n)>>) = SubSeq(s, i, n)
      BY <3>2, FlatFew
    <3>4. from[i] = pieces[i]
      BY <1>0, <1>6, <3>1 DEF CutsOn
    <3> QED
      BY <3>1, <3>3, <3>4
  <2>2. CASE ~Fits(i)
    <3>1. PICK j \in (i + 1)..n :
               /\ next[i] \in j..(n + 1)
               /\ \A k \in j..(next[i] - 1) : s[k] = Blank
               /\ SubSeq(s, i, j - 1) \in Seq(D)
               /\ Trim(SubSeq(s, i, j - 1)) \in W
               /\ Bare(Trim(SubSeq(s, i, j - 1))) = Bare(SubSeq(s, i, j - 1))
               /\ pieces[i] = IF Trim(SubSeq(s, i, j - 1)) = << >> THEN << >>
                              ELSE <<Trim(SubSeq(s, i, j - 1))>>
      BY <1>3, <2>2
    <3> DEFINE a == SubSeq(s, i, j - 1)
               b == SubSeq(s, j, next[i] - 1)
               c == SubSeq(s, next[i], n)
               ab == SubSeq(s, i, next[i] - 1)
    <3>2. SubSeq(s, i, n) = ab \o c /\ ab = a \o b
      <4>1. SubSeq(s, i, next[i] - 1) \o SubSeq(s, (next[i] - 1) + 1, n) = SubSeq(s, i, n)
        <5>1. /\ i \in 1..(Len(s) + 1) /\ next[i] - 1 \in (i - 1)..Len(s)
              /\ n \in (next[i] - 1)..Len(s)
          BY <1>0, <3>1
        <5> QED
          BY <5>1, ConcatAdjacentSubSeq
      <4>2. SubSeq(s, i, j - 1) \o SubSeq(s, (j - 1) + 1, next[i] - 1) = SubSeq(s, i, next[i] - 1)
        <5>1. /\ i \in 1..(Len(s) + 1) /\ j - 1 \in (i - 1)..Len(s)
              /\ next[i] - 1 \in (j - 1)..Len(s)
          BY <1>0, <3>1
        <5> QED
          BY <5>1, ConcatAdjacentSubSeq
      <4>3. (next[i] - 1) + 1 = next[i] /\ (j - 1) + 1 = j
        BY <3>1
      <4> QED
        BY <4>1, <4>2, <4>3
    <3>3. /\ a \in Seq(D) /\ b \in Seq(D) /\ ab \in Seq(D) /\ c \in Seq(D)
          /\ next[i] = n + 1 => c = << >>
      <4>1. b \in Seq(D)
        <5>1. j \in 1..(Len(s) + 1) /\ next[i] - 1 \in 0..Len(s)
          BY <1>0, <3>1
        <5> QED
          BY <5>1, Part
      <4>2. ab \in Seq(D)
        <5>1. i \in 1..(Len(s) + 1) /\ next[i] - 1 \in 0..Len(s)
          BY <1>0, <3>1
        <5> QED
          BY <5>1, Part
      <4>3. c \in Seq(D) /\ (next[i] > n => c = << >>)
        <5>1. next[i] \in 1..(Len(s) + 1) /\ n \in 0..Len(s)
          BY <1>0, <3>1
        <5> QED
          BY <5>1, Part
      <4>4. next[i] = n + 1 => next[i] > n
        BY <1>0
      <4> QED
        BY <3>1, <4>1, <4>2, <4>3, <4>4
    <3>4. Bare(b) = << >>
      <4>1. \A k \in 1..Len(b) : b[k] = Blank
        <5>1. j \in 1..(Len(s) + 1) /\ next[i] - 1 \in 0..Len(s)
          BY <1>0, <3>1
        <5>2. /\ Len(b) = IF j <= next[i] - 1 THEN (next[i] - 1) - j + 1 ELSE 0
              /\ \A k \in 1..Len(b) : b[k] = s[j + k - 1]
          BY <5>1, Part
        <5> HIDE DEF b
        <5>3. ASSUME NEW k \in 1..Len(b) PROVE j + k - 1 \in j..(next[i] - 1)
          BY <1>0, <3>1, <5>2
        <5> QED
          BY <3>1, <5>2, <5>3
      <4> HIDE DEF b
      <4> QED
        BY <3>3, <4>1, BareBlank
    <3>5. Bare(FlattenSeq(pieces[i])) = Bare(a)
      <4>1. CASE Trim(a) = << >>
        <5>1. pieces[i] = << >> /\ Bare(Trim(a)) = Bare(a)
          BY <3>1, <4>1
        <5> QED
          BY <1>21, <4>1, <5>1
      <4>2. CASE Trim(a) # << >>
        <5>1. pieces[i] = <<Trim(a)>> /\ Bare(Trim(a)) = Bare(a) /\ Trim(a) \in W
          BY <3>1, <4>2
        <5> HIDE DEF a
        <5>2. Trim(a) \in Seq(D)
          BY <1>1, <5>1
        <5>3. FlattenSeq(<<Trim(a)>>) = Trim(a)
          BY <5>2, FlatFew
        <5> QED
          BY <5>1, <5>3
      <4> QED
        BY <4>1, <4>2
    <3>6. pieces[i] \in Seq(Seq(D)) /\ FlattenSeq(pieces[i]) \in Seq(D)
      <4>1. pieces[i] \in Seq(Seq(D)) /\ << >> \in Seq(Seq(D))
        BY <1>5, <1>22
      <4> QED
        BY <4>1, FlatConcat
    <3> HIDE DEF a, b, c, ab
    <3>7. Bare(SubSeq(s, i, n)) = Bare(a) \o Bare(c)
      <4>1. Bare(ab \o c) = Bare(ab) \o Bare(c) /\ Bare(a \o b) = Bare(a) \o Bare(b)
        BY <1>23, <3>3
      <4>2. Bare(a) \o << >> = Bare(a)
        BY <1>24, <1>25, <3>3
      <4> QED
        BY <3>2, <3>4, <4>1, <4>2
    <3>8. CASE next[i] \in 1..n
      <4>1. next[i] \in Whole /\ next[i] \in 1..n
        BY <3>1, <3>8
      <4>2. Bare(FlattenSeq(from[next[i]])) = Bare(c)
        BY <4>1 DEF c
      <4>3. from[next[i]] \in Seq(Seq(D)) /\ FlattenSeq(from[next[i]]) \in Seq(D)
        <5>1. from[next[i]] \in Seq(Seq(D)) /\ << >> \in Seq(Seq(D))
          BY <1>6, <1>22, <3>8
        <5> QED
          BY <5>1, FlatConcat
      <4>4. FlattenSeq(pieces[i] \o from[next[i]])
              = FlattenSeq(pieces[i]) \o FlattenSeq(from[next[i]])
        BY <3>6, <4>3, FlatConcat
      <4>5. from[i] = pieces[i] \o from[next[i]]
        BY <1>6, <3>8 DEF CutsOn
      <4>6. Bare(FlattenSeq(pieces[i]) \o FlattenSeq(from[next[i]]))
              = Bare(FlattenSeq(pieces[i])) \o Bare(FlattenSeq(from[next[i]]))
        BY <1>23, <3>6, <4>3
      <4> QED
        BY <3>5, <3>7, <4>2, <4>4, <4>5, <4>6
    <3>9. CASE next[i] \notin 1..n
      <4>1. next[i] = n + 1
        BY <1>0, <3>1, <3>9
      <4>2. Bare(c) = << >>
        BY <1>24, <3>3, <4>1
      <4>3. from[i] = pieces[i]
        BY <1>6, <3>9 DEF CutsOn
      <4>4. Bare(a) \o << >> = Bare(a)
        BY <1>24, <1>25, <3>3
      <4> QED
        BY <3>5, <3>7, <4>2, <4>3, <4>4
    <3> QED
      BY <3>8, <3>9
  <2> QED
    BY <2>1, <2>2
<1> HIDE DEF Whole
<1>8. \A i \in 1..n : i \in Whole
  BY <1>0, <1>7, CountDown
<1>9. CASE s = << >>
  <2>1. BreakOnWords(s, most) = << >>
    BY <1>9 DEF BreakOnWords
  <2> QED
    BY <1>9, <1>21, <2>1 DEF W
<1>10. CASE s # << >>
  <2>1. BreakOnWords(s, most) = from[1]
    BY <1>10 DEF BreakOnWords, from, pieces, next
  <2>2. 1 \in 1..n /\ SubSeq(s, 1, n) = s
    BY <1>0, <1>10, EmptySeq, SubSeqFull
  <2>3. from[1] \in Seq(W) /\ 1 \in Whole
    BY <1>6, <1>8, <2>2
  <2> QED
    BY <2>1, <2>2, <2>3 DEF Whole, W
<1> QED
  BY <1>9, <1>10

-----------------------------------------------------------------------------
(* Pieces of a line, and their speaker.                                     *)

Plain == {"a", Blank, Stop}
Unbroken == Plain \cup {Mark}
Prefix(marked) == IF marked THEN <<Mark, Blank>> ELSE << >>
Marked(prefix, ws) == [k \in 1..Len(ws) |-> prefix \o ws[k]]

(* Plain characters are not marks, and all of them are characters.         *)
LEMMA Characters ==
  /\ Mark \notin Plain /\ Blank \in Plain /\ Stop \in Plain /\ Mark # Blank
  /\ Break \notin Unbroken /\ Seq(Plain) \subseteq Seq(Unbroken)
<1>1. Mark \notin Plain /\ Blank \in Plain /\ Stop \in Plain /\ Mark # Blank
        /\ Break \notin Unbroken
  BY DEF Plain, Unbroken, Mark, Blank, Stop, Break
<1>2. \A s \in Seq(Plain) : s \in Seq(Unbroken)
  <2>1. Plain \subseteq Unbroken
    BY DEF Unbroken
  <2> QED
    BY <2>1, SeqMonotonic
<1> QED
  BY <1>1, <1>2

(* The mark that is repeated is one, without a break.                      *)
LEMMA PrefixIs == ASSUME NEW m \in BOOLEAN PROVE Prefix(m) \in Seq(Unbroken)
<1>1. Mark \in Unbroken /\ Blank \in Unbroken
  BY DEF Unbroken, Plain
<1>2. <<Mark, Blank>> \in Seq(Unbroken) /\ << >> \in Seq(Unbroken)
  BY <1>1
<1> QED
  BY <1>2 DEF Prefix

(* Naming the speaker keeps what is said, one after another.               *)
LEMMA NamedFacts ==
  ASSUME NEW D, NEW m \in BOOLEAN
  PROVE  /\ \A x \in Seq(D) : Named(x, m) \in Seq(D \X BOOLEAN) /\ Len(Named(x, m)) = Len(x)
         /\ \A x, y \in Seq(D) : Named(x \o y, m) = Named(x, m) \o Named(y, m)
         /\ Named(<< >>, m) = << >>
<1> DEFINE f == [c \in D |-> <<c, m>>]
<1>1. f \in [D -> D \X BOOLEAN]
  OBVIOUS
<1>2. \A x \in Seq(D) : Named(x, m) = Each(f, x)
  BY DEF Named, Each
<1> HIDE DEF f
<1>3. \A x, y \in Seq(D) : x \o y \in Seq(D)
  OBVIOUS
<1>4. Named(<< >>, m) = << >>
  BY DEF Named
<1> DEFINE T == D \X BOOLEAN
<1>5. Maps(f, D, T)
  BY <1>1 DEF Maps
<1> HIDE DEF T
<1>6. \A a \in Seq(D) : /\ Each(f, a) \in Seq(T) /\ Len(Each(f, a)) = Len(a)
  BY <1>5, EachFacts
<1>7. \A a, b \in Seq(D) : Each(f, a \o b) = Each(f, a) \o Each(f, b)
  BY <1>5, EachConcat
<1> QED
  BY <1>2, <1>3, <1>4, <1>6, <1>7 DEF T

(* A piece of a line says its words, of the speaker whose mark it has.     *)
LEMMA PieceSays ==
  ASSUME NEW p \in Seq(Plain), NEW m \in BOOLEAN
  PROVE  /\ Said(Prefix(m) \o p) = Named(Bare(p), m)
         /\ Bare(p) \in Seq(Plain) /\ Prefix(m) \o p \in Seq(Unbroken)
<1>1. Bare(p) \in Seq(Plain)
  BY BareFacts
<1>2. p \in Seq(Unbroken) /\ Bare(p) \in Seq(Unbroken)
  BY <1>1, Characters
<1>3. CASE m
  <2> DEFINE whole == <<Mark, Blank>> \o p
             one == <<Mark>>
             two == <<Blank>>
  <2>1. one \in Seq(Unbroken) /\ two \in Seq(Unbroken) /\ Mark \in Unbroken /\ Blank \in Unbroken
    BY Characters DEF Unbroken
  <2>2. <<Mark, Blank>> = one \o two
    OBVIOUS
  <2>3. Bare(one) = <<Mark>> /\ Bare(two) = << >>
    BY <2>1, BareFacts, Characters
  <2>4. \A x, y \in Seq(Unbroken) : Bare(x \o y) = Bare(x) \o Bare(y)
    BY BareFacts
  <2> HIDE DEF one, two
  <2>5. one \o two \in Seq(Unbroken)
    BY <2>1, ConcatProperties
  <2>6. Bare(one \o two) = <<Mark>>
    <3>1. Bare(one \o two) = <<Mark>> \o << >>
      BY <2>1, <2>3, <2>4
    <3>2. <<Mark>> \o << >> = <<Mark>>
      OBVIOUS
    <3> QED
      BY <3>1, <3>2
  <2>7. Bare(whole) = <<Mark>> \o Bare(p)
    BY <1>2, <2>2, <2>4, <2>5, <2>6
  <2> HIDE DEF whole
  <2> DEFINE b == Bare(p)
             said == <<Mark>> \o b
  <2>8. b \in Seq(Unbroken) /\ Mark \in Unbroken
    BY <1>2, <2>1
  <2> HIDE DEF b
  <2>9. said # << >> /\ said[1] = Mark /\ Tail(said) = b
    BY <2>8
  <2>10. Said(whole) = Named(b, TRUE)
    BY <2>7, <2>9 DEF Said, b
  <2>11. Prefix(m) \o p = whole /\ whole \in Seq(Unbroken)
    <3>1. (one \o two) \o p \in Seq(Unbroken)
      BY <1>2, <2>5, ConcatProperties
    <3> QED
      BY <1>3, <2>2, <3>1 DEF Prefix, whole
  <2>12. m = TRUE
    BY <1>3
  <2> QED
    BY <1>1, <2>10, <2>11, <2>12 DEF b
<1>4. CASE ~m
  <2>1. << >> \o p = p
    OBVIOUS
  <2>2. Bare(p) # << >> => Bare(p)[1] # Mark
    <3> DEFINE b == Bare(p)
    <3>1. b \in Seq(Plain) /\ Mark \notin Plain
      BY <1>1, Characters
    <3> HIDE DEF b
    <3>2. b # << >> => b[1] \in Plain
      BY <3>1
    <3>3. b # << >> => b[1] # Mark
      BY <3>1, <3>2
    <3> QED
      BY <3>3 DEF b
  <2>3. m = FALSE
    BY <1>4
  <2>4. Said(p) = Named(Bare(p), FALSE)
    BY <2>2 DEF Said
  <2> QED
    BY <1>1, <1>2, <1>4, <2>1, <2>3, <2>4 DEF Prefix
<1> QED
  BY <1>3, <1>4

(* What lines say, one line after another.                                 *)
LEMMA SaidByFacts ==
  /\ \A l \in Seq(Unbroken) : Said(l) \in Seq(Unbroken \X BOOLEAN) /\ SaidBy(<<l>>) = Said(l)
  /\ \A a \in Seq(Seq(Unbroken)) : SaidBy(a) \in Seq(Unbroken \X BOOLEAN)
  /\ \A a, b \in Seq(Seq(Unbroken)) : SaidBy(a \o b) = SaidBy(a) \o SaidBy(b)
  /\ SaidBy(<< >>) = << >>
<1> DEFINE f == [l \in Seq(Unbroken) |-> Said(l)]
           T == Unbroken \X BOOLEAN
<1>1. \A l \in Seq(Unbroken) : Said(l) \in Seq(T)
  <2> SUFFICES ASSUME NEW l \in Seq(Unbroken) PROVE Said(l) \in Seq(T)
    OBVIOUS
  <2>1. Bare(l) \in Seq(Unbroken)
    BY BareFacts
  <2> DEFINE b == Bare(l)
  <2>2. b \in Seq(Unbroken)
    BY <2>1
  <2> HIDE DEF b
  <2>3. b # << >> => Tail(b) \in Seq(Unbroken)
    BY <2>2
  <2> HIDE DEF T
  <2>4. \A x \in Seq(Unbroken) : Named(x, TRUE) \in Seq(T) /\ Named(x, FALSE) \in Seq(T)
    BY NamedFacts DEF T
  <2>5. Said(l) = IF b # << >> /\ b[1] = Mark THEN Named(Tail(b), TRUE) ELSE Named(b, FALSE)
    BY DEF Said, b
  <2> QED
    BY <2>2, <2>3, <2>4, <2>5
<1> HIDE DEF T
<1>2. f \in [Seq(Unbroken) -> Seq(T)]
  BY <1>1
<1>3. \A l \in Seq(Unbroken) : f[l] = Said(l)
  OBVIOUS
<1> DEFINE L == Seq(Unbroken)
<1> HIDE DEF f, L
<1>4. \A a \in Seq(L) : SaidBy(a) = FlatMap(f, a)
  <2> SUFFICES ASSUME NEW a \in Seq(L) PROVE SaidBy(a) = FlatMap(f, a)
    OBVIOUS
  <2>1. \A k \in 1..Len(a) : a[k] \in L
    BY ElementOfSeq
  <2>2. \A k \in 1..Len(a) : f[a[k]] = Said(a[k])
    BY <1>3, <2>1 DEF L
  <2>3. [k \in 1..Len(a) |-> f[a[k]]] = [k \in 1..Len(a) |-> Said(a[k])]
    BY <2>2
  <2> QED
    BY <2>3 DEF SaidBy, FlatMap, Each
<1>5. Maps(f, L, Seq(T))
  BY <1>2 DEF L, Maps
<1>6. /\ \A a \in Seq(L) : FlatMap(f, a) \in Seq(T)
      /\ FlatMap(f, << >>) = << >>
      /\ \A x \in L : FlatMap(f, <<x>>) = f[x]
  BY <1>5, FlatMapFew
<1>7. \A a, b \in Seq(L) : FlatMap(f, a \o b) = FlatMap(f, a) \o FlatMap(f, b)
  BY <1>5, FlatMapConcat
<1>8. /\ \A a, b \in Seq(L) : a \o b \in Seq(L)
      /\ << >> \in Seq(L) /\ \A x \in L : <<x>> \in Seq(L)
  OBVIOUS
<1>9. \A a, b \in Seq(L) : SaidBy(a \o b) = SaidBy(a) \o SaidBy(b)
  BY <1>4, <1>7, <1>8, ZenonT(30)
<1>10. \A l \in L : SaidBy(<<l>>) = Said(l)
  BY <1>3, <1>4, <1>6, <1>8 DEF L
<1> QED
  BY <1>1, <1>4, <1>6, <1>8, <1>9, <1>10 DEF L, T

(* Marked pieces, one after another.                                       *)
LEMMA MarkedFacts ==
  ASSUME NEW prefix \in Seq(Unbroken)
  PROVE  /\ \A ws \in Seq(Seq(Plain)) :
              /\ Marked(prefix, ws) \in Seq(Seq(Unbroken)) /\ Len(Marked(prefix, ws)) = Len(ws)
              /\ \A k \in 1..Len(ws) : Marked(prefix, ws)[k] = prefix \o ws[k]
         /\ \A a, b \in Seq(Seq(Plain)) :
              Marked(prefix, a \o b) = Marked(prefix, a) \o Marked(prefix, b)
         /\ \A w \in Seq(Plain) : Marked(prefix, <<w>>) = <<prefix \o w>>
<1> DEFINE L == Seq(Plain)
           U == Seq(Unbroken)
<1>0. L \subseteq U /\ \A x, y \in U : x \o y \in U
  BY Characters
<1>00. prefix \in U
  OBVIOUS
<1> HIDE DEF L, U
<1> DEFINE P(x) == prefix \o x
<1>01. \A x \in L : P(x) \in U
  BY <1>0, <1>00
<1> HIDE DEF P
<1> DEFINE f == [x \in L |-> P(x)]
<1>1. f \in [L -> U] /\ \A x \in L : f[x] = P(x)
  BY <1>01
<1>2. \A ws \in Seq(L) : Marked(prefix, ws) = Each(f, ws)
  <2> SUFFICES ASSUME NEW ws \in Seq(L) PROVE Marked(prefix, ws) = Each(f, ws)
    OBVIOUS
  <2>1. \A k \in 1..Len(ws) : f[ws[k]] = P(ws[k])
    BY <1>1, ElementOfSeq
  <2> HIDE DEF f
  <2> QED
    BY <2>1 DEF Marked, Each, P
<1> HIDE DEF f
<1>3. \A x, y \in Seq(L) : x \o y \in Seq(L)
  OBVIOUS
<1>4. \A x \in L : <<x>> \in Seq(L)
  OBVIOUS
<1>5. Maps(f, L, U)
  BY <1>1 DEF Maps
<1>6. /\ \A a \in Seq(L) : /\ Each(f, a) \in Seq(U) /\ Len(Each(f, a)) = Len(a)
                           /\ \A k \in 1..Len(a) : Each(f, a)[k] = f[a[k]]
  BY <1>5, EachFacts
<1>10. \A a, b \in Seq(L) : Each(f, a \o b) = Each(f, a) \o Each(f, b)
  BY <1>5, EachConcat
<1>11. \A x \in L : Each(f, <<x>>) = <<f[x]>>
  BY <1>5, EachOne
<1>7. ASSUME NEW ws \in Seq(L), NEW k \in 1..Len(ws) PROVE Marked(prefix, ws)[k] = P(ws[k])
  <2>1. ws[k] \in L
    BY ElementOfSeq
  <2> QED
    BY <1>1, <1>2, <1>6, <2>1
<1>8. \A a, b \in Seq(L) : Marked(prefix, a \o b) = Marked(prefix, a) \o Marked(prefix, b)
  BY <1>2, <1>3, <1>10
<1>9. \A x \in L : Marked(prefix, <<x>>) = <<P(x)>>
  BY <1>1, <1>2, <1>4, <1>11
<1> QED
  BY <1>2, <1>6, <1>7, <1>8, <1>9 DEF L, U, P

(* Together they say what their words do, all of the one speaker.          *)
LEMMA PiecesSay ==
  ASSUME NEW m \in BOOLEAN, NEW ws \in Seq(Seq(Plain))
  PROVE  SaidBy(Marked(Prefix(m), ws)) = Named(Bare(FlattenSeq(ws)), m)
<1> DEFINE h == [x \in Seq(Plain) |-> Named(Bare(x), m)]
           T == Plain \X BOOLEAN
<1>1. \A x \in Seq(Plain) : Bare(x) \in Seq(Plain)
  BY BareFacts
<1>2. \A x, y \in Seq(Plain) : Bare(x \o y) = Bare(x) \o Bare(y) /\ x \o y \in Seq(Plain)
  BY BareFacts, ConcatProperties
<1>3. \A x \in Seq(Plain) : Named(x, m) \in Seq(T)
  BY NamedFacts
<1>4. \A x, y \in Seq(Plain) : Named(x \o y, m) = Named(x, m) \o Named(y, m)
  BY NamedFacts
<1>5. h \in [Seq(Plain) -> Seq(T)] /\ \A x \in Seq(Plain) : h[x] = Named(Bare(x), m)
  BY <1>1, <1>3
<1> HIDE DEF h, T
<1>6. KeepsOrder(h, Plain)
  <2>1. h[<< >>] = << >>
    <3>1. << >> \in Seq(Plain)
      OBVIOUS
    <3>2. Bare(<< >>) = << >>
      BY BareFacts
    <3>3. Named(<< >>, m) = << >>
      BY NamedFacts
    <3> QED
      BY <1>5, <3>1, <3>2, <3>3
  <2>2. ASSUME NEW x \in Seq(Plain), NEW y \in Seq(Plain) PROVE h[x \o y] = h[x] \o h[y]
    <3>1. h[x \o y] = Named(Bare(x \o y), m) /\ h[x] = Named(Bare(x), m) /\ h[y] = Named(Bare(y), m)
      BY <1>2, <1>5
    <3>2. Bare(x \o y) = Bare(x) \o Bare(y)
      BY <1>2
    <3>3. Named(Bare(x) \o Bare(y), m) = Named(Bare(x), m) \o Named(Bare(y), m)
      BY <1>1, <1>4
    <3> QED
      BY <3>1, <3>2, <3>3
  <2> QED
    BY <2>1, <2>2 DEF KeepsOrder
<1>7. h[FlattenSeq(ws)] = FlattenSeq([k \in 1..Len(ws) |-> h[ws[k]]])
  <2>1. Maps(h, Seq(Plain), Seq(T))
    BY <1>5 DEF Maps
  <2> QED
    BY <1>6, <2>1, FlatHom
<1>8. FlattenSeq(ws) \in Seq(Plain)
  <2>1. << >> \in Seq(Seq(Plain))
    OBVIOUS
  <2> QED
    BY <2>1, FlatConcat
<1> DEFINE ms == Marked(Prefix(m), ws)
<1>9. [k \in 1..Len(ms) |-> Said(ms[k])] = [k \in 1..Len(ws) |-> h[ws[k]]]
  <2>1. Prefix(m) \in Seq(Unbroken)
    BY PrefixIs
  <2>2. Len(ms) = Len(ws) /\ \A k \in 1..Len(ws) : ms[k] = Prefix(m) \o ws[k]
    BY <2>1, MarkedFacts
  <2>3. \A x \in Seq(Plain) : Said(Prefix(m) \o x) = Named(Bare(x), m)
    BY PieceSays
  <2>4. \A k \in 1..Len(ws) : ws[k] \in Seq(Plain)
    OBVIOUS
  <2> HIDE DEF ms
  <2>5. \A k \in 1..Len(ws) : Said(ms[k]) = h[ws[k]]
    BY <1>5, <2>2, <2>3, <2>4
  <2> QED
    BY <2>2, <2>5
<1> QED
  BY <1>5, <1>7, <1>8, <1>9 DEF SaidBy

(* Pieces that keep to a budget, one after another.                        *)
LEMMA ShortFacts ==
  ASSUME NEW most \in Nat
  PROVE  /\ Short(Plain, most) \subseteq Seq(Plain) /\ << >> \in Short(Plain, most)
         /\ \A w \in Seq(Plain) : w \in Short(Plain, most) <=> Len(w) <= most
         /\ << >> \in Seq(Short(Plain, most)) /\ FlattenSeq(<< >>) = << >>
         /\ \A ps \in Seq(Short(Plain, most)) : /\ ps \in Seq(Seq(Plain))
                                                /\ FlattenSeq(ps) \in Seq(Plain)
         /\ \A ps, qs \in Seq(Short(Plain, most)) :
              /\ ps \o qs \in Seq(Short(Plain, most))
              /\ FlattenSeq(ps \o qs) = FlattenSeq(ps) \o FlattenSeq(qs)
         /\ \A w \in Short(Plain, most) : /\ <<w>> \in Seq(Short(Plain, most))
                                          /\ FlattenSeq(<<w>>) = w
<1> DEFINE W == Short(Plain, most)
<1>1. /\ W \subseteq Seq(Plain) /\ \A w \in Seq(Plain) : w \in W <=> Len(w) <= most
      /\ << >> \in W
  BY DEF Short
<1> HIDE DEF W
<1>2. << >> \in Seq(W) /\ FlattenSeq(<< >>) = << >>
  BY DEF FlattenSeq
<1>3. ASSUME NEW ps \in Seq(W) PROVE ps \in Seq(Seq(Plain)) /\ FlattenSeq(ps) \in Seq(Plain)
  <2>1. ps \in Seq(Seq(Plain)) /\ << >> \in Seq(Seq(Plain))
    BY <1>1, SeqMonotonic
  <2> QED
    BY <2>1, FlatConcat
<1>4. ASSUME NEW ps \in Seq(W), NEW qs \in Seq(W)
      PROVE  ps \o qs \in Seq(W) /\ FlattenSeq(ps \o qs) = FlattenSeq(ps) \o FlattenSeq(qs)
  <2>1. ps \in Seq(Seq(Plain)) /\ qs \in Seq(Seq(Plain))
    BY <1>3
  <2>2. FlattenSeq(ps \o qs) = FlattenSeq(ps) \o FlattenSeq(qs)
    BY <2>1, FlatConcat
  <2> QED
    BY <2>2, ConcatProperties
<1>5. ASSUME NEW w \in W PROVE <<w>> \in Seq(W) /\ FlattenSeq(<<w>>) = w
  <2>1. w \in Seq(Plain)
    BY <1>1
  <2> QED
    BY <2>1, FlatFew
<1> QED
  BY <1>1, <1>2, <1>3, <1>4, <1>5 DEF W

(* What is filled so far says what was added.                              *)
FillOK(filled, said, prefix, most) ==
  /\ filled.current \in Short(Plain, most)
  /\ \E ps \in Seq(Short(Plain, most)) :
       /\ filled.done = Marked(prefix, ps)
       /\ Bare(FlattenSeq(ps)) \o Bare(filled.current) = said

(* Closing the chunk being filled keeps it so.                             *)
LEMMA CloseKeeps ==
  ASSUME NEW prefix \in Seq(Unbroken), NEW most \in Nat, NEW said, NEW filled,
         FillOK(filled, said, prefix, most)
  PROVE  \E ps \in Seq(Short(Plain, most)) :
           CloseChunk(prefix, filled) = Marked(prefix, ps) /\ Bare(FlattenSeq(ps)) = said
<1> DEFINE W == Short(Plain, most)
           c == filled.current
<1>1. PICK ps \in Seq(W) : /\ filled.done = Marked(prefix, ps)
                           /\ Bare(FlattenSeq(ps)) \o Bare(c) = said
  BY DEF FillOK
<1>2. c \in W
  BY DEF FillOK
<1>3. /\ W \subseteq Seq(Plain) /\ \A w \in Seq(Plain) : w \in W <=> Len(w) <= most
  BY ShortFacts
<1>4. /\ \A p \in Seq(W) : p \in Seq(Seq(Plain)) /\ FlattenSeq(p) \in Seq(Plain)
      /\ \A p, q \in Seq(W) : p \o q \in Seq(W)
           /\ FlattenSeq(p \o q) = FlattenSeq(p) \o FlattenSeq(q)
  BY ShortFacts
<1>5. \A w \in W : <<w>> \in Seq(W) /\ FlattenSeq(<<w>>) = w
  BY ShortFacts
<1>6. Bare(<< >>) = << >> /\ \A x \in Seq(Plain) : Bare(x) \in Seq(Plain)
  BY BareFacts
<1>7. \A x, y \in Seq(Plain) : Bare(x \o y) = Bare(x) \o Bare(y)
  BY BareFacts
<1> HIDE DEF W, c
<1>8. CASE c = << >>
  <2>1. CloseChunk(prefix, filled) = filled.done
    BY <1>8 DEF CloseChunk, c
  <2>2. FlattenSeq(ps) \in Seq(Plain)
    BY <1>4
  <2> DEFINE b == Bare(FlattenSeq(ps))
  <2>3. b \in Seq(Plain)
    BY <1>6, <2>2
  <2> HIDE DEF b
  <2>4. b \o << >> = b
    BY <2>3, ConcatEmptySeq
  <2>5. Bare(FlattenSeq(ps)) = said
    BY <1>1, <1>6, <1>8, <2>4 DEF b
  <2> QED
    BY <1>1, <2>1, <2>5 DEF W
<1>9. CASE c # << >>
  <2> DEFINE w == Trim(c)
  <2>1. w \in Seq(Plain) /\ Len(w) <= Len(c) /\ Bare(w) = Bare(c)
    <3>1. c \in Seq(Plain)
      BY <1>2, <1>3
    <3> QED
      BY <3>1, TrimFacts
  <2> HIDE DEF w
  <2>2. w \in W
    <3>1. Len(c) <= most /\ Len(c) \in Nat /\ Len(w) \in Nat
      BY <1>2, <1>3, <2>1, LenProperties
    <3> QED
      BY <1>3, <2>1, <3>1
  <2> DEFINE one == <<w>>
             qs == ps \o one
  <2>3. one \in Seq(W) /\ FlattenSeq(one) = w
    BY <1>5, <2>2
  <2>4. Marked(prefix, one) = <<prefix \o w>>
    BY <2>1, MarkedFacts
  <2> HIDE DEF one
  <2>5. qs \in Seq(W) /\ FlattenSeq(qs) = FlattenSeq(ps) \o w
    BY <1>4, <2>3
  <2>6. Marked(prefix, qs) = Marked(prefix, ps) \o Marked(prefix, one)
    <3>1. ps \in Seq(Seq(Plain)) /\ one \in Seq(Seq(Plain))
      BY <1>4, <2>3
    <3>2. \A a, b \in Seq(Seq(Plain)) :
            Marked(prefix, a \o b) = Marked(prefix, a) \o Marked(prefix, b)
      BY MarkedFacts
    <3> QED
      BY <3>1, <3>2
  <2>7. CloseChunk(prefix, filled) = Marked(prefix, ps) \o <<prefix \o w>>
    <3>1. CloseChunk(prefix, filled) = Append(filled.done, prefix \o w)
      BY <1>9 DEF CloseChunk, c, w
    <3> DEFINE ms == Marked(prefix, ps)
               x == prefix \o w
    <3>2. ms \in Seq(Seq(Unbroken)) /\ x \in Seq(Unbroken)
      <4>1. ps \in Seq(Seq(Plain)) /\ w \in Seq(Unbroken)
        BY <1>4, <2>1, Characters
      <4> QED
        BY <4>1, MarkedFacts, ConcatProperties
    <3> HIDE DEF ms, x
    <3>3. Append(ms, x) = ms \o <<x>>
      BY <3>2
    <3> QED
      BY <1>1, <3>1, <3>3 DEF ms, x
  <2>8. Bare(FlattenSeq(qs)) = said
    <3>1. FlattenSeq(ps) \in Seq(Plain)
      BY <1>4
    <3>2. Bare(FlattenSeq(ps) \o w) = Bare(FlattenSeq(ps)) \o Bare(w)
      BY <1>7, <2>1, <3>1
    <3> QED
      BY <1>1, <2>1, <2>5, <3>2
  <2> QED
    BY <2>4, <2>5, <2>6, <2>7, <2>8 DEF W
<1> QED
  BY <1>8, <1>9

(* Adding a sentence keeps it so, whatever becomes of the sentence.        *)
LEMMA AddKeeps ==
  ASSUME NEW prefix \in Seq(Unbroken), NEW most \in Nat \ {0}, NEW said \in Seq(Plain), NEW filled,
         FillOK(filled, said, prefix, most), NEW raw \in Seq(Plain)
  PROVE  FillOK(AddSentence(prefix, most, filled, raw), said \o Bare(raw), prefix, most)
<1> DEFINE W == Short(Plain, most)
           c == filled.current
           sentence == TrimEnd(raw)
           words == BreakOnWords(Trim(sentence), most)
           next == AddSentence(prefix, most, filled, raw)
           all == said \o Bare(raw)
<1>1. sentence \in Seq(Plain) /\ Bare(sentence) = Bare(raw)
  BY TrimFacts
<1> HIDE DEF sentence
<1>2. Trim(sentence) \in Seq(Plain) /\ Bare(Trim(sentence)) = Bare(raw)
  BY <1>1, TrimFacts
<1>3. words \in Seq(W) /\ Bare(FlattenSeq(words)) = Bare(raw)
  BY <1>2, WordsFacts
<1>4. c \in W /\ most \in Nat
  BY DEF FillOK
<1>5. /\ W \subseteq Seq(Plain) /\ << >> \in W
      /\ \A w \in Seq(Plain) : w \in W <=> Len(w) <= most
  BY <1>4, ShortFacts
<1>6. /\ \A p \in Seq(W) : p \in Seq(Seq(Plain)) /\ FlattenSeq(p) \in Seq(Plain)
      /\ \A p, q \in Seq(W) : p \o q \in Seq(W)
           /\ FlattenSeq(p \o q) = FlattenSeq(p) \o FlattenSeq(q)
  BY <1>4, ShortFacts
<1>7. Bare(<< >>) = << >> /\ \A x \in Seq(Plain) : Bare(x) \in Seq(Plain)
  BY BareFacts
<1>8. \A x, y \in Seq(Plain) : Bare(x \o y) = Bare(x) \o Bare(y)
  BY BareFacts
<1>9. \A x \in Seq(Plain) : x \o << >> = x /\ << >> \o x = x
  BY ConcatEmptySeq
<1>10. PICK qs \in Seq(W) : CloseChunk(prefix, filled) = Marked(prefix, qs)
                              /\ Bare(FlattenSeq(qs)) = said
  BY <1>4, CloseKeeps
<1>11. Bare(raw) \in Seq(Plain)
  BY <1>7
<1>12. next = IF sentence = << >> THEN filled
     ELSE IF Len(sentence) > most
       THEN [done |-> CloseChunk(prefix, filled) \o Marked(prefix, words), current |-> << >>]
     ELSE IF c = << >> THEN [done |-> filled.done, current |-> sentence]
     ELSE IF Len(c) + 1 + Len(sentence) > most
       THEN [done |-> CloseChunk(prefix, filled), current |-> sentence]
     ELSE [done |-> filled.done, current |-> c \o <<Blank>> \o sentence]
  BY DEF AddSentence, Marked, sentence
<1> HIDE DEF W, words, next, c, all
<1>13. CASE sentence = << >>
  <2>1. Bare(raw) = << >> /\ next = filled
    BY <1>1, <1>7, <1>12, <1>13
  <2>2. all = said
    BY <1>9, <2>1 DEF all
  <2> QED
    BY <2>1, <2>2 DEF all, next
<1>14. CASE sentence # << >> /\ Len(sentence) > most
  <2> DEFINE ps == qs \o words
  <2>1. ps \in Seq(W) /\ FlattenSeq(ps) = FlattenSeq(qs) \o FlattenSeq(words)
    BY <1>3, <1>6
  <2>2. Marked(prefix, ps) = Marked(prefix, qs) \o Marked(prefix, words)
    <3>1. qs \in Seq(Seq(Plain)) /\ words \in Seq(Seq(Plain))
      BY <1>3, <1>6
    <3>2. \A a, b \in Seq(Seq(Plain)) :
            Marked(prefix, a \o b) = Marked(prefix, a) \o Marked(prefix, b)
      BY MarkedFacts
    <3> QED
      BY <3>1, <3>2
  <2>3. Bare(FlattenSeq(ps)) = all
    <3>1. FlattenSeq(qs) \in Seq(Plain) /\ FlattenSeq(words) \in Seq(Plain)
      BY <1>3, <1>6
    <3>2. Bare(FlattenSeq(qs) \o FlattenSeq(words))
              = Bare(FlattenSeq(qs)) \o Bare(FlattenSeq(words))
      BY <1>8, <3>1
    <3> QED
      BY <1>3, <1>10, <2>1, <3>2 DEF all
  <2>4. all \in Seq(Plain)
    <3>1. said \o Bare(raw) \in Seq(Plain)
      BY <1>11, ConcatProperties
    <3> QED
      BY <3>1 DEF all
  <2> HIDE DEF ps
  <2>5. Bare(FlattenSeq(ps)) \o Bare(<< >>) = all
    BY <1>7, <1>9, <2>3, <2>4
  <2>6. next = [done |-> Marked(prefix, ps), current |-> << >>]
    BY <1>10, <1>12, <1>14, <2>2
  <2>7. FillOK(next, all, prefix, most)
    BY <1>5, <2>1, <2>5, <2>6 DEF FillOK, W
  <2> QED
    BY <2>7 DEF next, all
<1>15. CASE sentence # << >> /\ ~(Len(sentence) > most)
  <2>0. sentence \in W /\ Len(sentence) \in Nat
    <3>1. Len(sentence) \in Nat
      BY <1>1, LenProperties
    <3> QED
      BY <1>1, <1>4, <1>5, <1>15, <3>1
  <2>1. CASE next = [done |-> CloseChunk(prefix, filled), current |-> sentence]
    <3>1. Bare(FlattenSeq(qs)) \o Bare(sentence) = all
      BY <1>1, <1>10 DEF all
    <3>2. FillOK(next, all, prefix, most)
      BY <1>10, <2>0, <2>1, <3>1 DEF FillOK, W
    <3> QED
      BY <3>2 DEF next, all
  <2>2. CASE c = << >>
    <3>1. CloseChunk(prefix, filled) = filled.done
      BY <2>2 DEF CloseChunk, c
    <3> QED
      BY <1>12, <1>15, <2>1, <2>2, <3>1
  <2>3. CASE c # << >> /\ Len(c) + 1 + Len(sentence) > most
    BY <1>12, <1>15, <2>1, <2>3
  <2>4. CASE c # << >> /\ ~(Len(c) + 1 + Len(sentence) > most)
    <3> DEFINE gap == <<Blank>>
               cg == c \o gap
               joined == cg \o sentence
    <3>1. c \in Seq(Plain) /\ gap \in Seq(Plain) /\ Len(gap) = 1 /\ Blank \in Plain
      BY <1>4, <1>5, Characters
    <3>2. Bare(gap) = << >>
      BY <3>1, BareFacts
    <3> HIDE DEF gap
    <3>3. cg \in Seq(Plain) /\ Len(cg) = Len(c) + 1 /\ Bare(cg) = Bare(c)
      <4>1. c \o gap \in Seq(Plain) /\ Len(c \o gap) = Len(c) + Len(gap)
        BY <3>1, ConcatProperties
      <4>2. Bare(c \o gap) = Bare(c) \o Bare(gap) /\ Bare(c) \in Seq(Plain)
        BY <1>7, <1>8, <3>1
      <4> QED
        BY <1>9, <3>1, <3>2, <4>1, <4>2
    <3> HIDE DEF cg
    <3>4. /\ joined \in Seq(Plain) /\ Len(joined) = Len(c) + 1 + Len(sentence)
          /\ Bare(joined) = Bare(c) \o Bare(sentence)
      <4>1. cg \o sentence \in Seq(Plain) /\ Len(cg \o sentence) = Len(cg) + Len(sentence)
        BY <1>1, <3>3, ConcatProperties
      <4>2. Bare(cg \o sentence) = Bare(cg) \o Bare(sentence)
        BY <1>1, <1>8, <3>3
      <4> QED
        BY <3>3, <4>1, <4>2
    <3>5. next = [done |-> filled.done, current |-> joined]
      BY <1>12, <1>15, <2>4 DEF cg, gap
    <3> HIDE DEF joined
    <3>6. joined \in W
      <4>1. Len(c) \in Nat
        BY <3>1, LenProperties
      <4> QED
        BY <1>4, <1>5, <2>0, <2>4, <3>4, <4>1
    <3>7. PICK ps \in Seq(W) : filled.done = Marked(prefix, ps)
                                 /\ Bare(FlattenSeq(ps)) \o Bare(c) = said
      BY DEF FillOK, W, c
    <3>8. Bare(FlattenSeq(ps)) \o Bare(joined) = all
      <4>1. Bare(FlattenSeq(ps)) \in Seq(Plain) /\ Bare(c) \in Seq(Plain)
        BY <1>6, <1>7, <3>1
      <4>2. \A x, y, z \in Seq(Plain) : (x \o y) \o z = x \o (y \o z)
        BY Regroup, SMTT(30)
      <4>3. (Bare(FlattenSeq(ps)) \o Bare(c)) \o Bare(raw)
                = Bare(FlattenSeq(ps)) \o (Bare(c) \o Bare(raw))
        BY <1>11, <4>1, <4>2, SMTT(30)
      <4> QED
        BY <1>1, <3>4, <3>7, <4>3 DEF all
    <3>9. FillOK(next, all, prefix, most)
      BY <3>5, <3>6, <3>7, <3>8 DEF FillOK, W
    <3> QED
      BY <3>9 DEF next, all
  <2> QED
    BY <2>2, <2>3, <2>4
<1> QED
  BY <1>13, <1>14, <1>15

(* What is filled is what its equation says (Filled).                       *)
LEMMA FilledIs ==
  ASSUME NEW prefix, NEW most, NEW sentences \in Seq(Seq(Plain))
  PROVE  /\ Filled(prefix, most, sentences)[0] = [done |-> << >>, current |-> << >>]
         /\ \A i \in 1..Len(sentences) :
              Filled(prefix, most, sentences)[i]
                = AddSentence(prefix, most, Filled(prefix, most, sentences)[i - 1], sentences[i])
<1> DEFINE First == [done |-> << >>, current |-> << >>]
           Step(x, i) == AddSentence(prefix, most, x, sentences[i])
           n == Len(sentences)
           Solves(g, m) == g = [i \in 0..m |-> IF i = 0 THEN First ELSE Step(g[i - 1], i)]
           Unsolved == {m \in Nat : ~ \E g : Solves(g, m)}
<1>0. n \in Nat
  OBVIOUS
<1> HIDE DEF First, Step
<1>1. Unsolved = {}
  <2> SUFFICES ASSUME Unsolved # {} PROVE FALSE
    OBVIOUS
  <2>1. PICK m \in Unsolved : \A k \in Unsolved : m <= k
    <3>1. Unsolved \in SUBSET Nat
      OBVIOUS
    <3> HIDE DEF Unsolved
    <3> QED
      BY <3>1, LeastNumber
  <2>2. CASE m = 0
    <3>1. Solves([i \in 0..0 |-> First], 0)
      OBVIOUS
    <3> QED
      BY <2>1, <2>2, <3>1
  <2>3. CASE m # 0
    <3>0. m - 1 \in Nat /\ m - 1 \notin Unsolved
      <4> HIDE DEF Solves
      <4> QED
        BY <2>1, <2>3
    <3>1. PICK g : Solves(g, m - 1)
      <4> HIDE DEF Solves
      <4> QED
        BY <3>0
    <3> DEFINE h == [i \in 0..m |-> IF i = 0 THEN First ELSE Step(g[i - 1], i)]
    <3>2. \A i \in 0..(m - 1) : h[i] = g[i]
      BY <3>0, <3>1
    <3>3. \A i \in 0..m : i # 0 => h[i - 1] = g[i - 1]
      <4> HIDE DEF h
      <4> QED
        BY <3>0, <3>2
    <3>4. \A i \in 0..m : h[i] = IF i = 0 THEN First ELSE Step(h[i - 1], i)
      BY <3>3
    <3>5. Solves(h, m)
      BY <3>4
    <3> QED
      BY <2>1, <3>5
  <2> QED
    BY <2>2, <2>3
<1>2. \E g : Solves(g, n)
  BY <1>0, <1>1
<1>3. Filled(prefix, most, sentences) = CHOOSE g : Solves(g, n)
  BY DEF Filled, First, Step
<1>4. Solves(Filled(prefix, most, sentences), n)
  BY <1>2, <1>3
<1> DEFINE f == Filled(prefix, most, sentences)
<1>5. f = [i \in 0..n |-> IF i = 0 THEN First ELSE Step(f[i - 1], i)]
  BY <1>4
<1> HIDE DEF f
<1> HIDE DEF n
<1>6. \A i \in 0..n : f[i] = IF i = 0 THEN First ELSE Step(f[i - 1], i)
  BY <1>5
<1>7. f[0] = First
  BY <1>0, <1>6
<1>8. \A i \in 1..n : f[i] = Step(f[i - 1], i)
  BY <1>0, <1>6
<1> QED
  BY <1>7, <1>8 DEF f, First, Step, n

(* What is joined is what its equation says (Joined).                       *)
LEMMA JoinedIs ==
  ASSUME NEW most, NEW units \in Seq(Seq(Unbroken))
  PROVE  /\ Joined(most, units)[0] = << >>
         /\ \A i \in 1..Len(units) :
              Joined(most, units)[i] = AddUnit(most, Joined(most, units)[i - 1], units[i])
<1> DEFINE First == << >>
           Step(x, i) == AddUnit(most, x, units[i])
           n == Len(units)
           Solves(g, m) == g = [i \in 0..m |-> IF i = 0 THEN First ELSE Step(g[i - 1], i)]
           Unsolved == {m \in Nat : ~ \E g : Solves(g, m)}
<1>0. n \in Nat
  OBVIOUS
<1> HIDE DEF First, Step
<1>1. Unsolved = {}
  <2> SUFFICES ASSUME Unsolved # {} PROVE FALSE
    OBVIOUS
  <2>1. PICK m \in Unsolved : \A k \in Unsolved : m <= k
    <3>1. Unsolved \in SUBSET Nat
      OBVIOUS
    <3> HIDE DEF Unsolved
    <3> QED
      BY <3>1, LeastNumber
  <2>2. CASE m = 0
    <3>1. Solves([i \in 0..0 |-> First], 0)
      OBVIOUS
    <3> QED
      BY <2>1, <2>2, <3>1
  <2>3. CASE m # 0
    <3>0. m - 1 \in Nat /\ m - 1 \notin Unsolved
      <4> HIDE DEF Solves
      <4> QED
        BY <2>1, <2>3
    <3>1. PICK g : Solves(g, m - 1)
      <4> HIDE DEF Solves
      <4> QED
        BY <3>0
    <3> DEFINE h == [i \in 0..m |-> IF i = 0 THEN First ELSE Step(g[i - 1], i)]
    <3>2. \A i \in 0..(m - 1) : h[i] = g[i]
      BY <3>0, <3>1
    <3>3. \A i \in 0..m : i # 0 => h[i - 1] = g[i - 1]
      <4> HIDE DEF h
      <4> QED
        BY <3>0, <3>2
    <3>4. \A i \in 0..m : h[i] = IF i = 0 THEN First ELSE Step(h[i - 1], i)
      BY <3>3
    <3>5. Solves(h, m)
      BY <3>4
    <3> QED
      BY <2>1, <3>5
  <2> QED
    BY <2>2, <2>3
<1>2. \E g : Solves(g, n)
  BY <1>0, <1>1
<1>3. Joined(most, units) = CHOOSE g : Solves(g, n)
  BY DEF Joined, First, Step
<1>4. Solves(Joined(most, units), n)
  BY <1>2, <1>3
<1> DEFINE f == Joined(most, units)
<1>5. f = [i \in 0..n |-> IF i = 0 THEN First ELSE Step(f[i - 1], i)]
  BY <1>4
<1> HIDE DEF f
<1> HIDE DEF n
<1>6. \A i \in 0..n : f[i] = IF i = 0 THEN First ELSE Step(f[i - 1], i)
  BY <1>5
<1>7. f[0] = First
  BY <1>0, <1>6
<1>8. \A i \in 1..n : f[i] = Step(f[i - 1], i)
  BY <1>0, <1>6
<1> QED
  BY <1>7, <1>8 DEF f, First, Step, n

(* The chunks of a line say what the line does (the filling of             *)
(* SplitLongLine).                                                         *)
LEMMA FilledSays ==
  ASSUME NEW prefix \in Seq(Unbroken), NEW most \in Nat \ {0}, NEW body \in Seq(Plain)
  PROVE  \E ps \in Seq(Short(Plain, most)) :
           /\ CloseChunk(prefix,
                         Filled(prefix, most, SplitSentences(body))[Len(SplitSentences(body))])
                = Marked(prefix, ps)
           /\ Bare(FlattenSeq(ps)) = Bare(body)
<1> DEFINE ss == SplitSentences(body)
           n == Len(ss)
           F == Filled(prefix, most, ss)
<1>1. ss \in Seq(Seq(Plain)) /\ FlattenSeq(ss) = body
  BY SentencesFacts
<1> HIDE DEF ss
<1>2. n \in Nat /\ \A i \in 1..n : ss[i] \in Seq(Plain)
  BY <1>1
<1>3. F[0] = [done |-> << >>, current |-> << >>]
  BY <1>1, FilledIs
<1>4. \A i \in 1..n : F[i] = AddSentence(prefix, most, F[i - 1], ss[i])
  BY <1>1, FilledIs
<1>5. PICK sums \in [0..n -> Seq(Plain)] :
         /\ sums[0] = << >> /\ FlattenSeq(ss) = sums[n]
         /\ \A i \in 1..n : sums[i] = sums[i - 1] \o ss[i]
  BY <1>1, FlatIs
<1> HIDE DEF n, F
<1> DEFINE Filling == {i \in 0..n : FillOK(F[i], Bare(sums[i]), prefix, most)}
<1>6. 0 \in Filling
  <2>1. /\ << >> \in Seq(Short(Plain, most)) /\ << >> \in Short(Plain, most)
        /\ FlattenSeq(<< >>) = << >>
    BY ShortFacts
  <2>2. Bare(<< >>) = << >>
    BY BareFacts
  <2>3. Marked(prefix, << >>) = << >>
    BY DEF Marked
  <2>4. F[0].done = << >> /\ F[0].current = << >>
    BY <1>3
  <2>5. << >> \o << >> = << >>
    OBVIOUS
  <2>6. /\ F[0].done = Marked(prefix, << >>)
        /\ Bare(FlattenSeq(<< >>)) \o Bare(F[0].current) = Bare(sums[0])
    BY <1>5, <2>1, <2>2, <2>3, <2>4, <2>5
  <2>7. FillOK(F[0], Bare(sums[0]), prefix, most)
    BY <2>1, <2>4, <2>6 DEF FillOK
  <2> QED
    BY <1>2, <2>7
<1>7. ASSUME NEW i \in 0..(n - 1), i \in Filling PROVE i + 1 \in Filling
  <2>1. i + 1 \in 1..n /\ i + 1 \in 0..n /\ (i + 1) - 1 = i /\ i \in 0..n
    BY <1>2
  <2>2. ss[i + 1] \in Seq(Plain) /\ sums[i] \in Seq(Plain)
    BY <1>2, <1>5, <2>1
  <2>3. Bare(sums[i]) \in Seq(Plain)
    BY <2>2, BareFacts
  <2>4. Bare(sums[i + 1]) = Bare(sums[i]) \o Bare(ss[i + 1])
    <3>1. sums[i + 1] = sums[i] \o ss[i + 1]
      BY <1>5, <2>1
    <3>2. \A x, y \in Seq(Plain) : Bare(x \o y) = Bare(x) \o Bare(y)
      BY BareFacts
    <3> QED
      BY <2>2, <3>1, <3>2
  <2>5. F[i + 1] = AddSentence(prefix, most, F[i], ss[i + 1])
    BY <1>4, <2>1
  <2>6. FillOK(F[i], Bare(sums[i]), prefix, most)
    BY <1>7
  <2>7. FillOK(AddSentence(prefix, most, F[i], ss[i + 1]),
            Bare(sums[i]) \o Bare(ss[i + 1]), prefix, most)
    BY <2>2, <2>3, <2>6, AddKeeps
  <2>8. FillOK(F[i + 1], Bare(sums[i + 1]), prefix, most)
    BY <2>4, <2>5, <2>7
  <2> QED
    BY <2>1, <2>8
<1>8. n \in Filling
  <2> HIDE DEF Filling
  <2>1. \A i \in 0..n : i \in Filling
    BY <1>2, <1>6, <1>7, CountUp
  <2> QED
    BY <1>2, <2>1
<1>9. FillOK(F[n], Bare(body), prefix, most)
  BY <1>1, <1>5, <1>8
<1>10. \E ps \in Seq(Short(Plain, most)) :
         CloseChunk(prefix, F[n]) = Marked(prefix, ps) /\ Bare(FlattenSeq(ps)) = Bare(body)
  BY <1>9, CloseKeeps
<1> QED
  BY <1>10 DEF F, n, ss

-----------------------------------------------------------------------------
(* Units of a line.                                                         *)

(* A line names its speaker at its beginning, or not at all.               *)
LineOK(line) == line \in Seq(Unbroken) /\ \A i \in 2..Len(line) : line[i] # Mark

(* A piece keeps to the budget, but for the mark of its speaker.           *)
Within(u, most) ==
  \/ Len(u) <= most
  \/ Said(u) = << >>
  \/ Len(Said(u)) = 1 /\ Said(u)[1][2]

(* The speaker of a line, and what is left of it (SplitLongLine).          *)
Speaks(line) == Trim(line) # << >> /\ Trim(line)[1] = Mark
Body(line) == IF Speaks(line) THEN Trim(From(Trim(line), 2)) ELSE Trim(line)

(* What is trimmed is a part of it.                                        *)
LEMMA TrimIsPart ==
  ASSUME NEW D, NEW s \in Seq(D), Trim(s) # << >>
  PROVE  \E l \in 1..Len(s), h \in 1..Len(s) : l <= h /\ Trim(s) = SubSeq(s, l, h)
<1>0. Len(s) \in Nat
  OBVIOUS
<1>1. Solid(s) # {} /\ Trim(s) = SubSeq(s, Least(Solid(s)), Largest(Solid(s)))
  BY DEF Trim
<1>2. Least(Solid(s)) \in Solid(s) /\ \A j \in Solid(s) : Least(Solid(s)) <= j
  <2>1. Solid(s) \in SUBSET Nat
    BY <1>0 DEF Solid
  <2> QED
    BY <1>1, <2>1, LeastFacts
<1>3. Largest(Solid(s)) \in Solid(s)
  <2>1. Solid(s) \in SUBSET (0..Len(s))
    BY <1>0 DEF Solid
  <2> QED
    BY <1>0, <1>1, <2>1, LargestFacts
<1>4. Solid(s) \subseteq 1..Len(s)
  BY DEF Solid
<1> QED
  BY <1>1, <1>2, <1>3, <1>4

(* A text without marks is plain.                                          *)
LEMMA PlainIs ==
  ASSUME NEW s \in Seq(Unbroken), \A i \in 1..Len(s) : s[i] # Mark PROVE s \in Seq(Plain)
<1>1. \A i \in 1..Len(s) : s[i] \in Unbroken
  BY ElementOfSeq
<1>2. \A i \in 1..Len(s) : s[i] \in Plain
  BY <1>1 DEF Unbroken
<1>3. s = [i \in 1..Len(s) |-> s[i]] /\ Len(s) \in Nat
  OBVIOUS
<1> DEFINE n == Len(s)
<1> HIDE DEF n
<1>4. s \in [1..n -> Plain]
  BY <1>2, <1>3 DEF n
<1> QED
  BY <1>3, <1>4 DEF n

(* A line says what is left of it, of its speaker.                         *)
LEMMA LineSays ==
  ASSUME NEW line, LineOK(line)
  PROVE  /\ Speaks(line) \in BOOLEAN /\ Body(line) \in Seq(Plain)
         /\ Said(line) = Named(Bare(Body(line)), Speaks(line))
<1> DEFINE bare == Trim(line)
<1>1. line \in Seq(Unbroken) /\ \A i \in 2..Len(line) : line[i] # Mark
  BY DEF LineOK
<1>2. bare \in Seq(Unbroken) /\ Bare(bare) = Bare(line)
  BY <1>1, TrimFacts
<1>3. \A k \in 2..Len(bare) : bare[k] # Mark
  <2>1. CASE bare = << >>
    BY <2>1
  <2>2. CASE bare # << >>
    <3>1. PICK l \in 1..Len(line), h \in 1..Len(line) : l <= h /\ bare = SubSeq(line, l, h)
      BY <1>1, <2>2, TrimIsPart
    <3>2. \A k \in 1..Len(bare) : bare[k] = line[l + k - 1]
      <4>1. l \in 1..(Len(line) + 1) /\ h \in 0..Len(line)
        BY <1>1, <3>1
      <4> QED
        BY <1>1, <3>1, <4>1, Part
    <3>3. Len(bare) = h - l + 1
      <4>1. l \in 1..(Len(line) + 1) /\ h \in 0..Len(line)
        BY <1>1, <3>1
      <4>2. Len(SubSeq(line, l, h)) = IF l <= h THEN h - l + 1 ELSE 0
        BY <1>1, <4>1, Part
      <4> QED
        BY <3>1, <4>2
    <3> HIDE DEF bare
    <3> SUFFICES ASSUME NEW k \in 2..Len(bare) PROVE bare[k] # Mark
      OBVIOUS
    <3>4. l + k - 1 \in 2..Len(line) /\ k \in 1..Len(bare)
      <4>1. Len(line) \in Nat
        BY <1>1
      <4> QED
        BY <3>1, <3>3, <4>1
    <3> QED
      BY <1>1, <3>2, <3>4
  <2> QED
    BY <2>1, <2>2
<1>4. CASE Speaks(line)
  <2> DEFINE rest == From(bare, 2)
  <2>1. bare # << >> /\ bare[1] = Mark /\ Speaks(line) = TRUE
    BY <1>4 DEF Speaks
  <2> HIDE DEF bare
  <2>2. Len(bare) \in Nat \ {0}
    BY <1>2, <2>1
  <2>3. rest \in Seq(Unbroken) /\ Len(rest) = Len(bare) - 1
          /\ \A k \in 1..Len(rest) : rest[k] = bare[k + 1]
    <3>1. 2 \in 1..(Len(bare) + 1) /\ Len(bare) \in 0..Len(bare)
      BY <2>2
    <3>2. /\ SubSeq(bare, 2, Len(bare)) \in Seq(Unbroken)
          /\ Len(SubSeq(bare, 2, Len(bare))) = IF 2 <= Len(bare) THEN Len(bare) - 2 + 1 ELSE 0
          /\ \A k \in 1..Len(SubSeq(bare, 2, Len(bare))) :
                 SubSeq(bare, 2, Len(bare))[k] = bare[2 + k - 1]
      BY <1>2, <3>1, Part
    <3>3. rest = SubSeq(bare, 2, Len(bare))
      BY DEF From
    <3> HIDE DEF rest
    <3>4. rest \in Seq(Unbroken) /\ \A k \in 1..Len(rest) : rest[k] = bare[2 + k - 1]
      BY <3>2, <3>3
    <3>5. Len(rest) = IF 2 <= Len(bare) THEN Len(bare) - 2 + 1 ELSE 0
      BY <3>2, <3>3
    <3>6. Len(rest) = Len(bare) - 1
      BY <2>2, <3>5, SMTT(30)
    <3>7. \A k \in 1..Len(rest) : 2 + k - 1 = k + 1
      OBVIOUS
    <3> QED
      BY <3>4, <3>6, <3>7
  <2> HIDE DEF rest
  <2>4. rest \in Seq(Plain)
    <3>1. \A k \in 1..Len(rest) : rest[k] # Mark
      BY <1>3, <2>2, <2>3
    <3> QED
      BY <2>3, <3>1, PlainIs
  <2>5. Trim(rest) \in Seq(Plain) /\ Bare(Trim(rest)) = Bare(rest)
    BY <2>4, TrimFacts
  <2>6. bare = <<Mark>> \o rest
    <3>1. /\ Len(<<Mark>> \o rest) = Len(bare)
          /\ \A i \in 1..Len(bare) : (<<Mark>> \o rest)[i] = bare[i]
      BY <2>1, <2>2, <2>3
    <3>2. Mark \in Unbroken
      BY DEF Unbroken
    <3>3. <<Mark>> \o rest \in Seq(Unbroken)
      BY <2>3, <3>2
    <3> QED
      BY <1>2, <3>1, <3>3, SeqEqual
  <2>7. Bare(bare) = <<Mark>> \o Bare(rest)
    <3>1. Mark \in Unbroken /\ <<Mark>> \in Seq(Unbroken)
      BY DEF Unbroken
    <3>2. Bare(<<Mark>> \o rest) = Bare(<<Mark>>) \o Bare(rest)
      BY <2>3, <3>1, BareFacts
    <3>3. Bare(<<Mark>>) = <<Mark>>
      BY <3>1, BareFacts, Characters
    <3> QED
      BY <2>6, <3>2, <3>3
  <2> DEFINE b == Bare(rest)
             said == <<Mark>> \o b
  <2>8. b \in Seq(Unbroken) /\ Mark \in Unbroken
    <3>1. Mark \in Unbroken
      BY DEF Unbroken
    <3> QED
      BY <2>3, <3>1, BareFacts
  <2> HIDE DEF b
  <2>9. said # << >> /\ said[1] = Mark /\ Tail(said) = b
    BY <2>8
  <2>10. Said(line) = Named(b, TRUE)
    BY <1>2, <2>7, <2>9 DEF Said, b
  <2>11. Body(line) = Trim(rest)
    BY <1>4 DEF Body, rest, bare
  <2> QED
    BY <2>1, <2>5, <2>10, <2>11 DEF b
<1>5. CASE ~Speaks(line)
  <2>1. Speaks(line) = FALSE /\ Body(line) = bare
    BY <1>5 DEF Body, Speaks
  <2>2. bare = << >> \/ bare[1] # Mark
    BY <1>5 DEF Speaks
  <2> HIDE DEF bare
  <2>3. bare \in Seq(Plain)
    <3>1. \A k \in 1..Len(bare) : bare[k] # Mark
      BY <1>2, <1>3, <2>2
    <3> QED
      BY <1>2, <3>1, PlainIs
  <2> DEFINE b == Bare(bare)
  <2>4. b \in Seq(Plain) /\ Mark \notin Plain
    BY <2>3, BareFacts, Characters
  <2>5. b = Bare(line)
    BY <1>2
  <2> HIDE DEF b
  <2>6. b # << >> => b[1] # Mark
    BY <2>4
  <2>7. Said(line) = Named(b, FALSE)
    BY <2>5, <2>6 DEF Said
  <2> QED
    BY <2>1, <2>3, <2>7 DEF b
<1> QED
  BY <1>4, <1>5

(* A marked piece keeps to the budget, or to the least there is.           *)
LEMMA PieceFits ==
  ASSUME NEW m \in BOOLEAN, NEW most \in Nat \ {0}, NEW room,
         room = IF most - Len(Prefix(m)) > 1 THEN most - Len(Prefix(m)) ELSE 1,
         NEW w \in Short(Plain, room)
  PROVE  Within(Prefix(m) \o w, most)
<1>1. w \in Seq(Plain) /\ Len(w) <= room /\ Len(w) \in Nat
  <2>1. w \in Seq(Plain) /\ Len(w) <= room
    BY DEF Short
  <2> QED
    BY <2>1, LenProperties
<1>2. Len(Prefix(m)) = IF m THEN 2 ELSE 0
  BY DEF Prefix
<1>3. Len(Prefix(m) \o w) = Len(Prefix(m)) + Len(w)
  <2>1. Prefix(m) \in Seq(Unbroken) /\ w \in Seq(Unbroken)
    BY <1>1, PrefixIs, Characters
  <2> QED
    BY <2>1, ConcatProperties
<1>4. CASE Len(Prefix(m)) + Len(w) <= most
  BY <1>3, <1>4 DEF Within
<1>5. CASE ~(Len(Prefix(m)) + Len(w) <= most)
  <2>1. m = TRUE /\ Len(w) <= 1
    BY <1>1, <1>2, <1>5
  <2>2. Said(Prefix(m) \o w) = Named(Bare(w), TRUE)
    BY <1>1, <2>1, PieceSays
  <2>3. CASE w = << >>
    <3>1. Bare(w) = << >> /\ Named(<< >>, TRUE) = << >>
      BY <2>3, BareFacts DEF Named
    <3> QED
      BY <2>2, <3>1 DEF Within
  <2>4. CASE w # << >>
    <3>1. w[1] \in Plain /\ w = <<w[1]>>
      <4>1. Len(w) = 1
        <5>1. Len(w) \in Nat \ {0}
          BY <1>1, <2>4, EmptySeq
        <5> QED
          BY <2>1, <5>1
      <4>2. w[1] \in Plain
        <5>1. 1 \in 1..Len(w)
          BY <4>1
        <5> QED
          BY <1>1, <5>1, ElementOfSeq
      <4>3. <<w[1]>> \in Seq(Plain) /\ Len(<<w[1]>>) = 1 /\ <<w[1]>>[1] = w[1]
        BY <4>2
      <4>4. \A i \in 1..Len(w) : w[i] = <<w[1]>>[i]
        BY <4>1, <4>3
      <4> QED
        BY <1>1, <4>1, <4>2, <4>3, <4>4, SeqEqual
    <3>2. Bare(w) = IF w[1] = Blank THEN << >> ELSE <<w[1]>>
      BY <3>1, BareFacts
    <3>3. Named(<< >>, TRUE) = << >>
      BY DEF Named
    <3>4. Len(Named(<<w[1]>>, TRUE)) = 1 /\ Named(<<w[1]>>, TRUE)[1][2] = TRUE
      <4> DEFINE c == w[1]
      <4> HIDE DEF c
      <4>1. Len(Named(<<c>>, TRUE)) = 1 /\ Named(<<c>>, TRUE)[1][2] = TRUE
        BY DEF Named
      <4> QED
        BY <4>1 DEF c
    <3> QED
      BY <2>2, <3>2, <3>3, <3>4 DEF Within
  <2> QED
    BY <2>3, <2>4
<1> QED
  BY <1>4, <1>5

(* A long line's pieces say what it does, of its speaker (SplitLongLine).  *)
LEMMA LongLineSays ==
  ASSUME NEW line, LineOK(line), NEW most \in Nat \ {0}
  PROVE  \E m \in BOOLEAN, room \in Nat \ {0} :
           /\ room = IF most - Len(Prefix(m)) > 1 THEN most - Len(Prefix(m)) ELSE 1
           /\ \E ps \in Seq(Short(Plain, room)) :
                /\ SplitLongLine(line, most)
                     = IF Marked(Prefix(m), ps) = << >> THEN <<line>> ELSE Marked(Prefix(m), ps)
                /\ Said(line) = Named(Bare(FlattenSeq(ps)), m)
<1> DEFINE m == Speaks(line)
           body == Body(line)
           room == IF most - Len(Prefix(m)) > 1 THEN most - Len(Prefix(m)) ELSE 1
           ss == SplitSentences(body)
           pieces == CloseChunk(Prefix(m), Filled(Prefix(m), room, ss)[Len(ss)])
<1>1. m \in BOOLEAN /\ body \in Seq(Plain) /\ Said(line) = Named(Bare(body), m)
  BY LineSays
<1>2. SplitLongLine(line, most) = IF pieces = << >> THEN <<line>> ELSE pieces
  BY DEF SplitLongLine, Speaks, Body, Prefix
<1>3. Prefix(m) \in Seq(Unbroken) /\ Len(Prefix(m)) \in Nat
  <2>1. Prefix(m) \in Seq(Unbroken)
    BY <1>1, PrefixIs
  <2> QED
    BY <2>1, LenProperties
<1>4. room \in Nat \ {0}
  BY <1>3
<1> HIDE DEF m, body, room
<1>5. PICK ps \in Seq(Short(Plain, room)) :
        pieces = Marked(Prefix(m), ps) /\ Bare(FlattenSeq(ps)) = Bare(body)
  BY <1>1, <1>3, <1>4, FilledSays
<1>6. room = IF most - Len(Prefix(m)) > 1 THEN most - Len(Prefix(m)) ELSE 1
  BY DEF room
<1> HIDE DEF pieces
<1>7. SplitLongLine(line, most) =
          IF Marked(Prefix(m), ps) = << >> THEN <<line>> ELSE Marked(Prefix(m), ps)
  BY <1>2, <1>5
<1>8. Said(line) = Named(Bare(FlattenSeq(ps)), m)
  BY <1>1, <1>5
<1> QED
  BY <1>1, <1>4, <1>6, <1>7, <1>8

(* The units of a line say what it does, and keep to the budget (Units).   *)
LEMMA UnitsFacts ==
  ASSUME NEW line, LineOK(line), NEW most \in Nat \ {0}
  PROVE  /\ Units(line, most) \in Seq(Seq(Unbroken)) /\ SaidBy(Units(line, most)) = Said(line)
         /\ \A k \in 1..Len(Units(line, most)) : Within(Units(line, most)[k], most)
<1>1. line \in Seq(Unbroken) /\ <<line>> \in Seq(Seq(Unbroken))
  <2>1. line \in Seq(Unbroken)
    BY DEF LineOK
  <2> QED
    BY <2>1
<1>2. SaidBy(<<line>>) = Said(line) /\ SaidBy(<< >>) = << >>
  BY <1>1, SaidByFacts
<1>3. \A k \in 1..Len(<<line>>) : <<line>>[k] = line
  OBVIOUS
<1>4. CASE Trim(line) = << >>
  <2>1. Bare(line) = << >>
    <3>1. Bare(Trim(line)) = Bare(line)
      BY <1>1, TrimFacts
    <3>2. Bare(<< >>) = << >>
      BY BareFacts
    <3> QED
      BY <1>4, <3>1, <3>2
  <2>2. Said(line) = << >>
    BY <2>1 DEF Said, Named
  <2>3. Units(line, most) = << >>
    BY <1>4 DEF Units
  <2> QED
    BY <1>2, <2>2, <2>3
<1>5. CASE Trim(line) # << >> /\ ~(Len(line) > most)
  <2>1. Units(line, most) = <<line>>
    BY <1>5 DEF Units
  <2>2. Within(line, most)
    <3>1. Len(line) \in Nat
      BY <1>1, LenProperties
    <3> QED
      BY <1>5, <3>1 DEF Within
  <2> QED
    BY <1>1, <1>2, <1>3, <2>1, <2>2
<1>6. CASE Trim(line) # << >> /\ Len(line) > most
  <2>1. Units(line, most) = SplitLongLine(line, most)
    BY <1>6 DEF Units
  <2>2. PICK m \in BOOLEAN, room \in Nat \ {0} :
          /\ room = IF most - Len(Prefix(m)) > 1 THEN most - Len(Prefix(m)) ELSE 1
          /\ \E ps \in Seq(Short(Plain, room)) :
               /\ SplitLongLine(line, most)
                    = IF Marked(Prefix(m), ps) = << >> THEN <<line>> ELSE Marked(Prefix(m), ps)
               /\ Said(line) = Named(Bare(FlattenSeq(ps)), m)
    BY LongLineSays
  <2>3. PICK ps \in Seq(Short(Plain, room)) :
               /\ SplitLongLine(line, most)
                    = IF Marked(Prefix(m), ps) = << >> THEN <<line>> ELSE Marked(Prefix(m), ps)
               /\ Said(line) = Named(Bare(FlattenSeq(ps)), m)
    BY <2>2
  <2> DEFINE pieces == Marked(Prefix(m), ps)
  <2>4. ps \in Seq(Seq(Plain)) /\ Prefix(m) \in Seq(Unbroken)
    <3>1. room \in Nat
      OBVIOUS
    <3> QED
      BY <3>1, ShortFacts, PrefixIs
  <2>5. /\ pieces \in Seq(Seq(Unbroken)) /\ Len(pieces) = Len(ps)
        /\ \A k \in 1..Len(ps) : pieces[k] = Prefix(m) \o ps[k]
    BY <2>4, MarkedFacts
  <2>6. SaidBy(pieces) = Said(line)
    BY <2>3, <2>4, PiecesSay
  <2>7. \A k \in 1..Len(pieces) : Within(pieces[k], most)
    <3> HIDE DEF pieces
    <3> SUFFICES ASSUME NEW k \in 1..Len(pieces) PROVE Within(pieces[k], most)
      OBVIOUS
    <3> DEFINE W == Short(Plain, room)
    <3>1. ps \in Seq(W) /\ k \in 1..Len(ps)
      BY <2>5
    <3> HIDE DEF W
    <3>2. ps[k] \in W
      BY <3>1, ElementOfSeq
    <3>3. Within(Prefix(m) \o ps[k], most)
      BY <2>2, <3>2, PieceFits DEF W
    <3> QED
      BY <2>5, <3>1, <3>3
  <2>8. CASE pieces = << >>
    <3>1. Units(line, most) = <<line>> /\ Said(line) = << >>
      BY <1>2, <2>1, <2>3, <2>6, <2>8
    <3>2. Within(line, most)
      BY <3>1 DEF Within
    <3> QED
      BY <1>1, <1>2, <1>3, <3>1, <3>2
  <2>9. CASE pieces # << >>
    BY <2>1, <2>3, <2>5, <2>6, <2>7, <2>9
  <2> QED
    BY <2>8, <2>9
<1> QED
  BY <1>4, <1>5, <1>6

-----------------------------------------------------------------------------
(* Lines of a text.                                                         *)

Char == Unbroken \cup {Break}

(* The line that begins at a place, and the lines from there on.           *)
LineAt(s, i) == SubSeq(s, i, FirstAt(s, Break, i) - 1)
LinesFrom(s) ==
  CutFrom([i \in 1..(Len(s) + 1) |-> FirstAt(s, Break, i) + 1],
          [i \in 1..(Len(s) + 1) |-> <<LineAt(s, i)>>])

(* The first place is the only one with nothing of the kind before it.     *)
LEMMA FirstAtIs ==
  ASSUME NEW D, NEW s \in Seq(D), NEW c, NEW i \in 1..(Len(s) + 1), NEW e \in i..(Len(s) + 1),
         \A j \in i..(e - 1) : s[j] # c, e # Len(s) + 1 => s[e] = c
  PROVE  FirstAt(s, c, i) = e
<1> DEFINE f == FirstAt(s, c, i)
<1>0. Len(s) \in Nat
  OBVIOUS
<1>1. /\ f \in i..(Len(s) + 1) /\ \A j \in i..(f - 1) : s[j] # c
      /\ f # Len(s) + 1 => s[f] = c
  BY FirstAtFacts
<1> HIDE DEF f
<1>2. CASE f < e
  <2>1. f # Len(s) + 1 /\ f \in i..(e - 1)
    BY <1>0, <1>1, <1>2
  <2> QED
    BY <1>1, <2>1
<1>3. CASE e < f
  <2>1. e # Len(s) + 1 /\ e \in i..(f - 1)
    BY <1>0, <1>1, <1>3
  <2> QED
    BY <1>1, <2>1
<1>4. f = e
  BY <1>0, <1>1, <1>2, <1>3
<1> QED
  BY <1>4 DEF f

(* A text without breaks is a line.                                        *)
LEMMA UnbrokenIs ==
  ASSUME NEW s \in Seq(Char), \A i \in 1..Len(s) : s[i] # Break PROVE s \in Seq(Unbroken)
<1>1. \A i \in 1..Len(s) : s[i] \in Char
  BY ElementOfSeq
<1>2. \A i \in 1..Len(s) : s[i] \in Unbroken
  BY <1>1 DEF Char
<1>3. s = [i \in 1..Len(s) |-> s[i]] /\ Len(s) \in Nat
  OBVIOUS
<1> DEFINE n == Len(s)
<1> HIDE DEF n
<1>4. s \in [1..n -> Unbroken]
  BY <1>2, <1>3 DEF n
<1> QED
  BY <1>3, <1>4 DEF n

(* The lines from a place on are the one there, and those past its break.  *)
LEMMA LinesFromFacts ==
  ASSUME NEW s \in Seq(Char)
  PROVE  /\ Lines(s) = LinesFrom(s)[1]
         /\ \A i \in 1..(Len(s) + 1) :
              /\ LineAt(s, i) \in Seq(Unbroken) /\ LinesFrom(s)[i] \in Seq(Seq(Unbroken))
              /\ FirstAt(s, Break, i) # Len(s) + 1 =>
                   LinesFrom(s)[i] = <<LineAt(s, i)>> \o LinesFrom(s)[FirstAt(s, Break, i) + 1]
              /\ FirstAt(s, Break, i) = Len(s) + 1 => LinesFrom(s)[i] = <<LineAt(s, i)>>
<1> DEFINE n == Len(s) + 1
           next == [i \in 1..n |-> FirstAt(s, Break, i) + 1]
           pieces == [i \in 1..n |-> <<LineAt(s, i)>>]
<1>0. n \in Nat \ {0} /\ Len(s) \in Nat /\ Len(s) = n - 1
  OBVIOUS
<1>1. \A i \in 1..n : /\ FirstAt(s, Break, i) \in i..n
                      /\ \A j \in i..(FirstAt(s, Break, i) - 1) : j \in 1..Len(s) /\ s[j] # Break
  BY FirstAtFacts
<1>2. \A i \in 1..n : next[i] = FirstAt(s, Break, i) + 1 /\ pieces[i] = <<LineAt(s, i)>>
  OBVIOUS
<1>3. LinesFrom(s) = CutFrom(next, pieces)
  BY DEF LinesFrom
<1>4. Lines(s) = LinesFrom(s)[1]
  <2> DEFINE end == [i \in 1..(Len(s) + 1) |-> FirstAt(s, Break, i)]
  <2>1. [i \in DOMAIN end |-> end[i] + 1] = next
    OBVIOUS
  <2>2. [i \in DOMAIN end |-> <<SubSeq(s, i, end[i] - 1)>>] = pieces
    BY DEF LineAt
  <2>3. Lines(s) = CutFrom([i \in DOMAIN end |-> end[i] + 1],
                           [i \in DOMAIN end |-> <<SubSeq(s, i, end[i] - 1)>>])[1]
    BY DEF Lines
  <2> HIDE DEF end, next, pieces
  <2> QED
    BY <1>3, <2>1, <2>2, <2>3
<1>5. GoesOn(next, n)
  <2>1. \A i \in 1..n : next[i] \in Nat /\ next[i] > i
    <3> SUFFICES ASSUME NEW i \in 1..n PROVE next[i] \in Nat /\ next[i] > i
      OBVIOUS
    <3> DEFINE e == FirstAt(s, Break, i)
    <3>1. e \in i..n /\ next[i] = e + 1
      BY <1>1, <1>2
    <3> HIDE DEF next, e
    <3> QED
      BY <1>0, <3>1
  <2>2. next \in [1..n -> Nat]
    BY <2>1
  <2> HIDE DEF next
  <2> QED
    BY <2>1, <2>2 DEF GoesOn
<1> HIDE DEF next, pieces
<1>6. \A i \in 1..n : LineAt(s, i) \in Seq(Unbroken)
  <2> SUFFICES ASSUME NEW i \in 1..n PROVE LineAt(s, i) \in Seq(Unbroken)
    OBVIOUS
  <2> DEFINE e == FirstAt(s, Break, i)
             l == LineAt(s, i)
  <2>1. e \in i..n /\ \A j \in i..(e - 1) : s[j] # Break
    BY <1>1
  <2>2. l = SubSeq(s, i, e - 1)
    BY DEF LineAt
  <2> HIDE DEF e, l
  <2>3. i \in 1..(Len(s) + 1) /\ e - 1 \in 0..Len(s)
    BY <1>0, <2>1
  <2>4. /\ l \in Seq(Char)
        /\ Len(l) = IF i <= e - 1 THEN (e - 1) - i + 1 ELSE 0
        /\ \A k \in 1..Len(l) : l[k] = s[i + k - 1]
    BY <2>2, <2>3, Part
  <2>5. \A k \in 1..Len(l) : i + k - 1 \in i..(e - 1)
    <3>1. Len(l) = e - i
      BY <1>0, <2>1, <2>4
    <3> QED
      BY <1>0, <2>1, <3>1
  <2>6. \A k \in 1..Len(l) : l[k] # Break
    BY <2>1, <2>4, <2>5
  <2>7. l \in Seq(Unbroken)
    BY <2>4, <2>6, UnbrokenIs
  <2> QED
    BY <2>7 DEF l
<1>7. \A i \in 1..n : pieces[i] \in Seq(Seq(Unbroken))
  <2> SUFFICES ASSUME NEW i \in 1..n PROVE pieces[i] \in Seq(Seq(Unbroken))
    OBVIOUS
  <2>1. \A x \in Seq(Unbroken) : <<x>> \in Seq(Seq(Unbroken))
    OBVIOUS
  <2>2. LineAt(s, i) \in Seq(Unbroken) /\ pieces[i] = <<LineAt(s, i)>>
    BY <1>2, <1>6
  <2> QED
    BY <2>1, <2>2
<1> DEFINE L == Seq(Unbroken)
<1> HIDE DEF L, n
<1>8. /\ CutsOn(CutFrom(next, pieces), next, pieces, n)
      /\ \A i \in 1..n : CutFrom(next, pieces)[i] \in Seq(L)
  <2>1. n \in Nat /\ \A i \in 1..n : pieces[i] \in Seq(L)
    BY <1>0, <1>7 DEF L
  <2> QED
    BY <1>5, <2>1, CutFromAt
<1> DEFINE from == LinesFrom(s)
<1>9. \A i \in 1..n : from[i] = IF next[i] \in 1..n THEN pieces[i] \o from[next[i]] ELSE pieces[i]
  BY <1>3, <1>8 DEF CutsOn
<1>10. \A i \in 1..n : from[i] \in Seq(L)
  BY <1>3, <1>8
<1> HIDE DEF from
<1>11. ASSUME NEW i \in 1..n, FirstAt(s, Break, i) # n
       PROVE  from[i] = <<LineAt(s, i)>> \o from[FirstAt(s, Break, i) + 1]
  <2>1. next[i] \in 1..n /\ next[i] = FirstAt(s, Break, i) + 1
    <3> DEFINE e == FirstAt(s, Break, i)
    <3>1. e \in i..n /\ next[i] = e + 1 /\ e # n
      BY <1>1, <1>2, <1>11
    <3> HIDE DEF e
    <3>2. e + 1 \in 1..n
      BY <1>0, <3>1
    <3> QED
      BY <3>1, <3>2 DEF e
  <2> QED
    BY <1>2, <1>9, <2>1
<1>12. ASSUME NEW i \in 1..n, FirstAt(s, Break, i) = n PROVE from[i] = <<LineAt(s, i)>>
  <2>1. next[i] \notin 1..n
    BY <1>0, <1>2, <1>12
  <2> QED
    BY <1>2, <1>9, <2>1
<1> QED
  BY <1>4, <1>6, <1>10, <1>11, <1>12 DEF n, L, from

(* The lines of a text are lines, and a line is its only one.              *)
LEMMA LinesFacts ==
  /\ \A s \in Seq(Char) : Lines(s) \in Seq(Seq(Unbroken))
  /\ \A u \in Seq(Unbroken) : u \in Seq(Char) /\ Lines(u) = <<u>>
<1>1. ASSUME NEW s \in Seq(Char) PROVE Lines(s) \in Seq(Seq(Unbroken))
  <2>1. 1 \in 1..(Len(s) + 1)
    OBVIOUS
  <2>2. Lines(s) = LinesFrom(s)[1]
    BY LinesFromFacts
  <2>3. LinesFrom(s)[1] \in Seq(Seq(Unbroken))
    BY <2>1, LinesFromFacts
  <2> QED
    BY <2>2, <2>3
<1>2. ASSUME NEW u \in Seq(Unbroken) PROVE u \in Seq(Char) /\ Lines(u) = <<u>>
  <2>1. u \in Seq(Char)
    <3>1. Unbroken \subseteq Char
      BY DEF Char
    <3> QED
      BY <3>1, SeqMonotonic
  <2>2. \A j \in 1..Len(u) : u[j] # Break
    <3>1. \A j \in 1..Len(u) : u[j] \in Unbroken
      BY ElementOfSeq
    <3> QED
      BY <3>1, Characters
  <2>3. Len(u) \in Nat
    OBVIOUS
  <2>4. FirstAt(u, Break, 1) = Len(u) + 1
    <3>1. 1 \in 1..(Len(u) + 1) /\ Len(u) + 1 \in 1..(Len(u) + 1)
      BY <2>3
    <3>2. \A j \in 1..(Len(u) + 1 - 1) : u[j] # Break
      BY <2>2, <2>3
    <3> DEFINE e == Len(u) + 1
    <3>3. e \in 1..(Len(u) + 1) /\ \A j \in 1..(e - 1) : u[j] # Break
      BY <3>1, <3>2
    <3>4. e # Len(u) + 1 => u[e] = Break
      OBVIOUS
    <3> HIDE DEF e
    <3>5. FirstAt(u, Break, 1) = e
      BY <3>1, <3>3, <3>4, FirstAtIs
    <3> QED
      BY <3>5 DEF e
  <2>5. LineAt(u, 1) = u
    <3>1. Len(u) + 1 - 1 = Len(u) /\ SubSeq(u, 1, Len(u)) = u
      BY <2>3, SubSeqFull
    <3> QED
      BY <2>4, <3>1 DEF LineAt
  <2>6. 1 \in 1..(Len(u) + 1)
    BY <2>3
  <2>7. LinesFrom(u)[1] = <<LineAt(u, 1)>>
    BY <2>1, <2>4, <2>6, LinesFromFacts
  <2>8. Lines(u) = LinesFrom(u)[1]
    BY <2>1, LinesFromFacts
  <2> QED
    BY <2>1, <2>5, <2>7, <2>8
<1> QED
  BY <1>1, <1>2

(* Text, a break and a line: the lines of the text, and that line.         *)
LEMMA LinesAppend ==
  ASSUME NEW c \in Seq(Char), NEW u \in Seq(Unbroken)
  PROVE  /\ c \o <<Break>> \o u \in Seq(Char)
         /\ Lines(c \o <<Break>> \o u) = Lines(c) \o <<u>>
<1> DEFINE t == c \o <<Break>> \o u
           m == Len(c) + 1
           n == Len(t) + 1
           L == Seq(Unbroken)
           ft == LinesFrom(t)
           fc == LinesFrom(c)
<1>0. Len(c) \in Nat /\ Len(u) \in Nat
  OBVIOUS
<1>1. u \in Seq(Char) /\ \A j \in 1..Len(u) : u[j] # Break
  <2>1. u \in Seq(Char)
    BY LinesFacts
  <2>2. \A j \in 1..Len(u) : u[j] \in Unbroken
    BY ElementOfSeq
  <2> QED
    BY <2>1, <2>2, Characters
<1>2. /\ t \in Seq(Char) /\ Len(t) = Len(c) + 1 + Len(u)
      /\ \A i \in 1..Len(c) : t[i] = c[i]
      /\ t[Len(c) + 1] = Break
      /\ \A i \in 1..Len(u) : t[Len(c) + 1 + i] = u[i]
  <2> DEFINE one == <<Break>>
             cb == c \o one
  <2>1. one \in Seq(Char) /\ Len(one) = 1 /\ one[1] = Break
    <3>1. Break \in Char
      BY DEF Char
    <3> QED
      BY <3>1
  <2> HIDE DEF one
  <2>2. /\ cb \in Seq(Char) /\ Len(cb) = Len(c) + 1
        /\ \A i \in 1..(Len(c) + 1) : cb[i] = IF i <= Len(c) THEN c[i] ELSE one[i - Len(c)]
    <3>1. c \o one \in Seq(Char) /\ Len(c \o one) = Len(c) + Len(one)
      BY <2>1, ConcatProperties
    <3>2. \A i \in 1..(Len(c) + Len(one)) :
              (c \o one)[i] = IF i <= Len(c) THEN c[i] ELSE one[i - Len(c)]
      BY <2>1, ConcatProperties
    <3> QED
      BY <2>1, <3>1, <3>2
  <2>3. \A i \in 1..Len(c) : cb[i] = c[i]
    BY <1>0, <2>2
  <2>4. cb[Len(c) + 1] = Break
    <3>1. Len(c) + 1 \in 1..(Len(c) + 1) /\ ~(Len(c) + 1 <= Len(c)) /\ Len(c) + 1 - Len(c) = 1
      BY <1>0
    <3> QED
      BY <2>1, <2>2, <3>1
  <2> HIDE DEF cb
  <2>5. /\ cb \o u \in Seq(Char) /\ Len(cb \o u) = Len(cb) + Len(u)
        /\ \A i \in 1..(Len(cb) + Len(u)) :
               (cb \o u)[i] = IF i <= Len(cb) THEN cb[i] ELSE u[i - Len(cb)]
    <3>1. cb \in Seq(Char) /\ u \in Seq(Char)
      BY <1>1, <2>2
    <3>2. cb \o u \in Seq(Char) /\ Len(cb \o u) = Len(cb) + Len(u)
      BY <3>1, ConcatProperties
    <3>3. \A i \in 1..(Len(cb) + Len(u)) :
              (cb \o u)[i] = IF i <= Len(cb) THEN cb[i] ELSE u[i - Len(cb)]
      BY <3>1, ConcatProperties
    <3> QED
      BY <3>2, <3>3
  <2>6. t = cb \o u
    BY DEF cb, one
  <2> HIDE DEF t
  <2>7. \A i \in 1..(Len(c) + 1) : t[i] = cb[i]
    <3>1. \A i \in 1..(Len(c) + 1) : i \in 1..(Len(cb) + Len(u)) /\ i <= Len(cb)
      BY <1>0, <2>2
    <3> QED
      BY <2>5, <2>6, <3>1
  <2>8. \A i \in 1..Len(u) : t[Len(c) + 1 + i] = u[i]
    <3> SUFFICES ASSUME NEW i \in 1..Len(u) PROVE t[Len(c) + 1 + i] = u[i]
      OBVIOUS
    <3> DEFINE k == Len(c) + 1 + i
    <3>1. k \in 1..(Len(cb) + Len(u)) /\ ~(k <= Len(cb)) /\ k - Len(cb) = i
      BY <1>0, <2>2
    <3> HIDE DEF k
    <3>2. t[k] = u[i]
      BY <2>5, <2>6, <3>1
    <3> QED
      BY <3>2 DEF k
  <2>9. t[Len(c) + 1] = Break
    <3>1. Len(c) + 1 \in 1..(Len(c) + 1)
      BY <1>0
    <3> QED
      BY <2>4, <2>7, <3>1
  <2>10. \A i \in 1..Len(c) : t[i] = c[i]
    <3>1. \A i \in 1..Len(c) : i \in 1..(Len(c) + 1)
      BY <1>0
    <3> QED
      BY <2>3, <2>7, <3>1
  <2> QED
    BY <2>2, <2>5, <2>6, <2>8, <2>9, <2>10
<1> HIDE DEF t
<1>3. m \in 1..n /\ n = m + Len(u) + 1 /\ m + 1 \in 1..n /\ m \in Nat
  BY <1>0, <1>2
<1>4. Lines(t) = ft[1] /\ Lines(c) = fc[1]
  BY <1>2, LinesFromFacts
<1>5. ft[m + 1] = <<u>>
  <2>1. \A j \in (m + 1)..(n - 1) : t[j] # Break
    <3> SUFFICES ASSUME NEW j \in (m + 1)..(n - 1) PROVE t[j] # Break
      OBVIOUS
    <3>1. j - m \in 1..Len(u) /\ Len(c) + 1 + (j - m) = j
      BY <1>0, <1>3
    <3>2. t[Len(c) + 1 + (j - m)] = u[j - m]
      BY <1>2, <3>1
    <3> QED
      BY <1>1, <3>1, <3>2
  <2>2. FirstAt(t, Break, m + 1) = n
    <3>1. n \in (m + 1)..(Len(t) + 1) /\ m + 1 \in 1..(Len(t) + 1)
      BY <1>3
    <3>2. n # Len(t) + 1 => t[n] = Break
      OBVIOUS
    <3> DEFINE k == m + 1
               e == n
    <3>3. t \in Seq(Char) /\ k \in 1..(Len(t) + 1) /\ e \in k..(Len(t) + 1)
      BY <1>2, <3>1
    <3>4. \A j \in k..(e - 1) : t[j] # Break
      BY <2>1
    <3>5. e # Len(t) + 1 => t[e] = Break
      BY <3>2
    <3> HIDE DEF k, e
    <3>6. FirstAt(t, Break, k) = e
      BY <3>3, <3>4, <3>5, FirstAtIs
    <3> QED
      BY <3>6 DEF k, e
  <2>3. LineAt(t, m + 1) = u
    <3> DEFINE l == SubSeq(t, m + 1, n - 1)
    <3>1. m + 1 \in 1..(Len(t) + 1) /\ n - 1 \in 0..Len(t)
      BY <1>0, <1>2, <1>3
    <3>2. /\ l \in Seq(Char)
          /\ Len(l) = IF m + 1 <= n - 1 THEN (n - 1) - (m + 1) + 1 ELSE 0
          /\ \A k \in 1..Len(l) : l[k] = t[(m + 1) + k - 1]
      BY <1>2, <3>1, Part
    <3> HIDE DEF l
    <3>3. Len(l) = Len(u)
      BY <1>0, <1>3, <3>2
    <3>4. \A k \in 1..Len(u) : l[k] = u[k]
      <4> SUFFICES ASSUME NEW k \in 1..Len(u) PROVE l[k] = u[k]
        OBVIOUS
      <4>1. (m + 1) + k - 1 = Len(c) + 1 + k
        BY <1>0
      <4> QED
        BY <1>2, <3>2, <3>3, <4>1
    <3>5. l = u
      BY <1>1, <3>2, <3>3, <3>4, SeqEqual
    <3> QED
      BY <2>2, <3>5 DEF LineAt, l
  <2>4. ft[m + 1] = <<LineAt(t, m + 1)>>
    <3>1. m + 1 \in 1..(Len(t) + 1) /\ FirstAt(t, Break, m + 1) = Len(t) + 1
      BY <1>3, <2>2
    <3> HIDE DEF m, n
    <3> QED
      BY <1>2, <3>1, LinesFromFacts
  <2> QED
    BY <2>3, <2>4
<1> DEFINE Ahead == {i \in 1..m : ft[i] = fc[i] \o <<u>>}
<1>6. ASSUME NEW i \in 1..m, \A j \in (i + 1)..m : j \in Ahead PROVE i \in Ahead
  <2> DEFINE e == FirstAt(c, Break, i)
             p == LineAt(c, i)
  <2>1. /\ i \in 1..(Len(c) + 1) /\ e \in i..m
             /\ \A j \in i..(e - 1) : j \in 1..Len(c) /\ c[j] # Break
        /\ e # m => c[e] = Break
    BY FirstAtFacts
  <2>2. p = SubSeq(c, i, e - 1)
    BY DEF LineAt
  <2>3. p \in L /\ fc[i] \in Seq(L)
    BY <2>1, LinesFromFacts
  <2>4. e # m => fc[i] = <<p>> \o fc[e + 1]
    BY <2>1, LinesFromFacts
  <2>5. e = m => fc[i] = <<p>>
    BY <2>1, LinesFromFacts
  <2> HIDE DEF e, p
  <2>6. FirstAt(t, Break, i) = e
    <3>1. i \in 1..(Len(t) + 1) /\ e \in i..(Len(t) + 1)
      BY <1>0, <1>2, <2>1
    <3>2. \A j \in i..(e - 1) : t[j] # Break
      BY <1>2, <2>1
    <3>3. t[e] = Break
      <4>1. CASE e = m
        BY <1>2, <4>1
      <4>2. CASE e # m
        <5>1. e \in 1..Len(c)
          BY <1>0, <2>1, <4>2
        <5> QED
          BY <1>2, <2>1, <4>2, <5>1
      <4> QED
        BY <4>1, <4>2
    <3>4. t \in Seq(Char) /\ (e # Len(t) + 1 => t[e] = Break)
      BY <1>2, <3>3
    <3> QED
      BY <3>1, <3>2, <3>4, FirstAtIs
  <2>7. LineAt(t, i) = p
    <3> DEFINE q == SubSeq(t, i, e - 1)
    <3>1. i \in 1..(Len(t) + 1) /\ e - 1 \in 0..Len(t) /\ e - 1 \in 0..Len(c)
      BY <1>0, <1>2, <2>1
    <3>2. /\ q \in Seq(Char)
          /\ Len(q) = IF i <= e - 1 THEN (e - 1) - i + 1 ELSE 0
          /\ \A k \in 1..Len(q) : q[k] = t[i + k - 1]
      BY <1>2, <3>1, Part
    <3>3. /\ p \in Seq(Char)
          /\ Len(p) = IF i <= e - 1 THEN (e - 1) - i + 1 ELSE 0
          /\ \A k \in 1..Len(p) : p[k] = c[i + k - 1]
      BY <2>1, <2>2, <3>1, Part
    <3> HIDE DEF q
    <3>4. Len(q) = e - i /\ Len(p) = e - i
      BY <1>0, <2>1, <3>2, <3>3
    <3>5. \A k \in 1..Len(q) : q[k] = p[k]
      <4> SUFFICES ASSUME NEW k \in 1..Len(q) PROVE q[k] = p[k]
        OBVIOUS
      <4>1. i + k - 1 \in i..(e - 1)
        BY <2>1, <3>4
      <4>2. i + k - 1 \in 1..Len(c)
        BY <2>1, <4>1
      <4> QED
        BY <1>2, <3>2, <3>3, <3>4, <4>2
    <3>6. q = p
      BY <3>2, <3>3, <3>4, <3>5, SeqEqual
    <3> QED
      BY <2>6, <3>6 DEF LineAt, q
  <2>8. ft[i] = <<p>> \o ft[e + 1]
    <3>1. i \in 1..(Len(t) + 1) /\ e # Len(t) + 1
      BY <1>0, <1>2, <2>1
    <3>2. ft[i] = <<LineAt(t, i)>> \o ft[FirstAt(t, Break, i) + 1]
      BY <1>2, <2>6, <3>1, LinesFromFacts
    <3> QED
      BY <2>6, <2>7, <3>2
  <2>9. CASE e = m
    BY <1>5, <2>5, <2>8, <2>9
  <2>10. CASE e # m
    <3>1. e + 1 \in (i + 1)..m /\ e + 1 \in 1..(Len(c) + 1)
      BY <1>0, <2>1, <2>10
    <3>2. ft[e + 1] = fc[e + 1] \o <<u>>
      BY <1>6, <3>1
    <3>3. fc[e + 1] \in Seq(L)
      BY <3>1, LinesFromFacts
    <3>4. <<p>> \in Seq(L) /\ <<u>> \in Seq(L)
      BY <2>3
    <3> DEFINE one == <<p>>
               rest == fc[e + 1]
               last == <<u>>
    <3>6. one \in Seq(L) /\ rest \in Seq(L) /\ last \in Seq(L)
      BY <3>3, <3>4
    <3> HIDE DEF L, one, rest, last
    <3>7. (one \o rest) \o last = one \o (rest \o last)
      BY <3>6, Regroup
    <3>5. (<<p>> \o fc[e + 1]) \o <<u>> = <<p>> \o (fc[e + 1] \o <<u>>)
      BY <3>7 DEF one, rest, last
    <3> QED
      BY <2>4, <2>8, <2>10, <3>2, <3>5
  <2> QED
    BY <2>9, <2>10
<1>7. 1 \in Ahead
  <2>1. 1 \in 1..m
    BY <1>0
  <2> HIDE DEF Ahead, m
  <2>2. \A i \in 1..m : i \in Ahead
    BY <1>3, <1>6, CountDown
  <2> QED
    BY <2>1, <2>2
<1> QED
  BY <1>2, <1>4, <1>7 DEF t

(* Each line of a text names its speaker at its beginning, or not at all.  *)
LEMMA TextLines ==
  ASSUME NEW s \in Seq(Char), \A i \in 2..Len(s) : s[i] = Mark => s[i - 1] = Break
  PROVE  \A k \in 1..Len(Lines(s)) : LineOK(Lines(s)[k])
<1> DEFINE n == Len(s) + 1
           from == LinesFrom(s)
           Begins(i) == i = 1 \/ s[i - 1] = Break
           Fine == {i \in 1..n : Begins(i) => \A k \in 1..Len(from[i]) : LineOK(from[i][k])}
<1>0. Len(s) \in Nat /\ n \in Nat /\ 1 \in 1..n
  OBVIOUS
<1>1. ASSUME NEW i \in 1..n, \A j \in (i + 1)..n : j \in Fine PROVE i \in Fine
  <2> SUFFICES ASSUME Begins(i) PROVE \A k \in 1..Len(from[i]) : LineOK(from[i][k])
    OBVIOUS
  <2> DEFINE e == FirstAt(s, Break, i)
             p == LineAt(s, i)
  <2>1. /\ e \in i..n /\ \A j \in i..(e - 1) : j \in 1..Len(s) /\ s[j] # Break
        /\ e # n => s[e] = Break
    BY FirstAtFacts
  <2>2. p = SubSeq(s, i, e - 1)
    BY DEF LineAt
  <2>3. p \in Seq(Unbroken) /\ from[i] \in Seq(Seq(Unbroken))
    BY LinesFromFacts
  <2>4. e # n => from[i] = <<p>> \o from[e + 1]
    BY LinesFromFacts
  <2>5. e = n => from[i] = <<p>>
    BY LinesFromFacts
  <2> HIDE DEF e, p, from
  <2>6. LineOK(p)
    <3>1. i \in 1..(Len(s) + 1) /\ e - 1 \in 0..Len(s)
      BY <1>0, <2>1
    <3>2. /\ Len(p) = IF i <= e - 1 THEN (e - 1) - i + 1 ELSE 0
          /\ \A k \in 1..Len(p) : p[k] = s[i + k - 1]
      BY <2>2, <3>1, Part
    <3>3. Len(p) = e - i
      BY <1>0, <2>1, <3>2
    <3>4. ASSUME NEW k \in 2..Len(p) PROVE p[k] # Mark
      <4>1. i + k - 1 \in 2..Len(s) /\ (i + k - 1) - 1 \in i..(e - 1) /\ k \in 1..Len(p)
        BY <1>0, <2>1, <3>3
      <4>2. s[(i + k - 1) - 1] # Break
        BY <2>1, <4>1
      <4>3. s[i + k - 1] # Mark
        BY <4>1, <4>2
      <4> QED
        BY <3>2, <4>1, <4>3
    <3> QED
      BY <2>3, <3>4 DEF LineOK
  <2>7. CASE e = n
    <3>1. \A k \in 1..Len(<<p>>) : <<p>>[k] = p
      OBVIOUS
    <3> QED
      BY <2>5, <2>6, <2>7, <3>1
  <2>8. CASE e # n
    <3> DEFINE rest == from[e + 1]
    <3>1. e + 1 \in (i + 1)..n /\ e + 1 \in 1..n
      BY <1>0, <2>1, <2>8
    <3>2. Begins(e + 1)
      BY <2>1, <2>8
    <3>3. \A k \in 1..Len(rest) : LineOK(rest[k])
      BY <1>1, <3>1, <3>2 DEF from
    <3>4. rest \in Seq(Seq(Unbroken))
      BY <3>1, LinesFromFacts DEF from
    <3>5. from[i] = <<p>> \o rest
      BY <2>4, <2>8
    <3> HIDE DEF rest
    <3>6. /\ Len(<<p>> \o rest) = Len(rest) + 1 /\ Len(rest) \in Nat
          /\ (<<p>> \o rest)[1] = p
          /\ \A k \in 1..Len(rest) : (<<p>> \o rest)[k + 1] = rest[k]
      BY <2>3, <3>4
    <3>7. ASSUME NEW k \in 1..Len(<<p>> \o rest) PROVE LineOK((<<p>> \o rest)[k])
      <4>1. CASE k = 1
        BY <2>6, <3>6, <4>1
      <4>2. CASE k # 1
        <5>1. k - 1 \in 1..Len(rest) /\ k = (k - 1) + 1
          BY <3>6, <4>2
        <5> QED
          BY <3>3, <3>6, <5>1
      <4> QED
        BY <4>1, <4>2
    <3> QED
      BY <3>5, <3>7
  <2> QED
    BY <2>7, <2>8
<1>2. 1 \in Fine
  <2> HIDE DEF Fine, n
  <2>1. \A i \in 1..n : i \in Fine
    BY <1>0, <1>1, CountDown
  <2> QED
    BY <1>0, <2>1
<1>3. Lines(s) = from[1]
  BY LinesFromFacts
<1> QED
  BY <1>2, <1>3

-----------------------------------------------------------------------------
(* Chunks of a text.                                                        *)

(* Units that keep to the budget, and chunks that do.                      *)
Fitting(C, most) == {u \in Seq(C) : Within(u, most)}

(* The lines of chunks, one chunk after another.                           *)
LEMMA LinesOfFacts ==
  /\ \A a \in Seq(Seq(Char)) : LinesOf(a) \in Seq(Seq(Unbroken))
  /\ \A a, b \in Seq(Seq(Char)) : LinesOf(a \o b) = LinesOf(a) \o LinesOf(b)
  /\ \A c \in Seq(Char) : LinesOf(<<c>>) = Lines(c)
  /\ LinesOf(<< >>) = << >>
<1> DEFINE f == [c \in Seq(Char) |-> Lines(c)]
           C == Seq(Char)
           L == Seq(Unbroken)
<1>1. f \in [C -> Seq(L)] /\ \A c \in C : f[c] = Lines(c)
  BY LinesFacts
<1> HIDE DEF f, C, L
<1>2. Maps(f, C, Seq(L))
  BY <1>1 DEF Maps
<1>3. /\ \A a \in Seq(C) : FlatMap(f, a) \in Seq(L)
      /\ FlatMap(f, << >>) = << >>
      /\ \A x \in C : FlatMap(f, <<x>>) = f[x]
  BY <1>2, FlatMapFew
<1>4. \A a, b \in Seq(C) : FlatMap(f, a \o b) = FlatMap(f, a) \o FlatMap(f, b)
  BY <1>2, FlatMapConcat
<1>5. \A a \in Seq(C) : LinesOf(a) = FlatMap(f, a)
  <2> SUFFICES ASSUME NEW a \in Seq(C) PROVE LinesOf(a) = FlatMap(f, a)
    OBVIOUS
  <2>1. \A k \in 1..Len(a) : a[k] \in C
    BY ElementOfSeq
  <2>2. \A k \in 1..Len(a) : f[a[k]] = Lines(a[k])
    BY <1>1, <2>1
  <2>3. [k \in 1..Len(a) |-> f[a[k]]] = [k \in 1..Len(a) |-> Lines(a[k])]
    BY <2>2
  <2> QED
    BY <2>3 DEF LinesOf, FlatMap, Each
<1>6. /\ \A a, b \in Seq(C) : a \o b \in Seq(C)
      /\ << >> \in Seq(C) /\ \A x \in C : <<x>> \in Seq(C)
  OBVIOUS
<1>7. \A a, b \in Seq(C) : LinesOf(a \o b) = LinesOf(a) \o LinesOf(b)
  BY <1>4, <1>5, <1>6
<1>8. \A c \in C : LinesOf(<<c>>) = Lines(c)
  BY <1>1, <1>3, <1>5, <1>6
<1>9. LinesOf(<< >>) = << >> /\ \A a \in Seq(C) : LinesOf(a) \in Seq(L)
  BY <1>3, <1>5, <1>6
<1> QED
  BY <1>7, <1>8, <1>9 DEF C, L

(* One unit more is one line more, and a chunk keeps to the budget         *)
(* (AddUnit).                                                              *)
LEMMA AddUnitFacts ==
  ASSUME NEW most \in Nat \ {0}, NEW joined \in Seq(Fitting(Char, most)),
         NEW unit \in Fitting(Unbroken, most)
  PROVE  /\ AddUnit(most, joined, unit) \in Seq(Fitting(Char, most))
         /\ LinesOf(AddUnit(most, joined, unit)) = LinesOf(joined) \o <<unit>>
<1> DEFINE W == Fitting(Char, most)
           C == Seq(Char)
           next == AddUnit(most, joined, unit)
<1>1. W \subseteq C /\ \A u \in C : Within(u, most) => u \in W
  BY DEF Fitting
<1>2. unit \in Seq(Unbroken) /\ unit \in C /\ Lines(unit) = <<unit>> /\ unit \in W
  <2>1. unit \in Seq(Unbroken) /\ Within(unit, most)
    BY DEF Fitting
  <2>2. unit \in C /\ Lines(unit) = <<unit>>
    BY <2>1, LinesFacts
  <2> QED
    BY <1>1, <2>1, <2>2
<1> HIDE DEF W
<1>3. \A a \in Seq(W) : a \in Seq(C)
  BY <1>1, SeqMonotonic
<1>4. joined \in Seq(W) /\ joined \in Seq(C)
  BY <1>3 DEF W
<1>5. /\ \A a, b \in Seq(C) : LinesOf(a \o b) = LinesOf(a) \o LinesOf(b)
      /\ \A c \in C : LinesOf(<<c>>) = Lines(c)
      /\ \A a \in Seq(C) : LinesOf(a) \in Seq(Seq(Unbroken))
  BY LinesOfFacts
<1>6. \A x \in W : <<x>> \in Seq(W)
  OBVIOUS
<1> HIDE DEF C
<1>7. CASE joined # << >> /\ Len(Last(joined)) + 1 + Len(unit) <= most
  <2> DEFINE last == Last(joined)
             front == Front(joined)
             longer == last \o <<Break>> \o unit
  <2>1. last \in W /\ front \in Seq(W) /\ joined = front \o <<last>>
    <3>1. Len(joined) \in Nat \ {0} /\ Len(joined) \in 1..Len(joined)
      <4>1. Len(joined) \in Nat \ {0}
        BY <1>4, <1>7, EmptySeq
      <4> QED
        BY <4>1
    <3> DEFINE n == Len(joined)
    <3>2. joined[n] \in W
      BY <1>4, <3>1, ElementOfSeq
    <3>3. /\ SubSeq(joined, 1, n - 1) \in Seq(W)
          /\ Len(SubSeq(joined, 1, n - 1)) = IF 1 <= n - 1 THEN (n - 1) - 1 + 1 ELSE 0
          /\ \A k \in 1..Len(SubSeq(joined, 1, n - 1)) :
                 SubSeq(joined, 1, n - 1)[k] = joined[1 + k - 1]
      <4>1. 1 \in 1..(Len(joined) + 1) /\ n - 1 \in 0..Len(joined)
        BY <3>1
      <4> QED
        BY <1>4, <4>1, Part
    <3>4. last = joined[n] /\ front = SubSeq(joined, 1, n - 1)
      BY DEF Last, Front
    <3> HIDE DEF last, front
    <3>5. last \in W /\ front \in Seq(W)
      BY <3>2, <3>3, <3>4
    <3>6. Len(front) = n - 1 /\ \A k \in 1..Len(front) : front[k] = joined[k]
      <4>1. /\ Len(front) = IF 1 <= n - 1 THEN (n - 1) - 1 + 1 ELSE 0
            /\ \A k \in 1..Len(front) : front[k] = joined[1 + k - 1]
        BY <3>3, <3>4
      <4>2. n \in Nat \ {0}
        BY <3>1
      <4> HIDE DEF n
      <4>3. Len(front) = n - 1
        BY <4>1, <4>2
      <4>4. \A k \in 1..Len(front) : 1 + k - 1 = k
        OBVIOUS
      <4> QED
        BY <4>1, <4>3, <4>4
    <3>7. <<last>> \in Seq(W) /\ Len(<<last>>) = 1 /\ <<last>>[1] = last
      BY <3>5
    <3> DEFINE one == <<last>>
    <3> HIDE DEF one
    <3>8. one \in Seq(W) /\ Len(one) = 1 /\ one[1] = last
      BY <3>7 DEF one
    <3>9. front \o one \in Seq(W) /\ Len(front \o one) = Len(front) + Len(one)
      BY <3>5, <3>8, ConcatProperties
    <3>10. \A i \in 1..(Len(front) + Len(one)) :
             (front \o one)[i] = IF i <= Len(front) THEN front[i] ELSE one[i - Len(front)]
      BY <3>5, <3>8, ConcatProperties
    <3> HIDE DEF n
    <3>11. \A i \in 1..Len(joined) : (front \o one)[i] = joined[i]
      <4> SUFFICES ASSUME NEW i \in 1..Len(joined) PROVE (front \o one)[i] = joined[i]
        OBVIOUS
      <4>1. n = Len(joined) /\ n \in Nat \ {0}
        BY <3>1 DEF n
      <4>2. i \in 1..(Len(front) + Len(one))
        BY <3>6, <3>8, <4>1
      <4>3. CASE i <= Len(front)
        BY <3>6, <3>10, <4>2, <4>3
      <4>4. CASE ~(i <= Len(front))
        <5>1. i = n /\ i - Len(front) = 1
          BY <3>6, <4>1, <4>4
        <5> QED
          BY <3>4, <3>8, <3>10, <4>2, <4>4, <5>1
      <4> QED
        BY <4>3, <4>4
    <3>12. Len(front \o one) = Len(joined)
      BY <3>1, <3>6, <3>8, <3>9 DEF n
    <3>13. front \o one = joined
      BY <1>4, <3>9, <3>11, <3>12, SeqEqual
    <3> QED
      BY <3>5, <3>13 DEF one
  <2>2. next = Append(front, longer)
    BY <1>7 DEF AddUnit
  <2>3. Len(last) + 1 + Len(unit) <= most
    BY <1>7
  <2> HIDE DEF last, front
  <2>4. last \in C /\ front \in Seq(C)
    BY <1>1, <1>3, <2>1
  <2>5. longer \in C /\ Lines(longer) = Lines(last) \o <<unit>>
    BY <1>2, <2>4, LinesAppend DEF C
  <2>6. Len(longer) <= most
    <3>1. last \in Seq(Char) /\ unit \in Seq(Char) /\ Break \in Char
      BY <1>2, <2>4 DEF C, Char
    <3>2. Len(longer) = Len(last) + 1 + Len(unit)
      BY <3>1
    <3> QED
      BY <2>3, <3>2
  <2> HIDE DEF longer
  <2>7. longer \in W
    <3>1. Within(longer, most)
      BY <2>6 DEF Within
    <3> QED
      BY <1>1, <2>5, <3>1
  <2>8. next = front \o <<longer>>
    <3>1. longer \in W /\ front \in Seq(W)
      BY <2>1, <2>7
    <3>2. Append(front, longer) = front \o <<longer>>
      BY <3>1, AppendIsConcat
    <3> QED
      BY <2>2, <3>2
  <2>9. next \in Seq(W)
    BY <1>6, <2>1, <2>7, <2>8
  <2>10. LinesOf(next) = LinesOf(front) \o (Lines(last) \o <<unit>>)
    <3>1. <<longer>> \in Seq(C)
      BY <2>5
    <3> QED
      BY <1>5, <2>4, <2>5, <2>8, <3>1
  <2>11. LinesOf(joined) = LinesOf(front) \o Lines(last)
    <3>1. <<last>> \in Seq(C)
      BY <2>4
    <3> QED
      BY <1>5, <2>1, <2>4, <3>1
  <2>12. LinesOf(front) \o (Lines(last) \o <<unit>>) = (LinesOf(front) \o Lines(last)) \o <<unit>>
    <3> DEFINE a == LinesOf(front)
               b == Lines(last)
               c == <<unit>>
    <3>1. a \in Seq(Seq(Unbroken)) /\ b \in Seq(Seq(Unbroken)) /\ c \in Seq(Seq(Unbroken))
      <4>1. a \in Seq(Seq(Unbroken))
        BY <1>5, <2>4
      <4>2. b \in Seq(Seq(Unbroken))
        BY <2>4, LinesFacts DEF C
      <4>3. c \in Seq(Seq(Unbroken))
        BY <1>2
      <4> QED
        BY <4>1, <4>2, <4>3
    <3> HIDE DEF a, b, c
    <3>2. (a \o b) \o c = a \o (b \o c)
      BY <3>1, Regroup, SMTT(30)
    <3> QED
      BY <3>2 DEF a, b, c
  <2> QED
    BY <2>9, <2>10, <2>11, <2>12 DEF W
<1>8. CASE ~(joined # << >> /\ Len(Last(joined)) + 1 + Len(unit) <= most)
  <2>1. next = Append(joined, unit)
    BY <1>8 DEF AddUnit
  <2>2. next = joined \o <<unit>>
    BY <1>2, <1>4, <2>1
  <2>3. next \in Seq(W)
    BY <1>2, <1>4, <1>6, <2>2
  <2>4. <<unit>> \in Seq(C)
    BY <1>2
  <2>5. LinesOf(next) = LinesOf(joined) \o <<unit>>
    BY <1>2, <1>4, <1>5, <2>2, <2>4
  <2> QED
    BY <2>3, <2>5 DEF W
<1> QED
  BY <1>7, <1>8

(* What is joined has the units for its lines (Joined).                    *)
LEMMA JoinedFacts ==
  ASSUME NEW most \in Nat \ {0}, NEW units \in Seq(Fitting(Unbroken, most))
  PROVE  /\ Joined(most, units)[Len(units)] \in Seq(Fitting(Char, most))
         /\ LinesOf(Joined(most, units)[Len(units)]) = units
<1> DEFINE n == Len(units)
           J == Joined(most, units)
           W == Fitting(Char, most)
           U == Fitting(Unbroken, most)
           First(i) == SubSeq(units, 1, i)
           Right == {i \in 0..n : J[i] \in Seq(W) /\ LinesOf(J[i]) = First(i)}
<1>0. n \in Nat /\ units \in Seq(U) /\ U \subseteq Seq(Unbroken)
  BY DEF Fitting
<1>1. units \in Seq(Seq(Unbroken))
  BY <1>0, SeqMonotonic
<1>2. J[0] = << >> /\ \A i \in 1..n : J[i] = AddUnit(most, J[i - 1], units[i])
  BY <1>1, JoinedIs
<1> HIDE DEF J, n
<1>3. 0 \in Right
  <2>1. LinesOf(<< >>) = << >>
    BY LinesOfFacts
  <2>2. << >> \in Seq(W)
    OBVIOUS
  <2>3. First(0) = << >>
    <3>1. 1 \in 1..(Len(units) + 1) /\ 0 \in 0..Len(units) /\ 1 > 0
      BY <1>0
    <3> QED
      BY <1>0, <3>1, Part
  <2>4. J[0] \in Seq(W) /\ LinesOf(J[0]) = First(0)
    BY <1>2, <2>1, <2>2, <2>3
  <2> HIDE DEF First
  <2> QED
    BY <1>0, <2>4
<1>4. ASSUME NEW i \in 0..(n - 1), i \in Right PROVE i + 1 \in Right
  <2>1. i + 1 \in 1..n /\ i + 1 \in 0..n /\ (i + 1) - 1 = i /\ i \in Nat
    BY <1>0
  <2>2. J[i + 1] = AddUnit(most, J[i], units[i + 1]) /\ units[i + 1] \in U
    <3>1. units[i + 1] \in U
      BY <1>0, <2>1, ElementOfSeq DEF n
    <3> QED
      BY <1>2, <2>1, <3>1
  <2>3. J[i] \in Seq(W) /\ LinesOf(J[i]) = First(i)
    BY <1>4
  <2>4. J[i + 1] \in Seq(W) /\ LinesOf(J[i + 1]) = First(i) \o <<units[i + 1]>>
    <3>1. J[i] \in Seq(Fitting(Char, most)) /\ units[i + 1] \in Fitting(Unbroken, most)
      BY <2>2, <2>3
    <3>2. /\ AddUnit(most, J[i], units[i + 1]) \in Seq(Fitting(Char, most))
          /\ LinesOf(AddUnit(most, J[i], units[i + 1])) = LinesOf(J[i]) \o <<units[i + 1]>>
      BY <3>1, AddUnitFacts
    <3> QED
      BY <2>2, <2>3, <3>2
  <2>5. First(i) \o <<units[i + 1]>> = First(i + 1)
    <3>1. 1 \in 1..(Len(units) + 1) /\ i \in (1 - 1)..Len(units) /\ i + 1 \in i..Len(units)
      BY <1>0, <2>1 DEF n
    <3>2. SubSeq(units, 1, i) \o SubSeq(units, i + 1, i + 1) = SubSeq(units, 1, i + 1)
      BY <1>0, <3>1, ConcatAdjacentSubSeq
    <3>3. SubSeq(units, i + 1, i + 1) = <<units[i + 1]>>
      <4> DEFINE k == i + 1
      <4>1. k \in 1..(Len(units) + 1) /\ k \in 0..Len(units) /\ k <= k /\ k \in Nat
        BY <2>1 DEF n
      <4>2. /\ SubSeq(units, k, k) \in Seq(U)
            /\ Len(SubSeq(units, k, k)) = IF k <= k THEN k - k + 1 ELSE 0
            /\ \A j \in 1..Len(SubSeq(units, k, k)) : SubSeq(units, k, k)[j] = units[k + j - 1]
        BY <1>0, <4>1, Part
      <4> DEFINE one == SubSeq(units, k, k)
      <4>3. units[k] \in U
        BY <2>2
      <4> HIDE DEF k, one
      <4>4. one \in Seq(U) /\ Len(one) = 1
        BY <4>1, <4>2 DEF one
      <4>5. one[1] = units[k]
        <5>1. k + 1 - 1 = k /\ 1 \in 1..Len(one)
          BY <4>1, <4>4
        <5> QED
          BY <4>2, <5>1 DEF one
      <4>6. <<units[k]>> \in Seq(U) /\ Len(<<units[k]>>) = 1 /\ <<units[k]>>[1] = units[k]
        BY <4>3
      <4>7. one = <<units[k]>>
        <5>1. \A j \in 1..Len(one) : one[j] = <<units[k]>>[j]
          BY <4>4, <4>5, <4>6
        <5> QED
          BY <4>4, <4>6, <5>1, SeqEqual
      <4> QED
        BY <4>7 DEF one, k
    <3> QED
      BY <3>2, <3>3
  <2>6. J[i + 1] \in Seq(W) /\ LinesOf(J[i + 1]) = First(i + 1)
    BY <2>4, <2>5
  <2> HIDE DEF First
  <2> QED
    BY <2>1, <2>6
<1>5. n \in Right
  <2> HIDE DEF Right
  <2>1. \A i \in 0..n : i \in Right
    BY <1>0, <1>3, <1>4, CountUp
  <2> QED
    BY <1>0, <2>1
<1>6. First(n) = units
  BY <1>0, SubSeqFull DEF n
<1>7. J[n] \in Seq(W) /\ LinesOf(J[n]) = units
  BY <1>5, <1>6
<1> QED
  BY <1>7 DEF J, n

(* What is cut says what the text does, and keeps to the budget (Split).   *)
LEMMA SplitSays ==
  ASSUME NEW s \in Seq(Char), \A i \in 2..Len(s) : s[i] = Mark => s[i - 1] = Break,
         NEW most \in Nat \ {0}
  PROVE  /\ SaidBy(LinesOf(Split(s, most))) = SaidBy(Lines(s))
         /\ \A i \in 1..Len(Split(s, most)) : Within(Split(s, most)[i], most)
<1> DEFINE lines == Lines(s)
           n == Len(lines)
           U == Fitting(Unbroken, most)
           L == Seq(Unbroken)
           T == Unbroken \X BOOLEAN
           us == [k \in 1..n |-> Units(lines[k], most)]
           units == FlattenSeq(us)
           h == [a \in Seq(L) |-> SaidBy(a)]
<1>1. lines \in Seq(L) /\ \A k \in 1..n : LineOK(lines[k])
  BY TextLines, LinesFacts
<1> HIDE DEF lines
<1>2. n \in Nat
  BY <1>1
<1>3. \A k \in 1..n : /\ Units(lines[k], most) \in Seq(L)
                      /\ SaidBy(Units(lines[k], most)) = Said(lines[k])
                      /\ \A j \in 1..Len(Units(lines[k], most)) :
                             Within(Units(lines[k], most)[j], most)
  BY <1>1, UnitsFacts
<1>4. U \subseteq L /\ \A u \in L : Within(u, most) => u \in U
  BY DEF Fitting
<1> HIDE DEF U, L
<1>5. ASSUME NEW k \in 1..n PROVE Units(lines[k], most) \in Seq(U)
  <2> DEFINE w == Units(lines[k], most)
             m == Len(w)
  <2>1. w \in Seq(L) /\ \A j \in 1..m : Within(w[j], most)
    BY <1>3
  <2> HIDE DEF w
  <2>2. \A j \in 1..m : w[j] \in L
    BY <2>1, ElementOfSeq
  <2>3. \A j \in 1..m : w[j] \in U
    BY <1>4, <2>1, <2>2
  <2>4. w = [j \in 1..m |-> w[j]] /\ m \in Nat
    BY <2>1
  <2> HIDE DEF m
  <2>5. w \in [1..m -> U]
    BY <2>3, <2>4
  <2>6. w \in Seq(U)
    BY <2>4, <2>5
  <2> QED
    BY <2>6 DEF w
<1> HIDE DEF n
<1>6. us \in Seq(Seq(U)) /\ Len(us) = n /\ \A k \in 1..n : us[k] = Units(lines[k], most)
  BY <1>2, <1>5
<1> HIDE DEF us
<1>7. units \in Seq(U)
  BY <1>6, FlatConcat
<1>8. Split(s, most) = Joined(most, units)[Len(units)]
  BY DEF Split, units, us, n, lines
<1>9. LinesOf(Split(s, most)) = units /\ Split(s, most) \in Seq(Fitting(Char, most))
  BY <1>7, <1>8, JoinedFacts DEF U
<1>10. \A i \in 1..Len(Split(s, most)) : Within(Split(s, most)[i], most)
  <2> DEFINE W == Fitting(Char, most)
  <2>1. \A w \in W : Within(w, most)
    BY DEF Fitting
  <2> HIDE DEF W
  <2>2. Split(s, most) \in Seq(W)
    BY <1>9 DEF W
  <2>3. \A i \in 1..Len(Split(s, most)) : Split(s, most)[i] \in W
    BY <2>2, ElementOfSeq
  <2> QED
    BY <2>1, <2>3
<1>11. h \in [Seq(L) -> Seq(T)] /\ \A a \in Seq(L) : h[a] = SaidBy(a)
  BY SaidByFacts DEF L
<1>12. \A x, y \in Seq(L) : x \o y \in Seq(L)
  OBVIOUS
<1> HIDE DEF h, T
<1>13. Maps(h, Seq(L), Seq(T))
  BY <1>11 DEF Maps
<1>14. KeepsOrder(h, L)
  <2>1. SaidBy(<< >>) = << >> /\ \A a, b \in Seq(L) : SaidBy(a \o b) = SaidBy(a) \o SaidBy(b)
    BY SaidByFacts DEF L
  <2>2. << >> \in Seq(L)
    OBVIOUS
  <2>3. h[<< >>] = << >>
    BY <1>11, <2>1, <2>2
  <2>4. \A x, y \in Seq(L) : h[x \o y] = h[x] \o h[y]
    BY <1>11, <1>12, <2>1
  <2> QED
    BY <2>3, <2>4 DEF KeepsOrder
<1>15. us \in Seq(Seq(L)) /\ units \in Seq(L)
  <2>1. \A a \in Seq(U) : a \in Seq(L)
    BY <1>4, SeqMonotonic
  <2>2. Seq(U) \subseteq Seq(L)
    BY <2>1
  <2> QED
    BY <1>6, <1>7, <2>2, SeqMonotonic
<1>16. h[units] = FlattenSeq([k \in 1..Len(us) |-> h[us[k]]])
  BY <1>13, <1>14, <1>15, FlatHom
<1>17. [k \in 1..Len(us) |-> h[us[k]]] = [k \in 1..n |-> Said(lines[k])]
  <2>1. \A k \in 1..n : h[us[k]] = Said(lines[k])
    BY <1>3, <1>6, <1>11
  <2> QED
    BY <1>6, <2>1
<1>18. SaidBy(units) = SaidBy(lines)
  <2>1. SaidBy(lines) = FlattenSeq([k \in 1..n |-> Said(lines[k])])
    BY DEF SaidBy, n
  <2>2. SaidBy(units) = h[units]
    BY <1>11, <1>15
  <2> HIDE DEF units
  <2> QED
    BY <1>16, <1>17, <2>1, <2>2
<1> QED
  BY <1>9, <1>10, <1>18 DEF lines

-----------------------------------------------------------------------------
(* What is to be said, and what was made of it.                            *)
TextInv ==
  /\ text \in Texts /\ budget \in Nat \ {0}
  /\ text = << >> \/ segments = << >>
  /\ chunks = IF cut /\ text # << >> THEN Split(text, budget) ELSE << >>

(* A text is one of its characters.                                        *)
LEMMA TextsAre == ASSUME NEW s \in Texts PROVE s \in Seq(Char)
<1>1. PICK m \in 0..MaxText : s \in [1..m -> {"a", Blank, Stop, Mark, Break}]
  BY DEF Texts, BoundedSeq, SeqOf
<1>2. {"a", Blank, Stop, Mark, Break} = Char
  BY DEF Char, Unbroken, Plain
<1>3. m \in Nat
  <2>1. MaxText \in Nat
    BY PiecesAssumption DEF PiecesAssumption
  <2> QED
    BY <2>1
<1> HIDE DEF Char
<1> QED
  BY <1>1, <1>2, <1>3

(* No step changes the text, and the chunks are made of it.                *)
LEMMA TextStep == TextInv /\ [PiecesNext]_piecesVars => TextInv'
<1> SUFFICES ASSUME TextInv, [PiecesNext]_piecesVars PROVE TextInv'
  OBVIOUS
<1>1. CASE CutText
  BY <1>1 DEF TextInv, CutText, Texts
<1>2. CASE CutSpeech
  BY <1>2 DEF TextInv, CutSpeech, Texts
<1>3. CASE UNCHANGED piecesVars
  BY <1>3 DEF TextInv, piecesVars, Texts
<1> QED
  BY <1>1, <1>2, <1>3 DEF PiecesNext

(* Then the chunks say the text.                                           *)
LEMMA TextSaid == TextInv => ChunksSayTheText
<1> SUFFICES ASSUME TextInv, cut PROVE ChunksSayTheText
  BY DEF ChunksSayTheText
<1>1. text \in Seq(Char) /\ \A i \in 2..Len(text) : text[i] = Mark => text[i - 1] = Break
  BY TextsAre DEF TextInv, Texts
<1>2. budget \in Nat \ {0}
  BY DEF TextInv
<1>3. CASE text # << >>
  <2>1. chunks = Split(text, budget)
    BY <1>3 DEF TextInv
  <2>2. /\ SaidBy(LinesOf(Split(text, budget))) = SaidBy(Lines(text))
        /\ \A i \in 1..Len(Split(text, budget)) : Within(Split(text, budget)[i], budget)
    BY <1>1, <1>2, SplitSays
  <2> QED
    BY <2>1, <2>2 DEF ChunksSayTheText, Within
<1>4. CASE text = << >>
  <2>1. chunks = << >>
    BY <1>4 DEF TextInv
  <2>2. LinesOf(<< >>) = << >> /\ SaidBy(<< >>) = << >>
    BY LinesOfFacts, SaidByFacts
  <2>3. << >> \in Seq(Unbroken)
    OBVIOUS
  <2>4. SaidBy(Lines(<< >>)) = Said(<< >>)
    BY <2>3, LinesFacts, SaidByFacts
  <2>5. Said(<< >>) = << >>
    <3>1. Bare(<< >>) = << >>
      BY BareFacts
    <3>2. Named(<< >>, FALSE) = << >>
      BY DEF Named
    <3> QED
      BY <3>1, <3>2 DEF Said
  <2> QED
    BY <1>4, <2>1, <2>2, <2>4, <2>5 DEF ChunksSayTheText
<1> QED
  BY <1>3, <1>4

-----------------------------------------------------------------------------
(* Windows of a recording.                                                  *)

(* The group being grown is what its equation says.                        *)
LEMMA GrownIs ==
  ASSUME NEW segs \in Seq(Nat \X Nat)
  PROVE  Grown(segs) = [i \in 1..Len(segs) |->
           IF i = 1 THEN [done |-> << >>, start |-> segs[1][1], end |-> segs[1][2]]
           ELSE JoinSegment(Grown(segs)[i - 1], segs[i])]
<1> DEFINE First == [done |-> << >>, start |-> segs[1][1], end |-> segs[1][2]]
           Solves(g, n) == g = [i \in 1..n |->
             IF i = 1 THEN First ELSE JoinSegment(g[i - 1], segs[i])]
           Unsolved == {n \in Nat : ~ \E g : Solves(g, n)}
<1> HIDE DEF First
<1>1. Unsolved = {}
  <2> SUFFICES ASSUME Unsolved # {} PROVE FALSE
    OBVIOUS
  <2>1. PICK n \in Unsolved : \A m \in Unsolved : n <= m
    <3>1. Unsolved \in SUBSET Nat
      OBVIOUS
    <3> HIDE DEF Unsolved
    <3> QED
      BY <3>1, LeastNumber
  <2>2. CASE n = 0
    <3>1. Solves([i \in 1..0 |-> First], 0)
      OBVIOUS
    <3> QED
      BY <2>1, <2>2, <3>1
  <2>3. CASE n # 0
    <3>0. n - 1 \in Nat /\ n - 1 \notin Unsolved
      <4> HIDE DEF Solves
      <4> QED
        BY <2>1, <2>3
    <3>1. PICK g : Solves(g, n - 1)
      <4> HIDE DEF Solves
      <4> QED
        BY <3>0
    <3> DEFINE h == [i \in 1..n |-> IF i = 1 THEN First ELSE JoinSegment(g[i - 1], segs[i])]
    <3>2. \A i \in 1..(n - 1) : h[i] = g[i]
      BY <2>3, <3>1, SMTT(30)
    <3>3. Solves(h, n)
      <4>1. \A i \in 1..n : i # 1 => h[i - 1] = g[i - 1]
        <5> HIDE DEF h
        <5> QED
          BY <3>0, <3>2
      <4>2. h = [i \in 1..n |-> IF i = 1 THEN First ELSE JoinSegment(h[i - 1], segs[i])]
        <5>1. \A i \in 1..n : h[i] = IF i = 1 THEN First ELSE JoinSegment(h[i - 1], segs[i])
          BY <4>1
        <5> QED
          BY <5>1
      <4> QED
        BY <4>2
    <3> QED
      BY <2>1, <3>3
  <2> QED
    BY <2>2, <2>3
<1>2. \E g : Solves(g, Len(segs))
  BY <1>1, LenProperties
<1>3. Grown(segs) = CHOOSE g : Solves(g, Len(segs))
  BY DEF Grown, First
<1> QED
  BY <1>2, <1>3 DEF First

-----------------------------------------------------------------------------
Covers(ws, t) == \E j \in 1..Len(ws) : ws[j][1] <= t /\ t < ws[j][2]

(* Windows in order, none empty or too long, all of them before a sample.  *)
WellCut(ws, until) ==
  /\ ws \in Seq(Nat \X Nat)
  /\ \A j \in 1..Len(ws) : ws[j][2] - ws[j][1] \in 1..MaxSpan /\ ws[j][2] <= until
  /\ \A j \in 2..Len(ws) : ws[j - 1][2] <= ws[j][1]

(* The division of the code's loop: how many windows there are.            *)
LEMMA Rounds ==
  ASSUME NEW a \in Int, NEW b \in Nat \ {0}
  PROVE  a \div b \in Int /\ (a \div b) * b <= a /\ a < (a \div b) * b + b
OBVIOUS

(* The windows of a group cover it, in order.                              *)
LEMMA WindowsFacts ==
  ASSUME PiecesAssumption, NEW start \in Nat, NEW end \in Nat
  PROVE  LET ws == Windows(start, end)
         IN  /\ WellCut(ws, end)
             /\ \A j \in 1..Len(ws) : start <= ws[j][1]
             /\ \A t \in start..(end - 1) : Covers(ws, t)
<1> DEFINE M == MaxSpan
           n == (end - start + M - 1) \div M
           At(k) == start + (k - 1) * M
           ws == Windows(start, end)
<1>1. M \in Nat \ {0}
  BY DEF PiecesAssumption
<1>2. /\ n \in Int /\ n * M <= end - start + M - 1
      /\ end - start + M - 1 < n * M + M
  <2>1. end - start + M - 1 \in Int
    BY <1>1
  <2> QED
    BY <1>1, <2>1, Rounds
<1>3. ws = [k \in 1..n |-> <<At(k), IF At(k) + M < end THEN At(k) + M ELSE end>>]
  BY DEF Windows
<1> HIDE DEF n, ws, M
<1>4. \A k \in 1..n : (k - 1) * M \in Nat /\ (k - 1) * M <= (n - 1) * M
  BY <1>1, <1>2
<1>5. \A k \in 1..n : start <= At(k) /\ At(k) < end /\ At(k) \in Nat
  <2> SUFFICES ASSUME NEW k \in 1..n PROVE start <= At(k) /\ At(k) < end /\ At(k) \in Nat
    OBVIOUS
  <2>1. (n - 1) * M = n * M - M
    BY <1>1, <1>2
  <2>2. n * M \in Int /\ (k - 1) * M \in Nat /\ (k - 1) * M <= (n - 1) * M
    BY <1>1, <1>2, <1>4
  <2> DEFINE p == n * M
             q == (k - 1) * M
             r == (n - 1) * M
  <2> HIDE DEF p, q, r
  <2>3. p \in Int /\ q \in Nat /\ q <= r /\ r = p - M /\ p <= end - start + M - 1
    BY <1>2, <2>1, <2>2 DEF p, q, r
  <2>4. start <= start + q /\ start + q < end /\ start + q \in Nat
    BY <1>1, <2>3
  <2> QED
    BY <2>4 DEF q
<1> DEFINE Until(k) == IF At(k) + M < end THEN At(k) + M ELSE end
<1>6. \A k \in 1..n : Until(k) - At(k) \in 1..M /\ Until(k) \in Nat /\ Until(k) <= end
  <2> HIDE DEF At
  <2> QED
    BY <1>1, <1>5
<1>7. \A k \in 2..n : At(k) = At(k - 1) + M
  <2> SUFFICES ASSUME NEW k \in 2..n PROVE At(k) = At(k - 1) + M
    OBVIOUS
  <2>1. (k - 1) * M = (k - 2) * M + M
    BY <1>1, <1>2
  <2>2. (k - 1) - 1 = k - 2 /\ (k - 2) * M \in Int
    BY <1>1, <1>2
  <2> QED
    BY <1>1, <2>1, <2>2
<1>8. Len(ws) = (IF n > 0 THEN n ELSE 0) /\ 1..Len(ws) = 1..n
  <2>1. CASE n > 0
    BY <1>2, <1>3, <2>1
  <2>2. CASE ~(n > 0)
    <3>1. 1..n = 1..0
      BY <1>2, <2>2
    <3>2. ws = << >>
      BY <1>3, <3>1
    <3> QED
      BY <3>1, <3>2, <2>2
  <2> QED
    BY <2>1, <2>2
<1>9. \A k \in 1..n : ws[k] = <<At(k), Until(k)>>
  BY <1>3
<1>10. ws \in Seq(Nat \X Nat)
  <2> HIDE DEF At, Until
  <2>1. ws \in [1..Len(ws) -> Nat \X Nat]
    <3>1. ws = [k \in 1..Len(ws) |-> ws[k]]
      BY <1>3, <1>8
    <3>2. \A k \in 1..Len(ws) : ws[k] \in Nat \X Nat
      <4> SUFFICES ASSUME NEW k \in 1..n PROVE ws[k] \in Nat \X Nat
        BY <1>8
      <4>1. At(k) \in Nat /\ Until(k) \in Nat
        BY <1>5, <1>6
      <4> QED
        BY <1>9, <4>1
    <3> QED
      BY <3>1, <3>2
  <2>2. Len(ws) \in Nat
    BY <1>2, <1>8
  <2> QED
    BY <2>1, <2>2, SeqDef
<1>11. WellCut(ws, end)
  <2> HIDE DEF At, Until
  <2>1. \A j \in 1..Len(ws) : ws[j][2] - ws[j][1] \in 1..MaxSpan /\ ws[j][2] <= end
    BY <1>6, <1>8, <1>9 DEF M
  <2>2. \A j \in 2..n : Until(j - 1) <= At(j)
    <3> SUFFICES ASSUME NEW j \in 2..n PROVE Until(j - 1) <= At(j)
      OBVIOUS
    <3>1. At(j) = At(j - 1) + M /\ At(j) < end /\ At(j - 1) \in Nat
      BY <1>2, <1>5, <1>7
    <3> QED
      BY <1>1, <3>1 DEF Until
  <2>3. \A j \in 2..Len(ws) : ws[j - 1][2] <= ws[j][1]
    BY <1>2, <1>8, <1>9, <2>2
  <2> QED
    BY <1>10, <2>1, <2>3 DEF WellCut
<1>12. \A j \in 1..Len(ws) : start <= ws[j][1]
  BY <1>5, <1>8, <1>9
<1>13. \A t \in start..(end - 1) : Covers(ws, t)
  <2> SUFFICES ASSUME NEW t \in start..(end - 1) PROVE Covers(ws, t)
    OBVIOUS
  <2> DEFINE d == (t - start) \div M
             k == d + 1
  <2>1. d \in Int /\ d * M <= t - start /\ t - start < d * M + M
    <3>1. t - start \in Int
      OBVIOUS
    <3> QED
      BY <1>1, <3>1, Rounds
  <2> HIDE DEF d
  <2>2. d >= 0
    <3>1. d < 0 => d * M <= 0 - M
      BY <1>1, <2>1
    <3> QED
      BY <1>1, <2>1, <3>1
  <2>3. d < n
    <3> SUFFICES ASSUME n <= d PROVE FALSE
      BY <1>2, <2>1
    <3>1. n * M <= d * M
      BY <1>1, <1>2, <2>1
    <3> DEFINE p == n * M
               q == d * M
    <3>2. p \in Int /\ q \in Int
      BY <1>1, <1>2, <2>1
    <3> HIDE DEF p, q
    <3>3. p <= q /\ q <= t - start /\ end - start + M - 1 < p + M
      BY <1>2, <2>1, <3>1 DEF p, q
    <3> QED
      BY <1>1, <3>2, <3>3
  <2>4. k \in 1..n /\ At(k) = start + d * M
    BY <1>2, <2>1, <2>2, <2>3
  <2>5. At(k) <= t /\ t < Until(k)
    <3> DEFINE q == d * M
    <3>1. q \in Int
      BY <1>1, <2>1
    <3> HIDE DEF q, At
    <3>2. q <= t - start /\ t - start < q + M /\ At(k) = start + q
      BY <2>1, <2>4 DEF q
    <3> QED
      BY <1>1, <3>1, <3>2
  <2> HIDE DEF At, Until, k
  <2>6. ws[k][1] = At(k) /\ ws[k][2] = Until(k) /\ k \in 1..Len(ws)
    <3>1. k \in 1..n
      BY <2>4
    <3>2. ws[k] = <<At(k), Until(k)>>
      BY <1>9, <3>1
    <3>3. k \in 1..Len(ws)
      BY <1>8, <3>1
    <3> QED
      BY <3>2, <3>3
  <2> QED
    BY <2>5, <2>6 DEF Covers
<1> QED
  BY <1>11, <1>12, <1>13 DEF ws

(* Windows after windows are windows.                                      *)
LEMMA MoreWindows ==
  ASSUME NEW a, NEW b, NEW start \in Nat, NEW until \in Nat, start <= until,
         WellCut(a, start), WellCut(b, until), \A j \in 1..Len(b) : start <= b[j][1]
  PROVE  /\ WellCut(a \o b, until)
         /\ \A t : Covers(a, t) \/ Covers(b, t) => Covers(a \o b, t)
<1>1. a \in Seq(Nat \X Nat) /\ b \in Seq(Nat \X Nat)
  BY DEF WellCut
<1>2. /\ a \o b \in Seq(Nat \X Nat) /\ Len(a) \in Nat /\ Len(b) \in Nat
      /\ Len(a \o b) = Len(a) + Len(b)
      /\ \A j \in 1..Len(a \o b) : (a \o b)[j] = IF j <= Len(a) THEN a[j] ELSE b[j - Len(a)]
  BY <1>1, ConcatProperties
<1> DEFINE ab == a \o b
<1>3. \A j \in 1..Len(a) : ab[j] = a[j] /\ j \in 1..Len(ab)
  BY <1>2
<1>4. \A j \in 1..Len(b) : ab[Len(a) + j] = b[j] /\ Len(a) + j \in 1..Len(ab)
  BY <1>2
<1>5. \A j \in 1..Len(ab) : j \in 1..Len(a) \/ (j - Len(a) \in 1..Len(b) /\ ab[j] = b[j - Len(a)])
  BY <1>2
<1>6. ab \in Seq(Nat \X Nat)
  BY <1>2
<1>7. /\ \A j \in 1..Len(a) : a[j][1] \in Nat /\ a[j][2] \in Nat
      /\ \A j \in 1..Len(b) : b[j][1] \in Nat /\ b[j][2] \in Nat
  BY <1>1, SMTT(30)
<1>11. Len(a) \in Nat /\ Len(ab) \in Nat
  BY <1>2
<1> HIDE DEF ab
<1>12. \A j \in 2..Len(a) : a[j - 1][2] <= a[j][1]
  BY Zenon DEF WellCut
<1>13. \A j \in 1..Len(a) : a[j][2] - a[j][1] \in 1..MaxSpan /\ a[j][2] <= until
  <2>1. \A j \in 1..Len(a) : a[j][2] - a[j][1] \in 1..MaxSpan /\ a[j][2] <= start
    BY Zenon DEF WellCut
  <2> QED
    BY <1>7, <2>1
<1>8. \A j \in 1..Len(ab) : ab[j][2] - ab[j][1] \in 1..MaxSpan /\ ab[j][2] <= until
  <2> SUFFICES ASSUME NEW j \in 1..Len(ab)
               PROVE  ab[j][2] - ab[j][1] \in 1..MaxSpan /\ ab[j][2] <= until
    OBVIOUS
  <2>1. CASE j \in 1..Len(a)
    BY <1>3, <1>13, <2>1
  <2>2. CASE j \notin 1..Len(a)
    BY <1>5, <2>2 DEF WellCut
  <2> QED
    BY <2>1, <2>2
<1>9. \A j \in 2..Len(ab) : ab[j - 1][2] <= ab[j][1]
  <2> SUFFICES ASSUME NEW j \in 2..Len(ab) PROVE ab[j - 1][2] <= ab[j][1]
    OBVIOUS
  <2>1. CASE j \in 2..Len(a)
    <3>1. j - 1 \in 1..Len(a) /\ j \in 1..Len(a)
      BY <1>11, <2>1
    <3>2. ab[j] = a[j] /\ ab[j - 1] = a[j - 1]
      BY <1>3, <3>1
    <3> QED
      BY <1>12, <2>1, <3>2
  <2>2. CASE j = Len(a) + 1
    <3>1. Len(a) \in 1..Len(a) /\ 1 \in 1..Len(b) /\ ab[j] = b[1] /\ ab[j - 1] = a[Len(a)]
      BY <1>2, <1>3, <1>4, <2>2 DEF ab
    <3>2. a[Len(a)][2] <= start /\ start <= b[1][1]
      BY <3>1 DEF WellCut
    <3> QED
      BY <1>7, <3>1, <3>2
  <2>3. CASE j > Len(a) + 1
    <3>1. j - Len(a) \in 2..Len(b) /\ ab[j] = b[j - Len(a)] /\ ab[j - 1] = b[j - Len(a) - 1]
      <4>1. j - Len(a) \in 2..Len(b)
        BY <1>2, <2>3 DEF ab
      <4>2. j - Len(a) \in 1..Len(b) /\ j - Len(a) - 1 \in 1..Len(b)
        BY <1>2, <4>1
      <4>3. Len(a) + (j - Len(a)) = j /\ Len(a) + (j - Len(a) - 1) = j - 1
        BY <1>2
      <4> QED
        BY <1>4, <4>1, <4>2, <4>3
    <3> QED
      BY <3>1 DEF WellCut
  <2> QED
    BY <1>11, <2>1, <2>2, <2>3
<1>10. ASSUME NEW t, Covers(a, t) \/ Covers(b, t) PROVE Covers(ab, t)
  <2>1. CASE Covers(a, t)
    BY <1>3, <2>1 DEF Covers
  <2>2. CASE Covers(b, t)
    <3>1. PICK j \in 1..Len(b) : b[j][1] <= t /\ t < b[j][2]
      BY <2>2 DEF Covers
    <3>2. Len(a) + j \in 1..Len(ab) /\ ab[Len(a) + j] = b[j]
      BY <1>4
    <3> QED
      BY <3>1, <3>2 DEF Covers
  <2> QED
    BY <1>10, <2>1, <2>2
<1> QED
  BY <1>6, <1>8, <1>9, <1>10 DEF ab, WellCut

-----------------------------------------------------------------------------
(* Speech as the detector finds it: in order and apart.                    *)
InOrder(segs) ==
  /\ segs \in Seq(Nat \X Nat)
  /\ \A i \in 1..Len(segs) : segs[i][1] < segs[i][2]
  /\ \A i \in 2..Len(segs) : segs[i - 1][2] < segs[i][1]

(* What is in the groups so far, once i segments were taken.               *)
GrownWell(segs, grown, i) ==
  /\ grown = [done |-> grown.done, start |-> grown.start, end |-> grown.end]
  /\ grown.start \in Nat /\ grown.end = segs[i][2]
  /\ grown.start <= segs[i][1]
  /\ WellCut(grown.done, grown.start)
  /\ \A k \in 1..i : \A t \in segs[k][1]..(Clip(segs[k][2]) - 1) :
       Covers(grown.done, t) \/ t \in grown.start..(Clip(grown.end) - 1)

(* The end of a group is cut at the end of the clip.                       *)
LEMMA ClipFacts ==
  ASSUME PiecesAssumption, NEW end \in Nat
  PROVE  Clip(end) \in Nat /\ Clip(end) <= end /\ \A m \in Nat : m <= end => Clip(m) <= Clip(end)
BY DEF PiecesAssumption, Clip

(* A group that is closed gives its samples to its windows.                *)
LEMMA GroupCloses ==
  ASSUME PiecesAssumption, NEW segs, InOrder(segs), NEW i \in 1..Len(segs), NEW grown,
         GrownWell(segs, grown, i), NEW until \in Nat, grown.end <= until
  PROVE  LET ws == grown.done \o Windows(grown.start, Clip(grown.end))
         IN  /\ WellCut(ws, until)
             /\ \A k \in 1..i : \A t \in segs[k][1]..(Clip(segs[k][2]) - 1) : Covers(ws, t)
<1> DEFINE end == Clip(grown.end)
           new == Windows(grown.start, end)
<1>1. /\ grown.start \in Nat /\ grown.end \in Nat /\ grown.start <= grown.end
  BY DEF GrownWell, InOrder
<1>2. end \in Nat /\ end <= grown.end
  BY <1>1, ClipFacts
<1>3. /\ WellCut(new, end) /\ \A j \in 1..Len(new) : grown.start <= new[j][1]
      /\ \A t \in grown.start..(end - 1) : Covers(new, t)
  BY <1>1, <1>2, WindowsFacts
<1> HIDE DEF end, new
<1>4. WellCut(new, until)
  <2>1. new \in Seq(Nat \X Nat) /\ \A j \in 2..Len(new) : new[j - 1][2] <= new[j][1]
    BY <1>3 DEF WellCut
  <2>2. ASSUME NEW j \in 1..Len(new) PROVE new[j][2] - new[j][1] \in 1..MaxSpan /\ new[j][2] <= until
    <3>1. new[j][2] - new[j][1] \in 1..MaxSpan /\ new[j][2] <= end
      BY <1>3 DEF WellCut
    <3>2. new[j] \in Nat \X Nat
      BY <2>1, ElementOfSeq
    <3>3. new[j][2] \in Nat
      BY <3>2
    <3> QED
      BY <1>1, <1>2, <3>1, <3>3
  <2> QED
    BY <2>1, <2>2 DEF WellCut
<1>5. /\ WellCut(grown.done \o new, until)
      /\ \A t : Covers(grown.done, t) \/ Covers(new, t) => Covers(grown.done \o new, t)
  <2>1. WellCut(grown.done, grown.start) /\ grown.start <= until
    BY <1>1 DEF GrownWell
  <2> QED
    BY <1>1, <1>3, <1>4, <2>1, MoreWindows
<1>6. ASSUME NEW k \in 1..i, NEW t \in segs[k][1]..(Clip(segs[k][2]) - 1)
      PROVE  Covers(grown.done \o new, t)
  <2>1. Covers(grown.done, t) \/ t \in grown.start..(end - 1)
    BY <1>6 DEF GrownWell, end
  <2> QED
    BY <1>3, <1>5, <2>1
<1> QED
  BY <1>5, <1>6 DEF new, end

(* It begins so with the first segment.                                    *)
LEMMA FirstGroup ==
  ASSUME NEW segs, InOrder(segs), segs # << >>
  PROVE  GrownWell(segs, [done |-> << >>, start |-> segs[1][1], end |-> segs[1][2]], 1)
<1>1. 1 \in 1..Len(segs)
  BY DEF InOrder
<1>2. segs[1][1] \in Nat /\ segs[1][2] \in Nat
  BY <1>1 DEF InOrder
<1>3. WellCut(<< >>, segs[1][1])
  BY DEF WellCut
<1> QED
  BY <1>2, <1>3 DEF GrownWell

(* And goes on so with each of the others, joined to the group or not.     *)
LEMMA NextGroup ==
  ASSUME PiecesAssumption, NEW segs, InOrder(segs), NEW i \in 1..(Len(segs) - 1),
         NEW grown, GrownWell(segs, grown, i)
  PROVE  GrownWell(segs, JoinSegment(grown, segs[i + 1]), i + 1)
<1> DEFINE segment == segs[i + 1]
           ws == grown.done \o Windows(grown.start, Clip(grown.end))
           next == JoinSegment(grown, segment)
<1>0. Len(segs) \in Nat
  BY DEF InOrder
<1>1. i \in 1..Len(segs) /\ i + 1 \in 1..Len(segs)
  BY <1>0
<1>2. /\ segs[i][1] \in Nat /\ segs[i][2] \in Nat /\ segment[1] \in Nat /\ segment[2] \in Nat
      /\ segs[i][1] < segs[i][2] /\ segs[i][2] < segment[1] /\ segment[1] < segment[2]
  <2>1. segs[i][2] < segment[1]
    <3>1. i + 1 \in 2..Len(segs) /\ (i + 1) - 1 = i
      BY <1>1
    <3> QED
      BY <3>1 DEF InOrder
  <2> QED
    BY <1>1, <2>1 DEF InOrder
<1>3. /\ grown.start \in Nat /\ grown.end = segs[i][2] /\ grown.start <= segs[i][1]
      /\ WellCut(grown.done, grown.start)
  BY Zenon DEF GrownWell
<1>4. /\ WellCut(ws, segment[1])
      /\ \A k \in 1..i : \A t \in segs[k][1]..(Clip(segs[k][2]) - 1) : Covers(ws, t)
  BY <1>1, <1>2, <1>3, GroupCloses, SMTT(30)
<1> HIDE DEF ws, segment
<1>5. CASE next = [done |-> ws, start |-> segment[1], end |-> segment[2]]
  <2> HIDE DEF next
  <2>1. \A k \in 1..(i + 1) : \A t \in segs[k][1]..(Clip(segs[k][2]) - 1) :
          Covers(ws, t) \/ t \in segment[1]..(Clip(segment[2]) - 1)
    <3> SUFFICES ASSUME NEW k \in 1..(i + 1), NEW t \in segs[k][1]..(Clip(segs[k][2]) - 1)
                 PROVE  Covers(ws, t) \/ t \in segment[1]..(Clip(segment[2]) - 1)
      OBVIOUS
    <3>1. CASE k = i + 1
      BY <3>1 DEF segment
    <3>2. CASE k \in 1..i
      BY <1>4, <3>2
    <3> QED
      BY <1>1, <3>1, <3>2
  <2>2. /\ next.start = segment[1] /\ next.end = segment[2] /\ next.done = ws
    BY <1>5
  <2>3. GrownWell(segs, next, i + 1)
    BY <1>2, <1>4, <1>5, <2>1, <2>2 DEF GrownWell, segment
  <2> QED
    BY <2>3 DEF next, segment
<1>6. CASE next = [grown EXCEPT !.end = segment[2]]
  <2> HIDE DEF next
  <2>1. /\ next = [done |-> grown.done, start |-> grown.start, end |-> segment[2]]
        /\ next.start = grown.start /\ next.end = segment[2] /\ next.done = grown.done
    BY <1>6 DEF GrownWell
  <2>2. Clip(segs[i][2]) <= Clip(segment[2]) /\ Clip(segs[i][2]) \in Nat /\ Clip(segment[2]) \in Nat
    <3>1. segs[i][2] <= segment[2]
      BY <1>2
    <3> QED
      BY <1>2, <3>1, ClipFacts
  <2>3. \A k \in 1..(i + 1) : \A t \in segs[k][1]..(Clip(segs[k][2]) - 1) :
          Covers(grown.done, t) \/ t \in grown.start..(Clip(segment[2]) - 1)
    <3> SUFFICES ASSUME NEW k \in 1..(i + 1), NEW t \in segs[k][1]..(Clip(segs[k][2]) - 1)
                 PROVE  Covers(grown.done, t) \/ t \in grown.start..(Clip(segment[2]) - 1)
      OBVIOUS
    <3>1. CASE k = i + 1
      <4>1. t \in segment[1]..(Clip(segment[2]) - 1)
        BY <3>1 DEF segment
      <4> QED
        BY <1>2, <1>3, <2>2, <4>1
    <3>2. CASE k \in 1..i
      <4>1. Covers(grown.done, t) \/ t \in grown.start..(Clip(segs[i][2]) - 1)
        BY <1>3, <3>2 DEF GrownWell
      <4> QED
        BY <1>3, <2>2, <4>1
    <3> QED
      BY <1>1, <3>1, <3>2
  <2>4. grown.start <= segment[1]
    BY <1>2, <1>3
  <2>5. GrownWell(segs, next, i + 1)
    BY <1>3, <2>1, <2>3, <2>4 DEF GrownWell, segment
  <2> QED
    BY <2>5 DEF next, segment
<1> QED
  BY <1>5, <1>6 DEF JoinSegment, ws, segment

(* The windows of a recording: every sample of speech inside the clip is in*)
(* one, and they are in order, not empty and not too long (GroupSegments). *)
LEMMA GroupsCoverSpeech ==
  ASSUME PiecesAssumption, NEW segs, InOrder(segs), segs # << >>
  PROVE  /\ \E until \in Nat : WellCut(GroupSegments(segs), until)
         /\ \A i \in 1..Len(segs) : \A t \in segs[i][1]..(Clip(segs[i][2]) - 1) :
              Covers(GroupSegments(segs), t)
<1> DEFINE n == Len(segs)
           Well == {i \in 1..n : GrownWell(segs, Grown(segs)[i], i)}
<1>1. n \in Nat /\ 1 \in 1..n /\ n \in 1..n
  BY DEF InOrder
<1>2. /\ Grown(segs)[1] = [done |-> << >>, start |-> segs[1][1], end |-> segs[1][2]]
      /\ \A i \in 1..(n - 1) : Grown(segs)[i + 1] = JoinSegment(Grown(segs)[i], segs[i + 1])
  <2>1. Grown(segs) = [i \in 1..n |->
          IF i = 1 THEN [done |-> << >>, start |-> segs[1][1], end |-> segs[1][2]]
          ELSE JoinSegment(Grown(segs)[i - 1], segs[i])]
    BY GrownIs DEF InOrder
  <2> DEFINE g == Grown(segs)
  <2> HIDE DEF g, n
  <2>2. g = [i \in 1..n |->
          IF i = 1 THEN [done |-> << >>, start |-> segs[1][1], end |-> segs[1][2]]
          ELSE JoinSegment(g[i - 1], segs[i])]
    BY <2>1 DEF g
  <2>3. g[1] = [done |-> << >>, start |-> segs[1][1], end |-> segs[1][2]]
    BY <1>1, <2>2
  <2>4. ASSUME NEW i \in 1..(n - 1) PROVE g[i + 1] = JoinSegment(g[i], segs[i + 1])
    <3>1. i + 1 \in 1..n /\ i + 1 # 1 /\ (i + 1) - 1 = i
      BY <1>1
    <3> QED
      BY <2>2, <3>1
  <2> QED
    BY <2>3, <2>4 DEF g
<1>3. \A i \in 1..n : GrownWell(segs, Grown(segs)[i], i)
  <2>1. 1 \in Well
    BY <1>1, <1>2, FirstGroup
  <2>2. \A i \in 1..(n - 1) : i \in Well => i + 1 \in Well
    BY <1>1, <1>2, NextGroup
  <2> HIDE DEF Well
  <2>3. \A i \in 1..n : i \in Well
    BY <1>1, <2>1, <2>2, CountUp
  <2> QED
    BY <2>3 DEF Well
<1> DEFINE last == Grown(segs)[n]
<1>4. GrownWell(segs, last, n) /\ last.end \in Nat
  <2>1. segs[n][2] \in Nat
    BY <1>1 DEF InOrder
  <2> QED
    BY <1>1, <1>3, <2>1 DEF GrownWell
<1>5. GroupSegments(segs) = last.done \o Windows(last.start, Clip(last.end))
  BY DEF GroupSegments
<1> HIDE DEF last
<1>6. last.end <= last.end
  BY <1>4
<1>7. /\ WellCut(last.done \o Windows(last.start, Clip(last.end)), last.end)
      /\ \A k \in 1..n : \A t \in segs[k][1]..(Clip(segs[k][2]) - 1) :
           Covers(last.done \o Windows(last.start, Clip(last.end)), t)
  BY <1>1, <1>4, <1>6, GroupCloses
<1> QED
  BY <1>4, <1>5, <1>7

-----------------------------------------------------------------------------
(* What the detector found, and what was made of it.                       *)
SpeechInv ==
  /\ segments \in Detected
  /\ text = << >> \/ segments = << >>
  /\ groups = IF cut THEN GroupSegments(segments) ELSE << >>

(* What the detector can find is in order and apart.                       *)
LEMMA DetectedInOrder == PiecesAssumption /\ segments \in Detected => InOrder(segments)
<1> SUFFICES ASSUME PiecesAssumption, segments \in Detected PROVE InOrder(segments)
  OBVIOUS
<1>1. PICK m \in 0..MaxFound : segments \in [1..m -> (0..ClipEnd) \X (1..(ClipEnd + 1))]
  BY DEF Detected, BoundedSeq, SeqOf
<1>2. segments \in Seq(Nat \X Nat)
  <2>1. (0..ClipEnd) \X (1..(ClipEnd + 1)) \subseteq Nat \X Nat
    BY DEF PiecesAssumption
  <2>2. segments \in [1..m -> Nat \X Nat] /\ m \in Nat
    BY <1>1, <2>1
  <2> QED
    BY <2>2
<1> QED
  BY <1>2 DEF Detected, InOrder

(* No step changes what was found, and the windows are made of it.         *)
LEMMA SpeechStep == SpeechInv /\ [PiecesNext]_piecesVars => SpeechInv'
<1> SUFFICES ASSUME SpeechInv, [PiecesNext]_piecesVars PROVE SpeechInv'
  OBVIOUS
<1>1. CASE CutText
  BY <1>1 DEF SpeechInv, CutText, Detected, GroupSegments
<1>2. CASE CutSpeech
  BY <1>2 DEF SpeechInv, CutSpeech, Detected
<1>3. CASE UNCHANGED piecesVars
  BY <1>3 DEF SpeechInv, piecesVars, Detected
<1> QED
  BY <1>1, <1>2, <1>3 DEF PiecesNext

(* Then they cover it.                                                     *)
LEMMA SpeechCovered == SpeechInv => WindowsCoverSpeech
<1> SUFFICES ASSUME SpeechInv, cut PROVE WindowsCoverSpeech
  BY DEF WindowsCoverSpeech
<1>0. CASE segments = << >>
  BY <1>0 DEF SpeechInv, GroupSegments, WindowsCoverSpeech
<1> SUFFICES ASSUME segments # << >> PROVE WindowsCoverSpeech
  BY <1>0
<1>1. InOrder(segments) /\ groups = GroupSegments(segments)
  BY PiecesAssumption, DetectedInOrder DEF SpeechInv
<1>2. /\ \E until \in Nat : WellCut(groups, until)
      /\ \A i \in 1..Len(segments) : \A t \in segments[i][1]..(Clip(segments[i][2]) - 1) :
           Covers(groups, t)
  BY <1>1, PiecesAssumption, GroupsCoverSpeech
<1> QED
  BY <1>2 DEF WindowsCoverSpeech, WellCut, Covers

(* Before anything is cut, and where nothing is.                           *)
LEMMA SpeechStarts == PiecesInit \/ NothingToCut => SpeechInv
<1>1. << >> \in Detected
  <2>1. << >> \in [1..0 -> (0..ClipEnd) \X (1..(ClipEnd + 1))]
    OBVIOUS
  <2>2. << >> \in BoundedSeq((0..ClipEnd) \X (1..(ClipEnd + 1)), MaxFound)
    BY <2>1, PiecesAssumption DEF PiecesAssumption, BoundedSeq, SeqOf
  <2> QED
    BY <2>2 DEF Detected
<1> QED
  BY <1>1 DEF SpeechInv, PiecesInit, NothingToCut, NothingCut

-----------------------------------------------------------------------------
(* Both of them.                                                           *)

(* Before anything is cut.                                                 *)
LEMMA TextStarts == PiecesInit \/ NothingToCut => TextInv
<1>1. << >> \in Texts
  <2>1. << >> \in [1..0 -> {"a", Blank, Stop, Mark, Break}]
    OBVIOUS
  <2>2. << >> \in BoundedSeq({"a", Blank, Stop, Mark, Break}, MaxText)
    BY <2>1, PiecesAssumption DEF PiecesAssumption, BoundedSeq, SeqOf
  <2> QED
    BY <2>2 DEF Texts
<1>2. Budgets \subseteq Nat \ {0}
  BY PiecesAssumption DEF PiecesAssumption
<1>3. ASSUME NothingCut, text \in Texts, budget \in Nat \ {0}, text = << >> \/ segments = << >>
      PROVE  TextInv
  BY <1>3 DEF TextInv, NothingCut
<1>4. CASE text \in Texts /\ budget \in Budgets /\ segments = << >> /\ NothingCut
  BY <1>2, <1>3, <1>4
<1>5. CASE text = << >> /\ budget = 1 /\ NothingCut
  <2>1. text \in Texts /\ budget \in Nat \ {0}
    BY <1>1, <1>5
  <2> QED
    BY <1>3, <1>5, <2>1
<1> QED
  BY <1>4, <1>5 DEF PiecesInit, NothingToCut

(* What is given is cut, and what was made of it is kept.                  *)
PiecesInv == TextInv /\ SpeechInv

(* No step changes what is given, or what it was cut into.                 *)
LEMMA PiecesStep == PiecesInv /\ [PiecesNext]_piecesVars => PiecesInv'
BY TextStep, SpeechStep DEF PiecesInv

(* The chunks of a text say what it does, each character once and of its   *)
(* speaker, and keep to the budget; the windows of a recording have every  *)
(* sample of speech inside the clip.  For any text and budget, any clip,   *)
(* limits and stretches of speech (TextChunker.cs:118-257,                 *)
(* MainWindowViewModel.cs:2234-2261).                                      *)
THEOREM CutsLoseNothing == PiecesSpec => []CuttingLosesNothing
<1>1. PiecesInit => PiecesInv
  BY TextStarts, SpeechStarts DEF PiecesInv
<1>2. PiecesInv => CuttingLosesNothing
  BY TextSaid, SpeechCovered DEF PiecesInv, CuttingLosesNothing
<1> QED
  BY <1>1, <1>2, PiecesStep, PTL DEF PiecesSpec

================================================================================
