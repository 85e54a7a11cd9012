--------------------------- MODULE PipelineProofs ---------------------------
(***************************************************************************)
(* What holds of the reports of every archive, of what a bundle packs of   *)
(* them, and of the answers that a consumer draws from it.                 *)
(*                                                                         *)
(* An induction goes through a least counterexample, and a recursive       *)
(* operator of the community modules is replaced by the properties that    *)
(* are proved of it first: of sorted listings, of concatenations, and of   *)
(* the loops of build_clusters.  Then come the findings of a body, the     *)
(* actions they ask for, the report that holds them, the archive of        *)
(* reports, the bundle, the validator's reading of a row, and the answers  *)
(* of the service to the same rows.                                        *)
(***************************************************************************)
EXTENDS Lookup, FiniteSetTheorems, SequenceTheorems, WellFoundedInduction,
        TLAPS

(* A nonempty set of numbers has a least one.                              *)
LEMMA LeastOf ==
    ASSUME NEW S \in SUBSET Nat, S # {}
    PROVE  \E x \in S : \A y \in S : x <= y
  <1> DEFINE R == OpToRel(<, Nat)
  <1>1. PICK x \in S : \A y \in S : ~ (<<y, x>> \in R)
    <2>1. IsWellFoundedOn(R, Nat)
      BY NatLessThanWellFounded
    <2> HIDE DEF R
    <2> QED BY <2>1, WFMin
  <1>2. ASSUME NEW y \in S PROVE x <= y
    <2>1. CASE y < x
      BY <1>1, <2>1 DEF OpToRel
    <2> HIDE DEF R
    <2> QED BY <2>1
  <1> QED BY <1>2

(* Induction, over a set in the place of a predicate.                      *)
LEMMA Induction ==
    ASSUME NEW S, 0 \in S, \A n \in Nat : n \in S => n + 1 \in S
    PROVE  Nat \subseteq S
  <1> SUFFICES ASSUME Nat \ S # {} PROVE FALSE
    OBVIOUS
  <1>1. PICK n \in Nat \ S : \A m \in Nat \ S : n <= m
    BY LeastOf
  <1> QED BY <1>1

(* A recursion over the numbers.                                           *)
Recurs(T, b, step) ==
    \E g \in [Nat -> T] :
        g[0] = b /\ \A n \in Nat : g[n + 1] = step[n + 1][g[n]]

(* It has a solution.                                                      *)
LEMMA Recursion ==
    ASSUME NEW T, NEW b \in T, NEW step \in [Nat -> [T -> T]]
    PROVE  Recurs(T, b, step)
  <1> DEFINE A(n) == {h \in [0 .. n -> T] :
                        /\ h[0] = b
                        /\ \A i \in 1 .. n : h[i] = step[i][h[i - 1]]}
             W == {n \in Nat : A(n) # {}}
  <1>1. Nat \subseteq W
    <2>1. 0 \in W
      <3> DEFINE h == [i \in 0 .. 0 |-> b]
      <3>1. h \in A(0)
        OBVIOUS
      <3> QED BY <3>1
    <2>2. ASSUME NEW n \in Nat, n \in W PROVE n + 1 \in W
      <3>1. PICK h \in A(n) : TRUE
        BY <2>2
      <3> DEFINE k == [i \in 0 .. n + 1 |->
                          IF i <= n THEN h[i] ELSE step[n + 1][h[n]]]
      <3>2. k \in [0 .. n + 1 -> T]
        BY <3>1
      <3>3. k[0] = b
        BY <3>1
      <3>4. ASSUME NEW i \in 1 .. n + 1 PROVE k[i] = step[i][k[i - 1]]
        <4>1. i - 1 \in 0 .. n /\ k[i - 1] = h[i - 1]
          BY <3>4
        <4>2. CASE i <= n
          BY <3>1, <4>1, <4>2
        <4>3. CASE i = n + 1
          BY <4>1, <4>3
        <4> QED BY <4>2, <4>3
      <3> HIDE DEF k
      <3>5. A(n + 1) # {}
        BY <3>2, <3>3, <3>4
      <3> HIDE DEF A
      <3> QED BY <3>5
    <2> HIDE DEF W
    <2> QED BY <2>1, <2>2, Induction
  <1>2. ASSUME NEW n \in Nat, NEW m \in Nat, NEW h \in A(n), NEW k \in A(m)
        PROVE  \A i \in Nat : i <= n /\ i <= m => h[i] = k[i]
    <2> DEFINE V == {i \in Nat : i <= n /\ i <= m => h[i] = k[i]}
    <2>1. 0 \in V
      OBVIOUS
    <2>2. ASSUME NEW i \in Nat, i \in V PROVE i + 1 \in V
      <3>1. CASE i + 1 <= n /\ i + 1 <= m
        BY <2>2, <3>1
      <3> QED BY <3>1
    <2>3. Nat \subseteq V
      <3> HIDE DEF V
      <3> QED BY <2>1, <2>2, Induction
    <2> QED BY <2>3
  <1> DEFINE c(n) == CHOOSE h \in A(n) : TRUE
             g == [n \in Nat |-> c(n)[n]]
  <1>3. \A n \in Nat : c(n) \in A(n)
    BY <1>1
  <1>4. g \in [Nat -> T]
    <2> SUFFICES ASSUME NEW n \in Nat PROVE c(n)[n] \in T
      OBVIOUS
    <2> HIDE DEF c
    <2> QED BY <1>3
  <1>5. g[0] = b
    <2> HIDE DEF c
    <2> QED BY <1>3
  <1>6. ASSUME NEW n \in Nat PROVE g[n + 1] = step[n + 1][g[n]]
    <2> HIDE DEF c
    <2>1. c(n) \in A(n) /\ c(n + 1) \in A(n + 1)
      <3> HIDE DEF A
      <3> QED BY <1>3
    <2>2. c(n + 1)[n] = c(n)[n]
      <3> HIDE DEF A
      <3> QED BY <1>2, <2>1
    <2> QED BY <2>1, <2>2
  <1> QED BY <1>4, <1>5, <1>6 DEF Recurs

(* The number of members before it is the place of each member.            *)
LEMMA Ranks ==
    ASSUME NEW S, IsFiniteSet(S), NEW below \in [S -> SUBSET S],
           \A x \in S : x \notin below[x],
           \A x, z \in S : x \in below[z] => below[x] \subseteq below[z],
           \A x, z \in S : x = z \/ x \in below[z] \/ z \in below[x]
    PROVE  /\ \A n \in 1 .. Cardinality(S) :
                 \E x \in S : Cardinality(below[x]) = n - 1
           /\ \A x \in S : Cardinality(below[x]) + 1 \in 1 .. Cardinality(S)
           /\ \A x, z \in S :
                 x \in below[z] <=> Cardinality(below[x]) < Cardinality(below[z])
  <1>1. Cardinality(S) \in Nat
    BY FS_CardinalityType
  <1>2. ASSUME NEW x \in S
        PROVE  /\ Cardinality(below[x]) \in Nat
               /\ Cardinality(below[x]) < Cardinality(S)
    BY <1>1, FS_Subset, FS_CardinalityType
  <1>3. ASSUME NEW x \in S, NEW z \in S, x \in below[z]
        PROVE  Cardinality(below[x]) < Cardinality(below[z])
    BY <1>2, <1>3, FS_Subset
  <1>4. \A x, z \in S :
           x \in below[z] <=> Cardinality(below[x]) < Cardinality(below[z])
    <2> TAKE x, z \in S
    <2>1. CASE x \in below[z]
      BY <1>3, <2>1
    <2>2. CASE x \notin below[z]
      BY <1>2, <1>3, <2>2
    <2> QED BY <2>1, <2>2
  <1> DEFINE n == Cardinality(S)
             r == [x \in S |-> Cardinality(below[x]) + 1]
  <1>5. r \in [S -> 1 .. n]
    BY <1>1, <1>2
  <1>6. \A x, z \in S : r[x] = r[z] => x = z
    <2> TAKE x, z \in S
    <2> QED BY <1>2, <1>3
  <1>7. r \in Injection(S, 1 .. n)
    <2> HIDE DEF r
    <2> QED BY <1>5, <1>6 DEF Injection, IsInjective
  <1>8. IsFiniteSet(1 .. n) /\ Cardinality(1 .. n) = n
    BY <1>1, FS_Interval
  <1>9. r \in Surjection(S, 1 .. n)
    <2> HIDE DEF r
    <2> QED BY <1>7, <1>8, FS_Injection
  <1>10. \A k \in 1 .. n : \E x \in S : r[x] = k
    <2> HIDE DEF r
    <2> QED BY <1>9 DEF Surjection
  <1>11. ASSUME NEW k \in 1 .. n PROVE \E x \in S : Cardinality(below[x]) = k - 1
    <2>1. PICK x \in S : r[x] = k
      BY <1>10
    <2> QED BY <1>2, <2>1
  <1> QED BY <1>4, <1>5, <1>11

(* So a sequence of the members by these numbers has each of them once,    *)
(* and in the order.                                                       *)
LEMMA Ranked ==
    ASSUME NEW S, IsFiniteSet(S), NEW below \in [S -> SUBSET S],
           \A x \in S : x \notin below[x],
           \A x, z \in S : x \in below[z] => below[x] \subseteq below[z],
           \A x, z \in S : x = z \/ x \in below[z] \/ z \in below[x],
           NEW s, s = [k \in 1 .. Cardinality(S) |-> s[k]],
           \A k \in 1 .. Cardinality(S) :
              (\E x \in S : Cardinality(below[x]) = k - 1)
              => s[k] \in S /\ Cardinality(below[s[k]]) = k - 1
    PROVE  /\ Cardinality(S) \in Nat
           /\ s \in [1 .. Cardinality(S) -> S]
           /\ \A x \in S : \E i \in 1 .. Cardinality(S) : s[i] = x
           /\ \A i, j \in 1 .. Cardinality(S) :
                 (i < j <=> s[i] \in below[s[j]]) /\ (s[i] = s[j] => i = j)
  <1> DEFINE n == Cardinality(S)
  <1>1. ASSUME NEW x \in S PROVE Cardinality(below[x]) \in Nat
    BY FS_Subset, FS_CardinalityType
  <1>2. /\ \A k \in 1 .. n : \E x \in S : Cardinality(below[x]) = k - 1
        /\ \A x \in S : Cardinality(below[x]) + 1 \in 1 .. n
        /\ \A x, z \in S :
              x \in below[z] <=> Cardinality(below[x]) < Cardinality(below[z])
    BY Ranks
  <1>3. \A k \in 1 .. n : s[k] \in S /\ Cardinality(below[s[k]]) = k - 1
    BY <1>2
  <1> HIDE DEF n
  <1>4. \A x, z \in S : Cardinality(below[x]) = Cardinality(below[z]) => x = z
    <2> SUFFICES ASSUME NEW x \in S, NEW z \in S,
                        Cardinality(below[x]) = Cardinality(below[z])
                 PROVE  x = z
      OBVIOUS
    <2> QED BY <1>1, <1>2
  <1>5. ASSUME NEW x \in S PROVE \E i \in 1 .. n : s[i] = x
    <2> DEFINE k == Cardinality(below[x]) + 1
    <2>1. k \in 1 .. n /\ Cardinality(below[x]) = k - 1
      BY <1>1, <1>2
    <2> HIDE DEF k
    <2> QED BY <1>3, <1>4, <2>1
  <1>6. ASSUME NEW i \in 1 .. n, NEW j \in 1 .. n
        PROVE  (i < j <=> s[i] \in below[s[j]]) /\ (s[i] = s[j] => i = j)
    BY <1>2, <1>3
  <1> QED BY <1>3, <1>5, <1>6, FS_CardinalityType DEF n

(* Where an order is strict and total, all members are there, each once,   *)
(* and each comes before those it should.                                  *)
LEMMA InOrderIs ==
    ASSUME NEW S, IsFiniteSet(S), NEW R,
           \A x \in S : <<x, x>> \notin R,
           \A x, y, z \in S :
               <<x, y>> \in R /\ <<y, z>> \in R => <<x, z>> \in R,
           \A x, y \in S : x = y \/ <<x, y>> \in R \/ <<y, x>> \in R
    PROVE  /\ Cardinality(S) \in Nat
           /\ InOrder(S, R) \in [1 .. Cardinality(S) -> S]
           /\ \A x \in S : \E i \in 1 .. Cardinality(S) : InOrder(S, R)[i] = x
           /\ \A i, j \in 1 .. Cardinality(S) :
                 /\ i < j <=> <<InOrder(S, R)[i], InOrder(S, R)[j]>> \in R
                 /\ InOrder(S, R)[i] = InOrder(S, R)[j] => i = j
  <1> DEFINE below == [x \in S |-> {y \in S : <<y, x>> \in R}]
             n == Cardinality(S)
             s == InOrder(S, R)
  <1>1. /\ below \in [S -> SUBSET S]
        /\ \A x \in S : x \notin below[x]
        /\ \A x, z \in S : x \in below[z] => below[x] \subseteq below[z]
        /\ \A x, z \in S : x = z \/ x \in below[z] \/ z \in below[x]
    OBVIOUS
  <1>2. s = [k \in 1 .. n |-> CHOOSE x \in S :
                Cardinality({y \in S : <<y, x>> \in R}) = k - 1]
    BY DEF InOrder
  <1>3. ASSUME NEW k \in 1 .. n, \E x \in S : Cardinality(below[x]) = k - 1
        PROVE  s[k] \in S /\ Cardinality(below[s[k]]) = k - 1
    <2> HIDE DEF s
    <2> QED BY <1>2, <1>3
  <1>4. s = [k \in 1 .. n |-> s[k]]
    BY <1>2
  <1>5. \A x, z \in S : x \in below[z] <=> <<x, z>> \in R
    OBVIOUS
  <1> HIDE DEF s, below
  <1>6. /\ n \in Nat
        /\ s \in [1 .. n -> S]
        /\ \A x \in S : \E i \in 1 .. n : s[i] = x
        /\ \A i, j \in 1 .. n :
              (i < j <=> s[i] \in below[s[j]]) /\ (s[i] = s[j] => i = j)
    BY <1>1, <1>3, <1>4, Ranked
  <1> QED BY <1>5, <1>6 DEF s

(* Ascending lists the numbers of a finite set once each, upwards (sorted). *)
LEMMA AscendingIs ==
    ASSUME NEW S \in SUBSET Int, IsFiniteSet(S)
    PROVE  /\ Cardinality(S) \in Nat
           /\ Ascending(S) \in [1 .. Cardinality(S) -> S]
           /\ \A x \in S : \E i \in 1 .. Cardinality(S) : Ascending(S)[i] = x
           /\ \A i, j \in 1 .. Cardinality(S) :
                 /\ i < j <=> Ascending(S)[i] < Ascending(S)[j]
                 /\ Ascending(S)[i] = Ascending(S)[j] => i = j
  <1> DEFINE below == [x \in S |-> {y \in S : y < x}]
             n == Cardinality(S)
             s == Ascending(S)
  <1>1. /\ below \in [S -> SUBSET S]
        /\ \A x \in S : x \notin below[x]
        /\ \A x, z \in S : x \in below[z] => below[x] \subseteq below[z]
        /\ \A x, z \in S : x = z \/ x \in below[z] \/ z \in below[x]
    <2>1. below \in [S -> SUBSET S]
      OBVIOUS
    <2>2. \A x, z \in S : x \in below[z] <=> x < z
      OBVIOUS
    <2>3. \A z \in S : below[z] \subseteq S
      OBVIOUS
    <2>4. \A x, y, z \in S : x < y /\ y < z => x < z
      OBVIOUS
    <2> HIDE DEF below
    <2>5. \A x, z \in S : x \in below[z] => below[x] \subseteq below[z]
      BY <2>2, <2>3, <2>4
    <2> QED BY <2>1, <2>2, <2>5
  <1>2. s = [k \in 1 .. n |->
                CHOOSE x \in S : Cardinality({y \in S : y < x}) = k - 1]
    BY DEF Ascending
  <1>3. ASSUME NEW k \in 1 .. n, \E x \in S : Cardinality(below[x]) = k - 1
        PROVE  s[k] \in S /\ Cardinality(below[s[k]]) = k - 1
    <2> HIDE DEF s
    <2> QED BY <1>2, <1>3
  <1>4. s = [k \in 1 .. n |-> s[k]]
    BY <1>2
  <1>5. \A x, z \in S : x \in below[z] <=> x < z
    OBVIOUS
  <1> HIDE DEF s, below
  <1>6. /\ n \in Nat
        /\ s \in [1 .. n -> S]
        /\ \A x \in S : \E i \in 1 .. n : s[i] = x
        /\ \A i, j \in 1 .. n :
              (i < j <=> s[i] \in below[s[j]]) /\ (s[i] = s[j] => i = j)
    BY <1>1, <1>3, <1>4, Ranked
  <1> QED BY <1>5, <1>6 DEF s

(* The elements of a sequence at some of its places.                       *)
LEMMA AtIs ==
    ASSUME NEW T, NEW seq \in Seq(T), NEW P \in SUBSET DOMAIN seq
    PROVE  /\ IsFiniteSet(P) /\ P \in SUBSET Nat
           /\ Cardinality(P) \in Nat
           /\ At(seq, P) \in Seq(T)
           /\ Len(At(seq, P)) = Cardinality(P)
           /\ \A i \in 1 .. Cardinality(P) :
                 Ascending(P)[i] \in P /\ At(seq, P)[i] = seq[Ascending(P)[i]]
           /\ ToSet(At(seq, P)) = {seq[k] : k \in P}
  <1>1. PICK n \in Nat : n = Len(seq)
    OBVIOUS
  <1>2. DOMAIN seq = 1 .. n /\ \A k \in 1 .. n : seq[k] \in T
    BY <1>1
  <1>3. IsFiniteSet(P) /\ P \in SUBSET Nat
    BY <1>2, FS_BoundedSetOfNaturals
  <1> DEFINE c == Cardinality(P)
             s == Ascending(P)
  <1>4. /\ c \in Nat
        /\ s \in [1 .. c -> P]
        /\ \A x \in P : \E i \in 1 .. c : s[i] = x
    BY <1>3, AscendingIs
  <1>5. At(seq, P) = [i \in 1 .. c |-> seq[s[i]]]
    BY <1>4 DEF At
  <1> HIDE DEF c, s
  <1>6. \A i \in 1 .. c : s[i] \in P /\ At(seq, P)[i] = seq[s[i]]
    BY <1>4, <1>5
  <1>7. At(seq, P) \in [1 .. c -> T]
    BY <1>2, <1>4, <1>5
  <1>8. ToSet(At(seq, P)) = {seq[k] : k \in P}
    <2>1. ToSet(At(seq, P)) = {At(seq, P)[i] : i \in 1 .. c}
      BY <1>7 DEF ToSet
    <2> QED BY <1>4, <1>6, <2>1
  <1> QED BY <1>3, <1>4, <1>6, <1>7, <1>8 DEF c, s

(* Running totals of lengths exist, so that a concatenation can be cut at   *)
(* them.                                                                    *)
LEMMA Offsets ==
    ASSUME NEW len \in [Nat -> Nat]
    PROVE  \E off \in [Nat -> Nat] :
              off[0] = 0 /\ \A i \in Nat : off[i + 1] = off[i] + len[i + 1]
  <1> DEFINE step == [i \in Nat |-> [m \in Nat |-> m + len[i]]]
  <1>1. step \in [Nat -> [Nat -> Nat]]
    OBVIOUS
  <1>2. \A i, m \in Nat : step[i][m] = m + len[i]
    OBVIOUS
  <1> HIDE DEF step
  <1>3. Recurs(Nat, 0, step)
    BY <1>1, Recursion
  <1>4. PICK g \in [Nat -> Nat] :
             /\ g[0] = 0
             /\ \A i \in Nat : g[i + 1] = step[i + 1][g[i]]
    BY <1>3 DEF Recurs
  <1>5. ASSUME NEW i \in Nat PROVE g[i + 1] = g[i] + len[i + 1]
    <2>1. g[i] \in Nat /\ i + 1 \in Nat
      BY <1>4
    <2> QED BY <1>2, <1>4, <2>1
  <1> QED BY <1>4, <1>5

(* The running concatenation of the members of a sequence exists.           *)
LEMMA Concats ==
    ASSUME NEW T, NEW q \in [Nat -> Seq(T)]
    PROVE  \E g \in [Nat -> Seq(T)] :
              g[0] = <<>> /\ \A i \in Nat : g[i + 1] = g[i] \o q[i + 1]
  <1> DEFINE step == [i \in Nat |-> [s \in Seq(T) |-> s \o q[i]]]
  <1>1. step \in [Nat -> [Seq(T) -> Seq(T)]]
    <2> SUFFICES ASSUME NEW i \in Nat, NEW s \in Seq(T) PROVE s \o q[i] \in Seq(T)
      OBVIOUS
    <2> QED BY ConcatProperties
  <1>2. \A i \in Nat, s \in Seq(T) : step[i][s] = s \o q[i]
    OBVIOUS
  <1> HIDE DEF step
  <1>3. <<>> \in Seq(T)
    OBVIOUS
  <1>4. Recurs(Seq(T), <<>>, step)
    BY <1>3, <1>1, Recursion
  <1>5. PICK g \in [Nat -> Seq(T)] :
             /\ g[0] = <<>>
             /\ \A i \in Nat : g[i + 1] = step[i + 1][g[i]]
    BY <1>4 DEF Recurs
  <1>6. ASSUME NEW i \in Nat PROVE g[i + 1] = g[i] \o q[i + 1]
    <2>1. g[i] \in Seq(T) /\ i + 1 \in Nat
      OBVIOUS
    <2> QED BY <1>2, <1>5, <2>1
  <1> QED BY <1>5, <1>6

(* The two parts of a concatenation.                                       *)
LEMMA ConcatIs ==
    ASSUME NEW T, NEW s \in Seq(T), NEW t \in Seq(T)
    PROVE  /\ Len(s) \in Nat /\ Len(t) \in Nat
           /\ s \o t \in Seq(T)
           /\ Len(s \o t) = Len(s) + Len(t)
           /\ \A x \in 1 .. Len(s) : (s \o t)[x] = s[x]
           /\ \A x \in 1 .. Len(t) : (s \o t)[Len(s) + x] = t[x]
  <1>1. PICK m \in Nat, k \in Nat : m = Len(s) /\ k = Len(t)
    OBVIOUS
  <1>2. /\ s \o t \in Seq(T)
        /\ Len(s \o t) = m + k
        /\ \A x \in 1 .. m + k : (s \o t)[x] = IF x <= m THEN s[x] ELSE t[x - m]
    BY <1>1, ConcatProperties
  <1>3. ASSUME NEW x \in 1 .. m PROVE (s \o t)[x] = s[x]
    BY <1>2
  <1>4. ASSUME NEW x \in 1 .. k PROVE (s \o t)[m + x] = t[x]
    BY <1>2
  <1> QED BY <1>1, <1>2, <1>3, <1>4

(* g runs through the concatenations of q, and off through their lengths;  *)
(* so a part that is in one of them is in all that follow, where it was.   *)
Appends(g, q) == \A i \in Nat : g[i + 1] = g[i] \o q[i + 1]
Adds(off, q) == \A i \in Nat : off[i + 1] = off[i] + Len(q[i + 1])

Grows(g, off, q, T) ==
    /\ q \in [Nat -> Seq(T)] /\ g \in [Nat -> Seq(T)] /\ off \in [Nat -> Nat]
    /\ off[0] = 0 /\ g[0] = <<>> /\ Appends(g, q) /\ Adds(off, q)

PartIn(s, at, part, n) ==
    at + Len(part) <= n /\ \A j \in 1 .. Len(part) : s[at + j] = part[j]

(* A part of a sequence stays where it is when more is appended.            *)
LEMMA PartStays ==
    ASSUME NEW T, NEW s \in Seq(T), NEW t \in Seq(T), NEW part \in Seq(T),
           NEW at \in Nat, PartIn(s, at, part, Len(s))
    PROVE  PartIn(s \o t, at, part, Len(s) + Len(t))
  <1>1. PICK m \in Nat, k \in Nat, l \in Nat :
            m = Len(s) /\ k = Len(t) /\ l = Len(part)
    OBVIOUS
  <1>2. at + l <= m /\ \A j \in 1 .. l : s[at + j] = part[j]
    BY <1>1 DEF PartIn
  <1>3. ASSUME NEW j \in 1 .. l PROVE (s \o t)[at + j] = part[j]
    BY <1>1, <1>2, ConcatIs
  <1> QED BY <1>1, <1>2, <1>3 DEF PartIn

(* A running concatenation holds each of its parts at the total before it.  *)
LEMMA GrowsIs ==
    ASSUME NEW T, NEW q, NEW g, NEW off, Grows(g, off, q, T)
    PROVE  \A i \in Nat :
              /\ Len(g[i]) = off[i]
              /\ \A h \in Nat : h < i => PartIn(g[i], off[h], q[h + 1], off[i])
  <1> DEFINE Good(i) ==
                  /\ Len(g[i]) = off[i]
                  /\ \A h \in Nat : h < i => PartIn(g[i], off[h], q[h + 1], off[i])
             W == {i \in Nat : Good(i)}
  <1>1. /\ \A i \in Nat : g[i] \in Seq(T) /\ q[i] \in Seq(T) /\ off[i] \in Nat
        /\ off[0] = 0 /\ g[0] = <<>>
    BY DEF Grows
  <1>2. 0 \in W
    BY <1>1
  <1>3. ASSUME NEW i \in Nat, Good(i) PROVE Good(i + 1)
    <2>1. PICK s \in Seq(T), t \in Seq(T) : s = g[i] /\ t = q[i + 1]
      BY <1>1
    <2>2. PICK m \in Nat, k \in Nat : m = Len(s) /\ k = Len(t)
      OBVIOUS
    <2>3. off[i] = m
      BY <1>3, <2>1, <2>2
    <2>4. off[i + 1] = m + k
      BY <2>1, <2>2, <2>3 DEF Grows, Adds
    <2>5. Len(s \o t) = m + k /\ \A x \in 1 .. k : (s \o t)[m + x] = t[x]
      BY <2>2, ConcatIs
    <2>6. ASSUME NEW h \in Nat, h < i + 1
          PROVE  PartIn(s \o t, off[h], q[h + 1], m + k)
      <3>1. CASE h = i
        <4>1. PartIn(s \o t, m, t, m + k)
          BY <2>2, <2>5 DEF PartIn
        <4> QED BY <2>1, <2>3, <3>1, <4>1
      <3>2. CASE h < i
        <4>1. PartIn(s, off[h], q[h + 1], m)
          BY <1>3, <2>1, <2>3, <3>2
        <4>2. q[h + 1] \in Seq(T) /\ off[h] \in Nat
          BY <1>1
        <4> QED BY <2>2, <4>1, <4>2, PartStays
      <3> QED BY <2>6, <3>1, <3>2
    <2> QED BY <2>1, <2>4, <2>5, <2>6 DEF Grows, Appends
  <1>4. \A i \in Nat : i \in W => i + 1 \in W
    <2> HIDE DEF Good
    <2> QED BY <1>3
  <1>5. Nat \subseteq W
    <2> HIDE DEF W
    <2> QED BY <1>2, <1>4, Induction
  <1> QED BY <1>5

(* Where each part of a sequence of n sequences begins in f.               *)
Flat(f, p, n, off) ==
    /\ off \in [Nat -> Nat] /\ off[0] = 0 /\ Len(f) = off[n]
    /\ \A h \in Nat : h < n => /\ off[h + 1] = off[h] + Len(p[h + 1])
                               /\ PartIn(f, off[h], p[h + 1], off[n])

(* Only the first n parts count.                                           *)
AlikeUpTo(p, q, n) == \A i \in 1 .. n : q[i] = p[i]

(* FlattenSeq is the running concatenation at its last member.              *)
LEMMA FlattenRuns ==
    ASSUME NEW n \in Nat, n # 0, NEW p, NEW q, NEW g,
           AlikeUpTo(p, q, n), Len(p) = n,
           Appends(g, q), g[1] = p[1]
    PROVE  FlattenSeq(p) = g[n]
  <1> DEFINE Eq(f) == f = [i \in 1 .. n |-> IF i = 1 THEN p[i]
                                            ELSE f[i - 1] \o p[i]]
             F == CHOOSE f : Eq(f)
             f0 == [i \in 1 .. n |-> g[i]]
  <1>1. FlattenSeq(p) = F[n]
    BY DEF FlattenSeq
  <1>2. ASSUME NEW i \in 1 .. n, i # 1 PROVE g[i] = g[i - 1] \o p[i]
    <2>1. i - 1 \in Nat /\ (i - 1) + 1 = i
      OBVIOUS
    <2> QED BY <2>1 DEF Appends, AlikeUpTo
  <1>3. Eq(f0)
    <2>1. ASSUME NEW i \in 1 .. n
          PROVE  g[i] = IF i = 1 THEN p[i] ELSE f0[i - 1] \o p[i]
      <3>1. CASE i = 1
        BY <3>1
      <3>2. CASE i # 1
        <4>1. f0[i - 1] = g[i - 1]
          BY <3>2
        <4> HIDE DEF f0
        <4> QED BY <1>2, <3>2, <4>1
      <3> QED BY <3>1, <3>2
    <2> QED BY <2>1
  <1>4. Eq(F)
    <2> HIDE DEF Eq
    <2> QED BY <1>3
  <1> HIDE DEF F, f0
  <1>5. \A i \in 1 .. n : F[i] = IF i = 1 THEN p[i] ELSE F[i - 1] \o p[i]
    BY <1>4
  <1> HIDE DEF Eq
  <1> DEFINE V == {m \in Nat : m + 1 <= n => F[m + 1] = g[m + 1]}
  <1>6. 0 \in V
    BY <1>5
  <1>7. ASSUME NEW m \in Nat, m \in V PROVE m + 1 \in V
    <2> SUFFICES ASSUME m + 2 <= n PROVE F[m + 2] = g[m + 2]
      OBVIOUS
    <2>1. m + 2 \in 1 .. n /\ m + 2 # 1 /\ (m + 2) - 1 = m + 1 /\ m + 1 <= n
      OBVIOUS
    <2>2. F[m + 1] = g[m + 1]
      BY <1>7, <2>1
    <2> HIDE DEF V
    <2>3. g[m + 2] = g[m + 1] \o p[m + 2]
      BY <1>2, <2>1
    <2> QED BY <1>5, <2>1, <2>2, <2>3
  <1>8. Nat \subseteq V
    <2> HIDE DEF V
    <2> QED BY <1>6, <1>7, Induction
  <1> QED BY <1>1, <1>8

(* A flattened sequence is made of its parts, one after the other at their  *)
(* offsets.                                                                 *)
LEMMA FlattenIs ==
    ASSUME NEW T, NEW n \in Nat, NEW p \in [1 .. n -> Seq(T)]
    PROVE  /\ FlattenSeq(p) \in Seq(T)
           /\ \E off : Flat(FlattenSeq(p), p, n, off)
  <1> DEFINE q == [i \in Nat |-> IF i \in 1 .. n THEN p[i] ELSE <<>>]
             len == [i \in Nat |-> Len(q[i])]
  <1>1. q \in [Nat -> Seq(T)] /\ AlikeUpTo(p, q, n)
    BY DEF AlikeUpTo
  <1> HIDE DEF q
  <1>2. len \in [Nat -> Nat]
    BY <1>1
  <1>3. \A i \in Nat : len[i] = Len(q[i])
    OBVIOUS
  <1> HIDE DEF len
  <1>4. PICK off \in [Nat -> Nat] : off[0] = 0 /\ Adds(off, q)
    <2>1. PICK off \in [Nat -> Nat] :
             off[0] = 0 /\ \A i \in Nat : off[i + 1] = off[i] + len[i + 1]
      BY <1>2, Offsets
    <2>2. ASSUME NEW i \in Nat PROVE off[i + 1] = off[i] + Len(q[i + 1])
      <3>1. i + 1 \in Nat
        OBVIOUS
      <3> QED BY <1>3, <2>1, <3>1
    <2> QED BY <2>1, <2>2 DEF Adds
  <1>5. PICK g \in [Nat -> Seq(T)] : g[0] = <<>> /\ Appends(g, q)
    <2>1. PICK g \in [Nat -> Seq(T)] :
             g[0] = <<>> /\ \A i \in Nat : g[i + 1] = g[i] \o q[i + 1]
      BY <1>1, Concats
    <2> QED BY <2>1 DEF Appends
  <1>6. /\ Len(g[n]) = off[n]
        /\ \A h \in Nat : h < n => PartIn(g[n], off[h], q[h + 1], off[n])
    BY <1>1, <1>4, <1>5, GrowsIs DEF Grows
  <1>7. FlattenSeq(p) = g[n]
    <2>1. Len(p) = n
      OBVIOUS
    <2>2. CASE n = 0
      BY <1>5, <2>1, <2>2 DEF FlattenSeq
    <2>3. CASE n # 0
      <3>1. g[0 + 1] = g[0] \o q[0 + 1]
        BY <1>5 DEF Appends
      <3>2. g[1] = p[1]
        BY <1>1, <1>5, <2>3, <3>1, ConcatEmptySeq DEF AlikeUpTo
      <3> QED BY <1>1, <1>5, <2>1, <2>3, <3>2, FlattenRuns
    <2> QED BY <2>2, <2>3
  <1>8. ASSUME NEW h \in Nat, h < n
        PROVE  /\ off[h + 1] = off[h] + Len(p[h + 1])
               /\ PartIn(g[n], off[h], p[h + 1], off[n])
    <2>1. q[h + 1] = p[h + 1]
      BY <1>1, <1>8 DEF AlikeUpTo
    <2> QED BY <1>4, <1>6, <1>8, <2>1 DEF Adds
  <1> QED BY <1>4, <1>5, <1>6, <1>7, <1>8 DEF Flat

(* The place k of the concatenation is place j of its part h + 1.          *)
Placed(f, p, n, off, k) ==
    \E h \in Nat : \E j \in Nat :
       /\ h < n /\ 1 <= j /\ j <= Len(p[h + 1])
       /\ k = off[h] + j /\ f[k] = p[h + 1][j]

(* Every place of the concatenation belongs to one place of one part.      *)
LEMMA FlatFrom ==
    ASSUME NEW T, NEW n \in Nat, NEW p \in [1 .. n -> Seq(T)], NEW f, NEW off,
           Flat(f, p, n, off), NEW k \in 1 .. Len(f)
    PROVE  Placed(f, p, n, off, k)
  <1>1. off \in [Nat -> Nat] /\ off[0] = 0 /\ Len(f) = off[n]
    BY DEF Flat
  <1> DEFINE S == {i \in Nat : k <= off[i]}
  <1>2. n \in S
    BY <1>1
  <1>3. PICK i \in S : \A m \in S : i <= m
    BY <1>2, LeastOf
  <1>4. PICK h \in Nat : i = h + 1 /\ h < n
    BY <1>1, <1>2, <1>3
  <1>5. ~ (k <= off[h]) /\ k <= off[h + 1]
    BY <1>3, <1>4
  <1>6. off[h + 1] = off[h] + Len(p[h + 1]) /\ PartIn(f, off[h], p[h + 1], off[n])
    BY <1>4 DEF Flat
  <1> HIDE DEF S
  <1>7. PICK o \in Nat : o = off[h]
    BY <1>1
  <1>8. PICK l \in Nat : l = Len(p[h + 1])
    BY <1>4, LenProperties
  <1>9. k - o \in Nat /\ 1 <= k - o /\ k - o <= l /\ o + (k - o) = k
    <2>1. PICK c \in Nat : c = Len(f)
      BY <1>1
    <2>2. PICK kk \in Nat : kk = k
      BY <2>1
    <2>3. ~ (kk <= o) /\ kk <= o + l
      BY <1>5, <1>6, <1>7, <1>8, <2>2
    <2> QED BY <2>2, <2>3
  <1>10. f[o + (k - o)] = p[h + 1][k - o]
    <2>1. k - o \in 1 .. l
      BY <1>9
    <2> QED BY <1>6, <1>7, <2>1, <1>8 DEF PartIn
  <1> QED BY <1>4, <1>7, <1>9, <1>10, <1>8 DEF Placed

SameOffsets(off, offq, n) == \A h \in Nat : h <= n => off[h] = offq[h]

(* Where the parts of two sequences are alike, so are the concatenations.  *)
LEMMA FlatAlike ==
    ASSUME NEW T, NEW n \in Nat, NEW p \in [1 .. n -> Seq(T)],
           NEW q \in [1 .. n -> Seq(T)], NEW f, NEW g, NEW off, NEW offq,
           Flat(f, p, n, off), Flat(g, q, n, offq),
           \A i \in 1 .. n : Len(p[i]) = Len(q[i])
    PROVE  SameOffsets(off, offq, n)
  <1> DEFINE S == {h \in Nat : h <= n => off[h] = offq[h]}
  <1>1. 0 \in S
    BY DEF Flat
  <1>2. ASSUME NEW h \in Nat, h \in S PROVE h + 1 \in S
    <2> SUFFICES ASSUME h + 1 <= n PROVE off[h + 1] = offq[h + 1]
      OBVIOUS
    <2> QED BY <1>2 DEF Flat
  <1>3. Nat \subseteq S
    <2> HIDE DEF S
    <2> QED BY <1>1, <1>2, Induction
  <1> QED BY <1>3 DEF SameOffsets

(* A finite set of integers that is not empty has a least and a greatest.  *)
LEMMA MaxMin ==
    ASSUME NEW S \in SUBSET Int, IsFiniteSet(S), S # {}
    PROVE  /\ Max(S) \in S /\ \A y \in S : y <= Max(S)
           /\ Min(S) \in S /\ \A y \in S : Min(S) <= y
  <1> DEFINE n == Cardinality(S)
             s == Ascending(S)
  <1>1. /\ n \in Nat
        /\ s \in [1 .. n -> S]
        /\ \A x \in S : \E i \in 1 .. n : s[i] = x
        /\ \A i, j \in 1 .. n : i < j <=> s[i] < s[j]
    BY AscendingIs
  <1> HIDE DEF n, s
  <1>2. 1 \in 1 .. n /\ n \in 1 .. n
    <2>1. PICK i : i \in 1 .. n
      BY <1>1
    <2> QED BY <1>1, <2>1
  <1>3. \E x \in S : \A y \in S : x >= y
    <2>1. s[n] \in S
      BY <1>1, <1>2
    <2>2. ASSUME NEW y \in S PROVE s[n] >= y
      <3>1. PICK i \in 1 .. n : s[i] = y
        BY <1>1
      <3>2. y \in Int /\ s[n] \in Int
        BY <2>1
      <3> QED BY <1>1, <1>2, <3>1, <3>2
    <2> QED BY <2>1, <2>2
  <1>4. \E x \in S : \A y \in S : x =< y
    <2>1. s[1] \in S
      BY <1>1, <1>2
    <2>2. ASSUME NEW y \in S PROVE s[1] =< y
      <3>1. PICK i \in 1 .. n : s[i] = y
        BY <1>1
      <3>2. y \in Int /\ s[1] \in Int
        BY <2>1
      <3> QED BY <1>1, <1>2, <3>1, <3>2
    <2> QED BY <2>1, <2>2
  <1> QED BY <1>3, <1>4 DEF Min, Max

(* The image of a finite set is finite.                                     *)
LEMMA Images ==
    ASSUME NEW S, IsFiniteSet(S), NEW f
    PROVE  IsFiniteSet({f[x] : x \in S})
  <1> DEFINE T == {f[x] : x \in S}
             h == [x \in S |-> f[x]]
  <1>1. h \in Surjection(S, T)
    BY DEF Surjection
  <1> QED BY <1>1, FS_Surjection

(* The members of a finite set, each once.                                 *)
LEMMA SetToSeqIs ==
    ASSUME NEW S, IsFiniteSet(S)
    PROVE  /\ SetToSeq(S) \in Seq(S)
           /\ ToSet(SetToSeq(S)) = S
           /\ \A i, j \in DOMAIN SetToSeq(S) :
                 SetToSeq(S)[i] = SetToSeq(S)[j] => i = j
  <1> DEFINE n == Cardinality(S)
             f == SetToSeq(S)
  <1>1. n \in Nat /\ ExistsBijection(1 .. n, S)
    BY FS_CardinalityType
  <1>2. f \in [1 .. n -> S] /\ IsInjective(f)
    BY <1>1 DEF SetToSeq, ExistsBijection, Bijection, Injection
  <1> HIDE DEF f
  <1>3. f \in Injection(1 .. n, S)
    BY <1>2 DEF Injection
  <1>4. ToSet(f) = S
    BY <1>1, <1>2, <1>3, FS_Interval, FS_Injection DEF ToSet, Surjection
  <1> QED BY <1>1, <1>2, <1>4 DEF f, IsInjective

(* The order of tuples of one length is strict and total.                  *)
LEMMA PrecedesStrict ==
    ASSUME NEW n \in Nat, NEW a \in [1 .. n -> Int]
    PROVE  ~ Precedes(a, a)
  BY DEF Precedes

(* The order of sort keys, tuples of numbers compared from the left, is     *)
(* transitive.                                                              *)
LEMMA PrecedesTransitive ==
    ASSUME NEW n \in Nat, NEW a \in [1 .. n -> Int], NEW b \in [1 .. n -> Int],
           NEW c \in [1 .. n -> Int], Precedes(a, b), Precedes(b, c)
    PROVE  Precedes(a, c)
  <1>1. PICK i \in 1 .. n : a[i] < b[i] /\ \A k \in 1 .. i - 1 : a[k] = b[k]
    BY DEF Precedes
  <1>2. PICK j \in 1 .. n : b[j] < c[j] /\ \A k \in 1 .. j - 1 : b[k] = c[k]
    BY DEF Precedes
  <1>3. CASE i <= j
    <2>1. b[i] <= c[i]
      <3>1. CASE i = j
        BY <1>2, <3>1
      <3>2. CASE i < j
        BY <1>2, <3>2
      <3> QED BY <1>3, <3>1, <3>2
    <2>2. a[i] < c[i]
      BY <1>1, <2>1
    <2>3. \A k \in 1 .. i - 1 : a[k] = c[k]
      <3> TAKE k \in 1 .. i - 1
      <3> QED BY <1>1, <1>2, <1>3
    <2> QED BY <2>2, <2>3 DEF Precedes
  <1>4. CASE j < i
    <2>1. \A k \in 1 .. j - 1 : a[k] = c[k]
      <3> TAKE k \in 1 .. j - 1
      <3> QED BY <1>1, <1>2, <1>4
    <2> QED BY <1>1, <1>2, <1>4, <2>1 DEF Precedes
  <1> QED BY <1>3, <1>4

(* Of two different keys one precedes the other.                            *)
LEMMA PrecedesTotal ==
    ASSUME NEW n \in Nat, NEW a \in [1 .. n -> Int], NEW b \in [1 .. n -> Int],
           a # b
    PROVE  Precedes(a, b) \/ Precedes(b, a)
  <1> DEFINE D == {i \in 1 .. n : a[i] # b[i]}
  <1>1. D # {}
    OBVIOUS
  <1>2. D \in SUBSET Nat
    OBVIOUS
  <1>3. PICK i \in D : \A k \in D : i <= k
    <2> HIDE DEF D
    <2> QED BY <1>1, <1>2, LeastOf
  <1>4. \A k \in 1 .. i - 1 : a[k] = b[k]
    <2> SUFFICES ASSUME NEW k \in 1 .. i - 1, a[k] # b[k] PROVE FALSE
      OBVIOUS
    <2> QED BY <1>3
  <1>5. i \in 1 .. n /\ a[i] # b[i] /\ a[i] \in Int /\ b[i] \in Int
    BY <1>3
  <1>6. CASE a[i] < b[i]
    BY <1>4, <1>5, <1>6 DEF Precedes
  <1>7. CASE b[i] < a[i]
    BY <1>4, <1>5, <1>7 DEF Precedes
  <1> QED BY <1>5, <1>6, <1>7

(* sorted() by a key that tells the members of the set apart.              *)
ByKey(S, key) == {p \in S \X S : Precedes(key[p[1]], key[p[2]])}

(* The sequence lists the set, each member once and in the order R.        *)
Lists(seq, S, R) ==
    /\ Cardinality(S) \in Nat
    /\ seq \in [1 .. Cardinality(S) -> S]
    /\ \A x \in S : \E i \in 1 .. Cardinality(S) : seq[i] = x
    /\ \A i, j \in 1 .. Cardinality(S) :
          /\ i < j <=> <<seq[i], seq[j]>> \in R
          /\ seq[i] = seq[j] => i = j

(* A finite set whose keys are all different is listed once each in the     *)
(* order of the keys (sorted with a key).                                   *)
LEMMA SortedIs ==
    ASSUME NEW S, IsFiniteSet(S), NEW w \in Nat,
           NEW key \in [S -> [1 .. w -> Int]],
           \A x, y \in S : key[x] = key[y] => x = y
    PROVE  Lists(InOrder(S, ByKey(S, key)), S, ByKey(S, key))
  <1> DEFINE R == ByKey(S, key)
  <1>1. \A x, y \in S : <<x, y>> \in R <=> Precedes(key[x], key[y])
    BY DEF ByKey
  <1>2. \A x \in S : key[x] \in [1 .. w -> Int]
    OBVIOUS
  <1> HIDE DEF R
  <1>3. \A x \in S : <<x, x>> \notin R
    BY <1>1, <1>2, PrecedesStrict
  <1>4. \A x, y, z \in S : <<x, y>> \in R /\ <<y, z>> \in R => <<x, z>> \in R
    BY <1>1, <1>2, PrecedesTransitive
  <1>5. \A x, y \in S : x = y \/ <<x, y>> \in R \/ <<y, x>> \in R
    BY <1>1, <1>2, PrecedesTotal
  <1> QED BY <1>3, <1>4, <1>5, InOrderIs DEF R, Lists

Zones == {"ioc", "excluded", "general"}

(* A heading of indicators stands above the line, and none between.        *)
Opened(body, i) ==
    \E h \in 1 .. i : /\ body[h].kind = "ioc"
                      /\ \A k \in h + 1 .. i : ~IsHeading(body[k])

(* What a line is zoned as the section above it is.                        *)
LEMMA ZoneIs ==
    ASSUME NEW body \in Seq(AnyLine), NEW n \in 1 .. Len(body)
    PROVE  /\ ZoneAt(body, n) \in Zones
           /\ ZoneAt(body, n) = "ioc" => ~body[n].related /\ Opened(body, n)
  <1> DEFINE Eq(f) == f = [i \in 0 .. n |->
                              IF i = 0 THEN "general"
                              ELSE ZoneAfter(f[i - 1], body[i])]
             F == CHOOSE f : Eq(f)
             step == [i \in Nat |-> [z \in Zones |-> ZoneAfter(z, body[i])]]
  <1>1. "general" \in Zones
    BY DEF Zones
  <1>2. step \in [Nat -> [Zones -> Zones]]
    BY DEF ZoneAfter, Zones
  <1>3. \A i \in Nat : \A z \in Zones : step[i][z] = ZoneAfter(z, body[i])
    OBVIOUS
  <1> HIDE DEF step
  <1>4. PICK g \in [Nat -> Zones] :
             g[0] = "general" /\ \A i \in Nat : g[i + 1] = step[i + 1][g[i]]
    <2>1. Recurs(Zones, "general", step)
      BY <1>1, <1>2, Recursion
    <2> QED BY <2>1 DEF Recurs
  <1>5. ASSUME NEW i \in 1 .. n PROVE g[i] = ZoneAfter(g[i - 1], body[i])
    BY <1>3, <1>4
  <1> DEFINE f0 == [i \in 0 .. n |-> g[i]]
  <1>6. Eq(f0)
    <2>1. ASSUME NEW i \in 0 .. n
          PROVE  g[i] = IF i = 0 THEN "general"
                        ELSE ZoneAfter(f0[i - 1], body[i])
      <3>1. CASE i = 0
        BY <1>4, <3>1
      <3>2. CASE i # 0
        BY <1>5, <3>2
      <3> QED BY <3>1, <3>2
    <2> QED BY <2>1
  <1>7. Eq(F)
    <2> HIDE DEF Eq
    <2> QED BY <1>6
  <1> HIDE DEF F, f0
  <1>8. /\ F[0] = "general"
        /\ \A i \in 1 .. n : F[i] = ZoneAfter(F[i - 1], body[i])
    BY <1>7
  <1>9. ZoneAt(body, n) = IF body[n].related THEN "excluded" ELSE F[n]
    BY DEF ZoneAt, F
  <1> HIDE DEF Eq
  <1> DEFINE Good(i) == F[i] \in Zones /\ (F[i] = "ioc" => Opened(body, i))
             W == {i \in Nat : i <= n => Good(i)}
  <1>10. 0 \in W
    BY <1>1, <1>8
  <1>11. ASSUME NEW i \in Nat, i + 1 <= n, Good(i) PROVE Good(i + 1)
    <2>1. F[i + 1] = ZoneAfter(F[i], body[i + 1])
      BY <1>8, <1>11
    <2>2. ASSUME F[i + 1] = "ioc" PROVE Opened(body, i + 1)
      <3>1. CASE IsHeading(body[i + 1])
        BY <2>1, <2>2, <3>1 DEF Opened, ZoneAfter
      <3>2. CASE ~ IsHeading(body[i + 1])
        <4>1. PICK h \in 1 .. i : /\ body[h].kind = "ioc"
                                  /\ \A k \in h + 1 .. i : ~IsHeading(body[k])
          BY <1>11, <2>1, <2>2, <3>2 DEF Opened, ZoneAfter
        <4>2. h \in 1 .. i + 1
          OBVIOUS
        <4>3. \A k \in h + 1 .. i + 1 : k \in h + 1 .. i \/ k = i + 1
          OBVIOUS
        <4> QED BY <3>2, <4>1, <4>2, <4>3 DEF Opened
      <3> QED BY <3>1, <3>2
    <2> QED BY <1>11, <2>1, <2>2 DEF ZoneAfter, Zones
  <1>12. \A i \in Nat : i \in W => i + 1 \in W
    <2> HIDE DEF Good
    <2> QED BY <1>11
  <1>13. Nat \subseteq W
    <2> HIDE DEF W
    <2> QED BY <1>10, <1>12, Induction
  <1>14. body[n].related \in BOOLEAN
    <2>1. body[n] \in AnyLine
      OBVIOUS
    <2> QED BY <2>1 DEF AnyLine
  <1> QED BY <1>9, <1>13, <1>14 DEF Zones

(* A span that a line keeps is one of its spans.                           *)
LEMMA LineMatchesIs ==
    ASSUME NEW line \in AnyLine
    PROVE  /\ LineMatches(line) \in Seq(AnyMatch)
           /\ ToSet(LineMatches(line)) \subseteq ToSet(line.spans)
  <1>1. PICK spans \in Seq(AnyMatch), m \in Nat :
             spans = line.spans /\ m = Len(spans)
    <2>1. line.spans \in Seq(AnyMatch)
      <3> USE DEF AnyLine
      <3> HIDE DEF AnyMatch, AnyClaim
      <3> QED OBVIOUS
    <2>2. PICK spans \in Seq(AnyMatch) : spans = line.spans
      BY <2>1
    <2> QED BY <2>2
  <1> DEFINE free(S, k) == /\ ~Refused(spans[k])
                           /\ \A j \in S : ~Overlaps(spans[j], spans[k])
             Sets == SUBSET (1 .. m)
             Eq(f) == f = [k \in 0 .. m |->
                           IF k = 0 THEN {}
                           ELSE f[k - 1] \cup {j \in {k} : free(f[k - 1], j)}]
             F == CHOOSE f : Eq(f)
             step == [k \in Nat |-> [S \in Sets |->
                        IF k \in 1 .. m THEN S \cup {j \in {k} : free(S, j)}
                        ELSE S]]
  <1>2. step \in [Nat -> [Sets -> Sets]]
    <2> SUFFICES ASSUME NEW k \in Nat, NEW S \in Sets, k \in 1 .. m
                 PROVE  S \cup {j \in {k} : free(S, j)} \in Sets
      OBVIOUS
    <2> HIDE DEF free
    <2> QED OBVIOUS
  <1>3. \A k \in 1 .. m : \A S \in Sets :
            step[k][S] = S \cup {j \in {k} : free(S, j)}
    <2> HIDE DEF free
    <2> QED OBVIOUS
  <1> HIDE DEF step, free
  <1>4. PICK g \in [Nat -> Sets] :
             g[0] = {} /\ \A k \in Nat : g[k + 1] = step[k + 1][g[k]]
    <2>1. {} \in Sets
      OBVIOUS
    <2> HIDE DEF Sets
    <2>2. Recurs(Sets, {}, step)
      BY <1>2, <2>1, Recursion
    <2> QED BY <2>2 DEF Recurs
  <1>5. ASSUME NEW k \in 1 .. m
        PROVE  g[k] = g[k - 1] \cup {j \in {k} : free(g[k - 1], j)}
    <2>1. k - 1 \in Nat /\ (k - 1) + 1 = k
      OBVIOUS
    <2> HIDE DEF Sets
    <2>2. g[k] = step[k][g[k - 1]]
      BY <1>4, <2>1
    <2> QED BY <1>3, <2>1, <2>2
  <1> DEFINE f0 == [k \in 0 .. m |-> g[k]]
  <1>6. Eq(f0)
    <2>1. ASSUME NEW k \in 0 .. m
          PROVE  g[k] = IF k = 0 THEN {}
                        ELSE f0[k - 1] \cup {j \in {k} : free(f0[k - 1], j)}
      <3>1. CASE k = 0
        BY <1>4, <3>1
      <3>2. CASE k # 0
        <4>1. k \in 1 .. m /\ k - 1 \in 0 .. m
          BY <3>2
        <4>2. f0[k - 1] = g[k - 1]
          BY <4>1
        <4> HIDE DEF f0
        <4> QED BY <1>5, <3>2, <4>1, <4>2
      <3> QED BY <3>1, <3>2
    <2> QED BY <2>1
  <1>7. Eq(F)
    <2> HIDE DEF Eq
    <2> QED BY <1>6
  <1>8. LineMatches(line) = At(spans, F[m])
    BY <1>1 DEF LineMatches, F, free
  <1> HIDE DEF F, f0
  <1>9. /\ F[0] = {}
        /\ \A k \in 1 .. m :
              F[k] = F[k - 1] \cup {j \in {k} : free(F[k - 1], j)}
    <2>1. F[0] = {}
      BY <1>7
    <2>2. ASSUME NEW k \in 1 .. m
          PROVE  F[k] = F[k - 1] \cup {j \in {k} : free(F[k - 1], j)}
      <3>1. k \in 0 .. m /\ k # 0
        OBVIOUS
      <3>2. F = [i \in 0 .. m |->
                  IF i = 0 THEN {}
                  ELSE F[i - 1] \cup {j \in {i} : free(F[i - 1], j)}]
        BY <1>7
      <3> QED BY <3>1, <3>2, Zenon
    <2> QED BY <2>1, <2>2
  <1> HIDE DEF Eq
  <1> DEFINE W == {k \in Nat : k <= m => F[k] \subseteq 1 .. m}
  <1>10. 0 \in W
    BY <1>9
  <1>11. ASSUME NEW k \in Nat, k \in W PROVE k + 1 \in W
    <2> SUFFICES ASSUME k + 1 <= m PROVE F[k + 1] \subseteq 1 .. m
      OBVIOUS
    <2> QED BY <1>9, <1>11
  <1>12. Nat \subseteq W
    <2> HIDE DEF W
    <2> QED BY <1>10, <1>11, Induction
  <1>13. F[m] \in SUBSET DOMAIN spans
    BY <1>1, <1>12
  <1>14. /\ At(spans, F[m]) \in Seq(AnyMatch)
         /\ ToSet(At(spans, F[m])) = {spans[k] : k \in F[m]}
    BY <1>13, AtIs
  <1>15. ToSet(At(spans, F[m])) \subseteq ToSet(spans)
    BY <1>13, <1>14 DEF ToSet
  <1> QED BY <1>1, <1>8, <1>14, <1>15

(* What a concatenation holds is what its parts hold.                      *)
LEMMA FlatMembers ==
    ASSUME NEW T, NEW n \in Nat, NEW p \in [1 .. n -> Seq(T)]
    PROVE  ToSet(FlattenSeq(p)) = UNION {ToSet(p[i]) : i \in 1 .. n}
  <1> DEFINE f == FlattenSeq(p)
  <1>1. f \in Seq(T) /\ \E off : Flat(f, p, n, off)
    BY FlattenIs
  <1> HIDE DEF f
  <1>2. PICK off : Flat(f, p, n, off)
    BY <1>1
  <1>3. PICK len \in Nat : len = Len(f) /\ DOMAIN f = 1 .. len
    BY <1>1
  <1>4. ASSUME NEW k \in 1 .. len PROVE \E i \in 1 .. n : f[k] \in ToSet(p[i])
    <2>1. PICK h \in Nat, j \in Nat : /\ h < n /\ 1 <= j /\ j <= Len(p[h + 1])
                                      /\ f[k] = p[h + 1][j]
      <3>1. k \in 1 .. Len(f)
        BY <1>3
      <3>2. Placed(f, p, n, off, k)
        BY <1>2, <3>1, FlatFrom
      <3> QED BY <3>2 DEF Placed
    <2>2. h + 1 \in 1 .. n
      BY <2>1
    <2>3. p[h + 1] \in Seq(T)
      BY <2>2
    <2>4. j \in DOMAIN p[h + 1]
      BY <2>1, <2>3
    <2> QED BY <2>1, <2>2, <2>4 DEF ToSet
  <1>5. ASSUME NEW i \in 1 .. n, NEW x \in ToSet(p[i]) PROVE x \in ToSet(f)
    <2>1. p[i] \in Seq(T)
      OBVIOUS
    <2>2. PICK j \in 1 .. Len(p[i]) : x = p[i][j]
      BY <2>1 DEF ToSet
    <2>3. PICK h \in Nat : i = h + 1 /\ h < n
      <3>1. i - 1 \in Nat /\ i = (i - 1) + 1 /\ i - 1 < n
        OBVIOUS
      <3> QED BY <3>1
    <2>4. PartIn(f, off[h], p[i], off[n]) /\ off \in [Nat -> Nat] /\ len = off[n]
      BY <1>2, <1>3, <2>3 DEF Flat
    <2>5. PICK o \in Nat, l \in Nat : o = off[h] /\ l = Len(p[i])
      BY <2>1, <2>4, LenProperties
    <2>6. o + l <= len /\ f[o + j] = x
      BY <2>2, <2>4, <2>5 DEF PartIn
    <2>7. o + j \in 1 .. len
      BY <2>2, <2>5, <2>6
    <2> QED BY <1>3, <2>6, <2>7 DEF ToSet
  <1>6. ToSet(f) = {f[k] : k \in 1 .. len}
    BY <1>3 DEF ToSet
  <1> QED BY <1>4, <1>5, <1>6 DEF f

Reasons ==
    {"excluded_editorial_section", "publisher_domain", "unreadable_url",
     "non_public_ip", "explicit_cve_identifier", "explicit_source_label",
     "apposition_requires_human_review", "explicit_ioc_section",
     "context_requires_human_review"}

AnyFinding ==
    [type : Counted \cup {"filename"} \cup Claims, text : AnyText, line : Nat,
     status : {"confirmed", "candidate", "rejected"}, reason : Reasons]

(* The finding is what a line of the body, not a heading, made of one of   *)
(* its spans or of its claims.                                             *)
ComesFrom(e, body, hosts) ==
    \E n \in 1 .. Len(body) :
        /\ ~IsHeading(body[n])
        /\ \E s \in ToSet(body[n].spans) \cup ToSet(body[n].claims) :
              /\ \/ s \in AnyMatch /\ s \in ToSet(body[n].spans)
                 \/ s \in AnyClaim
              /\ e = Finding(body, n, s, hosts)

(* What a match or a claim in a body becomes is a finding (_classify).      *)
LEMMA FindingIs ==
    ASSUME NEW body \in Seq(AnyLine), NEW n \in 1 .. Len(body), NEW hosts,
           NEW s \in AnyMatch \cup AnyClaim
    PROVE  Finding(body, n, s, hosts) \in AnyFinding
  <1> DEFINE v == Classify(ZoneAt(body, n), s, hosts)
             Some(a, b) == v = <<a, b>>
  <1>1. \/ Some("rejected", "excluded_editorial_section")
        \/ Some("rejected", "publisher_domain")
        \/ Some("rejected", "unreadable_url")
        \/ Some("rejected", "non_public_ip")
        \/ Some("confirmed", "explicit_cve_identifier")
        \/ Some("candidate", "apposition_requires_human_review")
        \/ Some("confirmed", "explicit_source_label")
        \/ Some("confirmed", "explicit_ioc_section")
        \/ Some("candidate", "context_requires_human_review")
    BY Zenon DEF Classify
  <1> HIDE DEF v
  <1>2. v[1] \in {"confirmed", "candidate", "rejected"} /\ v[2] \in Reasons
    <2>1. \A a, b : Some(a, b) => v[1] = a /\ v[2] = b
      OBVIOUS
    <2> HIDE DEF Some, v
    <2> QED BY <1>1, <2>1 DEF Reasons
  <1> QED BY <1>2 DEF Finding, AnyFinding, v, AnyMatch, AnyClaim, TypeOf

(* The findings of a line come from that line's matches and claims.         *)
LEMMA LineEvidenceIs ==
    ASSUME NEW body \in Seq(AnyLine), NEW n \in 1 .. Len(body), NEW hosts
    PROVE  /\ LineEvidence(body, n, hosts) \in Seq(AnyFinding)
           /\ \A e \in ToSet(LineEvidence(body, n, hosts)) :
                 ComesFrom(e, body, hosts)
  <1>1. CASE IsHeading(body[n])
    BY <1>1 DEF ToSet, LineEvidence
  <1>2. CASE ~ IsHeading(body[n])
    <2>1. body[n] \in AnyLine
      OBVIOUS
    <2>2. PICK kept \in Seq(AnyMatch), claims \in Seq(AnyClaim) :
              /\ kept = LineMatches(body[n]) /\ claims = body[n].claims
              /\ ToSet(kept) \subseteq ToSet(body[n].spans)
      BY <2>1, LineMatchesIs DEF AnyLine
    <2> DEFINE T == AnyMatch \cup AnyClaim
               found == kept \o claims
    <2>3. PICK k \in Nat, c \in Nat : k = Len(kept) /\ c = Len(claims)
      OBVIOUS
    <2>4. kept \in Seq(T) /\ claims \in Seq(T)
      OBVIOUS
    <2>5. /\ found \in Seq(T) /\ Len(found) = k + c
          /\ \A x \in 1 .. k : found[x] = kept[x]
          /\ \A x \in 1 .. c : found[k + x] = claims[x]
      <3> HIDE DEF T
      <3> QED BY <2>3, <2>4, ConcatIs
    <2>6. LineEvidence(body, n, hosts) =
            [i \in DOMAIN found |-> Finding(body, n, found[i], hosts)]
      BY <1>2, <2>2 DEF LineEvidence
    <2> HIDE DEF found
    <2>7. DOMAIN found = 1 .. k + c /\ \A x \in 1 .. k + c : found[x] \in T
      BY <2>5
    <2>8. ASSUME NEW x \in 1 .. k + c
          PROVE  /\ found[x] \in ToSet(body[n].spans) \cup ToSet(claims)
                 /\ \/ found[x] \in AnyMatch /\ found[x] \in ToSet(body[n].spans)
                    \/ found[x] \in AnyClaim
      <3>1. CASE x <= k
        <4>1. x \in 1 .. k /\ x \in DOMAIN kept
          BY <2>3, <3>1
        <4>2. kept[x] \in ToSet(kept) /\ kept[x] \in AnyMatch
          BY <4>1 DEF ToSet
        <4> QED BY <2>2, <2>5, <4>1, <4>2
      <3>2. CASE ~ (x <= k)
        <4>1. PICK y \in 1 .. c : x = k + y
          BY <3>2
        <4>2. y \in DOMAIN claims
          BY <2>3
        <4> QED BY <2>5, <4>1, <4>2 DEF ToSet
      <3> QED BY <3>1, <3>2
    <2>9. ASSUME NEW x \in 1 .. k + c
          PROVE  /\ Finding(body, n, found[x], hosts) \in AnyFinding
                 /\ ComesFrom(Finding(body, n, found[x], hosts), body, hosts)
      BY <1>2, <2>2, <2>7, <2>8, FindingIs DEF ComesFrom
    <2>10. LineEvidence(body, n, hosts) \in [1 .. k + c -> AnyFinding]
      BY <2>6, <2>7, <2>9
    <2>11. LineEvidence(body, n, hosts) \in Seq(AnyFinding)
      BY <2>10
    <2> QED BY <2>6, <2>7, <2>9, <2>10, <2>11 DEF ToSet
  <1> QED BY <1>1, <1>2

(* Every finding of a body comes from one of its lines (extract_evidence).  *)
LEMMA ExtractIs ==
    ASSUME NEW body \in Seq(AnyLine), NEW hosts
    PROVE  /\ Extract(body, hosts) \in Seq(AnyFinding)
           /\ \A e \in ToSet(Extract(body, hosts)) : ComesFrom(e, body, hosts)
  <1>1. PICK n \in Nat : n = Len(body) /\ DOMAIN body = 1 .. n
    OBVIOUS
  <1> DEFINE p == [i \in 1 .. n |-> LineEvidence(body, i, hosts)]
  <1>2. \A i \in 1 .. n :
           /\ LineEvidence(body, i, hosts) \in Seq(AnyFinding)
           /\ \A e \in ToSet(LineEvidence(body, i, hosts)) :
                 ComesFrom(e, body, hosts)
    BY <1>1, LineEvidenceIs
  <1>3. p \in [1 .. n -> Seq(AnyFinding)]
    BY <1>2
  <1>4. Extract(body, hosts) = FlattenSeq(p)
    BY <1>1 DEF Extract
  <1>5. \A i \in 1 .. n : p[i] = LineEvidence(body, i, hosts)
    OBVIOUS
  <1> HIDE DEF p
  <1>6. FlattenSeq(p) \in Seq(AnyFinding)
    BY <1>3, FlattenIs
  <1>7. ToSet(FlattenSeq(p)) = UNION {ToSet(p[i]) : i \in 1 .. n}
    BY <1>3, FlatMembers
  <1> QED BY <1>2, <1>4, <1>5, <1>6, <1>7

(* What a report can hold: what is made of the articles of the feeds.      *)
Manifests == {BuildManifest(Articles[i]) : i \in DOMAIN Articles}

(* The article a manifest was made of.                                     *)
MadeOf(m, a) ==
    /\ m = BuildManifest(a)
    /\ a \in ToSet(Articles)
    /\ m.body = a.body /\ m.source = a.source /\ m.headline = a.headline
    /\ m.body \in Seq(AnyLine) /\ m.source \in DOMAIN PublisherHosts
    /\ m.url \in Int /\ m.published \in Int
    /\ a.hosts = PublisherHosts[m.source]
    /\ m.evidence \in Seq(AnyFinding)
    /\ \A e \in ToSet(m.evidence) : ComesFrom(e, m.body, Trusted(a))

(* Every article is of a registered source and carries that source's hosts. *)
LEMMA ArticleIs ==
    ASSUME NEW i \in DOMAIN Articles
    PROVE  \E s \in DOMAIN PublisherHosts : Articles[i] \in AnyArticle(s)
  BY ArticlesAssumption

(* A manifest is what an article that a feed may carry was made into.       *)
LEMMA ManifestIs ==
    ASSUME NEW m \in Manifests
    PROVE  \E a : MadeOf(m, a)
  <1>1. PICK i \in DOMAIN Articles : m = BuildManifest(Articles[i])
    BY DEF Manifests
  <1>2. PICK a : a = Articles[i]
    OBVIOUS
  <1>3. PICK s \in DOMAIN PublisherHosts : a \in AnyArticle(s)
    BY <1>2, ArticleIs
  <1>4. /\ a.body \in Seq(AnyLine) /\ a.source = s
        /\ a.url \in Int /\ a.published \in Int /\ a.page \in Int
        /\ a.hosts = PublisherHosts[s]
    BY <1>3 DEF AnyArticle
  <1>5. a \in ToSet(Articles)
    BY <1>2 DEF ToSet
  <1> QED BY <1>1, <1>2, <1>4, <1>5, ExtractIs DEF MadeOf, BuildManifest

(* Manifests of one address are of one page.                                *)
LEMMA SamePage ==
    ASSUME NEW m \in Manifests, NEW k \in Manifests, m.url = k.url
    PROVE  m.page = k.page
  <1>1. PICK i \in DOMAIN Articles : m = BuildManifest(Articles[i])
    BY DEF Manifests
  <1>2. PICK j \in DOMAIN Articles : k = BuildManifest(Articles[j])
    BY DEF Manifests
  <1> QED BY <1>1, <1>2, ArticlesAssumption DEF BuildManifest

(* Read back from a report, an article is what it was.                     *)
LEMMA ReadBack ==
    ASSUME NEW m \in Manifests
    PROVE  /\ ParsedArticle(m) \in ToSet(Articles)
           /\ BuildManifest(ParsedArticle(m)) = m
  <1>1. PICK i \in DOMAIN Articles : m = BuildManifest(Articles[i])
    BY DEF Manifests
  <1>2. PICK a : a = Articles[i]
    OBVIOUS
  <1>3. PICK s \in DOMAIN PublisherHosts : a \in AnyArticle(s)
    BY <1>2, ArticleIs
  <1> QED BY <1>1, <1>2, <1>3
             DEF ToSet, ParsedArticle, AnyArticle, BuildManifest

(* A manifest has finitely many findings, and so finitely many values.      *)
LEMMA UniqueFinite ==
    ASSUME NEW m \in Manifests, NEW status, NEW types
    PROVE  /\ IsFiniteSet(ToSet(m.evidence))
           /\ IsFiniteSet(Unique(m, status, types))
  <1>1. PICK a : MadeOf(m, a)
    BY ManifestIs
  <1>2. PICK n \in Nat : DOMAIN m.evidence = 1 .. n
    BY <1>1 DEF MadeOf
  <1>3. IsFiniteSet(DOMAIN m.evidence)
    BY <1>2, FS_Interval
  <1>4. IsFiniteSet(ToSet(m.evidence))
    BY <1>3, Images DEF ToSet
  <1> DEFINE S == {x \in ToSet(m.evidence) :
                      x.status = status /\ x.type \in types}
             f == [e \in S |-> <<e.type, e.text>>]
  <1>5. IsFiniteSet(S)
    BY <1>4, FS_Subset
  <1>6. Unique(m, status, types) = {f[e] : e \in S}
    BY DEF Unique
  <1> HIDE DEF f, S
  <1> QED BY <1>4, <1>5, <1>6, Images

(* What an article confirms is confirmed evidence of it, and all of it.    *)
LEMMA ConfirmedIs ==
    ASSUME NEW m \in Manifests
    PROVE  /\ Confirmed(m) \in Seq(AnyFinding)
           /\ \A e \in ToSet(Confirmed(m)) :
                 e \in ToSet(m.evidence) /\ e.status = "confirmed"
           /\ IsFiniteSet(ToSet(Confirmed(m)))
  <1>1. PICK a : MadeOf(m, a)
    BY ManifestIs
  <1>2. PICK ev \in Seq(AnyFinding) : ev = m.evidence
    BY <1>1 DEF MadeOf
  <1> DEFINE C == {i \in DOMAIN ev : ev[i].status = "confirmed"}
             value(i) == <<ev[i].type, ev[i].text>>
             P == {i \in C : \A j \in C : value(j) = value(i) => i <= j}
  <1>3. Confirmed(m) = At(ev, P)
    BY <1>2 DEF Confirmed
  <1>4. P \in SUBSET DOMAIN ev /\ \A i \in P : ev[i].status = "confirmed"
    OBVIOUS
  <1> HIDE DEF P
  <1>5. /\ At(ev, P) \in Seq(AnyFinding) /\ IsFiniteSet(P)
        /\ ToSet(At(ev, P)) = {ev[k] : k \in P}
    BY <1>4, AtIs
  <1>6. \A e \in ToSet(At(ev, P)) : e \in ToSet(ev) /\ e.status = "confirmed"
    BY <1>4, <1>5 DEF ToSet
  <1> QED BY <1>2, <1>3, <1>5, <1>6, Images

(* sorted() by article_sort_key tells articles of different addresses      *)
(* apart.                                                                  *)
LEMMA SortKeyIs ==
    ASSUME NEW m \in Manifests
    PROVE  SortKey(m) \in [1 .. 4 -> Int] /\ SortKey(m)[4] = -m.url
  <1>1. m.url \in Int /\ m.published \in Int
    BY ManifestIs DEF MadeOf
  <1> DEFINE S == {x \in ToSet(Confirmed(m)) : x.type = "cve"}
             f == [e \in S |-> e.text]
  <1>2. IsFiniteSet(S)
    BY ConfirmedIs, FS_Subset
  <1>3. Cves(m) = {f[e] : e \in S}
    BY DEF Cves
  <1>4. IsFiniteSet(Cves(m))
    <2> HIDE DEF f, S
    <2> QED BY <1>2, <1>3, Images
  <1>5. Cardinality(Cves(m)) \in Nat
    BY <1>4, FS_CardinalityType
  <1>6. PICK x \in Int, y \in Int, z \in Int, w \in Int :
            /\ x = -Cardinality(Cves(m))
            /\ y = -Cardinality(Unique(m, "confirmed", Counted))
            /\ z = -m.published /\ w = -m.url
    BY <1>1, <1>5, UniqueFinite, FS_CardinalityType
  <1> QED BY <1>6 DEF SortKey

(* The articles of a report are listed once each (the sort of               *)
(* collect_report).                                                         *)
LEMMA OrderedIs ==
    ASSUME NEW S \in SUBSET Manifests, IsFiniteSet(S),
           \A m, k \in S : m.url = k.url => m = k
    PROVE  /\ Ordered(S) \in Seq(S)
           /\ ToSet(Ordered(S)) = S
           /\ \A i, j \in DOMAIN Ordered(S) :
                 Ordered(S)[i] = Ordered(S)[j] => i = j
  <1> DEFINE key == [m \in S |-> SortKey(m)]
             n == Cardinality(S)
  <1>1. key \in [S -> [1 .. 4 -> Int]]
    BY SortKeyIs
  <1>2. \A x, y \in S : key[x] = key[y] => x = y
    <2> SUFFICES ASSUME NEW x \in S, NEW y \in S, SortKey(x) = SortKey(y)
                 PROVE  x = y
      OBVIOUS
    <2> QED BY SortKeyIs, ManifestIs DEF MadeOf
  <1>3. Ordered(S) = InOrder(S, ByKey(S, key))
    <2>1. \A p \in S \X S : key[p[1]] = SortKey(p[1]) /\ key[p[2]] = SortKey(p[2])
      OBVIOUS
    <2> HIDE DEF key
    <2> QED BY <2>1 DEF Ordered, ByKey
  <1> HIDE DEF key
  <1>4. /\ n \in Nat
        /\ Ordered(S) \in [1 .. n -> S]
        /\ \A x \in S : \E i \in 1 .. n : Ordered(S)[i] = x
        /\ \A i, j \in 1 .. n : Ordered(S)[i] = Ordered(S)[j] => i = j
    <2>1. PICK w \in Nat : w = 4
      OBVIOUS
    <2>2. key \in [S -> [1 .. w -> Int]]
      BY <1>1, <2>1
    <2>3. Lists(Ordered(S), S, ByKey(S, key))
      BY <1>2, <1>3, <2>2, SortedIs
    <2> QED BY <2>3 DEF Lists
  <1> HIDE DEF n
  <1> QED BY <1>4 DEF ToSet

(* A confirmed finding's line is one the local window looks at.            *)
LEMMA ConfirmedLine ==
    ASSUME NEW m \in Manifests, NEW e \in ToSet(m.evidence),
           e.status = "confirmed"
    PROVE  \E n \in DOMAIN m.body :
              /\ ~IsHeading(m.body[n]) /\ ZoneAt(m.body, n) # "excluded"
              /\ \E s \in ToSet(m.body[n].spans) \cup ToSet(m.body[n].claims) :
                    s.text = e.text
  <1>1. PICK a : MadeOf(m, a)
    BY ManifestIs
  <1>2. m.body \in Seq(AnyLine) /\ ComesFrom(e, m.body, Trusted(a))
    BY <1>1 DEF MadeOf
  <1>3. PICK n \in 1 .. Len(m.body) :
            /\ ~IsHeading(m.body[n])
            /\ \E s \in ToSet(m.body[n].spans) \cup ToSet(m.body[n].claims) :
                  e = Finding(m.body, n, s, Trusted(a))
    BY <1>2 DEF ComesFrom
  <1> PICK s \in ToSet(m.body[n].spans) \cup ToSet(m.body[n].claims) :
            e = Finding(m.body, n, s, Trusted(a))
    BY <1>3
  <1>4. ZoneAt(m.body, n) # "excluded"
    <2> SUFFICES ASSUME ZoneAt(m.body, n) = "excluded" PROVE FALSE
      OBVIOUS
    <2> QED BY DEF Finding, Classify
  <1> QED BY <1>2, <1>3, <1>4 DEF Finding

(* What either of two sequences holds, their concatenation holds.           *)
LEMMA JoinedMembers ==
    ASSUME NEW T, NEW s \in Seq(T), NEW t \in Seq(T),
           NEW x \in ToSet(s) \cup ToSet(t)
    PROVE  x \in ToSet(s \o t)
  <1>1. PICK m \in Nat, k \in Nat :
             m = Len(s) /\ k = Len(t) /\ DOMAIN s = 1 .. m /\ DOMAIN t = 1 .. k
    OBVIOUS
  <1>2. /\ s \o t \in Seq(T) /\ Len(s \o t) = m + k
        /\ \A i \in 1 .. m : (s \o t)[i] = s[i]
        /\ \A i \in 1 .. k : (s \o t)[m + i] = t[i]
    BY <1>1, ConcatIs
  <1>3. DOMAIN (s \o t) = 1 .. m + k
    BY <1>2
  <1>4. CASE x \in ToSet(s)
    <2>1. PICK i \in 1 .. m : x = s[i]
      BY <1>1, <1>4 DEF ToSet
    <2>2. i \in 1 .. m + k
      OBVIOUS
    <2> QED BY <1>2, <1>3, <2>1, <2>2 DEF ToSet
  <1>5. CASE x \in ToSet(t)
    <2>1. PICK i \in 1 .. k : x = t[i]
      BY <1>1, <1>5 DEF ToSet
    <2>2. m + i \in 1 .. m + k
      OBVIOUS
    <2> QED BY <1>2, <1>3, <2>1, <2>2 DEF ToSet
  <1> QED BY <1>4, <1>5

(* The window around a confirmed finding has a line and so a score.        *)
LEMMA LocalCvssIs ==
    ASSUME NEW m \in Manifests, NEW e \in ToSet(m.evidence),
           e.status = "confirmed"
    PROVE  LocalCvss(m, e) \in Nat
  <1>1. PICK a : MadeOf(m, a)
    BY ManifestIs
  <1>2. PICK body \in Seq(AnyLine), len \in Nat :
            body = m.body /\ DOMAIN body = 1 .. len
    <2>1. PICK body \in Seq(AnyLine) : body = m.body
      BY <1>1 DEF MadeOf
    <2> QED BY <2>1
  <1> DEFINE P == {n \in DOMAIN body :
                      ~IsHeading(body[n]) /\ ZoneAt(body, n) # "excluded"}
             kept == Ascending(P)
             c == Cardinality(P)
             hits == {k \in DOMAIN kept : Mentions(body[kept[k]], e.text)}
  <1>3. P \in SUBSET Int /\ IsFiniteSet(P)
    BY <1>2, FS_Interval, FS_Subset
  <1>4. PICK n \in P : \E s \in ToSet(body[n].spans) \cup ToSet(body[n].claims) :
                          s.text = e.text
    BY <1>2, ConfirmedLine
  <1>5. P \subseteq DOMAIN body
    OBVIOUS
  <1>6. KeptLines(m.body) = kept
    BY <1>2 DEF KeptLines
  <1> HIDE DEF P
  <1>7. /\ c \in Nat /\ kept \in [1 .. c -> P]
        /\ \A x \in P : \E i \in 1 .. c : kept[i] = x
    BY <1>3, AscendingIs
  <1> HIDE DEF c, kept
  <1>8. PICK k \in 1 .. c : kept[k] = n
    BY <1>7
  <1>9. Mentions(body[n], e.text)
    <2>1. body[n] \in AnyLine
      BY <1>5
    <2> DEFINE T == AnyMatch \cup AnyClaim
    <2>2. body[n].spans \in Seq(AnyMatch) /\ body[n].claims \in Seq(AnyClaim)
      BY <2>1 DEF AnyLine
    <2>3. body[n].spans \in Seq(T) /\ body[n].claims \in Seq(T)
      BY <2>2
    <2> HIDE DEF T
    <2>4. PICK s \in ToSet(body[n].spans) \cup ToSet(body[n].claims) :
             s.text = e.text
      BY <1>4
    <2> QED BY <2>3, <2>4, JoinedMembers DEF Mentions
  <1>10. Min(hits) \in hits
    <2>1. k \in hits
      BY <1>7, <1>8, <1>9
    <2>2. hits \in SUBSET (1 .. c) /\ hits \in SUBSET Int
      BY <1>7
    <2>3. IsFiniteSet(1 .. c)
      BY <1>7, FS_Interval
    <2> HIDE DEF hits
    <2> QED BY <2>1, <2>2, <2>3, FS_Subset, MaxMin
  <1> DEFINE line(j) == m.body[kept[j]]
             first == Min({j \in DOMAIN kept : Mentions(line(j), e.text)})
             ends(j) == line(j).kind = "blank" \/ OtherCve(line(j), e.text)
             last == IF e.type = "cve" THEN first + 4 ELSE first + 1
             goesOn(j) == /\ \A i \in first + 1 .. j : ~ends(i)
                          /\ e.type = "cve" \/ line(j).cvss > 0
             J == {first} \cup {j \in first + 1 .. last :
                                   j \in DOMAIN kept /\ goesOn(j)}
             L == {line(j) : j \in J}
  <1>11. LocalWindow(m, e) = L
    BY <1>6 DEF LocalWindow
  <1>12. first \in DOMAIN kept
    BY <1>2, <1>10
  <1> HIDE DEF hits, first, ends, last, goesOn
  <1>13. J \subseteq 1 .. c /\ first \in J
    BY <1>7, <1>12
  <1> HIDE DEF J
  <1>14. \A j \in J : m.body[kept[j]] \in AnyLine /\ m.body[kept[j]].cvss \in Nat
    <2> SUFFICES ASSUME NEW j \in J
                 PROVE  m.body[kept[j]] \in AnyLine /\ m.body[kept[j]].cvss \in Nat
      OBVIOUS
    <2>1. body[kept[j]] \in AnyLine
      BY <1>5, <1>7, <1>13
    <2> QED BY <1>2, <2>1 DEF AnyLine
  <1> DEFINE f == [j \in J |-> m.body[kept[j]].cvss]
  <1>15. {x.cvss : x \in L} = {f[j] : j \in J}
    OBVIOUS
  <1>16. f \in [J -> Nat]
    BY <1>14
  <1> HIDE DEF f, L
  <1>17. IsFiniteSet(J)
    <2>1. J \in SUBSET (1 .. c) /\ IsFiniteSet(1 .. c)
      BY <1>7, <1>13, FS_Interval
    <2> QED BY <2>1, FS_Subset
  <1>18. IsFiniteSet({f[j] : j \in J})
    BY <1>17, Images
  <1> DEFINE S == {f[j] : j \in J}
  <1>19. S \in SUBSET Int /\ S \in SUBSET Nat /\ S # {}
    BY <1>13, <1>16
  <1>20. Max(S) \in S
    <2> HIDE DEF S
    <2> QED BY <1>18, <1>19, MaxMin DEF S
  <1> QED BY <1>11, <1>15, <1>19, <1>20 DEF LocalCvss

(* An action that is not marked yet.                                       *)
AnyAction ==
    [action : Asked, priority : {"high", "medium", "low"},
     type : Counted \cup {"filename", "article"}, target : Target,
     url : Int, benign : Benign, cvss : Nat, intel : AnyRecord, new : {None}]

TypedIntel(intel) == \A c \in DOMAIN intel : intel[c] \in AnyRecord

Acted == {"cve"} \cup NetworkTypes \cup HostTypes

(* An article asks for nothing but what it confirms: it may block what     *)
(* stands under no rule that keeps a value from being blocked.             *)
AskedBy(m, x) ==
    /\ x.url = m.url
    /\ Unread(m) => x.action = "review"
    /\ x.action # "patch" => ~x.intel.kev
    /\ x.action = "block" =>
          \E e \in ToSet(Confirmed(m)) :
             /\ e.type \in NetworkTypes /\ BenignBasis(m, e) = None
             /\ x.type = e.type /\ x.target = e.text

(* A priority is one of three (the branches of _finding_priority).          *)
LEMMA PriorityIs ==
    ASSUME NEW m, NEW e, NEW benign, NEW intel
    PROVE  FindingPriority(m, e, benign, intel) \in {"high", "medium", "low"}
  BY DEF FindingPriority, AtLeastMedium, Priority

(* An action takes its address, kind and target from the finding it is made *)
(* of (_make_action).                                                       *)
LEMMA MakeActionIs ==
    ASSUME NEW m \in Manifests, NEW e, NEW action \in Asked,
           NEW priority \in {"high", "medium", "low"}, NEW benign \in Benign,
           NEW intel, TypedIntel(intel),
           e.type \in Counted \cup {"filename", "article"}, e.text \in Target,
           action = "patch" => LocalCvss(m, e) \in Nat
    PROVE  /\ MakeAction(m, e, action, priority, benign, intel) \in AnyAction
           /\ MakeAction(m, e, action, priority, benign, intel).url = m.url
           /\ MakeAction(m, e, action, priority, benign, intel).action = action
           /\ MakeAction(m, e, action, priority, benign, intel).type = e.type
           /\ MakeAction(m, e, action, priority, benign, intel).target = e.text
           /\ action # "patch" =>
                 ~MakeAction(m, e, action, priority, benign, intel).intel.kev
  <1>1. PICK cvss \in Nat :
            cvss = IF action = "patch" THEN LocalCvss(m, e) ELSE 0
    OBVIOUS
  <1>2. [kev |-> FALSE, cvss |-> 0, epss |-> 0, due |-> 99] \in AnyRecord
    BY DEF AnyRecord
  <1>3. PICK known \in AnyRecord :
            known = IF action = "patch" /\ e.text \in DOMAIN intel
                    THEN intel[e.text]
                    ELSE [kev |-> FALSE, cvss |-> 0, epss |-> 0, due |-> 99]
    BY <1>2 DEF TypedIntel
  <1> HIDE DEF MakeAction
  <1> QED BY <1>1, <1>3, ManifestIs DEF AnyAction, MakeAction, MadeOf

(* A confirmed finding of an article that was read asks for actions of that *)
(* article.                                                                 *)
LEMMA ActionsOfIs ==
    ASSUME NEW m \in Manifests, NEW e \in ToSet(Confirmed(m)),
           NEW intel, TypedIntel(intel), ~ Unread(m)
    PROVE  /\ ActionsOf(m, e, intel) \in Seq(AnyAction)
           /\ \A x \in ToSet(ActionsOf(m, e, intel)) : AskedBy(m, x)
  <1>1. CASE e.type \notin Acted
    BY <1>1 DEF ToSet, ActionsOf, Acted
  <1>2. CASE e.type \in Acted
    <2> DEFINE benign == IF e.type \in NetworkTypes
                         THEN BenignBasis(m, e) ELSE None
               action == IF e.type = "cve" THEN "patch"
                         ELSE IF e.type \in HostTypes \/ benign # None
                         THEN "hunt" ELSE "block"
               priority == FindingPriority(m, e, benign, intel)
               x == MakeAction(m, e, action, priority, benign, intel)
    <2>1. ActionsOf(m, e, intel) = <<x>>
      BY <1>2 DEF ActionsOf, Acted, FindingAction
    <2>2. benign \in Benign
      BY DEF BenignBasis, Benign, Bases
    <2>3. action \in Asked
      BY DEF Asked
    <2>4. e.text \in Target /\ e.type \in Counted \cup {"filename", "article"}
      <3>1. Confirmed(m) \in Seq(AnyFinding)
        BY ConfirmedIs
      <3>2. e \in AnyFinding
        BY <3>1 DEF ToSet
      <3> QED BY <1>2, <3>2
          DEF AnyFinding, Acted, Counted, NetworkTypes, HostTypes, Target
    <2>5. LocalCvss(m, e) \in Nat
      BY ConfirmedIs, LocalCvssIs
    <2>6. action = "block" => e.type \in NetworkTypes /\ BenignBasis(m, e) = None
      BY <1>2 DEF Acted
    <2>7. priority \in {"high", "medium", "low"}
      BY PriorityIs
    <2> HIDE DEF benign, action, priority
    <2>8. /\ x \in AnyAction /\ x.url = m.url /\ x.action = action
          /\ x.type = e.type /\ x.target = e.text
          /\ action # "patch" => ~x.intel.kev
      BY <2>2, <2>3, <2>4, <2>5, <2>7, MakeActionIs
    <2> HIDE DEF x
    <2> QED BY <2>1, <2>6, <2>8 DEF ToSet, AskedBy
  <1> QED BY <1>1, <1>2

(* The events and impacts of a headline ask for actions of its article.     *)
LEMMA EventActionsIs ==
    ASSUME NEW m \in Manifests
    PROVE  /\ EventActions(m) \in Seq(AnyAction)
           /\ \A x \in ToSet(EventActions(m)) : AskedBy(m, x)
  <1> DEFINE itself == [type |-> "article", text |-> Name("title")]
             action == IF Unread(m) THEN "review"
                       ELSE IF "data_breach" \in m.headline.events
                       THEN "monitor"
                       ELSE IF m.headline.events \cap {"phishing", "ransomware"}
                               # {}
                       THEN "observe" ELSE None
             priority == IF action = "observe" THEN "low" ELSE "medium"
             x == MakeAction(m, itself, action, priority, None, <<>>)
  <1>1. EventActions(m) = IF action = None THEN <<>> ELSE <<x>>
    BY DEF EventActions
  <1>2. CASE action = None
    BY <1>1, <1>2 DEF ToSet
  <1>3. CASE action # None
    <2>1. action \in Asked /\ action # "patch" /\ action # "block"
          /\ (Unread(m) => action = "review")
      BY <1>3 DEF Asked
    <2>2. itself.type \in Counted \cup {"filename", "article"}
          /\ itself.text \in Target
      BY DEF Target
    <2>3. None \in Benign
      BY DEF Benign
    <2>4. priority \in {"high", "medium", "low"}
      OBVIOUS
    <2> HIDE DEF itself, action, priority
    <2>5. /\ x \in AnyAction /\ x.url = m.url /\ x.action = action
          /\ action # "patch" => ~x.intel.kev
      BY <2>1, <2>2, <2>3, <2>4, MakeActionIs DEF TypedIntel
    <2> HIDE DEF x
    <2> QED BY <1>1, <1>3, <2>1, <2>5 DEF ToSet, AskedBy
  <1> QED BY <1>2, <1>3

(* What build_actions gives for an article is asked by that article.        *)
LEMMA BuildActionsIs ==
    ASSUME NEW m \in Manifests, NEW intel, TypedIntel(intel)
    PROVE  /\ BuildActions(m, intel) \in Seq(AnyAction)
           /\ \A x \in ToSet(BuildActions(m, intel)) : AskedBy(m, x)
  <1>1. /\ EventActions(m) \in Seq(AnyAction)
        /\ \A x \in ToSet(EventActions(m)) : AskedBy(m, x)
    BY EventActionsIs
  <1>2. CASE Unread(m)
    BY <1>1, <1>2 DEF BuildActions, OrElse
  <1>3. CASE ~ Unread(m)
    <2>1. PICK con \in Seq(AnyFinding), n \in Nat :
              con = Confirmed(m) /\ DOMAIN con = 1 .. n
      <3>1. PICK con \in Seq(AnyFinding) : con = Confirmed(m)
        BY ConfirmedIs
      <3> QED BY <3>1
    <2> DEFINE p == [i \in 1 .. n |-> ActionsOf(m, con[i], intel)]
    <2>2. FindingActions(m, intel) = FlattenSeq(p)
      BY <2>1 DEF FindingActions
    <2>3. \A i \in 1 .. n : con[i] \in ToSet(Confirmed(m))
      BY <2>1 DEF ToSet
    <2>4. /\ p \in [1 .. n -> Seq(AnyAction)]
          /\ \A i \in 1 .. n : \A x \in ToSet(p[i]) : AskedBy(m, x)
      BY <1>3, <2>3, ActionsOfIs
    <2> HIDE DEF p
    <2>5. /\ FlattenSeq(p) \in Seq(AnyAction)
          /\ ToSet(FlattenSeq(p)) = UNION {ToSet(p[i]) : i \in 1 .. n}
      BY <2>4, FlattenIs, FlatMembers
    <2> QED BY <1>1, <1>3, <2>2, <2>4, <2>5 DEF BuildActions, OrElse
  <1> QED BY <1>2, <1>3

(* The place of a CVE in the order of CVEs is a number.                     *)
LEMMA CveRankIs ==
    ASSUME NEW text
    PROVE  CveRank(text) \in Nat
  <1> DEFINE I == {i \in 1 .. Len(CveOrder) : CveOrder[i] = text}
  <1>1. CveRank(text) = IF I # {} THEN Min(I) ELSE 0
    BY DEF CveRank, SelectInSeq
  <1>2. Len(CveOrder) \in Nat
    BY BoardAssumption, LenProperties
  <1>3. I \in SUBSET (1 .. Len(CveOrder)) /\ I \in SUBSET Nat /\ I \in SUBSET Int
    BY <1>2
  <1>4. IsFiniteSet(I)
    <2>1. IsFiniteSet(1 .. Len(CveOrder))
      BY <1>2, FS_Interval
    <2> HIDE DEF I
    <2> QED BY <1>3, <2>1, FS_Subset
  <1> HIDE DEF I
  <1>5. CASE I = {}
    BY <1>1, <1>5
  <1>6. CASE I # {}
    BY <1>1, <1>3, <1>4, <1>6, MaxMin
  <1> QED BY <1>5, <1>6

(* A patch is ranked by numbers, the first of which tells whether KEV      *)
(* lists it.                                                               *)
LEMMA PatchKeyIs ==
    ASSUME NEW x \in AnyAction, NEW i \in Nat
    PROVE  /\ PatchKey(x) \o <<i>> \in [1 .. 7 -> Int]
           /\ (PatchKey(x) \o <<i>>)[7] = i
           /\ (PatchKey(x) \o <<i>>)[1] = IF x.intel.kev THEN 0 ELSE 1
  <1>1. x.intel \in AnyRecord /\ x.cvss \in Nat
    BY DEF AnyAction
  <1>2. /\ x.intel.kev \in BOOLEAN /\ x.intel.cvss \in Nat
        /\ x.intel.epss \in Int /\ x.intel.due \in Int
    BY <1>1 DEF AnyRecord
  <1>3. EffectiveCvss(x) \in Int
    <2> DEFINE S == {x.intel.cvss, x.cvss}
    <2>1. S \in SUBSET Int /\ S # {}
      BY <1>1, <1>2
    <2>2. IsFiniteSet(S)
      <3>1. IsFiniteSet({x.intel.cvss})
        BY FS_Singleton
      <3> QED BY <3>1, FS_AddElement
    <2>3. Max(S) \in S
      <3> HIDE DEF S
      <3> QED BY <2>1, <2>2, MaxMin
    <2> QED BY <2>1, <2>3 DEF EffectiveCvss
  <1>4. PICK a \in Int, b \in Int, c \in Int, d \in Int, e \in Int, f \in Int :
            /\ a = IF x.intel.kev THEN 0 ELSE 1
            /\ b = IF x.priority = "high" THEN 0 ELSE 1
            /\ c = -EffectiveCvss(x) /\ d = -x.intel.epss
            /\ e = x.intel.due /\ f = CveRank(x.target)
    BY <1>2, <1>3, CveRankIs
  <1>5. PICK s \in Seq(Int), t \in Seq(Int) :
             s = <<a, b, c, d, e, f>> /\ t = <<i>>
    <2>1. <<a, b, c, d, e, f>> \in Seq(Int) /\ <<i>> \in Seq(Int)
      OBVIOUS
    <2> QED BY <2>1
  <1>6. Len(s) = 6 /\ Len(t) = 1 /\ s[1] = a /\ t[1] = i
    BY <1>5
  <1>7. /\ s \o t \in Seq(Int) /\ Len(s \o t) = 7
        /\ (s \o t)[1] = a /\ (s \o t)[Len(s) + 1] = i
    <2>1. /\ s \o t \in Seq(Int) /\ Len(s \o t) = Len(s) + Len(t)
          /\ \A y \in 1 .. Len(s) : (s \o t)[y] = s[y]
          /\ \A y \in 1 .. Len(t) : (s \o t)[Len(s) + y] = t[y]
      BY ConcatIs
    <2>2. 1 \in 1 .. Len(s) /\ 1 \in 1 .. Len(t)
      BY <1>6
    <2>3. (s \o t)[1] = s[1] /\ (s \o t)[Len(s) + 1] = t[1]
      BY <2>1, <2>2
    <2> QED BY <1>6, <2>1, <2>3
  <1>8. s \o t \in [1 .. 7 -> Int]
    <2>1. PICK u \in Seq(Int) : u = s \o t
      BY <1>7
    <2>2. u \in [1 .. Len(u) -> Int]
      OBVIOUS
    <2> HIDE <2>1
    <2> QED BY <1>7, <2>1, <2>2
  <1> QED BY <1>4, <1>5, <1>6, <1>7, <1>8 DEF PatchKey

(* A key that precedes another has no greater first part.                   *)
LEMMA PrecedesFirst ==
    ASSUME NEW n \in Nat, 1 <= n, NEW a \in [1 .. n -> Int],
           NEW b \in [1 .. n -> Int], Precedes(a, b)
    PROVE  a[1] <= b[1]
  <1>1. PICK k \in 1 .. n : a[k] < b[k] /\ \A h \in 1 .. k - 1 : a[h] = b[h]
    BY DEF Precedes
  <1>2. a[1] \in Int /\ b[1] \in Int
    OBVIOUS
  <1>3. CASE k = 1
    BY <1>1, <1>2, <1>3
  <1>4. CASE k # 1
    BY <1>1, <1>2, <1>4
  <1> QED BY <1>3, <1>4

(* How many members of a finite set of numbers do not come after one.      *)
LEMMA Places ==
    ASSUME NEW S \in SUBSET Nat, IsFiniteSet(S)
    PROVE  /\ \A i \in S : Cardinality({j \in S : j <= i}) \in 1 .. Cardinality(S)
           /\ \A i, k \in S : i < k => Cardinality({j \in S : j <= i})
                                       < Cardinality({j \in S : j <= k})
  <1> DEFINE upto == [i \in S |-> {j \in S : j <= i}]
  <1>1. \A i \in S : upto[i] = {j \in S : j <= i}
    OBVIOUS
  <1>2. \A i \in S : upto[i] \in SUBSET S /\ i \in upto[i]
    OBVIOUS
  <1>3. \A i, k \in S : i < k => upto[i] \in SUBSET upto[k] /\ k \notin upto[i]
    <2> SUFFICES ASSUME NEW i \in S, NEW k \in S, i < k
                 PROVE  upto[i] \in SUBSET upto[k] /\ k \notin upto[i]
      OBVIOUS
    <2>1. i \in Nat /\ k \in Nat
      OBVIOUS
    <2>2. \A j \in S : j \in Nat /\ (j <= i => j <= k)
      BY <2>1
    <2>3. \A j \in upto[i] : j \in S /\ j <= i
      OBVIOUS
    <2>4. \A j \in S : j <= k => j \in upto[k]
      OBVIOUS
    <2> HIDE DEF upto
    <2>5. upto[i] \in SUBSET upto[k]
      BY <2>2, <2>3, <2>4
    <2> QED BY <2>1, <2>3, <2>5
  <1> HIDE DEF upto
  <1>4. ASSUME NEW i \in S
        PROVE  /\ IsFiniteSet(upto[i])
               /\ Cardinality(upto[i]) \in 1 .. Cardinality(S)
    BY <1>2, FS_Subset, FS_EmptySet, FS_CardinalityType
  <1>5. ASSUME NEW i \in S, NEW k \in S, i < k
        PROVE  Cardinality(upto[i]) < Cardinality(upto[k])
    <2>1. upto[i] \in SUBSET upto[k] /\ upto[i] # upto[k]
      BY <1>2, <1>3, <1>5
    <2> QED BY <1>4, <2>1, FS_CardinalityType, FS_Subset
  <1> QED BY <1>1, <1>4, <1>5

(* Where each action of the ranked list stood before: only patches trade   *)
(* places, and those KEV lists come before the others.                     *)
Trades(pi, actions, ranked, n) ==
    /\ n = Len(actions) /\ n \in Nat
    /\ pi \in [1 .. n -> 1 .. n]
    /\ \A i, j \in 1 .. n : pi[i] = pi[j] => i = j
    /\ ranked = [i \in 1 .. n |-> actions[pi[i]]]
    /\ \A i \in 1 .. n : actions[i].action # "patch" => pi[i] = i
    /\ \A i \in 1 .. n : actions[i].action = "patch"
                         => actions[pi[i]].action = "patch"
    /\ \A i, j \in 1 .. n :
          /\ j < i /\ actions[i].action = "patch" /\ actions[j].action = "patch"
          /\ actions[pi[i]].intel.kev
          => actions[pi[j]].intel.kev

(* _kev_first moves patches only: the board and its ranking differ by a     *)
(* bijection of places.                                                     *)
LEMMA KevFirstTrades ==
    ASSUME NEW actions \in Seq(AnyAction)
    PROVE  \E pi, n : Trades(pi, actions, KevFirst(actions), n)
  <1>1. PICK n \in Nat : n = Len(actions) /\ DOMAIN actions = 1 .. n
    OBVIOUS
  <1>2. \A i \in 1 .. n : actions[i] \in AnyAction
    BY <1>1
  <1> DEFINE P == Patches(actions)
  <1>3. P = {i \in 1 .. n : actions[i].action = "patch"}
    BY <1>1 DEF Patches
  <1> HIDE DEF P
  <1>4. CASE ~ \E i \in P : actions[i].intel.kev
    <2> DEFINE pi == [i \in 1 .. n |-> i]
    <2>1. KevFirst(actions) = actions
      BY <1>4 DEF KevFirst, P
    <2>2. actions = [i \in 1 .. n |-> actions[pi[i]]]
      BY <1>1
    <2>3. \A i \in 1 .. n : pi[i] = i
      OBVIOUS
    <2>4. pi \in [1 .. n -> 1 .. n]
      OBVIOUS
    <2> HIDE DEF pi
    <2>5. Trades(pi, actions, KevFirst(actions), n)
      BY <1>1, <1>3, <1>4, <2>1, <2>2, <2>3, <2>4 DEF Trades
    <2> QED BY <2>5
  <1>5. CASE \E i \in P : actions[i].intel.kev
    <2> DEFINE key == [i \in P |-> PatchKey(actions[i]) \o <<i>>]
               R == ByKey(P, key)
               r == InOrder(P, R)
               c == Cardinality(P)
               place(i) == Cardinality({j \in P : j <= i})
    <2>1. IsFiniteSet(P) /\ P \in SUBSET Nat /\ P \in SUBSET (1 .. n)
      <3>1. IsFiniteSet(1 .. n)
        BY FS_Interval
      <3> QED BY <1>3, <3>1, FS_Subset
    <2>2. \A i \in P : /\ key[i] \in [1 .. 7 -> Int] /\ key[i][7] = i
                       /\ key[i][1] = IF actions[i].intel.kev THEN 0 ELSE 1
      BY <1>2, <2>1, PatchKeyIs
    <2>3. {p \in P \X P : Precedes(PatchKey(actions[p[1]]) \o <<p[1]>>,
                                   PatchKey(actions[p[2]]) \o <<p[2]>>)} = R
      <3>1. \A p \in P \X P :
               /\ key[p[1]] = PatchKey(actions[p[1]]) \o <<p[1]>>
               /\ key[p[2]] = PatchKey(actions[p[2]]) \o <<p[2]>>
        OBVIOUS
      <3> HIDE DEF key
      <3> QED BY <3>1 DEF ByKey
    <2>4. KevFirst(actions) = [i \in DOMAIN actions |->
              IF i \in P THEN actions[r[place(i)]] ELSE actions[i]]
      BY <1>5, <2>3 DEF KevFirst, P
    <2> HIDE DEF key, r
    <2>5. Lists(r, P, R)
      <3>1. PICK w \in Nat : w = 7
        OBVIOUS
      <3>2. key \in [P -> [1 .. w -> Int]]
        BY <2>2, <3>1 DEF key
      <3>3. \A x, y \in P : key[x] = key[y] => x = y
        BY <2>2
      <3> QED BY <2>1, <3>2, <3>3, SortedIs DEF r
    <2>6. /\ c \in Nat /\ r \in [1 .. c -> P]
          /\ \A i, j \in 1 .. c : /\ i < j => <<r[i], r[j]>> \in R
                                  /\ r[i] = r[j] => i = j
      BY <2>5 DEF Lists
    <2>7. /\ \A i \in P : place(i) \in 1 .. c
          /\ \A i, k \in P : i < k => place(i) < place(k)
      BY <2>1, Places
    <2> HIDE DEF place, c
    <2> DEFINE pi == [i \in 1 .. n |-> IF i \in P THEN r[place(i)] ELSE i]
    <2>8. \A i \in 1 .. n : pi[i] = IF i \in P THEN r[place(i)] ELSE i
      OBVIOUS
    <2>9. \A i \in P : pi[i] \in P
      BY <2>1, <2>6, <2>7
    <2>10. pi \in [1 .. n -> 1 .. n]
      BY <2>1, <2>6, <2>7
    <2>11. KevFirst(actions) = [i \in 1 .. n |-> actions[pi[i]]]
      BY <1>1, <2>4, <2>8
    <2> HIDE DEF pi
    <2>12. ASSUME NEW i \in 1 .. n, NEW j \in 1 .. n, pi[i] = pi[j] PROVE i = j
      <3>1. CASE i \in P /\ j \in P
        <4>1. place(i) = place(j)
          BY <2>6, <2>7, <2>8, <2>12, <3>1
        <4>2. ~ (i < j) /\ ~ (j < i)
          BY <2>6, <2>7, <3>1, <4>1
        <4> QED BY <4>2
      <3>2. CASE ~ (i \in P /\ j \in P)
        BY <2>8, <2>9, <2>12, <3>2
      <3> QED BY <3>1, <3>2
    <2>13. ASSUME NEW i \in P, NEW j \in P, j < i, actions[pi[i]].intel.kev
           PROVE  actions[pi[j]].intel.kev
      <3>1. pi[i] = r[place(i)] /\ pi[j] = r[place(j)] /\ pi[i] \in P /\ pi[j] \in P
        BY <2>1, <2>8, <2>9
      <3>2. Precedes(key[pi[j]], key[pi[i]])
        BY <2>6, <2>7, <2>13, <3>1 DEF ByKey
      <3>3. key[pi[j]][1] <= key[pi[i]][1]
        <4>1. PICK w \in Nat : w = 7
          OBVIOUS
        <4>2. /\ key[pi[j]] \in [1 .. w -> Int] /\ key[pi[i]] \in [1 .. w -> Int]
              /\ 1 <= w
          BY <2>2, <3>1, <4>1
        <4> QED BY <3>2, <4>2, PrecedesFirst
      <3>4. key[pi[i]][1] = 0
        BY <2>2, <2>13, <3>1
      <3>5. key[pi[j]][1] = IF actions[pi[j]].intel.kev THEN 0 ELSE 1
        BY <2>2, <3>1
      <3> QED BY <3>3, <3>4, <3>5
    <2>14. \A i \in 1 .. n : i \in P <=> actions[i].action = "patch"
      BY <1>3
    <2>15. /\ \A i \in 1 .. n : actions[i].action # "patch" => pi[i] = i
           /\ \A i \in 1 .. n : actions[i].action = "patch"
                                => actions[pi[i]].action = "patch"
      BY <2>1, <2>8, <2>9, <2>14
    <2>16. Trades(pi, actions, KevFirst(actions), n)
      BY <1>1, <2>10, <2>11, <2>12, <2>13, <2>14, <2>15 DEF Trades
    <2> QED BY <2>16
  <1> QED BY <1>4, <1>5

AskedFor(report) ==
    FlattenSeq([i \in DOMAIN report.articles |->
                   BuildActions(report.articles[i], report.intel)])

(* A report is what its analysis makes of its articles, whatever the       *)
(* report of the day before told of what is new.                           *)
WellMade(report) ==
    LET all == ToSet(report.articles) \cup report.excluded
    IN  /\ all \subseteq Manifests /\ IsFiniteSet(all)
        /\ \A m, k \in all : m.page = k.page => m = k
        /\ report.articles = Ordered({m \in all : IsRelevant(m)})
        /\ report.excluded = {m \in all : ~IsRelevant(m)}
        /\ TypedIntel(report.intel)
        /\ report.brief.clusters = Clusters(report.articles)
        /\ [i \in DOMAIN report.brief.actions |-> Plain(report.brief.actions[i])]
           = KevFirst(AskedFor(report))
        /\ report.brief.actions = [i \in DOMAIN report.brief.actions |->
                                       report.brief.actions[i]]
        /\ \A i \in DOMAIN report.brief.actions :
              report.brief.actions[i] \in AnyEntry

(* Deduplication keeps one manifest of a page, and all of them where pages  *)
(* differ.                                                                  *)
LEMMA DeduplicatedIs ==
    ASSUME NEW n \in Nat, NEW s \in [1 .. n -> Manifests]
    PROVE  /\ Deduplicated(s) \subseteq {s[i] : i \in 1 .. n}
           /\ IsFiniteSet(Deduplicated(s))
           /\ \A m, k \in Deduplicated(s) : m.page = k.page => m = k
           /\ (\A i, j \in 1 .. n : s[i].page = s[j].page => s[i] = s[j])
              => Deduplicated(s) = {s[i] : i \in 1 .. n}
  <1> DEFINE K == {k \in 1 .. n : \A j \in 1 .. k - 1 : s[j].page # s[k].page}
  <1>1. Deduplicated(s) = {s[i] : i \in K}
    BY DEF Deduplicated
  <1>2. K \subseteq 1 .. n
    OBVIOUS
  <1>3. ASSUME NEW i \in K, NEW k \in K, s[i].page = s[k].page PROVE i = k
    <2>1. i \in Nat /\ k \in Nat
      BY <1>2
    <2>2. ~ (i < k)
      <3> SUFFICES ASSUME i < k PROVE FALSE
        OBVIOUS
      <3> QED BY <1>2, <1>3, <2>1
    <2>3. ~ (k < i)
      <3> SUFFICES ASSUME k < i PROVE FALSE
        OBVIOUS
      <3> QED BY <1>2, <1>3, <2>1
    <2> QED BY <2>1, <2>2, <2>3
  <1>4. ASSUME \A i, j \in 1 .. n : s[i].page = s[j].page => s[i] = s[j],
               NEW i \in 1 .. n
        PROVE  \E k \in K : s[k] = s[i]
    <2> DEFINE S == {j \in 1 .. n : s[j].page = s[i].page}
    <2>1. S \in SUBSET Nat /\ S # {}
      OBVIOUS
    <2>2. PICK k \in S : \A j \in S : k <= j
      <3> HIDE DEF S
      <3> QED BY <2>1, LeastOf
    <2>3. k \in 1 .. n /\ s[k].page = s[i].page
      BY <2>2
    <2>4. \A j \in 1 .. k - 1 : s[j].page # s[k].page
      <3> SUFFICES ASSUME NEW j \in 1 .. k - 1, s[j].page = s[k].page
                   PROVE  FALSE
        OBVIOUS
      <3> QED BY <2>2, <2>3
    <2> QED BY <1>4, <2>3, <2>4
  <1>5. IsFiniteSet(K)
    <2>1. IsFiniteSet(1 .. n)
      BY FS_Interval
    <2> HIDE DEF K
    <2> QED BY <1>2, <2>1, FS_Subset
  <1> HIDE DEF K
  <1>6. IsFiniteSet({s[i] : i \in K})
    BY <1>5, Images
  <1>7. ASSUME \A i, j \in 1 .. n : s[i].page = s[j].page => s[i] = s[j]
        PROVE  Deduplicated(s) = {s[i] : i \in 1 .. n}
    BY <1>1, <1>2, <1>4, <1>7
  <1> QED BY <1>1, <1>2, <1>3, <1>6, <1>7

(* An action made for the board has no mark, and loses none when the mark   *)
(* is taken off.                                                            *)
LEMMA PlainIs ==
    /\ \A x \in AnyAction : Plain(x) = x
    /\ \A x \in AnyAction : \A v : Plain([x EXCEPT !.new = v]) = x
  <1>1. ASSUME NEW x \in AnyAction, NEW v
        PROVE  Plain(x) = x /\ Plain([x EXCEPT !.new = v]) = x
    <2> DEFINE y == [x EXCEPT !.new = v]
    <2> HIDE DEF y
    <2> QED BY DEF y, Plain, AnyAction
  <1> QED BY <1>1

(* An action says the same with and without its mark, the mark aside.       *)
LEMMA PlainFields ==
    ASSUME NEW x, Plain(x) \in AnyAction
    PROVE  /\ x.action = Plain(x).action /\ x.type = Plain(x).type
           /\ x.target = Plain(x).target /\ x.url = Plain(x).url
           /\ x.intel = Plain(x).intel /\ x.benign = Plain(x).benign
  BY DEF AnyAction, Plain

(* A whole host is its own upper part.                                      *)
LEMMA UpperAll ==
    ASSUME NEW h \in Seq(STRING)
    PROVE  Upper(h, Len(h)) = h
  BY SubSeqProperties, LenProperties, SeqEqual DEF Upper

(* A host that a rule names is a public suffix.                            *)
LEMMA RuledIsSuffix ==
    ASSUME NEW h \in Seq(STRING),
           h \in Normal \/ (h \notin Exception /\ Front(h) \in Wildcard)
    PROVE  IsPublicSuffix(h)
  <1>1. PICK n \in Nat : n = Len(h)
    OBVIOUS
  <1>2. <<>> \notin Normal \cup Wildcard /\ Normal \cap Exception = {}
    BY RulesAssumption
  <1>3. h # <<>> /\ n # 0 /\ n \in RuleEnds(h)
    <2>1. CASE h \in Normal
      BY <1>1, <1>2, <2>1, UpperAll DEF RuleEnds
    <2>2. CASE Front(h) \in Wildcard
      <3>1. n - 1 # 0 /\ n # 0
        <4> SUFFICES ASSUME n - 1 <= 0 PROVE FALSE
          BY <1>1
        <4>1. PICK k \in Int : k = n - 1 /\ k < 1
          OBVIOUS
        <4>2. SubSeq(h, 1, k) = <<>>
          BY <4>1, SubSeqEmpty
        <4> QED BY <1>1, <1>2, <2>2, <4>1, <4>2 DEF Front
      <3> QED BY <1>1, <2>2, <3>1 DEF RuleEnds, Front, Upper
    <2> QED BY <2>1, <2>2
  <1>4. Max(RuleEnds(h)) = n
    <2>1. RuleEnds(h) \in SUBSET (1 .. n) /\ RuleEnds(h) \in SUBSET Int
      BY <1>1 DEF RuleEnds
    <2>2. IsFiniteSet(1 .. n)
      BY FS_Interval
    <2> QED BY <1>3, <2>1, <2>2, FS_Subset, MaxMin
  <1> QED BY <1>1, <1>2, <1>3, <1>4, UpperAll DEF IsPublicSuffix, SuffixLength

(* A host is at or beneath itself and beneath the host it is directly       *)
(* under.                                                                   *)
LEMMA BeneathItself ==
    ASSUME NEW h \in Seq(STRING)
    PROVE  /\ AtOrBeneath(h, h)
           /\ h # <<>> => AtOrBeneath(h, Front(h))
  <1>1. PICK n \in Nat : n = Len(h)
    OBVIOUS
  <1>2. ASSUME h # <<>> PROVE AtOrBeneath(h, Front(h))
    <2>1. n # 0 /\ n - 1 \in Nat /\ n - 1 <= n
      BY <1>1, <1>2, EmptySeq
    <2>2. PICK k \in Nat : k = n - 1 /\ k <= n
      BY <2>1
    <2>3. /\ SubSeq(h, 1, k) \in Seq(STRING) /\ Len(SubSeq(h, 1, k)) = k
          /\ \A i \in 1 .. k : SubSeq(h, 1, k)[i] = h[i]
      BY <1>1, <2>2, SubSeqProperties
    <2>4. PICK t \in Seq(STRING) : t = SubSeq(h, 1, k) /\ Len(t) = k
      BY <2>3
    <2>5. SubSeq(t, 1, k) = t
      BY <2>4, UpperAll DEF Upper
    <2> QED BY <1>1, <2>2, <2>4, <2>5 DEF AtOrBeneath, IsPrefix, Front
  <1> QED BY <1>1, <1>2 DEF AtOrBeneath, IsPrefix

(* A network value that an article confirms stands in a line under a       *)
(* heading of indicators, and is neither the publisher's nor private.      *)
LEMMA ConfirmedNetwork ==
    ASSUME NEW m \in Manifests, NEW a, MadeOf(m, a),
           NEW e \in ToSet(Confirmed(m)), e.type \in NetworkTypes
    PROVE  \E n \in DOMAIN m.body :
              /\ UnderIocHeading(m.body, n)
              /\ \E s \in ToSet(m.body[n].spans) :
                    /\ s \in AnyMatch /\ s.text = e.text
                    /\ TypeOf(s) = e.type /\ s.type = e.type
                    /\ ~FromPublisher(s, Trusted(a))
                    /\ s.type = "ip" => s.text.host \notin NonPublic
  <1>1. e \in ToSet(m.evidence) /\ e.status = "confirmed"
    BY ConfirmedIs
  <1>2. /\ m.body \in Seq(AnyLine) /\ ComesFrom(e, m.body, Trusted(a))
    BY <1>1 DEF MadeOf
  <1>3. PICK n \in 1 .. Len(m.body), s \in AnyMatch \cup AnyClaim :
            /\ ~IsHeading(m.body[n])
            /\ \/ s \in AnyMatch /\ s \in ToSet(m.body[n].spans)
               \/ s \in AnyClaim
            /\ e = Finding(m.body, n, s, Trusted(a))
    BY <1>2 DEF ComesFrom
  <1> DEFINE zone == ZoneAt(m.body, n)
             v == Classify(zone, s, Trusted(a))
  <1>4. e.type = TypeOf(s) /\ e.text = s.text /\ v[1] = "confirmed"
    BY <1>1, <1>3 DEF Finding
  <1>5. s.type = e.type /\ s.type \notin Claims /\ s.type # "cve"
    BY <1>4 DEF TypeOf, NetworkTypes, Claims
  <1>6. s \in AnyMatch /\ s \in ToSet(m.body[n].spans)
    BY <1>3, <1>5 DEF AnyClaim
  <1>7. /\ zone = "ioc" /\ ~FromPublisher(s, Trusted(a))
        /\ s.type = "ip" => s.text.host \notin NonPublic
    <2> HIDE DEF zone
    <2> QED BY <1>4, <1>5 DEF Classify
  <1>8. ~m.body[n].related /\ Opened(m.body, n)
    BY <1>2, <1>7, ZoneIs
  <1>9. PICK h \in 1 .. n : /\ m.body[h].kind = "ioc"
                            /\ \A k \in h + 1 .. n : ~IsHeading(m.body[k])
    BY <1>8 DEF Opened
  <1>10. UnderIocHeading(m.body, n)
    BY <1>3, <1>8, <1>9 DEF UnderIocHeading, IsHeading, HeadingKind
  <1>11. n \in DOMAIN m.body
    BY <1>2
  <1> QED BY <1>4, <1>5, <1>6, <1>7, <1>10, <1>11

(* A confirmed network finding with no reason to be benign is nothing that  *)
(* many share.                                                              *)
LEMMA BlockIsUnshared ==
    ASSUME NEW m \in Manifests, NEW a, MadeOf(m, a),
           NEW n \in DOMAIN m.body, NEW s \in ToSet(m.body[n].spans),
           s \in AnyMatch, NEW e, s.text = e.text, s.type = e.type,
           e.type \in NetworkTypes, TypeOf(s) = e.type,
           ~FromPublisher(s, Trusted(a)),
           s.type = "ip" => s.text.host \notin NonPublic,
           BenignBasis(m, e) = None
    PROVE  ~IsShared(e.type, e.text.host, m.source)
  <1>1. PICK h \in Seq(STRING) : h = e.text.host
    BY DEF AnyText, AnyMatch
  <1>2. a.hosts = PublisherHosts[m.source] /\ m.body = a.body
    BY DEF MadeOf
  <1>3. ~ IsPublicDns(e) /\ ~ IsBrand(e) /\ ~ IsPublicSuffix(HostOf(e))
    BY BoardAssumption DEF BenignBasis, Bases
  <1>4. CASE e.type = "ip"
    <2>1. h \notin NonPublic \cup PublicDnsIps
      BY <1>1, <1>3, <1>4 DEF IsPublicDns
    <2>2. \A top \in Normal \cup Wildcard \cup PublicDnsHosts \cup BrandApexes
                    \cup a.hosts : ~AtOrBeneath(h, top)
      <3>1. PICK i \in DOMAIN Articles : a = Articles[i]
        BY DEF MadeOf, ToSet
      <3> QED BY <1>1, <1>2, <1>4, <3>1, AddressesAssumption DEF ToSet
    <2>3. h \notin Normal /\ Front(h) \notin Wildcard
      <3>1. h = <<>> => Front(h) \notin Wildcard
        <4>1. h = <<>> => Front(h) = <<>>
          BY DEF Front
        <4> QED BY <4>1, RulesAssumption
      <3> QED BY <2>2, <3>1, BeneathItself
    <2> QED BY <1>1, <1>2, <1>4, <2>1, <2>2, <2>3 DEF IsShared
  <1>5. CASE e.type # "ip"
    <2>1. HostOf(e) = h
      BY <1>1, <1>5 DEF HostOf
    <2>2. \A top \in PublicDnsHosts \cup BrandApexes : ~AtOrBeneath(h, top)
      BY <1>3, <1>5, <2>1 DEF IsPublicDns, IsBrand
    <2>3. \A top \in a.hosts : ~AtOrBeneath(h, top)
      BY <1>1, <1>5 DEF Trusted, FromPublisher, NetworkTypes
    <2>4. h \notin Normal /\ ~(h \notin Exception /\ Front(h) \in Wildcard)
      BY <1>3, <2>1, RuledIsSuffix
    <2> QED BY <1>1, <1>2, <1>5, <2>2, <2>3, <2>4 DEF IsShared
  <1> QED BY <1>4, <1>5

(* What a list of articles asks for is a list of actions, each asked by one *)
(* of them.                                                                 *)
LEMMA AskedForIs ==
    ASSUME NEW arts \in Seq(Manifests), NEW intel, TypedIntel(intel)
    PROVE  LET p == [i \in DOMAIN arts |-> BuildActions(arts[i], intel)]
           IN  /\ p \in [1 .. Len(arts) -> Seq(AnyAction)]
               /\ FlattenSeq(p) \in Seq(AnyAction)
               /\ \A x \in ToSet(FlattenSeq(p)) :
                     \E m \in ToSet(arts) : AskedBy(m, x)
  <1>1. PICK n \in Nat : n = Len(arts) /\ DOMAIN arts = 1 .. n
    OBVIOUS
  <1> DEFINE p == [i \in DOMAIN arts |-> BuildActions(arts[i], intel)]
  <1>2. \A i \in 1 .. n : arts[i] \in Manifests /\ arts[i] \in ToSet(arts)
    BY <1>1 DEF ToSet
  <1>3. /\ p \in [1 .. n -> Seq(AnyAction)]
        /\ \A i \in 1 .. n : \A x \in ToSet(p[i]) : AskedBy(arts[i], x)
    BY <1>1, <1>2, BuildActionsIs
  <1> HIDE DEF p
  <1>4. /\ FlattenSeq(p) \in Seq(AnyAction)
        /\ ToSet(FlattenSeq(p)) = UNION {ToSet(p[i]) : i \in 1 .. n}
    BY <1>3, FlattenIs, FlatMembers
  <1>5. \A x \in ToSet(FlattenSeq(p)) : \E m \in ToSet(arts) : AskedBy(m, x)
    BY <1>2, <1>3, <1>4
  <1> QED BY <1>1, <1>3, <1>4, <1>5 DEF p

(* Ranking a board brings in no action of its own.                          *)
LEMMA KevFirstIs ==
    ASSUME NEW actions \in Seq(AnyAction)
    PROVE  /\ KevFirst(actions) \in Seq(AnyAction)
           /\ ToSet(KevFirst(actions)) \subseteq ToSet(actions)
  <1>1. PICK pi, n : Trades(pi, actions, KevFirst(actions), n)
    BY KevFirstTrades
  <1>2. /\ n = Len(actions) /\ n \in Nat /\ pi \in [1 .. n -> 1 .. n]
        /\ KevFirst(actions) = [i \in 1 .. n |-> actions[pi[i]]]
    BY <1>1 DEF Trades
  <1>3. DOMAIN actions = 1 .. n /\ \A i \in 1 .. n : actions[i] \in AnyAction
    BY <1>2
  <1> DEFINE k == KevFirst(actions)
  <1> HIDE DEF k
  <1> QED BY <1>2, <1>3 DEF k, ToSet

(* Marking what is new changes nothing else of a board.                     *)
LEMMA MarkedIs ==
    ASSUME NEW s \in Seq(AnyAction), NEW previous
    PROVE  /\ [i \in DOMAIN Marked(s, previous) |->
                  Plain(Marked(s, previous)[i])] = s
           /\ Marked(s, previous) = [i \in DOMAIN Marked(s, previous) |->
                                         Marked(s, previous)[i]]
           /\ \A i \in DOMAIN Marked(s, previous) :
                 Marked(s, previous)[i] \in AnyEntry
  <1> DEFINE b == Marked(s, previous)
  <1>1. DOMAIN b = DOMAIN s
    BY DEF Marked
  <1>2. ASSUME NEW i \in DOMAIN s PROVE Plain(b[i]) = s[i]
    <2>1. s[i] \in AnyAction
      OBVIOUS
    <2>2. b[i] = s[i] \/ \E v : b[i] = [s[i] EXCEPT !.new = v]
      BY DEF Marked
    <2> HIDE DEF b
    <2> QED BY <2>1, <2>2, PlainIs
  <1>3. ASSUME NEW i \in DOMAIN b PROVE b[i] \in AnyEntry
    <2>1. s[i] \in AnyAction
      BY <1>1
    <2>2. b[i] = s[i] \/ \E v \in BOOLEAN : b[i] = [s[i] EXCEPT !.new = v]
      BY <1>3 DEF Marked
    <2> HIDE DEF b
    <2> QED BY <2>1, <2>2 DEF AnyEntry, AnyAction
  <1> HIDE DEF b
  <1> QED BY <1>1, <1>2, <1>3 DEF b, Marked

(* collect_report over articles of the feeds makes a report well.          *)
LEMMA CollectReportIs ==
    ASSUME NEW n \in Nat, NEW arts \in [1 .. n -> ToSet(Articles)],
           NEW previous, NEW catalogue, TypedIntel(catalogue)
    PROVE  LET report == CollectReport(arts, previous, catalogue)
               made == {BuildManifest(arts[i]) : i \in 1 .. n}
           IN  /\ WellMade(report)
               /\ (\A m, k \in made : m.page = k.page => m = k)
                  => ToSet(report.articles) \cup report.excluded = made
  <1> DEFINE s == [i \in 1 .. n |-> BuildManifest(arts[i])]
             made == {BuildManifest(arts[i]) : i \in 1 .. n}
             all == Deduplicated(s)
             relevant == {m \in all : IsRelevant(m)}
             asked == UNION {Cves(m) : m \in relevant}
             intel == [c \in asked \cap DOMAIN catalogue |-> catalogue[c]]
             report == CollectReport(arts, previous, catalogue)
             made2 == {s[i] : i \in 1 .. n}
  <1>1. \A i \in 1 .. n : s[i] = BuildManifest(arts[i]) /\ s[i] \in Manifests
    BY DEF Manifests, ToSet
  <1>2. s \in [1 .. n -> Manifests] /\ made = made2
    BY <1>1
  <1>3. DOMAIN arts = 1 .. n
    OBVIOUS
  <1>4. report = [articles |-> Ordered(relevant), excluded |-> all \ relevant,
                  brief |-> BuildBrief(Ordered(relevant), previous, intel),
                  intel |-> intel]
    BY <1>3 DEF CollectReport
  <1> HIDE DEF s, report
  <1>5. /\ all \subseteq made2 /\ IsFiniteSet(all)
        /\ \A m, k \in all : m.page = k.page => m = k
        /\ (\A i, j \in 1 .. n : s[i].page = s[j].page => s[i] = s[j])
           => all = made2
    BY <1>2, DeduplicatedIs
  <1>6. all \subseteq Manifests
    BY <1>2, <1>5
  <1> HIDE DEF all
  <1>7. TypedIntel(intel)
    BY DEF TypedIntel
  <1> HIDE DEF intel
  <1>8. relevant \in SUBSET all /\ relevant \in SUBSET Manifests
    BY <1>6
  <1>9. /\ relevant = {m \in all : IsRelevant(m)}
        /\ all \ relevant = {m \in all : ~IsRelevant(m)}
    OBVIOUS
  <1> HIDE DEF relevant
  <1>10. IsFiniteSet(relevant)
    BY <1>5, <1>8, FS_Subset
  <1>11. \A m, k \in relevant : m.url = k.url => m = k
    BY <1>5, <1>8, SamePage
  <1>12. /\ Ordered(relevant) \in Seq(relevant)
         /\ ToSet(Ordered(relevant)) = relevant
    BY <1>8, <1>10, <1>11, OrderedIs
  <1>13. Ordered(relevant) \in Seq(Manifests)
    BY <1>8, <1>12
  <1> DEFINE arts2 == Ordered(relevant)
             p == [i \in DOMAIN arts2 |-> BuildActions(arts2[i], intel)]
             f == FlattenSeq(p)
  <1>14. f \in Seq(AnyAction)
    <2> HIDE DEF arts2
    <2>1. arts2 \in Seq(Manifests)
      BY <1>13 DEF arts2
    <2> QED BY <1>7, <2>1, AskedForIs
  <1>15. /\ report.articles = arts2 /\ report.excluded = all \ relevant
         /\ report.intel = intel
         /\ report.brief = BuildBrief(arts2, previous, intel)
    BY <1>4
  <1> HIDE DEF arts2
  <1>16. /\ BuildBrief(arts2, previous, intel).clusters = Clusters(arts2)
         /\ BuildBrief(arts2, previous, intel).actions
            = Marked(KevFirst(f), previous)
    BY DEF BuildBrief
  <1>17. AskedFor(report) = f
    BY <1>15 DEF AskedFor
  <1> HIDE DEF f
  <1>18. KevFirst(f) \in Seq(AnyAction)
    BY <1>14, KevFirstIs
  <1> DEFINE b == Marked(KevFirst(f), previous)
  <1>19. /\ [i \in DOMAIN b |-> Plain(b[i])] = KevFirst(f)
         /\ b = [i \in DOMAIN b |-> b[i]]
         /\ \A i \in DOMAIN b : b[i] \in AnyEntry
    BY <1>18, MarkedIs
  <1> HIDE DEF b
  <1>20. ToSet(report.articles) \cup report.excluded = all
    BY <1>8, <1>12, <1>15 DEF arts2
  <1>21. /\ report.articles = Ordered({m \in all : IsRelevant(m)})
         /\ report.excluded = {m \in all : ~IsRelevant(m)}
    BY <1>9, <1>15 DEF arts2
  <1>22. /\ [i \in DOMAIN report.brief.actions |-> Plain(report.brief.actions[i])]
            = KevFirst(AskedFor(report))
         /\ report.brief.actions = [i \in DOMAIN report.brief.actions |->
                                        report.brief.actions[i]]
         /\ \A i \in DOMAIN report.brief.actions :
               report.brief.actions[i] \in AnyEntry
    BY <1>15, <1>16, <1>17, <1>19 DEF b
  <1>23. WellMade(report)
    BY <1>5, <1>6, <1>7, <1>15, <1>16, <1>20, <1>21, <1>22 DEF WellMade
  <1>24. (\A m, k \in made : m.page = k.page => m = k) => all = made
    BY <1>2, <1>5, ZenonT(30)
  <1> QED BY <1>20, <1>23, <1>24 DEF report

(* The articles of a report are manifests, no two of one address, none      *)
(* twice.                                                                   *)
LEMMA WellMadeIs ==
    ASSUME NEW report, WellMade(report)
    PROVE  /\ report.articles \in Seq(Manifests)
           /\ ToSet(report.articles) \subseteq Manifests
           /\ \A m, k \in ToSet(report.articles) : m.url = k.url => m = k
           /\ \A i, j \in DOMAIN report.articles :
                 report.articles[i] = report.articles[j] => i = j
  <1> DEFINE all == ToSet(report.articles) \cup report.excluded
             relevant == {m \in all : IsRelevant(m)}
  <1>1. /\ all \subseteq Manifests /\ IsFiniteSet(all)
        /\ \A m, k \in all : m.page = k.page => m = k
        /\ report.articles = Ordered(relevant)
    BY DEF WellMade
  <1>2. relevant \in SUBSET all /\ relevant \in SUBSET Manifests
    BY <1>1
  <1> HIDE DEF all, relevant
  <1> QED BY <1>1, <1>2, SamePage, FS_Subset, OrderedIs

(* Each action on the board is one that some article of the report asks    *)
(* for.                                                                    *)
LEMMA BoardIs ==
    ASSUME NEW report, WellMade(report), NEW x \in ToSet(report.brief.actions)
    PROVE  /\ Plain(x) \in AnyAction
           /\ \E m \in ToSet(report.articles) : AskedBy(m, Plain(x))
  <1> DEFINE b == report.brief.actions
             f == AskedFor(report)
  <1>1. /\ report.articles \in Seq(Manifests) /\ TypedIntel(report.intel)
        /\ [i \in DOMAIN b |-> Plain(b[i])] = KevFirst(f)
    BY WellMadeIs DEF WellMade
  <1>2. /\ f \in Seq(AnyAction)
        /\ \A y \in ToSet(f) : \E m \in ToSet(report.articles) : AskedBy(m, y)
    BY <1>1, AskedForIs DEF AskedFor
  <1> HIDE DEF f, b
  <1>3. /\ KevFirst(f) \in Seq(AnyAction)
        /\ ToSet(KevFirst(f)) \subseteq ToSet(f)
    BY <1>2, KevFirstIs
  <1>4. PICK i \in DOMAIN b : x = b[i]
    BY DEF ToSet, b
  <1>5. Plain(x) = KevFirst(f)[i] /\ i \in DOMAIN KevFirst(f)
    <2>1. PICK k : k = KevFirst(f)
      OBVIOUS
    <2> QED BY <1>1, <1>4, <2>1
  <1>6. Plain(x) \in AnyAction
    BY <1>3, <1>5
  <1> QED BY <1>2, <1>3, <1>5, <1>6 DEF ToSet

(* On the board of one report, what is blocked is named under a heading of  *)
(* indicators and is nothing that is shared.                                *)
LEMMA NothingShared ==
    ASSUME NEW report, WellMade(report), NEW m \in ToSet(report.articles),
           NEW x \in ToSet(report.brief.actions), x.url = m.url
    PROVE  /\ x.action = "block" =>
                /\ \E n \in DOMAIN m.body :
                      /\ UnderIocHeading(m.body, n)
                      /\ \E s \in ToSet(m.body[n].spans) :
                           s.text = x.target /\ TypeOf(s) = x.type
                /\ ~IsShared(x.type, x.target.host, m.source)
           /\ Unread(m) => x.action = "review"
  <1>1. /\ Plain(x) \in AnyAction
        /\ \E k \in ToSet(report.articles) : AskedBy(k, Plain(x))
    BY BoardIs
  <1>2. /\ x.action = Plain(x).action /\ x.type = Plain(x).type
        /\ x.target = Plain(x).target /\ x.url = Plain(x).url
    BY <1>1, PlainFields
  <1>3. PICK k \in ToSet(report.articles) : AskedBy(k, Plain(x))
    BY <1>1
  <1>4. k = m /\ m \in Manifests
    BY <1>2, <1>3, WellMadeIs DEF AskedBy
  <1>5. AskedBy(m, Plain(x))
    BY <1>3, <1>4
  <1>6. ASSUME x.action = "block"
        PROVE  /\ \E n \in DOMAIN m.body :
                     /\ UnderIocHeading(m.body, n)
                     /\ \E s \in ToSet(m.body[n].spans) :
                           s.text = x.target /\ TypeOf(s) = x.type
               /\ ~IsShared(x.type, x.target.host, m.source)
    <2>1. PICK e \in ToSet(Confirmed(m)) :
             /\ e.type \in NetworkTypes /\ BenignBasis(m, e) = None
             /\ x.type = e.type /\ x.target = e.text
      BY <1>2, <1>5, <1>6 DEF AskedBy
    <2>2. PICK a : MadeOf(m, a)
      BY <1>4, ManifestIs
    <2>3. PICK n \in DOMAIN m.body :
            /\ UnderIocHeading(m.body, n)
            /\ \E s \in ToSet(m.body[n].spans) :
                 /\ s \in AnyMatch /\ s.text = e.text
                 /\ TypeOf(s) = e.type /\ s.type = e.type
                 /\ ~FromPublisher(s, Trusted(a))
                 /\ s.type = "ip" => s.text.host \notin NonPublic
      BY <1>4, <2>1, <2>2, ConfirmedNetwork
    <2>4. PICK s \in ToSet(m.body[n].spans) :
            /\ s \in AnyMatch /\ s.text = e.text
            /\ TypeOf(s) = e.type /\ s.type = e.type
            /\ ~FromPublisher(s, Trusted(a))
            /\ s.type = "ip" => s.text.host \notin NonPublic
      BY <2>3
    <2>5. ~IsShared(e.type, e.text.host, m.source)
      BY <1>4, <2>1, <2>2, <2>3, <2>4, BlockIsUnshared
    <2> QED BY <2>1, <2>3, <2>5, <2>4
  <1> QED BY <1>2, <1>5, <1>6 DEF AskedBy

(* A day analysed again: its articles go back in as they were.             *)
LEMMA ReanalysisIs ==
    ASSUME NEW report, WellMade(report), NEW previous,
           NEW catalogue, TypedIntel(catalogue)
    PROVE  LET again == Reanalysis(report, previous, catalogue)
           IN  /\ WellMade(again)
               /\ again.articles = report.articles
               /\ again.excluded = report.excluded
  <1> DEFINE all == ToSet(report.articles) \cup report.excluded
             stored == {m \in all : m.source \in DOMAIN PublisherHosts}
             parsed == {ParsedArticle(m) : m \in stored}
             arts == SetToSeq(parsed)
             again == Reanalysis(report, previous, catalogue)
  <1>1. /\ all \subseteq Manifests /\ IsFiniteSet(all)
        /\ \A m, k \in all : m.page = k.page => m = k
        /\ report.articles = Ordered({m \in all : IsRelevant(m)})
        /\ report.excluded = {m \in all : ~IsRelevant(m)}
    BY DEF WellMade
  <1>2. again = CollectReport(arts, previous, catalogue)
    BY DEF Reanalysis
  <1> HIDE DEF all, again
  <1>3. stored = all
    BY <1>1, ManifestIs DEF MadeOf
  <1> HIDE DEF stored
  <1>4. IsFiniteSet(parsed)
    <2> DEFINE h == [m \in stored |-> ParsedArticle(m)]
    <2>1. h \in Surjection(stored, parsed)
      BY DEF Surjection
    <2> HIDE DEF h
    <2> QED BY <1>1, <1>3, <2>1, FS_Surjection
  <1>5. parsed \subseteq ToSet(Articles)
    BY <1>1, <1>3, ReadBack
  <1>6. {BuildManifest(x) : x \in parsed} = all
    BY <1>1, <1>3, ReadBack
  <1> HIDE DEF parsed
  <1>7. arts \in Seq(parsed) /\ ToSet(arts) = parsed
    BY <1>4, SetToSeqIs
  <1> HIDE DEF arts
  <1>8. PICK n \in Nat : DOMAIN arts = 1 .. n
    BY <1>7
  <1>9. arts \in [1 .. n -> ToSet(Articles)]
    BY <1>5, <1>7, <1>8
  <1> DEFINE made == {BuildManifest(arts[i]) : i \in 1 .. n}
  <1>10. made = all
    BY <1>6, <1>7, <1>8 DEF ToSet
  <1>11. /\ WellMade(again)
         /\ (\A m, k \in made : m.page = k.page => m = k)
            => ToSet(again.articles) \cup again.excluded = made
    BY <1>2, <1>9, CollectReportIs
  <1> QED BY <1>1, <1>10, <1>11 DEF again, WellMade

(* Each report of the archive is well made; days ahead have none.          *)
IInv ==
    /\ today \in Int
    /\ archive = [d \in Day |-> archive[d]]
    /\ \A d \in Dates(archive) : WellMade(archive[d])
    /\ \A d \in Day : d >= today => archive[d] = None

(* A new report is what its analysis makes of its articles.                 *)
LEMMA CollectKeeps ==
    ASSUME IInv, Collect PROVE IInv'
  <1>1. PICK S \in SUBSET DOMAIN Articles :
            archive' = [archive EXCEPT ![today] =
                CollectReport(At(Articles, S), Previous(today),
                              Catalogue[today])]
    BY DEF Collect
  <1> DEFINE report == CollectReport(At(Articles, S), Previous(today),
                                     Catalogue[today])
  <1>2. today \in Day /\ today' = today + 1 /\ today \in Int
    BY DEF Collect, IInv
  <1>3. WellMade(report)
    <2> DEFINE T == ToSet(Articles)
    <2>1. Articles \in Seq(T)
      BY ArticlesAssumption
    <2>2. At(Articles, S) \in Seq(T)
      <3> HIDE DEF T
      <3> QED BY <2>1, AtIs
    <2> HIDE DEF T
    <2>3. PICK n \in Nat : At(Articles, S) \in [1 .. n -> T]
      BY <2>2
    <2> QED BY <1>2, <2>3, CatalogueAssumption, CollectReportIs
               DEF T, TypedIntel
  <1> HIDE DEF report
  <1>4. archive' = [archive EXCEPT ![today] = report]
    BY <1>1 DEF report
  <1>5. archive = [d \in Day |-> archive[d]]
    BY DEF IInv
  <1>6. archive' = [d \in Day |-> archive'[d]]
    BY <1>4, <1>5
  <1>7. \A d \in Day : archive'[d] = IF d = today THEN report ELSE archive[d]
    BY <1>4, <1>5
  <1>8. \A d \in Day : d >= today' => archive'[d] = None
    BY <1>2, <1>7, DayAssumption DEF IInv
  <1> QED BY <1>2, <1>3, <1>6, <1>7, <1>8 DEF IInv, Dates

(* A second analysis gives a report of that kind again.                     *)
LEMMA ReanalyzeKeeps ==
    ASSUME IInv, NEW d \in Day, Reanalyze(d)
    PROVE  /\ IInv'
           /\ \E previous, catalogue :
                 /\ TypedIntel(catalogue)
                 /\ archive' = [archive EXCEPT ![d] =
                        Reanalysis(archive[d], previous, catalogue)]
  <1>1. PICK previous :
            archive' = [archive EXCEPT ![d] =
                Reanalysis(archive[d], previous,
                           Catalogue[Max(Dates(archive))])]
    BY DEF Reanalyze
  <1> DEFINE days == Dates(archive)
             catalogue == Catalogue[Max(days)]
             report == Reanalysis(archive[d], previous, catalogue)
  <1>2. d \in days /\ today' = today /\ today \in Int
    BY DEF Reanalyze, IInv
  <1>3. TypedIntel(catalogue)
    <2>1. days \in SUBSET Day
      BY DEF Dates
    <2>2. days \in SUBSET Int /\ IsFiniteSet(days) /\ days # {}
      <3> HIDE DEF days
      <3> QED BY <1>2, <2>1, DayAssumption, FS_Subset
    <2> HIDE DEF days
    <2> QED BY <2>1, <2>2, MaxMin, CatalogueAssumption DEF TypedIntel
  <1> HIDE DEF catalogue
  <1> HIDE DEF report
  <1>4. archive' = [archive EXCEPT ![d] = report]
    BY <1>1 DEF report, catalogue
  <1> QED BY <1>2, <1>3, <1>4, ReanalysisIs DEF report, IInv, Dates

(* Every archived report is what an analysis makes of the articles it       *)
(* stores: its findings are those of their bodies, its board what they ask  *)
(* for, its clusters what their CVEs link (collect_report, reanalyze).      *)
THEOREM Inductive == Spec => []IInv
  <1>1. Init => IInv
    <2> SUFFICES ASSUME Init PROVE IInv
      OBVIOUS
    <2> QED BY DayAssumption, MaxMin DEF Init, IInv, Dates
  <1>2. IInv /\ [Next]_vars => IInv'
    <2> SUFFICES ASSUME IInv, [Next]_vars PROVE IInv'
      OBVIOUS
    <2>1. CASE Collect
      BY <2>1, CollectKeeps
    <2>2. CASE MissDay
      BY <2>2, DayAssumption DEF IInv, Dates, MissDay
    <2>3. ASSUME NEW d \in Day, Reanalyze(d) PROVE IInv'
      BY <2>3, ReanalyzeKeeps
    <2>4. CASE WriteBundle
      BY <2>4 DEF WriteBundle, IInv, Dates
    <2>5. CASE Damage
      BY <2>5 DEF Damage, IInv, Dates
    <2>6. CASE UNCHANGED vars
      BY <2>6 DEF vars, IInv, Dates
    <2> QED BY <2>1, <2>2, <2>3, <2>4, <2>5, <2>6 DEF Next
  <1> QED BY <1>1, <1>2, PTL DEF Spec

(* No board ever tells the duty officer to block what many share, or what   *)
(* no section of indicators names, and an article that was not read asks    *)
(* for a review only (_classify, extract_evidence, build_actions).          *)
THEOREM SharedIsNeverBlocked == Spec => []NothingSharedIsBlocked
  <1>1. IInv => NothingSharedIsBlocked
    <2> SUFFICES ASSUME IInv PROVE NothingSharedIsBlocked
      OBVIOUS
    <2>1. ASSUME NEW report \in Reports, NEW m \in ToSet(report.articles),
                 NEW a \in ToSet(report.brief.actions), a.url = m.url
          PROVE  /\ a.action = "block" =>
                      /\ \E n \in DOMAIN m.body :
                           /\ UnderIocHeading(m.body, n)
                           /\ \E s \in ToSet(m.body[n].spans) :
                                s.text = a.target /\ TypeOf(s) = a.type
                      /\ ~IsShared(a.type, a.target.host, m.source)
                 /\ Unread(m) => a.action = "review"
      BY <2>1, NothingShared DEF Reports, IInv
    <2> QED BY <2>1 DEF NothingSharedIsBlocked
  <1> QED BY <1>1, Inductive, PTL

(* Actions that differ in what catalogues say of them, if at all.          *)
SameKind(f, g) ==
    /\ Len(f) = Len(g)
    /\ \A i \in 1 .. Len(f) :
          f[i].action = g[i].action /\ f[i].url = g[i].url
          /\ f[i].target = g[i].target /\ f[i].type = g[i].type
          /\ f[i].benign = g[i].benign

(* Concatenations of parts that are of a kind are of a kind.               *)
LEMMA FlatKind ==
    ASSUME NEW n \in Nat, NEW p \in [1 .. n -> Seq(AnyAction)],
           NEW q \in [1 .. n -> Seq(AnyAction)],
           \A i \in 1 .. n : SameKind(p[i], q[i])
    PROVE  SameKind(FlattenSeq(p), FlattenSeq(q))
  <1>1. PICK f, off : f = FlattenSeq(p) /\ f \in Seq(AnyAction)
                      /\ Flat(f, p, n, off)
    BY FlattenIs
  <1>2. PICK g, offq : g = FlattenSeq(q) /\ g \in Seq(AnyAction)
                       /\ Flat(g, q, n, offq)
    BY FlattenIs
  <1>3. SameOffsets(off, offq, n)
    BY <1>1, <1>2, FlatAlike DEF SameKind
  <1>4. ASSUME NEW k \in 1 .. Len(f)
        PROVE  f[k].action = g[k].action /\ f[k].url = g[k].url
               /\ f[k].target = g[k].target /\ f[k].type = g[k].type
               /\ f[k].benign = g[k].benign
    <2>1. Placed(f, p, n, off, k)
      BY <1>1, <1>4, FlatFrom
    <2>2. PICK h \in Nat : \E j \in Nat :
              /\ h < n /\ 1 <= j /\ j <= Len(p[h + 1])
              /\ k = off[h] + j /\ f[k] = p[h + 1][j]
      BY <2>1 DEF Placed
    <2>3. PICK j \in Nat :
              /\ h < n /\ 1 <= j /\ j <= Len(p[h + 1])
              /\ k = off[h] + j /\ f[k] = p[h + 1][j]
      BY <2>2
    <2>4. h + 1 \in 1 .. n /\ h <= n
      BY <2>3
    <2>5. SameKind(p[h + 1], q[h + 1])
      BY <2>4
    <2>6. PICK l \in Nat : l = Len(p[h + 1])
      BY <2>4
    <2>7. j \in 1 .. Len(p[h + 1]) /\ j \in 1 .. Len(q[h + 1])
      BY <2>3, <2>5, <2>6 DEF SameKind
    <2>8. g[offq[h] + j] = q[h + 1][j]
      BY <1>2, <2>3, <2>7 DEF PartIn, Flat
    <2>9. g[k] = q[h + 1][j]
      BY <1>3, <2>3, <2>4, <2>8 DEF SameOffsets
    <2> QED BY <2>3, <2>5, <2>7, <2>9 DEF SameKind
  <1> QED BY <1>1, <1>2, <1>3, <1>4 DEF SameKind, Flat, SameOffsets

(* What catalogues say of CVEs changes no action's kind, address or target. *)
LEMMA BuildKind ==
    ASSUME NEW m \in Manifests, NEW intel, TypedIntel(intel),
           NEW later, TypedIntel(later)
    PROVE  SameKind(BuildActions(m, intel), BuildActions(m, later))
  <1>1. SameKind(EventActions(m), EventActions(m))
    BY DEF SameKind
  <1>2. CASE Unread(m)
    BY <1>1, <1>2 DEF BuildActions, OrElse
  <1>3. CASE ~ Unread(m)
    <2>1. PICK con \in Seq(AnyFinding), n \in Nat :
              con = Confirmed(m) /\ DOMAIN con = 1 .. n
      <3>1. PICK con \in Seq(AnyFinding) : con = Confirmed(m)
        BY ConfirmedIs
      <3> QED BY <3>1
    <2> DEFINE p == [i \in 1 .. n |-> ActionsOf(m, con[i], intel)]
               q == [i \in 1 .. n |-> ActionsOf(m, con[i], later)]
    <2>2. /\ FindingActions(m, intel) = FlattenSeq(p)
          /\ FindingActions(m, later) = FlattenSeq(q)
      BY <2>1 DEF FindingActions
    <2>3. /\ p \in [1 .. n -> Seq(AnyAction)]
          /\ q \in [1 .. n -> Seq(AnyAction)]
      BY <1>3, <2>1, ActionsOfIs DEF ToSet
    <2>4. ASSUME NEW e PROVE SameKind(ActionsOf(m, e, intel),
                                      ActionsOf(m, e, later))
      BY DEF SameKind, ActionsOf, FindingAction, MakeAction
    <2>5. \A i \in 1 .. n : SameKind(p[i], q[i])
      BY <2>4
    <2> HIDE DEF p, q
    <2>6. SameKind(FlattenSeq(p), FlattenSeq(q))
      BY <2>3, <2>5, FlatKind
    <2>7. FlattenSeq(p) = <<>> <=> FlattenSeq(q) = <<>>
      <3>1. FlattenSeq(p) \in Seq(AnyAction) /\ FlattenSeq(q) \in Seq(AnyAction)
        BY <2>3, FlattenIs
      <3>2. PICK f \in Seq(AnyAction) : f = FlattenSeq(p)
        BY <3>1
      <3>3. PICK g \in Seq(AnyAction) : g = FlattenSeq(q)
        BY <3>1
      <3> QED BY <2>6, <3>2, <3>3, EmptySeq DEF SameKind
    <2> QED BY <1>1, <1>3, <2>2, <2>6, <2>7 DEF BuildActions, OrElse
  <1> QED BY <1>2, <1>3

(* Two reports of the same articles ask for the same actions, what          *)
(* catalogues say of CVEs aside.                                            *)
LEMMA AskedKind ==
    ASSUME NEW report, WellMade(report), NEW again, WellMade(again),
           again.articles = report.articles
    PROVE  SameKind(AskedFor(report), AskedFor(again))
  <1>1. PICK arts \in Seq(Manifests) : arts = report.articles
    BY WellMadeIs
  <1>2. PICK n \in Nat : DOMAIN arts = 1 .. n /\ n = Len(arts)
    OBVIOUS
  <1>3. PICK intel : intel = report.intel /\ TypedIntel(intel)
    BY DEF WellMade
  <1>4. PICK later : later = again.intel /\ TypedIntel(later)
    BY DEF WellMade
  <1> DEFINE p == [i \in 1 .. n |-> BuildActions(arts[i], intel)]
             q == [i \in 1 .. n |-> BuildActions(arts[i], later)]
  <1>5. AskedFor(report) = FlattenSeq(p) /\ AskedFor(again) = FlattenSeq(q)
    BY <1>1, <1>2, <1>3, <1>4 DEF AskedFor
  <1>6. \A i \in 1 .. n : arts[i] \in Manifests
    BY <1>2
  <1>7. /\ p \in [1 .. n -> Seq(AnyAction)] /\ q \in [1 .. n -> Seq(AnyAction)]
        /\ \A i \in 1 .. n : SameKind(p[i], q[i])
    BY <1>3, <1>4, <1>6, BuildActionsIs, BuildKind
  <1> HIDE DEF p, q
  <1> QED BY <1>5, <1>7, FlatKind

(* The board is what its articles ask for, with patches changing places.   *)
Ranking(board, f, ranked, pi, n) ==
    /\ f \in Seq(AnyAction) /\ Trades(pi, f, ranked, n)
    /\ DOMAIN board = 1 .. n /\ Len(board) = n
    /\ \A i \in 1 .. n : /\ Plain(board[i]) = f[pi[i]]
                         /\ f[pi[i]] \in AnyAction /\ f[i] \in AnyAction

(* A board is what its articles ask for, ranked by a bijection that moves   *)
(* patches only, and marked.                                                *)
LEMMA BoardTrades ==
    ASSUME NEW report, WellMade(report)
    PROVE  \E ranked, pi, n :
              Ranking(report.brief.actions, AskedFor(report), ranked, pi, n)
  <1> DEFINE b == report.brief.actions
  <1>1. /\ report.articles \in Seq(Manifests) /\ TypedIntel(report.intel)
        /\ [i \in DOMAIN b |-> Plain(b[i])] = KevFirst(AskedFor(report))
        /\ b = [i \in DOMAIN b |-> b[i]]
    BY WellMadeIs DEF WellMade
  <1>2. PICK f \in Seq(AnyAction) : f = AskedFor(report)
    BY <1>1, AskedForIs DEF AskedFor
  <1>3. PICK pi, n : Trades(pi, f, KevFirst(f), n)
    BY KevFirstTrades
  <1>4. /\ n = Len(f) /\ n \in Nat /\ pi \in [1 .. n -> 1 .. n]
        /\ KevFirst(f) = [i \in 1 .. n |-> f[pi[i]]]
    BY <1>3 DEF Trades
  <1> HIDE DEF b
  <1>5. PICK k : k = KevFirst(f)
    OBVIOUS
  <1>6. k = [i \in DOMAIN b |-> Plain(b[i])] /\ k = [i \in 1 .. n |-> f[pi[i]]]
    BY <1>1, <1>2, <1>4, <1>5
  <1>7. DOMAIN k = DOMAIN b /\ DOMAIN k = 1 .. n
    BY <1>6
  <1>8. \A i \in 1 .. n : Plain(b[i]) = f[pi[i]]
    BY <1>6, <1>7
  <1>9. \A i \in 1 .. n : pi[i] \in 1 .. n /\ f[i] \in AnyAction
    BY <1>2, <1>4
  <1>10. Len(b) = n
    BY <1>1, <1>4, <1>7
  <1> QED BY <1>2, <1>3, <1>5, <1>7, <1>8, <1>9, <1>10
     DEF b, Ranking

(* Nothing is lost when patches trade places.                              *)
LEMMA TradesOnto ==
    ASSUME NEW pi, NEW f, NEW ranked, NEW n, Trades(pi, f, ranked, n)
    PROVE  /\ pi \in Bijection(1 .. n, 1 .. n)
           /\ \A j \in 1 .. n : \E i \in 1 .. n : pi[i] = j
           /\ \A i \in 1 .. n : f[pi[i]].action = "patch"
                                <=> f[i].action = "patch"
  <1>1. n \in Nat /\ pi \in Injection(1 .. n, 1 .. n)
    BY DEF Trades, Injection, IsInjective
  <1>2. pi \in Surjection(1 .. n, 1 .. n)
    BY <1>1, FS_Interval, FS_Injection
  <1> QED BY <1>1, <1>2 DEF Trades, Surjection, Bijection

SaidOf(articles, excluded, clusters, board) ==
    [articles |-> articles, excluded |-> excluded, clusters |-> clusters,
     patches |-> {<<board[i].url, board[i].target>> : i \in Patches(board)},
     others |-> [i \in DOMAIN board |->
                    IF i \in Patches(board) THEN None
                    ELSE <<board[i].action, board[i].url, board[i].target>>]]

(* What is said of a board is what its articles ask for.                   *)
LEMMA SaidIs ==
    ASSUME NEW report, WellMade(report), NEW f, f = AskedFor(report)
    PROVE  Said(report) = SaidOf(report.articles, report.excluded,
                                 Clusters(report.articles), f)
  <1>1. PICK ranked, pi, n : Ranking(report.brief.actions, f, ranked, pi, n)
    BY BoardTrades
  <1>2. /\ f \in Seq(AnyAction)
        /\ Trades(pi, f, ranked, n)
        /\ DOMAIN report.brief.actions = 1 .. n
        /\ \A i \in 1 .. n :
              /\ Plain(report.brief.actions[i]) = f[pi[i]]
              /\ f[pi[i]] \in AnyAction /\ f[i] \in AnyAction
    BY <1>1 DEF Ranking
  <1>3. PICK b : b = report.brief.actions
    OBVIOUS
  <1>4. /\ \A j \in 1 .. n : \E i \in 1 .. n : pi[i] = j
        /\ \A i \in 1 .. n : f[pi[i]].action = "patch"
                             <=> f[i].action = "patch"
    BY <1>2, TradesOnto
  <1>5. /\ \A i \in 1 .. n : pi[i] \in 1 .. n
        /\ \A i \in 1 .. n : f[i].action # "patch" => pi[i] = i
    BY <1>2 DEF Trades
  <1>6. DOMAIN f = 1 .. n
    BY <1>2 DEF Trades
  <1>7. \A i \in 1 .. n : /\ b[i].action = f[pi[i]].action
                          /\ b[i].url = f[pi[i]].url
                          /\ b[i].target = f[pi[i]].target
    BY <1>2, <1>3, PlainFields
  <1>8. DOMAIN b = 1 .. n
    BY <1>2, <1>3
  <1>9. /\ Patches(b) = {i \in 1 .. n : b[i].action = "patch"}
        /\ Patches(f) = {i \in 1 .. n : f[i].action = "patch"}
    BY <1>6, <1>8 DEF Patches
  <1>10. Patches(b) = Patches(f)
    BY <1>4, <1>7, <1>9
  <1>11. PICK P : P = Patches(f)
    OBVIOUS
  <1> DEFINE onBoard == {<<b[i].url, b[i].target>> : i \in Patches(b)}
             asked == {<<f[i].url, f[i].target>> : i \in Patches(f)}
  <1>12. onBoard = asked
    <2>1. ASSUME NEW i \in P
          PROVE  \E j \in P : <<b[i].url, b[i].target>>
                              = <<f[j].url, f[j].target>>
      BY <1>4, <1>5, <1>7, <1>9, <1>11
    <2>2. ASSUME NEW j \in P
          PROVE  \E i \in P : <<b[i].url, b[i].target>>
                              = <<f[j].url, f[j].target>>
      <3>1. j \in 1 .. n /\ f[j].action = "patch"
        BY <1>9, <1>11
      <3>2. PICK i \in 1 .. n : pi[i] = j
        BY <1>4, <3>1
      <3>3. i \in P
        BY <1>4, <1>9, <1>11, <3>1, <3>2
      <3> QED BY <1>7, <3>2, <3>3
    <2>3. asked \subseteq onBoard
      BY <1>10, <1>11, <2>2
    <2> QED BY <1>10, <1>11, <2>1, <2>3
  <1>13. ASSUME NEW i \in 1 .. n, i \notin P
         PROVE  /\ b[i].action = f[i].action /\ b[i].url = f[i].url
                /\ b[i].target = f[i].target
    BY <1>5, <1>7, <1>9, <1>11, <1>13
  <1> DEFINE said(x, i) == IF i \in Patches(x) THEN None
                           ELSE <<x[i].action, x[i].url, x[i].target>>
             others == [i \in DOMAIN b |-> said(b, i)]
             rest == [i \in DOMAIN f |-> said(f, i)]
  <1>14. others = rest
    <2>1. /\ others = [i \in 1 .. n |-> others[i]]
          /\ rest = [i \in 1 .. n |-> rest[i]]
      BY <1>6, <1>8
    <2>2. \A i \in 1 .. n : others[i] = rest[i]
      BY <1>6, <1>8, <1>10, <1>11, <1>13
    <2> HIDE DEF others, rest
    <2>3. [i \in 1 .. n |-> others[i]] = [i \in 1 .. n |-> rest[i]]
      BY <2>2
    <2> QED BY <2>1, <2>3
  <1>15. SaidOf(report.articles, report.excluded, Clusters(report.articles), b)
         = SaidOf(report.articles, report.excluded, Clusters(report.articles), f)
    BY <1>12, <1>14 DEF SaidOf
  <1> QED BY <1>3, <1>15 DEF Said, SaidOf, WellMade

(* Two well made reports of the same articles say the same.                 *)
LEMMA SaidAgain ==
    ASSUME NEW report, WellMade(report), NEW again, WellMade(again),
           again.articles = report.articles, again.excluded = report.excluded
    PROVE  Said(again) = Said(report)
  <1>1. PICK f, g : /\ f = AskedFor(report) /\ g = AskedFor(again)
                    /\ SameKind(f, g)
    BY AskedKind
  <1>2. PICK n \in Nat : /\ n = Len(f) /\ n = Len(g)
                         /\ DOMAIN f = 1 .. n /\ DOMAIN g = 1 .. n
    BY <1>1, BoardTrades DEF SameKind, Ranking
  <1>3. \A i \in 1 .. n :
           f[i].action = g[i].action /\ f[i].url = g[i].url
           /\ f[i].target = g[i].target
    BY <1>1, <1>2 DEF SameKind
  <1>4. Patches(f) = Patches(g) /\ Patches(f) \subseteq 1 .. n
    BY <1>2, <1>3 DEF Patches
  <1>5. PICK x : x = report.articles
    OBVIOUS
  <1>6. SaidOf(x, report.excluded, Clusters(x), f)
        = SaidOf(x, report.excluded, Clusters(x), g)
    <2> DEFINE first == {<<f[i].url, f[i].target>> : i \in Patches(f)}
               second == {<<g[i].url, g[i].target>> : i \in Patches(g)}
               said(y, i) == IF i \in Patches(y) THEN None
                             ELSE <<y[i].action, y[i].url, y[i].target>>
               others == [i \in DOMAIN f |-> said(f, i)]
               rest == [i \in DOMAIN g |-> said(g, i)]
    <2>1. first = second
      BY <1>3, <1>4
    <2>2. others = rest
      <3>1. /\ others = [i \in 1 .. n |-> others[i]]
            /\ rest = [i \in 1 .. n |-> rest[i]]
        BY <1>2
      <3>2. \A i \in 1 .. n : others[i] = rest[i]
        BY <1>2, <1>3, <1>4
      <3> HIDE DEF others, rest
      <3> QED BY <3>1, <3>2
    <2> QED BY <2>1, <2>2 DEF SaidOf
  <1> QED BY <1>1, <1>5, <1>6, SaidIs

(* Analysing a stored day again changes nothing it says of its articles,    *)
(* its clusters and what its board asks for (reanalyze: the hosts of a      *)
(* publisher come from the registry, not from the report).                  *)
THEOREM ReanalysisTellsTheSame == Spec => ReanalysisKeepsTheDay
  <1>1. IInv /\ [Next]_vars
        => [\A d \in Dates(archive) : Said(archive'[d]) = Said(archive[d])]_vars
    <2> SUFFICES ASSUME IInv, Next, NEW d \in Dates(archive)
                 PROVE  Said(archive'[d]) = Said(archive[d])
      BY DEF vars
    <2>1. d \in Day /\ WellMade(archive[d])
      BY DEF IInv, Dates
    <2>2. CASE Collect
      BY <2>1, <2>2 DEF IInv, Collect, Dates
    <2>3. CASE MissDay
      BY <2>3 DEF MissDay
    <2>4. ASSUME NEW x \in Day, Reanalyze(x)
          PROVE  Said(archive'[d]) = Said(archive[d])
      <3>1. PICK previous, catalogue :
               /\ TypedIntel(catalogue)
               /\ archive' = [archive EXCEPT ![x] =
                      Reanalysis(archive[x], previous, catalogue)]
        BY <2>4, ReanalyzeKeeps
      <3>2. CASE d # x
        BY <2>1, <3>1, <3>2 DEF IInv
      <3>3. CASE d = x
        <4>1. PICK again : again = Reanalysis(archive[d], previous, catalogue)
          OBVIOUS
        <4>2. archive'[d] = again
          BY <2>1, <3>1, <3>3, <4>1 DEF IInv
        <4>3. /\ WellMade(again)
              /\ again.articles = archive[d].articles
              /\ again.excluded = archive[d].excluded
          BY <2>1, <3>1, <4>1, ReanalysisIs
        <4> QED BY <2>1, <4>2, <4>3, SaidAgain
      <3> QED BY <3>2, <3>3
    <2>5. CASE WriteBundle
      BY <2>5 DEF WriteBundle
    <2>6. CASE Damage
      BY <2>6 DEF Damage
    <2> QED BY <2>2, <2>3, <2>4, <2>5, <2>6 DEF Next
  <1> QED BY <1>1, Inductive, PTL DEF Spec, ReanalysisKeepsTheDay

(* A permutation of the places keeps how often a value stands there.       *)
Often(n, pi, Q) == Cardinality({i \in 1 .. n : pi[i] \in Q})
                   = Cardinality({j \in 1 .. n : j \in Q})

(* A bijection of places leaves as many of them in a set as before.         *)
LEMMA AsOften ==
    ASSUME NEW n \in Nat, NEW pi \in Bijection(1 .. n, 1 .. n), NEW Q
    PROVE  Often(n, pi, Q)
  <1> DEFINE A == {i \in 1 .. n : pi[i] \in Q}
             B == {j \in 1 .. n : j \in Q}
             h == [i \in A |-> pi[i]]
  <1>1. /\ pi \in [1 .. n -> 1 .. n]
        /\ \A i, j \in 1 .. n : pi[i] = pi[j] => i = j
        /\ \A j \in 1 .. n : \E i \in 1 .. n : pi[i] = j
    BY DEF Bijection, Injection, Surjection, IsInjective
  <1>2. IsFiniteSet(A)
    <2>1. IsFiniteSet(1 .. n) /\ A \in SUBSET (1 .. n)
      BY FS_Interval
    <2> HIDE DEF A
    <2> QED BY <2>1, FS_Subset
  <1>3. \A i \in A : h[i] = pi[i] /\ h[i] \in B
    BY <1>1
  <1>4. h \in [A -> B]
    BY <1>1
  <1>5. \A i, j \in A : h[i] = h[j] => i = j
    BY <1>1, <1>3
  <1>6. \A j \in B : \E i \in A : h[i] = j
    <2> SUFFICES ASSUME NEW j \in B PROVE \E i \in A : h[i] = j
      OBVIOUS
    <2>1. PICK i \in 1 .. n : pi[i] = j
      BY <1>1
    <2> QED BY <1>3, <2>1
  <1> HIDE DEF A, B, h
  <1>7. h \in Bijection(A, B)
    BY <1>4, <1>5, <1>6 DEF Bijection, Injection, Surjection, IsInjective
  <1> QED BY <1>2, <1>7, FS_Bijection DEF A, B, Often, ExistsBijection

(* Before ranking only a patch carries a mark of KEV.                       *)
LEMMA AskedActions ==
    ASSUME NEW report, WellMade(report), NEW x \in ToSet(AskedFor(report))
    PROVE  x.action # "patch" => ~x.intel.kev
  <1>1. report.articles \in Seq(Manifests) /\ TypedIntel(report.intel)
    BY WellMadeIs DEF WellMade
  <1> QED BY <1>1, AskedForIs DEF AskedBy, AskedFor

(* What the board keeps of what its articles ask for.                      *)
LEMMA BoardKeeps ==
    ASSUME NEW report, WellMade(report)
    PROVE  LET board == report.brief.actions
               asked == AskedFor(report)
           IN  /\ Len(board) = Len(asked)
               /\ \A i \in DOMAIN board :
                    /\ Cardinality({j \in DOMAIN board :
                                       Plain(board[j]) = Plain(board[i])})
                       = Cardinality({j \in DOMAIN asked :
                                       asked[j] = Plain(board[i])})
                    /\ asked[i].action # "patch"
                       => Plain(board[i]) = asked[i]
                    /\ \A j \in 1 .. i :
                         board[i].intel.kev /\ board[j].action = "patch"
                         => board[j].intel.kev
  <1>1. PICK b, f : b = report.brief.actions /\ f = AskedFor(report)
    OBVIOUS
  <1>2. PICK ranked, pi, n : Ranking(b, f, ranked, pi, n)
    BY <1>1, BoardTrades
  <1>3. /\ f \in Seq(AnyAction) /\ Trades(pi, f, ranked, n)
        /\ DOMAIN b = 1 .. n /\ Len(b) = n
        /\ \A i \in 1 .. n : /\ Plain(b[i]) = f[pi[i]]
                             /\ f[pi[i]] \in AnyAction /\ f[i] \in AnyAction
    BY <1>2 DEF Ranking
  <1>4. /\ n = Len(f) /\ n \in Nat
        /\ \A i \in 1 .. n : pi[i] \in 1 .. n
        /\ \A i \in 1 .. n : f[i].action # "patch" => pi[i] = i
        /\ \A i, j \in 1 .. n :
              /\ j < i /\ f[i].action = "patch" /\ f[j].action = "patch"
              /\ f[pi[i]].intel.kev
              => f[pi[j]].intel.kev
    BY <1>3 DEF Trades
  <1>5. DOMAIN f = 1 .. n
    BY <1>3, <1>4
  <1>6. /\ pi \in Bijection(1 .. n, 1 .. n)
        /\ \A i \in 1 .. n : f[pi[i]].action = "patch"
                             <=> f[i].action = "patch"
    BY <1>3, TradesOnto
  <1>7. \A i \in 1 .. n : /\ b[i].action = f[pi[i]].action
                          /\ b[i].intel = f[pi[i]].intel
    BY <1>3, PlainFields
  <1>8. \A i \in 1 .. n : f[i].action # "patch" => ~f[i].intel.kev
    BY <1>1, <1>5, AskedActions DEF ToSet
  <1>9. ASSUME NEW i \in 1 .. n
        PROVE  Cardinality({j \in DOMAIN b : Plain(b[j]) = Plain(b[i])})
               = Cardinality({j \in DOMAIN f : f[j] = Plain(b[i])})
    <2> DEFINE Q == {j \in 1 .. n : f[j] = Plain(b[i])}
    <2>1. {j \in DOMAIN b : Plain(b[j]) = Plain(b[i])}
          = {j \in 1 .. n : pi[j] \in Q}
      <3>1. \A j \in 1 .. n : pi[j] \in Q <=> Plain(b[j]) = Plain(b[i])
        BY <1>3, <1>4
      <3> HIDE DEF Q
      <3> QED BY <1>3, <3>1
    <2>2. {j \in DOMAIN f : f[j] = Plain(b[i])} = {j \in 1 .. n : j \in Q}
      BY <1>5
    <2> HIDE DEF Q
    <2>3. Often(n, pi, Q)
      BY <1>4, <1>6, AsOften
    <2> QED BY <2>1, <2>2, <2>3 DEF Often
  <1>10. ASSUME NEW i \in 1 .. n, f[i].action # "patch"
         PROVE  Plain(b[i]) = f[i]
    BY <1>3, <1>4, <1>10
  <1>11. ASSUME NEW i \in 1 .. n, NEW j \in 1 .. i,
                b[i].intel.kev, b[j].action = "patch"
         PROVE  b[j].intel.kev
    <2>1. j \in 1 .. n /\ (j < i \/ j = i)
      BY <1>4, <1>11
    <2>2. f[pi[i]].action = "patch"
      BY <1>4, <1>7, <1>8, <1>11
    <2>3. f[i].action = "patch" /\ f[j].action = "patch"
      BY <1>6, <1>7, <1>11, <2>1, <2>2
    <2> QED BY <1>4, <1>7, <1>11, <2>1, <2>3
  <1>12. /\ Len(b) = Len(f)
         /\ \A i \in DOMAIN b :
                    /\ Cardinality({j \in DOMAIN b :
                                       Plain(b[j]) = Plain(b[i])})
                       = Cardinality({j \in DOMAIN f :
                                       f[j] = Plain(b[i])})
                    /\ f[i].action # "patch" => Plain(b[i]) = f[i]
                    /\ \A j \in 1 .. i :
                         b[i].intel.kev /\ b[j].action = "patch"
                         => b[j].intel.kev
    BY <1>3, <1>4, <1>9, <1>10, <1>11
  <1> QED BY <1>1, <1>12

(* An element that stands once in one part stands once in the whole.       *)
Once(f, V) == \E k \in 1 .. Len(f) :
                 f[k] \in V /\ \A l \in 1 .. Len(f) : f[l] \in V => l = k

(* What one part of a flattened sequence holds once and no other part       *)
(* holds, the whole holds once.                                             *)
LEMMA FlatOnce ==
    ASSUME NEW T, NEW n \in Nat, NEW p \in [1 .. n -> Seq(T)], NEW V,
           NEW h \in 1 .. n, Once(p[h], V),
           \A i \in 1 .. n : \A l \in 1 .. Len(p[i]) : p[i][l] \in V => i = h
    PROVE  Once(FlattenSeq(p), V)
  <1>1. PICK f, off : /\ f = FlattenSeq(p) /\ f \in Seq(T)
                      /\ Flat(f, p, n, off)
    BY FlattenIs
  <1>2. PICK g \in Nat : h = g + 1 /\ g < n
    OBVIOUS
  <1>3. PICK j \in 1 .. Len(p[h]) :
            p[h][j] \in V /\ \A l \in 1 .. Len(p[h]) : p[h][l] \in V => l = j
    BY DEF Once
  <1>4. PICK o \in Nat : o = off[g]
    BY <1>1, <1>2 DEF Flat
  <1>5. PICK c \in Nat : c = Len(p[h])
    BY LenProperties
  <1>6. PICK e \in Nat : e = Len(f)
    BY <1>1
  <1>7. PartIn(f, o, p[h], e)
    BY <1>1, <1>2, <1>4, <1>6 DEF Flat
  <1>8. o + j \in 1 .. e /\ f[o + j] = p[h][j]
    BY <1>3, <1>5, <1>7 DEF PartIn
  <1>9. ASSUME NEW l \in 1 .. e, f[l] \in V PROVE l = o + j
    <2>1. Placed(f, p, n, off, l)
      BY <1>1, <1>6, FlatFrom
    <2>2. PICK i \in Nat : \E k \in Nat :
              /\ i < n /\ 1 <= k /\ k <= Len(p[i + 1])
              /\ l = off[i] + k /\ f[l] = p[i + 1][k]
      BY <2>1 DEF Placed
    <2>3. PICK k \in Nat :
              /\ i < n /\ 1 <= k /\ k <= Len(p[i + 1])
              /\ l = off[i] + k /\ f[l] = p[i + 1][k]
      BY <2>2
    <2>4. i + 1 \in 1 .. n
      BY <2>3
    <2>5. PICK d \in Nat : d = Len(p[i + 1])
      BY <2>4, LenProperties
    <2>6. k \in 1 .. Len(p[i + 1])
      BY <2>3, <2>5
    <2>7. i + 1 = h
      BY <1>9, <2>3, <2>4, <2>6
    <2>8. k = j
      BY <1>3, <1>9, <2>3, <2>6, <2>7
    <2> QED BY <1>2, <1>4, <2>3, <2>7, <2>8
  <1> QED BY <1>1, <1>3, <1>6, <1>8, <1>9 DEF Once

(* Of each confirmed value the first finding counts, and no other.         *)
ValueOf(e) == <<e.type, e.text>>

(* A confirmed value of an article is in its confirmed findings once        *)
(* (_unique_evidence).                                                      *)
LEMMA ConfirmedOnce ==
    ASSUME NEW m \in Manifests, NEW e \in ToSet(m.evidence),
           e.status = "confirmed"
    PROVE  Once(Confirmed(m), {x \in AnyFinding : ValueOf(x) = ValueOf(e)})
  <1>1. PICK a : MadeOf(m, a)
    BY ManifestIs
  <1>2. PICK ev \in Seq(AnyFinding) : ev = m.evidence
    BY <1>1 DEF MadeOf
  <1> DEFINE C == {i \in DOMAIN ev : ev[i].status = "confirmed"}
             P == {i \in C : \A j \in C : ValueOf(ev[j]) = ValueOf(ev[i])
                                          => i <= j}
             V == {x \in AnyFinding : ValueOf(x) = ValueOf(e)}
             con == Confirmed(m)
  <1>3. con = At(ev, P)
    BY <1>2 DEF Confirmed, ValueOf
  <1>4. PICK n \in Nat : n = Len(ev) /\ DOMAIN ev = 1 .. n
    OBVIOUS
  <1>5. \A i \in 1 .. n : ev[i] \in AnyFinding
    BY <1>4
  <1>6. P \in SUBSET DOMAIN ev /\ P \in SUBSET Int
    BY <1>4
  <1>7. PICK k \in P : ev[k] \in V
    <2> DEFINE S == {i \in C : ev[i] \in V}
    <2>1. PICK i \in DOMAIN ev : ev[i] = e
      BY <1>2 DEF ToSet
    <2>2. i \in S
      BY <1>4, <1>5, <2>1
    <2>3. S \in SUBSET Nat
      BY <1>4
    <2>4. PICK k \in S : \A j \in S : k <= j
      <3> HIDE DEF S
      <3> QED BY <2>2, <2>3, LeastOf
    <2>5. k \in P
      <3> SUFFICES ASSUME NEW j \in C, ValueOf(ev[j]) = ValueOf(ev[k])
                   PROVE  k <= j
        BY <2>4
      <3> QED BY <1>4, <1>5, <2>4
    <2> QED BY <2>4, <2>5
  <1>8. \A i \in P : ev[i] \in V => i = k
    <2> SUFFICES ASSUME NEW i \in P, ev[i] \in V PROVE i = k
      OBVIOUS
    <2> QED BY <1>6, <1>7
  <1> HIDE DEF V
  <1> HIDE DEF P, con
  <1> DEFINE c == Cardinality(P)
             s == Ascending(P)
  <1>9. /\ c \in Nat
         /\ \A i \in 1 .. c : s[i] \in P /\ At(ev, P)[i] = ev[s[i]]
         /\ Len(At(ev, P)) = c
    BY <1>6, AtIs
  <1>10. /\ \A x \in P : \E i \in 1 .. c : s[i] = x
         /\ \A i, j \in 1 .. c : i < j <=> s[i] < s[j]
    BY <1>2, <1>6, AtIs, AscendingIs
  <1> HIDE DEF s, c
  <1>11. PICK d \in 1 .. c : s[d] = k
    BY <1>7, <1>10
  <1>12. ASSUME NEW l \in 1 .. c, con[l] \in V PROVE l = d
    <2>1. ev[s[l]] \in V /\ s[l] \in P
      BY <1>3, <1>9, <1>12
    <2>2. s[l] = s[d]
      BY <1>8, <1>11, <2>1
    <2> QED BY <1>6, <1>9, <1>10, <2>1, <2>2
  <1>13. Once(con, V)
    BY <1>3, <1>7, <1>9, <1>11, <1>12 DEF Once
  <1> QED BY <1>13 DEF con, V

(* What an article confirms stands in a line that is not blank.            *)
LEMMA ConfirmedIsRead ==
    ASSUME NEW m \in Manifests, NEW e \in ToSet(m.evidence),
           e.status = "confirmed"
    PROVE  ~Unread(m)
  <1>1. PICK n \in DOMAIN m.body :
            \E s \in ToSet(m.body[n].spans) \cup ToSet(m.body[n].claims) :
               s.text = e.text
    BY ConfirmedLine
  <1>2. PICK i \in DOMAIN Articles : m = BuildManifest(Articles[i])
    BY DEF Manifests
  <1> QED BY <1>1, <1>2, BlankAssumption DEF Unread, ToSet, BuildManifest

(* A confirmed value to act on is asked about once by its article.         *)
AboutIt(m, e) ==
    {x \in AnyAction : x.url = m.url /\ x.type = e.type /\ x.target = e.text}

(* A confirmed value that is acted on is asked about once.                  *)
LEMMA AskedOnce ==
    ASSUME NEW m \in Manifests, NEW intel, TypedIntel(intel),
           NEW e \in ToSet(m.evidence), e.status = "confirmed",
           e.type \in Acted
    PROVE  Once(BuildActions(m, intel), AboutIt(m, e))
  <1> DEFINE V == AboutIt(m, e)
             U == {x \in AnyFinding : ValueOf(x) = ValueOf(e)}
  <1>1. ~Unread(m)
    BY ConfirmedIsRead
  <1>2. PICK con \in Seq(AnyFinding) : con = Confirmed(m)
    BY ConfirmedIs
  <1>3. PICK n \in Nat : n = Len(con) /\ DOMAIN con = 1 .. n
    OBVIOUS
  <1> DEFINE q == [i \in 1 .. n |-> ActionsOf(m, con[i], intel)]
  <1>4. FindingActions(m, intel) = FlattenSeq(q)
    BY <1>2, <1>3 DEF FindingActions
  <1>5. \A i \in 1 .. n : con[i] \in ToSet(Confirmed(m)) /\ con[i] \in AnyFinding
    BY <1>2, <1>3 DEF ToSet
  <1>6. q \in [1 .. n -> Seq(AnyAction)]
    BY <1>1, <1>5, ActionsOfIs
  <1>7. PICK d \in 1 .. n :
            con[d] \in U /\ \A l \in 1 .. n : con[l] \in U => l = d
    BY <1>2, <1>3, ConfirmedOnce DEF Once
  <1>8. ASSUME NEW i \in 1 .. n
        PROVE  /\ con[i].type \in Acted =>
                    \E x : /\ q[i] = <<x>> /\ x \in AnyAction
                           /\ x.type = con[i].type /\ x.target = con[i].text
                           /\ x.url = m.url
               /\ con[i].type \notin Acted => q[i] = <<>>
    <2>1. CASE con[i].type \in Acted
      <3>1. PICK x : /\ ActionsOf(m, con[i], intel) = <<x>>
                     /\ x.type = con[i].type /\ x.target = con[i].text
                     /\ x.url = m.url
        BY <2>1 DEF ActionsOf, Acted, FindingAction, MakeAction
      <3>2. q[i] = <<x>>
        BY <3>1
      <3>3. x \in AnyAction
        <4>1. PICK z \in Seq(AnyAction) : z = q[i]
          BY <1>6
        <4>2. Len(z) = 1 /\ z[1] = x
          BY <3>2, <4>1
        <4>3. PICK o \in 1 .. Len(z) : o = 1
          BY <4>2
        <4> QED BY <4>1, <4>2, <4>3, ElementOfSeq
      <3> QED BY <2>1, <3>1, <3>2, <3>3
    <2>2. CASE con[i].type \notin Acted
      BY <2>2 DEF ActionsOf, Acted
    <2> QED BY <2>1, <2>2
  <1> HIDE DEF q
  <1>9. Once(q[d], V)
    <2>1. PICK x : /\ q[d] = <<x>> /\ x \in AnyAction
                   /\ x.type = e.type /\ x.target = e.text /\ x.url = m.url
      BY <1>7, <1>8 DEF ValueOf
    <2> QED BY <2>1 DEF Once, AboutIt
  <1>10. ASSUME NEW i \in 1 .. n, NEW l \in 1 .. Len(q[i]), q[i][l] \in V
         PROVE  i = d
    <2>1. con[i].type \in Acted
      <3> SUFFICES ASSUME con[i].type \notin Acted PROVE FALSE
        OBVIOUS
      <3> QED BY <1>8
    <2>2. PICK x : /\ q[i] = <<x>> /\ x \in AnyAction
                   /\ x.type = con[i].type /\ x.target = con[i].text
      BY <1>8, <2>1
    <2>3. q[i][l] = x
      BY <2>2
    <2> QED BY <1>5, <1>7, <1>10, <2>2, <2>3 DEF ValueOf, AboutIt
  <1> HIDE DEF V
  <1>11. Once(FlattenSeq(q), V)
    BY <1>6, <1>9, <1>10, FlatOnce
  <1>12. FlattenSeq(q) # <<>>
    <2> SUFFICES ASSUME FlattenSeq(q) = <<>> PROVE FALSE
      OBVIOUS
    <2> QED BY <1>11 DEF Once
  <1> QED BY <1>1, <1>4, <1>11, <1>12 DEF V, BuildActions, OrElse

(* And so on the board.                                                    *)
LEMMA BoardOnce ==
    ASSUME NEW report, WellMade(report), NEW m \in ToSet(report.articles),
           NEW key \in Unique(m, "confirmed",
                              NetworkTypes \cup HostTypes \cup {"cve"})
    PROVE  LET board == report.brief.actions
           IN  Cardinality({i \in DOMAIN board :
                               /\ board[i].url = m.url
                               /\ <<board[i].type, board[i].target>> = key})
               = 1
  <1>1. PICK e \in ToSet(m.evidence) :
            /\ e.status = "confirmed" /\ e.type \in Acted
            /\ key = <<e.type, e.text>>
    BY DEF Unique, Acted
  <1>2. PICK arts \in Seq(Manifests) : arts = report.articles
    BY WellMadeIs
  <1>3. PICK c \in Nat : c = Len(arts) /\ DOMAIN arts = 1 .. c
    OBVIOUS
  <1>4. PICK intel : intel = report.intel /\ TypedIntel(intel)
    BY DEF WellMade
  <1>5. PICK h \in 1 .. c : m = arts[h]
    BY <1>2, <1>3 DEF ToSet
  <1> DEFINE V == AboutIt(m, e)
             p == [i \in 1 .. c |-> BuildActions(arts[i], intel)]
  <1>6. \A i \in 1 .. c : arts[i] \in Manifests /\ arts[i] \in ToSet(arts)
    BY <1>3 DEF ToSet
  <1>7. \A i \in 1 .. c :
           /\ BuildActions(arts[i], intel) \in Seq(AnyAction)
           /\ \A x \in ToSet(BuildActions(arts[i], intel)) : AskedBy(arts[i], x)
    BY <1>4, <1>6, BuildActionsIs
  <1>8. p \in [1 .. c -> Seq(AnyAction)]
    BY <1>7
  <1>9. Once(p[h], V)
    BY <1>1, <1>4, <1>5, WellMadeIs, AskedOnce
  <1>10. ASSUME NEW i \in 1 .. c, NEW l \in 1 .. Len(p[i]), p[i][l] \in V
         PROVE  i = h
    <2>1. p[i][l] \in ToSet(p[i])
      BY <1>8, LenProperties DEF ToSet
    <2>2. arts[i].url = arts[h].url
      BY <1>5, <1>7, <1>10, <2>1 DEF AskedBy, AboutIt
    <2> QED BY <1>2, <1>3, <1>6, <2>2, WellMadeIs
  <1>11. AskedFor(report) = FlattenSeq(p)
    BY <1>2, <1>3, <1>4 DEF AskedFor
  <1> HIDE DEF p, V
  <1>12. Once(AskedFor(report), V)
    BY <1>8, <1>9, <1>10, <1>11, FlatOnce
  <1>13. PICK b, f : b = report.brief.actions /\ f = AskedFor(report)
    OBVIOUS
  <1>14. PICK ranked, pi, n : Ranking(b, f, ranked, pi, n)
    BY <1>13, BoardTrades
  <1>15. /\ Trades(pi, f, ranked, n)
         /\ DOMAIN b = 1 .. n
         /\ \A i \in 1 .. n : Plain(b[i]) = f[pi[i]] /\ f[pi[i]] \in AnyAction
    BY <1>14 DEF Ranking
  <1>16. PICK k \in 1 .. n : f[k] \in V /\ \A l \in 1 .. n : f[l] \in V => l = k
    BY <1>12, <1>13, <1>15 DEF Once, Trades
  <1>17. /\ \A j \in 1 .. n : \E i \in 1 .. n : pi[i] = j
         /\ \A i \in 1 .. n : pi[i] \in 1 .. n
         /\ \A i, j \in 1 .. n : pi[i] = pi[j] => i = j
    <2>1. \A j \in 1 .. n : \E i \in 1 .. n : pi[i] = j
      BY <1>15, TradesOnto
    <2> QED BY <1>15, <2>1 DEF Trades
  <1>18. PICK d \in 1 .. n : pi[d] = k
    BY <1>17
  <1> DEFINE A == {i \in DOMAIN b :
                      b[i].url = m.url /\ <<b[i].type, b[i].target>> = key}
  <1>19. \A i \in 1 .. n :
            b[i].url = m.url /\ <<b[i].type, b[i].target>> = key
            <=> f[pi[i]] \in V
    <2> SUFFICES ASSUME NEW i \in 1 .. n
                 PROVE  b[i].url = m.url
                        /\ <<b[i].type, b[i].target>> = key
                        <=> f[pi[i]] \in V
      OBVIOUS
    <2>1. PICK x \in AnyAction : x = f[pi[i]]
      BY <1>15
    <2> QED BY <1>1, <1>15, <2>1, PlainFields DEF V, AboutIt
  <1>20. A = {d}
    <2>1. \A i \in 1 .. n : f[pi[i]] \in V <=> i = d
      BY <1>16, <1>17, <1>18
    <2> QED BY <1>15, <1>19, <2>1
  <1>21. Cardinality(A) = 1
    <2> HIDE DEF A
    <2> QED BY <1>20, FS_Singleton
  <1> QED BY <1>13, <1>21

(* Trees: each node's root, and a rank that falls on the way up.           *)
Forest(parent, rank, root, D) ==
    /\ parent \in [D -> D] /\ rank \in [D -> Nat] /\ root \in [D -> D]
    /\ \A j \in D : parent[root[j]] = root[j]
    /\ \A j \in D : parent[j] = j => root[j] = j
    /\ \A j \in D : parent[j] # j => /\ root[j] = root[parent[j]]
                                     /\ rank[parent[j]] < rank[j]

(* Root finds the root.                                                    *)
LEMMA RootIs ==
    ASSUME NEW D, NEW parent, NEW rank, NEW root,
           Forest(parent, rank, root, D), NEW i \in D
    PROVE  Root(parent, i) = root[i]
  <1> DEFINE Eq(f) == f = [j \in D |-> IF parent[j] = j THEN j
                                       ELSE f[parent[j]]]
             F == CHOOSE f : Eq(f)
  <1>1. /\ parent \in [D -> D] /\ rank \in [D -> Nat] /\ root \in [D -> D]
        /\ \A j \in D : parent[j] = j => root[j] = j
        /\ \A j \in D : parent[j] # j => /\ root[j] = root[parent[j]]
                                         /\ rank[parent[j]] < rank[j]
    BY DEF Forest
  <1>2. Root(parent, i) = F[i]
    BY <1>1 DEF Root
  <1>3. Eq(root)
    BY <1>1
  <1>4. Eq(F)
    <2> HIDE DEF Eq
    <2> QED BY <1>3
  <1> HIDE DEF F
  <1>5. \A j \in D : F[j] = IF parent[j] = j THEN j ELSE F[parent[j]]
    BY <1>4
  <1> HIDE DEF Eq
  <1> DEFINE W == {n \in Nat : \A j \in D : rank[j] <= n => F[j] = root[j]}
  <1>6. 0 \in W
    <2> SUFFICES ASSUME NEW j \in D, rank[j] <= 0 PROVE F[j] = root[j]
      OBVIOUS
    <2> QED BY <1>1, <1>5
  <1>7. ASSUME NEW n \in Nat, n \in W PROVE n + 1 \in W
    <2> SUFFICES ASSUME NEW j \in D, rank[j] <= n + 1 PROVE F[j] = root[j]
      OBVIOUS
    <2>1. CASE parent[j] = j
      BY <1>1, <1>5, <2>1
    <2>2. CASE parent[j] # j
      BY <1>1, <1>5, <1>7, <2>2
    <2> QED BY <2>1, <2>2
  <1>8. Nat \subseteq W
    <2> HIDE DEF W
    <2> QED BY <1>6, <1>7, Induction
  <1> QED BY <1>1, <1>2, <1>8

Joined(root, l, r, D) ==
    [j \in D |-> IF root[j] = root[r] THEN root[l] ELSE root[j]]

(* Join gives the members of the one tree the root of the other.           *)
LEMMA JoinIs ==
    ASSUME NEW D, NEW parent, NEW rank, NEW root,
           Forest(parent, rank, root, D), NEW l \in D, NEW r \in D
    PROVE  \E after : Forest(Join(parent, l, r), after, Joined(root, l, r, D), D)
  <1>1. /\ parent \in [D -> D] /\ rank \in [D -> Nat] /\ root \in [D -> D]
        /\ \A j \in D : parent[root[j]] = root[j]
        /\ \A j \in D : parent[j] = j => root[j] = j
        /\ \A j \in D : parent[j] # j => /\ root[j] = root[parent[j]]
                                         /\ rank[parent[j]] < rank[j]
    BY DEF Forest
  <1>2. PICK x \in D, y \in D : x = root[l] /\ y = root[r]
    BY <1>1
  <1>3. parent[x] = x /\ parent[y] = y /\ root[x] = x /\ root[y] = y
    BY <1>1, <1>2
  <1>4. Join(parent, l, r) = [parent EXCEPT ![y] = x]
    <2>1. Root(parent, l) = x
      BY <1>2, RootIs
    <2>2. Root(parent, r) = y
      BY <1>2, RootIs
    <2> QED BY <2>1, <2>2 DEF Join
  <1>5. PICK up : up = [parent EXCEPT ![y] = x]
    OBVIOUS
  <1>6. /\ up \in [D -> D] /\ up[y] = x
        /\ \A j \in D : j # y => up[j] = parent[j]
    BY <1>1, <1>5
  <1> DEFINE top == Joined(root, l, r, D)
  <1>7. \A j \in D : top[j] = IF root[j] = y THEN x ELSE root[j]
    BY <1>2 DEF Joined
  <1>8. top \in [D -> D]
    BY <1>1, <1>2 DEF Joined
  <1> HIDE DEF top
  <1>9. \A j \in D : up[top[j]] = top[j]
    <2> SUFFICES ASSUME NEW j \in D PROVE up[top[j]] = top[j]
      OBVIOUS
    <2>1. CASE root[j] = y
      BY <1>3, <1>6, <1>7, <2>1
    <2>2. CASE root[j] # y
      BY <1>1, <1>6, <1>7, <2>2
    <2> QED BY <2>1, <2>2
  <1>10. \A j \in D : up[j] = j => top[j] = j
    <2> SUFFICES ASSUME NEW j \in D, up[j] = j PROVE top[j] = j
      OBVIOUS
    <2>1. CASE j = y
      BY <1>3, <1>6, <1>7, <2>1
    <2>2. CASE j # y
      BY <1>1, <1>6, <1>7, <2>2
    <2> QED BY <2>1, <2>2
  <1>11. \A j \in D : up[j] # j => top[j] = top[up[j]]
    <2> SUFFICES ASSUME NEW j \in D, up[j] # j PROVE top[j] = top[up[j]]
      OBVIOUS
    <2>1. CASE j = y
      BY <1>3, <1>6, <1>7, <2>1
    <2>2. CASE j # y
      BY <1>1, <1>6, <1>7, <2>2
    <2> QED BY <2>1, <2>2
  <1> DEFINE after == [j \in D |-> IF x # y /\ root[j] = y
                                   THEN rank[j] + rank[x] + 1 ELSE rank[j]]
  <1>12. after \in [D -> Nat]
    BY <1>1
  <1>13. \A j \in D : up[j] # j => after[up[j]] < after[j]
    <2> SUFFICES ASSUME NEW j \in D, up[j] # j PROVE after[up[j]] < after[j]
      OBVIOUS
    <2>1. rank[j] \in Nat /\ rank[x] \in Nat /\ up[j] \in D
      BY <1>1, <1>6
    <2>2. CASE j = y
      <3>1. x # y /\ up[j] = x
        BY <1>6, <2>2
      <3>2. after[x] = rank[x] /\ after[y] = rank[y] + rank[x] + 1
        BY <1>3, <3>1
      <3> HIDE DEF after
      <3> QED BY <2>1, <2>2, <3>1, <3>2
    <2>3. CASE j # y
      <3>1. /\ up[j] = parent[j] /\ parent[j] \in D
            /\ root[j] = root[parent[j]] /\ rank[parent[j]] < rank[j]
        BY <1>1, <1>6, <2>3
      <3>2. CASE x # y /\ root[j] = y
        <4>1. /\ after[j] = rank[j] + rank[x] + 1
              /\ after[parent[j]] = rank[parent[j]] + rank[x] + 1
          BY <3>1, <3>2
        <4> HIDE DEF after
        <4> QED BY <1>1, <2>1, <3>1, <4>1
      <3>3. CASE ~ (x # y /\ root[j] = y)
        <4>1. after[j] = rank[j] /\ after[parent[j]] = rank[parent[j]]
          BY <3>1, <3>3
        <4> HIDE DEF after
        <4> QED BY <3>1, <4>1
      <3> QED BY <3>2, <3>3
    <2> QED BY <2>2, <2>3
  <1> HIDE DEF after
  <1>14. Forest(up, after, top, D)
    BY <1>6, <1>8, <1>9, <1>10, <1>11, <1>12, <1>13 DEF Forest
  <1> QED BY <1>4, <1>5, <1>14 DEF top

Trees(D) == {p \in [D -> D] : \E rank, root : Forest(p, rank, root, D)}

(* Joining two trees of a forest gives a forest.                            *)
LEMMA JoinsTrees ==
    ASSUME NEW D, NEW parent \in Trees(D), NEW l \in D, NEW r \in D
    PROVE  Join(parent, l, r) \in Trees(D)
  <1>1. PICK rank, root : Forest(parent, rank, root, D)
    BY DEF Trees
  <1>2. PICK after : Forest(Join(parent, l, r), after, Joined(root, l, r, D), D)
    BY <1>1, JoinIs
  <1>3. Join(parent, l, r) \in [D -> D]
    BY <1>2 DEF Forest
  <1> QED BY <1>2, <1>3 DEF Trees

Shares(s, i, j) == Cves(s[i]) \cap Cves(s[j]) # {}

(* Places that no shared CVE leads out of.                                 *)
Closed(s, Z, D) == \A i, j \in D : i \in Z /\ Shares(s, i, j) => j \in Z

(* After n pairs: those that share a CVE have one root, and the root of a  *)
(* place has not left what shared CVEs lead to.                            *)
Linking(s, parent, D, pairs, n) ==
    \E rank, root :
        /\ Forest(parent, rank, root, D)
        /\ \A k \in 1 .. n : Shares(s, pairs[k][1], pairs[k][2])
                             => root[pairs[k][1]] = root[pairs[k][2]]
        /\ \A Z \in SUBSET D : Closed(s, Z, D)
                               => \A i \in D : i \in Z <=> root[i] \in Z

(* The invariant of the loops of build_clusters: what was compared so far   *)
(* is linked, and nothing but what sharing links.                           *)
LEMMA LinkingStays ==
    ASSUME NEW s, NEW D, NEW parent, NEW n \in Nat, NEW m \in Nat, n < m,
           NEW pairs \in [1 .. m -> D \X D], Linking(s, parent, D, pairs, n)
    PROVE  Linking(s, IF ~Shares(s, pairs[n + 1][1], pairs[n + 1][2])
                      THEN parent
                      ELSE Join(parent, pairs[n + 1][1], pairs[n + 1][2]),
                   D, pairs, n + 1)
  <1>1. PICK rank, root :
        /\ Forest(parent, rank, root, D)
        /\ \A k \in 1 .. n : Shares(s, pairs[k][1], pairs[k][2])
                             => root[pairs[k][1]] = root[pairs[k][2]]
        /\ \A Z \in SUBSET D : Closed(s, Z, D)
                               => \A i \in D : i \in Z <=> root[i] \in Z
    BY DEF Linking
  <1>2. PICK h \in 1 .. m : h = n + 1
    OBVIOUS
  <1>3. PICK l \in D, r \in D : pairs[h] = <<l, r>>
    BY <1>2
  <1>4. pairs[h][1] = l /\ pairs[h][2] = r
    BY <1>3
  <1>5. \A k \in 1 .. n + 1 : k \in 1 .. n \/ k = h
    BY <1>2
  <1>6. CASE ~Shares(s, l, r)
    BY <1>1, <1>2, <1>4, <1>5, <1>6 DEF Linking
  <1>7. CASE Shares(s, l, r)
    <2>1. PICK up, after, top :
              /\ up = Join(parent, l, r) /\ top = Joined(root, l, r, D)
              /\ Forest(up, after, top, D)
      BY <1>1, JoinIs
    <2>2. \A j \in D : top[j] = IF root[j] = root[r] THEN root[l] ELSE root[j]
      BY <2>1 DEF Joined
    <2>3. ASSUME NEW k \in 1 .. n + 1, Shares(s, pairs[k][1], pairs[k][2])
          PROVE  top[pairs[k][1]] = top[pairs[k][2]]
      <3>1. CASE k = h
        BY <1>4, <2>2, <3>1
      <3>2. CASE k # h
        <4>1. root[pairs[k][1]] = root[pairs[k][2]]
          BY <1>1, <1>5, <2>3, <3>2
        <4> QED BY <1>2, <2>2, <2>3, <4>1
      <3> QED BY <3>1, <3>2
    <2>4. ASSUME NEW Z \in SUBSET D, Closed(s, Z, D), NEW i \in D
          PROVE  i \in Z <=> top[i] \in Z
      BY <1>1, <1>7, <2>2, <2>4 DEF Closed, Shares
    <2>5. Linking(s, up, D, pairs, n + 1)
      BY <2>1, <2>3, <2>4 DEF Linking
    <2> QED BY <1>2, <1>4, <1>7, <2>1, <2>5
  <1> QED BY <1>6, <1>7

(* All pairs of places of a sequence, the first ahead of the second.       *)
AllPairs(pairs, m, D) ==
    /\ m \in Nat /\ pairs \in [1 .. m -> D \X D] /\ Len(pairs) = m
    /\ \A i, j \in D : i < j => \E k \in 1 .. m : pairs[k] = <<i, j>>

(* The two loops of build_clusters compare every two articles.              *)
LEMMA PairsAre ==
    ASSUME NEW N \in Nat
    PROVE  \E m : AllPairs(PairsOf(1 .. N), m, 1 .. N)
  <1> DEFINE D == 1 .. N
             A == Ahead(D)
             R == {q \in A \X A : Precedes(q[1], q[2])}
             key == [p \in A |-> p]
  <1>1. IsFiniteSet(A)
    <2>1. IsFiniteSet(D) /\ A \in SUBSET (D \X D)
      BY FS_Interval DEF Ahead
    <2> HIDE DEF A, D
    <2> QED BY <2>1, FS_Product, FS_Subset
  <1>2. PICK w \in Nat : w = 2
    OBVIOUS
  <1>3. \A p \in A : p \in [1 .. w -> Int]
    <2> SUFFICES ASSUME NEW p \in A PROVE p \in [1 .. w -> Int]
      OBVIOUS
    <2>1. PICK i \in D, j \in D : p = <<i, j>>
      BY DEF Ahead
    <2> QED BY <1>2, <2>1
  <1> HIDE DEF A
  <1>4. /\ key \in [A -> [1 .. w -> Int]]
        /\ \A x, y \in A : key[x] = key[y] => x = y
    BY <1>3
  <1>5. R = ByKey(A, key)
    BY DEF ByKey
  <1>6. Lists(InOrder(A, ByKey(A, key)), A, ByKey(A, key))
    <2> HIDE DEF key
    <2> QED BY <1>1, <1>4, SortedIs
  <1>7. PairsOf(D) = InOrder(A, R)
    BY DEF PairsOf, A
  <1> HIDE DEF key, R
  <1>8. PICK m \in Nat : m = Cardinality(A)
    BY <1>6 DEF Lists
  <1>9. /\ PairsOf(D) \in [1 .. m -> A]
        /\ \A x \in A : \E i \in 1 .. m : PairsOf(D)[i] = x
    BY <1>5, <1>6, <1>7, <1>8 DEF Lists
  <1>10. Len(PairsOf(D)) = m
    <2>1. PICK z : z = PairsOf(D) /\ z \in [1 .. m -> A]
      BY <1>9
    <2> QED BY <1>8, <2>1
  <1>11. ASSUME NEW i \in D, NEW j \in D, i < j
         PROVE  \E k \in 1 .. m : PairsOf(D)[k] = <<i, j>>
    BY <1>9, <1>11 DEF A, Ahead
  <1> QED BY <1>8, <1>9, <1>10, <1>11 DEF AllPairs, A, Ahead

(* Two places have one root where shared CVEs lead from one to the other.  *)
Groups(s, root, D) ==
    /\ root \in [D -> D]
    /\ \A i \in D : Root(Linked(s), i) = root[i]
    /\ \A i, j \in D : Shares(s, i, j) => root[i] = root[j]
    /\ \A Z \in SUBSET D : Closed(s, Z, D)
                           => \A i \in D : i \in Z <=> root[i] \in Z

LinkedBy(s, all, pairs) ==
    LET parent[n \in 0 .. Len(pairs)] ==
            IF n = 0 THEN [i \in all |-> i]
            ELSE IF Cves(s[pairs[n][1]]) \cap Cves(s[pairs[n][2]]) = {}
            THEN parent[n - 1]
            ELSE Join(parent[n - 1], pairs[n][1], pairs[n][2])
    IN  parent[Len(pairs)]

(* After the loops two articles have one root exactly when a chain of       *)
(* shared CVEs leads from one to the other.                                 *)
LEMMA LinkedIs ==
    ASSUME NEW s, NEW N \in Nat, DOMAIN s = 1 .. N
    PROVE  \E root : Groups(s, root, 1 .. N)
  <1> DEFINE D == 1 .. N
             T == Trees(D)
             nil == [i \in D |-> i]
  <1>1. PICK m \in Nat, pairs \in {PairsOf(D)} : AllPairs(pairs, m, D)
    <2>1. PICK k : AllPairs(PairsOf(D), k, D)
      BY PairsAre
    <2> HIDE DEF D
    <2> QED BY <2>1 DEF AllPairs
  <1>2. /\ m \in Nat
        /\ pairs = PairsOf(D) /\ pairs \in [1 .. m -> D \X D]
        /\ Len(pairs) = m
        /\ \A i, j \in D : i < j => \E k \in 1 .. m : pairs[k] = <<i, j>>
    BY <1>1 DEF AllPairs
  <1> DEFINE Eq(f) ==
                 f = [n \in 0 .. Len(pairs) |->
                        IF n = 0 THEN [i \in D |-> i]
                        ELSE IF Cves(s[pairs[n][1]]) \cap Cves(s[pairs[n][2]])
                                = {}
                        THEN f[n - 1]
                        ELSE Join(f[n - 1], pairs[n][1], pairs[n][2])]
             F == CHOOSE f : Eq(f)
             step == [n \in Nat |-> [p \in T |->
                        IF n \in 1 .. m
                           /\ Shares(s, pairs[n][1], pairs[n][2])
                        THEN Join(p, pairs[n][1], pairs[n][2]) ELSE p]]
  <1>3. Linked(s) = F[m]
    <2>1. Linked(s) = LinkedBy(s, DOMAIN s, PairsOf(DOMAIN s))
      BY DEF Linked, LinkedBy
    <2>2. DOMAIN s = D
      OBVIOUS
    <2> HIDE DEF D
    <2>3. LinkedBy(s, D, pairs) = F[Len(pairs)]
      BY DEF LinkedBy
    <2> HIDE DEF F
    <2> QED BY <1>2, <2>1, <2>2, <2>3
  <1> HIDE DEF D
  <1>4. step \in [Nat -> [T -> T]]
    <2> HIDE DEF T
    <2> QED BY <1>2, JoinsTrees DEF T
  <1>5. nil \in T
    <2>1. Forest(nil, [i \in D |-> 0], nil, D)
      BY DEF Forest
    <2> QED BY <2>1 DEF Trees
  <1>6. \A n \in 1 .. m : \A p \in T :
            step[n][p] = IF ~Shares(s, pairs[n][1], pairs[n][2]) THEN p
                         ELSE Join(p, pairs[n][1], pairs[n][2])
    <2> HIDE DEF T
    <2> QED OBVIOUS
  <1> HIDE DEF step, nil, T
  <1>7. PICK g \in [Nat -> T] :
             g[0] = nil /\ \A n \in Nat : g[n + 1] = step[n + 1][g[n]]
    <2>1. Recurs(T, nil, step)
      BY <1>4, <1>5, Recursion
    <2> QED BY <2>1 DEF Recurs
  <1>8. ASSUME NEW n \in 1 .. m
        PROVE  g[n] = IF ~Shares(s, pairs[n][1], pairs[n][2]) THEN g[n - 1]
                      ELSE Join(g[n - 1], pairs[n][1], pairs[n][2])
    <2>1. n - 1 \in Nat /\ (n - 1) + 1 = n
      OBVIOUS
    <2>2. g[n - 1] \in T
      BY <2>1
    <2>3. g[n] = step[n][g[n - 1]]
      BY <1>7, <2>1
    <2> QED BY <1>6, <2>2, <2>3
  <1> DEFINE f0 == [n \in 0 .. m |-> g[n]]
  <1>9. Eq(f0)
    <2>1. ASSUME NEW n \in 0 .. m
          PROVE  g[n] = IF n = 0 THEN nil
                        ELSE IF ~Shares(s, pairs[n][1], pairs[n][2])
                        THEN f0[n - 1]
                        ELSE Join(f0[n - 1], pairs[n][1], pairs[n][2])
      <3>1. CASE n = 0
        BY <1>7, <3>1
      <3>2. CASE n # 0
        <4>1. n \in 1 .. m /\ n - 1 \in 0 .. m
          BY <3>2
        <4>2. f0[n - 1] = g[n - 1]
          BY <4>1
        <4> HIDE DEF f0
        <4> QED BY <1>8, <3>2, <4>1, <4>2
      <3> QED BY <3>1, <3>2
    <2> QED BY <1>2, <2>1 DEF Shares, nil
  <1>10. Eq(F)
    <2> HIDE DEF Eq
    <2> QED BY <1>9
  <1> HIDE DEF F, f0
  <1>11. F[0] = nil
    BY <1>2, <1>10 DEF nil
  <1>12. ASSUME NEW n \in 1 .. m
         PROVE  F[n] = IF ~Shares(s, pairs[n][1], pairs[n][2]) THEN F[n - 1]
                       ELSE Join(F[n - 1], pairs[n][1], pairs[n][2])
    <2>1. n \in 0 .. Len(pairs) /\ n # 0
      BY <1>2
    <2> QED BY <1>10, <2>1 DEF Shares
  <1> HIDE DEF Eq
  <1> DEFINE W == {n \in Nat : n <= m => Linking(s, F[n], D, pairs, n)}
  <1>13. 0 \in W
    <2>1. Forest(nil, [i \in D |-> 0], nil, D)
      BY DEF Forest, nil
    <2> QED BY <1>11, <2>1 DEF Linking, nil
  <1>14. ASSUME NEW n \in Nat, n \in W PROVE n + 1 \in W
    <2> SUFFICES ASSUME n + 1 <= m
                 PROVE  Linking(s, F[n + 1], D, pairs, n + 1)
      OBVIOUS
    <2>1. pairs \in [1 .. m -> D \X D]
      BY <1>2
    <2> QED BY <1>12, <1>14, <2>1, LinkingStays
  <1>15. Nat \subseteq W
    <2> HIDE DEF W
    <2> QED BY <1>13, <1>14, Induction
  <1>16. Linking(s, Linked(s), D, pairs, m)
    BY <1>3, <1>15
  <1>17. PICK rank, root :
           /\ Forest(Linked(s), rank, root, D)
           /\ \A k \in 1 .. m : Shares(s, pairs[k][1], pairs[k][2])
                                => root[pairs[k][1]] = root[pairs[k][2]]
           /\ \A Z \in SUBSET D : Closed(s, Z, D)
                                  => \A i \in D : i \in Z <=> root[i] \in Z
    BY <1>16 DEF Linking
  <1>18. root \in [D -> D] /\ \A i \in D : Root(Linked(s), i) = root[i]
    <2>1. Forest(Linked(s), rank, root, D)
      BY <1>17
    <2>2. root \in [D -> D]
      BY <2>1 DEF Forest
    <2> QED BY <2>1, <2>2, RootIs
  <1>19. ASSUME NEW i \in D, NEW j \in D, i < j, Shares(s, i, j)
         PROVE  root[i] = root[j]
    <2>1. PICK k \in 1 .. m : pairs[k] = <<i, j>>
      BY <1>2, <1>19
    <2> QED BY <1>17, <1>19, <2>1
  <1>20. ASSUME NEW i \in D, NEW j \in D, Shares(s, i, j)
         PROVE  root[i] = root[j]
    BY <1>19, <1>20 DEF D, Shares
  <1> QED BY <1>17, <1>18, <1>20 DEF Groups, D

(* A finite set with two different members has more than one.               *)
LEMMA TwoMembers ==
    ASSUME NEW S, IsFiniteSet(S), NEW x \in S, NEW y \in S, x # y
    PROVE  Cardinality(S) > 1
  <1>1. /\ IsFiniteSet(S \ {x})
        /\ Cardinality(S \ {x}) = Cardinality(S) - 1
    BY FS_RemoveElement
  <1>2. S \ {x} # {}
    OBVIOUS
  <1>3. Cardinality(S \ {x}) # 0
    BY <1>1, <1>2, FS_EmptySet
  <1>4. Cardinality(S) \in Nat /\ Cardinality(S \ {x}) \in Nat
    BY <1>1, FS_CardinalityType
  <1> QED BY <1>1, <1>3, <1>4

TreeOf(root, i, D) == {j \in D : root[j] = root[i]}

(* The articles of a report, and which of them shared CVEs connect.        *)
Connected(report, s, N, root) ==
    /\ s = report.articles /\ DOMAIN s = 1 .. N /\ N \in Nat
    /\ ToSet(s) = {s[i] : i \in 1 .. N}
    /\ \A i, j \in 1 .. N : s[i].url = s[j].url => i = j
    /\ Groups(s, root, 1 .. N)
    /\ report.brief.clusters =
          {{s[j].url : j \in g} :
             g \in {x \in {TreeOf(root, i, 1 .. N) : i \in 1 .. N} :
                      Cardinality(x) > 1}}

ClustersBy(s, places, parent) ==
    LET group(i) == {j \in places : Root(parent, j) = Root(parent, i)}
        all == {group(i) : i \in places}
    IN  {{s[i].url : i \in g} : g \in {x \in all : Cardinality(x) > 1}}

(* The clusters of a report are the groups of its articles that have one    *)
(* root.                                                                    *)
LEMMA Connects ==
    ASSUME NEW report, WellMade(report)
    PROVE  \E s, N, root : Connected(report, s, N, root)
  <1>1. PICK s \in Seq(Manifests) : s = report.articles
    BY WellMadeIs
  <1>2. PICK N \in Nat : DOMAIN s = 1 .. N
    OBVIOUS
  <1>3. PICK root : Groups(s, root, 1 .. N)
    BY <1>2, LinkedIs
  <1> DEFINE D == 1 .. N
             group == [i \in D |-> {j \in D : Root(Linked(s), j)
                                              = Root(Linked(s), i)}]
  <1>4. \A i \in D : Root(Linked(s), i) = root[i]
    BY <1>3 DEF Groups
  <1>5. \A i \in D : group[i] = TreeOf(root, i, D)
    BY <1>4 DEF TreeOf
  <1>6. Clusters(s) = {{s[j].url : j \in g} :
                          g \in {x \in {group[i] : i \in D} :
                                    Cardinality(x) > 1}}
    <2>1. Clusters(s) = ClustersBy(s, DOMAIN s, Linked(s))
      BY DEF Clusters, ClustersBy
    <2>2. Clusters(s) = ClustersBy(s, D, Linked(s))
      BY <1>2, <2>1
    <2>3. {group[i] : i \in D} =
             {{j \in D : Root(Linked(s), j) = Root(Linked(s), i)} : i \in D}
      <3>1. \A i \in D : group[i] = {j \in D : Root(Linked(s), j)
                                               = Root(Linked(s), i)}
        OBVIOUS
      <3> HIDE DEF group
      <3> QED BY <3>1
    <2> HIDE DEF D, group
    <2> QED BY <2>2, <2>3 DEF ClustersBy
  <1> HIDE DEF group
  <1>7. {group[i] : i \in D} = {TreeOf(root, i, D) : i \in D}
    BY <1>5
  <1>8. ToSet(s) = {s[i] : i \in D}
    BY <1>2 DEF ToSet
  <1>9. ASSUME NEW i \in D, NEW j \in D, s[i].url = s[j].url PROVE i = j
    <2>1. s[i] \in ToSet(s) /\ s[j] \in ToSet(s)
      BY <1>8
    <2>2. s[i] = s[j]
      BY <1>1, <1>9, <2>1, WellMadeIs
    <2>3. \A a, b \in DOMAIN s : s[a] = s[b] => a = b
      BY <1>1, WellMadeIs
    <2>4. i \in DOMAIN s /\ j \in DOMAIN s
      BY <1>2, <1>9
    <2> QED BY ONLY <2>2, <2>3, <2>4
  <1>10. report.brief.clusters = Clusters(s)
    BY <1>1 DEF WellMade
  <1>11. report.brief.clusters =
           {{s[j].url : j \in g} :
              g \in {x \in {TreeOf(root, i, 1 .. N) : i \in 1 .. N} :
                       Cardinality(x) > 1}}
    BY <1>6, <1>7, <1>10
  <1>12. /\ s = report.articles /\ DOMAIN s = 1 .. N /\ N \in Nat
         /\ ToSet(s) = {s[i] : i \in 1 .. N}
         /\ \A i, j \in 1 .. N : s[i].url = s[j].url => i = j
         /\ Groups(s, root, 1 .. N)
    BY <1>1, <1>2, <1>3, <1>8, <1>9
  <1>13. Connected(report, s, N, root)
    BY ONLY <1>11, <1>12 DEF Connected
  <1> QED BY <1>13

(* What shares a CVE with another article is in a cluster.                 *)
LEMMA SharingIsClustered ==
    ASSUME NEW report, WellMade(report),
           NEW m \in ToSet(report.articles), NEW n \in ToSet(report.articles),
           m # n, Cves(m) \cap Cves(n) # {}
    PROVE  m.url \in UNION report.brief.clusters
  <1>1. PICK s, N, root : Connected(report, s, N, root)
    BY Connects
  <1>2. /\ s = report.articles /\ N \in Nat
        /\ ToSet(s) = {s[i] : i \in 1 .. N}
        /\ Groups(s, root, 1 .. N)
        /\ report.brief.clusters =
              {{s[j].url : j \in g} :
                 g \in {x \in {TreeOf(root, i, 1 .. N) : i \in 1 .. N} :
                          Cardinality(x) > 1}}
    BY <1>1 DEF Connected
  <1>3. PICK i \in 1 .. N, j \in 1 .. N : m = s[i] /\ n = s[j]
    BY <1>2
  <1>4. root[i] = root[j]
    BY <1>2, <1>3 DEF Groups, Shares
  <1> DEFINE g == TreeOf(root, i, 1 .. N)
  <1>5. i \in g /\ j \in g /\ i # j
    BY <1>3, <1>4 DEF TreeOf
  <1>6. IsFiniteSet(g)
    <2>1. IsFiniteSet(1 .. N) /\ g \in SUBSET (1 .. N)
      BY <1>2, FS_Interval DEF TreeOf
    <2> HIDE DEF g
    <2> QED BY <2>1, FS_Subset
  <1>7. g \in {TreeOf(root, k, 1 .. N) : k \in 1 .. N}
    OBVIOUS
  <1> HIDE DEF g
  <1>8. Cardinality(g) > 1
    BY <1>5, <1>6, TwoMembers
  <1>9. {s[k].url : k \in g} \in report.brief.clusters
    BY <1>2, <1>7, <1>8
  <1>10. m.url \in {s[k].url : k \in g}
    BY <1>3, <1>5
  <1> QED BY <1>9, <1>10

(* A cluster is all that shared CVEs connect, and nothing else.            *)
LEMMA ClusterIsConnected ==
    ASSUME NEW report, WellMade(report), NEW c \in report.brief.clusters
    PROVE  /\ ClosedUnderSharing(c, ToSet(report.articles))
           /\ \A part \in (SUBSET c) \ {{}, c} :
                 ~ClosedUnderSharing(part, ToSet(report.articles))
  <1>1. PICK s, N, root : Connected(report, s, N, root)
    BY Connects
  <1> DEFINE D == 1 .. N
  <1>2. /\ s = report.articles /\ N \in Nat
        /\ ToSet(s) = {s[i] : i \in D}
        /\ \A i, j \in D : s[i].url = s[j].url => i = j
        /\ Groups(s, root, D)
        /\ report.brief.clusters =
              {{s[j].url : j \in g} :
                 g \in {x \in {TreeOf(root, i, D) : i \in D} :
                          Cardinality(x) > 1}}
    BY <1>1 DEF Connected
  <1> HIDE DEF D
  <1>3. PICK h \in D : c = {s[j].url : j \in TreeOf(root, h, D)}
    BY <1>2
  <1>4. /\ \A i, j \in D : Shares(s, i, j) => root[i] = root[j]
        /\ \A Z \in SUBSET D : Closed(s, Z, D)
                               => \A i \in D : i \in Z <=> root[i] \in Z
    BY <1>2 DEF Groups
  <1>5. \A i \in D : s[i].url \in c <=> root[i] = root[h]
    BY <1>2, <1>3 DEF TreeOf
  <1>6. ASSUME NEW i \in D, NEW j \in D, s[i].url \in c,
               Cves(s[i]) \cap Cves(s[j]) # {}
        PROVE  s[j].url \in c
    <2>1. root[i] = root[j]
      BY <1>4, <1>6 DEF Shares
    <2> QED BY <1>5, <1>6, <2>1
  <1>7. ClosedUnderSharing(c, ToSet(s))
    BY <1>2, <1>6 DEF ClosedUnderSharing
  <1>8. ASSUME NEW part \in (SUBSET c) \ {{}, c},
               ClosedUnderSharing(part, ToSet(s))
        PROVE  FALSE
    <2> DEFINE Z == {k \in D : s[k].url \in part}
    <2>1. ASSUME NEW i \in D, NEW j \in D, i \in Z, Shares(s, i, j)
          PROVE  j \in Z
      <3>1. s[i] \in ToSet(s) /\ s[j] \in ToSet(s)
        BY <1>2
      <3>2. s[j].url \in part
        BY <1>8, <2>1, <3>1 DEF ClosedUnderSharing, Shares
      <3> QED BY <3>2
    <2>2. Closed(s, Z, D)
      BY <2>1 DEF Closed
    <2>3. PICK u \in part : u \in c
      OBVIOUS
    <2>4. PICK j \in D : u = s[j].url /\ root[j] = root[h]
      BY <1>3, <2>3 DEF TreeOf
    <2>5. j \in Z /\ Z \in SUBSET D
      BY <2>3, <2>4
    <2> HIDE DEF Z
    <2>6. root[j] \in Z
      BY <1>4, <2>2, <2>5
    <2>7. ASSUME NEW v \in c PROVE v \in part
      <3>1. PICK k \in D : v = s[k].url /\ root[k] = root[h]
        BY <1>3 DEF TreeOf
      <3>2. k \in Z
        BY <1>4, <2>2, <2>4, <2>5, <2>6, <3>1
      <3> QED BY <3>1, <3>2 DEF Z
    <2> QED BY <2>7
  <1> QED BY <1>2, <1>7, <1>8

(* Every board keeps what its articles ask for, each value once, in the     *)
(* articles' order but for patches, where KEV comes first; and every        *)
(* cluster is all that shared CVEs connect and nothing else (_kev_first,    *)
(* build_clusters).                                                         *)
THEOREM RankingIsKept == Spec => []RankingKeepsTheBoard
  <1>1. IInv => RankingKeepsTheBoard
    <2> SUFFICES ASSUME IInv, NEW report \in Reports
                 PROVE
        LET manifests == ToSet(report.articles)
            asked == FlattenSeq([i \in DOMAIN report.articles |->
                         BuildActions(report.articles[i], report.intel)])
            board == report.brief.actions
            clustered == UNION report.brief.clusters
            about(m, key) == {i \in DOMAIN board :
                /\ board[i].url = m.url
                /\ <<board[i].type, board[i].target>> = key}
        IN  /\ Len(board) = Len(asked)
            /\ \A i \in DOMAIN board :
                 /\ Cardinality({j \in DOMAIN board :
                                    Plain(board[j]) = Plain(board[i])})
                    = Cardinality({j \in DOMAIN asked :
                                    asked[j] = Plain(board[i])})
                 /\ asked[i].action # "patch" => Plain(board[i]) = asked[i]
                 /\ \A j \in 1 .. i :
                      board[i].intel.kev /\ board[j].action = "patch"
                      => board[j].intel.kev
            /\ \A m \in manifests :
                 \A key \in Unique(m, "confirmed",
                                   NetworkTypes \cup HostTypes \cup {"cve"}) :
                     Cardinality(about(m, key)) = 1
            /\ \A m, n \in manifests :
                 m # n /\ Cves(m) \cap Cves(n) # {} => m.url \in clustered
            /\ \A c \in report.brief.clusters :
                 /\ ClosedUnderSharing(c, manifests)
                 /\ \A part \in (SUBSET c) \ {{}, c} :
                        ~ClosedUnderSharing(part, manifests)
      BY DEF RankingKeepsTheBoard
    <2>1. WellMade(report)
      BY DEF Reports, IInv
    <2>2. LET board == report.brief.actions
              asked == FlattenSeq([i \in DOMAIN report.articles |->
                           BuildActions(report.articles[i], report.intel)])
          IN  /\ Len(board) = Len(asked)
              /\ \A i \in DOMAIN board :
                   /\ Cardinality({j \in DOMAIN board :
                                      Plain(board[j]) = Plain(board[i])})
                      = Cardinality({j \in DOMAIN asked :
                                      asked[j] = Plain(board[i])})
                   /\ asked[i].action # "patch" => Plain(board[i]) = asked[i]
                   /\ \A j \in 1 .. i :
                        board[i].intel.kev /\ board[j].action = "patch"
                        => board[j].intel.kev
      BY <2>1, BoardKeeps DEF AskedFor
    <2>3. ASSUME NEW m \in ToSet(report.articles),
                 NEW key \in Unique(m, "confirmed",
                                    NetworkTypes \cup HostTypes \cup {"cve"})
          PROVE  LET board == report.brief.actions
                 IN  Cardinality({i \in DOMAIN board :
                        /\ board[i].url = m.url
                        /\ <<board[i].type, board[i].target>> = key}) = 1
      BY <2>1, BoardOnce
    <2>4. ASSUME NEW m \in ToSet(report.articles),
                 NEW n \in ToSet(report.articles),
                 m # n, Cves(m) \cap Cves(n) # {}
          PROVE  m.url \in UNION report.brief.clusters
      BY <2>1, <2>4, SharingIsClustered
    <2>5. ASSUME NEW c \in report.brief.clusters
          PROVE  /\ ClosedUnderSharing(c, ToSet(report.articles))
                 /\ \A part \in (SUBSET c) \ {{}, c} :
                       ~ClosedUnderSharing(part, ToSet(report.articles))
      BY <2>1, ClusterIsConnected
    <2> QED BY <2>2, <2>3, <2>4, <2>5
  <1> QED BY <1>1, Inductive, PTL

(* What a board says of each target.                                       *)
Verdicts(report) ==
    {<<a.target, a.benign>> : a \in ToSet(report.brief.actions)}

VerdictsOf(f) == {<<f[i].target, f[i].benign>> : i \in 1 .. Len(f)}

(* That is what its articles asked for.                                    *)
LEMMA VerdictsAre ==
    ASSUME NEW report, WellMade(report)
    PROVE  /\ AskedFor(report) \in Seq(AnyAction)
           /\ Verdicts(report) = VerdictsOf(AskedFor(report))
  <1>1. PICK f, ranked, pi, n : /\ f = AskedFor(report)
                                /\ Ranking(report.brief.actions, f, ranked, pi, n)
    BY BoardTrades
  <1>2. PICK b : b = report.brief.actions
    OBVIOUS
  <1>3. /\ f \in Seq(AnyAction) /\ Trades(pi, f, ranked, n)
        /\ DOMAIN b = 1 .. n
        /\ \A i \in 1 .. n : Plain(b[i]) = f[pi[i]] /\ f[pi[i]] \in AnyAction
    BY <1>1, <1>2 DEF Ranking
  <1>4. n = Len(f) /\ \A i \in 1 .. n : pi[i] \in 1 .. n
    BY <1>3 DEF Trades
  <1>5. \A i \in 1 .. n : b[i].target = f[pi[i]].target
                          /\ b[i].benign = f[pi[i]].benign
    BY <1>3, PlainFields
  <1>6. Verdicts(report) = {<<b[i].target, b[i].benign>> : i \in 1 .. n}
    BY <1>2, <1>3 DEF Verdicts, ToSet
  <1> DEFINE V == {<<b[i].target, b[i].benign>> : i \in 1 .. n}
             W == {<<f[i].target, f[i].benign>> : i \in 1 .. n}
  <1>7. V \subseteq W
    BY <1>4, <1>5
  <1>8. W \subseteq V
    <2> SUFFICES ASSUME NEW j \in 1 .. n
                 PROVE  <<f[j].target, f[j].benign>> \in V
      OBVIOUS
    <2>1. PICK i \in 1 .. n : pi[i] = j
      BY <1>3, TradesOnto
    <2> QED BY <1>5, <2>1
  <1>9. VerdictsOf(f) = W
    BY <1>4 DEF VerdictsOf
  <1> QED BY <1>1, <1>3, <1>6, <1>7, <1>8, <1>9

(* Another analysis of the same articles says the same of each target.     *)
LEMMA VerdictsStay ==
    ASSUME NEW report, WellMade(report), NEW again, WellMade(again),
           again.articles = report.articles
    PROVE  Verdicts(again) = Verdicts(report)
  <1>1. PICK f, g : /\ f = AskedFor(report) /\ g = AskedFor(again)
                    /\ SameKind(f, g)
    BY AskedKind
  <1>2. VerdictsOf(f) = VerdictsOf(g)
    BY <1>1 DEF SameKind, VerdictsOf
  <1> QED BY <1>1, <1>2, VerdictsAre

(* A finding that travels is acted on.                                     *)
LEMMA ActionAbout ==
    ASSUME NEW report, WellMade(report), NEW f \in Findings(report), Travels(f)
    PROVE  \E a \in ToSet(report.brief.actions) : a.target = f.e.text
  <1>1. PICK m \in ToSet(report.articles) : f.e \in ToSet(m.evidence)
    BY DEF Findings
  <1> DEFINE key == <<f.e.type, f.e.text>>
             board == report.brief.actions
             about == {i \in DOMAIN board :
                          /\ board[i].url = m.url
                          /\ <<board[i].type, board[i].target>> = key}
  <1>2. key \in Unique(m, "confirmed", NetworkTypes \cup HostTypes \cup {"cve"})
    BY <1>1 DEF Travels, Unique, SnapshotTypes, NetworkTypes, HostTypes
  <1> HIDE DEF about
  <1>3. PICK i \in DOMAIN board : board[i].target = f.e.text
    BY <1>1, <1>2, BoardOnce, FS_EmptySet DEF about
  <1> QED BY <1>3 DEF ToSet

(* _action_index finds an action on a value that has one.                  *)
LEMMA ActionOnIs ==
    ASSUME NEW report, WellMade(report), NEW type, NEW text,
           \E a \in ToSet(report.brief.actions) : a.target = text
    PROVE  /\ ActionOn(report, type, text) # None
           /\ ActionOn(report, type, text).action # None
           /\ <<text, ActionOn(report, type, text).benign>> \in Verdicts(report)
  <1> DEFINE b == report.brief.actions
             T == {i \in 1 .. Len(b) : b[i].type = type /\ b[i].target = text}
             A == {i \in 1 .. Len(b) : b[i].target = text}
             typed == IF T # {} THEN Min(T) ELSE 0
             any == IF A # {} THEN Min(A) ELSE 0
  <1>1. /\ Len(b) \in Nat /\ DOMAIN b = 1 .. Len(b)
        /\ \A i \in 1 .. Len(b) : b[i] \in AnyEntry
    <2>1. PICK ranked, pi, k : Ranking(b, AskedFor(report), ranked, pi, k)
      BY BoardTrades
    <2> QED BY <2>1 DEF Ranking, Trades, WellMade
  <1>2. ASSUME NEW S \in SUBSET (1 .. Len(b)), S # {} PROVE Min(S) \in S
    <2>1. IsFiniteSet(1 .. Len(b)) /\ S \in SUBSET Int
      BY <1>1, FS_Interval
    <2> QED BY <1>2, <2>1, FS_Subset, MaxMin
  <1>3. A # {}
    BY <1>1 DEF ToSet
  <1>4. any \in A /\ any # 0
    <2>1. Min(A) \in A
      BY <1>2, <1>3
    <2> QED BY <1>3, <2>1
  <1>5. typed # 0 => typed \in A
    BY <1>2
  <1>6. PICK i \in A : ActionOn(report, type, text) = b[i]
    BY <1>4, <1>5 DEF ActionOn, SelectInSeq
  <1>7. b[i] # None /\ b[i].action # None
    BY <1>1, BoardAssumption, AbsenceAssumption DEF AnyEntry
  <1> QED BY <1>1, <1>6, <1>7 DEF Verdicts, ToSet

(* What build_snapshot packs, and a bundle whose exclusions are x.         *)
ValuesOf(arc) ==
    [t \in Texts({f \in Archived(arc) : Travels(f)}) |-> Row(arc, t)]

ExcludedOf(arc) ==
    [t \in Texts({f \in Archived(arc) : IsRejected(f)}) |-> Exclusion(arc, t)]

Packed(arc, x) ==
    [content |-> [days |-> Dates(arc), values |-> ValuesOf(arc),
                  excluded |-> x, intel |-> NewestIntel(arc),
                  rules |-> Normal],
     version |-> <<ValuesOf(arc), ExcludedOf(arc), NewestIntel(arc), Normal>>,
     stated |-> Cardinality(DOMAIN ValuesOf(arc))]

(* An archive as it was when the bundle was packed: its days are past, and *)
(* they still have the articles they had.                                  *)
AsItWas(arc, now, limit) ==
    \A d \in Dates(arc) :
        /\ d < limit
        /\ WellMade(arc[d]) /\ WellMade(now[d])
        /\ now[d].articles = arc[d].articles

Held == bundle # None =>
            \E arc, x : bundle = Packed(arc, x) /\ AsItWas(arc, archive, today)

BInv == IInv /\ Held

(* Packing what is archived.                                               *)
LEMMA WriteHolds ==
    ASSUME IInv, WriteBundle
    PROVE  Held'
  <1>1. BuildSnapshot(archive) = Packed(archive, ExcludedOf(archive))
    BY DEF BuildSnapshot, Packed, Contents, ValuesOf, ExcludedOf
  <1>2. AsItWas(archive, archive, today)
    BY DayAssumption DEF AsItWas, IInv, Dates
  <1> QED BY <1>1, <1>2 DEF Held, WriteBundle

(* A part that is lost on the way.                                         *)
LEMMA DamageHolds ==
    ASSUME Held, Damage
    PROVE  Held'
  <1>1. /\ bundle # None
        /\ bundle' = [bundle EXCEPT !.content.excluded = [t \in {} |-> {}]]
        /\ archive' = archive /\ today' = today
    BY DEF Damage
  <1>2. PICK arc, x : bundle = Packed(arc, x) /\ AsItWas(arc, archive, today)
    BY <1>1 DEF Held
  <1> QED BY <1>1, <1>2 DEF Held, Packed

(* A step that keeps the articles of the days before today.                *)
LEMMA PastHolds ==
    ASSUME Held, today \in Int, today' \in Int, today <= today',
           bundle' = bundle,
           \A d \in Day : d < today /\ WellMade(archive[d]) =>
               /\ WellMade(archive'[d])
               /\ archive'[d].articles = archive[d].articles
    PROVE  Held'
  <1> SUFFICES ASSUME bundle' # None
               PROVE  \E arc, x : /\ bundle' = Packed(arc, x)
                                  /\ AsItWas(arc, archive', today')
    BY DEF Held
  <1>1. PICK arc, x : bundle = Packed(arc, x) /\ AsItWas(arc, archive, today)
    BY DEF Held
  <1>2. AsItWas(arc, archive', today')
    BY <1>1, DayAssumption DEF AsItWas, Dates
  <1> QED BY <1>1, <1>2

(* A new day leaves the days before it alone.                              *)
LEMMA CollectHolds ==
    ASSUME IInv, Held, Collect
    PROVE  Held'
  <1>1. /\ today \in Int /\ today' = today + 1 /\ bundle' = bundle
        /\ \E report : archive' = [archive EXCEPT ![today] = report]
    BY DEF Collect, IInv
  <1>2. PICK report : archive' = [archive EXCEPT ![today] = report]
    BY <1>1
  <1>3. ASSUME NEW d \in Day, d < today PROVE archive'[d] = archive[d]
    BY <1>1, <1>2, <1>3, DayAssumption DEF IInv
  <1> QED BY <1>1, <1>3, PastHolds

(* A second analysis keeps the articles of its day.                        *)
LEMMA ReanalyzeHolds ==
    ASSUME IInv, Held, NEW d \in Day, Reanalyze(d)
    PROVE  Held'
  <1>1. today \in Int /\ today' = today /\ bundle' = bundle
        /\ d \in Dates(archive)
    BY DEF Reanalyze, IInv
  <1>2. PICK previous, catalogue :
           /\ TypedIntel(catalogue)
           /\ archive' = [archive EXCEPT ![d] =
                  Reanalysis(archive[d], previous, catalogue)]
    BY ReanalyzeKeeps
  <1> DEFINE report == Reanalysis(archive[d], previous, catalogue)
  <1>3. WellMade(report) /\ report.articles = archive[d].articles
    BY <1>1, <1>2, ReanalysisIs DEF IInv
  <1>4. archive' = [archive EXCEPT ![d] = report]
    BY <1>2
  <1> HIDE DEF report
  <1> QED BY <1>1, <1>3, <1>4, PastHolds DEF IInv

(* What a bundle holds was packed from an archive of which every day still *)
(* has the articles it had, whatever was analysed again since, and of what *)
(* was packed only exclusions can be missing (build_snapshot, reanalyze).  *)
THEOREM BundleIsPacked == Spec => []BInv
  <1>1. Init => Held
    BY DEF Init, Held
  <1>2. IInv /\ Held /\ [Next]_vars => Held'
    <2> SUFFICES ASSUME IInv, Held, [Next]_vars PROVE Held'
      OBVIOUS
    <2>1. CASE Collect
      BY <2>1, CollectHolds
    <2>2. CASE MissDay
      BY <2>2, PastHolds DEF MissDay, IInv
    <2>3. ASSUME NEW d \in Day, Reanalyze(d) PROVE Held'
      BY <2>3, ReanalyzeHolds
    <2>4. CASE WriteBundle
      BY <2>4, WriteHolds
    <2>5. CASE Damage
      BY <2>5, DamageHolds
    <2>6. CASE UNCHANGED vars
      BY <2>6 DEF vars, Held
    <2> QED BY <2>1, <2>2, <2>3, <2>4, <2>5, <2>6 DEF Next
  <1> QED BY <1>1, <1>2, Inductive, PTL DEF Spec, BInv

(* A bundle that agrees with its checksum holds all that was packed.       *)
LEMMA IntactIs ==
    ASSUME Held, bundle # None, Intact(bundle)
    PROVE  \E arc : /\ bundle.content = Packed(arc, ExcludedOf(arc)).content
                    /\ AsItWas(arc, archive, today)
  <1>1. PICK arc, x : bundle = Packed(arc, x) /\ AsItWas(arc, archive, today)
    BY DEF Held
  <1> QED BY <1>1 DEF Intact, Packed, Contents

(* The findings of the days a bundle was packed from are those of today.   *)
LEMMA FindingsStay ==
    ASSUME NEW arc, AsItWas(arc, archive, today)
    PROVE  /\ \A d \in Dates(arc) : Findings(archive[d]) = Findings(arc[d])
           /\ Stated(Dates(arc)) = DOMAIN ValuesOf(arc)
           /\ RuledOut(Dates(arc)) = DOMAIN ExcludedOf(arc)
  <1>1. ASSUME NEW d \in Dates(arc)
        PROVE  Findings(archive[d]) = Findings(arc[d])
    BY DEF AsItWas, Findings
  <1>2. UNION {Findings(archive[d]) : d \in Dates(arc)} = Archived(arc)
    BY <1>1 DEF Archived
  <1>3. RuledOut(Dates(arc)) = Texts({f \in Archived(arc) : IsRejected(f)})
    BY <1>2 DEF RuledOut, Texts, IsRejected
  <1> QED BY <1>1, <1>2, <1>3 DEF ValuesOf, ExcludedOf, Stated, Texts

(* What is ruled out has a reason.                                         *)
LEMMA ExclusionIs ==
    ASSUME NEW arc, NEW text \in DOMAIN ExcludedOf(arc)
    PROVE  /\ ExcludedOf(arc)[text] = Exclusion(arc, text)
           /\ Exclusion(arc, text) # {}
  <1>1. text \in Texts({f \in Archived(arc) : IsRejected(f)})
    BY DEF ExcludedOf
  <1>2. PICK f \in Archived(arc) : IsRejected(f) /\ f.e.text = text
    BY <1>1 DEF Texts
  <1> QED BY <1>1, <1>2 DEF ExcludedOf, Exclusion

(* The days a text is stated on, in the reports that were packed.          *)
DaysOf(arc, text) ==
    {d \in Dates(arc) :
        {f \in Findings(arc[d]) : Travels(f) /\ f.e.text = text} # {}}

(* What the bundle says of a text is what the board of the last day says   *)
(* that states it, and it can be cited.                                    *)
LEMMA RowIs ==
    ASSUME NEW arc, NEW text \in DOMAIN ValuesOf(arc),
           \A d \in Dates(arc) : WellMade(arc[d])
    PROVE  /\ DaysOf(arc, text) \in SUBSET Dates(arc)
           /\ Max(DaysOf(arc, text)) \in DaysOf(arc, text)
           /\ <<text, Row(arc, text).benign>>
              \in Verdicts(arc[Max(DaysOf(arc, text))])
           /\ Row(arc, text).citations # {}
  <1> DEFINE on(d) == {f \in Findings(arc[d]) : Travels(f) /\ f.e.text = text}
             days == {d \in Dates(arc) : on(d) # {}}
             found == UNION {on(d) : d \in days}
             decided == {d \in days : \E f \in on(d) :
                            ActionOn(arc[d], f.e.type, text) # None}
             type == (CHOOSE f \in on(Min(days)) : TRUE).e.type
             action == ActionOn(arc[Max(decided)], type, text)
  <1>1. Row(arc, text) =
            [type |-> type, dates |-> days,
             publishers |-> {f.source : f \in found},
             citations |-> {<<f.source, f.url>> : f \in found},
             action |-> IF decided = {} THEN None ELSE action.action,
             benign |-> IF decided = {} THEN None ELSE action.benign]
    BY DEF Row
  <1>2. PICK g \in Archived(arc) : Travels(g) /\ g.e.text = text
    BY DEF Texts, ValuesOf
  <1>3. PICK x \in Dates(arc) : g \in Findings(arc[x])
    BY <1>2 DEF Archived
  <1>4. g \in on(x) /\ x \in days
    BY <1>2, <1>3
  <1>5. {<<f.source, f.url>> : f \in found} # {}
    BY <1>4
  <1>6. ASSUME NEW d \in days
        PROVE  \E a \in ToSet(arc[d].brief.actions) : a.target = text
    <2>1. PICK f \in Findings(arc[d]) : Travels(f) /\ f.e.text = text
      OBVIOUS
    <2> QED BY <2>1, ActionAbout
  <1>7. decided = days
    <2>1. ASSUME NEW d \in days PROVE d \in decided
      BY <1>6, ActionOnIs
    <2> QED BY <2>1
  <1>8. days \in SUBSET Dates(arc) /\ days # {} /\ Max(days) \in days
    <2>1. days \in SUBSET Day
      BY DEF Dates
    <2>2. days \in SUBSET Int /\ IsFiniteSet(days)
      <3> HIDE DEF days
      <3> QED BY <2>1, DayAssumption, FS_Subset
    <2>3. days \in SUBSET Dates(arc)
      OBVIOUS
    <2> HIDE DEF days
    <2> QED BY <1>4, <2>2, <2>3, MaxMin
  <1>9. days = DaysOf(arc, text)
    BY DEF DaysOf
  <1>10. \E a \in ToSet(arc[Max(days)].brief.actions) : a.target = text
    <2> HIDE DEF days
    <2> QED BY <1>6, <1>8
  <1> HIDE DEF days, type, decided, found
  <1>11. <<text, action.benign>> \in Verdicts(arc[Max(days)])
    BY <1>7, <1>8, <1>10, ActionOnIs
  <1>12. Row(arc, text).benign = action.benign
    BY <1>1, <1>7, <1>8
  <1>13. Row(arc, text).citations # {}
    BY <1>1, <1>5
  <1> QED BY <1>8, <1>9, <1>11, <1>12, <1>13

(* The board of that day still says so.                                    *)
LEMMA StandsOnBoard ==
    ASSUME NEW arc, AsItWas(arc, archive, today),
           NEW text \in DOMAIN ValuesOf(arc)
    PROVE  /\ ValuesOf(arc)[text] = Row(arc, text)
           /\ Row(arc, text).citations # {}
           /\ Row(arc, text).benign = None => SomeoneBlocks(Dates(arc), text)
           /\ Row(arc, text).benign # None => ~AllBlock(Dates(arc), text)
  <1> DEFINE last == Max(DaysOf(arc, text))
  <1>1. \A d \in Dates(arc) : WellMade(arc[d]) /\ WellMade(archive[d])
                              /\ archive[d].articles = arc[d].articles
    BY DEF AsItWas
  <1>2. /\ last \in Dates(arc)
        /\ <<text, Row(arc, text).benign>> \in Verdicts(arc[last])
        /\ Row(arc, text).citations # {}
    BY <1>1, RowIs
  <1> DEFINE days == {d \in Dates(arc) : text \in Stated({d})}
  <1>3. days = DaysOf(arc, text)
    <2>1. ASSUME NEW d \in Dates(arc)
          PROVE  text \in Stated({d})
                 <=> {f \in Findings(arc[d]) : Travels(f) /\ f.e.text = text} # {}
      BY FindingsStay DEF Stated
    <2> QED BY <2>1 DEF DaysOf
  <1>4. LastDay(Dates(arc), text) = last
    BY <1>3 DEF LastDay
  <1> HIDE DEF last
  <1>5. Verdicts(archive[last]) = Verdicts(arc[last])
    BY <1>1, <1>2, VerdictsStay
  <1>6. PICK a \in ToSet(archive[last].brief.actions) :
            a.target = text /\ a.benign = Row(arc, text).benign
    BY <1>2, <1>5 DEF Verdicts
  <1> QED BY <1>2, <1>4, <1>6 DEF SomeoneBlocks, AllBlock, OnBoard, ValuesOf

(* A finding that travels has the form of its type, and a URL a host.      *)
LEMMA TravelsInForm ==
    ASSUME NEW report, WellMade(report), NEW f \in Findings(report), Travels(f)
    PROVE  /\ f.e.text \in AnyText
           /\ f.e.type \in SnapshotTypes \cup {"cve"}
           /\ HasForm(f.e.type, f.e.text)
           /\ f.e.type = "url" => f.e.text.host # <<>>
  <1>1. PICK m \in ToSet(report.articles) : f.e \in ToSet(m.evidence)
    BY DEF Findings
  <1>2. PICK a : MadeOf(m, a)
    BY <1>1, WellMadeIs, ManifestIs
  <1>3. PICK i \in DOMAIN Articles : a = Articles[i]
    BY <1>2 DEF MadeOf, ToSet
  <1>4. PICK e \in AnyFinding : e = f.e
    <2>1. PICK q \in Seq(AnyFinding) : q = m.evidence
      BY <1>2 DEF MadeOf
    <2>2. PICK j \in DOMAIN q : f.e = q[j]
      BY <1>1, <2>1 DEF ToSet
    <2> QED BY <2>2
  <1>5. PICK n \in 1 .. Len(m.body) :
            \E s \in ToSet(m.body[n].spans) \cup ToSet(m.body[n].claims) :
               /\ \/ s \in AnyMatch /\ s \in ToSet(m.body[n].spans)
                  \/ s \in AnyClaim
               /\ e = Finding(m.body, n, s, Trusted(a))
    BY <1>1, <1>2, <1>4 DEF ComesFrom, MadeOf
  <1>6. PICK s \in ToSet(m.body[n].spans) \cup ToSet(m.body[n].claims) :
            /\ \/ s \in AnyMatch /\ s \in ToSet(m.body[n].spans)
               \/ s \in AnyClaim
            /\ e = Finding(m.body, n, s, Trusted(a))
    BY <1>5
  <1> DEFINE v == Classify(ZoneAt(m.body, n), s, Trusted(a))
  <1>7. e.type = TypeOf(s) /\ e.text = s.text /\ e.status = v[1]
    BY <1>6 DEF Finding
  <1>8. e.type \in SnapshotTypes \cup {"cve"} /\ v[1] = "confirmed"
    BY <1>4, <1>7 DEF Travels
  <1>9. s.type = e.type /\ s.type \notin Claims
    BY <1>7, <1>8 DEF TypeOf, SnapshotTypes, Claims
  <1>10. HasForm(s.type, s.text)
    <2>1. m.body = a.body /\ m.body \in Seq(AnyLine)
      BY <1>2 DEF MadeOf
    <2>2. PICK body \in Seq(AnyLine) : body = m.body
      BY <2>1
    <2>3. m.body[n] \in ToSet(Articles[i].body)
      BY <1>3, <2>1, <2>2 DEF ToSet
    <2> QED BY <1>6, <1>9, <2>3, SpansAssumption DEF AnyClaim
  <1>11. s.type = "url" => s.text.host # <<>>
    <2> SUFFICES ASSUME s.type = "url", s.text.host = <<>> PROVE FALSE
      OBVIOUS
    <2> QED BY <1>8 DEF Classify
  <1>12. e.text \in AnyText
    BY DEF AnyFinding
  <1> QED BY <1>4, <1>7, <1>8, <1>9, <1>10, <1>11, <1>12

(* A text that is stated is one that a finding made travel.                *)
LEMMA StatedInForm ==
    ASSUME NEW arc, \A d \in Dates(arc) : WellMade(arc[d]),
           NEW text \in DOMAIN ValuesOf(arc)
    PROVE  /\ text \in AnyText /\ text # None
           /\ \E type \in SnapshotTypes \cup {"cve"} :
                /\ HasForm(type, text)
                /\ type = "url" => text.host # <<>>
  <1>1. PICK f \in Archived(arc) : Travels(f) /\ f.e.text = text
    BY DEF Texts, ValuesOf
  <1>2. PICK d \in Dates(arc) : f \in Findings(arc[d])
    BY <1>1 DEF Archived
  <1> QED BY <1>1, <1>2, TravelsInForm, BoardAssumption

-----------------------------------------------------------------------------

(* The forms do not overlap where it matters.                              *)
LEMMA FormsDiffer ==
    ASSUME NEW text
    PROVE  /\ text \in ToSet(CveOrder) =>
                /\ ~text.scheme /\ text.host = <<>> /\ text # Name("")
                /\ text = Name(text.rest)
           /\ text.host \in Ips => text.host # <<>> /\ text # Name("")
           /\ text.rest \in Hashes => text.rest # "" /\ text # Name("")
           /\ text.scheme => text # Name("")
  <1>1. Name("").host = <<>> /\ Name("").rest = "" /\ ~Name("").scheme
    BY DEF Name
  <1>2. text = Name(text.rest) => ~text.scheme /\ text.host = <<>>
    BY DEF Name
  <1> HIDE DEF Name
  <1> QED BY <1>1, <1>2, FormsAssumption, BoardAssumption

(* What the validator takes a row for.                                     *)
Supplied(r) == IF r.type \in KnownTypes THEN r.type ELSE None
Used(r) == IF Supplied(r) = None THEN Detect(r.text) ELSE Supplied(r)
Skips(r) == SkipReasons(r.text, Supplied(r), Detect(r.text))

(* A row is read as what it is called, or else as what it looks like.       *)
LEMMA UsedIs ==
    ASSUME NEW r
    PROVE  /\ Used(r) = IF r.type \in KnownTypes THEN r.type
                        ELSE Detect(r.text)
           /\ Detect(r.text) \in KnownTypes \cup {"empty", "unknown"}
           /\ Detect(r.text) # None
           /\ r.type \in KnownTypes => Supplied(r) # None
  BY AbsenceAssumption DEF Used, Supplied, Detect, KnownTypes

(* A row that is not skipped is skipped under neither reading.             *)
LEMMA NotSkipped ==
    ASSUME NEW r, Skips(r) = {}
    PROVE  /\ SkipFor(r.text, Used(r)) \subseteq {"unsupported_type"}
           /\ SkipFor(r.text, Detect(r.text)) \subseteq {"unsupported_type"}
           /\ r.type \notin KnownTypes => SkipFor(r.text, Used(r)) = {}
  <1> DEFINE readings == {Supplied(r), Detect(r.text)} \ {None}
             all == UNION {SkipFor(r.text, t) : t \in readings}
  <1>1. Skips(r) = IF \A t \in readings :
                          SkipFor(r.text, t) = {"unsupported_type"}
                   THEN all ELSE all \ {"unsupported_type"}
    BY DEF Skips, SkipReasons
  <1>2. Used(r) \in readings /\ Detect(r.text) \in readings
    BY UsedIs DEF Used
  <1>3. \A t \in readings : SkipFor(r.text, t) \subseteq all
    OBVIOUS
  <1> HIDE DEF all
  <1>4. all \subseteq {"unsupported_type"}
    BY <1>1
  <1>5. ASSUME r.type \notin KnownTypes PROVE SkipFor(r.text, Used(r)) = {}
    <2>1. readings = {Used(r)} /\ SkipFor(r.text, Used(r)) \subseteq
                                  {"unsupported_type"}
      BY <1>2, <1>3, <1>4, <1>5, UsedIs DEF Used, Supplied
    <2>2. SkipFor(r.text, Used(r)) # {"unsupported_type"}
      <3> SUFFICES ASSUME SkipFor(r.text, Used(r)) = {"unsupported_type"}
                   PROVE  FALSE
        OBVIOUS
      <3> QED BY <1>1, <1>2, <1>3, <2>1
    <2> QED BY <2>1, <2>2
  <1> QED BY <1>2, <1>3, <1>4, <1>5

(* What is looked up of a row that is not skipped.                         *)
LookedUp(r) == Normalize(r.text, Used(r))

(* Only a row that is read as a URL is looked up by its host, and only one  *)
(* that has a scheme is read so.                                            *)
LEMMA LookedUpIs ==
    ASSUME NEW r, IsRow(r), Skips(r) = {}
    PROVE  /\ Used(r) = "url" => /\ r.text.scheme /\ r.text.host # <<>>
                                 /\ ~Miscalled(r)
                                 /\ LookedUp(r) = Host(r.text.host)
           /\ Used(r) # "url" => LookedUp(r) = r.text
           /\ r.text.scheme /\ ~Miscalled(r) => Used(r) = "url"
           /\ Used(r) = "domain" => Len(r.text.host) > 1
           /\ Used(r) = "ip" => r.text.host \in Ips
  <1> DEFINE t == r.text
             u == Used(r)
  <1>1. SkipFor(t, u) \subseteq {"unsupported_type"}
    BY NotSkipped
  <1>2. ASSUME u = "url"
        PROVE  t.scheme /\ t.host # <<>> /\ LookedUp(r) = Host(t.host)
    <2> DEFINE host == Normalize(t, "url").host
    <2>1. host # <<>>
      <3> SUFFICES ASSUME host = <<>> PROVE FALSE
        OBVIOUS
      <3> QED BY <1>1, <1>2 DEF SkipFor
    <2> QED BY <1>2, <2>1 DEF LookedUp, Normalize, Host, Name
  <1>3. u = "url" => ~Miscalled(r)
    BY UsedIs DEF Miscalled
  <1>4. ASSUME t.scheme, ~Miscalled(r) PROVE u = "url"
    <2>1. t.rest \notin Hashes
      BY <1>4 DEF IsRow, Name
    <2> QED BY <1>4, <2>1, FormsDiffer, UsedIs DEF Miscalled, Detect
  <1>5. ASSUME u = "domain" PROVE Len(t.host) > 1
    <2> SUFFICES ASSUME ~(Len(t.host) > 1) PROVE FALSE
      OBVIOUS
    <2>1. Len(t.host) <= 1
      BY DEF IsRow, AnyText
    <2> QED BY <1>1, <1>5, <2>1 DEF SkipFor, Normalize
  <1>6. ASSUME u = "ip" PROVE t.host \in Ips
    <2> SUFFICES ASSUME t.host \notin Ips PROVE FALSE
      OBVIOUS
    <2> QED BY <1>1, <1>6 DEF SkipFor, Normalize
  <1> QED BY <1>2, <1>3, <1>4, <1>5, <1>6 DEF LookedUp, Normalize

(* An address of a private network is withheld, whatever it is called.     *)
LEMMA PrivateIsSkipped ==
    ASSUME NEW r, IsRow(r), r.text.host \in NonPublic
    PROVE  Skips(r) # {}
  <1> DEFINE t == r.text
  <1> SUFFICES ASSUME Skips(r) = {} PROVE FALSE
    OBVIOUS
  <1>1. SkipFor(t, Detect(t)) \subseteq {"unsupported_type"}
    BY NotSkipped
  <1>2. t.host \in Ips /\ t.host # <<>> /\ t # Name("")
    BY FormsAssumption, FormsDiffer
  <1>3. t \notin ToSet(CveOrder)
    BY <1>2, FormsDiffer
  <1>4. t.rest \notin Hashes
    <2>1. Name(t.rest).host = <<>>
      BY DEF Name
    <2> QED BY <1>2, <2>1 DEF IsRow
  <1>5. CASE t.scheme
    <2>1. Detect(t) = "url"
      BY <1>2, <1>3, <1>4, <1>5 DEF Detect
    <2> QED BY <1>1, <1>2, <1>5, <2>1 DEF SkipFor, Normalize, Host
  <1>6. CASE ~t.scheme
    <2>1. Detect(t) = "ip"
      BY <1>2, <1>3, <1>4, <1>6 DEF Detect
    <2> QED BY <1>1, <1>2, <1>6, <2>1 DEF SkipFor, Normalize
  <1> QED BY <1>5, <1>6

(* The parts of a host and of a name.                                       *)
LEMMA TextFields ==
    ASSUME NEW h
    PROVE  /\ Host(h).host = h /\ Host(h).rest = "" /\ ~Host(h).scheme
           /\ Name(h).host = <<>> /\ Name(h).rest = h /\ ~Name(h).scheme
  BY DEF Host, Name

(* A value in the form of its type is read as such when nothing else is    *)
(* said of it, and withheld only on an internal host.                      *)
LEMMA InFormIsAnswered ==
    ASSUME NEW r, IsRow(r), r.type = None,
           r.text.host \notin NonPublic, ~IsInternal(r.text.host),
           NEW type \in SnapshotTypes \cup {"cve"}, HasForm(type, r.text),
           type = "url" => r.text.host # <<>>
    PROVE  Skips(r) = {}
  <1> DEFINE t == r.text
             as == Detect(t)
  <1>1. SkipFor(t, as) = {} => Skips(r) = {}
    <2>1. {Supplied(r), as} \ {None} = {as}
      BY UsedIs, AbsenceAssumption DEF Supplied
    <2> DEFINE readings == {Supplied(r), as} \ {None}
    <2>2. SkipFor(t, as) = {} => UNION {SkipFor(t, x) : x \in readings} = {}
      BY <2>1
    <2> QED BY <2>2 DEF Skips, SkipReasons
  <1>2. Len(t.host) \in Nat /\ (t.host = <<>> <=> Len(t.host) = 0)
    <2>1. t.host \in Seq(STRING)
      BY DEF IsRow, AnyText
    <2>2. PICK h \in Seq(STRING) : h = t.host
      BY <2>1
    <2>3. Len(h) \in Nat /\ (h = <<>> <=> Len(h) = 0)
      OBVIOUS
    <2> QED BY <2>2, <2>3
  <1>3. t.host # <<>> => Len(t.host) > 1 /\ t.host[1] \notin Internal
    <2>1. t.host # <<>> => ~(Len(t.host) = 1) /\ t.host[1] \notin Internal
      BY DEF IsInternal
    <2>2. \A n \in Nat : n # 0 /\ n # 1 => n > 1
      OBVIOUS
    <2> QED BY <1>2, <2>1, <2>2
  <1>4. ASSUME NEW x \in {"url", "domain"}, t.host # <<>>,
               x = "url" <=> t.scheme
        PROVE  SkipFor(t, x) = {}
    <2>1. Normalize(t, x).host = t.host
      BY <1>4 DEF Normalize, Host
    <2>2. ~(Len(t.host) <= 1)
      BY <1>2, <1>3, <1>4
    <2> QED BY <1>3, <1>4, <2>1, <2>2 DEF SkipFor
  <1>5. CASE type = "url"
    <2>1. t.scheme /\ t.rest \notin Hashes /\ t.host # <<>>
      BY <1>5 DEF HasForm
    <2>2. t # Name("") /\ t \notin ToSet(CveOrder)
      BY <2>1, FormsDiffer
    <2>3. as = "url"
      BY <2>1, <2>2 DEF Detect
    <2> QED BY <1>1, <1>4, <2>1, <2>3
  <1>6. CASE type = "domain"
    <2>1. /\ t = Host(t.host) /\ Len(t.host) > 1
          /\ \A i \in Ips : ~AtOrBeneath(i, t.host)
      BY <1>6 DEF HasForm
    <2>2. t.host # <<>>
      BY <1>2, <2>1
    <2>3. ~t.scheme
      BY <2>1, TextFields, ZenonT(30)
    <2>4. t.rest = ""
      BY <2>1, TextFields
    <2>5. t.host # <<>> /\ ~t.scheme /\ t.rest = ""
      BY <2>2, <2>3, <2>4
    <2>6. t # Name("") /\ t \notin ToSet(CveOrder) /\ t.rest \notin Hashes
      <3>1. t # Name("") /\ t \notin ToSet(CveOrder)
        <4>1. t \in ToSet(CveOrder) => t.host = <<>>
          BY FormsDiffer
        <4>2. Name("").host = <<>>
          BY TextFields
        <4> QED BY <2>2, <4>1, <4>2
      <3>2. t.rest \notin Hashes
        BY <2>5, FormsAssumption
      <3> QED BY <3>1, <3>2
    <2>7. t.host \notin Ips
      <3> SUFFICES ASSUME t.host \in Ips PROVE FALSE
        OBVIOUS
      <3>1. ~IsPrefix(t.host, t.host)
        BY <2>1 DEF AtOrBeneath
      <3>2. t.host \in Seq(STRING)
        BY DEF IsRow, AnyText
      <3>3. IsPrefix(t.host, t.host)
        BY <3>2 DEF IsPrefix
      <3> QED BY <3>1, <3>3
    <2>8. as = "domain"
      BY <2>1, <2>5, <2>6, <2>7 DEF Detect
    <2> QED BY <1>1, <1>4, <2>5, <2>8
  <1>7. CASE type = "ip"
    <2>1. t = Host(t.host) /\ t.host \in Ips
      BY <1>7 DEF HasForm
    <2>2. t.host # <<>>
      BY <2>1, FormsDiffer
    <2>3. ~t.scheme
      BY <2>1, TextFields, ZenonT(30)
    <2>4. t.rest = ""
      BY <2>1, TextFields
    <2>5. t.host # <<>> /\ ~t.scheme /\ t.rest = ""
      BY <2>2, <2>3, <2>4
    <2>6. t # Name("") /\ t \notin ToSet(CveOrder) /\ t.rest \notin Hashes
      <3>1. t # Name("") /\ t \notin ToSet(CveOrder)
        <4>1. t \in ToSet(CveOrder) => t.host = <<>>
          BY FormsDiffer
        <4>2. Name("").host = <<>>
          BY TextFields
        <4> QED BY <2>2, <4>1, <4>2
      <3>2. t.rest \notin Hashes
        BY <2>5, FormsAssumption
      <3> QED BY <3>1, <3>2
    <2>7. as = "ip"
      BY <2>1, <2>5, <2>6 DEF Detect
    <2>8. Normalize(t, "ip") = t
      BY DEF Normalize
    <2>9. SkipFor(t, "ip") = {}
      BY <2>1, <2>5, <2>8 DEF SkipFor
    <2> QED BY <1>1, <2>7, <2>9
  <1>8. CASE type \in {"sha256", "cve"}
    <2>1. t # Name("") /\ (t.rest \in Hashes \/ t \in ToSet(CveOrder))
      BY <1>8, FormsDiffer DEF HasForm
    <2>2. as \in {"sha256", "cve"}
      BY <2>1 DEF Detect
    <2>3. SkipFor(t, as) = {}
      BY <2>2 DEF SkipFor
    <2> QED BY <1>1, <2>3
  <1> QED BY <1>5, <1>6, <1>7, <1>8 DEF SnapshotTypes

(* A suffix has some labels, at least none.                                *)
LEMMA SuffixOf ==
    ASSUME NEW T, NEW h \in Seq(T)
    PROVE  SuffixLength(h) \in Nat
  <1>1. PICK n \in Nat : n = Len(h)
    OBVIOUS
  <1>2. CASE RuleEnds(h) = {}
    BY <1>2 DEF SuffixLength
  <1>3. CASE RuleEnds(h) # {}
    <2>1. RuleEnds(h) \in SUBSET (1 .. n) /\ RuleEnds(h) \in SUBSET Int
      BY <1>1 DEF RuleEnds
    <2>2. IsFiniteSet(1 .. n)
      BY FS_Interval
    <2>3. PICK k \in 1 .. n : k = Max(RuleEnds(h))
      BY <1>3, <2>1, <2>2, FS_Subset, MaxMin
    <2> QED BY <1>3, <2>3 DEF SuffixLength
  <1> QED BY <1>2, <1>3

(* So it has where labels are strings.                                      *)
LEMMA SuffixIsNat ==
    ASSUME NEW h \in Seq(STRING)
    PROVE  SuffixLength(h) \in Nat
  BY SuffixOf

(* An upper part of a host is a host with that many labels.                 *)
LEMMA UpperIs ==
    ASSUME NEW h \in Seq(STRING), NEW n \in 0 .. Len(h)
    PROVE  Upper(h, n) \in Seq(STRING) /\ Len(Upper(h, n)) = n
  BY SubSeqProperties DEF Upper

(* What a host is strictly beneath is an upper part of it.                  *)
LEMMA StrictPrefixIs ==
    ASSUME NEW s \in Seq(STRING), NEW h \in Seq(STRING), IsStrictPrefix(s, h)
    PROVE  Len(s) < Len(h) /\ s = Upper(h, Len(s))
  BY UpperAll DEF IsStrictPrefix, IsPrefix, Upper

(* A name that one registrant owns with another above it lies between that *)
(* and the suffix.                                                         *)
LEMMA OneRegistrant ==
    ASSUME NEW s \in Seq(STRING), NEW h \in Seq(STRING), IsStrictPrefix(s, h),
           Registrable(h) = Registrable(s)
    PROVE  s \in Between(h)
  <1>1. PICK n \in Nat : n = Len(s)
    OBVIOUS
  <1>2. PICK k \in Nat : k = Len(h)
    OBVIOUS
  <1>3. n < k /\ s = Upper(h, n)
    BY <1>1, <1>2, StrictPrefixIs
  <1>4. PICK c \in Nat : c = SuffixLength(h)
    BY SuffixIsNat
  <1>5. PICK b \in Nat : b = SuffixLength(s)
    BY SuffixIsNat
  <1>6. Len(Registrable(s)) <= n
    <2>1. CASE n > b
      <3>1. Registrable(s) = Upper(s, b + 1) /\ b + 1 \in 0 .. Len(s)
        BY <1>1, <1>5, <2>1 DEF Registrable
      <3>2. Len(Registrable(s)) = b + 1
        BY <3>1, UpperIs
      <3> QED BY <2>1, <3>2
    <2>2. CASE ~(n > b)
      <3>1. Registrable(s) = s
        BY <1>1, <1>5, <2>2 DEF Registrable
      <3> QED BY <1>1, <3>1
    <2> QED BY <2>1, <2>2
  <1>7. k > c
    <2> SUFFICES ASSUME ~(k > c) PROVE FALSE
      OBVIOUS
    <2>1. Registrable(h) = h
      BY <1>2, <1>4 DEF Registrable
    <2>2. Len(Registrable(h)) = k
      BY <1>2, <2>1
    <2> QED BY <1>3, <1>6, <2>2
  <1>8. c + 1 <= n
    <2>1. Registrable(h) = Upper(h, c + 1) /\ c + 1 \in 0 .. Len(h)
      BY <1>2, <1>4, <1>7 DEF Registrable
    <2>2. Len(Registrable(h)) = c + 1
      BY <2>1, UpperIs
    <2> QED BY <1>6, <2>2
  <1>9. n \in SuffixLength(h) + 1 .. Len(h) - 1
    BY <1>2, <1>3, <1>4, <1>8
  <1> QED BY <1>3, <1>9 DEF Between

(* The ancestors that are tried are the names between.                     *)
LEMMA ParentsAre ==
    ASSUME NEW h \in Seq(STRING)
    PROVE  /\ DOMAIN Parents(h) \in SUBSET Int /\ IsFiniteSet(DOMAIN Parents(h))
           /\ \A i \in DOMAIN Parents(h) : Parents(h)[i] \in Between(h)
           /\ \A u \in Between(h) : /\ u # <<>> /\ IsStrictPrefix(u, h)
                                    /\ \E i \in DOMAIN Parents(h) :
                                          Parents(h)[i] = u
  <1>1. PICK k \in Nat : k = Len(h)
    OBVIOUS
  <1>2. PICK c \in Nat : c = SuffixLength(h)
    BY SuffixIsNat
  <1>3. DOMAIN Parents(h) = 1 .. k - 1 - c
    BY <1>1, <1>2 DEF Parents
  <1>4. \A i \in 1 .. k - 1 - c : Parents(h)[i] = Upper(h, k - i)
    BY <1>1, <1>2 DEF Parents
  <1>5. ASSUME NEW i \in 1 .. k - 1 - c PROVE Upper(h, k - i) \in Between(h)
    BY <1>1, <1>2 DEF Between
  <1>6. ASSUME NEW u \in Between(h)
        PROVE  /\ u # <<>> /\ IsStrictPrefix(u, h)
               /\ \E i \in 1 .. k - 1 - c : Parents(h)[i] = u
    <2>1. PICK n \in c + 1 .. k - 1 : u = Upper(h, n)
      BY <1>1, <1>2 DEF Between
    <2>2. n \in 0 .. Len(h) /\ n \in Nat /\ n # 0 /\ n < k
      BY <1>1
    <2>3. u \in Seq(STRING) /\ Len(u) = n
      BY <2>1, <2>2, UpperIs
    <2>4. u # <<>> /\ u # h
      BY <1>1, <2>2, <2>3
    <2>5. SubSeq(u, 1, n) = u
      BY <2>3, UpperAll DEF Upper
    <2>6. IsStrictPrefix(u, h)
      BY <1>1, <2>1, <2>2, <2>3, <2>4, <2>5
      DEF IsStrictPrefix, IsPrefix, Upper
    <2>7. PICK i \in 1 .. k - 1 - c : k - i = n
      OBVIOUS
    <2> QED BY <1>4, <2>1, <2>4, <2>6, <2>7
  <1>7. 1 .. k - 1 - c \in SUBSET Int /\ IsFiniteSet(1 .. k - 1 - c)
    BY FS_Interval
  <1> QED BY <1>3, <1>4, <1>5, <1>6, <1>7

(* What a bundle tells its reader, whatever the archive has become.        *)
Speaks(content, days) ==
    /\ \A t \in DOMAIN content.values :
         /\ t \in AnyText /\ t # None
         /\ \E type \in SnapshotTypes \cup {"cve"} :
               HasForm(type, t) /\ (type = "url" => t.host # <<>>)
         /\ content.values[t].citations # {}
         /\ content.values[t].benign = None => SomeoneBlocks(days, t)
         /\ content.values[t].benign # None => ~AllBlock(days, t)
    /\ \A t \in DOMAIN content.excluded :
         t \in AnyText /\ content.excluded[t] # {}

(* A slash at the end does not make a URL of a host.                       *)
LEMMA WholeScheme ==
    ASSUME NEW x \in AnyText, NEW y \in AnyText, Whole(x) = Whole(y)
    PROVE  x.scheme <=> y.scheme
  <1>1. ASSUME NEW t \in AnyText PROVE Whole(t).scheme = t.scheme
    BY DEF Whole, AnyText
  <1> QED BY <1>1

(* What is related is stated and not held back, and one registrant owns it.*)
LEMMA RelationIs ==
    ASSUME NEW content, NEW days, Speaks(content, days),
           NEW key, key.host \in Seq(STRING),
           NEW m \in Relation(content, key)
    PROVE  /\ m.key \in DOMAIN content.values
           /\ ~HeldBack(content, m.key)
           /\ key.host # <<>>
           /\ m.method \in {"parent_domain", "child_domain"}
           /\ m.method = "parent_domain" => m.key.host \in Between(key.host)
           /\ m.method = "child_domain" => key.host \in Between(m.key.host)
  <1> DEFINE labels == Split(key)
             free == {t \in DOMAIN content.values : ~HeldBack(content, t)}
             parents == {i \in DOMAIN Parents(labels) :
                            Host(Parents(labels)[i]) \in free}
             children == {t \in free :
                             /\ content.values[t].type \in {"domain", "url"}
                             /\ ~key.scheme /\ IsStrictPrefix(labels, Split(t))
                             /\ Registrable(Split(t)) = Registrable(labels)}
  <1>1. labels # <<>>
    BY DEF Relation
  <1>2. labels = key.host
    BY <1>1 DEF Split
  <1>3. key.host \in Seq(STRING)
    OBVIOUS
  <1>4. CASE parents # {}
    <2>1. m = [method |-> "parent_domain",
               key |-> Host(Parents(labels)[Min(parents)])]
      BY <1>1, <1>4 DEF Relation
    <2>2. parents \in SUBSET DOMAIN Parents(labels)
      OBVIOUS
    <2>3. Min(parents) \in parents
      <3> HIDE DEF parents
      <3>1. IsFiniteSet(parents) /\ parents \in SUBSET Int
        BY <1>2, <1>3, <2>2, ParentsAre, FS_Subset
      <3> QED BY <1>4, <3>1, MaxMin
    <2>4. m.key \in free /\ m.key.host = Parents(labels)[Min(parents)]
      BY <2>1, <2>3, TextFields
    <2>5. m.key.host \in Between(key.host)
      BY <1>2, <1>3, <2>3, <2>4, ParentsAre
    <2> QED BY <1>1, <1>2, <2>1, <2>4, <2>5
  <1>5. CASE parents = {}
    <2>1. PICK t \in children : m = [method |-> "child_domain", key |-> t]
      BY <1>1, <1>5 DEF Relation
    <2>2. t \in free /\ IsStrictPrefix(labels, Split(t))
          /\ Registrable(Split(t)) = Registrable(labels)
      OBVIOUS
    <2>3. Split(t) = t.host
      <3> SUFFICES ASSUME Split(t) = <<>> PROVE FALSE
        BY DEF Split
      <3>1. Len(labels) < Len(<<>>)
        <4>1. <<>> \in Seq(STRING)
          OBVIOUS
        <4> QED BY <1>2, <1>3, <2>2, <4>1, StrictPrefixIs
      <3> QED BY <1>2, <1>3, <3>1
    <2>4. key.host \in Between(t.host)
      BY <1>2, <1>3, <2>2, <2>3, OneRegistrant DEF Speaks, AnyText
    <2> QED BY <1>1, <1>2, <2>1, <2>2, <2>4
  <1> QED BY <1>4, <1>5

(* Where nothing is related, every ancestor that is stated is held back.   *)
LEMMA NothingRelated ==
    ASSUME NEW content, NEW h \in Seq(STRING),
           Relation(content, Host(h)) = {},
           NEW u \in Between(h), Host(u) \in DOMAIN content.values
    PROVE  HeldBack(content, Host(u))
  <1> SUFFICES ASSUME ~HeldBack(content, Host(u)) PROVE FALSE
    OBVIOUS
  <1>1. h # <<>>
    <2>1. PICK n \in SuffixLength(h) + 1 .. Len(h) - 1 : u = Upper(h, n)
      BY DEF Between
    <2> QED BY <2>1, SuffixIsNat
  <1>2. PICK i \in DOMAIN Parents(h) : Parents(h)[i] = u
    BY ParentsAre
  <1> QED BY <1>1, <1>2, TextFields DEF Relation, Split

(* What is found of a row that is not skipped.                             *)
LEMMA MatchIs ==
    ASSUME NEW content, NEW days, Speaks(content, days),
           NEW r, IsRow(r), Skips(r) = {},
           NEW m \in Match(content, r.text, Used(r))
    PROVE  /\ m.key \in DOMAIN content.values
           /\ r.text \in DOMAIN content.values => m.method = "exact"
           /\ \/ m.method = "exact" /\ m.key \in Alike(r, DOMAIN content.values)
              \/ /\ m.method = "same_host" /\ Used(r) = "url"
                 /\ m.key = LookedUp(r) /\ ~HeldBack(content, m.key)
              \/ /\ Used(r) \in {"domain", "url"}
                 /\ m \in Relation(content, LookedUp(r))
  <1> DEFINE t == r.text
             u == Used(r)
             key == LookedUp(r)
             V == DOMAIN content.values
             whole == {x \in V : x.scheme /\ u = "url" /\ Whole(x) = Whole(t)}
  <1>1. Normalize(t, u) = key
    BY DEF LookedUp
  <1>2. ASSUME t \in V, u = "url" PROVE t \in whole
    BY <1>2, LookedUpIs
  <1>3. CASE whole # {}
    <2>1. PICK x \in whole : m = [method |-> "exact", key |-> x]
      BY <1>3 DEF Match
    <2> QED BY <2>1, LookedUpIs DEF Alike
  <1>4. CASE /\ whole = {} /\ key \in V
             /\ u = "url" => ~HeldBack(content, key)
    <2>1. m = [method |-> IF u = "url" THEN "same_host" ELSE "exact",
               key |-> key]
      BY <1>1, <1>4 DEF Match
    <2>2. CASE u = "url"
      BY <1>2, <1>4, <2>1, <2>2
    <2>3. CASE u # "url"
      BY <1>4, <2>1, <2>3, LookedUpIs DEF Alike
    <2> QED BY <2>2, <2>3
  <1>5. CASE /\ whole = {}
             /\ ~(key \in V /\ (u = "url" => ~HeldBack(content, key)))
    <2>1. key.host \in Seq(STRING)
      <3>1. t.host \in Seq(STRING)
        BY DEF IsRow, AnyText
      <3> QED BY <3>1, LookedUpIs, TextFields
    <2>2. t \notin V
      <3>1. CASE u = "url"
        BY <1>2, <1>5, <3>1
      <3>2. CASE u # "url"
        BY <1>5, <3>2, LookedUpIs
      <3> QED BY <3>1, <3>2
    <2> QED BY <1>1, <1>5, <2>1, <2>2, RelationIs DEF Match
  <1> QED BY <1>3, <1>4, <1>5

(* What is found of a row that is not skipped, when nothing is.            *)
LEMMA NoMatchIs ==
    ASSUME NEW content, NEW r, IsRow(r), Skips(r) = {},
           Match(content, r.text, Used(r)) = {}
    PROVE  /\ Used(r) # "url" => r.text \notin DOMAIN content.values
           /\ Used(r) = "url" => \A x \in DOMAIN content.values :
                                    ~(x.scheme /\ Whole(x) = Whole(r.text))
           /\ Used(r) \in {"domain", "url"} =>
                Relation(content, LookedUp(r)) = {}
  <1> DEFINE t == r.text
             u == Used(r)
             key == LookedUp(r)
             V == DOMAIN content.values
             whole == {x \in V : x.scheme /\ u = "url" /\ Whole(x) = Whole(t)}
  <1>1. Normalize(t, u) = key
    BY DEF LookedUp
  <1>2. whole = {}
    <2> SUFFICES ASSUME whole # {} PROVE FALSE
      OBVIOUS
    <2>1. Match(content, t, u) = {[method |-> "exact", key |-> x] : x \in whole}
      BY DEF Match
    <2> HIDE DEF whole
    <2> QED BY <2>1
  <1>3. ~(key \in V /\ (u = "url" => ~HeldBack(content, key)))
    <2> SUFFICES ASSUME key \in V, u = "url" => ~HeldBack(content, key)
                 PROVE  FALSE
      OBVIOUS
    <2> QED BY <1>1, <1>2 DEF Match
  <1> QED BY <1>1, <1>2, <1>3, LookedUpIs DEF Match

(* What is ruled out and outranks a match.                                 *)
Outranks(content, r, method) ==
    ExcludedBy(content, r.text, Used(r), method)

(* Without an exclusion that outranks the match nothing alike is ruled out, *)
(* and with one something is (Corpus.exclusion).                            *)
LEMMA OutranksIs ==
    ASSUME NEW content, NEW days, Speaks(content, days),
           NEW r, IsRow(r), Skips(r) = {}, NEW method, method # "exact"
    PROVE  LET X == DOMAIN content.excluded
           IN  /\ Outranks(content, r, method) = {} =>
                    /\ Used(r) = "url" \/ method # "same_host"
                       => Alike(r, X) = {}
                    /\ method # "same_host" => LookedUp(r) \notin X
               /\ Outranks(content, r, method) # {} =>
                    \/ Alike(r, X) # {}
                    \/ LookedUp(r) \in X
  <1> DEFINE t == r.text
             u == Used(r)
             key == LookedUp(r)
             X == DOMAIN content.excluded
             whole == {x \in X : x.scheme /\ u = "url" /\ Whole(x) = Whole(t)}
  <1>1. Outranks(content, r, method) =
            IF whole # {} THEN whole
            ELSE IF method = "same_host" THEN {} ELSE {key} \cap X
    BY DEF Outranks, ExcludedBy, LookedUp
  <1>2. whole # {} => u = "url" /\ whole \subseteq Alike(r, X)
    BY LookedUpIs DEF Alike
  <1>3. ASSUME whole = {}, u = "url" \/ key \notin X PROVE Alike(r, X) = {}
    <2> SUFFICES ASSUME NEW x \in Alike(r, X) PROVE FALSE
      OBVIOUS
    <2>1. x \in X /\ (x = t \/ (x.scheme /\ Whole(x) = Whole(t) /\ ~Miscalled(r)))
      BY DEF Alike
    <2>2. CASE u = "url"
      BY <1>3, <2>1, <2>2, LookedUpIs
    <2>3. CASE u # "url"
      BY <1>3, <2>1, <2>3, LookedUpIs, WholeScheme DEF IsRow, Speaks
    <2> QED BY <2>2, <2>3
  <1> HIDE DEF whole
  <1> QED BY <1>1, <1>2, <1>3

(* What the validator says of a row, given what it found.                  *)
Told(content, r, m) ==
    IF Outranks(content, r, m.method) # {}
    THEN {Answer("excluded", None, content.excluded[t], None) :
             t \in Outranks(content, r, m.method)}
    ELSE IF m.key = None THEN {Answer("miss", None, {}, None)}
    ELSE IF content.values[m.key].citations = {}
    THEN {Answer("error", m, {"missing_citation"}, None)}
    ELSE {Answer("hit", m, {},
                 IF Used(r) = "cve" /\ r.text \in DOMAIN content.intel
                 THEN content.intel[r.text] ELSE None)}

Nothing == [method |-> None, key |-> None]

(* _evaluate_row.                                                          *)
LEMMA EvaluateIs ==
    ASSUME NEW content, NEW r
    PROVE  LET found == Match(content, r.text, Used(r))
           IN  Evaluate(content, r) =
                 IF Skips(r) # {} THEN {Answer("skipped", None, Skips(r), None)}
                 ELSE UNION {Told(content, r, m) :
                                m \in IF found = {} THEN {Nothing} ELSE found}
  BY DEF Evaluate, Skips, Used, Supplied, Outranks, Told, Nothing

(* The five answers.                                                       *)
LEMMA AnswerIs ==
    ASSUME NEW content, NEW days, Speaks(content, days),
           NEW r, IsRow(r), NEW a \in Evaluate(content, r)
    PROVE  LET found == Match(content, r.text, Used(r))
           IN  \/ Skips(r) # {} /\ a.status = "skipped"
               \/ /\ Skips(r) = {}
                  /\ \E m \in found :
                       \/ /\ Outranks(content, r, m.method) # {}
                          /\ a.status = "excluded"
                       \/ /\ Outranks(content, r, m.method) = {}
                          /\ a.status = "hit" /\ a.match = m
               \/ /\ Skips(r) = {} /\ found = {}
                  /\ \/ /\ Outranks(content, r, None) # {}
                        /\ a.status = "excluded"
                     \/ /\ Outranks(content, r, None) = {}
                        /\ a.status = "miss"
  <1> DEFINE found == Match(content, r.text, Used(r))
  <1>1. Evaluate(content, r) =
            IF Skips(r) # {} THEN {Answer("skipped", None, Skips(r), None)}
            ELSE UNION {Told(content, r, m) :
                           m \in IF found = {} THEN {Nothing} ELSE found}
    BY EvaluateIs
  <1>2. CASE Skips(r) # {}
    BY <1>1, <1>2 DEF Answer
  <1>3. CASE Skips(r) = {} /\ found # {}
    <2>1. PICK m \in found : a \in Told(content, r, m)
      BY <1>1, <1>3
    <2>2. m.key \in DOMAIN content.values
      BY <1>3, MatchIs
    <2>3. CASE Outranks(content, r, m.method) # {}
      BY <1>3, <2>1, <2>3 DEF Told, Answer
    <2>4. CASE Outranks(content, r, m.method) = {}
      BY <1>3, <2>1, <2>2, <2>4 DEF Told, Answer, Speaks
    <2> QED BY <2>3, <2>4
  <1>4. CASE Skips(r) = {} /\ found = {}
    <2>1. a \in Told(content, r, Nothing)
      BY <1>1, <1>4
    <2>2. Nothing.method = None /\ Nothing.key = None
      BY DEF Nothing
    <2>3. CASE Outranks(content, r, None) # {}
      BY <1>4, <2>1, <2>2, <2>3 DEF Told, Answer
    <2>4. CASE Outranks(content, r, None) = {}
      BY <1>4, <2>1, <2>2, <2>4 DEF Told, Answer
    <2> QED BY <2>3, <2>4
  <1> QED BY <1>2, <1>3, <1>4

(* A miss leaves no ancestor unsaid that the board would block.            *)
LEMMA AncestorsAreHeldBack ==
    ASSUME NEW content, NEW days, Speaks(content, days),
           NEW r, IsRow(r), r.type = None, Skips(r) = {},
           Match(content, r.text, Used(r)) = {},
           NEW h \in Between(r.text.host), Host(h) \in DOMAIN content.values
    PROVE  ~AllBlock(days, Host(h))
  <1> DEFINE t == r.text
             u == Used(r)
  <1>1. t.host \in Seq(STRING)
    BY DEF IsRow, AnyText
  <1>2. h # <<>> /\ IsStrictPrefix(h, t.host)
    BY <1>1, ParentsAre
  <1>3. t.host # <<>>
    <2> SUFFICES ASSUME t.host = <<>> PROVE FALSE
      OBVIOUS
    <2>1. PICK n \in SuffixLength(t.host) + 1 .. Len(t.host) - 1 : TRUE
      BY DEF Between
    <2>2. SuffixLength(t.host) \in Nat /\ Len(t.host) = 0
      BY <1>1, SuffixIsNat
    <2> QED BY <2>1, <2>2
  <1>4. r.type \notin KnownTypes
    BY AbsenceAssumption
  <1>5. u = Detect(t) /\ u \in KnownTypes \cup {"empty", "unknown"}
    BY <1>4, UsedIs
  <1>6. SkipFor(t, u) = {}
    BY <1>4, NotSkipped
  <1>7. u # "cve" /\ u # "sha256"
    <2>1. t \notin ToSet(CveOrder)
      BY <1>3, FormsDiffer
    <2>2. t.rest \notin Hashes
      BY <1>3, TextFields DEF IsRow
    <2> QED BY <1>5, <2>1, <2>2 DEF Detect
  <1>8. CASE u = "ip"
    <2>1. t.host \in Ips
      BY <1>8, LookedUpIs
    <2>2. AtOrBeneath(t.host, h) /\ h # t.host
      BY <1>2 DEF AtOrBeneath, IsStrictPrefix
    <2>3. PICK type \in SnapshotTypes \cup {"cve"} : HasForm(type, Host(h))
      BY DEF Speaks
    <2>4. Host(h).host = h /\ ~Host(h).scheme
      BY TextFields
    <2>5. type # "url"
      BY <2>3, <2>4 DEF HasForm
    <2>6. type # "domain"
      BY <2>1, <2>2, <2>3, <2>4 DEF HasForm
    <2>7. type # "ip"
      BY <2>1, <2>2, <2>3, <2>4, FormsAssumption DEF HasForm
    <2>8. type # "sha256"
      BY <1>2, <2>3, <2>4, TextFields DEF HasForm
    <2>9. type # "cve"
      BY <1>2, <2>3, <2>4, FormsDiffer DEF HasForm
    <2> QED BY <2>5, <2>6, <2>7, <2>8, <2>9 DEF SnapshotTypes
  <1>9. CASE u \in {"domain", "url"}
    <2>1. LookedUp(r) = Host(t.host)
      <3>1. CASE u = "url"
        BY <3>1, LookedUpIs
      <3>2. CASE u # "url"
        <4>1. t # Name(t.rest)
          BY <1>3, TextFields
        <4> QED BY <1>4, <3>2, <4>1, LookedUpIs DEF IsRow, Miscalled
      <3> QED BY <3>1, <3>2
    <2> QED BY <1>1, <1>9, <2>1, NoMatchIs, NothingRelated
               DEF HeldBack, Speaks
  <1> QED BY <1>5, <1>6, <1>7, <1>8, <1>9 DEF KnownTypes, SkipFor

(* The host that a row is looked up by.                                    *)
LEMMA ByHostIs ==
    ASSUME NEW r, IsRow(r), Skips(r) = {}, r.text.host # <<>>
    PROVE  LookedUp(r) = IF Miscalled(r) THEN r.text ELSE Host(r.text.host)
  <1>1. CASE Used(r) = "url"
    BY <1>1, LookedUpIs
  <1>2. CASE Used(r) # "url" /\ Miscalled(r)
    BY <1>2, LookedUpIs
  <1>3. CASE Used(r) # "url" /\ ~Miscalled(r)
    BY <1>3, TextFields, LookedUpIs DEF IsRow
  <1> QED BY <1>1, <1>2, <1>3

(* A row that is skipped.                                                  *)
LEMMA SkippedFollows ==
    ASSUME NEW content, NEW days, Speaks(content, days),
           NEW r, IsRow(r), NEW a, Skips(r) # {}, a.status = "skipped"
    PROVE  FollowsTheOrder(r, a, days, DOMAIN content.values,
                           DOMAIN content.excluded)
  <1> DEFINE t == r.text
  <1>1. ASSUME t \in DOMAIN content.values, t.host \notin NonPublic
        PROVE  r.type # None \/ IsInternal(t.host)
    <2>1. PICK type \in SnapshotTypes \cup {"cve"} :
              HasForm(type, t) /\ (type = "url" => t.host # <<>>)
      BY <1>1 DEF Speaks
    <2> QED BY <1>1, <2>1, InFormIsAnswered
  <1> QED BY <1>1 DEF FollowsTheOrder

(* A row of which something is said.                                       *)
LEMMA HitFollows ==
    ASSUME NEW content, NEW days, Speaks(content, days),
           NEW r, IsRow(r), NEW a, Skips(r) = {},
           NEW m \in Match(content, r.text, Used(r)),
           Outranks(content, r, m.method) = {},
           a.status = "hit", a.match = m
    PROVE  FollowsTheOrder(r, a, days, DOMAIN content.values,
                           DOMAIN content.excluded)
  <1> DEFINE t == r.text
             key == a.match.key
             V == DOMAIN content.values
             X == DOMAIN content.excluded
             byHost == IF Miscalled(r) THEN t ELSE Host(t.host)
  <1>1. t.host \notin NonPublic
    BY PrivateIsSkipped
  <1>2. key \in V
    BY MatchIs
  <1>3. t \in V => m.method = "exact"
    BY MatchIs
  <1>4. CASE m.method = "exact" /\ m.key \in Alike(r, V)
    BY <1>1, <1>2, <1>4 DEF FollowsTheOrder
  <1>5. CASE /\ m.method = "same_host" /\ Used(r) = "url"
             /\ m.key = LookedUp(r) /\ ~HeldBack(content, m.key)
    <2>1. Alike(r, X) = {}
      BY <1>5, OutranksIs
    <2>2. SomeoneBlocks(days, key)
      BY <1>2, <1>5 DEF HeldBack, Speaks
    <2>3. key = byHost
      BY <1>5, LookedUpIs, ByHostIs
    <2> QED BY <1>1, <1>2, <1>3, <1>5, <2>1, <2>2, <2>3 DEF FollowsTheOrder
  <1>6. CASE /\ Used(r) \in {"domain", "url"}
             /\ m \in Relation(content, LookedUp(r))
    <2>1. LookedUp(r).host = t.host /\ t.host \in Seq(STRING)
      <3>1. t.host \in Seq(STRING)
        BY DEF IsRow, AnyText
      <3> QED BY <3>1, LookedUpIs, TextFields
    <2>2. /\ ~HeldBack(content, m.key) /\ t.host # <<>>
          /\ m.method \in {"parent_domain", "child_domain"}
          /\ m.method = "parent_domain" => m.key.host \in Between(t.host)
          /\ m.method = "child_domain" => t.host \in Between(m.key.host)
      BY <1>6, <2>1, RelationIs
    <2>3. Alike(r, X) = {} /\ LookedUp(r) \notin X
      BY <2>2, OutranksIs
    <2>4. byHost \notin X
      BY <2>2, <2>3, ByHostIs
    <2>5. SomeoneBlocks(days, key)
      BY <1>2, <2>2 DEF HeldBack, Speaks
    <2> QED BY <1>1, <1>2, <1>3, <2>2, <2>3, <2>4, <2>5 DEF FollowsTheOrder
  <1> QED BY <1>4, <1>5, <1>6, MatchIs

(* A row that is ruled out.                                                *)
LEMMA ExcludedFollows ==
    ASSUME NEW content, NEW days, Speaks(content, days),
           NEW r, IsRow(r), NEW a, Skips(r) = {},
           NEW method, method # "exact",
           Outranks(content, r, method) # {},
           r.text \notin DOMAIN content.values, a.status = "excluded"
    PROVE  FollowsTheOrder(r, a, days, DOMAIN content.values,
                           DOMAIN content.excluded)
  <1> DEFINE t == r.text
             X == DOMAIN content.excluded
             byHost == IF Miscalled(r) THEN t ELSE Host(t.host)
  <1>1. LookedUp(r) \in X => Alike(r, X) # {} \/ byHost \in X
    <2>1. CASE Used(r) = "url"
      BY <2>1, LookedUpIs
    <2>2. CASE Used(r) # "url"
      BY <2>2, LookedUpIs DEF Alike
    <2> QED BY <2>1, <2>2
  <1> QED BY <1>1, PrivateIsSkipped, OutranksIs DEF FollowsTheOrder

(* A row of which nothing is said.                                         *)
LEMMA MissFollows ==
    ASSUME NEW content, NEW days, Speaks(content, days),
           NEW r, IsRow(r), NEW a, Skips(r) = {},
           Match(content, r.text, Used(r)) = {},
           Outranks(content, r, None) = {}, a.status = "miss"
    PROVE  FollowsTheOrder(r, a, days, DOMAIN content.values,
                           DOMAIN content.excluded)
  <1> DEFINE t == r.text
             V == DOMAIN content.values
             X == DOMAIN content.excluded
  <1>1. Alike(r, X) = {}
    BY AbsenceAssumption, OutranksIs DEF Methods
  <1>2. t \notin V
    <2>1. CASE Used(r) = "url"
      BY <2>1, LookedUpIs, NoMatchIs
    <2> QED BY <2>1, NoMatchIs
  <1>3. Alike(r, V) = {}
    <2> SUFFICES ASSUME NEW x \in Alike(r, V) PROVE FALSE
      OBVIOUS
    <2> QED BY <1>2, WholeScheme, LookedUpIs, NoMatchIs
               DEF IsRow, Speaks, Alike
  <1>4. ASSUME r.type = None, NEW h \in Between(t.host), Host(h) \in V
        PROVE  ~AllBlock(days, Host(h))
    BY <1>4, AncestorsAreHeldBack
  <1> QED BY <1>1, <1>2, <1>3, <1>4, PrivateIsSkipped
             DEF FollowsTheOrder, Alike

(* Any answer.                                                             *)
LEMMA AnswerFollows ==
    ASSUME NEW content, NEW days, Speaks(content, days),
           NEW r, IsRow(r), NEW a \in Evaluate(content, r)
    PROVE  FollowsTheOrder(r, a, days, DOMAIN content.values,
                           DOMAIN content.excluded)
  <1> DEFINE found == Match(content, r.text, Used(r))
  <1>1. CASE Skips(r) # {} /\ a.status = "skipped"
    BY <1>1, SkippedFollows
  <1>2. ASSUME Skips(r) = {}, NEW m \in found,
               Outranks(content, r, m.method) = {},
               a.status = "hit", a.match = m
        PROVE  FollowsTheOrder(r, a, days, DOMAIN content.values,
                               DOMAIN content.excluded)
    BY <1>2, HitFollows
  <1>3. ASSUME Skips(r) = {}, NEW m \in found,
               Outranks(content, r, m.method) # {}, a.status = "excluded"
        PROVE  FollowsTheOrder(r, a, days, DOMAIN content.values,
                               DOMAIN content.excluded)
    BY <1>3, MatchIs, ExcludedFollows DEF Outranks, ExcludedBy
  <1>4. CASE Skips(r) = {} /\ found = {} /\ Outranks(content, r, None) # {}
             /\ a.status = "excluded"
    <2>1. r.text \notin DOMAIN content.values
      <3>1. CASE Used(r) = "url"
        BY <1>4, <3>1, LookedUpIs, NoMatchIs
      <3> QED BY <1>4, <3>1, NoMatchIs
    <2> QED BY <1>4, <2>1, AbsenceAssumption, ExcludedFollows DEF Methods
  <1>5. CASE Skips(r) = {} /\ found = {} /\ Outranks(content, r, None) = {}
             /\ a.status = "miss"
    BY <1>5, MissFollows
  <1> QED BY <1>1, <1>2, <1>3, <1>4, <1>5, AnswerIs

(* What is ruled out is a text.                                            *)
LEMMA RuledOutInForm ==
    ASSUME NEW arc, \A d \in Dates(arc) : WellMade(arc[d]),
           NEW text \in DOMAIN ExcludedOf(arc)
    PROVE  text \in AnyText
  <1>1. PICK f \in Archived(arc) : f.e.text = text
    BY DEF Texts, ExcludedOf
  <1>2. PICK d \in Dates(arc) : f \in Findings(arc[d])
    BY <1>1 DEF Archived
  <1>3. PICK m \in ToSet(arc[d].articles) : f.e \in ToSet(m.evidence)
    BY <1>2 DEF Findings
  <1>4. PICK a : MadeOf(m, a)
    BY <1>3, WellMadeIs, ManifestIs
  <1>5. PICK q \in Seq(AnyFinding) : q = m.evidence
    BY <1>4 DEF MadeOf
  <1>6. PICK j \in DOMAIN q : f.e = q[j]
    BY <1>3, <1>5 DEF ToSet
  <1>7. PICK e \in AnyFinding : e = f.e
    BY <1>6
  <1> QED BY <1>1, <1>7 DEF AnyFinding

(* A bundle that agrees with its checksum speaks of its days as their      *)
(* reports do now.                                                         *)
LEMMA BundleSpeaks ==
    ASSUME Held, bundle # None, Intact(bundle)
    PROVE  LET content == bundle.content
           IN  /\ Speaks(content, content.days)
               /\ Stated(content.days) = DOMAIN content.values
               /\ RuledOut(content.days) = DOMAIN content.excluded
  <1>1. PICK arc : /\ bundle.content = Packed(arc, ExcludedOf(arc)).content
                   /\ AsItWas(arc, archive, today)
    BY IntactIs
  <1>2. PICK c : c = bundle.content
    OBVIOUS
  <1>3. /\ c.days = Dates(arc) /\ c.values = ValuesOf(arc)
        /\ c.excluded = ExcludedOf(arc)
    BY <1>1, <1>2 DEF Packed
  <1>4. \A d \in Dates(arc) : WellMade(arc[d])
    BY <1>1 DEF AsItWas
  <1>5. ASSUME NEW t \in DOMAIN ValuesOf(arc)
        PROVE  /\ t \in AnyText /\ t # None
               /\ \E type \in SnapshotTypes \cup {"cve"} :
                     HasForm(type, t) /\ (type = "url" => t.host # <<>>)
               /\ ValuesOf(arc)[t].citations # {}
               /\ ValuesOf(arc)[t].benign = None
                  => SomeoneBlocks(Dates(arc), t)
               /\ ValuesOf(arc)[t].benign # None => ~AllBlock(Dates(arc), t)
    BY <1>1, <1>4, StatedInForm, StandsOnBoard
  <1>6. ASSUME NEW t \in DOMAIN ExcludedOf(arc)
        PROVE  t \in AnyText /\ ExcludedOf(arc)[t] # {}
    BY <1>4, RuledOutInForm, ExclusionIs
  <1>7. Speaks(c, Dates(arc))
    BY <1>3, <1>5, <1>6 DEF Speaks
  <1> QED BY <1>1, <1>2, <1>3, <1>7, FindingsStay

(* Whatever was archived, analysed again, packed or lost on the way since: *)
(* each answer is in the order the validator's README gives, and agrees    *)
(* with what the reports of the bundle's days state, rule out and decided  *)
(* (build_snapshot, Corpus.match and .exclusion, skip_reason).             *)
THEOREM AnswersAreInOrder == Spec => []AnswersFollowTheOrder
  <1>1. BInv => AnswersFollowTheOrder
    <2> SUFFICES ASSUME Held, bundle # None,
                        NEW r \in Sample, NEW a \in Validate[r]
                 PROVE  FollowsTheOrder(r, a, bundle.content.days,
                                        Stated(bundle.content.days),
                                        RuledOut(bundle.content.days))
      BY DEF BInv, AnswersFollowTheOrder
    <2>1. PICK c : c = bundle.content
      OBVIOUS
    <2> QED BY <2>1, SampleAssumption, BundleSpeaks, AnswerFollows DEF Validate
  <1> QED BY <1>1, BundleIsPacked, PTL

(* Distinct keys are the keys.                                             *)
LEMMA DistinctIs ==
    ASSUME NEW T, NEW keys \in Seq(T)
    PROVE  Distinct(keys) \in Seq(T) /\ ToSet(Distinct(keys)) = ToSet(keys)
  <1> DEFINE P == {n \in DOMAIN keys : \A m \in 1 .. n - 1 : keys[m] # keys[n]}
  <1>1. PICK l \in Nat : l = Len(keys) /\ DOMAIN keys = 1 .. l
    OBVIOUS
  <1>2. P \in SUBSET DOMAIN keys
    OBVIOUS
  <1>3. \A n \in DOMAIN keys :
            (\A m \in 1 .. n - 1 : keys[m] # keys[n]) => n \in P
    OBVIOUS
  <1>4. Distinct(keys) = At(keys, P)
    BY DEF Distinct
  <1> HIDE DEF P
  <1>5. At(keys, P) \in Seq(T) /\ ToSet(At(keys, P)) = {keys[k] : k \in P}
    BY <1>2, AtIs
  <1>6. ASSUME NEW n \in DOMAIN keys PROVE \E m \in P : keys[m] = keys[n]
    <2> DEFINE S == {k \in DOMAIN keys : keys[k] = keys[n]}
    <2>1. S \in SUBSET Nat /\ S # {}
      BY <1>1
    <2>2. \A k \in DOMAIN keys : k \in S <=> keys[k] = keys[n]
      OBVIOUS
    <2> HIDE DEF S
    <2>3. PICK m \in S : \A y \in S : m <= y
      BY <2>1, LeastOf
    <2>4. m \in Nat /\ m \in DOMAIN keys /\ keys[m] = keys[n]
      <3>1. S \subseteq DOMAIN keys
        BY DEF S
      <3> QED BY <2>1, <2>2, <3>1
    <2>5. ASSUME NEW k \in 1 .. m - 1 PROVE keys[k] # keys[m]
      <3>1. k \in DOMAIN keys /\ k < m
        BY <1>1, <2>4
      <3> QED BY <2>2, <2>3, <2>4, <3>1
    <2> QED BY <1>3, <2>4, <2>5
  <1> QED BY <1>2, <1>4, <1>5, <1>6, ZenonT(30) DEF ToSet

(* A quotient is rounded down.                                             *)
LEMMA DivIs ==
    ASSUME NEW a \in Nat, NEW b \in Nat \ {0}
    PROVE  \E q \in Nat : q = a \div b /\ b * q <= a /\ a < b * q + b
  OBVIOUS

(* One that fits is no greater.                                            *)
LEMMA FitsIs ==
    ASSUME NEW a \in Nat, NEW b \in Nat \ {0}, NEW n \in Nat, b * n <= a
    PROVE  n <= a \div b
  <1>1. PICK q \in Nat : q = a \div b /\ b * q <= a /\ a < b * q + b
    BY DivIs
  <1>2. CASE n > q
    <2>1. PICK k \in Nat : n = q + 1 + k
      BY <1>2
    <2> QED BY <1>1, <2>1
  <1> QED BY <1>1, <1>2

(* Every key is in a chunk.                                                *)
LEMMA ChunksIs ==
    ASSUME NEW T, NEW keys \in Seq(T)
    PROVE  /\ \E n \in Nat : DOMAIN Chunks(keys) = 1 .. n
           /\ \A k \in ToSet(keys) : \E n \in DOMAIN Chunks(keys) :
                k \in ToSet(Chunks(keys)[n])
  <1>1. PICK l \in Nat : l = Len(keys) /\ DOMAIN keys = 1 .. l
    OBVIOUS
  <1>2. PICK c \in Nat \ {0} : c = ChunkSize
    BY CallsAssumption
  <1>3. l + c - 1 \in Nat
    OBVIOUS
  <1>4. PICK t \in Nat : t = (l + c - 1) \div c
    BY <1>3, DivIs
  <1>5. Chunks(keys) = [n \in 1 .. t |-> SubSeq(keys, (n - 1) * c + 1,
                                                Min({n * c, l}))]
    BY <1>1, <1>2, <1>4 DEF Chunks
  <1>6. ASSUME NEW i \in 1 .. l
        PROVE  \E n \in 1 .. t : keys[i] \in ToSet(Chunks(keys)[n])
    <2>1. i - 1 \in Nat /\ i \in Nat /\ i <= l
      OBVIOUS
    <2>2. PICK q \in Nat : q = (i - 1) \div c /\ c * q <= i - 1 /\ i - 1 < c * q + c
      BY <2>1, DivIs
    <2>3. PICK z \in Nat : z = c * q
      OBVIOUS
    <2>4. c * (q + 1) = z + c /\ (q + 1) * c = z + c /\ ((q + 1) - 1) * c = z
      BY <2>3
    <2>5. q + 1 <= t
      <3>1. c * (q + 1) <= l + c - 1
        BY <2>1, <2>2, <2>3, <2>4
      <3> QED BY <1>3, <1>4, <3>1, FitsIs
    <2>6. q + 1 \in 1 .. t
      BY <2>5
    <2> DEFINE M == {z + c, l}
    <2>7. M \in SUBSET Int /\ IsFiniteSet(M) /\ M # {}
      <3>1. M \in SUBSET (0 .. z + c + l) /\ M \in SUBSET Int /\ M # {}
        OBVIOUS
      <3>2. IsFiniteSet(0 .. z + c + l)
        BY FS_Interval
      <3> HIDE DEF M
      <3> QED BY <3>1, <3>2, FS_Subset
    <2>8. Min(M) \in M /\ \A y \in M : Min(M) <= y
      <3> HIDE DEF M
      <3> QED BY <2>7, MaxMin
    <2>9. PICK h \in Nat : h = Min(M)
      BY <2>8
    <2>10. i <= h /\ h <= l /\ z + 1 <= i
      <3>1. h \in {z + c, l}
        BY <2>8, <2>9
      <3>2. h <= l
        BY <2>8, <2>9
      <3> QED BY <2>1, <2>2, <2>3, <3>1, <3>2
    <2>11. keys[i] \in ToSet(SubSeq(keys, z + 1, h))
      <3> DEFINE s == SubSeq(keys, z + 1, h)
      <3>1. /\ s \in Seq(T) /\ Len(s) = h - (z + 1) + 1
            /\ \A j \in 1 .. h - (z + 1) + 1 : s[j] = keys[(z + 1) + j - 1]
        BY <1>1, <2>10, SubSeqProperties
      <3>2. i - z \in 1 .. h - (z + 1) + 1 /\ (z + 1) + (i - z) - 1 = i
        BY <2>10
      <3>3. i - z \in DOMAIN s
        BY <3>1, <3>2
      <3> QED BY <3>1, <3>2, <3>3 DEF ToSet
    <2> QED BY <1>5, <2>4, <2>6, <2>9, <2>11
  <1>7. DOMAIN Chunks(keys) = 1 .. t
    BY <1>5
  <1> QED BY <1>1, <1>6, <1>7 DEF ToSet

PlanUsed(r) == IF r.type \in SampleOnlyTypes THEN r.type ELSE Used(r)

PlanSkip(r) ==
    IF r.type \in SampleOnlyTypes
    THEN IF r.text = Name("") THEN {"empty_value"} ELSE {}
    ELSE SkipCodes(r.text, Supplied(r), Detect(r.text))

PlanKey(r) == IF PlanUsed(r) = "url" THEN UrlHost(r.text) ELSE r.text

PlanLabels(r) ==
    IF PlanUsed(r) \in {"domain", "url"} THEN Split(PlanKey(r)) ELSE <<>>

PlanWholes(r) ==
    IF PlanUsed(r) = "url" THEN <<Whole(r.text), Slashed(Whole(r.text))>>
    ELSE <<>>

ParentsOf(labels) ==
    IF labels = <<>> THEN <<>>
    ELSE [i \in DOMAIN Parents(labels) |-> Host(Parents(labels)[i])]

RegistrantOf(labels) ==
    IF labels = <<>> THEN <<>> ELSE <<Host(Registrable(labels))>>

(* The parts of a plan.                                                    *)
LEMMA PlanIs ==
    ASSUME NEW r
    PROVE  Plan(r) = IF PlanSkip(r) # {} THEN [skip |-> PlanSkip(r)]
                     ELSE [skip |-> {}, used |-> PlanUsed(r),
                           key |-> PlanKey(r), wholes |-> PlanWholes(r),
                           parents |-> ParentsOf(PlanLabels(r)),
                           registrable |-> RegistrantOf(PlanLabels(r))]
  BY DEF Plan, PlanSkip, PlanUsed, PlanKey, PlanWholes, PlanLabels,
             ParentsOf, RegistrantOf, Used, Supplied

(* The labels of a plan are some.                                          *)
LEMMA LabelsAre ==
    ASSUME NEW r, IsRow(r)
    PROVE  \E T : PlanLabels(r) \in Seq(T)
  <1>1. r.text.host \in Seq(STRING)
    BY DEF AnyText, IsRow
  <1>2. Split(r.text) \in Seq(STRING)
    <2>1. Split(r.text) \in {r.text.host, <<>>} /\ <<>> \in Seq(STRING)
      BY DEF Split
    <2> QED BY <1>1, <2>1
  <1>3. \E T : Split(UrlHost(r.text)) \in Seq(T)
    <2>1. CASE r.text.scheme
      BY <1>1, <2>1, TextFields DEF UrlHost, Split
    <2>2. CASE ~r.text.scheme
      <3> DEFINE x == "cut " \o Last(r.text.host)
                 T == STRING \cup {x}
                 h == Append(Front(r.text.host), x)
      <3>1. Split(UrlHost(r.text)) = h
        BY <2>2, TextFields DEF UrlHost, Split
      <3> HIDE DEF x
      <3>2. Front(r.text.host) \in Seq(T)
        <4>1. PICK n \in Nat : n = Len(r.text.host)
          BY <1>1
        <4>2. \A i \in 1 .. n - 1 : r.text.host[i] \in T
          BY <1>1, <4>1
        <4>3. SubSeq(r.text.host, 1, n - 1) \in Seq(T)
          <5> HIDE DEF T
          <5> QED BY <4>2, SubSeqProperties
        <4> QED BY <4>1, <4>3 DEF Front
      <3> QED BY <3>1, <3>2, AppendProperties
    <2> QED BY <2>1, <2>2
  <1> QED BY <1>2, <1>3 DEF PlanLabels, PlanKey

(* So are its parents.                                                     *)
LEMMA ParentsOfAre ==
    ASSUME NEW T, NEW labels \in Seq(T)
    PROVE  \E n \in Nat : DOMAIN ParentsOf(labels) = 1 .. n
                          /\ ParentsOf(labels) = [i \in 1 .. n |-> ParentsOf(labels)[i]]
  <1>1. CASE labels = <<>>
    BY <1>1 DEF ParentsOf
  <1>2. CASE labels # <<>>
    <2>1. PICK k \in Nat : k = Len(labels)
      OBVIOUS
    <2>2. PICK c \in Nat : c = SuffixLength(labels)
      BY SuffixOf
    <2>3. DOMAIN Parents(labels) = 1 .. k - 1 - c
      <3>1. DOMAIN Parents(labels) = 1 .. Len(labels) - 1 - SuffixLength(labels)
        BY DEF Parents
      <3> QED BY <2>1, <2>2, <3>1
    <2>4. \E n \in Nat : 1 .. k - 1 - c = 1 .. n
      <3>1. CASE k - 1 - c >= 0
        <4>1. k - 1 - c \in Nat
          BY <3>1
        <4> QED BY <4>1
      <3>2. CASE ~(k - 1 - c >= 0)
        BY <3>2
      <3> QED BY <3>1, <3>2
    <2> QED BY <1>2, <2>3, <2>4 DEF ParentsOf
  <1> QED BY <1>1, <1>2

(* The statements of a call come in seven groups (GROUP of lookup.ts).      *)
LEMMA GroupIs ==
    /\ ToSet(Group) = {"indicators", "children", "excluded", "cve",
                       "samples", "hashes", "feeds"}
    /\ DOMAIN Group = 1 .. 7
  BY DEF Group, ToSet

(* What a plan that is looked up needs.                                    *)
LEMMA NeedsOf ==
    ASSUME NEW plan, plan.skip = {}
    PROVE  LET own == Append(plan.wholes, plan.key)
               needs == Needs(plan)
           IN  /\ plan.used \in SampleOnlyTypes =>
                    /\ needs["samples"] = <<plan.key>>
                    /\ \A g \in ToSet(Group) \ {"samples"} : needs[g] = <<>>
               /\ plan.used \notin SampleOnlyTypes =>
                    /\ needs["indicators"] = own \o plan.parents
                    /\ needs["children"] = plan.registrable
                    /\ needs["excluded"] = own
                    /\ needs["cve"] = IF plan.used = "cve" THEN <<plan.key>>
                                      ELSE <<>>
                    /\ needs["samples"] = own
                    /\ needs["hashes"] = IF plan.used = "sha256"
                                         THEN <<plan.key>> ELSE <<>>
                    /\ needs["feeds"] = IF plan.used \in KnownTypes \ {"cve"}
                                        THEN own \o plan.registrable ELSE <<>>
  <1> DEFINE own == Append(plan.wholes, plan.key)
  <1> HIDE DEF own
  <1>1. CASE plan.used \in SampleOnlyTypes
    BY <1>1, GroupIs DEF Needs
  <1>2. CASE plan.used \notin SampleOnlyTypes
    <2>1. PICK needs : needs = Needs(plan)
      OBVIOUS
    <2> QED BY <1>2, <2>1 DEF own, Needs
  <1> QED BY <1>1, <1>2

(* A plan's lists of keys.                                                 *)
LEMMA KeysAre ==
    ASSUME NEW r, IsRow(r), PlanSkip(r) = {}
    PROVE  LET plan == Plan(r)
           IN  \E T : /\ plan.wholes \in Seq(T) /\ plan.key \in T
                      /\ plan.parents \in Seq(T)
                      /\ plan.registrable \in Seq(T)
  <1>1. PICK L : PlanLabels(r) \in Seq(L)
    BY LabelsAre
  <1>2. PICK p : p = ParentsOf(PlanLabels(r))
    OBVIOUS
  <1>3. PICK n \in Nat : DOMAIN p = 1 .. n /\ p = [i \in 1 .. n |-> p[i]]
    BY <1>1, <1>2, ParentsOfAre
  <1> DEFINE x == Host(Registrable(PlanLabels(r)))
             w == Whole(r.text)
             T == {p[i] : i \in 1 .. n} \cup {x, w, Slashed(w), PlanKey(r)}
  <1>4. p \in Seq(T)
    BY <1>3
  <1>5. PlanWholes(r) \in {<<>>, <<w, Slashed(w)>>}
    BY DEF PlanWholes
  <1>6. RegistrantOf(PlanLabels(r)) \in {<<>>, <<x>>}
    BY DEF RegistrantOf
  <1>7. x \in T /\ w \in T /\ Slashed(w) \in T /\ PlanKey(r) \in T
    OBVIOUS
  <1> HIDE DEF T, x, w
  <1>8. <<>> \in Seq(T) /\ <<x>> \in Seq(T) /\ <<w, Slashed(w)>> \in Seq(T)
    BY <1>7
  <1>9. PlanWholes(r) \in Seq(T) /\ RegistrantOf(PlanLabels(r)) \in Seq(T)
    BY <1>5, <1>6, <1>8
  <1> QED BY <1>2, <1>4, <1>7, <1>9, PlanIs

(* What a concatenation holds is what its two parts hold.                   *)
LEMMA JoinedSets ==
    ASSUME NEW T, NEW s \in Seq(T), NEW t \in Seq(T)
    PROVE  s \o t \in Seq(T) /\ ToSet(s \o t) = ToSet(s) \cup ToSet(t)
  <1>1. PICK n \in Nat : n = Len(s) /\ DOMAIN s = 1 .. n
    OBVIOUS
  <1>2. PICK k \in Nat : k = Len(t) /\ DOMAIN t = 1 .. k
    OBVIOUS
  <1>3. PICK j : j = s \o t
    OBVIOUS
  <1>4. /\ j \in Seq(T) /\ DOMAIN j = 1 .. n + k
        /\ \A i \in 1 .. n + k : j[i] = IF i <= n THEN s[i] ELSE t[i - n]
    BY <1>1, <1>2, <1>3, ConcatProperties
  <1>5. \A i \in 1 .. k : n + i \in 1 .. n + k /\ j[n + i] = t[i]
    <2> TAKE i \in 1 .. k
    <2> QED BY <1>4
  <1>6. /\ ToSet(s) = {s[i] : i \in 1 .. n} /\ ToSet(t) = {t[i] : i \in 1 .. k}
        /\ ToSet(j) = {j[i] : i \in 1 .. n + k}
    BY <1>1, <1>2, <1>4 DEF ToSet
  <1>7. ToSet(j) \subseteq ToSet(s) \cup ToSet(t)
    BY <1>4, <1>6, SMTT(20)
  <1>8. ToSet(s) \subseteq ToSet(j)
    BY <1>4, <1>6
  <1>9. ToSet(t) \subseteq ToSet(j)
    BY <1>5, <1>6
  <1> QED BY <1>3, <1>4, <1>7, <1>8, <1>9

(* What a sequence holds after a value is appended.                         *)
LEMMA AppendedSet ==
    ASSUME NEW T, NEW s \in Seq(T), NEW x \in T
    PROVE  Append(s, x) \in Seq(T) /\ ToSet(Append(s, x)) = ToSet(s) \cup {x}
  <1>1. Append(s, x) = s \o <<x>>
    BY AppendIsConcat
  <1>2. <<x>> \in Seq(T) /\ ToSet(<<x>>) = {x}
    <2>1. DOMAIN <<x>> = {1} /\ <<x>>[1] = x
      OBVIOUS
    <2>2. ToSet(<<x>>) = {x}
      BY <2>1 DEF ToSet
    <2> QED BY <2>2
  <1>3. PICK y : y = <<x>>
    OBVIOUS
  <1>4. s \o y \in Seq(T) /\ ToSet(s \o y) = ToSet(s) \cup ToSet(y)
    BY <1>2, <1>3, JoinedSets, ZenonT(30)
  <1> QED BY <1>1, <1>2, <1>3, <1>4, Zenon

(* They are lists.                                                         *)
LEMMA NeedsAre ==
    ASSUME NEW r, IsRow(r), NEW g \in ToSet(Group)
    PROVE  \E T : Needs(Plan(r))[g] \in Seq(T)
  <1>1. CASE PlanSkip(r) # {}
    <2>1. Plan(r).skip # {}
      BY <1>1, PlanIs
    <2> QED BY <2>1 DEF Needs
  <1>2. CASE PlanSkip(r) = {}
    <2>1. PICK plan : plan = Plan(r)
      OBVIOUS
    <2>2. plan.skip = {}
      BY <1>2, <2>1, PlanIs
    <2>3. PICK T : /\ plan.wholes \in Seq(T) /\ plan.key \in T
                   /\ plan.parents \in Seq(T) /\ plan.registrable \in Seq(T)
      BY <1>2, <2>1, KeysAre
    <2>4. PICK own : own = Append(plan.wholes, plan.key)
      OBVIOUS
    <2>5. /\ own \in Seq(T) /\ own \o plan.parents \in Seq(T)
          /\ own \o plan.registrable \in Seq(T)
          /\ <<>> \in Seq(T) /\ <<plan.key>> \in Seq(T)
      BY <2>3, <2>4, AppendedSet, JoinedSets
    <2>6. Needs(plan)[g] \in {own, own \o plan.parents, plan.registrable,
                              own \o plan.registrable, <<>>, <<plan.key>>}
      <3>1. CASE plan.used \in SampleOnlyTypes
        BY <2>2, <3>1, NeedsOf
      <3>2. CASE plan.used \notin SampleOnlyTypes
        BY <2>2, <2>4, <3>2, NeedsOf, GroupIs
      <3> QED BY <3>1, <3>2
    <2> QED BY <2>1, <2>3, <2>5, <2>6
  <1> QED BY <1>1, <1>2

(* Every row of a call has a plan of its own, or the refusal of a call with *)
(* too many values.                                                         *)
LEMMA PlansAre ==
    ASSUME NEW c \in Calls
    PROVE  /\ \E n \in Nat : DOMAIN c.rows = 1 .. n /\ DOMAIN Plans(c.rows) = 1 .. n
           /\ \A i \in DOMAIN c.rows :
                /\ IsRow(c.rows[i])
                /\ \/ Plans(c.rows)[i] = [skip |-> {"request_limit"}]
                   \/ Plans(c.rows)[i] = Plan(c.rows[i])
  <1>1. c.rows \in Seq(ToSet(c.rows)) /\ \A r \in ToSet(c.rows) : IsRow(r)
    BY CallsAssumption
  <1>2. PICK rows : rows = c.rows
    OBVIOUS
  <1>3. PICK n \in Nat : DOMAIN rows = 1 .. n
    BY <1>1, <1>2, LenProperties
  <1> QED BY <1>1, <1>2, <1>3 DEF Plans, ToSet

(* A value that is skipped needs no key of any group.                       *)
LEMMA NothingNeeded ==
    ASSUME NEW plan, plan.skip # {}, NEW g \in ToSet(Group)
    PROVE  Needs(plan)[g] = <<>>
  BY DEF Needs

(* All that the values of a call need is asked for.                        *)
LEMMA GroupKeysAre ==
    ASSUME NEW c \in Calls, NEW g \in ToSet(Group)
    PROVE  LET plans == Plans(c.rows)
           IN  /\ \E T : GroupKeys(plans, g) \in Seq(T)
               /\ \A i \in DOMAIN plans :
                    ToSet(Needs(plans[i])[g]) \subseteq ToSet(GroupKeys(plans, g))
  <1>1. PICK rows, plans : rows = c.rows /\ plans = Plans(c.rows)
    OBVIOUS
  <1>2. PICK n \in Nat : DOMAIN rows = 1 .. n /\ DOMAIN plans = 1 .. n
    BY <1>1, PlansAre
  <1>3. PICK p : p = [i \in DOMAIN plans |-> Needs(plans[i])[g]]
    OBVIOUS
  <1>4. ASSUME NEW i \in 1 .. n PROVE \E T : p[i] \in Seq(T)
    <2>1. p[i] = Needs(plans[i])[g]
      BY <1>2, <1>3
    <2>2. CASE plans[i] = [skip |-> {"request_limit"}]
      <3>1. p[i] = <<>>
        BY <2>1, <2>2, NothingNeeded
      <3> QED BY <3>1
    <2>3. CASE plans[i] = Plan(rows[i])
      <3>1. IsRow(rows[i])
        BY <1>1, <1>2, PlansAre
      <3> QED BY <2>1, <2>3, <3>1, NeedsAre
    <2> QED BY <1>1, <1>2, <2>2, <2>3, PlansAre
  <1> DEFINE U == UNION {ToSet(p[i]) : i \in 1 .. n}
  <1>5. p \in [1 .. n -> Seq(U)]
    <2>1. ASSUME NEW i \in 1 .. n PROVE p[i] \in Seq(U)
      <3>1. PICK T : p[i] \in Seq(T)
        BY <1>4
      <3>2. PICK l \in Nat : DOMAIN p[i] = 1 .. l /\ p[i] = [j \in 1 .. l |-> p[i][j]]
        BY <3>1
      <3>3. ToSet(p[i]) \subseteq U
        OBVIOUS
      <3> HIDE DEF U
      <3> QED BY <3>2, <3>3 DEF ToSet
    <2> HIDE DEF U
    <2> QED BY <1>2, <1>3, <2>1
  <1> HIDE DEF U
  <1>6. ToSet(FlattenSeq(p)) = UNION {ToSet(p[i]) : i \in 1 .. n}
    BY <1>5, FlatMembers
  <1>7. /\ GroupKeys(plans, g) \in Seq(U)
        /\ ToSet(GroupKeys(plans, g)) = UNION {ToSet(p[i]) : i \in 1 .. n}
    BY <1>3, <1>5, <1>6, FlattenIs, DistinctIs DEF GroupKeys
  <1> QED BY <1>1, <1>2, <1>3, <1>7

ChunksFor(plans, g) == Chunks(GroupKeys(plans, g))

(* By a statement of their group.                                          *)
LEMMA StatementsAre ==
    ASSUME NEW c \in Calls, NEW g \in ToSet(Group), NEW plans,
           plans = Plans(c.rows), NEW k \in ToSet(GroupKeys(plans, g))
    PROVE  \E n \in DOMAIN Statements(plans) :
                /\ Statements(plans)[n].group = g
                /\ k \in Statements(plans)[n].keys
  <1> DEFINE q == [j \in DOMAIN Group |-> GroupStatements(plans, Group[j])]
  <1>1. \A x : GroupStatements(plans, x) =
                 [n \in DOMAIN ChunksFor(plans, x) |->
                     [group |-> x, keys |-> ToSet(ChunksFor(plans, x)[n])]]
    BY DEF GroupStatements, ChunksFor
  <1>2. ASSUME NEW x \in ToSet(Group)
        PROVE  \E n \in Nat : DOMAIN ChunksFor(plans, x) = 1 .. n
    <2>1. PICK T : GroupKeys(plans, x) \in Seq(T)
      BY GroupKeysAre
    <2> QED BY <2>1, ChunksIs DEF ChunksFor
  <1>3. \A j \in 1 .. 7 : q[j] = GroupStatements(plans, Group[j])
    BY GroupIs
  <1>4. DOMAIN q = 1 .. 7 /\ q = [j \in 1 .. 7 |-> q[j]]
    BY GroupIs
  <1>5. Statements(plans) = FlattenSeq(q)
    BY DEF Statements
  <1> HIDE DEF q
  <1> DEFINE U == UNION {ToSet(q[j]) : j \in 1 .. 7}
  <1>6. q \in [1 .. 7 -> Seq(U)]
    <2>1. ASSUME NEW j \in 1 .. 7 PROVE q[j] \in Seq(U)
      <3>1. PICK l \in Nat : DOMAIN ChunksFor(plans, Group[j]) = 1 .. l
        BY <1>2, GroupIs DEF ToSet
      <3>2. PICK s : s = q[j]
        OBVIOUS
      <3>3. DOMAIN s = 1 .. l /\ s = [i \in 1 .. l |-> s[i]]
        <4>1. s = GroupStatements(plans, Group[j])
          BY <1>3, <3>2
        <4> QED BY <1>1, <3>1, <4>1
      <3>4. ToSet(s) \subseteq U
        BY <3>2
      <3> HIDE DEF U
      <3> QED BY <3>2, <3>3, <3>4 DEF ToSet
    <2> HIDE DEF U
    <2> QED BY <2>1, <1>4
  <1> HIDE DEF U
  <1>7. ToSet(FlattenSeq(q)) = UNION {ToSet(q[j]) : j \in 1 .. 7}
    BY <1>6, FlatMembers
  <1>8. PICK n \in DOMAIN ChunksFor(plans, g) : k \in ToSet(ChunksFor(plans, g)[n])
    <2>1. PICK T : GroupKeys(plans, g) \in Seq(T)
      BY GroupKeysAre
    <2> QED BY <2>1, ChunksIs DEF ChunksFor
  <1>9. PICK j \in 1 .. 7 : Group[j] = g
    BY GroupIs DEF ToSet
  <1>10. q[j][n] = [group |-> g, keys |-> ToSet(ChunksFor(plans, g)[n])] /\ n \in DOMAIN q[j]
    <2>1. q[j] = [m \in DOMAIN ChunksFor(plans, g) |->
                    [group |-> g, keys |-> ToSet(ChunksFor(plans, g)[m])]]
      BY <1>1, <1>3, <1>9
    <2> QED BY <1>8, <2>1
  <1>11. PICK i \in DOMAIN Statements(plans) : Statements(plans)[i] = q[j][n]
    BY <1>5, <1>7, <1>10 DEF ToSet
  <1> QED BY <1>8, <1>10, <1>11

(* A value that lost no statement of a group got the rows of all it needs. *)
LEMMA NothingMissing ==
    ASSUME NEW c \in Calls, NEW course \in CallCourses[c],
           NEW i \in DOMAIN Plans(c.rows), NEW g \in ToSet(Group),
           course.lost[i][g] = {}
    PROVE  ToSet(Needs(Plans(c.rows)[i])[g]) \subseteq course.keys[g]
  <1>1. PICK plans : plans = Plans(c.rows)
    OBVIOUS
  <1>2. PICK statements : statements = Statements(plans)
    OBVIOUS
  <1>3. PICK fate \in Fates(Len(statements)) :
            course = [keys |-> [h \in ToSet(Group) |->
                                   Answered(statements, fate, h)],
                      lost |-> [j \in DOMAIN plans |-> [h \in ToSet(Group) |->
                                   LostOf(plans[j], h, statements, fate)]]]
    BY <1>1, <1>2 DEF Courses, CallCourses, CallPlans
  <1> DEFINE need == ToSet(Needs(plans[i])[g])
  <1>4. ASSUME NEW k \in need PROVE k \in Answered(statements, fate, g)
    <2>1. k \in ToSet(GroupKeys(plans, g))
      BY <1>1, GroupKeysAre
    <2>2. PICK n \in DOMAIN statements :
              statements[n].group = g /\ k \in statements[n].keys
      BY <1>1, <1>2, <2>1, StatementsAre
    <2>3. Loss(fate, n) = {}
      BY <1>1, <1>3, <2>2 DEF LostOf
    <2> QED BY <2>2, <2>3 DEF Answered
  <1> QED BY <1>1, <1>3, <1>4

(* The days a call asks about.                                             *)
Since(s) == [d \in Day |-> IF d >= s THEN archive[d] ELSE None]

(* The days from a date on are well made days of the archive, and the       *)
(* bundle of that date holds their values and exclusions and the newest     *)
(* intelligence.                                                            *)
LEMMA SinceIs ==
    ASSUME IInv, NEW s
    PROVE  /\ Dates(Since(s)) = {d \in Dates(archive) : d >= s}
           /\ \A d \in Dates(Since(s)) : /\ Since(s)[d] = archive[d]
                                         /\ d \in Dates(archive)
                                         /\ WellMade(archive[d])
                                         /\ WellMade(Since(s)[d])
           /\ BundleSince(s).values = ValuesOf(Since(s))
           /\ BundleSince(s).excluded = ExcludedOf(Since(s))
           /\ BundleSince(s).intel = NewestIntel(archive)
  BY
     DEF BundleSince, Since, Dates, BuildSnapshot, ValuesOf,
         ExcludedOf, IInv

(* What is found as one type has the form of no other.                     *)
LEMMA OneType ==
    ASSUME NEW t \in AnyText, NEW x \in KnownTypes, NEW y \in KnownTypes,
           HasForm(x, t), HasForm(y, t)
    PROVE  x = y
  <1>1. /\ Host(t.host).rest = "" /\ ~Host(t.host).scheme
        /\ Name(t.rest).host = <<>> /\ ~Name(t.rest).scheme
        /\ Len(<<>>) = 0
    BY TextFields
  <1>2. AtOrBeneath(t.host, t.host)
    BY BeneathItself DEF AnyText
  <1> DEFINE is(type) == \/ type = "url" /\ t.scheme
                         \/ /\ type = "domain" /\ ~t.scheme
                            /\ t.host # <<>> /\ t.host \notin Ips
                         \/ /\ type = "ip" /\ ~t.scheme
                            /\ t.host # <<>> /\ t.host \in Ips
                         \/ /\ type = "sha256" /\ ~t.scheme /\ t.host = <<>>
                            /\ t.rest \in Hashes
                         \/ /\ type = "cve" /\ ~t.scheme /\ t.host = <<>>
                            /\ t.rest \notin Hashes
  <1>3. ASSUME NEW type \in KnownTypes, HasForm(type, t) PROVE is(type)
    <2>1. CASE type = "url"
      BY <1>3, <2>1 DEF HasForm
    <2>2. CASE type = "domain"
      <3>1. /\ t = Host(t.host) /\ Len(t.host) > 1
            /\ \A i \in Ips : ~AtOrBeneath(i, t.host)
        BY <1>3, <2>2 DEF HasForm
      <3>2. PICK h : h = t.host
        OBVIOUS
      <3>3. ~t.scheme
        BY <1>1, <3>1, <3>2
      <3>4. h \notin Ips
        BY <1>2, <3>1, <3>2, Zenon
      <3> QED BY <2>2, <3>1, <3>2, <3>3, <3>4
    <2>3. CASE type = "ip"
      BY <1>1, <1>3, <2>3, FormsAssumption DEF HasForm
    <2>4. CASE type = "sha256"
      BY <1>1, <1>3, <2>4 DEF HasForm
    <2>5. CASE type = "cve"
      BY <1>3, <2>5, FormsDiffer, FormsAssumption DEF HasForm
    <2> QED BY <2>1, <2>2, <2>3, <2>4, <2>5 DEF KnownTypes
  <1>4. is(x) /\ is(y)
    BY <1>3
  <1>5. CASE ~t.scheme
    BY <1>4, <1>5
  <1> QED BY <1>4, <1>5

NewsRow(d, f) ==
    LET a == ActionOn(archive[d], f.e.type, f.e.text)
    IN  [day |-> d, type |-> f.e.type, text |-> f.e.text,
         registrable |-> IF f.e.type = "domain"
                         THEN Host(Registrable(f.e.text.host)) ELSE None,
         source |-> f.source, url |-> f.url,
         action |-> IF a = None THEN None ELSE a.action,
         benign |-> IF a = None THEN None ELSE a.benign]

On(d, t) == {f \in Findings(archive[d]) : Travels(f) /\ f.e.text = t}

(* The rows of a text, of the days since one.                              *)
RowsOf(s, t) ==
    UNION {{NewsRow(d, f) : f \in On(d, t)} : d \in Dates(Since(s))}

DaysOn(s, t) == {d \in Dates(Since(s)) : On(d, t) # {}}

(* A text has days and one type, and is acted on on each of them.          *)
LEMMA TextIs ==
    ASSUME IInv, NEW s, NEW t \in DOMAIN ValuesOf(Since(s))
    PROVE  /\ t \in AnyText
           /\ DaysOn(s, t) \in SUBSET Int /\ IsFiniteSet(DaysOn(s, t))
           /\ DaysOn(s, t) # {}
           /\ \E type \in KnownTypes :
                /\ HasForm(type, t)
                /\ \A d \in DaysOn(s, t) :
                     /\ \A f \in On(d, t) : f.e.type = type
                     /\ ActionOn(archive[d], type, t) # None
                     /\ ActionOn(archive[d], type, t).action # None
  <1>1. PICK g \in Archived(Since(s)) : Travels(g) /\ g.e.text = t
    BY DEF Texts, ValuesOf
  <1>2. PICK x \in Dates(Since(s)) : g \in Findings(Since(s)[x])
    BY <1>1 DEF Archived
  <1>3. g \in On(x, t) /\ x \in DaysOn(s, t)
    BY <1>1, <1>2, SinceIs DEF On, DaysOn
  <1>4. DaysOn(s, t) \in SUBSET Int /\ IsFiniteSet(DaysOn(s, t))
    BY DayAssumption, FS_Subset DEF DaysOn, Dates
  <1>5. ASSUME NEW d \in DaysOn(s, t), NEW f \in On(d, t)
        PROVE  /\ t \in AnyText /\ f.e.type \in KnownTypes
               /\ HasForm(f.e.type, t)
               /\ WellMade(archive[d])
               /\ \E a \in ToSet(archive[d].brief.actions) : a.target = t
    BY SinceIs, TravelsInForm, ActionAbout
       DEF KnownTypes, SnapshotTypes, On, DaysOn
  <1>6. PICK type \in KnownTypes : type = g.e.type /\ HasForm(type, t)
    BY <1>3, <1>5
  <1>7. ASSUME NEW d \in DaysOn(s, t)
        PROVE  /\ \A f \in On(d, t) : f.e.type = type
               /\ ActionOn(archive[d], type, t) # None
               /\ ActionOn(archive[d], type, t).action # None
    <2>1. \A f \in On(d, t) : f.e.type = type
      <3> TAKE f \in On(d, t)
      <3> QED BY <1>5, <1>6, OneType
    <2>2. PICK f : f \in On(d, t)
      BY DEF DaysOn
    <2> QED BY <1>5, <2>1, <2>2, ActionOnIs
  <1> QED BY <1>3, <1>4, <1>5, <1>6, <1>7

(* buildRecords gives what the bundle has of a text.                       *)
LEMMA RecordIs ==
    ASSUME IInv, NEW s, NEW t \in DOMAIN ValuesOf(Since(s))
    PROVE  RecordOf(RowsOf(s, t)) = ValuesOf(Since(s))[t]
  <1>1. PICK arc : arc = Since(s)
    OBVIOUS
  <1>2. PICK days : days = DaysOn(s, t)
    OBVIOUS
  <1>3. /\ days \in SUBSET Int /\ IsFiniteSet(days) /\ days # {}
        /\ Max(days) \in days /\ \A d \in days : d <= Max(days)
        /\ Min(days) \in days /\ \A d \in days : Min(days) <= d
    BY <1>2, TextIs, MaxMin
  <1>4. PICK type \in KnownTypes : \A d \in days :
              /\ \A f \in On(d, t) : f.e.type = type
              /\ ActionOn(archive[d], type, t) # None
              /\ ActionOn(archive[d], type, t).action # None
    BY <1>2, TextIs
  <1> DEFINE act == [d \in days |-> ActionOn(archive[d], type, t)]
             rows == RowsOf(s, t)
             on(d) == {f \in Findings(arc[d]) : Travels(f) /\ f.e.text = t}
             found == UNION {on(d) : d \in days}
  <1>5. \A d \in Dates(arc) : arc[d] = archive[d] /\ on(d) = On(d, t)
    BY <1>1, SinceIs DEF On
  <1>6. days = {d \in Dates(arc) : on(d) # {}}
    BY <1>1, <1>2, <1>5 DEF DaysOn
  <1>7. \A d \in days : on(d) = On(d, t) /\ On(d, t) # {} /\ arc[d] = archive[d]
    BY <1>5, <1>6
  <1>8. Row(arc, t) = [type |-> type, dates |-> days,
                       publishers |-> {f.source : f \in found},
                       citations |-> {<<f.source, f.url>> : f \in found},
                       action |-> act[Max(days)].action,
                       benign |-> act[Max(days)].benign]
    <2> DEFINE decided == {d \in days : \E f \in on(d) :
                              ActionOn(arc[d], f.e.type, t) # None}
               first == (CHOOSE f \in on(Min(days)) : TRUE).e.type
               action == ActionOn(arc[Max(decided)], first, t)
    <2>1. Row(arc, t) =
            [type |-> first, dates |-> days,
             publishers |-> {f.source : f \in found},
             citations |-> {<<f.source, f.url>> : f \in found},
             action |-> IF decided = {} THEN None ELSE action.action,
             benign |-> IF decided = {} THEN None ELSE action.benign]
      BY <1>6 DEF Row
    <2>2. first = type
      BY <1>3, <1>4, <1>7
    <2>3. decided = days
      <3>1. ASSUME NEW d \in days PROVE d \in decided
        <4>1. PICK f \in on(d) : f.e.type = type
          BY <1>4, <1>7
        <4> QED BY <1>4, <1>7, <4>1
      <3> QED BY <3>1
    <2> HIDE DEF first, decided, found
    <2> QED BY <1>3, <1>7, <2>1, <2>2, <2>3
  <1>9. ASSUME NEW d \in days, NEW f \in On(d, t)
         PROVE  LET r == NewsRow(d, f)
                IN  /\ r \in rows /\ r.day = d /\ r.type = type
                    /\ r.source = f.source /\ r.url = f.url
                    /\ r.action = act[d].action /\ r.action # None
                    /\ r.benign = act[d].benign
    <2>1. NewsRow(d, f) \in rows
      BY <1>1, <1>6 DEF RowsOf
    <2> HIDE DEF rows
    <2> QED BY <1>4, <2>1 DEF NewsRow, On
  <1>10. ASSUME NEW r \in rows
         PROVE  \E d \in days : \E f \in On(d, t) : r = NewsRow(d, f)
    <2>1. PICK d \in Dates(arc) : \E f \in On(d, t) : r = NewsRow(d, f)
      BY <1>1 DEF RowsOf
    <2> QED BY <1>5, <1>6, <2>1
  <1> HIDE DEF rows, act
  <1>11. PICK latest \in rows : latest.day = Max(days)
    BY <1>3, <1>7, <1>9
  <1>12. PICK earliest \in rows : earliest.day = Min(days)
    BY <1>3, <1>7, <1>9
  <1>13. {r \in rows : r.action # None} = rows
    BY <1>9, <1>10
  <1>14. \A r \in rows : r.day \in days /\ r.type = type
    BY <1>9, <1>10
  <1> DEFINE first == CHOOSE r \in rows : \A o \in rows : r.day <= o.day
             newest == CHOOSE r \in rows : \A o \in rows : o.day <= r.day
  <1>15. first.type = type
    BY <1>3, <1>12, <1>14
  <1>16. newest \in rows /\ newest.day = Max(days)
    <2>1. newest \in rows /\ \A o \in rows : o.day <= newest.day
      BY <1>3, <1>11, <1>14
    <2>2. newest.day \in days /\ Max(days) <= newest.day
      BY <1>11, <1>14, <2>1
    <2> HIDE DEF newest
    <2>3. newest.day <= Max(days) /\ newest.day \in Int /\ Max(days) \in Int
      BY <1>3, <2>2
    <2> QED BY <2>1, <2>2, <2>3
  <1>17. newest.action = act[Max(days)].action /\ newest.benign = act[Max(days)].benign
    <2> HIDE DEF newest
    <2> QED BY <1>9, <1>10, <1>16
  <1>18. RecordOf(rows) =
            [type |-> first.type, dates |-> {r.day : r \in rows},
             publishers |-> {r.source : r \in rows},
             citations |-> {<<r.source, r.url>> : r \in rows},
             action |-> newest.action, benign |-> newest.benign]
    BY <1>11, <1>13 DEF RecordOf
  <1> HIDE DEF first, newest, on
  <1>19. {r.day : r \in rows} = days
    <2>1. ASSUME NEW d \in days PROVE \E r \in rows : r.day = d
      BY <1>7, <1>9
    <2> QED BY <1>14, <2>1
  <1>20. \A x : x \in found <=> \E d \in days : x \in On(d, t)
    BY <1>7
  <1> HIDE DEF found
  <1>21. {r.source : r \in rows} = {f.source : f \in found}
    <2>1. ASSUME NEW r \in rows PROVE \E f \in found : r.source = f.source
      BY <1>9, <1>10, <1>20
    <2>2. ASSUME NEW f \in found PROVE \E r \in rows : r.source = f.source
      BY <1>9, <1>20
    <2> QED BY <2>1, <2>2
  <1>22. {<<r.source, r.url>> : r \in rows} = {<<f.source, f.url>> : f \in found}
    <2>1. ASSUME NEW r \in rows
          PROVE  \E f \in found : r.source = f.source /\ r.url = f.url
      BY <1>9, <1>10, <1>20
    <2>2. ASSUME NEW f \in found
          PROVE  \E r \in rows : r.source = f.source /\ r.url = f.url
      BY <1>9, <1>20
    <2> QED BY <2>1, <2>2
  <1>23. ValuesOf(Since(s))[t] = Row(arc, t)
    BY <1>1 DEF ValuesOf
  <1> QED BY <1>8, <1>15, <1>17, <1>18, <1>19, <1>21, <1>22, <1>23 DEF rows

Recent(s) == {r \in IndicatorRows : r.day >= s}

(* A row of the database that a query by text finds is a recent row of that *)
(* text, and its text is a value of the days packed.                        *)
LEMMA RecentIs ==
    ASSUME IInv, NEW s, NEW r
    PROVE  /\ r \in Recent(s) /\ r.type \in KnownTypes => r \in RowsOf(s, r.text)
           /\ \A t : r \in RowsOf(s, t) => /\ r \in Recent(s) /\ r.text = t
                                           /\ r.type \in KnownTypes
                                           /\ t \in DOMAIN ValuesOf(Since(s))
  <1>1. \A d, f : LET x == NewsRow(d, f)
                  IN  x.day = d /\ x.type = f.e.type /\ x.text = f.e.text
    BY DEF NewsRow
  <1>2. IndicatorRows =
          UNION {{NewsRow(d, f) :
                    f \in {g \in Findings(archive[d]) : g.e.status = "confirmed"}} :
                 d \in Dates(archive)}
    BY DEF IndicatorRows, NewsRow
  <1>3. ASSUME r \in Recent(s), r.type \in KnownTypes
        PROVE  r \in RowsOf(s, r.text)
    <2>1. PICK d \in Dates(archive) :
             \E f \in Findings(archive[d]) :
                 f.e.status = "confirmed" /\ r = NewsRow(d, f)
      BY <1>2, <1>3 DEF Recent
    <2>2. PICK f \in Findings(archive[d]) :
                 f.e.status = "confirmed" /\ r = NewsRow(d, f)
      BY <2>1
    <2>3. d >= s /\ Travels(f) /\ r.text = f.e.text
      BY <1>1, <1>3, <2>2 DEF Recent, Travels, KnownTypes, SnapshotTypes
    <2> QED BY <2>2, <2>3, SinceIs DEF RowsOf, On
  <1>4. ASSUME NEW t, r \in RowsOf(s, t)
        PROVE  /\ r \in Recent(s) /\ r.text = t /\ r.type \in KnownTypes
               /\ t \in DOMAIN ValuesOf(Since(s))
    <2>1. PICK d \in Dates(Since(s)) : \E f \in On(d, t) : r = NewsRow(d, f)
      BY <1>4 DEF RowsOf
    <2>2. PICK f \in On(d, t) : r = NewsRow(d, f)
      BY <2>1
    <2>3. f \in Findings(archive[d]) /\ Travels(f) /\ f.e.text = t
      BY DEF On
    <2>4. d \in Dates(archive) /\ d >= s /\ Since(s)[d] = archive[d]
      BY SinceIs
    <2>5. r.day = d /\ r.text = t /\ r.type = f.e.type
      BY <1>1, <2>2, <2>3
    <2>6. r.type \in KnownTypes /\ f.e.status = "confirmed"
      BY <2>3, <2>5 DEF Travels, KnownTypes, SnapshotTypes
    <2>7. r \in IndicatorRows
      BY <1>2, <2>2, <2>3, <2>4, <2>6
    <2>8. t \in DOMAIN ValuesOf(Since(s))
      BY <2>3, <2>4 DEF ValuesOf, Texts, Archived
    <2> QED BY <2>4, <2>5, <2>6, <2>7, <2>8 DEF Recent
  <1> QED BY <1>3, <1>4

(* The rows of a text of one type are under one registrable domain.        *)
LEMMA RowIsOf ==
    ASSUME IInv, NEW s, NEW t, NEW r \in RowsOf(s, t)
    PROVE  /\ r.type = ValuesOf(Since(s))[t].type
           /\ HasForm(r.type, t) /\ t \in AnyText
           /\ r.registrable = IF r.type = "domain"
                              THEN Host(Registrable(t.host)) ELSE None
  <1>1. t \in DOMAIN ValuesOf(Since(s))
    BY RecentIs
  <1>2. PICK type \in KnownTypes :
            /\ HasForm(type, t)
            /\ \A d \in DaysOn(s, t) : \A f \in On(d, t) : f.e.type = type
    BY <1>1, TextIs
  <1>3. ASSUME NEW x \in RowsOf(s, t)
        PROVE  /\ x.type = type
               /\ x.registrable = IF x.type = "domain"
                                  THEN Host(Registrable(t.host)) ELSE None
    <2>1. PICK d \in Dates(Since(s)) : \E f \in On(d, t) : x = NewsRow(d, f)
      BY DEF RowsOf
    <2>2. PICK f \in On(d, t) : x = NewsRow(d, f)
      BY <2>1
    <2> QED BY <1>2, <2>2 DEF NewsRow, DaysOn, On
  <1>4. RecordOf(RowsOf(s, t)).type = type
    <2> DEFINE rows == RowsOf(s, t)
               days == DaysOn(s, t)
    <2>1. /\ days \in SUBSET Int /\ Min(days) \in days
          /\ \A d \in days : Min(days) <= d
      BY <1>1, TextIs, MaxMin
    <2>2. PICK f : f \in On(Min(days), t)
      BY <2>1 DEF DaysOn
    <2>3. NewsRow(Min(days), f) \in rows /\ NewsRow(Min(days), f).day = Min(days)
      <3>1. PICK d \in Dates(Since(s)) : d = Min(days)
        BY <2>1 DEF DaysOn
      <3>2. NewsRow(d, f) \in rows
        BY <2>2, <3>1 DEF RowsOf
      <3> HIDE DEF rows, days
      <3> QED BY <3>1, <3>2 DEF NewsRow
    <2>4. \A x \in rows : x.day \in days
      <3> SUFFICES ASSUME NEW x \in rows PROVE x.day \in days
        OBVIOUS
      <3>1. PICK d \in Dates(Since(s)) : \E y \in On(d, t) : x = NewsRow(d, y)
        BY DEF RowsOf
      <3> QED BY <3>1 DEF NewsRow, DaysOn
    <2> DEFINE first == CHOOSE x \in rows : \A o \in rows : x.day <= o.day
    <2>5. first \in rows
      <3> HIDE DEF rows, days
      <3> QED BY <2>1, <2>3, <2>4
    <2> QED BY <1>3, <2>5 DEF RecordOf
  <1>5. r.type = ValuesOf(Since(s))[t].type
    BY <1>1, <1>3, <1>4, RecordIs
  <1> QED BY <1>1, <1>2, <1>3, <1>5, TextIs

ChildRows(s, keys) ==
    {r \in Recent(s) : r.type = "domain" /\ r.registrable \in keys["children"]}

AskedRows(s, keys) ==
    ChildRows(s, keys)
    \cup {r \in Recent(s) : r.type \in KnownTypes /\ r.text \in keys["indicators"]}

OutRows(s, keys) ==
    {r \in ExcludedRows : r.day >= s /\ r.text \in keys["excluded"]}

RecordsOf(s, keys) ==
    [t \in {r.text : r \in AskedRows(s, keys)} |->
        RecordOf({r \in AskedRows(s, keys) : r.text = t})]

UnderOf(s, keys) ==
    [k \in {r.registrable : r \in ChildRows(s, keys)} |->
        {r.text : r \in {o \in ChildRows(s, keys) : o.registrable = k}}]

ExclusionsOf(s, keys) ==
    [t \in {r.text : r \in OutRows(s, keys)} |->
        {r.reason : r \in {o \in OutRows(s, keys) : o.text = t}}]

(* What the statements of a call return, group by group.                    *)
LEMMA ReturnedIs ==
    ASSUME NEW s, NEW keys
    PROVE  LET returned == Returned(Stored, s, keys)
           IN  /\ returned.records = RecordsOf(s, keys)
               /\ returned.under = UnderOf(s, keys)
               /\ returned.exclusions = ExclusionsOf(s, keys)
               /\ returned.intel =
                    [c \in DOMAIN NewestIntel(archive) \cap keys["cve"] |->
                        NewestIntel(archive)[c]]
               /\ returned.artefacts = Artefacts \cap keys["samples"]
               /\ returned.analysed = Analysed \cap keys["hashes"]
               /\ returned.listed = Listed \cap keys["feeds"]
  <1>1. /\ Stored.indicators = IndicatorRows /\ Stored.excluded = ExcludedRows
        /\ Stored.intel = NewestIntel(archive)
    BY DEF Stored
  <1>2. /\ ChildRows(s, keys) =
             {r \in {x \in Stored.indicators : x.day >= s} :
                r.type = "domain" /\ r.registrable \in keys["children"]}
        /\ AskedRows(s, keys) = ChildRows(s, keys) \cup
             {r \in {x \in Stored.indicators : x.day >= s} :
                r.type \in KnownTypes /\ r.text \in keys["indicators"]}
        /\ OutRows(s, keys) =
             {r \in {x \in Stored.excluded : x.day >= s} :
                r.text \in keys["excluded"]}
    BY <1>1 DEF ChildRows, AskedRows, OutRows, Recent
  <1> QED BY <1>1, <1>2 DEF Returned, RecordsOf, UnderOf, ExclusionsOf

(* A text that came back, came back with all its rows.                     *)
LEMMA RowsTogether ==
    ASSUME IInv, NEW s, NEW keys, NEW r \in AskedRows(s, keys)
    PROVE  /\ r.text \in DOMAIN ValuesOf(Since(s))
           /\ {o \in AskedRows(s, keys) : o.text = r.text} = RowsOf(s, r.text)
  <1> DEFINE t == r.text
  <1>1. \A o \in AskedRows(s, keys) : o \in Recent(s) /\ o.type \in KnownTypes
    BY DEF AskedRows, ChildRows, KnownTypes
  <1>2. r \in RowsOf(s, t)
    BY <1>1, RecentIs
  <1>3. ASSUME NEW o \in AskedRows(s, keys), o.text = t PROVE o \in RowsOf(s, t)
    BY <1>1, <1>3, RecentIs
  <1>4. ASSUME NEW o \in RowsOf(s, t) PROVE o \in AskedRows(s, keys) /\ o.text = t
    <2>1. o \in Recent(s) /\ o.text = t /\ o.type \in KnownTypes
      BY RecentIs
    <2>2. CASE t \in keys["indicators"]
      BY <2>1, <2>2 DEF AskedRows
    <2>3. CASE t \notin keys["indicators"]
      BY <1>2, <2>1, <2>3, RowIsOf DEF AskedRows, ChildRows
    <2> QED BY <2>2, <2>3
  <1> QED BY <1>2, <1>3, <1>4, RecentIs

(* The records of a call are the bundle's.                                 *)
LEMMA RecordsAre ==
    ASSUME IInv, NEW s, NEW keys
    PROVE  LET records == RecordsOf(s, keys)
               values == ValuesOf(Since(s))
           IN  /\ \A t \in DOMAIN records :
                    t \in DOMAIN values /\ records[t] = values[t]
               /\ \A t \in DOMAIN values :
                    t \in keys["indicators"] => t \in DOMAIN records
  <1> DEFINE rows == AskedRows(s, keys)
  <1>1. RecordsOf(s, keys) =
            [t \in {r.text : r \in rows} |-> RecordOf({r \in rows : r.text = t})]
    BY DEF RecordsOf
  <1>2. ASSUME NEW r \in rows
        PROVE  /\ r.text \in DOMAIN ValuesOf(Since(s))
               /\ RecordOf({o \in rows : o.text = r.text})
                  = ValuesOf(Since(s))[r.text]
    <2>1. r.text \in DOMAIN ValuesOf(Since(s))
          /\ {o \in rows : o.text = r.text} = RowsOf(s, r.text)
      BY RowsTogether
    <2> QED BY <2>1, RecordIs
  <1>3. ASSUME NEW t \in DOMAIN ValuesOf(Since(s)), t \in keys["indicators"]
        PROVE  \E r \in rows : r.text = t
    <2>1. PICK d : d \in DaysOn(s, t)
      BY TextIs
    <2>2. PICK f : f \in On(d, t)
      BY <2>1 DEF DaysOn
    <2>3. PICK r : r = NewsRow(d, f) /\ r \in RowsOf(s, t)
      BY <2>1, <2>2 DEF RowsOf, DaysOn
    <2>4. r \in Recent(s) /\ r.text = t /\ r.type \in KnownTypes
      BY <2>3, RecentIs
    <2> QED BY <1>3, <2>4 DEF AskedRows
  <1> HIDE DEF rows
  <1> QED BY <1>1, <1>2, <1>3

(* So are the names under a registrable domain.                            *)
LEMMA UnderIs ==
    ASSUME IInv, NEW s, NEW keys
    PROVE  LET under == UnderOf(s, keys)
               values == ValuesOf(Since(s))
           IN  /\ \A k \in DOMAIN under : \A t \in under[k] :
                    /\ t \in DOMAIN RecordsOf(s, keys)
                    /\ values[t].type = "domain" /\ HasForm("domain", t)
                    /\ t \in AnyText /\ k = Host(Registrable(t.host))
               /\ \A t \in DOMAIN values :
                    LET k == Host(Registrable(t.host))
                    IN  values[t].type = "domain" /\ k \in keys["children"]
                        => k \in DOMAIN under /\ t \in under[k]
  <1> DEFINE rows == AskedRows(s, keys)
             children == ChildRows(s, keys)
  <1>1. UnderOf(s, keys) =
            [k \in {r.registrable : r \in children} |->
                {r.text : r \in {o \in children : o.registrable = k}}]
    BY DEF UnderOf
  <1>2. DOMAIN RecordsOf(s, keys) = {r.text : r \in rows}
    BY DEF RecordsOf
  <1>3. ASSUME NEW r \in children
        PROVE  /\ r \in rows /\ ValuesOf(Since(s))[r.text].type = "domain"
               /\ HasForm("domain", r.text) /\ r.text \in AnyText
               /\ r.registrable = Host(Registrable(r.text.host))
    BY RecentIs, RowIsOf DEF KnownTypes, AskedRows, ChildRows
  <1>4. ASSUME NEW t \in DOMAIN ValuesOf(Since(s)),
               ValuesOf(Since(s))[t].type = "domain",
               Host(Registrable(t.host)) \in keys["children"]
        PROVE  \E r \in children :
                  r.text = t /\ r.registrable = Host(Registrable(t.host))
    <2>1. PICK d : d \in DaysOn(s, t)
      BY TextIs
    <2>2. PICK f : f \in On(d, t)
      BY <2>1 DEF DaysOn
    <2>3. PICK r : r = NewsRow(d, f) /\ r \in RowsOf(s, t)
      BY <2>1, <2>2 DEF RowsOf, DaysOn
    <2>4. r \in Recent(s) /\ r.text = t
      BY <2>3, RecentIs
    <2> QED BY <1>4, <2>3, <2>4, RowIsOf DEF ChildRows
  <1> HIDE DEF rows, children
  <1>5. ASSUME NEW k \in DOMAIN UnderOf(s, keys),
               NEW t \in UnderOf(s, keys)[k]
        PROVE  \E r \in children : r.text = t /\ r.registrable = k
    BY <1>1
  <1>6. \A r \in children :
            LET k == r.registrable
            IN  /\ k \in DOMAIN UnderOf(s, keys)
                /\ r.text \in UnderOf(s, keys)[k]
    BY <1>1
  <1> QED BY <1>2, <1>3, <1>4, <1>5, <1>6

(* And the exclusions.                                                     *)
LEMMA ExclusionsAre ==
    ASSUME IInv, NEW s, NEW keys
    PROVE  LET exclusions == ExclusionsOf(s, keys)
               excluded == ExcludedOf(Since(s))
           IN  /\ \A t \in DOMAIN exclusions :
                    /\ t \in DOMAIN excluded /\ excluded[t] # {}
                    /\ exclusions[t] = excluded[t]
               /\ \A t \in DOMAIN excluded :
                    t \in keys["excluded"] => t \in DOMAIN exclusions
  <1> DEFINE arc == Since(s)
             out == OutRows(s, keys)
             all(t) == {g \in Archived(arc) : IsRejected(g) /\ g.e.text = t}
  <1>1. ExclusionsOf(s, keys) =
            [t \in {r.text : r \in out} |->
                {r.reason : r \in {o \in out : o.text = t}}]
    BY DEF ExclusionsOf
  <1>2. ASSUME NEW r
        PROVE  r \in out <=> \E f \in Archived(arc) :
                  /\ IsRejected(f) /\ f.e.text = r.text
                  /\ f.e.text \in keys["excluded"]
                  /\ \E d \in Dates(arc) : f \in Findings(arc[d])
                       /\ r = [day |-> d, text |-> f.e.text, reason |-> f.e.reason]
    <2> DEFINE row(d, f) == [day |-> d, text |-> f.e.text, reason |-> f.e.reason]
    <2>1. r \in out <=> \E d \in Dates(archive) : \E f \in Findings(archive[d]) :
              /\ IsRejected(f) /\ r = row(d, f) /\ d >= s
              /\ f.e.text \in keys["excluded"]
      BY DEF OutRows, ExcludedRows
    <2>2. \A d : d \in Dates(arc) <=> d \in Dates(archive) /\ d >= s
      BY SinceIs
    <2>3. \A d \in Dates(arc) : arc[d] = archive[d]
      BY SinceIs
    <2> HIDE DEF arc, out
    <2> QED BY <2>1, <2>2, <2>3 DEF Archived
  <1>3. \A t : t \in DOMAIN ExcludedOf(arc) <=> all(t) # {}
    BY DEF ExcludedOf, Texts
  <1>4. \A t \in DOMAIN ExcludedOf(arc) :
            /\ ExcludedOf(arc)[t] = {f.e.reason : f \in all(t)}
            /\ ExcludedOf(arc)[t] # {}
    BY ExclusionIs DEF Exclusion
  <1> HIDE DEF arc, out
  <1>5. ASSUME NEW r \in out
        PROVE  \E f \in all(r.text) : f.e.reason = r.reason
    <2>1. PICK f \in Archived(arc) :
                  /\ IsRejected(f) /\ f.e.text = r.text
                  /\ \E d \in Dates(arc) :
                       r = [day |-> d, text |-> f.e.text, reason |-> f.e.reason]
      BY <1>2
    <2> QED BY <2>1
  <1>6. ASSUME NEW t \in keys["excluded"], NEW f \in all(t)
        PROVE  \E r \in out : r.text = t /\ r.reason = f.e.reason
    <2>1. PICK d \in Dates(arc) : f \in Findings(arc[d])
      BY DEF Archived
    <2>2. PICK r : r = [day |-> d, text |-> f.e.text, reason |-> f.e.reason]
      OBVIOUS
    <2> QED BY <1>2, <2>1, <2>2
  <1> HIDE DEF all
  <1>7. ASSUME NEW t, NEW r \in out, r.text = t
        PROVE  {o.reason : o \in {x \in out : x.text = t}}
               = {f.e.reason : f \in all(t)}
    BY <1>2, <1>5, <1>6, <1>7
  <1>8. ASSUME NEW r \in out
         PROVE  /\ r.text \in DOMAIN ExcludedOf(arc)
    BY <1>3, <1>5
  <1>9. ASSUME NEW t \in DOMAIN ExcludedOf(arc), t \in keys["excluded"]
         PROVE  \E r \in out : r.text = t
    BY <1>3, <1>6, <1>9
  <1>10. ASSUME NEW t \in DOMAIN ExclusionsOf(s, keys)
         PROVE  /\ t \in DOMAIN ExcludedOf(arc) /\ ExcludedOf(arc)[t] # {}
                /\ ExclusionsOf(s, keys)[t] = ExcludedOf(arc)[t]
    <2>1. PICK r \in out : r.text = t
      BY <1>1
    <2> QED BY <1>1, <1>4, <1>7, <1>8, <2>1
  <1> QED BY <1>1, <1>9, <1>10 DEF arc

(* What the service looks up, the validator judges.                        *)
LEMMA SkipsAgree ==
    ASSUME NEW r, IsRow(r), ~CutShort(r), r.type \notin SampleOnlyTypes,
           PlanSkip(r) = {}
    PROVE  Skips(r) = {}
  <1> DEFINE text == r.text
             detected == Detect(text)
  <1>1. SkipCodes(text, Supplied(r), detected) = {}
    BY DEF PlanSkip
  <1>2. SkipReasons(text, Supplied(r), detected) = Skips(r)
    BY DEF Skips
  <1>3. Guarded(text) = {}
    BY <1>1 DEF SkipCodes
  <1>4. "unparseable_host" \notin Skips(r)
    <2> SUFFICES ASSUME "unparseable_host" \in Skips(r) PROVE FALSE
      OBVIOUS
    <2>1. PICK t \in {Supplied(r), detected} \ {None} :
              "unparseable_host" \in SkipFor(text, t)
      BY <1>2 DEF SkipReasons
    <2>2. t = "url" /\ Normalize(text, t).host = <<>>
      BY <2>1 DEF SkipFor
    <2>3. CASE text.scheme
      <3>1. text.host = <<>>
        BY <2>2, <2>3, TextFields DEF Normalize
      <3>2. detected \notin {"cve", "sha256"}
        <4>1. text.rest \notin Hashes
          BY <2>3, TextFields DEF IsRow
        <4> QED BY <2>3, <4>1, FormsDiffer DEF Detect
      <3>3. Len(text.host) <= 1
        BY <3>1
      <3> QED BY <1>3, <2>3, <3>2, <3>3, FormsDiffer DEF Guarded
    <2>4. CASE ~text.scheme
      <3>1. r.type = "url"
        BY <2>1, <2>2, <2>4, AbsenceAssumption DEF Supplied, KnownTypes, Detect
      <3> QED BY <2>4, <3>1 DEF CutShort
    <2> QED BY <2>3, <2>4
  <1> QED BY <1>1, <1>2, <1>3, <1>4 DEF SkipCodes

(* And as what.                                                            *)
LEMMA PlanAgrees ==
    ASSUME NEW r, IsRow(r), ~CutShort(r), r.type \notin SampleOnlyTypes,
           PlanSkip(r) = {}
    PROVE  /\ Skips(r) = {}
           /\ PlanUsed(r) = Used(r) /\ Used(r) \in KnownTypes
           /\ Used(r) \notin SampleOnlyTypes
           /\ PlanKey(r) = LookedUp(r)
           /\ Used(r) = "url" => /\ r.text.scheme
                                 /\ LookedUp(r) = Host(r.text.host)
           /\ Used(r) # "url" => LookedUp(r) = r.text
           /\ PlanLabels(r) = IF Used(r) \in {"domain", "url"}
                              THEN Split(LookedUp(r)) ELSE <<>>
  <1>1. Skips(r) = {}
    BY SkipsAgree
  <1>2. PlanUsed(r) = Used(r)
    BY DEF PlanUsed
  <1>3. Used(r) \in KnownTypes
    <2>1. CASE r.type \in KnownTypes
      BY <2>1, UsedIs
    <2>2. CASE r.type \notin KnownTypes
      BY <1>1, <2>2, UsedIs, NotSkipped DEF SkipFor
    <2> QED BY <2>1, <2>2
  <1>4. Used(r) \notin SampleOnlyTypes
    BY <1>3 DEF KnownTypes, SampleOnlyTypes
  <1>5. /\ Used(r) = "url" => r.text.scheme /\ LookedUp(r) = Host(r.text.host)
        /\ Used(r) # "url" => LookedUp(r) = r.text
    BY <1>1, LookedUpIs
  <1>6. PlanKey(r) = LookedUp(r)
    BY <1>2, <1>5 DEF PlanKey, UrlHost
  <1>7. PlanLabels(r) = IF Used(r) \in {"domain", "url"}
                        THEN Split(LookedUp(r)) ELSE <<>>
    BY <1>2, <1>6 DEF PlanLabels
  <1> QED BY <1>1, <1>2, <1>3, <1>4, <1>5, <1>6, <1>7

(* What only samples have is looked up as it stands.                       *)
LEMMA ArtefactPlan ==
    ASSUME NEW r, r.type \in SampleOnlyTypes, PlanSkip(r) = {}
    PROVE  Plan(r) = [skip |-> {}, used |-> r.type, key |-> r.text,
                      wholes |-> <<>>, parents |-> <<>>,
                      registrable |-> <<>>]
  <1>1. ParentsOf(<<>>) = <<>> /\ RegistrantOf(<<>>) = <<>>
    BY DEF ParentsOf, RegistrantOf
  <1> QED BY <1>1, PlanIs
             DEF PlanKey, PlanWholes, PlanLabels, PlanUsed, SampleOnlyTypes

(* A text is its parts.                                                    *)
TextOf(s, h, p) == [scheme |-> s, host |-> h, rest |-> p]

(* A text is what its parts make.                                           *)
LEMMA TextParts ==
    ASSUME NEW t \in AnyText
    PROVE  t = TextOf(t.scheme, t.host, t.rest)
  BY DEF AnyText, TextOf

(* Two texts are equal where their parts are.                               *)
LEMMA TextsDiffer ==
    ASSUME NEW s, NEW h, NEW p, NEW z, NEW g, NEW q
    PROVE  TextOf(s, h, p) = TextOf(z, g, q) <=> s = z /\ h = g /\ p = q
  <1>1. TextOf(s, h, p) = TextOf(z, g, q) => s = z /\ h = g /\ p = q
    <2> SUFFICES ASSUME TextOf(s, h, p) = TextOf(z, g, q)
                 PROVE  s = z /\ h = g /\ p = q
      OBVIOUS
    <2> QED BY DEF TextOf
  <1> QED BY <1>1

(* The two forms of an address: without its last slash, and with one.       *)
LEMMA FormsOf ==
    ASSUME NEW s, NEW h, NEW p
    PROVE  /\ Whole(TextOf(s, h, p)) = TextOf(s, h, IF p = "/" THEN "" ELSE p)
           /\ Slashed(TextOf(s, h, p)) = TextOf(s, h, IF p = "" THEN "/" ELSE p)
  BY DEF Whole, Slashed, TextOf

(* The forms of a URL, with and without a slash at its end.                *)
LEMMA FormsOfUrl ==
    ASSUME NEW x \in AnyText, NEW t \in AnyText
    PROVE  /\ Whole(t) = Whole(x) <=> t \in {Whole(x), Slashed(Whole(x))}
           /\ Whole(x).scheme = x.scheme /\ Slashed(Whole(x)).scheme = x.scheme
           /\ x \in {Whole(x), Slashed(Whole(x))}
  <1>1. PICK s, h, p : x = TextOf(s, h, p) /\ s = x.scheme
    BY TextParts
  <1>2. PICK z, g, q : t = TextOf(z, g, q)
    BY TextParts
  <1>3. PICK a : a = IF p = "/" THEN "" ELSE p
    OBVIOUS
  <1>4. PICK b : b = IF q = "/" THEN "" ELSE q
    OBVIOUS
  <1>5. PICK c : c = IF a = "" THEN "/" ELSE a
    OBVIOUS
  <1>6. Whole(x) = TextOf(s, h, a) /\ Whole(t) = TextOf(z, g, b)
    BY <1>1, <1>2, <1>3, <1>4, FormsOf
  <1>7. Slashed(Whole(x)) = TextOf(s, h, c)
    BY <1>6, <1>5, FormsOf
  <1>8. /\ Whole(t) = Whole(x) <=> z = s /\ g = h /\ b = a
        /\ t = Whole(x) <=> z = s /\ g = h /\ q = a
        /\ t = Slashed(Whole(x)) <=> z = s /\ g = h /\ q = c
        /\ x = Whole(x) <=> p = a
        /\ x = Slashed(Whole(x)) <=> p = c
    BY <1>1, <1>2, <1>6, <1>7, TextsDiffer
  <1>9. "" # "/"
    OBVIOUS
  <1>10. b = a <=> q = a \/ q = c
    BY <1>3, <1>4, <1>5, <1>9
  <1>11. p = a \/ p = c
    BY <1>3, <1>5, <1>9
  <1>12. Whole(x).scheme = x.scheme /\ Slashed(Whole(x)).scheme = x.scheme
    BY <1>1, <1>6, <1>7 DEF TextOf
  <1> QED BY <1>8, <1>10, <1>11, <1>12

(* The nearest key among some texts is the first of the keys there.        *)
LEMMA NearestIs ==
    ASSUME NEW keys, NEW n \in Nat, DOMAIN keys = 1 .. n, NEW texts
    PROVE  /\ Nearest(keys, texts) = {}
              <=> \A k \in 1 .. n : keys[k] \notin texts
           /\ Nearest(keys, texts) # {} =>
                \E k \in 1 .. n :
                    /\ Nearest(keys, texts) = {keys[k]}
                    /\ keys[k] \in texts
                    /\ \A j \in 1 .. n : keys[j] \in texts => k <= j
  <1> DEFINE there == {k \in 1 .. n : keys[k] \in texts}
             first == {k \in DOMAIN keys :
                         keys[k] \in texts /\ \A j \in 1 .. k - 1 : keys[j] \notin texts}
  <1>1. Nearest(keys, texts) = {keys[k] : k \in first}
    BY DEF Nearest
  <1>2. CASE there = {}
    BY <1>1, <1>2
  <1>3. CASE there # {}
    <2>1. there \in SUBSET Nat
      OBVIOUS
    <2>2. PICK k \in there : \A j \in there : k <= j
      <3> HIDE DEF there
      <3> QED BY <1>3, <2>1, LeastOf
    <2>3. k \in 1 .. n /\ keys[k] \in texts
      OBVIOUS
    <2>4. \A j \in 1 .. n : keys[j] \in texts => k <= j
      BY <2>2
    <2>5. k \in first
      BY <2>3, <2>4
    <2>6. \A j \in first : j = k
      <3> SUFFICES ASSUME NEW j \in first PROVE j = k
        OBVIOUS
      <3> QED BY <2>3, <2>4
    <2>7. Nearest(keys, texts) = {keys[k]}
      <3> HIDE DEF first
      <3> QED BY <1>1, <2>5, <2>6
    <2> QED BY <2>3, <2>4, <2>7
  <1> QED BY <1>2, <1>3

(* Of a URL, the whole forms are tried first.                              *)
LEMMA NearestWhole ==
    ASSUME NEW x \in AnyText, x.scheme, NEW texts
    PROVE  LET keys == <<Whole(x), Slashed(Whole(x))>>
               alike == {t \in texts \cap AnyText : t.scheme /\ Whole(t) = Whole(x)}
           IN  /\ Nearest(keys, texts) \subseteq texts
               /\ texts \subseteq AnyText =>
                    /\ Nearest(keys, texts) = {} <=> alike = {}
                    /\ Nearest(keys, texts) \subseteq alike
               /\ Nearest(keys, texts) # {} =>
                    \E t \in texts : Nearest(keys, texts) = {t}
  <1> DEFINE keys == <<Whole(x), Slashed(Whole(x))>>
             alike == {t \in texts \cap AnyText : t.scheme /\ Whole(t) = Whole(x)}
             near == Nearest(keys, texts)
  <1>1. DOMAIN keys = 1 .. 2 /\ keys[1] = Whole(x) /\ keys[2] = Slashed(Whole(x))
    OBVIOUS
  <1>2. /\ near = {} <=> \A k \in 1 .. 2 : keys[k] \notin texts
        /\ near # {} => \E k \in 1 .. 2 : near = {keys[k]} /\ keys[k] \in texts
    <2> HIDE DEF keys
    <2> QED BY <1>1, NearestIs
  <1>3. near = {} <=> keys[1] \notin texts /\ keys[2] \notin texts
    <2> HIDE DEF keys, near
    <2> QED BY <1>2
  <1>4. near # {} => \E t \in texts : near = {t} /\ t \in {keys[1], keys[2]}
    <2> HIDE DEF keys, near
    <2> QED BY <1>2
  <1>5. ASSUME texts \subseteq AnyText
        PROVE  /\ alike = {t \in texts : t \in {keys[1], keys[2]}}
               /\ near = {} <=> alike = {}
               /\ near \subseteq alike
    <2>1. alike = {t \in texts : t \in {keys[1], keys[2]}}
      <3> HIDE DEF keys, near
      <3> QED BY <1>1, <1>5, FormsOfUrl
    <2> HIDE DEF keys, near, alike
    <2> QED BY <1>3, <1>4, <2>1
  <1>6. near \subseteq texts
    <2> HIDE DEF keys, near, alike
    <2> QED BY <1>4
  <1> QED BY <1>4, <1>5, <1>6

(* A row the reports are asked about.                                      *)
Consulted(r) == /\ IsRow(r) /\ ~CutShort(r)
                /\ r.type \notin SampleOnlyTypes /\ PlanSkip(r) = {}

(* The reports were asked for all that the row needs of them.              *)
Covered(r, keys) ==
    \A g \in NewsGroups : ToSet(Needs(Plan(r))[g]) \subseteq keys[g]

(* What the keys asked for must hold so that a value is answered.           *)
LEMMA CoveredIs ==
    ASSUME NEW r, Consulted(r), NEW keys, Covered(r, keys)
    PROVE  LET plan == Plan(r)
           IN  /\ ToSet(plan.wholes) \cup {plan.key} \cup ToSet(plan.parents)
                  \subseteq keys["indicators"]
               /\ ToSet(plan.registrable) \subseteq keys["children"]
               /\ ToSet(plan.wholes) \cup {plan.key} \subseteq keys["excluded"]
               /\ plan.used = "cve" => plan.key \in keys["cve"]
  <1>1. PICK plan : plan = Plan(r)
    OBVIOUS
  <1>2. PICK T : /\ plan.wholes \in Seq(T) /\ plan.key \in T
                 /\ plan.parents \in Seq(T) /\ plan.registrable \in Seq(T)
    BY <1>1, KeysAre DEF Consulted
  <1>3. PICK own : own = Append(plan.wholes, plan.key)
    OBVIOUS
  <1>4. own \in Seq(T) /\ ToSet(own) = ToSet(plan.wholes) \cup {plan.key}
    BY <1>2, <1>3, AppendedSet
  <1>5. ToSet(own \o plan.parents) = ToSet(own) \cup ToSet(plan.parents)
    BY <1>2, <1>4, JoinedSets
  <1>6. /\ Needs(plan)["indicators"] = own \o plan.parents
        /\ Needs(plan)["children"] = plan.registrable
        /\ Needs(plan)["excluded"] = own
        /\ Needs(plan)["cve"] = IF plan.used = "cve" THEN <<plan.key>> ELSE <<>>
    BY <1>1, <1>3, PlanIs, PlanAgrees, NeedsOf DEF Consulted
  <1>7. /\ ToSet(Needs(plan)["indicators"]) \subseteq keys["indicators"]
        /\ ToSet(Needs(plan)["children"]) \subseteq keys["children"]
        /\ ToSet(Needs(plan)["excluded"]) \subseteq keys["excluded"]
        /\ ToSet(Needs(plan)["cve"]) \subseteq keys["cve"]
    BY <1>1 DEF Covered, NewsGroups
  <1>8. plan.used = "cve" => plan.key \in keys["cve"]
    BY <1>6, <1>7 DEF ToSet
  <1> QED BY <1>1, <1>4, <1>5, <1>6, <1>7, <1>8

(* A text of a bundle has the form of the type it has there.               *)
LEMMA ValueType ==
    ASSUME IInv, NEW s, NEW t \in DOMAIN ValuesOf(Since(s))
    PROVE  HasForm(ValuesOf(Since(s))[t].type, t) /\ t \in AnyText /\ t # None
  <1>1. PICK d \in Dates(Since(s)) : On(d, t) # {}
    BY TextIs DEF DaysOn
  <1>2. PICK f : f \in On(d, t)
    BY <1>1
  <1>3. t # None
    BY SinceIs, StatedInForm
  <1> QED BY <1>2, <1>3, RowIsOf DEF RowsOf

(* What the bundle of the days since one is made of.                       *)
LEMMA ContentIs ==
    ASSUME IInv, NEW s
    PROVE  LET content == BundleSince(s)
           IN  /\ DOMAIN content.values \subseteq AnyText \ {None}
               /\ DOMAIN content.excluded \subseteq AnyText
               /\ \A t \in DOMAIN content.excluded : content.excluded[t] # {}
               /\ \A t \in DOMAIN content.values :
                    /\ HasForm(content.values[t].type, t)
                    /\ content.values[t].citations # {}
  <1>1. PICK content : content = BundleSince(s)
    OBVIOUS
  <1>2. /\ content.values = ValuesOf(Since(s))
        /\ content.excluded = ExcludedOf(Since(s))
    BY <1>1, SinceIs
  <1>3. \A d \in Dates(Since(s)) : WellMade(Since(s)[d])
    BY SinceIs
  <1>4. ASSUME NEW t \in DOMAIN content.values
        PROVE  /\ t \in AnyText \ {None} /\ HasForm(content.values[t].type, t)
               /\ content.values[t].citations # {}
    <2>1. t \in DOMAIN ValuesOf(Since(s))
      BY <1>2
    <2>2. Row(Since(s), t).citations # {}
      BY <1>3, <2>1, RowIs
    <2> QED BY <1>2, <2>1, <2>2, ValueType DEF ValuesOf
  <1>5. ASSUME NEW t \in DOMAIN content.excluded
        PROVE  t \in AnyText /\ content.excluded[t] # {}
    BY <1>2, <1>3, RuledOutInForm, ExclusionIs
  <1> QED BY <1>1, <1>4, <1>5

(* What is known of the records is what the bundle has of them.            *)
LEMMA KnownIs ==
    ASSUME IInv, NEW s, NEW keys, NEW returned,
           returned = Returned(Stored, s, keys), NEW content,
           content = BundleSince(s)
    PROVE  /\ \A t \in DOMAIN returned.records :
                /\ t \in DOMAIN content.values
                /\ returned.records[t] = content.values[t]
           /\ \A t \in DOMAIN content.values :
                t \in keys["indicators"] => t \in DOMAIN returned.records
  <1>1. returned.records = RecordsOf(s, keys)
    BY ReturnedIs
  <1> QED BY <1>1, SinceIs, RecordsAre

(* The parts of a match.                                                   *)
WholeKnown(plan, returned) == Nearest(plan.wholes, DOMAIN returned.records)

FreeOf(returned) ==
    {t \in DOMAIN returned.records : returned.records[t].benign = None}

KeyKnown(plan, returned) ==
    /\ plan.key \in DOMAIN returned.records
    /\ plan.used = "url" => plan.key \in FreeOf(returned)

ParentKnown(plan, returned) == Nearest(plan.parents, FreeOf(returned))

UnderKnown(plan, returned) ==
    UNION {returned.under[k] :
              k \in ToSet(plan.registrable) \cap DOMAIN returned.under}

ChildrenKnown(plan, returned) ==
    {t \in UnderKnown(plan, returned) \cap FreeOf(returned) :
        ~plan.key.scheme /\ IsStrictPrefix(plan.key.host, t.host)}

FoundBy(method, keys) == {[method |-> method, key |-> t] : t \in keys}

(* The match of the service, case by case (matchOf).                        *)
LEMMA MatchOfIs ==
    ASSUME NEW plan, NEW returned
    PROVE  MatchOf(plan, returned) =
             IF WholeKnown(plan, returned) # {}
             THEN FoundBy("exact", WholeKnown(plan, returned))
             ELSE IF KeyKnown(plan, returned)
             THEN FoundBy(IF plan.used = "url" THEN "same_host" ELSE "exact",
                          {plan.key})
             ELSE IF ParentKnown(plan, returned) # {}
             THEN FoundBy("parent_domain", ParentKnown(plan, returned))
             ELSE IF ChildrenKnown(plan, returned) # {}
             THEN FoundBy("child_domain", ChildrenKnown(plan, returned))
             ELSE FoundBy(None, {None})
  BY DEF MatchOf, WholeKnown, FreeOf, KeyKnown, ParentKnown, UnderKnown,
         ChildrenKnown, FoundBy

(* What the validator tries before a relation.                             *)
WholeIn(content, r) ==
    {t \in DOMAIN content.values :
        t.scheme /\ Used(r) = "url" /\ Whole(t) = Whole(r.text)}

KeyIn(content, r) ==
    /\ LookedUp(r) \in DOMAIN content.values
    /\ Used(r) = "url" => ~HeldBack(content, LookedUp(r))

(* The match of the validator, case by case (Corpus.match).                 *)
LEMMA MatchFinds ==
    ASSUME NEW content, NEW r
    PROVE  Match(content, r.text, Used(r)) =
             IF WholeIn(content, r) # {} THEN FoundBy("exact", WholeIn(content, r))
             ELSE IF KeyIn(content, r)
             THEN FoundBy(IF Used(r) = "url" THEN "same_host" ELSE "exact",
                          {LookedUp(r)})
             ELSE IF Used(r) \in {"domain", "url"}
             THEN Relation(content, LookedUp(r))
             ELSE {}
  BY DEF Match, WholeIn, KeyIn, FoundBy, LookedUp

(* The plan of a row, part by part.                                        *)
LEMMA PlanParts ==
    ASSUME NEW r, Consulted(r), NEW plan, plan = Plan(r)
    PROVE  /\ plan.skip = {} /\ plan.used = Used(r)
           /\ Used(r) \in KnownTypes /\ Used(r) \notin SampleOnlyTypes
           /\ plan.key = LookedUp(r)
           /\ plan.wholes = IF Used(r) = "url"
                            THEN <<Whole(r.text), Slashed(Whole(r.text))>>
                            ELSE <<>>
           /\ PlanLabels(r) = IF Used(r) \in {"domain", "url"}
                              THEN Split(LookedUp(r)) ELSE <<>>
           /\ plan.parents = ParentsOf(PlanLabels(r))
           /\ plan.registrable = RegistrantOf(PlanLabels(r))
           /\ r.text \in AnyText /\ (Used(r) = "url" => r.text.scheme)
           /\ Skips(r) = {}
  BY PlanAgrees, PlanIs DEF Consulted, PlanWholes, IsRow

(* Nothing is nearest among no keys.                                       *)
LEMMA NearestNone ==
    ASSUME NEW texts
    PROVE  Nearest(<<>>, texts) = {} /\ ToSet(<<>>) = {}
  BY DEF Nearest, ToSet

(* Whole URLs are found alike.                                             *)
LEMMA WholeAgrees ==
    ASSUME IInv, NEW s, NEW r, Consulted(r), NEW keys, Covered(r, keys),
           NEW returned, returned = Returned(Stored, s, keys),
           NEW content, content = BundleSince(s), NEW plan, plan = Plan(r)
    PROVE  /\ WholeKnown(plan, returned) \subseteq WholeIn(content, r)
           /\ WholeKnown(plan, returned) \subseteq DOMAIN returned.records
           /\ WholeKnown(plan, returned) = {} => WholeIn(content, r) = {}
  <1>1. CASE Used(r) # "url"
    BY <1>1, PlanParts, NearestNone DEF WholeKnown, WholeIn
  <1>2. CASE Used(r) = "url"
    <2>1. PICK x \in AnyText : x = r.text /\ x.scheme
      BY <1>2, PlanParts
    <2>2. PICK known : known = DOMAIN returned.records
      OBVIOUS
    <2>3. plan.wholes = <<Whole(x), Slashed(Whole(x))>>
      BY <1>2, <2>1, PlanParts
    <2>4. known \subseteq AnyText /\ known \subseteq DOMAIN content.values
      BY <2>2, KnownIs, ContentIs
    <2>5. /\ WholeKnown(plan, returned) \subseteq known
          /\ WholeKnown(plan, returned) = {}
             <=> {t \in known \cap AnyText : t.scheme /\ Whole(t) = Whole(x)} = {}
          /\ WholeKnown(plan, returned)
             \subseteq {t \in known \cap AnyText : t.scheme /\ Whole(t) = Whole(x)}
      <3>1. WholeKnown(plan, returned)
            = Nearest(<<Whole(x), Slashed(Whole(x))>>, known)
        BY <2>2, <2>3 DEF WholeKnown
      <3> QED BY <2>1, <2>4, <3>1, NearestWhole
    <2>6. \A t \in known : t.scheme /\ Whole(t) = Whole(x) => t \in WholeIn(content, r)
      BY <1>2, <2>1, <2>4 DEF WholeIn
    <2>7. ASSUME NEW t \in WholeIn(content, r)
          PROVE  t \in known \cap AnyText /\ t.scheme /\ Whole(t) = Whole(x)
      <3>1. t \in DOMAIN content.values /\ t.scheme /\ Whole(t) = Whole(x)
        BY <2>1 DEF WholeIn
      <3>2. t \in AnyText
        BY <3>1, ContentIs
      <3>3. t \in keys["indicators"]
        BY <2>3, <3>1, <3>2, FormsOfUrl, CoveredIs DEF ToSet
      <3> QED BY <2>2, <3>1, <3>2, <3>3, KnownIs
    <2> QED BY <2>2, <2>5, <2>6, <2>7
  <1> QED BY <1>1, <1>2

(* A call's view of the bundle, for a row that was asked about.            *)
Sees(s, r, keys, returned, content, plan) ==
    /\ Consulted(r) /\ Covered(r, keys)
    /\ returned = Returned(Stored, s, keys)
    /\ content = BundleSince(s) /\ plan = Plan(r)

(* A record is free of exclusions for the service where it is for the       *)
(* validator.                                                               *)
LEMMA FreeIs ==
    ASSUME IInv, NEW s, NEW r, NEW keys, NEW returned, NEW content, NEW plan,
           Sees(s, r, keys, returned, content, plan)
    PROVE  /\ \A t \in FreeOf(returned) : /\ t \in DOMAIN returned.records
                                          /\ t \in DOMAIN content.values
                                          /\ ~HeldBack(content, t)
           /\ \A t \in DOMAIN content.values :
                t \in keys["indicators"] \/ t \in DOMAIN returned.records
                  => /\ t \in DOMAIN returned.records
                     /\ t \in FreeOf(returned) <=> ~HeldBack(content, t)
  <1>1. /\ \A t \in DOMAIN returned.records :
                /\ t \in DOMAIN content.values
                /\ returned.records[t] = content.values[t]
        /\ \A t \in DOMAIN content.values :
                t \in keys["indicators"] => t \in DOMAIN returned.records
    BY KnownIs DEF Sees
  <1>2. ASSUME NEW t \in DOMAIN returned.records
        PROVE  t \in FreeOf(returned) <=> ~HeldBack(content, t)
    BY <1>1 DEF FreeOf, HeldBack
  <1> QED BY <1>1, <1>2 DEF FreeOf

(* The service knows a key where the bundle does.                           *)
LEMMA KeyAgrees ==
    ASSUME IInv, NEW s, NEW r, NEW keys, NEW returned, NEW content, NEW plan,
           Sees(s, r, keys, returned, content, plan)
    PROVE  /\ KeyKnown(plan, returned) <=> KeyIn(content, r)
           /\ KeyKnown(plan, returned) => plan.key \in DOMAIN returned.records
  <1>1. plan.key = LookedUp(r) /\ plan.used = Used(r)
    BY PlanParts DEF Sees
  <1> QED BY <1>1, CoveredIs, KnownIs, FreeIs DEF KeyKnown, KeyIn, Sees

(* The labels of what is looked up.                                        *)
LEMMA LabelsOf ==
    ASSUME NEW r, Consulted(r)
    PROVE  /\ PlanLabels(r) \in Seq(STRING)
           /\ PlanLabels(r) # <<>> => /\ Used(r) \in {"domain", "url"}
                                      /\ PlanLabels(r) = Split(LookedUp(r))
                                      /\ PlanLabels(r) = LookedUp(r).host
  <1>1. PlanLabels(r) = IF Used(r) \in {"domain", "url"}
                        THEN Split(LookedUp(r)) ELSE <<>>
    BY PlanParts
  <1>2. LookedUp(r) \in {r.text, Host(r.text.host)}
    <2>1. /\ IsRow(r) /\ ~CutShort(r)
          /\ r.type \notin SampleOnlyTypes /\ PlanSkip(r) = {}
      BY DEF Consulted
    <2> QED BY <2>1, PlanAgrees
  <1>3. LookedUp(r).host \in Seq(STRING)
    <2>1. r.text.host \in Seq(STRING)
      BY PlanParts DEF AnyText
    <2> QED BY <1>2, <2>1, TextFields
  <1>4. <<>> \in Seq(STRING)
    OBVIOUS
  <1>5. CASE Used(r) \in {"domain", "url"}
    BY <1>1, <1>3, <1>4, <1>5 DEF Split
  <1>6. CASE Used(r) \notin {"domain", "url"}
    BY <1>1, <1>4, <1>6
  <1> QED BY <1>5, <1>6

(* Parents that are named and not held back.                               *)
ParentsIn(content, labels) ==
    {i \in DOMAIN Parents(labels) :
        Host(Parents(labels)[i]) \in {t \in DOMAIN content.values :
                                         ~HeldBack(content, t)}}

(* The service finds the nearest parent the bundle holds.                   *)
LEMMA ParentAgrees ==
    ASSUME IInv, NEW s, NEW r, NEW keys, NEW returned, NEW content, NEW plan,
           Sees(s, r, keys, returned, content, plan),
           NEW labels \in Seq(STRING), labels = PlanLabels(r), labels # <<>>
    PROVE  /\ ParentKnown(plan, returned) = {} => ParentsIn(content, labels) = {}
           /\ ParentKnown(plan, returned) # {} =>
                /\ ParentsIn(content, labels) # {}
                /\ ParentKnown(plan, returned)
                   = {Host(Parents(labels)[Min(ParentsIn(content, labels))])}
                /\ ParentKnown(plan, returned) \subseteq DOMAIN returned.records
  <1>1. PICK p : p = ParentsOf(labels)
    OBVIOUS
  <1>2. plan.parents = p
    BY <1>1, PlanParts DEF Sees
  <1>3. PICK n \in Nat : DOMAIN p = 1 .. n
    BY <1>1, ParentsOfAre
  <1>4. DOMAIN Parents(labels) = 1 .. n
        /\ \A i \in 1 .. n : p[i] = Host(Parents(labels)[i])
    BY <1>1, <1>3 DEF ParentsOf
  <1>5. \A i \in 1 .. n : p[i] \in keys["indicators"]
    BY <1>2, <1>3, CoveredIs DEF ToSet, Sees
  <1>6. ASSUME NEW i \in 1 .. n
        PROVE  p[i] \in FreeOf(returned) <=> i \in ParentsIn(content, labels)
    BY <1>4, <1>5, FreeIs DEF ParentsIn
  <1>7. /\ ParentKnown(plan, returned) = {}
           <=> \A k \in 1 .. n : p[k] \notin FreeOf(returned)
        /\ ParentKnown(plan, returned) # {} =>
              \E k \in 1 .. n :
                 /\ ParentKnown(plan, returned) = {p[k]}
                 /\ p[k] \in FreeOf(returned)
                 /\ \A j \in 1 .. n : p[j] \in FreeOf(returned) => k <= j
    BY <1>2, <1>3, NearestIs DEF ParentKnown
  <1>8. ParentsIn(content, labels) \subseteq 1 .. n
    BY <1>4 DEF ParentsIn
  <1>9. ASSUME ParentKnown(plan, returned) # {}
        PROVE  /\ ParentsIn(content, labels) # {}
               /\ ParentKnown(plan, returned)
                  = {Host(Parents(labels)[Min(ParentsIn(content, labels))])}
               /\ ParentKnown(plan, returned) \subseteq DOMAIN returned.records
    <2>1. PICK k \in 1 .. n :
                 /\ ParentKnown(plan, returned) = {p[k]}
                 /\ p[k] \in FreeOf(returned)
                 /\ \A j \in 1 .. n : p[j] \in FreeOf(returned) => k <= j
      BY <1>7, <1>9
    <2>2. PICK P : P = ParentsIn(content, labels)
      OBVIOUS
    <2>3. k \in P /\ \A j \in P : k <= j
      BY <1>6, <1>8, <2>1, <2>2
    <2>4. IsFiniteSet(P) /\ P \in SUBSET Int
      <3>1. IsFiniteSet(1 .. n)
        BY FS_Interval
      <3>2. P \in SUBSET (1 .. n)
        BY <1>8, <2>2
      <3>3. IsFiniteSet(P)
        BY <3>1, <3>2, FS_Subset
      <3> QED BY <3>2, <3>3
    <2>5. Min(P) \in P /\ \A j \in P : Min(P) <= j
      <3>1. P \in SUBSET Int /\ IsFiniteSet(P)
        BY <2>4
      <3> QED BY <2>3, <3>1, MaxMin
    <2>6. Min(P) = k
      <3>1. Min(P) \in Int /\ k \in Int
        BY <2>3, <2>4, <2>5
      <3> QED BY <2>3, <2>5, <3>1
    <2>7. p[k] \in DOMAIN returned.records
      BY <2>1, FreeIs
    <2> QED BY <1>4, <2>1, <2>2, <2>3, <2>6, <2>7
  <1> QED BY <1>6, <1>7, <1>8, <1>9

(* What is named beneath a key and not held back.                          *)
ChildrenIn(content, key) ==
    {t \in DOMAIN content.values :
        /\ ~HeldBack(content, t)
        /\ content.values[t].type \in {"domain", "url"}
        /\ ~key.scheme /\ IsStrictPrefix(Split(key), Split(t))
        /\ Registrable(Split(t)) = Registrable(Split(key))}

(* The relations of a domain, case by case (Corpus.relation).               *)
LEMMA RelationFinds ==
    ASSUME NEW content, NEW key
    PROVE  Relation(content, key) =
             IF Split(key) = <<>> THEN {}
             ELSE IF ParentsIn(content, Split(key)) # {}
             THEN FoundBy("parent_domain",
                          {Host(Parents(Split(key))
                                   [Min(ParentsIn(content, Split(key)))])})
             ELSE FoundBy("child_domain", ChildrenIn(content, key))
  <1>1. PICK labels : labels = Split(key)
    OBVIOUS
  <1>2. PICK P : P = ParentsIn(content, labels)
    OBVIOUS
  <1> QED BY <1>1, <1>2 DEF FoundBy, Relation, ParentsIn, ChildrenIn

(* A domain is beneath another in the service when it is in the validator; *)
(* a URL is only there.                                                    *)
LEMMA ChildAgrees ==
    ASSUME IInv, NEW s, NEW r, NEW keys, NEW returned, NEW content, NEW plan,
           Sees(s, r, keys, returned, content, plan), PlanLabels(r) # <<>>
    PROVE  /\ ChildrenKnown(plan, returned)
              \subseteq ChildrenIn(content, LookedUp(r)) \cap DOMAIN returned.records
           /\ \A t \in ChildrenIn(content, LookedUp(r)) :
                t.scheme \/ t \in ChildrenKnown(plan, returned)
  <1>1. PICK labels : labels = PlanLabels(r)
    OBVIOUS
  <1>2. PICK key : key = LookedUp(r)
    OBVIOUS
  <1>3. labels = key.host /\ labels = Split(key) /\ plan.key = key
    BY <1>1, <1>2, LabelsOf, PlanParts DEF Sees
  <1>4. PICK K : K = Host(Registrable(labels))
    OBVIOUS
  <1>5. plan.registrable = <<K>> /\ ToSet(<<K>>) = {K}
    <2>1. plan.registrable = RegistrantOf(labels)
      BY <1>1, PlanParts DEF Sees
    <2>2. ToSet(<<K>>) = {K}
      BY DEF ToSet
    <2> QED BY <1>1, <1>4, <2>1, <2>2 DEF RegistrantOf
  <1>6. K \in keys["children"]
    BY <1>5, CoveredIs DEF Sees
  <1>7. returned.under = UnderOf(s, keys) /\ returned.records = RecordsOf(s, keys)
        /\ content.values = ValuesOf(Since(s))
    BY ReturnedIs, SinceIs, ZenonT(30) DEF Sees
  <1>8. \A h : Host(h).host = h /\ Host(h).rest = "" /\ ~Host(h).scheme
    BY TextFields
  <1>9. \A t : HasForm("domain", t) => t = Host(t.host)
    BY DEF HasForm
  <1>10. \A t : HasForm("domain", t) => Split(t) = t.host /\ ~t.scheme
    BY <1>8, <1>9 DEF Split
  <1>11. ASSUME NEW t \in ChildrenKnown(plan, returned)
         PROVE  t \in ChildrenIn(content, key) /\ t \in DOMAIN returned.records
    <2>1. /\ t \in UnderKnown(plan, returned) /\ t \in FreeOf(returned)
          /\ ~key.scheme /\ IsStrictPrefix(labels, t.host)
      BY <1>3 DEF ChildrenKnown
    <2>2. K \in DOMAIN returned.under /\ t \in returned.under[K]
      BY <1>5, <2>1 DEF UnderKnown
    <2>3. /\ content.values[t].type = "domain" /\ HasForm("domain", t)
          /\ K = Host(Registrable(t.host))
      BY <1>7, <2>2, UnderIs
    <2>4. /\ t \in DOMAIN returned.records /\ t \in DOMAIN content.values
          /\ ~HeldBack(content, t)
      BY <2>1, FreeIs
    <2>5. Registrable(t.host) = Registrable(labels)
      BY <1>4, <1>8, <2>3
    <2>6. Split(t) = t.host
      BY <1>10, <2>3
    <2> QED BY <1>3, <2>1, <2>3, <2>4, <2>5, <2>6 DEF ChildrenIn
  <1>12. ASSUME NEW t \in ChildrenIn(content, key), ~t.scheme
         PROVE  t \in ChildrenKnown(plan, returned)
    <2>1. /\ t \in DOMAIN content.values /\ ~HeldBack(content, t)
          /\ content.values[t].type \in {"domain", "url"}
          /\ ~key.scheme /\ IsStrictPrefix(labels, Split(t))
          /\ Registrable(Split(t)) = Registrable(labels)
      BY <1>3 DEF ChildrenIn
    <2>2. HasForm(content.values[t].type, t)
      BY <2>1, ContentIs DEF Sees
    <2>3. content.values[t].type = "domain" /\ HasForm("domain", t)
      BY <1>12, <2>1, <2>2 DEF HasForm
    <2>4. Split(t) = t.host
      BY <1>10, <2>3
    <2>5. K = Host(Registrable(t.host))
      BY <1>4, <2>1, <2>4
    <2>6. K \in DOMAIN returned.under /\ t \in returned.under[K]
      BY <1>6, <1>7, <2>1, <2>3, <2>5, UnderIs
    <2>7. t \in UnderKnown(plan, returned)
      BY <1>5, <2>6 DEF UnderKnown
    <2>8. t \in DOMAIN returned.records
      BY <1>7, <2>6, UnderIs
    <2>9. t \in FreeOf(returned)
      BY <2>1, <2>8, FreeIs
    <2> QED BY <1>3, <2>1, <2>4, <2>7, <2>9 DEF ChildrenKnown
  <1> QED BY <1>2, <1>11, <1>12

(* The matches that one method makes of a set of keys.                      *)
LEMMA FoundByIs ==
    ASSUME NEW method, NEW keys
    PROVE  /\ \A m \in FoundBy(method, keys) :
                m.method = method /\ m.key \in keys
           /\ \A larger : keys \subseteq larger
                => FoundBy(method, keys) \subseteq FoundBy(method, larger)
           /\ FoundBy(None, {None}) = {Nothing}
  BY DEF FoundBy, Nothing

(* What the validator finds of a row, where it is not found as it stands.  *)
LEMMA MatchAgreesElsewhere ==
    ASSUME IInv, NEW s, NEW r, NEW keys, NEW returned, NEW content, NEW plan,
           Sees(s, r, keys, returned, content, plan),
           WholeKnown(plan, returned) = {}, ~KeyKnown(plan, returned),
           NEW m \in MatchOf(plan, returned)
    PROVE  LET found == Match(content, r.text, Used(r))
           IN  \/ m \in found /\ m.key \in DOMAIN returned.records
               \/ /\ m = Nothing
                  /\ \A o \in found : /\ o.method = "child_domain"
                                       /\ o.key \in DOMAIN content.values
                                       /\ o.key.scheme
  <1>1. PICK found : found = Match(content, r.text, Used(r))
    OBVIOUS
  <1>2. found = IF Used(r) \in {"domain", "url"}
                THEN Relation(content, LookedUp(r)) ELSE {}
    BY <1>1, WholeAgrees, KeyAgrees, MatchFinds DEF Sees
  <1>3. MatchOf(plan, returned) =
             IF ParentKnown(plan, returned) # {}
             THEN FoundBy("parent_domain", ParentKnown(plan, returned))
             ELSE IF ChildrenKnown(plan, returned) # {}
             THEN FoundBy("child_domain", ChildrenKnown(plan, returned))
             ELSE FoundBy(None, {None})
    BY MatchOfIs
  <1>4. CASE PlanLabels(r) = <<>>
    <2>1. plan.parents = <<>> /\ plan.registrable = <<>>
      BY <1>4, PlanParts DEF Sees, ParentsOf, RegistrantOf
    <2>2. m = Nothing
      BY <1>3, <2>1, NearestNone, FoundByIs
         DEF ParentKnown, ChildrenKnown, UnderKnown
    <2>3. found = {}
      <3>1. CASE Used(r) \in {"domain", "url"}
        BY <1>2, <1>4, <3>1, PlanParts, RelationFinds DEF Sees
      <3>2. CASE Used(r) \notin {"domain", "url"}
        BY <1>2, <3>2
      <3> QED BY <3>1, <3>2
    <2> QED BY <1>1, <2>2, <2>3
  <1>5. CASE PlanLabels(r) # <<>>
    <2>1. PICK labels \in Seq(STRING) : labels = PlanLabels(r)
      BY LabelsOf DEF Sees
    <2>2. labels # <<>> /\ labels = Split(LookedUp(r))
          /\ Used(r) \in {"domain", "url"}
      BY <1>5, <2>1, LabelsOf DEF Sees
    <2>3. found = IF ParentsIn(content, labels) # {}
             THEN FoundBy("parent_domain",
                          {Host(Parents(labels)[Min(ParentsIn(content, labels))])})
             ELSE FoundBy("child_domain", ChildrenIn(content, LookedUp(r)))
      BY <1>2, <2>2, RelationFinds
    <2>4. /\ ParentKnown(plan, returned) = {} => ParentsIn(content, labels) = {}
          /\ ParentKnown(plan, returned) # {} =>
                /\ ParentsIn(content, labels) # {}
                /\ ParentKnown(plan, returned)
                   = {Host(Parents(labels)[Min(ParentsIn(content, labels))])}
                /\ ParentKnown(plan, returned) \subseteq DOMAIN returned.records
      BY <2>1, <2>2, ParentAgrees
    <2>5. CASE ParentKnown(plan, returned) # {}
      <3>1. found = FoundBy("parent_domain", ParentKnown(plan, returned))
        BY <2>3, <2>4, <2>5
      <3>2. m \in FoundBy("parent_domain", ParentKnown(plan, returned))
        BY <1>3, <2>5
      <3>3. m.key \in ParentKnown(plan, returned)
        BY <3>2, FoundByIs
      <3> QED BY <1>1, <2>4, <2>5, <3>1, <3>2, <3>3
    <2>6. CASE ParentKnown(plan, returned) = {}
      <3>1. found = FoundBy("child_domain", ChildrenIn(content, LookedUp(r)))
        BY <2>3, <2>4, <2>6
      <3>2. /\ ChildrenKnown(plan, returned)
               \subseteq ChildrenIn(content, LookedUp(r))
                         \cap DOMAIN returned.records
            /\ \A t \in ChildrenIn(content, LookedUp(r)) :
                  t.scheme \/ t \in ChildrenKnown(plan, returned)
        BY <1>5, ChildAgrees
      <3>3. CASE ChildrenKnown(plan, returned) # {}
        <4>1. m \in FoundBy("child_domain", ChildrenKnown(plan, returned))
          BY <1>3, <2>6, <3>3
        <4> QED BY <1>1, <3>1, <3>2, <4>1, FoundByIs
      <3>4. CASE ChildrenKnown(plan, returned) = {}
        <4>1. m = Nothing
          BY <1>3, <2>6, <3>4, FoundByIs
        <4>2. \A t \in ChildrenIn(content, LookedUp(r)) :
                  t.scheme /\ t \in DOMAIN content.values
          BY <3>2, <3>4 DEF ChildrenIn
        <4> QED BY <1>1, <3>1, <4>1, <4>2, FoundByIs
      <3> QED BY <3>3, <3>4
    <2> QED BY <2>5, <2>6
  <1> QED BY <1>4, <1>5

(* The service matches as the validator does, URLs beneath a domain aside. *)
LEMMA MatchAgrees ==
    ASSUME IInv, NEW s, NEW r, NEW keys, NEW returned, NEW content, NEW plan,
           Sees(s, r, keys, returned, content, plan),
           NEW m \in MatchOf(plan, returned)
    PROVE  LET found == Match(content, r.text, Used(r))
           IN  \/ m \in found /\ m.key \in DOMAIN returned.records
               \/ /\ m = Nothing
                  /\ \A o \in found : /\ o.method = "child_domain"
                                       /\ o.key \in DOMAIN content.values
                                       /\ o.key.scheme
  <1>1. plan.used = Used(r) /\ plan.key = LookedUp(r)
    BY PlanParts DEF Sees
  <1>2. /\ WholeKnown(plan, returned) \subseteq WholeIn(content, r)
        /\ WholeKnown(plan, returned) \subseteq DOMAIN returned.records
        /\ WholeKnown(plan, returned) = {} => WholeIn(content, r) = {}
    BY WholeAgrees DEF Sees
  <1>3. CASE WholeKnown(plan, returned) # {}
    <2>1. m.key \in WholeKnown(plan, returned)
          /\ m \in FoundBy("exact", WholeIn(content, r))
      BY <1>2, <1>3, MatchOfIs, FoundByIs
    <2> QED BY <1>2, <1>3, <2>1, MatchFinds
  <1>4. CASE WholeKnown(plan, returned) = {} /\ KeyKnown(plan, returned)
    <2>1. m \in FoundBy(IF plan.used = "url" THEN "same_host" ELSE "exact",
                        {plan.key})
      BY <1>4, MatchOfIs
    <2>2. KeyIn(content, r) /\ plan.key \in DOMAIN returned.records
      BY <1>4, KeyAgrees
    <2>3. m \in Match(content, r.text, Used(r))
      BY <1>1, <1>2, <1>4, <2>1, <2>2, MatchFinds
    <2> QED BY <2>1, <2>2, <2>3, FoundByIs
  <1>5. CASE WholeKnown(plan, returned) = {} /\ ~KeyKnown(plan, returned)
    BY <1>5, MatchAgreesElsewhere
  <1> QED BY <1>3, <1>4, <1>5

(* Whole URLs that are ruled out.                                          *)
WholeOut(content, r) ==
    {t \in DOMAIN content.excluded :
        t.scheme /\ Used(r) = "url" /\ Whole(t) = Whole(r.text)}

(* Which exclusion outranks a match, case by case (Corpus.exclusion).       *)
LEMMA OutranksParts ==
    ASSUME NEW content, NEW r, NEW method
    PROVE  Outranks(content, r, method) =
             IF method = "exact" THEN {}
             ELSE IF WholeOut(content, r) # {} THEN WholeOut(content, r)
             ELSE IF method = "same_host" THEN {}
             ELSE {LookedUp(r)} \cap DOMAIN content.excluded
  BY DEF Outranks, ExcludedBy, WholeOut, LookedUp

(* No match and a related name are outranked by the same.                  *)
LEMMA OutranksAlike ==
    ASSUME NEW content, NEW r
    PROVE  Outranks(content, r, None) = Outranks(content, r, "child_domain")
  BY AbsenceAssumption, OutranksParts DEF Methods

(* The reasons the service tells are those of an exclusion the validator   *)
(* finds, and it tells some when that one does.                            *)
LEMMA ExclusionAgrees ==
    ASSUME IInv, NEW s, NEW r, NEW keys, NEW returned, NEW content, NEW plan,
           Sees(s, r, keys, returned, content, plan), NEW method
    PROVE  LET reasons == ExclusionOf(plan, method, returned)
           IN  /\ reasons = {} => Outranks(content, r, method) = {}
               /\ reasons # {} => \E t \in Outranks(content, r, method) :
                                     reasons = content.excluded[t]
  <1>1. PICK out : out = DOMAIN returned.exclusions
    OBVIOUS
  <1>2. PICK x : x = DOMAIN content.excluded
    OBVIOUS
  <1>3. /\ \A t \in out : /\ t \in x /\ content.excluded[t] # {}
                          /\ returned.exclusions[t] = content.excluded[t]
        /\ \A t \in x : t \in keys["excluded"] => t \in out
    <2>1. returned.exclusions = ExclusionsOf(s, keys)
      BY ReturnedIs DEF Sees
    <2> QED BY <1>1, <1>2, <2>1, SinceIs, ExclusionsAre DEF Sees
  <1>4. x \subseteq AnyText
    BY <1>2, ContentIs DEF Sees
  <1>5. plan.key = LookedUp(r) /\ plan.key \in keys["excluded"]
    BY PlanParts, CoveredIs DEF Sees
  <1>6. plan.key \in out <=> plan.key \in x
    BY <1>3, <1>5
  <1>7. PICK whole : whole = Nearest(plan.wholes, out)
    OBVIOUS
  <1>8. /\ whole = {} => WholeOut(content, r) = {}
        /\ whole # {} => \E t \in WholeOut(content, r) \cap out : whole = {t}
    <2>1. CASE Used(r) # "url"
      BY <1>7, <2>1, PlanParts, NearestNone DEF WholeOut, Sees
    <2>2. CASE Used(r) = "url"
      <3>1. PICK y \in AnyText : y = r.text /\ y.scheme
        BY <2>2, PlanParts DEF Sees
      <3>2. plan.wholes = <<Whole(y), Slashed(Whole(y))>>
        BY <2>2, <3>1, PlanParts DEF Sees
      <3>3. whole = Nearest(<<Whole(y), Slashed(Whole(y))>>, out)
        BY <1>7, <3>2
      <3>4. /\ whole = {} <=> {t \in out \cap AnyText :
                                 t.scheme /\ Whole(t) = Whole(y)} = {}
            /\ whole \subseteq {t \in out \cap AnyText :
                                  t.scheme /\ Whole(t) = Whole(y)}
            /\ whole # {} => \E t \in out : whole = {t}
        BY <1>3, <1>4, <3>1, <3>3, NearestWhole
      <3>5. \A t \in out : t.scheme /\ Whole(t) = Whole(y)
                           => t \in WholeOut(content, r)
        BY <1>2, <1>3, <2>2, <3>1 DEF WholeOut
      <3>6. ASSUME NEW t \in WholeOut(content, r)
            PROVE  t \in out \cap AnyText /\ t.scheme /\ Whole(t) = Whole(y)
        <4>1. t \in x /\ t.scheme /\ Whole(t) = Whole(y)
          BY <1>2, <3>1 DEF WholeOut
        <4>2. t \in AnyText
          BY <1>4, <4>1
        <4>3. t \in keys["excluded"]
          BY <3>2, <4>1, <4>2, FormsOfUrl, CoveredIs DEF ToSet, Sees
        <4> QED BY <1>3, <4>1, <4>2, <4>3
      <3>7. ASSUME whole # {}
            PROVE  \E t \in WholeOut(content, r) \cap out : whole = {t}
        <4>1. PICK t \in out : whole = {t}
          BY <3>4, <3>7
        <4> QED BY <3>4, <3>5, <4>1
      <3> QED BY <3>4, <3>6, <3>7
    <2> QED BY <2>1, <2>2
  <1>9. ExclusionOf(plan, method, returned) =
          IF method = "exact" THEN {}
          ELSE IF whole # {} THEN UNION {returned.exclusions[t] : t \in whole}
          ELSE IF method # "same_host" /\ plan.key \in out
          THEN returned.exclusions[plan.key] ELSE {}
    BY <1>1, <1>7 DEF ExclusionOf
  <1>10. PICK reasons : reasons = ExclusionOf(plan, method, returned)
    OBVIOUS
  <1>11. CASE method = "exact"
    BY <1>9, <1>11, OutranksParts
  <1>12. CASE method # "exact" /\ whole # {}
    <2>1. PICK t \in WholeOut(content, r) \cap out : whole = {t}
      BY <1>8, <1>12
    <2>2. reasons = content.excluded[t] /\ reasons # {}
      BY <1>3, <1>9, <1>10, <1>12, <2>1
    <2> QED BY <1>10, <1>12, <2>1, <2>2, OutranksParts
  <1>13. CASE method # "exact" /\ whole = {}
    <2>1. WholeOut(content, r) = {}
      BY <1>8, <1>13
    <2>2. CASE method = "same_host"
      BY <1>9, <1>13, <2>1, <2>2, OutranksParts
    <2>3. CASE method # "same_host"
      <3>1. Outranks(content, r, method) = {plan.key} \cap x
        BY <1>2, <1>5, <1>13, <2>1, <2>3, OutranksParts
      <3>2. CASE plan.key \in out
        <4>1. reasons = content.excluded[plan.key] /\ reasons # {}
          BY <1>3, <1>9, <1>10, <1>13, <2>3, <3>2
        <4> QED BY <1>6, <1>10, <3>1, <3>2, <4>1
      <3>3. CASE plan.key \notin out
        <4>1. reasons = {}
          BY <1>9, <1>10, <1>13, <2>3, <3>3
        <4> QED BY <1>6, <1>10, <3>1, <3>3, <4>1
      <3> QED BY <3>2, <3>3
    <2> QED BY <2>2, <2>3
  <1> QED BY <1>11, <1>12, <1>13

(* The nearest key of two lists is the first list's, if that has one.      *)
LEMMA NearestJoin ==
    ASSUME NEW T, NEW a \in Seq(T), NEW b \in Seq(T), NEW texts
    PROVE  Nearest(a \o b, texts) = IF Nearest(a, texts) # {}
                                    THEN Nearest(a, texts)
                                    ELSE Nearest(b, texts)
  <1>1. PICK n \in Nat : n = Len(a) /\ DOMAIN a = 1 .. n
    BY LenProperties
  <1>2. PICK m \in Nat : m = Len(b) /\ DOMAIN b = 1 .. m
    BY LenProperties
  <1>3. PICK c : c = a \o b
    OBVIOUS
  <1>4. /\ DOMAIN c = 1 .. n + m
        /\ \A i \in 1 .. n : c[i] = a[i]
        /\ \A i \in 1 .. m : c[n + i] = b[i]
    BY <1>1, <1>2, <1>3
  <1>5. n + m \in Nat
    OBVIOUS
  <1>6. /\ Nearest(c, texts) = {} <=> \A k \in 1 .. n + m : c[k] \notin texts
        /\ Nearest(c, texts) # {} =>
                \E k \in 1 .. n + m :
                    /\ Nearest(c, texts) = {c[k]}
                    /\ c[k] \in texts
                    /\ \A j \in 1 .. n + m : c[j] \in texts => k <= j
    BY <1>4, <1>5, NearestIs
  <1>7. CASE Nearest(a, texts) # {}
    <2>1. PICK k \in 1 .. n :
                    /\ Nearest(a, texts) = {a[k]} /\ a[k] \in texts
                    /\ \A j \in 1 .. n : a[j] \in texts => k <= j
      BY <1>1, <1>7, NearestIs
    <2>2. k \in 1 .. n + m /\ c[k] = a[k]
      BY <1>4, <2>1
    <2>3. PICK l \in 1 .. n + m :
                    /\ Nearest(c, texts) = {c[l]} /\ c[l] \in texts
                    /\ \A j \in 1 .. n + m : c[j] \in texts => l <= j
      BY <1>6, <2>1, <2>2
    <2>4. l <= k
      BY <2>1, <2>2, <2>3
    <2>5. l \in 1 .. n /\ c[l] = a[l]
      BY <1>4, <2>4
    <2>6. k <= l
      BY <2>1, <2>3, <2>5
    <2>7. l = k
      BY <2>4, <2>6
    <2> QED BY <1>3, <1>7, <2>1, <2>2, <2>3, <2>7
  <1>8. CASE Nearest(a, texts) = {}
    <2>1. \A j \in 1 .. n : a[j] \notin texts
      BY <1>1, <1>8, NearestIs
    <2>2. ASSUME NEW j \in 1 .. n + m, c[j] \in texts
          PROVE  j - n \in 1 .. m /\ b[j - n] = c[j]
      <3>1. j \notin 1 .. n
        BY <1>4, <2>1, <2>2
      <3>2. j - n \in 1 .. m
        BY <3>1
      <3>3. n + (j - n) = j
        OBVIOUS
      <3> QED BY <1>4, <3>2, <3>3
    <2>3. CASE Nearest(b, texts) = {}
      <3>1. \A j \in 1 .. m : b[j] \notin texts
        BY <1>2, <2>3, NearestIs
      <3>2. \A k \in 1 .. n + m : c[k] \notin texts
        BY <2>2, <3>1
      <3>3. Nearest(c, texts) = {}
        BY <1>6, <3>2
      <3> QED BY <1>3, <1>8, <2>3, <3>3
    <2>4. CASE Nearest(b, texts) # {}
      <3>1. PICK k \in 1 .. m :
                    /\ Nearest(b, texts) = {b[k]} /\ b[k] \in texts
                    /\ \A j \in 1 .. m : b[j] \in texts => k <= j
        BY <1>2, <2>4, NearestIs
      <3>2. n + k \in 1 .. n + m /\ c[n + k] = b[k]
        BY <1>4, <3>1
      <3>3. PICK l \in 1 .. n + m :
                    /\ Nearest(c, texts) = {c[l]} /\ c[l] \in texts
                    /\ \A j \in 1 .. n + m : c[j] \in texts => l <= j
        BY <1>6, <3>1, <3>2
      <3>4. l <= n + k
        BY <3>1, <3>2, <3>3
      <3>5. l - n \in 1 .. m /\ b[l - n] = c[l]
        BY <2>2, <3>3
      <3>6. k <= l - n
        BY <3>1, <3>3, <3>5
      <3>7. l = n + k
        BY <3>4, <3>6
      <3> QED BY <1>3, <1>8, <2>4, <3>1, <3>2, <3>3, <3>7
    <2> QED BY <2>3, <2>4
  <1> QED BY <1>7, <1>8

(* The nearest of one key is that key, where it is known.                   *)
LEMMA NearestOne ==
    ASSUME NEW x, NEW texts
    PROVE  Nearest(<<x>>, texts) = {x} \cap texts /\ ToSet(<<x>>) = {x}
  <1>1. ToSet(<<x>>) = {x}
    BY DEF ToSet
  <1>2. DOMAIN <<x>> = 1 .. 1 /\ <<x>>[1] = x
    OBVIOUS
  <1>3. PICK keys : keys = <<x>>
    OBVIOUS
  <1>4. DOMAIN keys = 1 .. 1 /\ keys[1] = x /\ 1 \in Nat
    BY <1>2, <1>3
  <1>5. /\ Nearest(keys, texts) = {} <=> \A k \in 1 .. 1 : keys[k] \notin texts
        /\ Nearest(keys, texts) # {} =>
                \E k \in 1 .. 1 : Nearest(keys, texts) = {keys[k]}
                                  /\ keys[k] \in texts
    BY <1>4, NearestIs
  <1>6. \A k \in 1 .. 1 : k = 1
    OBVIOUS
  <1> QED BY <1>1, <1>3, <1>4, <1>5, <1>6

(* A row that is looked up, in the reports or among the samples alone.     *)
Looked(r) ==
    Consulted(r) \/ (IsRow(r) /\ r.type \in SampleOnlyTypes /\ PlanSkip(r) = {})

(* The parts of the plan of a value that is looked up in the news.          *)
LEMMA LookedParts ==
    ASSUME NEW r, Looked(r), NEW plan, plan = Plan(r)
    PROVE  /\ plan.skip = {} /\ r.text \in AnyText
           /\ plan.used = "url" =>
                /\ plan.wholes = <<Whole(r.text), Slashed(Whole(r.text))>>
                /\ plan.key = Host(r.text.host) /\ r.text.scheme
           /\ plan.used # "url" => plan.wholes = <<>> /\ plan.key = r.text
           /\ plan.used \in SampleOnlyTypes <=> r.type \in SampleOnlyTypes
           /\ plan.used \in KnownTypes \cup SampleOnlyTypes
           /\ plan.used \in SampleOnlyTypes \cup {"cve"}
                => plan.registrable = <<>>
           /\ plan.registrable = <<>>
              \/ \E k : plan.registrable = <<k>> /\ ToSet(plan.registrable) = {k}
  <1>1. CASE Consulted(r)
    <2>1. /\ plan.skip = {} /\ r.text \in AnyText
          /\ plan.used = Used(r) /\ Used(r) \notin SampleOnlyTypes
          /\ plan.key = LookedUp(r)
          /\ plan.wholes = IF Used(r) = "url"
                            THEN <<Whole(r.text), Slashed(Whole(r.text))>>
                            ELSE <<>>
          /\ plan.registrable = RegistrantOf(PlanLabels(r))
          /\ Used(r) = "url" => r.text.scheme
          /\ Used(r) \in KnownTypes
          /\ Used(r) \notin {"domain", "url"} => PlanLabels(r) = <<>>
      BY <1>1, PlanParts
    <2> QED BY <1>1, <2>1, NearestOne, PlanAgrees DEF RegistrantOf, Consulted
  <1>2. CASE IsRow(r) /\ r.type \in SampleOnlyTypes /\ PlanSkip(r) = {}
    BY <1>2, ArtefactPlan DEF SampleOnlyTypes, IsRow
  <1> QED BY <1>1, <1>2 DEF Looked

(* What the samples hold in a form that is looked at.                      *)
LookedAt(r, plan) == SampledOf(r, plan) \ PassedOver(r, plan)

(* A row said to be in a sample is, and one that is not found there is in  *)
(* none if the samples were asked.                                         *)
LEMMA SampleAgrees ==
    ASSUME NEW r, Looked(r), NEW plan, plan = Plan(r), NEW s, NEW keys,
           NEW returned, returned = Returned(Stored, s, keys)
    PROVE  /\ InSample(plan, returned) => LookedAt(r, plan) # {}
           /\ /\ ToSet(Needs(plan)["samples"]) \subseteq keys["samples"]
              /\ ToSet(Needs(plan)["hashes"]) \subseteq keys["hashes"]
              /\ ~InSample(plan, returned)
              => LookedAt(r, plan) = {}
  <1> DEFINE whole == IF plan.used = "url" THEN {Whole(r.text)} ELSE {}
  <1>1. /\ returned.artefacts = Artefacts \cap keys["samples"]
        /\ returned.analysed = Analysed \cap keys["hashes"]
    BY ReturnedIs
  <1>2. LookedAt(r, plan) =
          (Artefacts \cap ({plan.key} \cup whole))
          \cup (IF plan.used = "sha256" THEN Analysed \cap {plan.key} ELSE {})
    <2>1. CASE plan.used = "url"
      <3>1. SampledOf(r, plan) =
              Artefacts \cap {plan.key, Whole(r.text), Slashed(Whole(r.text))}
        BY <2>1 DEF SampledOf
      <3>2. PassedOver(r, plan) = {Slashed(Whole(r.text))} \ {Whole(r.text), plan.key}
        BY <2>1 DEF PassedOver
      <3> QED BY <2>1, <3>1, <3>2 DEF LookedAt
    <2>2. CASE plan.used # "url"
      <3>1. PassedOver(r, plan) = {}
        BY <2>2 DEF PassedOver
      <3> QED BY <2>2, <3>1 DEF SampledOf, LookedAt
    <2> QED BY <2>1, <2>2
  <1>3. plan.wholes # <<>> <=> plan.used = "url"
    BY LookedParts
  <1>4. InSample(plan, returned)
        <=> \/ plan.key \in Artefacts \cap keys["samples"]
            \/ plan.used = "url" /\ Whole(r.text) \in Artefacts \cap keys["samples"]
            \/ plan.used = "sha256" /\ plan.key \in Analysed \cap keys["hashes"]
    BY <1>1, <1>3, LookedParts DEF InSample
  <1>5. /\ plan.key \in ToSet(Needs(plan)["samples"])
        /\ plan.used = "url" => Whole(r.text) \in ToSet(Needs(plan)["samples"])
        /\ plan.used = "sha256" => plan.key \in ToSet(Needs(plan)["hashes"])
    <2>1. plan.skip = {}
      BY LookedParts
    <2>2. CASE plan.used \in SampleOnlyTypes
      <3>1. Needs(plan)["samples"] = <<plan.key>>
        BY <2>1, <2>2, NeedsOf
      <3> QED BY <2>2, <3>1, NearestOne DEF SampleOnlyTypes
    <2>3. CASE plan.used \notin SampleOnlyTypes
      <3>1. /\ Needs(plan)["samples"] = Append(plan.wholes, plan.key)
            /\ Needs(plan)["hashes"] = IF plan.used = "sha256"
                                       THEN <<plan.key>> ELSE <<>>
        BY <2>1, <2>3, NeedsOf
      <3>2. PICK T : plan.wholes \in Seq(T) /\ plan.key \in T
        BY KeysAre DEF Looked, Consulted
      <3>3. ToSet(Append(plan.wholes, plan.key)) = ToSet(plan.wholes) \cup {plan.key}
        BY <3>2, AppendedSet
      <3>4. plan.used = "url" => Whole(r.text) \in ToSet(plan.wholes)
        BY LookedParts DEF ToSet
      <3> QED BY <3>1, <3>3, <3>4, NearestOne
    <2> QED BY <2>2, <2>3
  <1>6. ASSUME ToSet(Needs(plan)["samples"]) \subseteq keys["samples"],
               ToSet(Needs(plan)["hashes"]) \subseteq keys["hashes"],
               ~InSample(plan, returned)
        PROVE  LookedAt(r, plan) = {}
    BY <1>2, <1>4, <1>5, <1>6
  <1> QED BY <1>2, <1>4, <1>6

(* Feeds are asked about the whole URL, then the host, then its domain.    *)
LEMMA FeedOrder ==
    ASSUME NEW r, Looked(r), NEW plan, plan = Plan(r), NEW listed
    PROVE  /\ Nearest(plan.wholes \o <<plan.key>> \o plan.registrable, listed) =
                IF Nearest(plan.wholes, listed) # {}
                THEN Nearest(plan.wholes, listed)
                ELSE IF plan.key \in listed THEN {plan.key}
                ELSE listed \cap ToSet(plan.registrable)
           /\ plan.used \in KnownTypes \ {"cve"} =>
                ToSet(Needs(plan)["feeds"])
                = ToSet(plan.wholes) \cup {plan.key} \cup ToSet(plan.registrable)
  <1>1. PICK w : w = plan.wholes
    OBVIOUS
  <1>2. PICK k : k = plan.key
    OBVIOUS
  <1>3. PICK g : g = plan.registrable
    OBVIOUS
  <1>4. PICK T : w \in Seq(T) /\ k \in T /\ g \in Seq(T)
    <2>1. IsRow(r) /\ PlanSkip(r) = {}
      BY DEF Looked, Consulted
    <2> QED BY <1>1, <1>2, <1>3, <2>1, KeysAre
  <1>5. PICK one : one = <<k>>
    OBVIOUS
  <1>6. one \in Seq(T)
    BY <1>4, <1>5
  <1>7. PICK front : front = w \o one
    OBVIOUS
  <1>8. front \in Seq(T) /\ front = Append(w, k)
    BY <1>4, <1>5, <1>6, <1>7, AppendIsConcat, JoinedSets
  <1>9. Nearest(front \o g, listed)
        = IF Nearest(front, listed) # {} THEN Nearest(front, listed)
          ELSE Nearest(g, listed)
    <2>1. front \in Seq(T) /\ g \in Seq(T)
      BY <1>4, <1>8
    <2> QED BY <2>1, NearestJoin
  <1>10. Nearest(front, listed)
        = IF Nearest(w, listed) # {} THEN Nearest(w, listed)
          ELSE Nearest(one, listed)
    BY <1>4, <1>6, <1>7, NearestJoin
  <1>11. Nearest(one, listed) = {k} \cap listed
    BY <1>5, NearestOne
  <1>12. Nearest(g, listed) = listed \cap ToSet(g)
    <2>1. CASE g = <<>>
      BY <2>1, NearestNone
    <2>2. CASE g # <<>>
      <3>1. PICK x : g = <<x>>
                     /\ ToSet(g) = {x}
        BY <1>3, <2>2, LookedParts
      <3> QED BY <3>1, NearestOne
    <2> QED BY <2>1, <2>2
  <1>13. Nearest(w \o <<k>> \o g, listed) =
                IF Nearest(w, listed) # {}
                THEN Nearest(w, listed)
                ELSE IF k \in listed THEN {k}
                ELSE listed \cap ToSet(g)
    <2>1. {k} \cap listed = IF k \in listed THEN {k} ELSE {}
      OBVIOUS
    <2>2. w \o <<k>> \o g
          = front \o g
      BY <1>5, <1>7
    <2> QED BY <1>9, <1>10, <1>11, <1>12, <2>1, <2>2
  <1>14. ASSUME plan.used \in KnownTypes \ {"cve"}
         PROVE  ToSet(Needs(plan)["feeds"])
                = ToSet(w) \cup {k} \cup ToSet(g)
    <2>1. plan.skip = {} /\ plan.used \notin SampleOnlyTypes
      BY <1>14, LookedParts DEF KnownTypes, SampleOnlyTypes
    <2>2. Needs(plan)["feeds"]
          = Append(w, k) \o g
      BY <1>1, <1>2, <1>3, <1>14, <2>1, NeedsOf
    <2>3. ToSet(Append(w, k)) = ToSet(w) \cup {k}
      BY <1>4, AppendedSet
    <2>4. ToSet(front \o g) = ToSet(front) \cup ToSet(g)
      BY <1>4, <1>8, JoinedSets
    <2> QED BY <1>8, <2>2, <2>3, <2>4
  <1> QED BY <1>1, <1>2, <1>3, <1>13, <1>14

(* What the feeds list of a row, by its plan's keys.                       *)
LEMMA ListedParts ==
    ASSUME NEW r, Looked(r), NEW plan, plan = Plan(r), NEW wholes,
           wholes = (IF plan.used = "url"
                     THEN {Whole(r.text), Slashed(Whole(r.text))} ELSE {})
    PROVE  /\ ToSet(plan.wholes) = wholes
           /\ ListedOf(r, plan) =
                IF Listed \cap wholes # {} THEN Listed \cap wholes
                ELSE IF plan.key \in Listed THEN {plan.key}
                ELSE Listed \cap ToSet(plan.registrable)
  <1> DEFINE own == {t \in Listed :
                        \/ t = r.text
                        \/ plan.used = "url" /\ t.scheme /\ Whole(t) = Whole(r.text)}
             host == {t \in Listed : plan.used = "url" /\ t = Host(r.text.host)}
  <1>1. ListedOf(r, plan) = IF own # {} THEN own ELSE IF host # {} THEN host
                            ELSE Listed \cap ToSet(plan.registrable)
    BY DEF ListedOf
  <1>2. CASE plan.used = "url"
    <2>1. PICK x \in AnyText : x = r.text /\ x.scheme
      BY <1>2, LookedParts
    <2>2. \A t \in AnyText : Whole(t) = Whole(x) <=> t \in wholes
      BY <1>2, <2>1, FormsOfUrl
    <2>3. \A t \in wholes : t.scheme
      BY <1>2, <2>1, FormsOfUrl
    <2>4. x \in wholes
      BY <1>2, <2>1, FormsOfUrl
    <2>5. Listed \subseteq AnyText
      BY CallsAssumption
    <2>6. own = Listed \cap wholes
      BY <1>2, <2>1, <2>2, <2>3, <2>4, <2>5
    <2>7. plan.key = Host(r.text.host)
      BY <1>2, LookedParts
    <2>8. host = Listed \cap {plan.key}
      BY <1>2, <2>7
    <2>9. ToSet(plan.wholes) = wholes
      <3>1. \A y, z : ToSet(<<y, z>>) = {y, z}
        BY DEF ToSet
      <3> QED BY <1>2, <3>1, LookedParts
    <2>10. Listed \cap {plan.key} = IF plan.key \in Listed THEN {plan.key} ELSE {}
      OBVIOUS
    <2> HIDE DEF own, host
    <2> QED BY <1>1, <2>6, <2>8, <2>9, <2>10
  <1>3. CASE plan.used # "url"
    <2>1. plan.key = r.text /\ plan.wholes = <<>>
      BY <1>3, LookedParts
    <2>2. own = Listed \cap {plan.key}
      BY <1>3, <2>1
    <2>3. host = {} /\ Listed \cap wholes = {}
      BY <1>3
    <2>4. ToSet(plan.wholes) = wholes
      BY <1>3, <2>1, NearestNone
    <2>5. Listed \cap {plan.key} = IF plan.key \in Listed THEN {plan.key} ELSE {}
      OBVIOUS
    <2> HIDE DEF own, host
    <2> QED BY <1>1, <2>2, <2>3, <2>4, <2>5
  <1> QED BY <1>2, <1>3

(* The nearest key is a known one, and there is one where any is known.     *)
LEMMA NearestAmong ==
    ASSUME NEW T, NEW keys \in Seq(T), NEW texts
    PROVE  /\ Nearest(keys, texts) \subseteq texts \cap ToSet(keys)
           /\ Nearest(keys, texts) = {} <=> texts \cap ToSet(keys) = {}
  <1>1. PICK n \in Nat : n = Len(keys) /\ DOMAIN keys = 1 .. n
    BY LenProperties
  <1>2. ToSet(keys) = {keys[k] : k \in 1 .. n}
    BY <1>1 DEF ToSet
  <1>3. /\ Nearest(keys, texts) = {}
           <=> \A k \in 1 .. n : keys[k] \notin texts
        /\ Nearest(keys, texts) # {} =>
             \E k \in 1 .. n : Nearest(keys, texts) = {keys[k]}
                               /\ keys[k] \in texts
    BY <1>1, NearestIs
  <1> QED BY <1>2, <1>3

(* What a row is told that feeds list, they list of it; and told of none   *)
(* while all were asked, there is none.                                    *)
LEMMA FeedAgrees ==
    ASSUME NEW r, Looked(r), NEW plan, plan = Plan(r), NEW s, NEW keys,
           NEW returned, returned = Returned(Stored, s, keys), NEW lost,
           lost = {} => ToSet(Needs(plan)["feeds"]) \subseteq keys["feeds"]
    PROVE  LET listedAs == ListedAs(plan, returned, lost)
           IN  /\ listedAs # None => listedAs \in ListedOf(r, plan)
               /\ lost = {} /\ listedAs = None /\ AsksFeeds(plan)
                  => ListedOf(r, plan) = {}
  <1>1. PICK listed : listed = Listed \cap keys["feeds"]
    OBVIOUS
  <1>2. returned.listed = listed
    BY <1>1, ReturnedIs
  <1>3. PICK near : near = Nearest(plan.wholes \o <<plan.key>> \o plan.registrable,
                                   listed)
    OBVIOUS
  <1>4. ListedAs(plan, returned, lost)
        = IF lost # {} \/ near = {} THEN None ELSE CHOOSE t \in near : TRUE
    BY <1>2, <1>3 DEF ListedAs
  <1>5. PICK wholes : wholes = IF plan.used = "url"
                      THEN {Whole(r.text), Slashed(Whole(r.text))} ELSE {}
    OBVIOUS
  <1>6. PICK reg : reg = ToSet(plan.registrable)
    OBVIOUS
  <1>7. PICK first : first = Nearest(plan.wholes, listed)
    OBVIOUS
  <1>8. /\ ToSet(plan.wholes) = wholes
        /\ ListedOf(r, plan) =
                IF Listed \cap wholes # {} THEN Listed \cap wholes
                ELSE IF plan.key \in Listed THEN {plan.key}
                ELSE Listed \cap reg
    <2>1. /\ ToSet(plan.wholes) = wholes
          /\ ListedOf(r, plan) =
                  IF Listed \cap wholes # {} THEN Listed \cap wholes
                  ELSE IF plan.key \in Listed THEN {plan.key}
                  ELSE Listed \cap ToSet(plan.registrable)
      BY <1>5, ListedParts
    <2> QED BY <1>6, <2>1
  <1>9. /\ near = IF first # {} THEN first
                  ELSE IF plan.key \in listed THEN {plan.key}
                  ELSE listed \cap reg
        /\ AsksFeeds(plan) =>
              ToSet(Needs(plan)["feeds"]) = wholes \cup {plan.key} \cup reg
    BY <1>3, <1>6, <1>7, <1>8, FeedOrder DEF AsksFeeds
  <1>10. /\ first \subseteq listed \cap wholes
         /\ first = {} <=> listed \cap wholes = {}
    <2>1. PICK T : plan.wholes \in Seq(T)
      <3>1. IsRow(r) /\ PlanSkip(r) = {}
        BY DEF Looked, Consulted
      <3> QED BY <3>1, KeysAre
    <2> QED BY <1>7, <1>8, <2>1, NearestAmong
  <1>11. ~AsksFeeds(plan) => wholes = {} /\ reg = {}
    <2>1. plan.used \in KnownTypes \cup SampleOnlyTypes
      BY LookedParts
    <2>2. ~AsksFeeds(plan) => plan.used \in SampleOnlyTypes \cup {"cve"}
      BY <2>1 DEF AsksFeeds
    <2>3. ~AsksFeeds(plan) => plan.registrable = <<>> /\ plan.used # "url"
      BY <2>2, LookedParts DEF SampleOnlyTypes
    <2> QED BY <1>5, <1>6, <2>3, NearestNone
  <1>12. ASSUME lost = {}, AsksFeeds(plan)
         PROVE  \A X : X \subseteq wholes \cup {plan.key} \cup reg
                       => listed \cap X = Listed \cap X
    BY <1>1, <1>9, <1>12
  <1>13. near \subseteq listed /\ listed \subseteq Listed
    BY <1>1, <1>9, <1>10
  <1>14. ASSUME lost = {} PROVE near \subseteq ListedOf(r, plan)
    <2>1. CASE AsksFeeds(plan)
      <3>1. /\ listed \cap wholes = Listed \cap wholes
            /\ listed \cap {plan.key} = Listed \cap {plan.key}
            /\ listed \cap reg = Listed \cap reg
        BY <1>12, <1>14, <2>1
      <3> QED BY <1>8, <1>9, <1>10, <3>1
    <2>2. CASE ~AsksFeeds(plan)
      BY <1>8, <1>9, <1>10, <1>11, <1>13, <2>2
    <2> QED BY <2>1, <2>2
  <1>15. ASSUME lost = {}, near = {}, AsksFeeds(plan)
         PROVE  ListedOf(r, plan) = {}
    <2>1. /\ listed \cap wholes = Listed \cap wholes
          /\ listed \cap {plan.key} = Listed \cap {plan.key}
          /\ listed \cap reg = Listed \cap reg
      BY <1>12, <1>15
    <2>2. listed \cap wholes = {}
      BY <1>9, <1>10, <1>15
    <2>3. plan.key \notin listed /\ listed \cap reg = {}
      BY <1>9, <1>10, <1>15, <2>2
    <2> QED BY <1>8, <2>1, <2>2, <2>3
  <1>16. near # {} => (CHOOSE t \in near : TRUE) \in near
    OBVIOUS
  <1>17. None \notin near
    BY <1>13, CallsAssumption, BoardAssumption
  <1> QED BY <1>4, <1>14, <1>15, <1>16, <1>17

LostIn(lostOf, groups) == UNION {lostOf[g] : g \in groups}

(* An answer, field by field.                                              *)
Says(status, match, reasons, record, intel, sample, listed) ==
    [status |-> status, match |-> match, reasons |-> reasons,
     record |-> record, intel |-> intel, sample |-> sample, listed |-> listed]

FeedTold(plan, returned, lostOf) ==
    ListedAs(plan, returned, LostIn(lostOf, {"feeds"}))

(* What is told of a value that no report has.                             *)
NotFoundIn(plan, returned, lostOf) ==
    IF InSample(plan, returned) \/ FeedTold(plan, returned, lostOf) # None
    THEN Says("elsewhere", None, {}, None, None, InSample(plan, returned),
              FeedTold(plan, returned, lostOf))
    ELSE IF LostIn(lostOf, Sides \cup {"feeds"}) # {}
    THEN Says("error", None, LostIn(lostOf, Sides \cup {"feeds"}), None, None,
              FALSE, None)
    ELSE Says("unseen", None, {}, None, None, FALSE, None)

IntelTold(plan, returned) ==
    IF plan.used = "cve" /\ plan.key \in DOMAIN returned.intel
    THEN returned.intel[plan.key] ELSE None

(* What is told of a value that was found by m.                            *)
HitBy(plan, returned, lostOf, m) ==
    IF returned.records[m.key].citations = {}
    THEN Says("error", None, {"missing_citation"}, None, None,
              InSample(plan, returned), FeedTold(plan, returned, lostOf))
    ELSE Says("hit", m, {}, returned.records[m.key], IntelTold(plan, returned),
              InSample(plan, returned), FeedTold(plan, returned, lostOf))

DecidedBy(plan, returned, lostOf, m) ==
    IF ExclusionOf(plan, m.method, returned) # {}
    THEN Says("excluded", None, ExclusionOf(plan, m.method, returned), None,
              None, InSample(plan, returned), FeedTold(plan, returned, lostOf))
    ELSE IF m.key = None THEN NotFoundIn(plan, returned, lostOf)
    ELSE HitBy(plan, returned, lostOf, m)

Decisions(plan, returned, lostOf) ==
    {DecidedBy(plan, returned, lostOf, m) : m \in MatchOf(plan, returned)}

(* A value whose news statement was lost is answered with an error; any     *)
(* other by what was returned.                                              *)
LEMMA AnswersAre ==
    ASSUME NEW plan, NEW returned, NEW lostOf, plan.skip = {}
    PROVE  /\ LostIn(lostOf, NewsGroups) # {} =>
                AnswersFor(plan, returned, lostOf) =
                  {Says("error", None, LostIn(lostOf, NewsGroups), None, None,
                        FALSE, None)}
           /\ LostIn(lostOf, NewsGroups) = {} =>
                AnswersFor(plan, returned, lostOf)
                = Decisions(plan, returned, lostOf)
  BY DEF Decisions, AnswersFor, LostIn, Says, FeedTold, NotFoundIn, IntelTold, HitBy,
         DecidedBy

(* The parts of an answer.                                                  *)
LEMMA SaysIs ==
    ASSUME NEW status, NEW match, NEW reasons, NEW record, NEW intel,
           NEW sample, NEW listed, NEW a,
           a = Says(status, match, reasons, record, intel, sample, listed)
    PROVE  /\ a.status = status /\ a.match = match /\ a.reasons = reasons
           /\ a.record = record /\ a.intel = intel
           /\ a.sample = sample /\ a.listed = listed
  BY DEF Says

(* What the validator may say of a row it looks up.                        *)
LEMMA EvaluateHas ==
    ASSUME NEW content, NEW r, Skips(r) = {}, NEW found,
           found = Match(content, r.text, Used(r))
    PROVE  /\ \A m \in found : Told(content, r, m) \subseteq Evaluate(content, r)
           /\ found = {} => Told(content, r, Nothing) \subseteq Evaluate(content, r)
  BY EvaluateIs

(* The vulnerability record of a CVE is the validator's.                   *)
LEMMA IntelAgrees ==
    ASSUME IInv, NEW s, NEW r, NEW keys, NEW returned, NEW content, NEW plan,
           Sees(s, r, keys, returned, content, plan)
    PROVE  IntelTold(plan, returned) =
             IF Used(r) = "cve" /\ r.text \in DOMAIN content.intel
             THEN content.intel[r.text] ELSE None
  <1>1. plan.used = Used(r) /\ plan.key = LookedUp(r)
    BY PlanParts DEF Sees
  <1>2. CASE Used(r) # "cve"
    BY <1>1, <1>2 DEF IntelTold
  <1>3. CASE Used(r) = "cve"
    <2>1. LookedUp(r) = r.text
      BY <1>3, PlanAgrees DEF Sees, Consulted
    <2>2. content.intel = NewestIntel(archive)
      BY SinceIs DEF Sees
    <2>3. returned.intel = [c \in DOMAIN NewestIntel(archive) \cap keys["cve"] |->
                              NewestIntel(archive)[c]]
      BY ReturnedIs DEF Sees
    <2>4. PICK intel : intel = NewestIntel(archive)
      OBVIOUS
    <2>5. /\ plan.key \in DOMAIN returned.intel <=> plan.key \in DOMAIN intel
          /\ plan.key \in DOMAIN intel => returned.intel[plan.key] = intel[plan.key]
      BY <1>1, <1>3, <2>3, <2>4, CoveredIs DEF Sees
    <2> QED BY <1>1, <1>3, <2>1, <2>2, <2>4, <2>5 DEF IntelTold
  <1> QED BY <1>2, <1>3

(* An answer with a match.                                                 *)
LEMMA HitIsTrue ==
    ASSUME IInv, NEW s, NEW r, NEW keys, NEW returned, NEW content, NEW plan,
           Sees(s, r, keys, returned, content, plan), NEW lostOf,
           NEW m \in MatchOf(plan, returned), m.key # None,
           ExclusionOf(plan, m.method, returned) = {},
           NEW a, a = HitBy(plan, returned, lostOf, m)
    PROVE  /\ a.status = "hit" /\ a.match = m
           /\ a.record = content.values[m.key]
           /\ Answer("hit", m, {}, a.intel) \in Evaluate(content, r)
           /\ a.sample => InSample(plan, returned)
           /\ a.listed = FeedTold(plan, returned, lostOf)
  <1>1. PICK found : found = Match(content, r.text, Used(r))
    OBVIOUS
  <1>2. m \in found /\ m.key \in DOMAIN returned.records
    BY <1>1, MatchAgrees DEF Nothing
  <1>3. m.key \in DOMAIN content.values
        /\ returned.records[m.key] = content.values[m.key]
    BY <1>2, KnownIs DEF Sees
  <1>4. content.values[m.key].citations # {}
    BY <1>3, ContentIs DEF Sees
  <1>5. PICK intel : intel = IF Used(r) = "cve" /\ r.text \in DOMAIN content.intel
                             THEN content.intel[r.text] ELSE None
    OBVIOUS
  <1>6. Told(content, r, m) = {Answer("hit", m, {}, intel)}
    BY <1>4, <1>5, ExclusionAgrees DEF Told
  <1>7. Answer("hit", m, {}, intel) \in Evaluate(content, r)
    BY <1>1, <1>2, <1>6, PlanParts, EvaluateHas DEF Sees
  <1>8. IntelTold(plan, returned) = intel
    BY <1>5, IntelAgrees
  <1>9. /\ a.status = "hit" /\ a.match = m
         /\ a.record = returned.records[m.key]
         /\ a.intel = IntelTold(plan, returned)
         /\ a.sample = InSample(plan, returned)
         /\ a.listed = FeedTold(plan, returned, lostOf)
    BY <1>3, <1>4, SaysIs DEF HitBy
  <1>10. a.sample => InSample(plan, returned)
    BY <1>9, Zenon
  <1> QED BY <1>3, <1>7, <1>8, <1>9, <1>10

(* An exclusion.                                                           *)
LEMMA ExcludedIsTrue ==
    ASSUME IInv, NEW s, NEW r, NEW keys, NEW returned, NEW content, NEW plan,
           Sees(s, r, keys, returned, content, plan),
           NEW m \in MatchOf(plan, returned), NEW reasons,
           reasons = ExclusionOf(plan, m.method, returned), reasons # {}
    PROVE  Answer("excluded", None, reasons, None) \in Evaluate(content, r)
  <1>1. PICK found : found = Match(content, r.text, Used(r))
    OBVIOUS
  <1>2. PICK t \in Outranks(content, r, m.method) : reasons = content.excluded[t]
    BY ExclusionAgrees
  <1>3. Skips(r) = {}
    BY PlanParts DEF Sees
  <1>4. \A o : t \in Outranks(content, r, o.method)
               => Answer("excluded", None, reasons, None) \in Told(content, r, o)
    BY <1>2 DEF Told
  <1>5. CASE m \in found
    BY <1>1, <1>2, <1>3, <1>4, <1>5, EvaluateHas
  <1>6. CASE m \notin found
    <2>1. m = Nothing /\ \A o \in found : o.method = "child_domain"
      BY <1>1, <1>6, MatchAgrees
    <2>2. CASE found = {}
      BY <1>1, <1>2, <1>3, <1>4, <2>1, <2>2, EvaluateHas
    <2>3. CASE found # {}
      <3>1. PICK o \in found : o.method = "child_domain"
        BY <2>1, <2>3
      <3>2. t \in Outranks(content, r, o.method)
        BY <1>2, <2>1, <3>1, OutranksAlike DEF Nothing
      <3> QED BY <1>1, <1>3, <1>4, <3>2, EvaluateHas
    <2> QED BY <2>2, <2>3
  <1> QED BY <1>5, <1>6

(* What no report has, the validator misses, or has a URL beneath it.      *)
LEMMA MissIsTrue ==
    ASSUME IInv, NEW s, NEW r, NEW keys, NEW returned, NEW content, NEW plan,
           Sees(s, r, keys, returned, content, plan),
           NEW m \in MatchOf(plan, returned), m.key = None,
           ExclusionOf(plan, m.method, returned) = {}
    PROVE  \E o \in Evaluate(content, r) : o.status = "miss" \/ UrlChild(o)
  <1>1. PICK found : found = Match(content, r.text, Used(r))
    OBVIOUS
  <1>2. m.key \notin DOMAIN returned.records
    BY ContentIs, KnownIs DEF Sees
  <1>3. m = Nothing
        /\ \A o \in found : /\ o.method = "child_domain"
                            /\ o.key \in DOMAIN content.values /\ o.key.scheme
    BY <1>1, <1>2, MatchAgrees
  <1>4. Outranks(content, r, None) = {}
    BY <1>3, ExclusionAgrees DEF Nothing
  <1>5. Skips(r) = {}
    BY PlanParts DEF Sees
  <1>6. CASE found = {}
    <2>1. Answer("miss", None, {}, None) \in Evaluate(content, r)
      BY <1>1, <1>4, <1>5, <1>6, EvaluateHas DEF Told, Nothing
    <2> QED BY <2>1 DEF Answer
  <1>7. CASE found # {}
    <2>1. PICK o \in found : TRUE
      BY <1>7
    <2>2. o.method = "child_domain" /\ o.key \in DOMAIN content.values /\ o.key.scheme
      BY <1>3
    <2>3. PICK i : Told(content, r, o) = {Answer("hit", o, {}, i)}
      BY <1>4, <2>2, OutranksAlike, ContentIs DEF Told, Sees
    <2>4. UrlChild(Answer("hit", o, {}, i))
      BY <2>2 DEF UrlChild, Answer
    <2> QED BY <1>1, <1>5, <2>3, <2>4, EvaluateHas
  <1> QED BY <1>6, <1>7

(* What a call asked for it has, but for what it says it lost.             *)
Asks(plan, keys, lostOf) ==
    \A g \in ToSet(Group) :
        lostOf[g] = {} => ToSet(Needs(plan)[g]) \subseteq keys[g]

(* Samples and feeds, whatever else is told.                               *)
LEMMA SidesAreTrue ==
    ASSUME NEW r, Looked(r), NEW plan, plan = Plan(r), NEW s, NEW keys,
           NEW returned, returned = Returned(Stored, s, keys), NEW lostOf,
           Asks(plan, keys, lostOf)
    PROVE  /\ InSample(plan, returned) => LookedAt(r, plan) # {}
           /\ FeedTold(plan, returned, lostOf) # None
                => FeedTold(plan, returned, lostOf) \in ListedOf(r, plan)
           /\ /\ LostIn(lostOf, Sides \cup {"feeds"}) = {}
              /\ ~InSample(plan, returned)
              /\ FeedTold(plan, returned, lostOf) = None
              => /\ LookedAt(r, plan) = {}
                 /\ AsksFeeds(plan) => ListedOf(r, plan) = {}
  <1>1. {"samples", "hashes", "feeds"} \subseteq ToSet(Group)
    BY GroupIs
  <1>2. LostIn(lostOf, Sides \cup {"feeds"}) = {}
        => /\ LostIn(lostOf, {"feeds"}) = {}
           /\ ToSet(Needs(plan)["samples"]) \subseteq keys["samples"]
           /\ ToSet(Needs(plan)["hashes"]) \subseteq keys["hashes"]
    <2> SUFFICES ASSUME LostIn(lostOf, Sides \cup {"feeds"}) = {}
                 PROVE  /\ LostIn(lostOf, {"feeds"}) = {}
                        /\ ToSet(Needs(plan)["samples"]) \subseteq keys["samples"]
                        /\ ToSet(Needs(plan)["hashes"]) \subseteq keys["hashes"]
      OBVIOUS
    <2> QED BY <1>1 DEF Asks, LostIn, Sides
  <1> QED BY <1>1, <1>2, FeedAgrees, SampleAgrees DEF FeedTold, Asks, LostIn

(* What may be told where no report speaks.                                *)
LEMMA NotFoundParts ==
    ASSUME NEW plan, NEW returned, NEW lostOf, NEW a,
           a = NotFoundIn(plan, returned, lostOf)
    PROVE  /\ a.status \in {"elsewhere", "error", "unseen"}
           /\ a.status = "error" => LostIn(lostOf, Sides \cup {"feeds"}) # {}
           /\ a.status = "unseen" =>
                /\ LostIn(lostOf, Sides \cup {"feeds"}) = {}
                /\ ~InSample(plan, returned)
                /\ FeedTold(plan, returned, lostOf) = None
           /\ a.sample => InSample(plan, returned)
           /\ a.listed # None => a.listed = FeedTold(plan, returned, lostOf)
  <1> DEFINE sample == InSample(plan, returned)
             listed == FeedTold(plan, returned, lostOf)
             lost == LostIn(lostOf, Sides \cup {"feeds"})
  <1>1. CASE sample \/ listed # None
    <2>1. a = Says("elsewhere", None, {}, None, None, sample, listed)
      BY <1>1 DEF NotFoundIn
    <2> HIDE DEF sample, listed
    <2> QED BY <2>1, SaysIs DEF sample, listed
  <1>2. CASE ~(sample \/ listed # None) /\ lost # {}
    BY <1>2 DEF Says, NotFoundIn
  <1>3. CASE ~(sample \/ listed # None) /\ lost = {}
    BY <1>3 DEF Says, NotFoundIn
  <1> QED BY <1>1, <1>2, <1>3

(* Every answer to a row the reports are asked about is true.              *)
LEMMA ConsultedSpeaksTruly ==
    ASSUME IInv, NEW s, NEW r, Consulted(r), NEW keys, NEW returned,
           returned = Returned(Stored, s, keys), NEW content,
           content = BundleSince(s), NEW plan, plan = Plan(r), NEW lostOf,
           Asks(plan, keys, lostOf), NEW a \in AnswersFor(plan, returned, lostOf)
    PROVE  SpeaksTruly(a, r, plan, Evaluate(content, r), content,
                       \E g \in ToSet(Group) : lostOf[g] # {})
  <1> DEFINE offline == Evaluate(content, r)
             anyLost == \E g \in ToSet(Group) : lostOf[g] # {}
  <1>1. /\ plan.skip = {} /\ plan.used \notin SampleOnlyTypes
    BY PlanParts
  <1>2. NewsGroups \cup Sides \cup {"feeds"} \subseteq ToSet(Group)
    BY GroupIs DEF NewsGroups, Sides
  <1>3. /\ InSample(plan, returned) => LookedAt(r, plan) # {}
        /\ FeedTold(plan, returned, lostOf) # None
             => FeedTold(plan, returned, lostOf) \in ListedOf(r, plan)
        /\ /\ LostIn(lostOf, Sides \cup {"feeds"}) = {}
           /\ ~InSample(plan, returned)
           /\ FeedTold(plan, returned, lostOf) = None
           => /\ LookedAt(r, plan) = {}
              /\ AsksFeeds(plan) => ListedOf(r, plan) = {}
    BY SidesAreTrue DEF Looked
  <1>4. SUFFICES
          /\ a.status = "error" => anyLost
          /\ a.status = "hit" =>
                /\ a.record = content.values[a.match.key]
                /\ Answer("hit", a.match, {}, a.intel) \in offline
          /\ a.status = "excluded" =>
                Answer("excluded", None, a.reasons, None) \in offline
          /\ a.status \in {"unseen", "elsewhere"} =>
                \E o \in offline : o.status = "miss" \/ UrlChild(o)
          /\ a.status = "unseen" =>
                /\ LookedAt(r, plan) = {}
                /\ AsksFeeds(plan) => ListedOf(r, plan) = {}
          /\ a.sample => LookedAt(r, plan) # {}
          /\ a.listed # None => a.listed \in ListedOf(r, plan)
    BY <1>1 DEF SpeaksTruly, LookedAt
  <1>5. CASE LostIn(lostOf, NewsGroups) # {}
    BY <1>1, <1>2, <1>5, AnswersAre DEF LostIn, Says
  <1>6. CASE LostIn(lostOf, NewsGroups) = {}
    <2>1. Sees(s, r, keys, returned, content, plan)
      BY <1>2, <1>6 DEF Sees, Covered, Asks, LostIn
    <2>2. PICK m \in MatchOf(plan, returned) :
              a = DecidedBy(plan, returned, lostOf, m)
      <3>1. AnswersFor(plan, returned, lostOf)
            = Decisions(plan, returned, lostOf)
        BY <1>1, <1>6, AnswersAre
      <3> QED BY <3>1 DEF Decisions
    <2>3. PICK out : out = ExclusionOf(plan, m.method, returned)
      OBVIOUS
    <2>4. CASE out # {}
      <3>1. /\ a.status = "excluded" /\ a.reasons = out
            /\ a.sample = InSample(plan, returned)
            /\ a.listed = FeedTold(plan, returned, lostOf)
        BY <2>2, <2>3, <2>4, SaysIs DEF DecidedBy
      <3>2. Answer("excluded", None, out, None) \in offline
        BY <2>1, <2>3, <2>4, ExcludedIsTrue
      <3>3. a.sample => InSample(plan, returned)
        BY <3>1, Zenon
      <3> QED BY <1>3, <3>1, <3>2, <3>3
    <2>5. CASE out = {} /\ m.key = None
      <3>1. /\ a.status \in {"elsewhere", "error", "unseen"}
            /\ a.status = "error" => LostIn(lostOf, Sides \cup {"feeds"}) # {}
            /\ a.status = "unseen" =>
                /\ LostIn(lostOf, Sides \cup {"feeds"}) = {}
                /\ ~InSample(plan, returned)
                /\ FeedTold(plan, returned, lostOf) = None
            /\ a.sample => InSample(plan, returned)
            /\ a.listed # None => a.listed = FeedTold(plan, returned, lostOf)
        BY <2>2, <2>3, <2>5, NotFoundParts DEF DecidedBy
      <3>2. \E o \in offline : o.status = "miss" \/ UrlChild(o)
        BY <2>1, <2>3, <2>5, MissIsTrue
      <3>3. LostIn(lostOf, Sides \cup {"feeds"}) # {} => anyLost
        BY <1>2 DEF LostIn
      <3> HIDE DEF offline, anyLost
      <3> QED BY <1>3, <3>1, <3>2, <3>3
    <2>6. CASE out = {} /\ m.key # None
      <3>1. a = HitBy(plan, returned, lostOf, m)
        BY <2>2, <2>3, <2>6 DEF DecidedBy
      <3>2. /\ a.status = "hit" /\ a.match = m
            /\ a.record = content.values[m.key]
            /\ Answer("hit", m, {}, a.intel) \in offline
            /\ a.sample => InSample(plan, returned)
            /\ a.listed = FeedTold(plan, returned, lostOf)
        <4>1. ExclusionOf(plan, m.method, returned) = {} /\ m.key # None
          BY <2>3, <2>6
        <4> QED BY <2>1, <3>1, <4>1, HitIsTrue
      <3> HIDE DEF offline, anyLost
      <3> QED BY <1>3, <3>2
    <2> QED BY <2>4, <2>5, <2>6
  <1> QED BY <1>5, <1>6

(* Every answer to what only samples have is true: a record or an          *)
(* exclusion, where another row of the call brought one in, is its own.    *)
LEMMA ArtefactSpeaksTruly ==
    ASSUME IInv, NEW s, NEW r, IsRow(r), r.type \in SampleOnlyTypes,
           PlanSkip(r) = {}, NEW keys, NEW returned,
           returned = Returned(Stored, s, keys), NEW content,
           content = BundleSince(s), NEW plan, plan = Plan(r), NEW lostOf,
           Asks(plan, keys, lostOf), NEW a \in AnswersFor(plan, returned, lostOf)
    PROVE  SpeaksTruly(a, r, plan, Evaluate(content, r), content,
                       \E g \in ToSet(Group) : lostOf[g] # {})
  <1> DEFINE anyLost == \E g \in ToSet(Group) : lostOf[g] # {}
  <1>1. /\ plan.skip = {} /\ plan.used \in SampleOnlyTypes /\ plan.used # "url"
        /\ plan.key = r.text /\ plan.wholes = <<>> /\ plan.parents = <<>>
        /\ plan.registrable = <<>>
    BY ArtefactPlan DEF SampleOnlyTypes
  <1>2. Looked(r)
    BY DEF Looked
  <1>3. NewsGroups \cup Sides \cup {"feeds"} \subseteq ToSet(Group)
    BY GroupIs DEF NewsGroups, Sides
  <1>4. /\ InSample(plan, returned) => LookedAt(r, plan) # {}
        /\ FeedTold(plan, returned, lostOf) # None
             => FeedTold(plan, returned, lostOf) \in ListedOf(r, plan)
        /\ /\ LostIn(lostOf, Sides \cup {"feeds"}) = {}
           /\ ~InSample(plan, returned)
           /\ FeedTold(plan, returned, lostOf) = None
           => /\ LookedAt(r, plan) = {}
              /\ AsksFeeds(plan) => ListedOf(r, plan) = {}
    BY <1>2, SidesAreTrue
  <1>5. SUFFICES
          /\ a.status = "error" => anyLost
          /\ a.status = "hit" =>
                /\ a.record = content.values[a.match.key]
                /\ a.match = [method |-> "exact", key |-> r.text]
          /\ a.status = "excluded" => a.reasons = content.excluded[r.text]
          /\ a.status = "unseen" =>
                /\ LookedAt(r, plan) = {}
                /\ AsksFeeds(plan) => ListedOf(r, plan) = {}
          /\ a.sample => LookedAt(r, plan) # {}
          /\ a.listed # None => a.listed \in ListedOf(r, plan)
    BY <1>1 DEF SpeaksTruly, LookedAt
  <1>6. CASE LostIn(lostOf, NewsGroups) # {}
    BY <1>1, <1>3, <1>6, AnswersAre DEF LostIn, Says
  <1>7. CASE LostIn(lostOf, NewsGroups) = {}
    <2>1. PICK m \in MatchOf(plan, returned) :
              a = DecidedBy(plan, returned, lostOf, m)
      <3>1. AnswersFor(plan, returned, lostOf)
            = Decisions(plan, returned, lostOf)
        BY <1>1, <1>7, AnswersAre
      <3> QED BY <3>1 DEF Decisions
    <2>2. \/ /\ m = [method |-> "exact", key |-> r.text]
             /\ r.text \in DOMAIN returned.records
          \/ m = Nothing
      <3>1. MatchOf(plan, returned) =
              IF KeyKnown(plan, returned) THEN FoundBy("exact", {r.text})
              ELSE FoundBy(None, {None})
        BY <1>1, NearestNone, MatchOfIs
           DEF WholeKnown, ParentKnown, ChildrenKnown, UnderKnown
      <3> QED BY <1>1, <3>1, FoundByIs DEF FoundBy, KeyKnown
    <2>3. \A t \in DOMAIN returned.exclusions :
                returned.exclusions[t] = content.excluded[t]
      <3>1. returned.exclusions = ExclusionsOf(s, keys)
            /\ content.excluded = ExcludedOf(Since(s))
        BY ReturnedIs, SinceIs
      <3> QED BY <3>1, ExclusionsAre
    <2>4. PICK out : out = ExclusionOf(plan, m.method, returned)
      OBVIOUS
    <2>5. out # {} => out = content.excluded[r.text]
      BY <1>1, <2>3, <2>4, NearestNone DEF ExclusionOf
    <2>6. CASE out # {}
      <3>1. /\ a.status = "excluded" /\ a.reasons = out
            /\ a.sample = InSample(plan, returned)
            /\ a.listed = FeedTold(plan, returned, lostOf)
        BY <2>1, <2>4, <2>6, SaysIs DEF DecidedBy
      <3>2. a.sample => InSample(plan, returned)
        BY <3>1, Zenon
      <3> QED BY <1>4, <2>5, <2>6, <3>1, <3>2
    <2>7. CASE out = {} /\ m = Nothing
      <3>1. /\ a.status \in {"elsewhere", "error", "unseen"}
            /\ a.status = "error" => LostIn(lostOf, Sides \cup {"feeds"}) # {}
            /\ a.status = "unseen" =>
                /\ LostIn(lostOf, Sides \cup {"feeds"}) = {}
                /\ ~InSample(plan, returned)
                /\ FeedTold(plan, returned, lostOf) = None
            /\ a.sample => InSample(plan, returned)
            /\ a.listed # None => a.listed = FeedTold(plan, returned, lostOf)
        BY <2>1, <2>4, <2>7, NotFoundParts DEF DecidedBy, Nothing
      <3>2. LostIn(lostOf, Sides \cup {"feeds"}) # {} => anyLost
        BY <1>3 DEF LostIn
      <3> HIDE DEF anyLost
      <3> QED BY <1>4, <3>1, <3>2
    <2>8. CASE out = {} /\ m # Nothing
      <3>1. m = [method |-> "exact", key |-> r.text]
            /\ m.key = r.text /\ r.text \in DOMAIN returned.records
        BY <2>2, <2>8
      <3>2. m.key # None /\ returned.records[m.key].citations # {}
            /\ returned.records[m.key] = content.values[m.key]
        BY <3>1, KnownIs, ContentIs
      <3>3. /\ a.status = "hit" /\ a.match = m
            /\ a.record = returned.records[m.key]
            /\ a.sample = InSample(plan, returned)
            /\ a.listed = FeedTold(plan, returned, lostOf)
        BY <2>1, <2>4, <2>8, <3>2, SaysIs DEF HitBy, DecidedBy
      <3>4. a.sample => InSample(plan, returned)
        BY <3>3, Zenon
      <3> HIDE DEF anyLost
      <3> QED BY <1>4, <3>1, <3>2, <3>3, <3>4
    <2> QED BY <2>6, <2>7, <2>8
  <1> QED BY <1>6, <1>7

(* A row that is not skipped is answered.                                  *)
LEMMA NotAllSkipped ==
    ASSUME NEW content, NEW r, Skips(r) = {}
    PROVE  \E o \in Evaluate(content, r) : o.status # "skipped"
  <1>1. ASSUME NEW m PROVE \E o \in Told(content, r, m) : o.status # "skipped"
    <2>1. \A st, ma, re, i : Answer(st, ma, re, i).status = st
      BY DEF Answer
    <2>2. CASE Outranks(content, r, m.method) # {}
      <3>1. PICK t \in Outranks(content, r, m.method) : TRUE
        BY <2>2
      <3> QED BY <2>1, <2>2 DEF Told
    <2>3. CASE Outranks(content, r, m.method) = {}
      BY <2>1, <2>3 DEF Told
    <2> QED BY <2>2, <2>3
  <1>2. PICK found : found = Match(content, r.text, Used(r))
    OBVIOUS
  <1>3. CASE found = {}
    BY <1>1, <1>2, <1>3, EvaluateHas
  <1>4. CASE found # {}
    <2>1. PICK m \in found : TRUE
      BY <1>4
    <2> QED BY <1>1, <1>2, <2>1, EvaluateHas
  <1> QED BY <1>3, <1>4

(* What a value that a call looks up is told, whatever becomes of the      *)
(* call's statements.                                                      *)
TellsTruly(call, plans, i, content) ==
    /\ plans[i].used \in KnownTypes =>
          ~ \A o \in Evaluate(content, call.rows[i]) : o.status = "skipped"
    /\ \A course \in CallCourses[call] :
          \A a \in AnswersFor(plans[i],
                              Returned(Stored, call.since, course.keys),
                              course.lost[i]) :
              SpeaksTruly(a, call.rows[i], plans[i],
                          Evaluate(content, call.rows[i]), content,
                          \E g \in ToSet(Group) : course.lost[i][g] # {})

(* Every answer to a value that was not skipped is what the validator says  *)
(* of it, or owns up to what was lost.                                      *)
LEMMA AskedSpeaksTruly ==
    ASSUME IInv, NEW call \in Calls, NEW plans, plans = Plans(call.rows),
           NEW i \in DOMAIN plans, plans[i].skip = {}, ~CutShort(call.rows[i]),
           NEW content, content = BundleSince(call.since)
    PROVE  TellsTruly(call, plans, i, content)
  <1>1. PICK r : r = call.rows[i]
    OBVIOUS
  <1>2. IsRow(r) /\ plans[i] = Plan(r)
    BY <1>1, PlansAre
  <1>3. PlanSkip(r) = {}
    BY <1>2, PlanIs
  <1>4. ~CutShort(r)
    BY <1>1
  <1>5. r.type \in SampleOnlyTypes \/ Consulted(r)
    BY <1>2, <1>3, <1>4 DEF Consulted
  <1>6. ASSUME plans[i].used \in KnownTypes
        PROVE  \E o \in Evaluate(content, r) : o.status # "skipped"
    <2>1. Looked(r)
      BY <1>2, <1>3, <1>5 DEF Looked
    <2>2. r.type \notin SampleOnlyTypes
      BY <1>2, <1>6, <2>1, LookedParts DEF KnownTypes, SampleOnlyTypes
    <2>3. Skips(r) = {}
      BY <1>2, <1>3, <1>4, <2>2, PlanAgrees
    <2> QED BY <2>3, NotAllSkipped
  <1>7. ASSUME NEW course \in CallCourses[call], NEW a,
               a \in AnswersFor(plans[i],
                                Returned(Stored, call.since, course.keys),
                                course.lost[i])
        PROVE  SpeaksTruly(a, r, plans[i], Evaluate(content, r), content,
                           \E g \in ToSet(Group) : course.lost[i][g] # {})
    <2>1. PICK lostOf : lostOf = course.lost[i]
      OBVIOUS
    <2>2. PICK keys : keys = course.keys
      OBVIOUS
    <2>3. PICK plan : plan = Plan(r)
      OBVIOUS
    <2>4. Asks(plan, keys, lostOf)
      BY <1>2, <2>1, <2>2, <2>3, NothingMissing DEF Asks
    <2>5. PICK returned : returned = Returned(Stored, call.since, keys)
      OBVIOUS
    <2>6. a \in AnswersFor(plan, returned, lostOf)
      BY <1>2, <1>7, <2>1, <2>2, <2>3, <2>5
    <2>7. SpeaksTruly(a, r, plan, Evaluate(content, r), content,
                      \E g \in ToSet(Group) : lostOf[g] # {})
      <3>1. CASE Consulted(r)
        BY <2>3, <2>4, <2>5, <2>6, <3>1, ConsultedSpeaksTruly
      <3>2. CASE r.type \in SampleOnlyTypes
        BY <1>2, <1>3, <2>3, <2>4, <2>5, <2>6, <3>2, ArtefactSpeaksTruly
      <3> QED BY <1>5, <3>1, <3>2
    <2> QED BY <1>2, <2>1, <2>3, <2>7
  <1> QED BY <1>1, <1>6, <1>7 DEF TellsTruly

(* Whatever becomes of its statements, the service's hits and exclusions   *)
(* are the offline validator's of the same days, its errors are of values  *)
(* that lost a statement, and it says unseen of nothing that a report or a *)
(* feed has, or a sample in a form it looks at.  Not said: the rows that   *)
(* CutShort and UrlChild name, samples' URLs with a slash at the end       *)
(* (PassedOver), and whether a hit should stand whose sample or feed       *)
(* statement was lost (enrichObservables).                                 *)
THEOREM LookupsSpeakTruly == Spec => []LookupSpeaksTruly
  <1>1. IInv => LookupSpeaksTruly
    <2> SUFFICES ASSUME IInv, NEW call \in Calls
                 PROVE
           LET content == BundleSince(call.since)
               plans == CallPlans[call]
               offline == [i \in DOMAIN plans |->
                               Evaluate(content, call.rows[i])]
               skips(i) == \A o \in offline[i] : o.status = "skipped"
               asked == {i \in DOMAIN plans :
                             plans[i].skip = {} /\ ~CutShort(call.rows[i])}
            IN  /\ \A i \in asked : plans[i].used \in KnownTypes => ~skips(i)
                /\ \A course \in CallCourses[call] :
                     LET told == Enrich(Stored, call, plans, course)
                         lacks(i) == \E g \in ToSet(Group) :
                                         course.lost[i][g] # {}
                     IN  \A i \in asked : \A a \in told[i] :
                            SpeaksTruly(a, call.rows[i], plans[i], offline[i],
                                        content, lacks(i))
      BY DEF LookupSpeaksTruly
    <2>1. PICK plans : plans = Plans(call.rows)
      OBVIOUS
    <2>2. PICK content : content = BundleSince(call.since)
      OBVIOUS
    <2>3. ASSUME NEW i \in DOMAIN plans, plans[i].skip = {},
                 ~CutShort(call.rows[i])
          PROVE  /\ plans[i].used \in KnownTypes =>
                      ~ \A o \in Evaluate(content, call.rows[i]) :
                            o.status = "skipped"
                 /\ \A course \in CallCourses[call] :
                      \A a \in Enrich(Stored, call, plans, course)[i] :
                          SpeaksTruly(a, call.rows[i], plans[i],
                                      Evaluate(content, call.rows[i]), content,
                                      \E g \in ToSet(Group) :
                                          course.lost[i][g] # {})
      <3>1. TellsTruly(call, plans, i, content)
        BY <2>1, <2>2, <2>3, AskedSpeaksTruly
      <3>2. ASSUME NEW course \in CallCourses[call],
                   NEW a \in Enrich(Stored, call, plans, course)[i]
            PROVE  SpeaksTruly(a, call.rows[i], plans[i],
                               Evaluate(content, call.rows[i]), content,
                               \E g \in ToSet(Group) : course.lost[i][g] # {})
        BY <3>1 DEF TellsTruly, Enrich
      <3> QED BY <3>1, <3>2 DEF TellsTruly
    <2> QED BY <2>1, <2>2, <2>3 DEF CallPlans
  <1>2. Spec => []IInv
    BY Inductive
  <1> QED BY <1>1, <1>2, PTL
=============================================================================
