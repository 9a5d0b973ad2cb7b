----------------------------- MODULE FoldProofs -----------------------------
(***************************************************************************)
(* What the proofs about Resources, Filesystem and Formatting need of the  *)
(* folds of modules Functions and SequencesExt: a sum over a finite set is *)
(* of the type of its values, is independent of the order, and grows with  *)
(* them and with the set; flattening goes sequence by sequence.  The       *)
(* library's rules of induction take an operator; these take a set         *)
(* instead, and follow from there being a least counterexample.            *)
(***************************************************************************)
EXTENDS Integers, FiniteSets, SequencesExt, FiniteSetTheorems, SequenceTheorems,
        WellFoundedInduction, TLAPS

(* Induction on the natural numbers, for a set of them.                    *)
LEMMA SetInduction ==
  ASSUME NEW T, 0 \in T, \A n \in Nat : n \in T => n + 1 \in T
  PROVE  Nat \subseteq T
<1> DEFINE C == Nat \ T
<1> SUFFICES ASSUME C # {} PROVE FALSE
  OBVIOUS
<1>1. PICK x \in C : \A y \in C : <<y, x>> \notin OpToRel(<, Nat)
  BY NatLessThanWellFounded, WFMin
<1>3. x # 0 /\ x - 1 \in Nat /\ x - 1 < x
  OBVIOUS
<1>2. <<x - 1, x>> \in {ss \in Nat \X Nat : ss[1] < ss[2]}
  BY <1>3
<1>4. <<x - 1, x>> \in OpToRel(<, Nat)
  BY <1>2, Zenon DEF OpToRel
<1>5. x - 1 \in T
  BY <1>1, <1>3, <1>4
<1> QED BY <1>3, <1>5

LEMMA SizesOfSubsets ==
  ASSUME NEW S, IsFiniteSet(S), NEW s \in SUBSET S
  PROVE  /\ Cardinality(s) \in Nat /\ (Cardinality(s) = 0 <=> s = {})
         /\ \A x \in s : Cardinality(s \ {x}) = Cardinality(s) - 1
<1>1. IsFiniteSet(s)
  BY FS_Subset
<1>2. Cardinality(s) \in Nat /\ (Cardinality(s) = 0 <=> s = {})
  BY <1>1, FS_CardinalityType, FS_EmptySet
<1>3. \A x \in s : Cardinality(s \ {x}) = Cardinality(s) - 1
  BY <1>1, FS_RemoveElement
<1> QED BY <1>2, <1>3

(* A finite set is reached from the empty one, one element at a time.      *)
LEMMA SubsetInduction ==
  ASSUME NEW S, IsFiniteSet(S), NEW T, {} \in T,
         \A s \in SUBSET S : s # {} /\ (\A x \in s : s \ {x} \in T) => s \in T
  PROVE  SUBSET S \subseteq T
<1> DEFINE N == {n \in Nat : \A s \in SUBSET S : Cardinality(s) = n => s \in T}
<1>1. \A s \in SUBSET S : /\ Cardinality(s) \in Nat /\ (Cardinality(s) = 0 <=> s = {})
                        /\ \A x \in s : Cardinality(s \ {x}) = Cardinality(s) - 1
  BY SizesOfSubsets
<1>2. 0 \in N
  BY <1>1
<1>3. ASSUME NEW n \in Nat, n \in N PROVE n + 1 \in N
  <2> SUFFICES ASSUME NEW s \in SUBSET S, Cardinality(s) = n + 1 PROVE s \in T
    OBVIOUS
  <2>1. s # {}
    BY <1>1
  <2>2. ASSUME NEW x \in s PROVE s \ {x} \in T
    <3>1. Cardinality(s \ {x}) = n
      BY <1>1
    <3> QED BY <1>3, <3>1
  <2> QED BY <2>1, <2>2
<1>4. Nat \subseteq N
  <2> HIDE DEF N
  <2> QED BY <1>2, <1>3, SetInduction
<1> QED BY <1>1, <1>4

-----------------------------------------------------------------------------
(* What SumFunctionOnSet computes: a sum over a set is the value of the    *)
(* element it chooses and the sum over the set without that.               *)
Rule(g, f, s) == IF s = {} THEN 0 ELSE LET x == CHOOSE x \in s : TRUE IN f[x] + g[s \ {x}]

(* The recursive definition of the library does define a function: it      *)
(* exists up to any size of sets, by induction on that size.               *)
LEMMA SumsExist ==
  ASSUME NEW S, IsFiniteSet(S), NEW f
  PROVE  \E g : g = [s \in SUBSET S |-> Rule(g, f, s)]
<1> DEFINE Good(g, n) == \A s \in SUBSET S : Cardinality(s) <= n => g[s] = Rule(g, f, s)
           N == {n \in Nat : \E g : Good(g, n)}
<1>1. \A s \in SUBSET S : /\ Cardinality(s) \in Nat /\ (Cardinality(s) = 0 <=> s = {})
                        /\ \A x \in s : Cardinality(s \ {x}) = Cardinality(s) - 1
  BY SizesOfSubsets
<1>2. 0 \in N
  <2> DEFINE g == [s \in SUBSET S |-> 0]
  <2>1. ASSUME NEW s \in SUBSET S, Cardinality(s) <= 0 PROVE s = {}
    <3>1. Cardinality(s) = 0
      BY <1>1, <2>1
    <3> QED BY <1>1, <3>1
  <2>2. g[{}] = Rule(g, f, {})
    BY DEF Rule
  <2> HIDE DEF g
  <2>3. Good(g, 0)
    BY <2>1, <2>2
  <2> QED BY <2>3
<1>3. ASSUME NEW n \in Nat, n \in N PROVE n + 1 \in N
  <2>1. PICK g : Good(g, n)
    BY <1>3
  <2> DEFINE h == [s \in SUBSET S |-> Rule(g, f, s)]
  <2>2. ASSUME NEW s \in SUBSET S, Cardinality(s) <= n + 1 PROVE h[s] = Rule(h, f, s)
    <3>1. CASE s = {}
      BY <3>1 DEF Rule
    <3>2. CASE s # {}
      <4> DEFINE x == CHOOSE x \in s : TRUE
                 r == s \ {x}
      <4>1. r \in SUBSET S /\ Cardinality(r) <= n
        BY <1>1, <2>2, <3>2
      <4>2. g[r] = Rule(g, f, r) /\ h[r] = Rule(g, f, r)
        BY <2>1, <4>1
      <4>3. Rule(g, f, s) = f[x] + g[r] /\ Rule(h, f, s) = f[x] + h[r]
        BY <3>2 DEF Rule
      <4> QED BY <4>2, <4>3
    <3> QED BY <3>1, <3>2
  <2> HIDE DEF h
  <2>3. Good(h, n + 1)
    BY <2>2
  <2> QED BY <2>3
<1>4. Cardinality(S) \in N
  <2> HIDE DEF N
  <2> QED BY <1>1, <1>2, <1>3, SetInduction
<1>5. PICK g : Good(g, Cardinality(S))
  BY <1>4
<1>6. ASSUME NEW s \in SUBSET S PROVE g[s] = Rule(g, f, s)
  <2>1. Cardinality(s) <= Cardinality(S)
    BY FS_Subset
  <2> QED BY <1>5, <2>1
<1> DEFINE h == [s \in SUBSET S |-> g[s]]
<1>7. ASSUME NEW s \in SUBSET S PROVE Rule(h, f, s) = Rule(g, f, s)
  BY <1>1 DEF Rule
<1>8. h = [s \in SUBSET S |-> Rule(h, f, s)]
  <2>1. \A s \in SUBSET S : h[s] = Rule(h, f, s)
    BY <1>6, <1>7
  <2>2. h = [s \in SUBSET S |-> h[s]]
    OBVIOUS
  <2> HIDE DEF h
  <2> QED BY <2>1, <2>2
<1> HIDE DEF h
<1> QED BY <1>8

(* The sums that two recursive functions compute agree where both do.      *)
LEMMA SumRule ==
  ASSUME NEW S, IsFiniteSet(S), NEW f
  PROVE  SumFunctionOnSet(f, S) = IF S = {} THEN 0 
             ELSE LET x == CHOOSE x \in S : TRUE IN f[x] + SumFunctionOnSet(f, S \ {x})
<1> DEFINE sums(R) == CHOOSE g : g = [s \in SUBSET R |-> Rule(g, f, s)]
<1>1. ASSUME NEW R, IsFiniteSet(R)
      PROVE  sums(R) = [s \in SUBSET R |-> Rule(sums(R), f, s)]
  BY <1>1, SumsExist
<1>2. ASSUME NEW R PROVE SumFunctionOnSet(f, R) = sums(R)[R]
  BY DEF SumFunctionOnSet, FoldFunctionOnSet, MapThenFoldSet, Rule
<1> HIDE DEF sums
<1>3. CASE S = {}
  BY <1>1, <1>2, <1>3 DEF Rule
<1>4. CASE S # {}
  <2> DEFINE x == CHOOSE x \in S : TRUE
             R == S \ {x}
             T == {s \in SUBSET R : sums(S)[s] = sums(R)[s]}
  <2>1. IsFiniteSet(R) /\ x \in S
    BY <1>4, FS_RemoveElement
  <2>2. \A s \in SUBSET R : /\ sums(S)[s] = Rule(sums(S), f, s)
                            /\ sums(R)[s] = Rule(sums(R), f, s)
    BY <1>1, <2>1
  <2>3. {} \in T
    BY <2>2 DEF Rule
  <2>4. ASSUME NEW s \in SUBSET R, s # {}, \A y \in s : s \ {y} \in T PROVE s \in T
    BY <2>2, <2>4 DEF Rule
  <2>5. SUBSET R \subseteq T
    <3> HIDE DEF T, R
    <3> QED BY <2>1, <2>3, <2>4, SubsetInduction
  <2>6. sums(S)[R] = sums(R)[R]
    BY <2>5
  <2>7. sums(S)[S] = f[x] + sums(S)[R]
    BY <1>1, <1>4 DEF Rule
  <2> QED BY <1>2, <1>4, <2>6, <2>7
<1> QED BY <1>3, <1>4

(* The same element is chosen whatever the values are.                     *)
LEMMA SumStep ==
  ASSUME NEW S, IsFiniteSet(S), S # {}
  PROVE  \E x \in S : \A f : SumFunctionOnSet(f, S) = f[x] + SumFunctionOnSet(f, S \ {x})
<1> DEFINE x == CHOOSE x \in S : TRUE
<1>1. x \in S
  OBVIOUS
<1>2. ASSUME NEW f PROVE SumFunctionOnSet(f, S) = f[x] + SumFunctionOnSet(f, S \ {x})
  BY SumRule
<1> HIDE DEF x
<1> QED BY <1>1, <1>2

LEMMA SumOfNone == ASSUME NEW f PROVE SumFunctionOnSet(f, {}) = 0
  BY SumRule, FS_EmptySet

LEMMA SumIsNat ==
  ASSUME NEW S, IsFiniteSet(S), NEW f, \A p \in S : f[p] \in Nat
  PROVE  SumFunctionOnSet(f, S) \in Nat
<1> DEFINE T == {s \in SUBSET S : SumFunctionOnSet(f, s) \in Nat}
<1>1. {} \in T
  BY SumOfNone
<1>2. ASSUME NEW s \in SUBSET S, s # {}, \A x \in s : s \ {x} \in T PROVE s \in T
  <2>1. PICK x \in s : \A h : SumFunctionOnSet(h, s) = h[x] + SumFunctionOnSet(h, s \ {x})
    BY <1>2, SumStep, FS_Subset
  <2> QED BY <1>2, <2>1
<1> HIDE DEF T
<1>3. SUBSET S \subseteq T
  BY <1>1, <1>2, SubsetInduction
<1> QED BY <1>3 DEF T

(* Whichever element is taken out, its value is what the sum has lost.     *)
LEMMA SumTakesOut ==
  ASSUME NEW S, IsFiniteSet(S), NEW f, \A p \in S : f[p] \in Nat, NEW x \in S
  PROVE  SumFunctionOnSet(f, S) = f[x] + SumFunctionOnSet(f, S \ {x})
<1> DEFINE T == {s \in SUBSET S : \A y \in s : SumFunctionOnSet(f, s) = f[y] + SumFunctionOnSet(f, s \ {y})}
<1>1. {} \in T
  OBVIOUS
<1>2. ASSUME NEW s \in SUBSET S, s # {}, \A y \in s : s \ {y} \in T PROVE s \in T
  <2> SUFFICES ASSUME NEW y \in s PROVE SumFunctionOnSet(f, s) = f[y] + SumFunctionOnSet(f, s \ {y})
    OBVIOUS
  <2> DEFINE c == CHOOSE c \in s : TRUE
  <2>1. c \in s /\ SumFunctionOnSet(f, s) = f[c] + SumFunctionOnSet(f, s \ {c})
    <3>1. IsFiniteSet(s)
      BY FS_Subset
    <3> QED BY <1>2, <3>1, SumRule
  <2> HIDE DEF c
  <2>2. CASE y = c
    BY <2>1, <2>2
  <2>3. CASE y # c
    <3> DEFINE r == (s \ {c}) \ {y}
    <3>1. SumFunctionOnSet(f, s \ {c}) = f[y] + SumFunctionOnSet(f, r)
      BY <1>2, <2>1, <2>3
    <3>2. (s \ {y}) \ {c} = r
      OBVIOUS
    <3>3. SumFunctionOnSet(f, s \ {y}) = f[c] + SumFunctionOnSet(f, r)
      BY <1>2, <2>1, <2>3, <3>2
    <3>4. SumFunctionOnSet(f, r) \in Nat
      <4>1. IsFiniteSet(r)
        BY FS_Subset
      <4> QED BY <4>1, SumIsNat
    <3> QED BY <2>1, <3>1, <3>3, <3>4
  <2> QED BY <2>2, <2>3
<1> HIDE DEF T
<1>3. SUBSET S \subseteq T
  BY <1>1, <1>2, SubsetInduction
<1> QED BY <1>3 DEF T

(* Greater summands, and more of them, have no smaller sum.  Zeros in the  *)
(* smaller sum may be missing in the greater one.                          *)
LEMMA SumGrows ==
  ASSUME NEW R, IsFiniteSet(R), NEW f, NEW S, IsFiniteSet(S), NEW g,
         \A p \in S : g[p] \in Nat,
         \A p \in R : f[p] \in Nat /\ IF p \in S THEN f[p] <= g[p] ELSE f[p] = 0
  PROVE  SumFunctionOnSet(f, R) <= SumFunctionOnSet(g, S)
<1> DEFINE U == R \cup S
           Below(s) == SumFunctionOnSet(f, s \cap R) <= SumFunctionOnSet(g, s \cap S)
           T == {s \in SUBSET U : Below(s)}
<1>0. IsFiniteSet(U)
  BY FS_Union
<1>1. {} \in T
  <2>1. {} \cap R = {} /\ {} \cap S = {}
    OBVIOUS
  <2> QED BY <2>1, SumOfNone
<1>2. ASSUME NEW s \in SUBSET U, s # {}, \A y \in s : s \ {y} \in T PROVE s \in T
  <2>1. PICK y \in s : TRUE
    BY <1>2
  <2> DEFINE r == s \ {y}
  <2>2. /\ IsFiniteSet(s \cap R) /\ IsFiniteSet(r \cap R)
        /\ IsFiniteSet(s \cap S) /\ IsFiniteSet(r \cap S)
    BY FS_Subset
  <2>3. SumFunctionOnSet(f, r \cap R) \in Nat /\ SumFunctionOnSet(g, r \cap S) \in Nat
    BY <2>2, SumIsNat
  <2>4. SumFunctionOnSet(f, r \cap R) <= SumFunctionOnSet(g, r \cap S)
    BY <1>2
  <2>5. SumFunctionOnSet(f, s \cap R) =
          (IF y \in R THEN f[y] ELSE 0) + SumFunctionOnSet(f, r \cap R)
    <3>1. CASE y \in R
      <4>1. (s \cap R) \ {y} = r \cap R
        OBVIOUS
      <4> QED BY <2>2, <3>1, <4>1, SumTakesOut
    <3>2. CASE y \notin R
      <4>1. s \cap R = r \cap R
        BY <3>2
      <4>2. SumFunctionOnSet(f, s \cap R) = SumFunctionOnSet(f, r \cap R)
        BY <4>1
      <4> QED BY <2>3, <3>2, <4>2
    <3> QED BY <3>1, <3>2
  <2>6. SumFunctionOnSet(g, s \cap S) =
          (IF y \in S THEN g[y] ELSE 0) + SumFunctionOnSet(g, r \cap S)
    <3>1. CASE y \in S
      <4>1. (s \cap S) \ {y} = r \cap S
        OBVIOUS
      <4> QED BY <2>2, <3>1, <4>1, SumTakesOut
    <3>2. CASE y \notin S
      <4>1. s \cap S = r \cap S
        BY <3>2
      <4>2. SumFunctionOnSet(g, s \cap S) = SumFunctionOnSet(g, r \cap S)
        BY <4>1
      <4> QED BY <2>3, <3>2, <4>2
    <3> QED BY <3>1, <3>2
  <2>7. (IF y \in R THEN f[y] ELSE 0) <= (IF y \in S THEN g[y] ELSE 0)
        /\ (IF y \in R THEN f[y] ELSE 0) \in Nat /\ (IF y \in S THEN g[y] ELSE 0) \in Nat
    OBVIOUS
  <2>8. Below(s)
    BY <2>3, <2>4, <2>5, <2>6, <2>7
  <2> QED BY <2>8
<1> HIDE DEF T
<1>3. SUBSET U \subseteq T
  <2> HIDE DEF U
  <2> QED BY <1>0, <1>1, <1>2, SubsetInduction
<1>4. Below(U)
  BY <1>3 DEF T
<1>5. U \cap R = R /\ U \cap S = S
  OBVIOUS
<1> QED BY <1>4, <1>5

(* Values that agree on the set have one sum.                              *)
LEMMA SumOfSame ==
  ASSUME NEW S, IsFiniteSet(S), NEW f, NEW g, \A p \in S : f[p] = g[p]
  PROVE  SumFunctionOnSet(f, S) = SumFunctionOnSet(g, S)
<1> DEFINE T == {s \in SUBSET S : SumFunctionOnSet(f, s) = SumFunctionOnSet(g, s)}
<1>1. {} \in T
  BY SumOfNone
<1>2. ASSUME NEW s \in SUBSET S, s # {}, \A y \in s : s \ {y} \in T PROVE s \in T
  <2>1. PICK x \in s : \A h : SumFunctionOnSet(h, s) = h[x] + SumFunctionOnSet(h, s \ {x})
    BY <1>2, SumStep, FS_Subset
  <2> QED BY <1>2, <2>1
<1> HIDE DEF T
<1>3. SUBSET S \subseteq T
  BY <1>1, <1>2, SubsetInduction
<1> QED BY <1>3 DEF T

-----------------------------------------------------------------------------
(* Sequences.                                                              *)

(* Induction on a sequence, from its front.                                *)
LEMMA SequenceInduction ==
  ASSUME NEW C, NEW T, <<>> \in T, \A s \in Seq(C), c \in C : s \in T => Append(s, c) \in T
  PROVE  Seq(C) \subseteq T
<1> DEFINE N == {n \in Nat : \A s \in Seq(C) : Len(s) = n => s \in T}
<1>1. 0 \in N
  BY EmptySeq
<1>2. ASSUME NEW n \in Nat, n \in N PROVE n + 1 \in N
  <2> SUFFICES ASSUME NEW s \in Seq(C), Len(s) = n + 1 PROVE s \in T
    OBVIOUS
  <2>1. PICK r \in Seq(C), c \in C : s = Append(r, c)
    BY EmptySeq, SequenceEmptyOrAppend
  <2>2. Len(r) = n
    BY <2>1, AppendProperties, LenProperties
  <2> QED BY <1>2, <2>1, <2>2
<1> HIDE DEF N
<1>3. Nat \subseteq N
  BY <1>1, <1>2, SetInduction
<1> QED BY <1>3, LenProperties DEF N

(* Literal sequences, whatever they are made of.                           *)
LEMMA OneElement ==
  ASSUME NEW C, NEW a \in C
  PROVE  /\ <<a>> \in Seq(C)
         /\ \A s \in Seq(C) : s \o <<a>> = Append(s, a)
<1>1. <<a>> \in Seq(C) /\ Len(<<a>>) = 1 /\ <<a>>[1] = a
  OBVIOUS
<1>2. ASSUME NEW s \in Seq(C) PROVE s \o <<a>> = Append(s, a)
  BY AppendIsConcat
<1> QED BY <1>1, <1>2

LEMMA FourElements ==
  ASSUME NEW C, NEW a \in C, NEW b \in C, NEW c \in C, NEW d \in C
  PROVE  /\ <<a, b, c, d>> \in Seq(C)
         /\ \A s \in Seq(C) : s \o <<a, b, c, d>> = Append(Append(Append(Append(s, a), b), c), d)
<1>1. /\ <<a, b, c, d>> \in Seq(C) /\ <<a>> \in Seq(C)
      /\ <<a, b>> \in Seq(C) /\ <<a, b, c>> \in Seq(C)
  OBVIOUS
<1>2. <<a, b, c, d>> = Append(<<a, b, c>>, d) /\ <<a, b, c>> = Append(<<a, b>>, c) /\ <<a, b>> = Append(<<a>>, b)
  OBVIOUS
<1>3. ASSUME NEW s \in Seq(C), NEW r \in Seq(C), NEW x \in C
      PROVE  s \o Append(r, x) = Append(s \o r, x) /\ s \o r \in Seq(C)
  <2>1. <<x>> \in Seq(C) /\ Append(r, x) = r \o <<x>> /\ s \o r \in Seq(C)
    BY OneElement, ConcatProperties
  <2>2. Append(s \o r, x) = (s \o r) \o <<x>>
    BY OneElement, <2>1
  <2> QED BY <2>1, <2>2, ConcatAssociative
<1>4. ASSUME NEW s \in Seq(C)
      PROVE  s \o <<a, b, c, d>> = Append(Append(Append(Append(s, a), b), c), d)
  <2>1. s \o <<a>> = Append(s, a)
    BY OneElement
  <2>2. s \o <<a, b>> = Append(Append(s, a), b)
    BY <1>1, <1>2, <1>3, <2>1
  <2>3. s \o <<a, b, c>> = Append(Append(Append(s, a), b), c)
    BY <1>1, <1>2, <1>3, <2>2
  <2> QED BY <1>1, <1>2, <1>3, <2>3
<1> QED BY <1>1, <1>4

(* Every finite set of numbers has a greatest one, and Max is that.        *)
LEMMA Greatest ==
  ASSUME NEW S, IsFiniteSet(S), S \subseteq Int, S # {}
  PROVE  Max(S) \in S /\ \A x \in S : Max(S) >= x
<1> DEFINE T == {s \in SUBSET S : s # {} => \E x \in s : \A y \in s : x >= y}
<1>1. {} \in T
  OBVIOUS
<1>2. ASSUME NEW s \in SUBSET S, s # {}, \A x \in s : s \ {x} \in T PROVE s \in T
  <2>1. PICK z \in s : TRUE
    BY <1>2
  <2>2. CASE s \ {z} = {}
    BY <2>1, <2>2
  <2>3. CASE s \ {z} # {}
    <3>1. PICK x \in s \ {z} : \A y \in s \ {z} : x >= y
      BY <1>2, <2>1, <2>3
    <3>2. CASE z >= x
      <4>1. \A y \in s : z >= y
        BY <3>1, <3>2
      <4> QED BY <4>1
    <3>3. CASE ~(z >= x)
      <4>1. \A y \in s : x >= y
        BY <3>1, <3>3
      <4> QED BY <4>1
    <3> QED BY <3>2, <3>3
  <2> QED BY <2>2, <2>3
<1> HIDE DEF T
<1>3. SUBSET S \subseteq T
  BY <1>1, <1>2, SubsetInduction
<1>4. \E x \in S : \A y \in S : x >= y
  BY <1>3 DEF T
<1> QED BY <1>4 DEF Max

-----------------------------------------------------------------------------
(* What FlattenSeq computes, by the recursive definition of the library.   *)
FlatRule(g, seqs, i) == IF i = 1 THEN seqs[i] ELSE g[i - 1] \o seqs[i]
Flat(seqs, n) == CHOOSE g : g = [i \in 1..n |-> FlatRule(g, seqs, i)]
LEMMA FlatIs == ASSUME NEW seqs, Len(seqs) # 0 PROVE
  FlattenSeq(seqs) = Flat(seqs, Len(seqs))[Len(seqs)]
BY DEF FlattenSeq, Flat, FlatRule

(* There is such a function, by induction on how far it is defined.        *)
LEMMA FlattenExists ==
  ASSUME NEW n \in Nat, NEW seqs
  PROVE  \E g : g = [i \in 1..n |-> FlatRule(g, seqs, i)]
<1> DEFINE Good(g, k) == \A i \in 1..n : i <= k => g[i] = FlatRule(g, seqs, i)
           N == {k \in Nat : \E g : Good(g, k)}
<1>1. 0 \in N
  OBVIOUS
<1>2. ASSUME NEW k \in Nat, k \in N PROVE k + 1 \in N
  <2>1. PICK g : Good(g, k)
    BY <1>2
  <2> DEFINE h == [i \in 1..n |-> FlatRule(g, seqs, i)]
  <2>2. ASSUME NEW i \in 1..n, i <= k + 1 PROVE h[i] = FlatRule(h, seqs, i)
    <3>1. CASE i = 1
      BY <3>1 DEF FlatRule
    <3>2. CASE i # 1
      <4>1. i - 1 \in 1..n /\ i - 1 <= k
        BY <2>2, <3>2
      <4>2. g[i - 1] = FlatRule(g, seqs, i - 1) /\ h[i - 1] = FlatRule(g, seqs, i - 1)
        BY <2>1, <4>1
      <4>3. FlatRule(g, seqs, i) = g[i - 1] \o seqs[i] /\ FlatRule(h, seqs, i) = h[i - 1] \o seqs[i]
        BY <3>2 DEF FlatRule
      <4> QED BY <4>2, <4>3
    <3> QED BY <3>1, <3>2
  <2> HIDE DEF h
  <2>3. Good(h, k + 1)
    BY <2>2
  <2> QED BY <2>3
<1>3. n \in N
  <2> HIDE DEF N
  <2> QED BY <1>1, <1>2, SetInduction
<1>4. PICK g : \A i \in 1..n : g[i] = FlatRule(g, seqs, i)
  BY <1>3
<1> DEFINE h == [i \in 1..n |-> g[i]]
<1>5. ASSUME NEW i \in 1..n PROVE FlatRule(h, seqs, i) = FlatRule(g, seqs, i)
  BY DEF FlatRule
<1>6. h = [i \in 1..n |-> FlatRule(h, seqs, i)]
  <2>1. \A i \in 1..n : h[i] = FlatRule(h, seqs, i)
    BY <1>4, <1>5
  <2>2. h = [i \in 1..n |-> h[i]]
    OBVIOUS
  <2> HIDE DEF h
  <2> QED BY <2>1, <2>2
<1> HIDE DEF h
<1> QED BY <1>6

LEMMA FlatsAre ==
  ASSUME NEW n \in Nat, NEW seqs
  PROVE  \A i \in 1..n : Flat(seqs, n)[i] = FlatRule(Flat(seqs, n), seqs, i)
<1>1. Flat(seqs, n) = [i \in 1..n |-> FlatRule(Flat(seqs, n), seqs, i)]
  BY FlattenExists DEF Flat
<1> QED BY <1>1

(* FlattenSeq from its first sequence to its last.                         *)
LEMMA FlattenStart == FlattenSeq(<<>>) = <<>>
  BY EmptySeq DEF FlattenSeq

LEMMA FlattenStep ==
  ASSUME NEW C, NEW seqs \in Seq(Seq(C)), NEW t \in Seq(C)
  PROVE  FlattenSeq(Append(seqs, t)) = FlattenSeq(seqs) \o t
<1> DEFINE n == Len(seqs)
           longer == Append(seqs, t)
           flat == Flat(seqs, n)
           next == Flat(longer, n + 1)
<1>1. /\ n \in Nat /\ Len(longer) = n + 1
      /\ \A i \in 1..n : longer[i] = seqs[i]
      /\ longer[n + 1] = t
  BY AppendProperties, LenProperties
<1>2. FlattenSeq(longer) = next[n + 1] /\ (n # 0 => FlattenSeq(seqs) = flat[n])
  <2>1. Len(longer) # 0
    BY <1>1
  <2>2. FlattenSeq(longer) = Flat(longer, Len(longer))[Len(longer)]
    BY <2>1, FlatIs
  <2>3. n # 0 => FlattenSeq(seqs) = flat[n]
    BY FlatIs
  <2> QED BY <1>1, <2>2, <2>3
<1>3. n = 0 => seqs = <<>>
  BY EmptySeq
<1> HIDE DEF n, longer
<1>4. /\ \A i \in 1..n : flat[i] = FlatRule(flat, seqs, i)
      /\ \A i \in 1..(n + 1) : next[i] = FlatRule(next, longer, i)
  BY <1>1, FlatsAre
<1> HIDE DEF flat, next
<1>5. CASE n = 0
  <2>1. next[1] = t
    BY <1>1, <1>4, <1>5 DEF FlatRule
  <2>2. FlattenSeq(seqs) = <<>>
    BY <1>3, <1>5, FlattenStart
  <2>3. <<>> \o t = t
    BY ConcatEmptySeq
  <2> QED BY <1>2, <1>5, <2>1, <2>2, <2>3 DEF longer
<1>6. CASE n # 0
  <2> DEFINE T == {k \in Nat : k + 1 \in 1..n => next[k + 1] = flat[k + 1]}
  <2>1. 0 \in T
    <3>1. 1 \in 1..n /\ 1 \in 1..(n + 1)
      BY <1>1, <1>6
    <3>2. next[1] = flat[1]
      BY <1>1, <1>4, <3>1 DEF FlatRule
    <3> QED BY <3>2
  <2>2. ASSUME NEW k \in Nat, k \in T PROVE k + 1 \in T
    <3> SUFFICES ASSUME k + 2 \in 1..n PROVE next[k + 2] = flat[k + 2]
      BY <1>1
    <3>1. k + 1 \in 1..n /\ k + 2 \in 1..(n + 1) /\ k + 2 # 1 /\ (k + 2) - 1 = k + 1
      BY <1>1
    <3>2. next[k + 1] = flat[k + 1]
      BY <2>2, <3>1
    <3>3. next[k + 2] = next[k + 1] \o longer[k + 2] /\ flat[k + 2] = flat[k + 1] \o seqs[k + 2]
      BY <1>4, <3>1 DEF FlatRule
    <3> QED BY <1>1, <3>2, <3>3
  <2>3. n - 1 \in T
    <3> HIDE DEF T
    <3>1. n - 1 \in Nat
      BY <1>1, <1>6
    <3> QED BY <2>1, <2>2, <3>1, SetInduction
  <2>4. next[n] = flat[n]
    <3>1. (n - 1) + 1 = n /\ n \in 1..n
      BY <1>1, <1>6
    <3> QED BY <2>3, <3>1
  <2>5. next[n + 1] = next[n] \o t
    <3>1. n + 1 \in 1..(n + 1) /\ n + 1 # 1 /\ (n + 1) - 1 = n
      BY <1>1, <1>6
    <3> QED BY <1>1, <1>4, <3>1 DEF FlatRule
  <2> QED BY <1>2, <1>6, <2>4, <2>5 DEF longer
<1> QED BY <1>5, <1>6

LEMMA FlattenIsTyped ==
  ASSUME NEW C PROVE \A seqs \in Seq(Seq(C)) : FlattenSeq(seqs) \in Seq(C)
<1> DEFINE T == {seqs \in Seq(Seq(C)) : FlattenSeq(seqs) \in Seq(C)}
<1>1. <<>> \in T
  BY EmptySeq, FlattenStart
<1>2. ASSUME NEW s \in Seq(Seq(C)), NEW t \in Seq(C), s \in T PROVE Append(s, t) \in T
  BY <1>2, FlattenStep, AppendProperties, ConcatProperties
<1>3. Seq(Seq(C)) \subseteq T
  <2> HIDE DEF T
  <2> QED BY <1>1, <1>2, SequenceInduction
<1> QED BY <1>3
=============================================================================
