--------------------------- MODULE Transport_proofs ---------------------------
(* Proofs about the tie-breaker, for ids of any length.                      *)
EXTENDS Transport, WellFoundedInduction, TLAPS

LEMMA UnsignedInjective == \A x, y \in Byte : Unsigned(x) = Unsigned(y) => x = y
BY DEF Byte, Unsigned

LEMMA UnsignedNat == \A x \in Byte : Unsigned(x) \in Nat
BY DEF Byte, Unsigned

LEMMA ShorterNat ==
  ASSUME NEW a \in ByteArray, NEW b \in ByteArray
  PROVE  /\ Shorter(a, b) \in Nat /\ Shorter(a, b) = Shorter(b, a)
         /\ \A i \in 1..Shorter(a, b) : /\ i \in 1..Len(a) /\ i \in 1..Len(b)
                                        /\ a[i] \in Byte /\ b[i] \in Byte
BY DEF ByteArray, Shorter

(* Ids that differ somewhere differ at a first byte.                         *)
LEMMA FirstDifference ==
  ASSUME NEW a \in ByteArray, NEW b \in ByteArray, ~Agree(a, b, Shorter(a, b))
  PROVE  \E i \in 1..Shorter(a, b) :
           Agree(a, b, i - 1) /\ Unsigned(a[i]) # Unsigned(b[i])
<1> DEFINE D == {i \in 1..Shorter(a, b) : Unsigned(a[i]) # Unsigned(b[i])}
<1>1. D \subseteq Nat /\ D # {}
  BY ShorterNat DEF Agree
<1>2. PICK i \in D : \A j \in D : ~(<<j, i>> \in OpToRel(<, Nat))
  BY <1>1, WFMin, NatLessThanWellFounded
<1>3. \A j \in D : ~(j < i)
  BY <1>1, <1>2 DEF OpToRel
<1> QED
  BY <1>3, ShorterNat DEF Agree

(* Two peers never both dial: the order is asymmetric.                       *)
THEOREM NotBothDial ==
  ASSUME NEW a \in ByteArray, NEW b \in ByteArray, nodeIdGreater(a, b)
  PROVE  ~nodeIdGreater(b, a)
<1> DEFINE n == Shorter(a, b)
<1>1. n \in Nat /\ n = Shorter(b, a)
  BY ShorterNat
<1>2. \A i \in 1..n : Unsigned(a[i]) \in Nat /\ Unsigned(b[i]) \in Nat
  BY ShorterNat, UnsignedNat
<1>3. Len(a) \in Nat /\ Len(b) \in Nat
  BY DEF ByteArray
<1> HIDE DEF n
<1>4. CASE \E i \in 1..n : Agree(a, b, i - 1) /\ Unsigned(a[i]) > Unsigned(b[i])
  <2>1. PICK i \in 1..n : Agree(a, b, i - 1) /\ Unsigned(a[i]) > Unsigned(b[i])
    BY <1>4
  <2>2. ~Agree(b, a, n)
    BY <1>1, <1>2, <2>1 DEF Agree
  <2>3. ASSUME NEW j \in 1..n, Agree(b, a, j - 1), Unsigned(b[j]) > Unsigned(a[j])
        PROVE  FALSE
    <3>1. CASE i < j
      BY <1>1, <1>2, <2>1, <2>3, <3>1 DEF Agree
    <3>2. CASE j < i
      BY <1>1, <1>2, <2>1, <2>3, <3>2 DEF Agree
    <3>3. CASE i = j
      BY <1>1, <1>2, <2>1, <2>3, <3>3
    <3> QED
      BY <1>1, <3>1, <3>2, <3>3
  <2> QED
    BY <1>1, <2>2, <2>3 DEF nodeIdGreater
<1>5. CASE Agree(a, b, n) /\ Len(a) > Len(b)
  BY <1>1, <1>2, <1>3, <1>5 DEF nodeIdGreater, Agree
<1> QED
  BY <1>4, <1>5 DEF nodeIdGreater, n

(* And one of them does, unless they have the same id.                       *)
THEOREM OneDials ==
  ASSUME NEW a \in ByteArray, NEW b \in ByteArray, a # b
  PROVE  nodeIdGreater(a, b) \/ nodeIdGreater(b, a)
<1> DEFINE n == Shorter(a, b)
<1>1. n \in Nat /\ n = Shorter(b, a)
  BY ShorterNat
<1>2. \A i \in 1..n : /\ a[i] \in Byte /\ b[i] \in Byte
                      /\ Unsigned(a[i]) \in Nat /\ Unsigned(b[i]) \in Nat
  BY ShorterNat, UnsignedNat
<1>3. CASE Agree(a, b, n)
  <2>1. \A i \in 1..n : a[i] = b[i]
    BY <1>2, <1>3, UnsignedInjective DEF Agree
  <2>2. Len(a) # Len(b)
    BY <2>1 DEF ByteArray, Shorter
  <2>3. Agree(b, a, n)
    BY <1>3 DEF Agree
  <2>4. Len(a) > Len(b) \/ Len(b) > Len(a)
    BY <2>2 DEF ByteArray
  <2> QED
    BY <1>1, <1>3, <2>3, <2>4 DEF nodeIdGreater
<1>4. CASE ~Agree(a, b, n)
  <2>1. PICK i \in 1..n : Agree(a, b, i - 1) /\ Unsigned(a[i]) # Unsigned(b[i])
    BY <1>4, FirstDifference
  <2>2. Agree(b, a, i - 1)
    BY <2>1 DEF Agree
  <2>3. Unsigned(a[i]) > Unsigned(b[i]) \/ Unsigned(b[i]) > Unsigned(a[i])
    BY <1>2, <2>1
  <2> QED
    BY <1>1, <2>1, <2>2, <2>3 DEF nodeIdGreater
<1> QED
  BY <1>3, <1>4
=============================================================================
