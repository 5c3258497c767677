------------------------- MODULE RaydiumWireProofs -------------------------
(***************************************************************************)
(* What pack writes, unpack reads: proofs about RaydiumWire.               *)
(***************************************************************************)
EXTENDS RaydiumWire, WellFoundedInduction, TLAPS

(* -- Induction ----------------------------------------------------------- *)

(* A set of natural numbers with 0 and each successor has all of them.      *)
LEMMA EveryNatural ==
  ASSUME NEW I, 0 \in I, \A n \in Nat : n \in I => n + 1 \in I
  PROVE  Nat \subseteq I
<1> DEFINE J == Nat \ I
<1> SUFFICES ASSUME J # {} PROVE FALSE
  OBVIOUS
<1>1. PICK n \in J : \A m \in J : ~(<<m, n>> \in OpToRel(<, Nat))
  BY NatLessThanWellFounded, WFMin
<1>2. ASSUME NEW m \in Nat, NEW k \in Nat, m < k
      PROVE  <<m, k>> \in OpToRel(<, Nat)
  BY <1>2 DEF OpToRel
<1>3. n \in Nat /\ n \notin I
  OBVIOUS
<1>4. n - 1 \in Nat /\ n - 1 < n /\ (n - 1) + 1 = n
  BY <1>3
<1>5. n - 1 \in I
  BY <1>1, <1>2, <1>3, <1>4
<1>6. (n - 1) + 1 \in I
  BY <1>4, <1>5
<1> QED
  BY <1>3, <1>4, <1>6

(* A property of 0 that each of 1 .. n takes over from its predecessor.     *)
LEMMA UpTo ==
  ASSUME NEW n \in Nat, NEW I, 0 \in I, \A i \in 1 .. n : i - 1 \in I => i \in I
  PROVE  \A i \in 0 .. n : i \in I
<1> DEFINE J == {i \in Nat : i <= n => i \in I}
<1>1. 0 \in J
  OBVIOUS
<1>2. ASSUME NEW i \in Nat, i \in J PROVE i + 1 \in J
  <2> SUFFICES ASSUME i + 1 <= n PROVE i + 1 \in I
    OBVIOUS
  <2>1. i \in I /\ i + 1 \in 1 .. n /\ (i + 1) - 1 = i
    BY <1>2
  <2> QED
    BY <2>1
<1> HIDE DEF J
<1>3. Nat \subseteq J
  BY <1>1, <1>2, EveryNatural
<1> QED
  BY <1>3 DEF J

LEMMA Predecessor ==
  ASSUME NEW n \in Nat
  PROVE  \A i \in 0 .. n + 1 : i # 0 => i - 1 \in 0 .. n
OBVIOUS

-----------------------------------------------------------------------------
(* -- Numbers and bytes --------------------------------------------------- *)

LEMMA ShiftsStep ==
  ASSUME NEW v, NEW w \in Nat
  PROVE  /\ Shifts(v, w)[0] = v
         /\ \A i \in 1 .. w : Shifts(v, w)[i] = Shifts(v, w)[i - 1] \div Base
<1> DEFINE Solves(g, n) == g = [i \in 0 .. n |-> IF i = 0 THEN v ELSE g[i - 1] \div Base]
           Solved(n) == \E g : Solves(g, n)
<1>1. Solved(0)
  <2> DEFINE g == [i \in 0 .. 0 |-> v]
  <2>1. Solves(g, 0)
    OBVIOUS
  <2> QED
    BY <2>1
<1>2. ASSUME NEW n \in Nat, Solved(n) PROVE Solved(n + 1)
  <2>1. PICK g : Solves(g, n)
    BY <1>2
  <2> DEFINE h == [i \in 0 .. n + 1 |-> IF i = 0 THEN v ELSE g[i - 1] \div Base]
  <2>2. \A i \in 0 .. n : h[i] = g[i]
    BY <2>1
  <2>3. \A i \in 0 .. n + 1 : i # 0 => h[i - 1] = g[i - 1]
    <3> HIDE DEF h
    <3> QED
      BY <2>2, Predecessor
  <2>4. Solves(h, n + 1)
    BY <2>3
  <2> QED
    BY <2>4
<1>3. Solved(w)
  <2> HIDE DEF Solved
  <2> DEFINE I == {n \in Nat : Solved(n)}
  <2>1. 0 \in I /\ \A n \in Nat : n \in I => n + 1 \in I
    BY <1>1, <1>2
  <2> HIDE DEF I
  <2>2. w \in I
    BY <2>1, EveryNatural
  <2> QED
    BY <2>2 DEF I
<1> DEFINE s == Shifts(v, w)
<1>4. Solves(s, w)
  BY <1>3 DEF Shifts
<1> HIDE DEF s
<1>5. s[0] = v /\ \A i \in 1 .. w : s[i] = s[i - 1] \div Base
  BY <1>4
<1> QED
  BY <1>5 DEF s

LEMMA ShiftsType ==
  ASSUME NEW v \in Nat, NEW w \in Nat
  PROVE  \A i \in 0 .. w : Shifts(v, w)[i] \in Nat
<1> DEFINE s == Shifts(v, w)
           I == {i \in 0 .. w : s[i] \in Nat}
<1>1. s[0] = v /\ \A i \in 1 .. w : s[i] = s[i - 1] \div Base
  BY ShiftsStep
<1> HIDE DEF s
<1>2. 0 \in I
  BY <1>1
<1>3. ASSUME NEW i \in 1 .. w, i - 1 \in I PROVE i \in I
  <2>1. s[i - 1] \in Nat /\ Base \in Nat \ {0}
    BY <1>3, WireAssumption
  <2>2. s[i - 1] \div Base \in Nat
    BY <2>1
  <2> QED
    BY <1>1, <2>2
<1> HIDE DEF I
<1>4. \A i \in 0 .. w : i \in I
  BY <1>2, <1>3, UpTo
<1> QED
  BY <1>4 DEF I, s

(* The little endian bytes of a number are bytes.                           *)
LEMMA LittleEndianType ==
  ASSUME NEW v \in Nat, NEW w \in Nat
  PROVE  /\ LittleEndian(v, w) \in Seq(Bytes)
         /\ Len(LittleEndian(v, w)) = w
         /\ \A j \in 1 .. w : LittleEndian(v, w)[j] = Shifts(v, w)[j - 1] % Base
<1> DEFINE s == Shifts(v, w)
<1>1. \A j \in 1 .. w : s[j - 1] \in Nat
  BY ShiftsType
<1>2. Base \in Nat \ {0}
  BY WireAssumption
<1> HIDE DEF s
<1>3. \A j \in 1 .. w : s[j - 1] % Base \in 0 .. Base - 1
  BY <1>1, <1>2
<1> QED
  BY <1>3 DEF LittleEndian, Bytes, s

(* The bytes of the sequence from its last, as ValueOf adds them up.        *)
Horner(bytes) ==
  CHOOSE g : g = [i \in 0 .. Len(bytes) |->
                    IF i = 0 THEN 0 ELSE bytes[Len(bytes) - i + 1] + Base * g[i - 1]]

LEMMA HornerStep ==
  ASSUME NEW bytes, Len(bytes) \in Nat
  PROVE  /\ ValueOf(bytes) = Horner(bytes)[Len(bytes)]
         /\ Horner(bytes)[0] = 0
         /\ \A i \in 1 .. Len(bytes) :
               Horner(bytes)[i] = bytes[Len(bytes) - i + 1] + Base * Horner(bytes)[i - 1]
<1> DEFINE m == Len(bytes)
           Solves(g, n) == g = [i \in 0 .. n |-> IF i = 0 THEN 0
                                                 ELSE bytes[m - i + 1] + Base * g[i - 1]]
           Solved(n) == \E g : Solves(g, n)
<1>1. Solved(0)
  <2> DEFINE g == [i \in 0 .. 0 |-> 0]
  <2>1. Solves(g, 0)
    OBVIOUS
  <2> QED
    BY <2>1
<1>2. ASSUME NEW n \in Nat, Solved(n) PROVE Solved(n + 1)
  <2>1. PICK g : Solves(g, n)
    BY <1>2
  <2> DEFINE h == [i \in 0 .. n + 1 |-> IF i = 0 THEN 0
                                        ELSE bytes[m - i + 1] + Base * g[i - 1]]
  <2>2. \A i \in 0 .. n : h[i] = g[i]
    BY <2>1
  <2>3. \A i \in 0 .. n + 1 : i # 0 => h[i - 1] = g[i - 1]
    <3> HIDE DEF h
    <3> QED
      BY <2>2, Predecessor
  <2>4. Solves(h, n + 1)
    BY <2>3
  <2> QED
    BY <2>4
<1>3. Solved(m)
  <2> HIDE DEF Solved
  <2> DEFINE I == {n \in Nat : Solved(n)}
  <2>1. 0 \in I /\ \A n \in Nat : n \in I => n + 1 \in I
    BY <1>1, <1>2
  <2> HIDE DEF I
  <2>2. m \in I
    BY <2>1, EveryNatural
  <2> QED
    BY <2>2 DEF I
<1> DEFINE s == Horner(bytes)
<1>4. Solves(s, m)
  BY <1>3 DEF Horner
<1>5. ValueOf(bytes) = s[m]
  BY DEF ValueOf, Horner
<1> HIDE DEF s
<1>6. s[0] = 0 /\ \A i \in 1 .. m : s[i] = bytes[m - i + 1] + Base * s[i - 1]
  BY <1>4
<1> QED
  BY <1>5, <1>6 DEF s

(* A number fits in w bytes when nothing is left of it without them.        *)
Fits(v, w) == v \in Nat /\ Shifts(v, w)[w] = 0

LEMMA Division ==
  ASSUME NEW n \in Nat, NEW b \in Nat \ {0}
  PROVE  /\ n = b * (n \div b) + (n % b)
         /\ (n \div b) \in Int /\ (n % b) \in Int /\ b * (n \div b) \in Int
OBVIOUS

(* What is read from the bytes of a number that fits is the number.         *)
LEMMA ValueOfLittleEndian ==
  ASSUME NEW w \in Nat, NEW v, Fits(v, w)
  PROVE  ValueOf(LittleEndian(v, w)) = v
<1> DEFINE s == Shifts(v, w)
           b == LittleEndian(v, w)
           h == Horner(b)
           I == {i \in 0 .. w : h[i] = s[w - i]}
<1>1. v \in Nat /\ s[w] = 0 /\ Base \in Nat \ {0}
  BY WireAssumption DEF Fits
<1>2. s[0] = v /\ \A i \in 1 .. w : s[i] = s[i - 1] \div Base
  BY ShiftsStep
<1>3. \A i \in 0 .. w : s[i] \in Nat
  BY <1>1, ShiftsType
<1>4. Len(b) = w /\ \A j \in 1 .. w : b[j] = s[j - 1] % Base
  BY <1>1, LittleEndianType
<1>5. ValueOf(b) = h[w] /\ h[0] = 0 /\ \A i \in 1 .. w : h[i] = b[w - i + 1] + Base * h[i - 1]
  BY <1>4, HornerStep
<1> HIDE DEF s, b, h
<1>6. 0 \in I
  BY <1>1, <1>5
<1>7. ASSUME NEW i \in 1 .. w, i - 1 \in I PROVE i \in I
  <2> DEFINE k == w - i
  <2>1. /\ k \in 0 .. w /\ k + 1 \in 1 .. w /\ (k + 1) - 1 = k
        /\ w - i + 1 = k + 1 /\ w - (i - 1) = k + 1
    OBVIOUS
  <2>2. h[i] = b[k + 1] + Base * s[k + 1]
    BY <1>5, <1>7, <2>1
  <2>3. b[k + 1] = s[k] % Base /\ s[k + 1] = s[k] \div Base
    BY <1>2, <1>4, <2>1
  <2>4. s[k] \in Nat
    BY <1>3, <2>1
  <2>5. /\ s[k] = Base * (s[k] \div Base) + (s[k] % Base)
        /\ (s[k] % Base) \in Int /\ Base * (s[k] \div Base) \in Int
    BY <1>1, <2>4, Division
  <2>6. h[i] = s[k]
    BY <2>2, <2>3, <2>5
  <2> QED
    BY <2>6
<1> HIDE DEF I
<1>8. \A i \in 0 .. w : i \in I
  BY <1>6, <1>7, UpTo
<1>9. h[w] = s[w - w]
  BY <1>8 DEF I
<1> QED
  BY <1>2, <1>5, <1>9 DEF b

-----------------------------------------------------------------------------
(* -- Where the fields are ------------------------------------------------ *)

FieldNames ==
  {"nonce", "open_time", "amount", "val", "amount_in", "minimum_amount_out", "max_amount_in",
   "amount_out", "max_coin_amount", "max_pc_amount", "base_side", "reward_per_slot",
   "reward_per_slot_a", "reward_per_slot_b", "ignore"}
Fields == [name : FieldNames, width : Nat \ {0}]

(* The fields of an instruction: each with a name of its own and a width.   *)
Layouts ==
  {fields \in Seq(Fields) :
     \A i, j \in 1 .. Len(fields) : fields[i].name = fields[j].name => i = j}

LEMMA FieldOfLayout ==
  ASSUME NEW fields \in Layouts
  PROVE  /\ Len(fields) \in Nat
         /\ \A i \in 1 .. Len(fields) : fields[i].width \in Nat \ {0}
<1>1. fields \in Seq(Fields)
  BY DEF Layouts
<1>2. \A f \in Fields : f.width \in Nat \ {0}
  BY DEF Fields
<1>3. Len(fields) \in Nat /\ \A i \in 1 .. Len(fields) : fields[i] \in Fields
  BY <1>1
<1> QED
  BY <1>2, <1>3

LEMMA StartOfStep ==
  ASSUME NEW fields, Len(fields) \in Nat
  PROVE  /\ StartOf(fields)[1] = 2
         /\ \A i \in 1 .. Len(fields) :
               StartOf(fields)[i + 1] = StartOf(fields)[i] + fields[i].width
<1> DEFINE m == Len(fields)
           Solves(g, n) == g = [i \in 1 .. n + 1 |->
                                  IF i = 1 THEN 2 ELSE g[i - 1] + fields[i - 1].width]
           Solved(n) == \E g : Solves(g, n)
<1>1. Solved(0)
  <2> DEFINE g == [i \in 1 .. 0 + 1 |-> 2]
  <2>1. Solves(g, 0)
    OBVIOUS
  <2> QED
    BY <2>1
<1>2. ASSUME NEW n \in Nat, Solved(n) PROVE Solved(n + 1)
  <2>1. PICK g : Solves(g, n)
    BY <1>2
  <2> DEFINE h == [i \in 1 .. n + 1 + 1 |->
                     IF i = 1 THEN 2 ELSE g[i - 1] + fields[i - 1].width]
  <2>2. \A i \in 1 .. n + 1 : h[i] = g[i]
    BY <2>1
  <2>3. \A i \in 1 .. n + 1 + 1 : i # 1 => h[i - 1] = g[i - 1]
    <3>1. \A i \in 1 .. n + 1 + 1 : i # 1 => i - 1 \in 1 .. n + 1
      OBVIOUS
    <3> HIDE DEF h
    <3> QED
      BY <2>2, <3>1
  <2>4. Solves(h, n + 1)
    BY <2>3
  <2> QED
    BY <2>4
<1>3. Solved(m)
  <2> HIDE DEF Solved
  <2> DEFINE I == {n \in Nat : Solved(n)}
  <2>1. 0 \in I /\ \A n \in Nat : n \in I => n + 1 \in I
    BY <1>1, <1>2
  <2> HIDE DEF I
  <2>2. m \in I
    BY <2>1, EveryNatural
  <2> QED
    BY <2>2 DEF I
<1> DEFINE s == StartOf(fields)
<1>4. Solves(s, m)
  BY <1>3 DEF StartOf
<1> HIDE DEF s
<1>5. s[1] = 2 /\ \A i \in 2 .. m + 1 : s[i] = s[i - 1] + fields[i - 1].width
  BY <1>4
<1>6. \A i \in 1 .. m : i + 1 \in 2 .. m + 1 /\ (i + 1) - 1 = i
  OBVIOUS
<1> QED
  BY <1>5, <1>6 DEF s

(* The fields follow the tag, each behind the one before it.                *)
LEMMA StartOfType ==
  ASSUME NEW fields \in Layouts
  PROVE  /\ Len(fields) \in Nat
         /\ \A i \in 1 .. Len(fields) + 1 : StartOf(fields)[i] \in Nat /\ StartOf(fields)[i] >= 2
         /\ \A i \in 1 .. Len(fields) : fields[i].width \in Nat \ {0}
<1> DEFINE m == Len(fields)
           s == StartOf(fields)
           I == {i \in 0 .. m : s[i + 1] \in Nat /\ s[i + 1] >= 2}
<1>1. m \in Nat /\ \A i \in 1 .. m : fields[i].width \in Nat \ {0}
  BY FieldOfLayout
<1>2. s[1] = 2 /\ \A i \in 1 .. m : s[i + 1] = s[i] + fields[i].width
  BY <1>1, StartOfStep
<1> HIDE DEF s, m
<1>3. 0 \in I
  BY <1>1, <1>2
<1>4. ASSUME NEW i \in 1 .. m, i - 1 \in I PROVE i \in I
  <2>1. (i - 1) + 1 = i /\ i \in 0 .. m
    BY <1>1
  <2>2. s[i] \in Nat /\ s[i] >= 2 /\ fields[i].width \in Nat
    BY <1>1, <1>4, <2>1
  <2> QED
    BY <1>2, <2>1, <2>2
<1> HIDE DEF I
<1>5. \A i \in 0 .. m : i \in I
  BY <1>1, <1>3, <1>4, UpTo
<1>6. \A i \in 1 .. m + 1 : i - 1 \in 0 .. m /\ (i - 1) + 1 = i
  BY <1>1
<1>7. \A i \in 1 .. m + 1 : s[i] \in Nat /\ s[i] >= 2
  BY <1>5, <1>6 DEF I
<1> QED
  BY <1>1, <1>7 DEF s, m

(* No field reaches beyond the end of the last.                             *)
LEMMA FieldsInside ==
  ASSUME NEW fields \in Layouts, NEW k \in 1 .. Len(fields)
  PROVE  StartOf(fields)[k] + fields[k].width <= StartOf(fields)[Len(fields) + 1]
<1> DEFINE m == Len(fields)
           s == StartOf(fields)
           I == {i \in 0 .. m : \A j \in 1 .. i : s[j + 1] <= s[i + 1]}
<1>1. /\ m \in Nat /\ \A i \in 1 .. m : fields[i].width \in Nat
      /\ \A i \in 1 .. m + 1 : s[i] \in Nat
  BY StartOfType
<1>2. \A i \in 1 .. m : s[i + 1] = s[i] + fields[i].width
  BY <1>1, StartOfStep
<1> HIDE DEF s, m
<1>3. 0 \in I
  BY <1>1
<1>4. ASSUME NEW i \in 1 .. m, i - 1 \in I PROVE i \in I
  <2>1. (i - 1) + 1 = i /\ i \in 0 .. m /\ i \in 1 .. m + 1 /\ i + 1 \in 1 .. m + 1
    BY <1>1
  <2>2. s[i] <= s[i + 1] /\ s[i] \in Nat /\ s[i + 1] \in Nat
    <3> DEFINE p == s[i]
               q == s[i + 1]
               w == fields[i].width
    <3>1. p \in Nat /\ q \in Nat /\ w \in Nat /\ q = p + w
      BY <1>1, <1>2, <2>1
    <3> HIDE DEF p, q, w
    <3>2. p <= q
      BY <3>1
    <3> QED
      BY <3>1, <3>2 DEF p, q
  <2>3. ASSUME NEW j \in 1 .. i PROVE s[j + 1] <= s[i + 1]
    <3>1. CASE j = i
      BY <2>2, <3>1
    <3>2. CASE j \in 1 .. i - 1
      <4>1. s[j + 1] <= s[i]
        BY <1>4, <2>1, <3>2
      <4>2. s[j + 1] \in Nat
        BY <1>1, <2>1, <3>2
      <4> QED
        BY <2>2, <4>1, <4>2
    <3> QED
      BY <2>1, <3>1, <3>2
  <2> QED
    BY <2>1, <2>3
<1> HIDE DEF I
<1>5. \A i \in 0 .. m : i \in I
  BY <1>1, <1>3, <1>4, UpTo
<1>6. k \in 1 .. m /\ m \in 0 .. m
  BY <1>1 DEF m
<1>7. s[k + 1] <= s[m + 1]
  BY <1>5, <1>6 DEF I
<1> QED
  BY <1>2, <1>6, <1>7 DEF s, m

-----------------------------------------------------------------------------
(* -- What pack writes ---------------------------------------------------- *)

(* The first i of the sequences one after the other, as FlattenSeq adds     *)
(* them.                                                                    *)
Joined(seqs) ==
  CHOOSE g : g = [i \in 1 .. Len(seqs) |-> IF i = 1 THEN seqs[i] ELSE g[i - 1] \o seqs[i]]

LEMMA JoinedStep ==
  ASSUME NEW seqs, NEW m \in Nat \ {0}, Len(seqs) = m
  PROVE  /\ FlattenSeq(seqs) = Joined(seqs)[m]
         /\ Joined(seqs)[1] = seqs[1]
         /\ \A i \in 2 .. m : Joined(seqs)[i] = Joined(seqs)[i - 1] \o seqs[i]
<1> DEFINE Solves(g, n) == g = [i \in 1 .. n |-> IF i = 1 THEN seqs[i] ELSE g[i - 1] \o seqs[i]]
           Solved(n) == \E g : Solves(g, n)
<1>1. Solved(0)
  <2> DEFINE g == [i \in 1 .. 0 |-> 2]
  <2>1. Solves(g, 0)
    OBVIOUS
  <2> QED
    BY <2>1
<1>2. ASSUME NEW n \in Nat, Solved(n) PROVE Solved(n + 1)
  <2>1. PICK g : Solves(g, n)
    BY <1>2
  <2> DEFINE h == [i \in 1 .. n + 1 |-> IF i = 1 THEN seqs[i] ELSE g[i - 1] \o seqs[i]]
  <2>2. \A i \in 1 .. n : h[i] = g[i]
    <3>1. \A i \in 1 .. n : g[i] = IF i = 1 THEN seqs[i] ELSE g[i - 1] \o seqs[i]
      BY <2>1
    <3>2. \A i \in 1 .. n : h[i] = IF i = 1 THEN seqs[i] ELSE g[i - 1] \o seqs[i]
      OBVIOUS
    <3> HIDE DEF h
    <3> QED
      BY <3>1, <3>2
  <2>3. \A i \in 1 .. n + 1 : i # 1 => h[i - 1] = g[i - 1]
    <3>1. \A i \in 1 .. n + 1 : i # 1 => i - 1 \in 1 .. n
      OBVIOUS
    <3> HIDE DEF h
    <3> QED
      BY <2>2, <3>1
  <2>4. Solves(h, n + 1)
    BY <2>3
  <2> QED
    BY <2>4
<1>3. Solved(m)
  <2> HIDE DEF Solved
  <2> DEFINE I == {n \in Nat : Solved(n)}
  <2>1. 0 \in I /\ \A n \in Nat : n \in I => n + 1 \in I
    BY <1>1, <1>2
  <2> HIDE DEF I
  <2>2. m \in I
    BY <2>1, EveryNatural
  <2> QED
    BY <2>2 DEF I
<1> DEFINE s == Joined(seqs)
<1>4. Solves(s, m)
  BY <1>3 DEF Joined
<1>5. FlattenSeq(seqs) = s[m]
  BY DEF FlattenSeq, Joined
<1> HIDE DEF s
<1>6. \A i \in 1 .. m : s[i] = IF i = 1 THEN seqs[i] ELSE s[i - 1] \o seqs[i]
  BY <1>4
<1>7. s[1] = seqs[1]
  BY <1>6
<1>8. \A i \in 2 .. m : s[i] = s[i - 1] \o seqs[i]
  <2>1. \A i \in 2 .. m : i \in 1 .. m /\ i # 1
    OBVIOUS
  <2> QED
    BY <1>6, <2>1
<1> QED
  BY <1>5, <1>7, <1>8 DEF s

LEMMA JoinOne ==
  ASSUME NEW S, NEW s, NEW t, NEW r, NEW p, NEW q,
         s \in Seq(S), t \in Seq(S), r = s \o t, Len(s) = p, q = p + Len(t)
  PROVE  /\ r \in Seq(S) /\ Len(r) = q
         /\ \A x \in 1 .. p : r[x] = s[x]
         /\ \A j \in 1 .. Len(t) : r[p + j] = t[j]
OBVIOUS

LEMMA Inside ==
  ASSUME NEW p \in Nat, NEW q \in Nat, NEW n \in Nat, p + n <= q
  PROVE  \A j \in 1 .. n : p + j \in 1 .. q
OBVIOUS

LEMMA StillInside ==
  ASSUME NEW p \in Nat, NEW q \in Nat, NEW n \in Nat, NEW k \in Nat, p + n <= q
  PROVE  p + n <= q + k
OBVIOUS

(* at[i] elements come before sequence i of m sequences over S.             *)
Placed(S, m, seqs, at) ==
  /\ m \in Nat \ {0}
  /\ seqs \in [1 .. m -> Seq(S)]
  /\ at \in [1 .. m + 1 -> Nat]
  /\ at[1] = 0
  /\ \A i \in 1 .. m : at[i + 1] = at[i] + Len(seqs[i])

(* The sequences one after the other: sequence i begins behind at[i].       *)
LEMMA JoinedAt ==
  ASSUME NEW S, NEW m, NEW seqs, NEW at, Placed(S, m, seqs, at)
  PROVE  /\ FlattenSeq(seqs) \in Seq(S) /\ Len(FlattenSeq(seqs)) = at[m + 1]
         /\ \A i \in 1 .. m : \A j \in 1 .. Len(seqs[i]) :
               FlattenSeq(seqs)[at[i] + j] = seqs[i][j]
<1> DEFINE g == Joined(seqs)
           Good(k) == /\ g[k] \in Seq(S) /\ Len(g[k]) = at[k + 1]
                      /\ \A i \in 1 .. k : at[i] + Len(seqs[i]) <= at[k + 1]
                      /\ \A i \in 1 .. k : \A j \in 1 .. Len(seqs[i]) :
                            g[k][at[i] + j] = seqs[i][j]
           I == {i \in 0 .. m - 1 : Good(i + 1)}
<1> m \in Nat \ {0}
  BY DEF Placed
<1>1. Len(seqs) = m
  BY DEF Placed
<1>2. FlattenSeq(seqs) = g[m] /\ g[1] = seqs[1] /\ \A i \in 2 .. m : g[i] = g[i - 1] \o seqs[i]
  BY <1>1, JoinedStep
<1>3. \A i \in 1 .. m : seqs[i] \in Seq(S) /\ Len(seqs[i]) \in Nat
  BY DEF Placed
<1>4. at[1] = 0 /\ \A i \in 1 .. m + 1 : at[i] \in Nat
  BY DEF Placed
<1>5. \A i \in 1 .. m : at[i + 1] = at[i] + Len(seqs[i])
  BY DEF Placed
<1> HIDE DEF g
<1>6. Good(1)
  <2>1. /\ g[1] \in Seq(S) /\ Len(g[1]) = at[1 + 1]
        /\ at[1] + Len(seqs[1]) <= at[1 + 1]
        /\ \A j \in 1 .. Len(seqs[1]) : g[1][at[1] + j] = seqs[1][j]
    BY <1>2, <1>3, <1>4, <1>5
  <2> QED
    BY <2>1
<1>7. ASSUME NEW k \in 1 .. m, k # m, Good(k) PROVE Good(k + 1)
  <2>1. k + 1 \in 2 .. m /\ (k + 1) - 1 = k /\ k + 1 \in 1 .. m /\ k + 1 \in 1 .. m + 1
    BY <1>7
  <2>2. g[k + 1] = g[k] \o seqs[k + 1]
    BY <1>2, <2>1
  <2>3. /\ g[k] \in Seq(S) /\ seqs[k + 1] \in Seq(S)
        /\ Len(g[k]) = at[k + 1] /\ at[k + 1] \in Nat
        /\ at[k + 1 + 1] = at[k + 1] + Len(seqs[k + 1])
    BY <1>3, <1>4, <1>7, <1>5, <2>1
  <2>4. /\ g[k + 1] \in Seq(S) /\ Len(g[k + 1]) = at[k + 1 + 1]
        /\ \A x \in 1 .. at[k + 1] : g[k + 1][x] = g[k][x]
        /\ \A j \in 1 .. Len(seqs[k + 1]) : g[k + 1][at[k + 1] + j] = seqs[k + 1][j]
    <3> DEFINE a == g[k]
               b == seqs[k + 1]
               c == g[k + 1]
               p == at[k + 1]
               q == at[k + 1 + 1]
    <3>1. a \in Seq(S) /\ b \in Seq(S) /\ c = a \o b /\ Len(a) = p /\ q = p + Len(b)
      BY <2>2, <2>3
    <3> HIDE DEF a, b, c, p, q
    <3>2. /\ c \in Seq(S) /\ Len(c) = q
          /\ \A x \in 1 .. p : c[x] = a[x]
          /\ \A j \in 1 .. Len(b) : c[p + j] = b[j]
      BY <3>1, JoinOne
    <3> QED
      BY <3>2 DEF a, b, c, p, q
  <2>5. \A i \in 1 .. k : /\ i \in 1 .. m /\ i \in 1 .. m + 1
                           /\ at[i] + Len(seqs[i]) <= at[k + 1]
    <3>1. \A i \in 1 .. k : at[i] + Len(seqs[i]) <= at[k + 1]
      BY <1>7
    <3>2. \A i \in 1 .. k : i \in 1 .. m /\ i \in 1 .. m + 1
      OBVIOUS
    <3> QED
      BY <3>1, <3>2
  <2>6. ASSUME NEW i \in 1 .. k, NEW j \in 1 .. Len(seqs[i])
        PROVE  g[k + 1][at[i] + j] = seqs[i][j]
    <3>1. g[k][at[i] + j] = seqs[i][j]
      BY <1>7
    <3>2. /\ i \in 1 .. m /\ i \in 1 .. m + 1 /\ at[i] + Len(seqs[i]) <= at[k + 1]
      BY <2>5
    <3>3. at[i] \in Nat /\ Len(seqs[i]) \in Nat /\ at[k + 1] \in Nat
      BY <1>3, <1>4, <2>3, <3>2
    <3>4. at[i] + j \in 1 .. at[k + 1]
      BY <3>2, <3>3, Inside
    <3> QED
      BY <2>4, <3>1, <3>4
  <2>7. \A i \in 1 .. k + 1 : i \in 1 .. k \/ i = k + 1
    OBVIOUS
  <2>8. ASSUME NEW i \in 1 .. k + 1 PROVE at[i] + Len(seqs[i]) <= at[k + 1 + 1]
    <3>1. CASE i = k + 1
      <4>1. at[k + 1 + 1] \in Nat
        BY <1>4, <2>1
      <4> QED
        BY <2>3, <3>1, <4>1
    <3>2. CASE i \in 1 .. k
      <4>1. at[i] + Len(seqs[i]) <= at[k + 1] /\ i \in 1 .. m /\ i \in 1 .. m + 1
        BY <2>5, <3>2
      <4>2. at[i] \in Nat /\ Len(seqs[i]) \in Nat /\ Len(seqs[k + 1]) \in Nat
        BY <1>3, <1>4, <2>1, <4>1
      <4>3. at[i] + Len(seqs[i]) <= at[k + 1] + Len(seqs[k + 1])
        BY <2>3, <4>1, <4>2, StillInside
      <4> QED
        BY <2>3, <4>3
    <3> QED
      BY <2>7, <3>1, <3>2
  <2>9. \A i \in 1 .. k + 1 : \A j \in 1 .. Len(seqs[i]) : g[k + 1][at[i] + j] = seqs[i][j]
    BY <2>4, <2>6, <2>7
  <2> QED
    BY <2>4, <2>8, <2>9
<1> HIDE DEF Good
<1>8. Good(m)
  <2>1. 0 \in I
    BY <1>6
  <2>2. ASSUME NEW i \in 1 .. m - 1, i - 1 \in I PROVE i \in I
    <3>1. (i - 1) + 1 = i /\ i \in 1 .. m /\ i # m /\ i \in 0 .. m - 1
      OBVIOUS
    <3>2. Good(i)
      BY <2>2, <3>1
    <3> QED
      BY <1>7, <3>1, <3>2
  <2>3. m - 1 \in Nat /\ (m - 1) + 1 = m /\ m - 1 \in 0 .. m - 1
    OBVIOUS
  <2> HIDE DEF I
  <2> DEFINE n == m - 1
  <2>4. n \in Nat /\ \A i \in 1 .. n : i - 1 \in I => i \in I
    BY <2>2, <2>3
  <2> HIDE DEF n
  <2>5. \A i \in 0 .. n : i \in I
    BY <2>1, <2>4, UpTo
  <2>6. m - 1 \in I
    BY <2>3, <2>5 DEF n
  <2> QED
    BY <2>3, <2>6 DEF I
<1> QED
  BY <1>2, <1>8 DEF Good

(* The arguments that an instruction with these fields has.                 *)
ArgsFor(fields) == {args \in [Names(fields) -> Nat] :
                      \A i \in 1 .. Len(fields) : Fits(args[fields[i].name], fields[i].width)}

LEMMA ArgOfField ==
  ASSUME NEW fields \in Layouts, NEW args \in ArgsFor(fields), NEW i \in 1 .. Len(fields)
  PROVE  /\ fields[i].name \in Names(fields)
         /\ args[fields[i].name] \in Nat
         /\ Fits(args[fields[i].name], fields[i].width)
BY DEF ArgsFor, Names

(* The bytes of field i begin two bytes before StartOf: the tag is missing, *)
(* and StartOf counts from one.                                             *)
LEMMA FieldBytesAt ==
  ASSUME NEW fields \in Layouts, NEW args \in ArgsFor(fields)
  PROVE  /\ FieldBytes(fields, args) \in Seq(Bytes)
         /\ Len(FieldBytes(fields, args)) = StartOf(fields)[Len(fields) + 1] - 2
         /\ \A i \in 1 .. Len(fields) : \A j \in 1 .. fields[i].width :
               FieldBytes(fields, args)[StartOf(fields)[i] - 2 + j]
                  = LittleEndian(args[fields[i].name], fields[i].width)[j]
<1> DEFINE m == Len(fields)
           s == StartOf(fields)
           seqs == [i \in 1 .. m |-> LittleEndian(args[fields[i].name], fields[i].width)]
           at == [i \in 1 .. m + 1 |-> s[i] - 2]
<1>1. /\ m \in Nat /\ \A i \in 1 .. m + 1 : s[i] \in Nat /\ s[i] >= 2
      /\ \A i \in 1 .. m : fields[i].width \in Nat
  BY StartOfType
<1>2. s[1] = 2 /\ \A i \in 1 .. m : s[i + 1] = s[i] + fields[i].width
  BY <1>1, StartOfStep
<1>3. FieldBytes(fields, args) = FlattenSeq(seqs)
  BY DEF FieldBytes
<1>4. \A i \in 1 .. m : args[fields[i].name] \in Nat
  BY ArgOfField
<1>5. \A i \in 1 .. m : seqs[i] \in Seq(Bytes) /\ Len(seqs[i]) = fields[i].width
  BY <1>1, <1>4, LittleEndianType
<1> HIDE DEF s, m
<1>6. CASE m = 0
  <2>1. seqs = <<>> /\ Len(seqs) = 0
    BY <1>6
  <2>2. FlattenSeq(seqs) = <<>>
    BY <2>1 DEF FlattenSeq
  <2>3. s[m + 1] - 2 = 0
    BY <1>2, <1>6
  <2> HIDE DEF seqs
  <2> QED
    BY <1>3, <1>6, <2>2, <2>3 DEF s, m
<1>7. CASE m # 0
  <2>1. at \in [1 .. m + 1 -> Nat] /\ at[1] = 0
    BY <1>1, <1>2
  <2>2. \A i \in 1 .. m : at[i + 1] = at[i] + Len(seqs[i])
    BY <1>1, <1>2, <1>5
  <2>3. seqs \in [1 .. m -> Seq(Bytes)]
    BY <1>5
  <2>4. Placed(Bytes, m, seqs, at)
    BY <1>1, <1>7, <2>1, <2>2, <2>3 DEF Placed
  <2>5. \A i \in 1 .. m + 1 : at[i] = s[i] - 2
    OBVIOUS
  <2>6. \A i \in 1 .. m : seqs[i] = LittleEndian(args[fields[i].name], fields[i].width)
    OBVIOUS
  <2> HIDE DEF seqs, at
  <2>7. /\ FlattenSeq(seqs) \in Seq(Bytes) /\ Len(FlattenSeq(seqs)) = at[m + 1]
        /\ \A i \in 1 .. m : \A j \in 1 .. Len(seqs[i]) :
               FlattenSeq(seqs)[at[i] + j] = seqs[i][j]
    BY <2>4, JoinedAt
  <2>8. m + 1 \in 1 .. m + 1 /\ \A i \in 1 .. m : i \in 1 .. m + 1
    BY <1>1
  <2>9. Len(FlattenSeq(seqs)) = s[m + 1] - 2
    BY <2>5, <2>7, <2>8
  <2>10. ASSUME NEW i \in 1 .. m, NEW j \in 1 .. fields[i].width
         PROVE  FlattenSeq(seqs)[s[i] - 2 + j]
                    = LittleEndian(args[fields[i].name], fields[i].width)[j]
    BY <1>5, <2>5, <2>6, <2>7, <2>8
  <2> QED
    BY <1>3, <2>7, <2>9, <2>10 DEF s, m
<1> QED
  BY <1>6, <1>7

(* What data begins with that holds an instruction.                         *)
Holds(data, tag, fields, args) ==
  /\ data[1] = tag
  /\ \A i \in 1 .. Len(fields) : \A j \in 1 .. fields[i].width :
        data[StartOf(fields)[i] + j - 1]
           = LittleEndian(args[fields[i].name], fields[i].width)[j]

(* Zeros behind data change nothing in it.                                  *)
LEMMA Padded ==
  ASSUME NEW s \in Seq(Bytes), NEW n \in Int
  PROVE  LET t == s \o [i \in 1 .. n |-> 0]
         IN  t \in Seq(Bytes) /\ Len(t) >= Len(s) /\ \A x \in 1 .. Len(s) : t[x] = s[x]
<1> DEFINE z == [i \in 1 .. n |-> 0]
<1>1. 0 \in Bytes
  BY WireAssumption DEF Bytes
<1>2. z \in Seq(Bytes)
  <2>1. CASE n \in Nat
    BY <1>1, <2>1
  <2>2. CASE n \notin Nat
    <3>1. z = <<>>
      BY <2>2
    <3> QED
      BY <3>1
  <2> QED
    BY <2>1, <2>2
<1> HIDE DEF z
<1>3. s \o z \in Seq(Bytes) /\ Len(s \o z) >= Len(s) /\ \A x \in 1 .. Len(s) : (s \o z)[x] = s[x]
  BY <1>2
<1> QED
  BY <1>3 DEF z

(* -- The tables ---------------------------------------------------------- *)

FieldsAt(program, kind) == PackTable(program)[kind].fields
TagOf(program, kind) == PackTable(program)[kind].tag

LEMMA Layout1 ==
  ASSUME NEW s, s \in Seq(Fields), Len(s) = 1
  PROVE  s \in Layouts
<1>1. \A i \in 1 .. Len(s) : i = 1
  OBVIOUS
<1> QED
  BY <1>1 DEF Layouts

LEMMA Layout2 ==
  ASSUME NEW s, s \in Seq(Fields), Len(s) = 2, s[1].name # s[2].name
  PROVE  s \in Layouts
<1>1. \A i \in 1 .. Len(s) : i = 1 \/ i = 2
  OBVIOUS
<1> QED
  BY <1>1 DEF Layouts

LEMMA Layout3 ==
  ASSUME NEW s, s \in Seq(Fields), Len(s) = 3,
         s[1].name # s[2].name, s[1].name # s[3].name, s[2].name # s[3].name
  PROVE  s \in Layouts
<1>1. \A i \in 1 .. Len(s) : i = 1 \/ i = 2 \/ i = 3
  OBVIOUS
<1> QED
  BY <1>1 DEF Layouts

(* Each field list of the tables is a layout.                               *)
LEMMA TableLayouts ==
  /\ <<>> \in Layouts
  /\ <<U8("nonce")>> \in Layouts /\ <<U64("amount")>> \in Layouts /\ <<U64("val")>> \in Layouts
  /\ <<U8("nonce"), U64("open_time")>> \in Layouts
  /\ <<U64("amount_in"), U64("minimum_amount_out")>> \in Layouts
  /\ <<U64("max_amount_in"), U64("amount_out")>> \in Layouts
  /\ <<U64("max_coin_amount"), U64("max_pc_amount"), U64("base_side")>> \in Layouts
  /\ <<U64("nonce"), U64("reward_per_slot_a"), U64("reward_per_slot_b")>> \in Layouts
  /\ <<U64("nonce"), U64("reward_per_slot"), U128("ignore")>> \in Layouts
<1>1. <<>> \in Layouts
  BY DEF Layouts
<1>2. <<U8("nonce")>> \in Layouts
  <2> DEFINE s == <<U8("nonce")>>
  <2>1. U8("nonce") \in Fields
    BY WireAssumption DEF U8, U64, U128, Fields, FieldNames
  <2>2. s \in Seq(Fields) /\ Len(s) = 1
    BY <2>1
  <2> HIDE DEF s
  <2>3. s \in Layouts
    BY <2>2, Layout1
  <2> QED
    BY <2>3 DEF s
<1>3. <<U64("amount")>> \in Layouts
  <2> DEFINE s == <<U64("amount")>>
  <2>1. U64("amount") \in Fields
    BY WireAssumption DEF U8, U64, U128, Fields, FieldNames
  <2>2. s \in Seq(Fields) /\ Len(s) = 1
    BY <2>1
  <2> HIDE DEF s
  <2>3. s \in Layouts
    BY <2>2, Layout1
  <2> QED
    BY <2>3 DEF s
<1>4. <<U64("val")>> \in Layouts
  <2> DEFINE s == <<U64("val")>>
  <2>1. U64("val") \in Fields
    BY WireAssumption DEF U8, U64, U128, Fields, FieldNames
  <2>2. s \in Seq(Fields) /\ Len(s) = 1
    BY <2>1
  <2> HIDE DEF s
  <2>3. s \in Layouts
    BY <2>2, Layout1
  <2> QED
    BY <2>3 DEF s
<1>5. <<U8("nonce"), U64("open_time")>> \in Layouts
  <2> DEFINE s == <<U8("nonce"), U64("open_time")>>
  <2>1. U8("nonce") \in Fields /\ U64("open_time") \in Fields
    BY WireAssumption DEF U8, U64, U128, Fields, FieldNames
  <2>2. s \in Seq(Fields) /\ Len(s) = 2
    BY <2>1
  <2>3. s[1].name # s[2].name
    BY DEF U8, U64, U128
  <2> HIDE DEF s
  <2>4. s \in Layouts
    BY <2>2, <2>3, Layout2
  <2> QED
    BY <2>4 DEF s
<1>6. <<U64("amount_in"), U64("minimum_amount_out")>> \in Layouts
  <2> DEFINE s == <<U64("amount_in"), U64("minimum_amount_out")>>
  <2>1. U64("amount_in") \in Fields /\ U64("minimum_amount_out") \in Fields
    BY WireAssumption DEF U8, U64, U128, Fields, FieldNames
  <2>2. s \in Seq(Fields) /\ Len(s) = 2
    BY <2>1
  <2>3. s[1].name # s[2].name
    BY DEF U8, U64, U128
  <2> HIDE DEF s
  <2>4. s \in Layouts
    BY <2>2, <2>3, Layout2
  <2> QED
    BY <2>4 DEF s
<1>7. <<U64("max_amount_in"), U64("amount_out")>> \in Layouts
  <2> DEFINE s == <<U64("max_amount_in"), U64("amount_out")>>
  <2>1. U64("max_amount_in") \in Fields /\ U64("amount_out") \in Fields
    BY WireAssumption DEF U8, U64, U128, Fields, FieldNames
  <2>2. s \in Seq(Fields) /\ Len(s) = 2
    BY <2>1
  <2>3. s[1].name # s[2].name
    BY DEF U8, U64, U128
  <2> HIDE DEF s
  <2>4. s \in Layouts
    BY <2>2, <2>3, Layout2
  <2> QED
    BY <2>4 DEF s
<1>8. <<U64("max_coin_amount"), U64("max_pc_amount"), U64("base_side")>> \in Layouts
  <2> DEFINE s == <<U64("max_coin_amount"), U64("max_pc_amount"), U64("base_side")>>
  <2>1. /\ U64("max_coin_amount") \in Fields /\ U64("max_pc_amount") \in Fields
        /\ U64("base_side") \in Fields
    BY WireAssumption DEF U8, U64, U128, Fields, FieldNames
  <2>2. s \in Seq(Fields) /\ Len(s) = 3
    BY <2>1
  <2>3. s[1].name # s[2].name /\ s[1].name # s[3].name /\ s[2].name # s[3].name
    BY DEF U8, U64, U128
  <2> HIDE DEF s
  <2>4. s \in Layouts
    BY <2>2, <2>3, Layout3
  <2> QED
    BY <2>4 DEF s
<1>9. <<U64("nonce"), U64("reward_per_slot_a"), U64("reward_per_slot_b")>> \in Layouts
  <2> DEFINE s == <<U64("nonce"), U64("reward_per_slot_a"), U64("reward_per_slot_b")>>
  <2>1. /\ U64("nonce") \in Fields /\ U64("reward_per_slot_a") \in Fields
        /\ U64("reward_per_slot_b") \in Fields
    BY WireAssumption DEF U8, U64, U128, Fields, FieldNames
  <2>2. s \in Seq(Fields) /\ Len(s) = 3
    BY <2>1
  <2>3. s[1].name # s[2].name /\ s[1].name # s[3].name /\ s[2].name # s[3].name
    BY DEF U8, U64, U128
  <2> HIDE DEF s
  <2>4. s \in Layouts
    BY <2>2, <2>3, Layout3
  <2> QED
    BY <2>4 DEF s
<1>10. <<U64("nonce"), U64("reward_per_slot"), U128("ignore")>> \in Layouts
  <2> DEFINE s == <<U64("nonce"), U64("reward_per_slot"), U128("ignore")>>
  <2>1. U64("nonce") \in Fields /\ U64("reward_per_slot") \in Fields /\ U128("ignore") \in Fields
    BY WireAssumption DEF U8, U64, U128, Fields, FieldNames
  <2>2. s \in Seq(Fields) /\ Len(s) = 3
    BY <2>1
  <2>3. s[1].name # s[2].name /\ s[1].name # s[3].name /\ s[2].name # s[3].name
    BY DEF U8, U64, U128
  <2> HIDE DEF s
  <2>4. s \in Layouts
    BY <2>2, <2>3, Layout3
  <2> QED
    BY <2>4 DEF s
<1> QED
  BY <1>1, <1>2, <1>3, <1>4, <1>5, <1>6, <1>7, <1>8, <1>9, <1>10

(* The two sides of a program's codec agree: the tag that pack writes for a *)
(* kind is read as that kind, with the same fields.                         *)
Agree(pack, unpack) ==
  \A kind \in DOMAIN pack :
     /\ pack[kind].tag \in Bytes /\ pack[kind].tag \in DOMAIN unpack
     /\ unpack[pack[kind].tag] = Reads(kind, pack[kind].fields)
     /\ pack[kind].fields \in Layouts

LEMMA AmmAgrees == Agree(AmmPack, AmmUnpack)
<1>1. 0 .. 12 \subseteq Bytes
  BY WireAssumption DEF Bytes
<1>2. DOMAIN AmmPack = {"Initialize", "Deposit", "Withdraw", "SwapBaseIn",
                        "PreInitialize", "SwapBaseOut"}
  BY DEF AmmPack
<1> SUFFICES ASSUME NEW kind \in DOMAIN AmmPack
             PROVE  /\ AmmPack[kind].tag \in 0 .. 12 /\ AmmPack[kind].tag \in DOMAIN AmmUnpack
                    /\ AmmUnpack[AmmPack[kind].tag] = Reads(kind, AmmPack[kind].fields)
                    /\ AmmPack[kind].fields \in Layouts
  BY <1>1 DEF Agree
<1>3. CASE kind = "Initialize"
  BY <1>3, TableLayouts DEF AmmPack, AmmUnpack, Writes
<1>4. CASE kind = "Deposit"
  BY <1>4, TableLayouts DEF AmmPack, AmmUnpack, Writes
<1>5. CASE kind = "Withdraw"
  BY <1>5, TableLayouts DEF AmmPack, AmmUnpack, Writes
<1>6. CASE kind = "SwapBaseIn"
  BY <1>6, TableLayouts DEF AmmPack, AmmUnpack, Writes
<1>7. CASE kind = "PreInitialize"
  BY <1>7, TableLayouts DEF AmmPack, AmmUnpack, Writes
<1>8. CASE kind = "SwapBaseOut"
  BY <1>8, TableLayouts DEF AmmPack, AmmUnpack, Writes
<1> QED
  BY <1>2, <1>3, <1>4, <1>5, <1>6, <1>7, <1>8

LEMMA StableAgrees == Agree(StablePack, StableUnpack)
<1>1. 0 .. 12 \subseteq Bytes
  BY WireAssumption DEF Bytes
<1>2. DOMAIN StablePack = {"Initialize", "Deposit", "Withdraw", "SwapBaseIn",
                        "PreInitialize", "SwapBaseOut"}
  BY DEF StablePack
<1> SUFFICES ASSUME NEW kind \in DOMAIN StablePack
             PROVE  /\ StablePack[kind].tag \in 0 .. 12
                    /\ StablePack[kind].tag \in DOMAIN StableUnpack
                    /\ StableUnpack[StablePack[kind].tag] = Reads(kind, StablePack[kind].fields)
                    /\ StablePack[kind].fields \in Layouts
  BY <1>1 DEF Agree
<1>3. CASE kind = "Initialize"
  BY <1>3, TableLayouts DEF StablePack, StableUnpack, StableReadsPool, StableTags, Writes
<1>4. CASE kind = "Deposit"
  BY <1>4, TableLayouts DEF StablePack, StableUnpack, StableReadsPool, StableTags, Writes
<1>5. CASE kind = "Withdraw"
  BY <1>5, TableLayouts DEF StablePack, StableUnpack, StableReadsPool, StableTags, Writes
<1>6. CASE kind = "SwapBaseIn"
  BY <1>6, TableLayouts DEF StablePack, StableUnpack, StableReadsPool, StableTags, Writes
<1>7. CASE kind = "PreInitialize"
  BY <1>7, TableLayouts DEF StablePack, StableUnpack, StableReadsPool, StableTags, Writes
<1>8. CASE kind = "SwapBaseOut"
  BY <1>8, TableLayouts DEF StablePack, StableUnpack, StableReadsPool, StableTags, Writes
<1> QED
  BY <1>2, <1>3, <1>4, <1>5, <1>6, <1>7, <1>8

LEMMA FarmAgrees == Agree(FarmSerialize, FarmDeserialize)
<1>1. 0 .. 12 \subseteq Bytes
  BY WireAssumption DEF Bytes
<1>2. DOMAIN FarmSerialize = {"Initialize", "Deposit", "Withdraw", "UpdatePool",
                        "EmergencyWithdraw", "CreateAssociatedAccount", "DepositV2", "WithdrawV2"}
  BY DEF FarmSerialize
<1> SUFFICES ASSUME NEW kind \in DOMAIN FarmSerialize
             PROVE  /\ FarmSerialize[kind].tag \in 0 .. 12
                    /\ FarmSerialize[kind].tag \in DOMAIN FarmDeserialize
                    /\ FarmDeserialize[FarmSerialize[kind].tag]
                         = Reads(kind, FarmSerialize[kind].fields)
                    /\ FarmSerialize[kind].fields \in Layouts
  BY <1>1 DEF Agree
<1>3. CASE kind = "Initialize"
  BY <1>3, TableLayouts DEF FarmSerialize, FarmDeserialize, Writes
<1>4. CASE kind = "Deposit"
  BY <1>4, TableLayouts DEF FarmSerialize, FarmDeserialize, Writes
<1>5. CASE kind = "Withdraw"
  BY <1>5, TableLayouts DEF FarmSerialize, FarmDeserialize, Writes
<1>6. CASE kind = "UpdatePool"
  BY <1>6, TableLayouts DEF FarmSerialize, FarmDeserialize, Writes
<1>7. CASE kind = "EmergencyWithdraw"
  BY <1>7, TableLayouts DEF FarmSerialize, FarmDeserialize, Writes
<1>8. CASE kind = "CreateAssociatedAccount"
  BY <1>8, TableLayouts DEF FarmSerialize, FarmDeserialize, Writes
<1>9. CASE kind = "DepositV2"
  BY <1>9, TableLayouts DEF FarmSerialize, FarmDeserialize, Writes
<1>10. CASE kind = "WithdrawV2"
  BY <1>10, TableLayouts DEF FarmSerialize, FarmDeserialize, Writes
<1> QED
  BY <1>2, <1>3, <1>4, <1>5, <1>6, <1>7, <1>8, <1>9, <1>10

LEMMA StakingAgrees == Agree(StakingSerialize, StakingDeserialize)
<1>1. 0 .. 12 \subseteq Bytes
  BY WireAssumption DEF Bytes
<1>2. DOMAIN StakingSerialize = {"Initialize", "Deposit", "Withdraw", "UpdatePool",
                        "EmergencyWithdraw", "CreateAssociatedAccount", "DepositV2", "WithdrawV2"}
  BY DEF StakingSerialize
<1> SUFFICES ASSUME NEW kind \in DOMAIN StakingSerialize
             PROVE  /\ StakingSerialize[kind].tag \in 0 .. 12
                    /\ StakingSerialize[kind].tag \in DOMAIN StakingDeserialize
                    /\ StakingDeserialize[StakingSerialize[kind].tag]
                         = Reads(kind, StakingSerialize[kind].fields)
                    /\ StakingSerialize[kind].fields \in Layouts
  BY <1>1 DEF Agree
<1>3. CASE kind = "Initialize"
  BY <1>3, TableLayouts DEF StakingSerialize, StakingDeserialize, Writes
<1>4. CASE kind = "Deposit"
  BY <1>4, TableLayouts DEF StakingSerialize, StakingDeserialize, Writes
<1>5. CASE kind = "Withdraw"
  BY <1>5, TableLayouts DEF StakingSerialize, StakingDeserialize, Writes
<1>6. CASE kind = "UpdatePool"
  BY <1>6, TableLayouts DEF StakingSerialize, StakingDeserialize, Writes
<1>7. CASE kind = "EmergencyWithdraw"
  BY <1>7, TableLayouts DEF StakingSerialize, StakingDeserialize, Writes
<1>8. CASE kind = "CreateAssociatedAccount"
  BY <1>8, TableLayouts DEF StakingSerialize, StakingDeserialize, Writes
<1>9. CASE kind = "DepositV2"
  BY <1>9, TableLayouts DEF StakingSerialize, StakingDeserialize, Writes
<1>10. CASE kind = "WithdrawV2"
  BY <1>10, TableLayouts DEF StakingSerialize, StakingDeserialize, Writes
<1> QED
  BY <1>2, <1>3, <1>4, <1>5, <1>6, <1>7, <1>8, <1>9, <1>10

LEMMA TablesAgree ==
  ASSUME NEW program \in Programs
  PROVE  Agree(PackTable(program), UnpackTable(program))
<1>1. CASE program = "amm"
  BY <1>1, AmmAgrees DEF PackTable, UnpackTable
<1>2. CASE program = "stable"
  BY <1>2, StableAgrees DEF PackTable, UnpackTable
<1>3. CASE program = "farm"
  BY <1>3, FarmAgrees DEF PackTable, UnpackTable
<1>4. CASE program = "staking"
  BY <1>4, StakingAgrees DEF PackTable, UnpackTable
<1> QED
  BY <1>1, <1>2, <1>3, <1>4 DEF Programs

-----------------------------------------------------------------------------
(* -- What unpack reads --------------------------------------------------- *)

(* Data that holds an instruction entirely, whatever comes behind it.       *)
Carries(data, tag, fields, args) ==
  data \in Seq(Bytes) /\ LongEnough(data, fields) /\ Holds(data, tag, fields, args)

LEMMA BufferSizeType ==
  ASSUME NEW program \in Programs
  PROVE  BufferSize(program) \in Nat
<1>1. 4 * Word \in Nat /\ StakeWords \in Nat /\ Word \in Nat
  BY WireAssumption
<1>2. StakeWords * Word \in Nat
  BY <1>1
<1> QED
  BY <1>1, <1>2 DEF BufferSize, Programs

(* What the tag and the fields' bytes are is an instruction.                *)
LEMMA BodyCarries ==
  ASSUME NEW fields \in Layouts, NEW args \in ArgsFor(fields), NEW tag \in Bytes
  PROVE  Carries(<<tag>> \o FieldBytes(fields, args), tag, fields, args)
<1> DEFINE m == Len(fields)
           s == StartOf(fields)
           body == FieldBytes(fields, args)
           bytes == <<tag>> \o body
<1>1. /\ m \in Nat /\ \A i \in 1 .. m + 1 : s[i] \in Nat /\ s[i] >= 2
      /\ \A i \in 1 .. m : fields[i].width \in Nat
  BY StartOfType
<1>2. /\ body \in Seq(Bytes) /\ Len(body) = s[m + 1] - 2
      /\ \A i \in 1 .. m : \A j \in 1 .. fields[i].width :
            body[s[i] - 2 + j] = LittleEndian(args[fields[i].name], fields[i].width)[j]
  BY FieldBytesAt
<1>3. \A i \in 1 .. m : s[i] + fields[i].width <= s[m + 1]
  BY FieldsInside
<1>4. \A i \in 1 .. m : i \in 1 .. m + 1
  BY <1>1
<1>5. m + 1 \in 1 .. m + 1
  BY <1>1
<1> HIDE DEF body, s, m
<1>6. /\ bytes \in Seq(Bytes) /\ Len(bytes) = Len(body) + 1 /\ bytes[1] = tag
      /\ \A x \in 1 .. Len(body) : bytes[x + 1] = body[x]
  BY <1>2
<1> HIDE DEF bytes
<1>7. Len(bytes) >= s[m + 1] - 1
  BY <1>1, <1>2, <1>5, <1>6
<1>8. ASSUME NEW i \in 1 .. m, NEW j \in 1 .. fields[i].width
      PROVE  bytes[s[i] + j - 1] = LittleEndian(args[fields[i].name], fields[i].width)[j]
  <2> DEFINE x == s[i] - 2 + j
  <2>1. body[x] = LittleEndian(args[fields[i].name], fields[i].width)[j]
    BY <1>2
  <2>2. /\ s[i] \in Nat /\ s[i] >= 2 /\ fields[i].width \in Nat
        /\ s[i] + fields[i].width <= s[m + 1] /\ s[m + 1] \in Nat
    BY <1>1, <1>3, <1>4, <1>5
  <2>3. x \in 1 .. Len(body) /\ x + 1 = s[i] + j - 1
    BY <1>2, <2>2
  <2> HIDE DEF x
  <2> QED
    BY <1>6, <2>1, <2>3
<1>9. Holds(bytes, tag, fields, args)
  BY <1>6, <1>8 DEF Holds, s, m
<1>10. LongEnough(bytes, fields)
  BY <1>7 DEF LongEnough, s, m
<1> QED
  BY <1>6, <1>9, <1>10 DEF Carries, bytes, body

(* A byte of a field is one of the bytes before the end of the last field.  *)
LEMMA InsideField ==
  ASSUME NEW p \in Nat, p >= 2, NEW w \in Nat, NEW e \in Nat, p + w <= e, NEW j \in 1 .. w
  PROVE  p + j - 1 \in 1 .. e - 1
OBVIOUS

(* More bytes behind an instruction leave it what it was.                   *)
LEMMA CarriesOn ==
  ASSUME NEW fields \in Layouts, NEW args, NEW tag, NEW data, NEW longer \in Seq(Bytes),
         Carries(data, tag, fields, args),
         Len(longer) >= StartOf(fields)[Len(fields) + 1] - 1,
         \A x \in 1 .. StartOf(fields)[Len(fields) + 1] - 1 : longer[x] = data[x]
  PROVE  Carries(longer, tag, fields, args)
<1> DEFINE m == Len(fields)
           s == StartOf(fields)
<1>1. /\ m \in Nat /\ \A i \in 1 .. m + 1 : s[i] \in Nat /\ s[i] >= 2
      /\ \A i \in 1 .. m : fields[i].width \in Nat
  BY StartOfType
<1>2. \A i \in 1 .. m : s[i] + fields[i].width <= s[m + 1]
  BY FieldsInside
<1>3. /\ data[1] = tag
      /\ \A i \in 1 .. m : \A j \in 1 .. fields[i].width :
           data[s[i] + j - 1] = LittleEndian(args[fields[i].name], fields[i].width)[j]
  BY DEF Carries, Holds
<1>4. \A x \in 1 .. s[m + 1] - 1 : longer[x] = data[x]
  OBVIOUS
<1>5. m + 1 \in 1 .. m + 1 /\ \A i \in 1 .. m : i \in 1 .. m + 1
  BY <1>1
<1> HIDE DEF s, m
<1>6. longer[1] = tag
  BY <1>1, <1>3, <1>4, <1>5
<1>7. ASSUME NEW i \in 1 .. m, NEW j \in 1 .. fields[i].width
      PROVE  longer[s[i] + j - 1] = LittleEndian(args[fields[i].name], fields[i].width)[j]
  <2> DEFINE x == s[i] + j - 1
  <2>1. data[x] = LittleEndian(args[fields[i].name], fields[i].width)[j]
    BY <1>3
  <2>2. /\ s[i] \in Nat /\ s[i] >= 2 /\ fields[i].width \in Nat
        /\ s[i] + fields[i].width <= s[m + 1] /\ s[m + 1] \in Nat
    BY <1>1, <1>2, <1>5
  <2>3. x \in 1 .. s[m + 1] - 1
    <3> DEFINE p == s[i]
               w == fields[i].width
               e == s[m + 1]
    <3>1. p \in Nat /\ p >= 2 /\ w \in Nat /\ e \in Nat /\ p + w <= e /\ j \in 1 .. w
      BY <2>2
    <3> HIDE DEF p, w, e
    <3>2. p + j - 1 \in 1 .. e - 1
      BY <3>1, InsideField
    <3> QED
      BY <3>2 DEF p, e
  <2> HIDE DEF x
  <2>4. longer[x] = LittleEndian(args[fields[i].name], fields[i].width)[j]
    BY <1>4, <2>1, <2>3
  <2> QED
    BY <2>4 DEF x
<1> QED
  BY <1>6, <1>7 DEF Carries, Holds, LongEnough, s, m

LEMMA PackedCarries ==
  ASSUME NEW program \in Programs, NEW kind \in DOMAIN PackTable(program),
         NEW args \in ArgsFor(FieldsAt(program, kind))
  PROVE  Carries(Packed(program, kind, args), TagOf(program, kind), FieldsAt(program, kind), args)
<1> DEFINE fields == FieldsAt(program, kind)
           tag == TagOf(program, kind)
           e == StartOf(fields)[Len(fields) + 1]
           bytes == <<tag>> \o FieldBytes(fields, args)
           n == BufferSize(program) - Len(bytes)
           data == bytes \o [i \in 1 .. n |-> 0]
<1>1. Packed(program, kind, args) = data
  BY DEF Packed, FieldsAt, TagOf
<1>2. fields \in Layouts /\ tag \in Bytes
  BY TablesAgree DEF Agree, FieldsAt, TagOf
<1>3. Carries(bytes, tag, fields, args)
  BY <1>2, BodyCarries
<1>4. bytes \in Seq(Bytes) /\ Len(bytes) >= e - 1
  BY <1>3 DEF Carries, LongEnough
<1> HIDE DEF bytes
<1>5. n \in Int
  BY <1>4, BufferSizeType
<1> HIDE DEF n
<1>6. /\ data \in Seq(Bytes) /\ Len(data) >= Len(bytes)
      /\ \A x \in 1 .. Len(bytes) : data[x] = bytes[x]
  BY <1>4, <1>5, Padded
<1>7. e \in Nat
  BY <1>2, StartOfType
<1> HIDE DEF data, e
<1>8. Len(data) >= e - 1 /\ \A x \in 1 .. e - 1 : data[x] = bytes[x]
  BY <1>4, <1>6, <1>7
<1> HIDE DEF fields, tag
<1>9. Carries(data, tag, fields, args)
  BY <1>2, <1>3, <1>6, <1>8, CarriesOn DEF e
<1> QED
  BY <1>1, <1>9 DEF fields, tag

(* A field of data that carries an instruction is the argument.             *)
LEMMA FieldOfCarrier ==
  ASSUME NEW fields \in Layouts, NEW args \in ArgsFor(fields), NEW tag, NEW data,
         Carries(data, tag, fields, args), NEW i \in 1 .. Len(fields)
  PROVE  FieldAt(data, StartOf(fields)[i], fields[i].width) = args[fields[i].name]
<1> DEFINE m == Len(fields)
           s == StartOf(fields)
           w == fields[i].width
           v == args[fields[i].name]
           read == [j \in 1 .. w |-> IF s[i] + j - 1 <= Len(data) THEN data[s[i] + j - 1] ELSE 0]
<1>1. /\ m \in Nat /\ s[i] \in Nat /\ s[i] >= 2 /\ s[m + 1] \in Nat /\ w \in Nat
      /\ s[i] + w <= s[m + 1]
  <2>1. m + 1 \in 1 .. m + 1 /\ i \in 1 .. m + 1
    BY StartOfType
  <2> QED
    BY <2>1, StartOfType, FieldsInside
<1>2. Len(data) \in Nat /\ Len(data) >= s[m + 1] - 1
  BY DEF Carries, LongEnough
<1>3. \A j \in 1 .. w : data[s[i] + j - 1] = LittleEndian(v, w)[j]
  BY DEF Carries, Holds
<1>4. v \in Nat /\ Fits(v, w)
  BY ArgOfField
<1>5. LittleEndian(v, w) \in Seq(Bytes) /\ Len(LittleEndian(v, w)) = w
  BY <1>1, <1>4, LittleEndianType
<1> DEFINE b == LittleEndian(v, w)
<1>6. b = [j \in 1 .. w |-> b[j]]
  BY DEF LittleEndian
<1> HIDE DEF b, s, w, v, m
<1>7. \A j \in 1 .. w : s[i] + j - 1 <= Len(data)
  BY <1>1, <1>2
<1>8. read = [j \in 1 .. w |-> b[j]]
  BY <1>3, <1>7 DEF b
<1>9. read = b
  BY <1>6, <1>8
<1>10. ValueOf(b) = v
  BY <1>1, <1>4, ValueOfLittleEndian DEF b
<1>11. FieldAt(data, s[i], w) = ValueOf(read)
  BY DEF FieldAt
<1> HIDE DEF read
<1>12. FieldAt(data, s[i], w) = v
  BY <1>9, <1>10, <1>11
<1> QED
  BY <1>12 DEF s, w, v

(* Unpack returns the instruction that the data carries, and refuses data   *)
(* that ends within the fields its tag announces.                           *)
LEMMA UnpackedCarrier ==
  ASSUME NEW program \in Programs, NEW tag \in DOMAIN UnpackTable(program),
         NEW kind, NEW fields \in Layouts, NEW args \in ArgsFor(fields),
         UnpackTable(program)[tag] = Reads(kind, fields),
         NEW data, Carries(data, tag, fields, args)
  PROVE  Unpacked(program, data) = [ok |-> TRUE, kind |-> kind, args |-> args]
<1> DEFINE Index(name) == CHOOSE i \in 1 .. Len(fields) : fields[i].name = name
           read == [name \in Names(fields) |->
                      FieldAt(data, StartOf(fields)[Index(name)], fields[Index(name)].width)]
<1>1. data \in Seq(Bytes) /\ LongEnough(data, fields) /\ data[1] = tag
  BY DEF Carries, Holds
<1>2. data # <<>>
  <2>1. Len(fields) + 1 \in 1 .. Len(fields) + 1
    BY StartOfType
  <2>2. StartOf(fields)[Len(fields) + 1] >= 2 /\ StartOf(fields)[Len(fields) + 1] \in Nat
    BY <2>1, StartOfType
  <2> QED
    BY <1>1, <2>2 DEF LongEnough
<1>3. Head(data) = tag
  BY <1>1, <1>2
<1>4. Unpacked(program, data) = [ok |-> TRUE, kind |-> kind, args |-> read]
  <2> DEFINE entry == UnpackTable(program)[Head(data)]
             Read(f) == [name \in Names(f) |->
                LET k == CHOOSE i \in 1 .. Len(f) : f[i].name = name
                IN  FieldAt(data, StartOf(f)[k], f[k].width)]
  <2>1. Head(data) \in DOMAIN UnpackTable(program)
    BY <1>3
  <2>2. entry.kind = kind /\ entry.fields = fields
    BY <1>3 DEF Reads
  <2>3. LongEnough(data, entry.fields)
    BY <1>1, <2>2
  <2>4. Unpacked(program, data) = [ok |-> TRUE, kind |-> entry.kind, args |-> Read(entry.fields)]
    BY <1>2, <2>1, <2>3 DEF Unpacked
  <2>5. read = Read(fields)
    OBVIOUS
  <2> HIDE DEF Read, entry, read
  <2> QED
    BY <2>2, <2>4, <2>5
<1>5. ASSUME NEW name \in Names(fields) PROVE read[name] = args[name]
  <2>1. PICK i \in 1 .. Len(fields) : fields[i].name = name
    BY DEF Names
  <2>2. Index(name) \in 1 .. Len(fields) /\ fields[Index(name)].name = name
    BY <2>1
  <2> DEFINE k == Index(name)
  <2>3. read[name] = FieldAt(data, StartOf(fields)[k], fields[k].width)
    OBVIOUS
  <2> HIDE DEF k
  <2> QED
    BY <2>2, <2>3, FieldOfCarrier DEF k
<1>6. args \in [Names(fields) -> Nat]
  BY DEF ArgsFor
<1> HIDE DEF Index
<1>7. read = args
  BY <1>5, <1>6
<1> QED
  BY <1>4, <1>7

LEMMA UnpackedShort ==
  ASSUME NEW program \in Programs, NEW tag \in DOMAIN UnpackTable(program),
         NEW kind, NEW fields, UnpackTable(program)[tag] = Reads(kind, fields),
         NEW data \in Seq(Bytes), data # <<>>, data[1] = tag, ~LongEnough(data, fields)
  PROVE  Unpacked(program, data) = Err
<1>1. Head(data) = tag
  OBVIOUS
<1> QED
  BY <1>1 DEF Unpacked, Reads

(* The codec of each program, for every kind and every argument that fits   *)
(* its field: what pack writes, unpack of the same program reads, kind and  *)
(* arguments.                                                               *)
THEOREM UnpackReadsWhatPackWrote ==
  ASSUME NEW program \in Programs, NEW kind \in DOMAIN PackTable(program),
         NEW args \in ArgsFor(FieldsAt(program, kind))
  PROVE  Unpacked(program, Packed(program, kind, args))
            = [ok |-> TRUE, kind |-> kind, args |-> args]
<1>1. /\ TagOf(program, kind) \in DOMAIN UnpackTable(program)
      /\ UnpackTable(program)[TagOf(program, kind)] = Reads(kind, FieldsAt(program, kind))
      /\ FieldsAt(program, kind) \in Layouts
  BY TablesAgree DEF Agree, FieldsAt, TagOf
<1> QED
  BY <1>1, PackedCarries, UnpackedCarrier

(* Bytes behind an instruction, however many, are ignored: unpack compares  *)
(* the length with what it needs only.                                      *)
THEOREM UnpackIgnoresTail ==
  ASSUME NEW program \in Programs, NEW kind \in DOMAIN PackTable(program),
         NEW args \in ArgsFor(FieldsAt(program, kind)), NEW tail \in Seq(Bytes)
  PROVE  Unpacked(program, Packed(program, kind, args) \o tail)
            = [ok |-> TRUE, kind |-> kind, args |-> args]
<1> DEFINE fields == FieldsAt(program, kind)
           tag == TagOf(program, kind)
           data == Packed(program, kind, args)
           longer == data \o tail
           e == StartOf(fields)[Len(fields) + 1]
<1>1. /\ tag \in DOMAIN UnpackTable(program)
      /\ UnpackTable(program)[tag] = Reads(kind, fields)
      /\ fields \in Layouts
  BY TablesAgree DEF Agree, FieldsAt, TagOf
<1>2. Carries(data, tag, fields, args)
  BY PackedCarries
<1> HIDE DEF fields, tag, data
<1>3. data \in Seq(Bytes) /\ Len(data) >= e - 1
  BY <1>2 DEF Carries, LongEnough
<1>4. e \in Nat
  BY <1>1, StartOfType
<1> HIDE DEF e
<1>5. /\ longer \in Seq(Bytes) /\ Len(longer) >= e - 1
      /\ \A x \in 1 .. e - 1 : longer[x] = data[x]
  BY <1>3, <1>4
<1> HIDE DEF longer
<1>6. Carries(longer, tag, fields, args)
  BY <1>1, <1>2, <1>5, CarriesOn DEF e
<1>7. args \in ArgsFor(fields)
  BY DEF fields
<1>8. Unpacked(program, longer) = [ok |-> TRUE, kind |-> kind, args |-> args]
  BY <1>1, <1>6, <1>7, UnpackedCarrier
<1> QED
  BY <1>8 DEF longer, data

=============================================================================
