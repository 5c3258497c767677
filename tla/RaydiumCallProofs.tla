------------------------- MODULE RaydiumCallProofs -------------------------
(***************************************************************************)
(* Proofs about RaydiumCall, for every size of a byte and of a word: the   *)
(* codec's part follows from RaydiumWireProofs, the account lists' part    *)
(* from the lists.                                                         *)
(***************************************************************************)
EXTENDS RaydiumCall, RaydiumWireProofs

(* -- The values of an argument fit its field ----------------------------- *)

LEMMA PowersStep ==
  ASSUME NEW w \in Nat
  PROVE  /\ Powers(w)[0] = 1
         /\ \A i \in 1 .. w : Powers(w)[i] = Base * Powers(w)[i - 1]
<1> DEFINE Solves(g, n) == g = [i \in 0 .. n |-> IF i = 0 THEN 1 ELSE Base * g[i - 1]]
           Solved(n) == \E g : Solves(g, n)
<1>1. Solved(0)
  <2> DEFINE g == [i \in 0 .. 0 |-> 1]
  <2>1. Solves(g, 0)
    OBVIOUS
  <2> QED
    BY <2>1
<1>2. ASSUME NEW n \in Nat, Solved(n) PROVE Solved(n + 1)
  <2>1. PICK g : Solves(g, n)
    BY <1>2
  <2> DEFINE h == [i \in 0 .. n + 1 |-> IF i = 0 THEN 1 ELSE Base * g[i - 1]]
  <2>2. \A i \in 0 .. n : h[i] = g[i]
    BY <2>1
  <2>3. \A i \in 0 .. n + 1 : i # 0 => h[i - 1] = g[i - 1]
    <3> HIDE DEF h
    <3> QED
      BY <2>2, Predecessor
  <2>4. Solves(h, n + 1)
    BY <2>3
  <2> QED
    BY <2>4
<1>3. Solved(w)
  <2> HIDE DEF Solved
  <2> DEFINE I == {n \in Nat : Solved(n)}
  <2>1. 0 \in I /\ \A n \in Nat : n \in I => n + 1 \in I
    BY <1>1, <1>2
  <2> HIDE DEF I
  <2>2. w \in I
    BY <2>1, EveryNatural
  <2> QED
    BY <2>2 DEF I
<1> DEFINE p == Powers(w)
<1>4. Solves(p, w)
  BY <1>3 DEF Powers
<1> HIDE DEF p
<1>5. p[0] = 1 /\ \A i \in 1 .. w : p[i] = Base * p[i - 1]
  BY <1>4
<1> QED
  BY <1>5 DEF p

LEMMA Product ==
  ASSUME NEW b \in Nat \ {0}, NEW p \in Nat \ {0}
  PROVE  b * p \in Nat \ {0} /\ (b > 12 => b * p > p /\ b * p > 1)
OBVIOUS

LEMMA PowersType ==
  ASSUME NEW w \in Nat
  PROVE  \A i \in 0 .. w : Powers(w)[i] \in Nat \ {0}
<1> DEFINE p == Powers(w)
           I == {i \in 0 .. w : p[i] \in Nat \ {0}}
<1>1. p[0] = 1 /\ \A i \in 1 .. w : p[i] = Base * p[i - 1]
  BY PowersStep
<1>2. Base \in Nat \ {0}
  BY WireAssumption
<1> HIDE DEF p
<1>3. 0 \in I
  BY <1>1
<1>4. ASSUME NEW i \in 1 .. w, i - 1 \in I PROVE i \in I
  <2>1. p[i] = Base * p[i - 1] /\ p[i - 1] \in Nat \ {0} /\ i \in 0 .. w
    BY <1>1, <1>4
  <2> QED
    BY <1>2, <2>1, Product
<1> HIDE DEF I
<1>5. \A i \in 0 .. w : i \in I
  BY <1>3, <1>4, UpTo
<1> QED
  BY <1>5 DEF I, p

LEMMA QuotientBelow ==
  ASSUME NEW n \in Nat, NEW b \in Nat \ {0}, NEW p \in Nat, n < b * p
  PROVE  n \div b < p
<1> DEFINE q == n \div b
<1>1. n = b * q + (n % b) /\ q \in Int /\ (n % b) \in Nat
  BY Division
<1> HIDE DEF q
<1>2. SUFFICES ASSUME q >= p PROVE FALSE
  BY <1>1 DEF q
<1>3. PICK d \in Nat : q = p + d
  BY <1>1, <1>2
<1>4. b * q = b * p + b * d /\ b * d \in Nat /\ b * p \in Nat
  BY <1>3
<1> QED
  BY <1>1, <1>4

(* What is left of a number below Base^w without i bytes is below           *)
(* Base^(w - i), so nothing is left without w of them.                      *)
LEMMA BelowPowerFits ==
  ASSUME NEW w \in Nat, NEW v \in Nat, v < Powers(w)[w]
  PROVE  Fits(v, w)
<1> DEFINE p == Powers(w)
           s == Shifts(v, w)
           I == {i \in 0 .. w : s[i] < p[w - i]}
<1>1. p[0] = 1 /\ \A i \in 1 .. w : p[i] = Base * p[i - 1]
  BY PowersStep
<1>2. s[0] = v /\ \A i \in 1 .. w : s[i] = s[i - 1] \div Base
  BY ShiftsStep
<1>3. \A i \in 0 .. w : s[i] \in Nat /\ p[i] \in Nat
  BY ShiftsType, PowersType
<1>4. Base \in Nat \ {0} /\ v < p[w]
  BY WireAssumption
<1> HIDE DEF p, s
<1>5. 0 \in I
  BY <1>2, <1>4
<1>6. ASSUME NEW i \in 1 .. w, i - 1 \in I PROVE i \in I
  <2> DEFINE k == w - i
  <2>1. /\ k \in 0 .. w /\ k + 1 \in 1 .. w /\ (k + 1) - 1 = k /\ w - (i - 1) = k + 1
        /\ i - 1 \in 0 .. w /\ i \in 0 .. w
    OBVIOUS
  <2>2. s[i - 1] < p[k + 1]
    BY <1>6, <2>1
  <2>3. p[k + 1] = Base * p[k] /\ s[i] = s[i - 1] \div Base
    BY <1>1, <1>2, <2>1
  <2>4. s[i - 1] \in Nat /\ p[k] \in Nat
    BY <1>3, <2>1
  <2>5. s[i] < p[k]
    BY <1>4, <2>2, <2>3, <2>4, QuotientBelow
  <2> QED
    BY <2>1, <2>5
<1> HIDE DEF I
<1>7. \A i \in 0 .. w : i \in I
  BY <1>5, <1>6, UpTo
<1>8. s[w] < p[w - w] /\ s[w] \in Nat
  BY <1>3, <1>7 DEF I
<1>9. s[w] = 0
  BY <1>1, <1>8
<1> QED
  BY <1>9 DEF Fits, s

LEMMA ValuesFit ==
  ASSUME NEW w \in Nat \ {0}, NEW v \in Values(w)
  PROVE  v \in Nat /\ Fits(v, w)
<1> DEFINE p == Powers(w)
<1>1. p[w - 1] \in Nat \ {0} /\ p[w] = Base * p[w - 1]
  BY PowersType, PowersStep
<1>2. v \in {0, 1, p[w - 1], p[w] - 1}
  BY DEF Values
<1> HIDE DEF p
<1>3. p[w] \in Nat \ {0} /\ p[w] > p[w - 1] /\ p[w] > 1
  BY <1>1, WireAssumption, Product
<1>4. v \in Nat /\ v < p[w]
  BY <1>1, <1>2, <1>3
<1> QED
  BY <1>4, BelowPowerFits DEF p

LEMMA ArgsFit ==
  ASSUME NEW fields \in Layouts, NEW args \in ArgsOf(fields)
  PROVE  args \in ArgsFor(fields)
<1>1. \A i \in 1 .. Len(fields) : fields[i].width \in Nat \ {0}
  BY FieldOfLayout
<1>2. \A i \in 1 .. Len(fields) : args[fields[i].name] \in Values(fields[i].width)
  BY DEF ArgsOf
<1>3. \A i \in 1 .. Len(fields) : /\ args[fields[i].name] \in Nat
                                  /\ Fits(args[fields[i].name], fields[i].width)
  BY <1>1, <1>2, ValuesFit
<1>4. args = [name \in Names(fields) |-> args[name]]
  BY DEF ArgsOf
<1>5. \A name \in Names(fields) : args[name] \in Nat
  BY <1>3 DEF Names
<1> QED
  BY <1>3, <1>4, <1>5 DEF ArgsFor

-----------------------------------------------------------------------------
(* What a call has at each stage: data and accounts are what the builder    *)
(* made of the instruction, and got is what unpack made of a delivery.      *)
InstrInv ==
  /\ stage \in {"new", "refused", "panicked", "built", "decoded", "crashed"}
  /\ program \in Programs /\ target \in Programs
  /\ instr \in Instructions(program)
  /\ instr.kind # "Reserved" => opts \subseteq Options(program, instr.kind)

BuiltInv ==
  IF stage \in {"built", "decoded", "crashed"} /\ instr.kind # "Reserved"
  THEN /\ data = Packed(program, instr.kind, instr.args)
       /\ accounts = Accounts(program, instr.kind, opts)
  ELSE data = <<>> /\ accounts = <<>>

DecodedInv ==
  /\ stage \in {"decoded", "crashed"} => handed \in Deliveries
  /\ stage \notin {"decoded", "crashed"} => handed = <<>>
  /\ got = IF stage = "decoded" THEN Unpacked(target, handed) ELSE Err

CallInv == InstrInv /\ BuiltInv /\ DecodedInv

-----------------------------------------------------------------------------
(* -- The instruction and its data ---------------------------------------- *)

LEMMA NoReservedKind ==
  ASSUME NEW p \in Programs
  PROVE  "Reserved" \notin DOMAIN PackTable(p)
BY DEF Programs, PackTable, AmmPack, StablePack, FarmSerialize, StakingSerialize

LEMMA InstrParts ==
  ASSUME NEW p \in Programs, NEW i \in Instructions(p), i.kind # "Reserved"
  PROVE  /\ i.kind \in DOMAIN PackTable(p)
         /\ i.args \in ArgsFor(FieldsAt(p, i.kind))
<1>1. PICK k \in DOMAIN PackTable(p) :
        \E args \in ArgsOf(PackTable(p)[k].fields) : i = [kind |-> k, args |-> args]
  BY DEF Instructions
<1>2. PICK args \in ArgsOf(PackTable(p)[k].fields) : i = [kind |-> k, args |-> args]
  BY <1>1
<1>3. FieldsAt(p, k) \in Layouts
  BY TablesAgree DEF Agree, FieldsAt
<1>4. args \in ArgsFor(FieldsAt(p, k))
  BY <1>3, ArgsFit DEF FieldsAt
<1> QED
  BY <1>2, <1>4

(* The data of an instruction, for every program that reads its tag as the  *)
(* kind and the fields it was written with.                                 *)
LEMMA DataCarries ==
  ASSUME NEW p \in Programs, NEW i \in Instructions(p), i.kind # "Reserved"
  PROVE  LET data_ == Packed(p, i.kind, i.args)
         IN  /\ data_ \in Seq(Bytes) /\ data_ # <<>>
             /\ Carries(data_, TagOf(p, i.kind), FieldsAt(p, i.kind), i.args)
             /\ FieldsAt(p, i.kind) \in Layouts
<1>1. i.kind \in DOMAIN PackTable(p) /\ i.args \in ArgsFor(FieldsAt(p, i.kind))
  BY InstrParts
<1> DEFINE fields == FieldsAt(p, i.kind)
           bytes == Packed(p, i.kind, i.args)
           tag == TagOf(p, i.kind)
           args == i.args
<1>2. fields \in Layouts
  BY <1>1, TablesAgree DEF Agree, FieldsAt
<1>3. Carries(bytes, tag, fields, args)
  BY <1>1, PackedCarries
<1> HIDE DEF fields, bytes, tag, args
<1>4. Len(fields) + 1 \in 1 .. Len(fields) + 1
  BY <1>2, StartOfType
<1>5. StartOf(fields)[Len(fields) + 1] \in Nat /\ StartOf(fields)[Len(fields) + 1] >= 2
  BY <1>2, <1>4, StartOfType
<1>6. bytes \in Seq(Bytes) /\ bytes # <<>>
  BY <1>3, <1>5 DEF Carries, LongEnough
<1> QED
  BY <1>2, <1>3, <1>6 DEF fields, bytes, tag, args

(* What CallInv says of data, handed and accounts in each case.             *)
LEMMA BuiltData ==
  ASSUME CallInv, stage \in {"built", "decoded", "crashed"}, instr.kind # "Reserved"
  PROVE  /\ data \in Seq(Bytes) /\ data # <<>>
         /\ Carries(data, TagOf(program, instr.kind), FieldsAt(program, instr.kind), instr.args)
         /\ FieldsAt(program, instr.kind) \in Layouts
         /\ instr.kind \in DOMAIN PackTable(program)
         /\ instr.args \in ArgsFor(FieldsAt(program, instr.kind))
<1>1. /\ data = Packed(program, instr.kind, instr.args)
      /\ program \in Programs /\ instr \in Instructions(program)
  BY DEF CallInv, BuiltInv, InstrInv
<1> QED
  BY <1>1, DataCarries, InstrParts

LEMMA DataType ==
  ASSUME CallInv
  PROVE  data \in Seq(Bytes) /\ handed \in Seq(Bytes)
<1>1. data \in Seq(Bytes)
  <2>1. CASE stage \in {"built", "decoded", "crashed"} /\ instr.kind # "Reserved"
    BY <2>1, BuiltData
  <2>2. CASE ~(stage \in {"built", "decoded", "crashed"} /\ instr.kind # "Reserved")
    <3>1. data = <<>>
      BY <2>2 DEF CallInv, BuiltInv
    <3> QED
      BY <3>1
  <2> QED
    BY <2>1, <2>2
<1>2. Base - 1 \in Bytes
  BY WireAssumption DEF Bytes
<1>3. Deliveries \subseteq Seq(Bytes)
  <2>1. \A n \in 0 .. Len(data) : SubSeq(data, 1, n) \in Seq(Bytes)
    BY <1>1
  <2>2. Append(data, Base - 1) \in Seq(Bytes)
    BY <1>1, <1>2
  <2> QED
    BY <2>1, <2>2 DEF Deliveries
<1>4. handed \in Deliveries \/ handed = <<>>
  BY DEF CallInv, DecodedInv
<1>5. <<>> \in Seq(Bytes)
  OBVIOUS
<1> QED
  BY <1>1, <1>3, <1>4, <1>5

-----------------------------------------------------------------------------
(* -- The invariant -------------------------------------------------------- *)

LEMMA InitCall == Init => CallInv
<1> SUFFICES ASSUME Init PROVE CallInv
  OBVIOUS
<1>1. InstrInv
  BY DEF Init, InstrInv
<1>2. BuiltInv /\ DecodedInv
  BY DEF Init, BuiltInv, DecodedInv
<1> QED
  BY <1>1, <1>2 DEF CallInv

LEMMA StepCall == CallInv /\ [Next]_vars => CallInv'
<1> SUFFICES ASSUME CallInv, [Next]_vars PROVE CallInv'
  OBVIOUS
<1> USE DEF CallInv
<1>1. CASE PackReserved
  <2>1. InstrInv'
    BY <1>1 DEF PackReserved, InstrInv
  <2>2. BuiltInv' /\ DecodedInv'
    BY <1>1 DEF PackReserved, BuiltInv, DecodedInv, Deliveries
  <2> QED
    BY <2>1, <2>2
<1>2. CASE Build
  <2>1. InstrInv'
    BY <1>2 DEF Build, InstrInv
  <2>2. BuiltInv'
    BY <1>2 DEF Build, BuiltInv
  <2>3. DecodedInv'
    BY <1>2 DEF Build, DecodedInv
  <2> QED
    BY <2>1, <2>2, <2>3
<1>3. CASE BuildPanics
  <2>1. InstrInv'
    BY <1>3 DEF BuildPanics, InstrInv
  <2>2. BuiltInv' /\ DecodedInv'
    BY <1>3 DEF BuildPanics, BuiltInv, DecodedInv
  <2> QED
    BY <2>1, <2>2
<1>4. ASSUME NEW p \in Programs, NEW bytes \in Deliveries, Decode(p, bytes) PROVE CallInv'
  <2>1. InstrInv'
    BY <1>4 DEF Decode, InstrInv
  <2>2. BuiltInv'
    BY <1>4 DEF Decode, BuiltInv
  <2>3. DecodedInv'
    BY <1>4 DEF Decode, DecodedInv, Deliveries
  <2> QED
    BY <2>1, <2>2, <2>3
<1>5. ASSUME NEW p \in Programs, NEW bytes \in Deliveries, DecodePanics(p, bytes) PROVE CallInv'
  <2>1. InstrInv'
    BY <1>5 DEF DecodePanics, InstrInv
  <2>2. BuiltInv'
    BY <1>5 DEF DecodePanics, BuiltInv
  <2>3. DecodedInv'
    BY <1>5 DEF DecodePanics, DecodedInv, Deliveries
  <2> QED
    BY <2>1, <2>2, <2>3
<1>6. CASE UNCHANGED vars
  <2>1. InstrInv'
    BY <1>6 DEF vars, InstrInv
  <2>2. BuiltInv' /\ DecodedInv'
    BY <1>6 DEF vars, BuiltInv, DecodedInv, Deliveries
  <2> QED
    BY <2>1, <2>2
<1> QED
  BY <1>1, <1>2, <1>3, <1>4, <1>5, <1>6 DEF Next

(* What each stage of a call has: the inductive invariant of the others.    *)
THEOREM Calls == Spec => []CallInv
<1> QED
  BY InitCall, StepCall, PTL DEF Spec

-----------------------------------------------------------------------------
(* -- What the codec promises a call --------------------------------------- *)

(* The calls that got something back.                                       *)
LEMMA GotIs ==
  ASSUME CallInv, stage = "decoded"
  PROVE  /\ got = Unpacked(target, handed) /\ handed \in Deliveries
         /\ target \in Programs /\ program \in Programs
BY DEF CallInv, DecodedInv, InstrInv

LEMMA CallRoundTrip == CallInv => RoundTrip
<1> SUFFICES ASSUME CallInv, stage = "decoded", target = program, handed = data,
                    instr.kind # "Reserved"
             PROVE  got = [ok |-> TRUE, kind |-> instr.kind, args |-> instr.args]
  BY DEF RoundTrip
<1>1. /\ program \in Programs /\ got = Unpacked(program, data)
  BY GotIs
<1>2. /\ data = Packed(program, instr.kind, instr.args)
      /\ instr.kind \in DOMAIN PackTable(program)
      /\ instr.args \in ArgsFor(FieldsAt(program, instr.kind))
  BY BuiltData DEF CallInv, BuiltInv
<1> QED
  BY <1>1, <1>2, UnpackReadsWhatPackWrote

(* A delivery that is not empty begins like the data and agrees with it as  *)
(* far as both reach.                                                       *)
LEMMA DeliveryAgrees ==
  ASSUME data \in Seq(Bytes), data # <<>>, NEW d \in Deliveries, d # <<>>
  PROVE  /\ d \in Seq(Bytes) /\ d[1] = data[1]
         /\ \A x \in 1 .. Len(d) : x <= Len(data) => d[x] = data[x]
<1>1. Base - 1 \in Bytes
  BY WireAssumption DEF Bytes
<1>2. CASE d = Append(data, Base - 1)
  BY <1>1, <1>2
<1>3. ASSUME NEW n \in 0 .. Len(data), d = SubSeq(data, 1, n)
      PROVE  /\ d \in Seq(Bytes) /\ d[1] = data[1]
             /\ \A x \in 1 .. Len(d) : x <= Len(data) => d[x] = data[x]
  <2>1. d \in Seq(Bytes) /\ Len(d) = n /\ \A x \in 1 .. n : d[x] = data[x]
    BY <1>3
  <2>2. Len(d) # 0
    BY <2>1
  <2> QED
    BY <2>1, <2>2
<1> QED
  BY <1>2, <1>3 DEF Deliveries

LEMMA CallPrefixSafe == CallInv => PrefixSafe
<1> SUFFICES ASSUME CallInv, stage = "decoded", target = program, handed # <<>>,
                    instr.kind # "Reserved"
             PROVE  \/ got = Err
                    \/ got.kind = instr.kind /\ got.args = instr.args
  BY DEF PrefixSafe
<1> DEFINE kind == instr.kind
           args == instr.args
           tag == TagOf(program, kind)
           fields == FieldsAt(program, kind)
           e == StartOf(fields)[Len(fields) + 1]
<1>1. program \in Programs /\ got = Unpacked(program, handed) /\ handed \in Deliveries
  BY GotIs
<1>2. /\ data \in Seq(Bytes) /\ data # <<>> /\ Carries(data, tag, fields, args)
      /\ fields \in Layouts /\ kind \in DOMAIN PackTable(program) /\ args \in ArgsFor(fields)
  BY BuiltData
<1>3. /\ handed \in Seq(Bytes) /\ handed[1] = data[1]
      /\ \A x \in 1 .. Len(handed) : x <= Len(data) => handed[x] = data[x]
  BY <1>1, <1>2, DeliveryAgrees
<1>4. tag \in DOMAIN UnpackTable(program) /\ UnpackTable(program)[tag] = Reads(kind, fields)
  BY <1>1, <1>2, TablesAgree DEF Agree, TagOf, FieldsAt
<1>5. data[1] = tag /\ LongEnough(data, fields)
  BY <1>2 DEF Carries, Holds
<1> HIDE DEF kind, args, tag, fields
<1>6. CASE ~LongEnough(handed, fields)
  <2>1. Unpacked(program, handed) = Err
    BY <1>1, <1>3, <1>4, <1>5, <1>6, UnpackedShort
  <2> QED
    BY <1>1, <2>1
<1>7. CASE LongEnough(handed, fields)
  <2>1. e \in Nat
    BY <1>2, StartOfType
  <2>2. Len(handed) >= e - 1 /\ Len(data) >= e - 1 /\ Len(handed) \in Nat /\ Len(data) \in Nat
    BY <1>2, <1>3, <1>5, <1>7 DEF LongEnough
  <2> HIDE DEF e
  <2>3. \A x \in 1 .. e - 1 : handed[x] = data[x]
    BY <1>3, <2>1, <2>2
  <2>4. Carries(handed, tag, fields, args)
    BY <1>2, <1>3, <2>2, <2>3, CarriesOn DEF e
  <2>5. Unpacked(program, handed) = [ok |-> TRUE, kind |-> kind, args |-> args]
    BY <1>1, <1>2, <1>4, <2>4, UnpackedCarrier
  <2> QED
    BY <1>1, <2>5 DEF kind, args
<1> QED
  BY <1>6, <1>7

-----------------------------------------------------------------------------
(* -- What the twins read -------------------------------------------------- *)

(* Where farm and staking differ.                                           *)
Renumbered == {"Initialize", "CreateAssociatedAccount", "DepositV2", "WithdrawV2"}

(* What the twins share is written alike by both.                           *)
LEMMA TwinsWriteAlike ==
  ASSUME NEW p \in Programs, NEW q \in Programs, {p, q} \in Twins,
         NEW kind \in DOMAIN PackTable(p),
         p \in {"farm", "staking"} => kind \notin Renumbered
  PROVE  kind \in DOMAIN PackTable(q) /\ PackTable(q)[kind] = PackTable(p)[kind]
<1>1. CASE p = "amm" /\ q = "stable"
  BY <1>1 DEF PackTable, AmmPack, StablePack
<1>2. CASE p = "stable" /\ q = "amm"
  BY <1>2 DEF PackTable, AmmPack, StablePack
<1>3. CASE p = "farm" /\ q = "staking"
  BY <1>3 DEF PackTable, FarmSerialize, StakingSerialize, Renumbered
<1>4. CASE p = "staking" /\ q = "farm"
  BY <1>4 DEF PackTable, FarmSerialize, StakingSerialize, Renumbered
<1> QED
  BY <1>1, <1>2, <1>3, <1>4 DEF Twins

(* Data with a tag that the reader has for the same fields.                 *)
LEMMA RenumberedRead ==
  ASSUME NEW p \in Programs, NEW kind \in DOMAIN PackTable(p),
         NEW args \in ArgsFor(FieldsAt(p, kind)),
         NEW q \in Programs, NEW other, TagOf(p, kind) \in DOMAIN UnpackTable(q),
         UnpackTable(q)[TagOf(p, kind)] = Reads(other, FieldsAt(p, kind))
  PROVE  Unpacked(q, Packed(p, kind, args)) = ReadAs(other, args)
<1>1. Carries(Packed(p, kind, args), TagOf(p, kind), FieldsAt(p, kind), args)
  BY PackedCarries
<1>2. FieldsAt(p, kind) \in Layouts
  BY TablesAgree DEF Agree, FieldsAt
<1> HIDE DEF FieldsAt, TagOf
<1> QED
  BY <1>1, <1>2, UnpackedCarrier DEF ReadAs

LEMMA AlikeRead ==
  ASSUME NEW p \in Programs, NEW q \in Programs, {p, q} \in Twins,
         NEW kind \in DOMAIN PackTable(p), NEW args \in ArgsFor(FieldsAt(p, kind)),
         p \in {"farm", "staking"} => kind \notin Renumbered
  PROVE  Unpacked(q, Packed(p, kind, args)) = ReadAs(kind, args)
<1>1. kind \in DOMAIN PackTable(q) /\ PackTable(q)[kind] = PackTable(p)[kind]
  BY TwinsWriteAlike
<1>2. /\ TagOf(p, kind) \in DOMAIN UnpackTable(q)
      /\ UnpackTable(q)[TagOf(p, kind)] = Reads(kind, FieldsAt(p, kind))
  BY <1>1, TablesAgree DEF Agree, TagOf, FieldsAt
<1> QED
  BY <1>2, RenumberedRead

LEMMA V2Read ==
  /\ \A args \in ArgsFor(FieldsAt("farm", "DepositV2")) :
        Unpacked("staking", Packed("farm", "DepositV2", args)) = ReadAs("WithdrawV2", args)
  /\ \A args \in ArgsFor(FieldsAt("staking", "WithdrawV2")) :
        Unpacked("farm", Packed("staking", "WithdrawV2", args)) = ReadAs("DepositV2", args)
<1>1. /\ "farm" \in Programs /\ "staking" \in Programs
      /\ "DepositV2" \in DOMAIN PackTable("farm")
      /\ "WithdrawV2" \in DOMAIN PackTable("staking")
  BY DEF Programs, PackTable, FarmSerialize, StakingSerialize
<1>2. /\ TagOf("farm", "DepositV2") \in DOMAIN UnpackTable("staking")
      /\ UnpackTable("staking")[TagOf("farm", "DepositV2")]
            = Reads("WithdrawV2", FieldsAt("farm", "DepositV2"))
  BY DEF TagOf, FieldsAt, PackTable, FarmSerialize, UnpackTable, StakingDeserialize, Writes
<1>3. /\ TagOf("staking", "WithdrawV2") \in DOMAIN UnpackTable("farm")
      /\ UnpackTable("farm")[TagOf("staking", "WithdrawV2")]
            = Reads("DepositV2", FieldsAt("staking", "WithdrawV2"))
  BY DEF TagOf, FieldsAt, PackTable, StakingSerialize, UnpackTable, FarmDeserialize, Writes
<1> QED
  BY <1>1, <1>2, <1>3, RenumberedRead

(* Data whose tag the reader does not know.                                 *)
LEMMA UnknownRead ==
  ASSUME NEW p \in Programs, NEW kind \in DOMAIN PackTable(p),
         NEW args \in ArgsFor(FieldsAt(p, kind)),
         NEW q \in Programs, TagOf(p, kind) \notin DOMAIN UnpackTable(q)
  PROVE  Unpacked(q, Packed(p, kind, args)) = Err
<1> DEFINE d == Packed(p, kind, args)
           tag == TagOf(p, kind)
<1>1. Carries(d, tag, FieldsAt(p, kind), args)
  BY PackedCarries
<1>2. d \in Seq(Bytes) /\ d[1] = tag
  BY <1>1 DEF Carries, Holds
<1> HIDE DEF d, tag
<1>3. d = <<>> \/ Head(d) = tag
  BY <1>2
<1> QED
  BY <1>3 DEF Unpacked, d, tag

LEMMA ApartRead ==
  /\ \A args \in ArgsFor(FieldsAt("farm", "WithdrawV2")) :
        Unpacked("staking", Packed("farm", "WithdrawV2", args)) = Err
  /\ \A args \in ArgsFor(FieldsAt("staking", "CreateAssociatedAccount")) :
        Unpacked("farm", Packed("staking", "CreateAssociatedAccount", args)) = Err
<1>1. /\ "farm" \in Programs /\ "staking" \in Programs
      /\ "WithdrawV2" \in DOMAIN PackTable("farm")
      /\ "CreateAssociatedAccount" \in DOMAIN PackTable("staking")
  BY DEF Programs, PackTable, FarmSerialize, StakingSerialize
<1>2. TagOf("farm", "WithdrawV2") \notin DOMAIN UnpackTable("staking")
  BY DEF TagOf, PackTable, FarmSerialize, UnpackTable, StakingDeserialize, Writes
<1>3. TagOf("staking", "CreateAssociatedAccount") \notin DOMAIN UnpackTable("farm")
  BY DEF TagOf, PackTable, StakingSerialize, UnpackTable, FarmDeserialize, Writes
<1> QED
  BY <1>1, <1>2, <1>3, UnknownRead

(* An instruction without fields is its tag.                                *)
LEMMA NoFields ==
  /\ <<>> \in Layouts /\ Len(<<>>) = 0 /\ StartOf(<<>>)[1] = 2 /\ Names(<<>>) = {}
  /\ [name \in {} |-> 0] \in ArgsFor(<<>>)
<1>1. <<>> \in Layouts /\ Len(<<>>) = 0 /\ Names(<<>>) = {}
  BY TableLayouts DEF Names
<1>2. StartOf(<<>>)[1] = 2
  BY <1>1, StartOfStep
<1> QED
  BY <1>1, <1>2 DEF ArgsFor

(* A staking DepositV2 has the tag of a farm's CreateAssociatedAccount.     *)
LEMMA DepositV2Read ==
  ASSUME NEW args \in ArgsFor(FieldsAt("staking", "DepositV2"))
  PROVE  Unpacked("farm", Packed("staking", "DepositV2", args))
            = ReadAs("CreateAssociatedAccount", [name \in {} |-> 0])
<1> DEFINE d == Packed("staking", "DepositV2", args)
           fields == FieldsAt("staking", "DepositV2")
           none == [name \in {} |-> 0]
<1>1. "staking" \in Programs /\ "farm" \in Programs /\ "DepositV2" \in DOMAIN PackTable("staking")
  BY DEF Programs, PackTable, StakingSerialize
<1>2. TagOf("staking", "DepositV2") = 10
  BY DEF TagOf, PackTable, StakingSerialize, Writes
<1>3. Carries(d, 10, fields, args)
  BY <1>1, <1>2, PackedCarries
<1>4. 10 \in DOMAIN UnpackTable("farm") /\ UnpackTable("farm")[10] = Reads("CreateAssociatedAccount", <<>>)
  BY DEF UnpackTable, FarmDeserialize
<1>5. fields \in Layouts
  BY <1>1, TablesAgree DEF Agree, FieldsAt
<1> HIDE DEF d, fields, none
<1>6. Len(fields) + 1 \in 1 .. Len(fields) + 1
  BY <1>5, StartOfType
<1>7. StartOf(fields)[Len(fields) + 1] \in Nat /\ StartOf(fields)[Len(fields) + 1] >= 2
  BY <1>5, <1>6, StartOfType
<1>8. d \in Seq(Bytes) /\ d[1] = 10 /\ Len(d) >= 1
  BY <1>3, <1>7 DEF Carries, Holds, LongEnough
<1>9. Carries(d, 10, <<>>, none)
  BY <1>8, NoFields DEF Carries, Holds, LongEnough
<1>10. none \in ArgsFor(<<>>)
  BY NoFields DEF none
<1>11. Unpacked("farm", d) = [ok |-> TRUE, kind |-> "CreateAssociatedAccount", args |-> none]
  BY <1>1, <1>4, <1>9, <1>10, NoFields, UnpackedCarrier
<1> QED
  BY <1>11 DEF ReadAs, d, none

LEMMA Times ==
  ASSUME NEW w \in Nat
  PROVE  4 * w = w + w + w + w /\ 2 * w = w + w /\ 4 * w \in Nat /\ 2 * w \in Nat
OBVIOUS

(* Where the three fields of an Initialize begin, and where they end.       *)
LEMMA ThreeStarts ==
  ASSUME NEW fields, Len(fields) = 3,
         fields[1].width = Word, fields[2].width = Word, NEW w \in Nat, fields[3].width = w
  PROVE  /\ StartOf(fields)[1] = 2 /\ StartOf(fields)[2] = 2 + Word
         /\ StartOf(fields)[3] = 2 + Word + Word
         /\ StartOf(fields)[Len(fields) + 1] = 2 + Word + Word + w
<1> DEFINE s == StartOf(fields)
           m == Len(fields)
<1>1. m \in Nat /\ m = 3
  OBVIOUS
<1>2. s[1] = 2 /\ \A i \in 1 .. m : s[i + 1] = s[i] + fields[i].width
  BY <1>1, StartOfStep
<1>3. Word \in Nat
  BY WireAssumption
<1> HIDE DEF s, m
<1>4. 1 \in 1 .. m /\ 2 \in 1 .. m /\ 3 \in 1 .. m /\ m + 1 = 4
  BY <1>1
<1>5. s[2] = s[1] + Word /\ s[3] = s[2] + Word /\ s[m + 1] = s[3] + w
  BY <1>2, <1>4
<1> QED
  BY <1>2, <1>3, <1>5 DEF s, m

(* k zeros behind data.                                                    *)
LEMMA PaddedBy ==
  ASSUME NEW s \in Seq(Bytes), NEW k \in Nat
  PROVE  LET t == s \o [i \in 1 .. k |-> 0]
         IN  /\ t \in Seq(Bytes) /\ Len(t) = Len(s) + k
             /\ \A x \in 1 .. Len(t) : t[x] = IF x <= Len(s) THEN s[x] ELSE 0
<1> DEFINE z == [i \in 1 .. k |-> 0]
           t == s \o z
<1>1. 0 \in Bytes
  BY WireAssumption DEF Bytes
<1>2. z \in Seq(Bytes) /\ Len(z) = k /\ \A i \in 1 .. k : z[i] = 0
  BY <1>1
<1> HIDE DEF z
<1>3. t \in Seq(Bytes) /\ Len(t) = Len(s) + k
  BY <1>2
<1>4. ASSUME NEW x \in 1 .. Len(t) PROVE t[x] = IF x <= Len(s) THEN s[x] ELSE 0
  <2>1. CASE x <= Len(s)
    BY <1>2, <2>1
  <2>2. CASE ~(x <= Len(s))
    <3>1. x - Len(s) \in 1 .. k
      BY <1>3, <2>2
    <3>2. t[x] = z[x - Len(s)]
      BY <1>2, <1>3, <2>2
    <3> QED
      BY <1>2, <2>2, <3>1, <3>2
  <2> QED
    BY <2>1, <2>2
<1> QED
  BY <1>3, <1>4 DEF z

(* The bytes that a tag and its fields take.                                *)
Needs(fields) == StartOf(fields)[Len(fields) + 1] - 1

(* What packed data is when the buffer is long enough for it.               *)
LEMMA PackedIs ==
  ASSUME NEW p \in Programs, NEW kind \in DOMAIN PackTable(p),
         NEW args \in ArgsFor(FieldsAt(p, kind)),
         Needs(FieldsAt(p, kind)) <= BufferSize(p)
  PROVE  LET d == Packed(p, kind, args)
         IN  /\ Len(d) = BufferSize(p) /\ d \in Seq(Bytes)
             /\ d[1] = TagOf(p, kind)
             /\ \A x \in Needs(FieldsAt(p, kind)) + 1 .. BufferSize(p) : d[x] = 0
<1> DEFINE fields == FieldsAt(p, kind)
           tag == TagOf(p, kind)
           body == FieldBytes(fields, args)
           n == BufferSize(p)
           bytes == <<tag>> \o body
           e == Needs(fields)
           k == n - Len(bytes)
           d == bytes \o [i \in 1 .. k |-> 0]
<1>1. Packed(p, kind, args) = d
  BY DEF Packed, FieldsAt, TagOf
<1>2. fields \in Layouts /\ tag \in Bytes
  BY TablesAgree DEF Agree, FieldsAt, TagOf
<1>3. body \in Seq(Bytes) /\ Len(body) = e - 1 /\ e \in Nat
  <2>1. Len(fields) + 1 \in 1 .. Len(fields) + 1
    BY <1>2, StartOfType
  <2>2. StartOf(fields)[Len(fields) + 1] \in Nat /\ StartOf(fields)[Len(fields) + 1] >= 2
    BY <1>2, <2>1, StartOfType
  <2> QED
    BY <1>2, <2>2, FieldBytesAt DEF Needs
<1>4. n \in Nat /\ e <= n
  BY BufferSizeType
<1> HIDE DEF body, tag, n, e
<1>5. bytes \in Seq(Bytes) /\ Len(bytes) = e /\ bytes[1] = tag
  BY <1>2, <1>3
<1>6. e >= 1
  BY <1>3
<1> HIDE DEF bytes
<1>7. k \in Nat /\ n = Len(bytes) + k
  BY <1>3, <1>4, <1>5
<1> HIDE DEF k
<1>8. /\ d \in Seq(Bytes) /\ Len(d) = Len(bytes) + k
      /\ \A x \in 1 .. Len(d) : d[x] = IF x <= Len(bytes) THEN bytes[x] ELSE 0
  BY <1>5, <1>7, PaddedBy
<1> HIDE DEF d
<1>9. d[1] = tag /\ \A x \in e + 1 .. n : d[x] = 0
  BY <1>3, <1>4, <1>5, <1>6, <1>7, <1>8
<1> QED
  BY <1>1, <1>7, <1>8, <1>9 DEF n, tag, e

(* A farm's buffer has four words, a staking Initialize four and a tag.     *)
LEMMA FarmInitializeRead ==
  ASSUME NEW args \in ArgsFor(FieldsAt("farm", "Initialize"))
  PROVE  Unpacked("staking", Packed("farm", "Initialize", args)) = Err
<1> DEFINE d == Packed("farm", "Initialize", args)
           F == <<U64("nonce"), U64("reward_per_slot_a"), U64("reward_per_slot_b")>>
           G == <<U64("nonce"), U64("reward_per_slot"), U128("ignore")>>
<1>1. "staking" \in Programs /\ "farm" \in Programs /\ "Initialize" \in DOMAIN PackTable("farm")
  BY DEF Programs, PackTable, FarmSerialize
<1>2. Word \in Nat \ {0} /\ 4 * Word = Word + Word + Word + Word /\ 2 * Word = Word + Word /\ 4 * Word \in Nat /\ 2 * Word \in Nat
  BY WireAssumption, Times
<1>3. FieldsAt("farm", "Initialize") = F /\ TagOf("farm", "Initialize") = 0 /\ BufferSize("farm") = 4 * Word
  BY DEF FieldsAt, TagOf, PackTable, FarmSerialize, Writes, BufferSize
<1>4. Len(F) = 3 /\ F[1].width = Word /\ F[2].width = Word /\ F[3].width = Word
  BY DEF U64
<1>5. Len(G) = 3 /\ G[1].width = Word /\ G[2].width = Word /\ G[3].width = 2 * Word
  BY DEF U64, U128
<1>6. 0 \in DOMAIN UnpackTable("staking") /\ UnpackTable("staking")[0] = Reads("Initialize", G)
  BY DEF UnpackTable, StakingDeserialize
<1> HIDE DEF F, G
<1>7. StartOf(F)[Len(F) + 1] = 2 + Word + Word + Word
  BY <1>2, <1>4, ThreeStarts
<1>8. StartOf(G)[Len(G) + 1] = 2 + Word + Word + 2 * Word
  BY <1>2, <1>5, ThreeStarts
<1>9. Needs(F) <= BufferSize("farm")
  BY <1>2, <1>3, <1>7 DEF Needs
<1>10. Len(d) = BufferSize("farm") /\ d \in Seq(Bytes) /\ d[1] = 0
  BY <1>1, <1>3, <1>9, PackedIs
<1> HIDE DEF d
<1>11. ~LongEnough(d, G) /\ d # <<>>
  BY <1>2, <1>3, <1>8, <1>10 DEF LongEnough
<1>12. Unpacked("staking", d) = Err
  BY <1>1, <1>6, <1>10, <1>11, UnpackedShort
<1> QED
  BY <1>12 DEF d

LEMMA ZeroBytes ==
  ASSUME NEW w \in Nat
  PROVE  /\ \A j \in 1 .. w : LittleEndian(0, w)[j] = 0
         /\ Fits(0, w)
<1> DEFINE s == Shifts(0, w)
           I == {i \in 0 .. w : s[i] = 0}
<1>1. s[0] = 0 /\ \A i \in 1 .. w : s[i] = s[i - 1] \div Base
  BY ShiftsStep
<1>2. Base \in Nat /\ Base > 12
  BY WireAssumption
<1>3. 0 \div Base = 0 /\ 0 % Base = 0
  BY <1>2
<1> HIDE DEF s
<1>4. 0 \in I
  BY <1>1
<1>5. ASSUME NEW i \in 1 .. w, i - 1 \in I PROVE i \in I
  BY <1>1, <1>3, <1>5
<1> HIDE DEF I
<1>6. \A i \in 0 .. w : i \in I
  BY <1>4, <1>5, UpTo
<1>7. \A i \in 0 .. w : s[i] = 0
  BY <1>6 DEF I
<1>8. ASSUME NEW j \in 1 .. w PROVE LittleEndian(0, w)[j] = 0
  <2>1. LittleEndian(0, w)[j] = s[j - 1] % Base
    BY LittleEndianType DEF s
  <2>2. j - 1 \in 0 .. w
    OBVIOUS
  <2> QED
    BY <1>3, <1>7, <2>1, <2>2
<1>9. w \in 0 .. w
  OBVIOUS
<1> QED
  BY <1>7, <1>8, <1>9 DEF Fits, s

(* The zeros behind a farm's CreateAssociatedAccount are an amount of 0.    *)
LEMMA CreateRead ==
  ASSUME NEW args \in ArgsFor(FieldsAt("farm", "CreateAssociatedAccount"))
  PROVE  Unpacked("staking", Packed("farm", "CreateAssociatedAccount", args))
            = ReadAs("DepositV2", [val |-> 0])
<1> DEFINE d == Packed("farm", "CreateAssociatedAccount", args)
           V == <<U64("val")>>
           zero == [val |-> 0]
           n == 4 * Word
<1>1. /\ "staking" \in Programs /\ "farm" \in Programs
      /\ "CreateAssociatedAccount" \in DOMAIN PackTable("farm")
  BY DEF Programs, PackTable, FarmSerialize
<1>2. Word \in Nat \ {0} /\ n = Word + Word + Word + Word /\ n \in Nat
  BY WireAssumption, Times
<1>3. /\ FieldsAt("farm", "CreateAssociatedAccount") = <<>>
      /\ TagOf("farm", "CreateAssociatedAccount") = 10 /\ BufferSize("farm") = n
  BY DEF FieldsAt, TagOf, PackTable, FarmSerialize, Writes, BufferSize
<1>4. V \in Layouts /\ Len(V) = 1 /\ V[1] = [name |-> "val", width |-> Word] /\ Names(V) = {"val"}
  BY TableLayouts DEF U64, Names
<1>5. 10 \in DOMAIN UnpackTable("staking") /\ UnpackTable("staking")[10] = Reads("DepositV2", V)
  BY DEF UnpackTable, StakingDeserialize
<1> HIDE DEF V, n
<1>6. StartOf(V)[1] = 2 /\ StartOf(V)[2] = 2 + Word
  BY <1>4, StartOfStep
<1>7. Needs(<<>>) = 1 /\ 1 <= n
  BY <1>2, NoFields DEF Needs
<1>8. /\ Len(d) = n /\ d \in Seq(Bytes) /\ d[1] = 10
      /\ \A x \in 1 + 1 .. n : d[x] = 0
  BY <1>1, <1>3, <1>7, PackedIs
<1> HIDE DEF d
<1>9. LongEnough(d, V)
  BY <1>2, <1>4, <1>6, <1>8 DEF LongEnough
<1>10. \A j \in 1 .. Word : d[2 + j - 1] = 0
  BY <1>2, <1>8
<1>11. \A j \in 1 .. Word : LittleEndian(0, Word)[j] = 0
  BY <1>2, ZeroBytes
<1>12. Holds(d, 10, V, zero)
  BY <1>4, <1>6, <1>8, <1>10, <1>11 DEF Holds
<1>13. Carries(d, 10, V, zero)
  BY <1>8, <1>9, <1>12 DEF Carries
<1>14. zero \in ArgsFor(V)
  <2>1. zero \in [Names(V) -> Nat]
    BY <1>4
  <2>2. Fits(0, Word)
    BY <1>2, ZeroBytes
  <2> QED
    BY <1>4, <2>1, <2>2 DEF ArgsFor
<1> HIDE DEF zero
<1>15. Unpacked("staking", d) = [ok |-> TRUE, kind |-> "DepositV2", args |-> zero]
  BY <1>1, <1>4, <1>5, <1>13, <1>14, UnpackedCarrier
<1> QED
  BY <1>15 DEF ReadAs, d, zero
(* A staking Initialize as the farm's: what follows the nonce is a reward   *)
(* each, of which the second is the lower half of ignore.                   *)
LEMMA StakingInitializeRead ==
  ASSUME NEW args \in ArgsFor(FieldsAt("staking", "Initialize"))
  PROVE  Unpacked("farm", Packed("staking", "Initialize", args))
            = ReadAs("Initialize", [nonce |-> args.nonce,
                                    reward_per_slot_a |-> args.reward_per_slot,
                                    reward_per_slot_b |-> LowWord(args.ignore)])
<1> DEFINE d == Packed("staking", "Initialize", args)
           F == <<U64("nonce"), U64("reward_per_slot_a"), U64("reward_per_slot_b")>>
           G == <<U64("nonce"), U64("reward_per_slot"), U128("ignore")>>
<1>1. "staking" \in Programs /\ "farm" \in Programs /\ "Initialize" \in DOMAIN PackTable("staking")
  BY DEF Programs, PackTable, StakingSerialize
<1>2. Word \in Nat \ {0} /\ 2 * Word = Word + Word /\ 2 * Word \in Nat
  BY WireAssumption, Times
<1>3. FieldsAt("staking", "Initialize") = G /\ TagOf("staking", "Initialize") = 0
  BY DEF FieldsAt, TagOf, PackTable, StakingSerialize, Writes
<1>4. /\ Len(F) = 3 /\ Names(F) = {"nonce", "reward_per_slot_a", "reward_per_slot_b"}
      /\ F[1] = [name |-> "nonce", width |-> Word]
      /\ F[2] = [name |-> "reward_per_slot_a", width |-> Word]
      /\ F[3] = [name |-> "reward_per_slot_b", width |-> Word]
  <2>1. 1 .. Len(F) = {1, 2, 3}
    OBVIOUS
  <2> QED
    BY <2>1 DEF U64, Names
<1>5. /\ Len(G) = 3
      /\ G[1] = [name |-> "nonce", width |-> Word]
      /\ G[2] = [name |-> "reward_per_slot", width |-> Word]
      /\ G[3] = [name |-> "ignore", width |-> 2 * Word]
  BY DEF U64, U128
<1>6. 0 \in DOMAIN UnpackTable("farm") /\ UnpackTable("farm")[0] = Reads("Initialize", F)
  BY DEF UnpackTable, FarmDeserialize
<1>7. G \in Layouts
  BY TableLayouts
<1> HIDE DEF F, G
<1>8. /\ StartOf(F)[1] = 2 /\ StartOf(F)[2] = 2 + Word /\ StartOf(F)[3] = 2 + Word + Word
      /\ StartOf(F)[Len(F) + 1] = 2 + Word + Word + Word
  <2>1. Len(F) = 3 /\ F[1].width = Word /\ F[2].width = Word /\ F[3].width = Word
    BY <1>4
  <2> QED
    BY <1>2, <2>1, ThreeStarts
<1>9. /\ StartOf(G)[1] = 2 /\ StartOf(G)[2] = 2 + Word /\ StartOf(G)[3] = 2 + Word + Word
      /\ StartOf(G)[Len(G) + 1] = 2 + Word + Word + 2 * Word
  <2>1. Len(G) = 3 /\ G[1].width = Word /\ G[2].width = Word /\ G[3].width = 2 * Word
    BY <1>5
  <2> QED
    BY <1>2, <2>1, ThreeStarts
<1>10. args \in ArgsFor(G)
  BY <1>3
<1>11. Carries(d, 0, G, args)
  BY <1>1, <1>3, PackedCarries
<1> HIDE DEF d
<1>12. /\ FieldAt(d, StartOf(G)[1], G[1].width) = args[G[1].name]
       /\ FieldAt(d, StartOf(G)[2], G[2].width) = args[G[2].name]
  <2>1. 1 \in 1 .. Len(G) /\ 2 \in 1 .. Len(G)
    BY <1>5
  <2> QED
    BY <1>7, <1>10, <1>11, <2>1, FieldOfCarrier
<1>13. /\ FieldAt(d, 2, Word) = args.nonce
       /\ FieldAt(d, 2 + Word, Word) = args.reward_per_slot
  BY <1>5, <1>9, <1>12
<1>14. d \in Seq(Bytes) /\ d[1] = 0 /\ Len(d) >= 1 + Word + Word + 2 * Word
  BY <1>2, <1>9, <1>11 DEF Carries, Holds, LongEnough
<1>15. FieldAt(d, 2 + Word + Word, Word) = LowWord(args.ignore)
  <2> DEFINE b == LittleEndian(args.ignore, 2 * Word)
             s == 2 + Word + Word
             read == [j \in 1 .. Word |-> IF s + j - 1 <= Len(d) THEN d[s + j - 1] ELSE 0]
  <2>1. 3 \in 1 .. Len(G) /\ StartOf(G)[3] = s
    BY <1>5, <1>9
  <2>2. \A j \in 1 .. 2 * Word : d[s + j - 1] = b[j]
    BY <1>5, <1>11, <2>1 DEF Carries, Holds
  <2> HIDE DEF b
  <2>3. \A j \in 1 .. Word : j \in 1 .. 2 * Word /\ s + j - 1 <= Len(d)
    BY <1>2, <1>14
  <2>4. read = [j \in 1 .. Word |-> b[j]]
    BY <2>2, <2>3
  <2>5. FieldAt(d, s, Word) = ValueOf(read)
    BY DEF FieldAt
  <2> HIDE DEF read
  <2> QED
    BY <2>4, <2>5 DEF LowWord, b
<1>16. LongEnough(d, F)
  BY <1>2, <1>8, <1>14 DEF LongEnough
<1> DEFINE Index(name) == CHOOSE i \in 1 .. Len(F) : F[i].name = name
           read == [name \in Names(F) |->
                      FieldAt(d, StartOf(F)[Index(name)], F[Index(name)].width)]
<1>17. Unpacked("farm", d) = [ok |-> TRUE, kind |-> "Initialize", args |-> read]
  <2> DEFINE entry == UnpackTable("farm")[Head(d)]
             Read(f) == [name \in Names(f) |->
                LET k == CHOOSE i \in 1 .. Len(f) : f[i].name = name
                IN  FieldAt(d, StartOf(f)[k], f[k].width)]
  <2>1. d # <<>> /\ Head(d) = 0
    BY <1>2, <1>14
  <2>2. Head(d) \in DOMAIN UnpackTable("farm") /\ entry.kind = "Initialize" /\ entry.fields = F
    BY <1>6, <2>1 DEF Reads
  <2>3. LongEnough(d, entry.fields)
    BY <1>16, <2>2
  <2>4. Unpacked("farm", d) = [ok |-> TRUE, kind |-> entry.kind, args |-> Read(entry.fields)]
    BY <2>1, <2>2, <2>3 DEF Unpacked
  <2>5. read = Read(F)
    OBVIOUS
  <2> HIDE DEF Read, entry, read
  <2> QED
    BY <2>2, <2>4, <2>5
<1>18. /\ Index("nonce") = 1 /\ Index("reward_per_slot_a") = 2 /\ Index("reward_per_slot_b") = 3
  BY <1>4
<1>19. /\ read["nonce"] = args.nonce /\ read["reward_per_slot_a"] = args.reward_per_slot
       /\ read["reward_per_slot_b"] = LowWord(args.ignore)
  <2> HIDE DEF Index
  <2> QED
    BY <1>4, <1>8, <1>13, <1>15, <1>18
<1>20. read = [nonce |-> args.nonce, reward_per_slot_a |-> args.reward_per_slot,
               reward_per_slot_b |-> LowWord(args.ignore)]
  <2>1. read = [name \in {"nonce", "reward_per_slot_a", "reward_per_slot_b"} |-> read[name]]
    BY <1>4
  <2> HIDE DEF read
  <2> QED
    BY <1>19, <2>1
<1> HIDE DEF read
<1> QED
  BY <1>17, <1>20 DEF ReadAs, d

(* The twin of the program an instruction was packed for.                   *)
LEMMA TwinReadsPacked ==
  ASSUME NEW p \in Programs, NEW q \in Programs, {p, q} \in Twins,
         NEW kind \in DOMAIN PackTable(p), NEW args \in ArgsFor(FieldsAt(p, kind))
  PROVE  Unpacked(q, Packed(p, kind, args)) = TwinReading(p, kind, args)
<1>1. CASE p \in {"farm", "staking"} => kind \notin Renumbered
  <2>1. TwinReading(p, kind, args) = ReadAs(kind, args)
    BY <1>1 DEF TwinReading, Renumbered
  <2> QED
    BY <1>1, <2>1, AlikeRead
<1>2. CASE p = "farm" /\ kind \in Renumbered
  <2>1. q = "staking"
    BY <1>2 DEF Twins
  <2>2. CASE kind = "Initialize"
    BY <1>2, <2>1, <2>2, FarmInitializeRead DEF TwinReading
  <2>3. CASE kind = "CreateAssociatedAccount"
    BY <1>2, <2>1, <2>3, CreateRead DEF TwinReading
  <2>4. CASE kind = "DepositV2"
    BY <1>2, <2>1, <2>4, V2Read DEF TwinReading
  <2>5. CASE kind = "WithdrawV2"
    BY <1>2, <2>1, <2>5, ApartRead DEF TwinReading
  <2> QED
    BY <1>2, <2>2, <2>3, <2>4, <2>5 DEF Renumbered
<1>3. CASE p = "staking" /\ kind \in Renumbered
  <2>1. q = "farm"
    BY <1>3 DEF Twins
  <2>2. CASE kind = "Initialize"
    BY <1>3, <2>1, <2>2, StakingInitializeRead DEF TwinReading
  <2>3. CASE kind = "CreateAssociatedAccount"
    BY <1>3, <2>1, <2>3, ApartRead DEF TwinReading
  <2>4. CASE kind = "DepositV2"
    BY <1>3, <2>1, <2>4, DepositV2Read DEF TwinReading
  <2>5. CASE kind = "WithdrawV2"
    BY <1>3, <2>1, <2>5, V2Read DEF TwinReading
  <2> QED
    BY <1>3, <2>2, <2>3, <2>4, <2>5 DEF Renumbered
<1> QED
  BY <1>1, <1>2, <1>3

LEMMA CallTwinReads == CallInv => TwinReads
<1> SUFFICES ASSUME CallInv, stage = "decoded", handed = data, {program, target} \in Twins,
                    instr.kind # "Reserved"
             PROVE  got = TwinReading(program, instr.kind, instr.args)
  BY DEF TwinReads
<1>1. program \in Programs /\ target \in Programs /\ got = Unpacked(target, data)
  BY GotIs
<1>2. /\ data = Packed(program, instr.kind, instr.args)
      /\ instr.kind \in DOMAIN PackTable(program)
      /\ instr.args \in ArgsFor(FieldsAt(program, instr.kind))
  BY BuiltData DEF CallInv, BuiltInv
<1> QED
  BY <1>1, <1>2, TwinReadsPacked

-----------------------------------------------------------------------------
(* -- The account lists ---------------------------------------------------- *)

SerumAccounts == {"serum_event_queue", "serum_bids", "serum_asks"}
AllSerum(o) == SerumAccounts \subseteq o

(* How many accounts each list has whose optional arguments add some.       *)
LEMMA StableLengths ==
  ASSUME NEW o
  PROVE  /\ Len(StableInitialize(o)) = 17 + (IF "srm_token" \in o THEN 1 ELSE 0)
         /\ Len(StableWithdraw(o)) = 18 + (IF "referrer_pc" \in o THEN 1 ELSE 0)
                                        + (IF AllSerum(o) THEN 3 ELSE 0)
BY DEF StableInitialize, StableWithdraw, If, SerumOption, AllSerum, SerumAccounts

LEMMA FarmLengths ==
  ASSUME NEW o
  PROVE  /\ Len(FarmDeposit(o)) = 10 + (IF "dest_reward_token_b" \in o THEN 2 ELSE 0)
         /\ Len(FarmWithdraw(o)) = 10 + (IF "dest_reward_token_b" \in o THEN 2 ELSE 0)
         /\ Len(FarmWithdrawV2(o)) = 10 + (IF "dest_reward_token_b" \in o THEN 2 ELSE 0)
         /\ Len(FarmDepositV2(o)) = 12 + (IF "staker_info_v1" \in o THEN 1 ELSE 0)
BY DEF FarmDeposit, FarmWithdraw, FarmWithdrawV2, FarmDepositV2, If, SecondReward

(* No account is attached twice.                                            *)
Distinct(metas) == \A i, j \in 1 .. Len(metas) : i # j => metas[i].key # metas[j].key

LEMMA AmmDistinct ==
  ASSUME NEW kind \in DOMAIN AmmPack, NEW o
  PROVE  Distinct(Accounts("amm", kind, o))
<1> USE DEF Distinct, R, W, RS, WS, Meta
<1>1. Distinct(AmmInitialize)
  BY DEF AmmInitialize
<1>2. Distinct(AmmDeposit)
  BY DEF AmmDeposit
<1>3. Distinct(AmmWithdraw)
  BY DEF AmmWithdraw
<1>4. Distinct(AmmSwapBaseIn)
  BY DEF AmmSwapBaseIn
<1>5. Distinct(AmmPreInitialize)
  BY DEF AmmPreInitialize
<1>6. Distinct(AmmSwapBaseOut)
  BY DEF AmmSwapBaseOut
<1>7. kind \in {"Initialize", "Deposit", "Withdraw", "SwapBaseIn",
                "PreInitialize", "SwapBaseOut"}
  BY DEF AmmPack
<1> HIDE DEF Distinct
<1>8. CASE kind = "Initialize"
  BY <1>1, <1>8 DEF Accounts
<1>9. CASE kind = "Deposit"
  BY <1>2, <1>9 DEF Accounts
<1>10. CASE kind = "Withdraw"
  BY <1>3, <1>10 DEF Accounts
<1>11. CASE kind = "SwapBaseIn"
  BY <1>4, <1>11 DEF Accounts
<1>12. CASE kind = "PreInitialize"
  BY <1>5, <1>12 DEF Accounts
<1>13. CASE kind = "SwapBaseOut"
  BY <1>6, <1>13 DEF Accounts
<1> QED
  BY <1>7, <1>8, <1>9, <1>10, <1>11, <1>12, <1>13

LEMMA StableDistinct ==
  ASSUME NEW kind \in DOMAIN StablePack, NEW o
  PROVE  Distinct(Accounts("stable", kind, o))
<1> USE DEF Distinct, R, W, RS, WS, Meta
<1>1. Distinct(StableInitialize(o))
  <2>1. CASE "srm_token" \in o
    BY <2>1 DEF StableInitialize, If
  <2>2. CASE ~("srm_token" \in o)
    BY <2>2 DEF StableInitialize, If
  <2> QED
    BY <2>1, <2>2
<1>2. Distinct(StableDeposit)
  BY DEF StableDeposit
<1>3. Distinct(StableWithdraw(o))
  <2>1. CASE "referrer_pc" \in o /\ AllSerum(o)
    BY <2>1 DEF StableWithdraw, If, SerumOption, AllSerum, SerumAccounts
  <2>2. CASE "referrer_pc" \in o /\ ~(AllSerum(o))
    BY <2>2 DEF StableWithdraw, If, SerumOption, AllSerum, SerumAccounts
  <2>3. CASE ~("referrer_pc" \in o) /\ AllSerum(o)
    BY <2>3 DEF StableWithdraw, If, SerumOption, AllSerum, SerumAccounts
  <2>4. CASE ~("referrer_pc" \in o) /\ ~(AllSerum(o))
    BY <2>4 DEF StableWithdraw, If, SerumOption, AllSerum, SerumAccounts
  <2> QED
    BY <2>1, <2>2, <2>3, <2>4
<1>4. Distinct(StableSwapBaseIn)
  BY DEF StableSwapBaseIn
<1>5. Distinct(StablePreInitialize)
  BY DEF StablePreInitialize
<1>6. Distinct(StableSwapBaseOut)
  BY DEF StableSwapBaseOut
<1>7. kind \in {"Initialize", "Deposit", "Withdraw", "SwapBaseIn",
                "PreInitialize", "SwapBaseOut"}
  BY DEF StablePack
<1> HIDE DEF Distinct
<1>8. CASE kind = "Initialize"
  BY <1>1, <1>8 DEF Accounts
<1>9. CASE kind = "Deposit"
  BY <1>2, <1>9 DEF Accounts
<1>10. CASE kind = "Withdraw"
  BY <1>3, <1>10 DEF Accounts
<1>11. CASE kind = "SwapBaseIn"
  BY <1>4, <1>11 DEF Accounts
<1>12. CASE kind = "PreInitialize"
  BY <1>5, <1>12 DEF Accounts
<1>13. CASE kind = "SwapBaseOut"
  BY <1>6, <1>13 DEF Accounts
<1> QED
  BY <1>7, <1>8, <1>9, <1>10, <1>11, <1>12, <1>13

LEMMA FarmDistinct ==
  ASSUME NEW kind \in DOMAIN FarmSerialize, NEW o
  PROVE  Distinct(Accounts("farm", kind, o))
<1> USE DEF Distinct, R, W, RS, WS, Meta
<1>1. Distinct(FarmInitialize(o))
  <2>1. CASE "reward_vault_b" \in o /\ "admin_authority" \in o
    BY <2>1 DEF FarmInitialize, If
  <2>2. CASE "reward_vault_b" \in o /\ ~("admin_authority" \in o)
    BY <2>2 DEF FarmInitialize, If
  <2>3. CASE ~("reward_vault_b" \in o) /\ "admin_authority" \in o
    BY <2>3 DEF FarmInitialize, If
  <2>4. CASE ~("reward_vault_b" \in o) /\ ~("admin_authority" \in o)
    BY <2>4 DEF FarmInitialize, If
  <2> QED
    BY <2>1, <2>2, <2>3, <2>4
<1>2. Distinct(FarmDeposit(o))
  <2>1. CASE "dest_reward_token_b" \in o
    BY <2>1 DEF FarmDeposit, If, SecondReward
  <2>2. CASE ~("dest_reward_token_b" \in o)
    BY <2>2 DEF FarmDeposit, If, SecondReward
  <2> QED
    BY <2>1, <2>2
<1>3. Distinct(FarmWithdraw(o))
  <2>1. CASE "dest_reward_token_b" \in o
    BY <2>1 DEF FarmWithdraw, If, SecondReward
  <2>2. CASE ~("dest_reward_token_b" \in o)
    BY <2>2 DEF FarmWithdraw, If, SecondReward
  <2> QED
    BY <2>1, <2>2
<1>4. Distinct(FarmUpdatePool)
  BY DEF FarmUpdatePool
<1>5. Distinct(FarmEmergencyWithdraw)
  BY DEF FarmEmergencyWithdraw
<1>6. Distinct(FarmCreateAssociatedAccount)
  BY DEF FarmCreateAssociatedAccount
<1>7. Distinct(FarmDepositV2(o))
  <2>1. CASE "staker_info_v1" \in o
    BY <2>1 DEF FarmDepositV2, If
  <2>2. CASE ~("staker_info_v1" \in o)
    BY <2>2 DEF FarmDepositV2, If
  <2> QED
    BY <2>1, <2>2
<1>8. Distinct(FarmWithdrawV2(o))
  <2>1. CASE "dest_reward_token_b" \in o
    BY <2>1 DEF FarmWithdrawV2, If, SecondReward
  <2>2. CASE ~("dest_reward_token_b" \in o)
    BY <2>2 DEF FarmWithdrawV2, If, SecondReward
  <2> QED
    BY <2>1, <2>2
<1>9. kind \in {"Initialize", "Deposit", "Withdraw", "UpdatePool",
                "EmergencyWithdraw", "CreateAssociatedAccount", "DepositV2", "WithdrawV2"}
  BY DEF FarmSerialize
<1> HIDE DEF Distinct
<1>10. CASE kind = "Initialize"
  BY <1>1, <1>10 DEF Accounts
<1>11. CASE kind = "Deposit"
  BY <1>2, <1>11 DEF Accounts
<1>12. CASE kind = "Withdraw"
  BY <1>3, <1>12 DEF Accounts
<1>13. CASE kind = "UpdatePool"
  BY <1>4, <1>13 DEF Accounts
<1>14. CASE kind = "EmergencyWithdraw"
  BY <1>5, <1>14 DEF Accounts
<1>15. CASE kind = "CreateAssociatedAccount"
  BY <1>6, <1>15 DEF Accounts
<1>16. CASE kind = "DepositV2"
  BY <1>7, <1>16 DEF Accounts
<1>17. CASE kind = "WithdrawV2"
  BY <1>8, <1>17 DEF Accounts
<1> QED
  BY <1>9, <1>10, <1>11, <1>12, <1>13, <1>14, <1>15, <1>16, <1>17

LEMMA StakingDistinct ==
  ASSUME NEW kind \in DOMAIN StakingSerialize, NEW o
  PROVE  Distinct(Accounts("staking", kind, o))
<1> USE DEF Distinct, R, W, RS, WS, Meta
<1>1. Distinct(StakingInitialize)
  BY DEF StakingInitialize
<1>2. Distinct(StakingDeposit)
  BY DEF StakingDeposit
<1>3. Distinct(StakingWithdraw)
  BY DEF StakingWithdraw
<1>4. Distinct(StakingUpdatePool)
  BY DEF StakingUpdatePool
<1>5. Distinct(StakingEmergencyWithdraw)
  BY DEF StakingEmergencyWithdraw
<1>6. Distinct(StakingCreateAssociatedAccount)
  BY DEF StakingCreateAssociatedAccount
<1>7. Distinct(<<>>)
  OBVIOUS
<1>8. Distinct(<<>>)
  OBVIOUS
<1>9. kind \in {"Initialize", "Deposit", "Withdraw", "UpdatePool",
                "EmergencyWithdraw", "CreateAssociatedAccount", "DepositV2", "WithdrawV2"}
  BY DEF StakingSerialize
<1> HIDE DEF Distinct
<1>10. CASE kind = "Initialize"
  BY <1>1, <1>10 DEF Accounts
<1>11. CASE kind = "Deposit"
  BY <1>2, <1>11 DEF Accounts
<1>12. CASE kind = "Withdraw"
  BY <1>3, <1>12 DEF Accounts
<1>13. CASE kind = "UpdatePool"
  BY <1>4, <1>13 DEF Accounts
<1>14. CASE kind = "EmergencyWithdraw"
  BY <1>5, <1>14 DEF Accounts
<1>15. CASE kind = "CreateAssociatedAccount"
  BY <1>6, <1>15 DEF Accounts
<1>16. CASE kind = "DepositV2"
  BY <1>7, <1>16 DEF Accounts
<1>17. CASE kind = "WithdrawV2"
  BY <1>8, <1>17 DEF Accounts
<1> QED
  BY <1>9, <1>10, <1>11, <1>12, <1>13, <1>14, <1>15, <1>16, <1>17

LEMMA AccountsDistinct ==
  ASSUME NEW p \in Programs, NEW kind \in DOMAIN PackTable(p), NEW o
  PROVE  Distinct(Accounts(p, kind, o))
BY AmmDistinct, StableDistinct, FarmDistinct, StakingDistinct DEF Programs, PackTable

(* The kinds that unpack of a program returns are among those it packs.     *)
LEMMA UnpackedKinds ==
  ASSUME NEW p \in Programs, NEW tag \in DOMAIN UnpackTable(p)
  PROVE  UnpackTable(p)[tag].kind \in DOMAIN PackTable(p)
<1>1. CASE p = "amm"
  BY <1>1 DEF UnpackTable, PackTable, AmmUnpack, AmmPack, Reads
<1>2. CASE p = "stable"
  BY <1>2 DEF UnpackTable, PackTable, StableUnpack, StableTags, StableReadsPool, StablePack, Reads
<1>3. CASE p = "farm"
  BY <1>3 DEF UnpackTable, PackTable, FarmDeserialize, FarmSerialize, Reads
<1>4. CASE p = "staking"
  BY <1>4 DEF UnpackTable, PackTable, StakingDeserialize, StakingSerialize, Reads
<1> QED
  BY <1>1, <1>2, <1>3, <1>4 DEF Programs

LEMMA CallTypeOK == CallInv => TypeOK
<1> SUFFICES ASSUME CallInv PROVE TypeOK
  OBVIOUS
<1>1. /\ stage \in {"new", "refused", "panicked", "built", "decoded", "crashed"}
      /\ {program, target} \subseteq Programs
      /\ instr \in Instructions(program)
      /\ instr.kind # "Reserved" => opts \subseteq Options(program, instr.kind)
  BY DEF CallInv, InstrInv
<1>2. data \in Seq(Bytes) /\ handed \in Seq(Bytes)
  BY DataType
<1>3. Distinct(accounts)
  <2>1. CASE stage \in {"built", "decoded", "crashed"} /\ instr.kind # "Reserved"
    <3>1. accounts = Accounts(program, instr.kind, opts)
      BY <2>1 DEF CallInv, BuiltInv
    <3>2. instr.kind \in DOMAIN PackTable(program) /\ program \in Programs
      BY <1>1, <2>1, BuiltData
    <3> QED
      BY <3>1, <3>2, AccountsDistinct
  <2>2. CASE ~(stage \in {"built", "decoded", "crashed"} /\ instr.kind # "Reserved")
    <3>1. accounts = <<>>
      BY <2>2 DEF CallInv, BuiltInv
    <3> QED
      BY <3>1 DEF Distinct
  <2> QED
    BY <2>1, <2>2
<1>4. got.ok => got.kind \in {"Reserved"} \cup DOMAIN PackTable(target)
  <2>1. got = Err \/ got = Unpacked(target, handed)
    BY DEF CallInv, DecodedInv
  <2>2. ASSUME Unpacked(target, handed) # Err
        PROVE  Unpacked(target, handed).kind \in DOMAIN PackTable(target)
    <3>1. Head(handed) \in DOMAIN UnpackTable(target)
      BY <2>2 DEF Unpacked
    <3>2. Unpacked(target, handed).kind = UnpackTable(target)[Head(handed)].kind
      BY <2>2 DEF Unpacked
    <3> QED
      BY <1>1, <3>1, <3>2, UnpackedKinds
  <2>3. ~Err.ok
    BY DEF Err
  <2> QED
    BY <2>1, <2>2, <2>3
<1> QED
  BY <1>1, <1>2, <1>3, <1>4 DEF TypeOK, Distinct

LEMMA CallCpiCovered == CallInv => CpiCovered
<1> SUFFICES ASSUME CallInv, stage = "built", program = "amm", instr.kind = "SwapBaseIn",
                    NEW i \in 1 .. Len(accounts)
             PROVE  \E given \in DcaSwapAccounts :
                       /\ given.key = accounts[i].key
                       /\ accounts[i].writable => given.writable
                       /\ accounts[i].signer => given.signer \/ given.key \in DcaSigns
  BY DEF CpiCovered
<1>1. accounts = AmmSwapBaseIn
  BY DEF CallInv, BuiltInv, Accounts
<1> QED
  BY <1>1 DEF AmmSwapBaseIn, DcaSwapAccounts, DcaSigns, R, W, RS, WS, Meta

LEMMA CallDocumentedLayout == CallInv => DocumentedLayout
<1> SUFFICES ASSUME CallInv, stage = "built", program = "amm"
             PROVE  /\ instr.kind \in DOMAIN Documented 
                         => IsPrefix(Documented[instr.kind], accounts)
                    /\ instr.kind \in {"SwapBaseIn", "SwapBaseOut"} => accounts = DocumentedSwap
  BY DEF DocumentedLayout
<1>1. instr.kind # "Reserved" => accounts = Accounts("amm", instr.kind, opts)
  BY DEF CallInv, BuiltInv
<1>2. CASE instr.kind = "Deposit"
  <2>1. accounts = AmmDeposit
    BY <1>1, <1>2 DEF Accounts
  <2>2. Documented[instr.kind] = accounts
    BY <1>2, <2>1 DEF Documented, AmmDeposit
  <2> QED
    BY <1>2, <2>2 DEF IsPrefix
<1>3. CASE instr.kind = "Withdraw"
  <2>1. accounts = AmmWithdraw
    BY <1>1, <1>3 DEF Accounts
  <2> DEFINE doc == Documented["Withdraw"]
  <2>2. Len(doc) = 19 /\ Len(AmmWithdraw) = 22
    BY DEF Documented, AmmWithdraw
  <2>3. \A i \in 1 .. 19 : doc[i] = AmmWithdraw[i]
    BY DEF Documented, AmmWithdraw
  <2> HIDE DEF doc
  <2>4. IsPrefix(doc, AmmWithdraw)
    BY <2>2, <2>3 DEF IsPrefix
  <2> QED
    BY <1>3, <2>1, <2>4 DEF doc
<1>4. CASE instr.kind \in {"SwapBaseIn", "SwapBaseOut"}
  BY <1>1, <1>4 DEF Accounts, DocumentedSwap, AmmSwapBaseIn, AmmSwapBaseOut, Documented
<1>5. DOMAIN Documented = {"Deposit", "Withdraw"}
  BY DEF Documented
<1> QED
  BY <1>2, <1>3, <1>4, <1>5

(* Lists of one shape have one length.                                      *)
LEMMA ShapeLength ==
  ASSUME NEW s, NEW t, Len(s) \in Nat, Len(t) \in Nat, Shape(s) = Shape(t)
  PROVE  Len(s) = Len(t)
<1>1. 1 .. Len(s) = 1 .. Len(t)
  BY DEF Shape
<1> QED
  BY <1>1

(* The optional accounts that one choice of arguments gives and another     *)
(* does not change the number of accounts.                                  *)
LEMMA StableInitializeByLength ==
  ASSUME NEW o, NEW u
  PROVE  Len(StableInitialize(o)) = Len(StableInitialize(u))
            => StableInitialize(o) = StableInitialize(u)
<1> DEFINE n == Len(StableInitialize(o))
           m == Len(StableInitialize(u))
           list == <<W("srm_token")>>
<1>1. /\ n = IF "srm_token" \in o THEN 18 ELSE 17
      /\ m = IF "srm_token" \in u THEN 18 ELSE 17
  BY StableLengths
<1>2. /\ If("srm_token" \in o, list) = IF "srm_token" \in o THEN list ELSE <<>>
      /\ If("srm_token" \in u, list) = IF "srm_token" \in u THEN list ELSE <<>>
  BY DEF If
<1> HIDE DEF n, m
<1>3. ASSUME n = m
      PROVE  If("srm_token" \in o, list) = If("srm_token" \in u, list)
  BY <1>1, <1>2, <1>3
<1>4. n = m => StableInitialize(o) = StableInitialize(u)
  BY <1>3 DEF StableInitialize
<1> QED
  BY <1>4 DEF n, m

LEMMA StableWithdrawByLength ==
  ASSUME NEW o, NEW u
  PROVE  Len(StableWithdraw(o)) = Len(StableWithdraw(u))
            => StableWithdraw(o) = StableWithdraw(u)
<1> DEFINE n == Len(StableWithdraw(o))
           m == Len(StableWithdraw(u))
           list == <<W("referrer_pc")>>
<1>1. /\ n = 18 + (IF "referrer_pc" \in o THEN 1 ELSE 0) + (IF AllSerum(o) THEN 3 ELSE 0)
      /\ m = 18 + (IF "referrer_pc" \in u THEN 1 ELSE 0) + (IF AllSerum(u) THEN 3 ELSE 0)
  BY StableLengths
<1>2. /\ If("referrer_pc" \in o, list) = IF "referrer_pc" \in o THEN list ELSE <<>>
      /\ If("referrer_pc" \in u, list) = IF "referrer_pc" \in u THEN list ELSE <<>>
  BY DEF If
<1>3. /\ SerumOption(o) = IF AllSerum(o) THEN SerumOption(SerumAccounts) ELSE <<>>
      /\ SerumOption(u) = IF AllSerum(u) THEN SerumOption(SerumAccounts) ELSE <<>>
  BY DEF SerumOption, AllSerum, SerumAccounts, If
<1> HIDE DEF n, m
<1>4. ASSUME n = m
      PROVE  If("referrer_pc" \in o, list) = If("referrer_pc" \in u, list)
  BY <1>1, <1>2, <1>4
<1>5. ASSUME n = m
      PROVE  SerumOption(o) = SerumOption(u)
  BY <1>1, <1>3, <1>5
<1>6. n = m => StableWithdraw(o) = StableWithdraw(u)
  BY <1>4, <1>5 DEF StableWithdraw
<1> QED
  BY <1>6 DEF n, m

LEMMA FarmDepositByLength ==
  ASSUME NEW o, NEW u
  PROVE  Len(FarmDeposit(o)) = Len(FarmDeposit(u)) => FarmDeposit(o) = FarmDeposit(u)
<1> DEFINE n == Len(FarmDeposit(o))
           m == Len(FarmDeposit(u))
           list == <<W("dest_reward_token_b"), W("vault_reward_token_b")>>
<1>1. /\ n = IF "dest_reward_token_b" \in o THEN 12 ELSE 10
      /\ m = IF "dest_reward_token_b" \in u THEN 12 ELSE 10
  BY FarmLengths
<1>2. /\ If("dest_reward_token_b" \in o, list) = IF "dest_reward_token_b" \in o THEN list ELSE <<>>
      /\ If("dest_reward_token_b" \in u, list) = IF "dest_reward_token_b" \in u THEN list ELSE <<>>
  BY DEF If
<1> HIDE DEF n, m
<1>3. ASSUME n = m
      PROVE  If("dest_reward_token_b" \in o, list) = If("dest_reward_token_b" \in u, list)
  BY <1>1, <1>2, <1>3
<1>4. n = m => FarmDeposit(o) = FarmDeposit(u)
  BY <1>3 DEF FarmDeposit, SecondReward
<1> QED
  BY <1>4 DEF n, m

LEMMA FarmWithdrawByLength ==
  ASSUME NEW o, NEW u
  PROVE  Len(FarmWithdraw(o)) = Len(FarmWithdraw(u)) => FarmWithdraw(o) = FarmWithdraw(u)
<1> DEFINE n == Len(FarmWithdraw(o))
           m == Len(FarmWithdraw(u))
           list == <<W("dest_reward_token_b"), W("vault_reward_token_b")>>
<1>1. /\ n = IF "dest_reward_token_b" \in o THEN 12 ELSE 10
      /\ m = IF "dest_reward_token_b" \in u THEN 12 ELSE 10
  BY FarmLengths
<1>2. /\ If("dest_reward_token_b" \in o, list) = IF "dest_reward_token_b" \in o THEN list ELSE <<>>
      /\ If("dest_reward_token_b" \in u, list) = IF "dest_reward_token_b" \in u THEN list ELSE <<>>
  BY DEF If
<1> HIDE DEF n, m
<1>3. ASSUME n = m
      PROVE  If("dest_reward_token_b" \in o, list) = If("dest_reward_token_b" \in u, list)
  BY <1>1, <1>2, <1>3
<1>4. n = m => FarmWithdraw(o) = FarmWithdraw(u)
  BY <1>3 DEF FarmWithdraw, SecondReward
<1> QED
  BY <1>4 DEF n, m

LEMMA FarmWithdrawV2ByLength ==
  ASSUME NEW o, NEW u
  PROVE  Len(FarmWithdrawV2(o)) = Len(FarmWithdrawV2(u)) => FarmWithdrawV2(o) = FarmWithdrawV2(u)
<1> DEFINE n == Len(FarmWithdrawV2(o))
           m == Len(FarmWithdrawV2(u))
           list == <<W("dest_reward_token_b"), W("vault_reward_token_b")>>
<1>1. /\ n = IF "dest_reward_token_b" \in o THEN 12 ELSE 10
      /\ m = IF "dest_reward_token_b" \in u THEN 12 ELSE 10
  BY FarmLengths
<1>2. /\ If("dest_reward_token_b" \in o, list) = IF "dest_reward_token_b" \in o THEN list ELSE <<>>
      /\ If("dest_reward_token_b" \in u, list) = IF "dest_reward_token_b" \in u THEN list ELSE <<>>
  BY DEF If
<1> HIDE DEF n, m
<1>3. ASSUME n = m
      PROVE  If("dest_reward_token_b" \in o, list) = If("dest_reward_token_b" \in u, list)
  BY <1>1, <1>2, <1>3
<1>4. n = m => FarmWithdrawV2(o) = FarmWithdrawV2(u)
  BY <1>3 DEF FarmWithdrawV2, SecondReward
<1> QED
  BY <1>4 DEF n, m

LEMMA FarmDepositV2ByLength ==
  ASSUME NEW o, NEW u
  PROVE  Len(FarmDepositV2(o)) = Len(FarmDepositV2(u)) => FarmDepositV2(o) = FarmDepositV2(u)
<1> DEFINE n == Len(FarmDepositV2(o))
           m == Len(FarmDepositV2(u))
           list == <<WS("staker_info_v1")>>
<1>1. /\ n = IF "staker_info_v1" \in o THEN 13 ELSE 12
      /\ m = IF "staker_info_v1" \in u THEN 13 ELSE 12
  BY FarmLengths
<1>2. /\ If("staker_info_v1" \in o, list) = IF "staker_info_v1" \in o THEN list ELSE <<>>
      /\ If("staker_info_v1" \in u, list) = IF "staker_info_v1" \in u THEN list ELSE <<>>
  BY DEF If
<1> HIDE DEF n, m
<1>3. ASSUME n = m
      PROVE  If("staker_info_v1" \in o, list) = If("staker_info_v1" \in u, list)
  BY <1>1, <1>2, <1>3
<1>4. n = m => FarmDepositV2(o) = FarmDepositV2(u)
  BY <1>3 DEF FarmDepositV2
<1> QED
  BY <1>4 DEF n, m

LEMMA ShapeTellsStable ==
  ASSUME NEW kind \in DOMAIN StablePack,
         NEW o \in SUBSET Options("stable", kind), NEW u \in SUBSET Options("stable", kind),
         Shape(Accounts("stable", kind, o)) = Shape(Accounts("stable", kind, u))
  PROVE  Accounts("stable", kind, o) = Accounts("stable", kind, u)
<1>1. CASE kind = "Initialize"
  <2>1. /\ Accounts("stable", kind, o) = StableInitialize(o)
        /\ Accounts("stable", kind, u) = StableInitialize(u)
    BY <1>1 DEF Accounts
  <2>2. Len(StableInitialize(o)) \in Nat /\ Len(StableInitialize(u)) \in Nat
    BY StableLengths
  <2>3. Len(StableInitialize(o)) = Len(StableInitialize(u))
    BY <2>1, <2>2, ShapeLength
  <2> QED
    BY <2>1, <2>3, StableInitializeByLength
<1>2. CASE kind = "Withdraw"
  <2>1. /\ Accounts("stable", kind, o) = StableWithdraw(o)
        /\ Accounts("stable", kind, u) = StableWithdraw(u)
    BY <1>2 DEF Accounts
  <2>2. Len(StableWithdraw(o)) \in Nat /\ Len(StableWithdraw(u)) \in Nat
    BY StableLengths
  <2>3. Len(StableWithdraw(o)) = Len(StableWithdraw(u))
    BY <2>1, <2>2, ShapeLength
  <2> QED
    BY <2>1, <2>3, StableWithdrawByLength
<1>3. CASE kind \notin {"Initialize", "Withdraw"}
  <2>1. o = {} /\ u = {}
    BY <1>3 DEF Options
  <2> QED
    BY <2>1
<1> QED
  BY <1>1, <1>2, <1>3

LEMMA ShapeTellsFarm ==
  ASSUME NEW kind \in DOMAIN FarmSerialize, kind # "Initialize",
         NEW o \in SUBSET Options("farm", kind), NEW u \in SUBSET Options("farm", kind),
         Shape(Accounts("farm", kind, o)) = Shape(Accounts("farm", kind, u))
  PROVE  Accounts("farm", kind, o) = Accounts("farm", kind, u)
<1>1. CASE kind = "Deposit"
  <2>1. /\ Accounts("farm", kind, o) = FarmDeposit(o)
        /\ Accounts("farm", kind, u) = FarmDeposit(u)
    BY <1>1 DEF Accounts
  <2>2. Len(FarmDeposit(o)) \in Nat /\ Len(FarmDeposit(u)) \in Nat
    BY FarmLengths
  <2>3. Len(FarmDeposit(o)) = Len(FarmDeposit(u))
    BY <2>1, <2>2, ShapeLength
  <2> QED
    BY <2>1, <2>3, FarmDepositByLength
<1>2. CASE kind = "Withdraw"
  <2>1. /\ Accounts("farm", kind, o) = FarmWithdraw(o)
        /\ Accounts("farm", kind, u) = FarmWithdraw(u)
    BY <1>2 DEF Accounts
  <2>2. Len(FarmWithdraw(o)) \in Nat /\ Len(FarmWithdraw(u)) \in Nat
    BY FarmLengths
  <2>3. Len(FarmWithdraw(o)) = Len(FarmWithdraw(u))
    BY <2>1, <2>2, ShapeLength
  <2> QED
    BY <2>1, <2>3, FarmWithdrawByLength
<1>3. CASE kind = "WithdrawV2"
  <2>1. /\ Accounts("farm", kind, o) = FarmWithdrawV2(o)
        /\ Accounts("farm", kind, u) = FarmWithdrawV2(u)
    BY <1>3 DEF Accounts
  <2>2. Len(FarmWithdrawV2(o)) \in Nat /\ Len(FarmWithdrawV2(u)) \in Nat
    BY FarmLengths
  <2>3. Len(FarmWithdrawV2(o)) = Len(FarmWithdrawV2(u))
    BY <2>1, <2>2, ShapeLength
  <2> QED
    BY <2>1, <2>3, FarmWithdrawV2ByLength
<1>4. CASE kind = "DepositV2"
  <2>1. /\ Accounts("farm", kind, o) = FarmDepositV2(o)
        /\ Accounts("farm", kind, u) = FarmDepositV2(u)
    BY <1>4 DEF Accounts
  <2>2. Len(FarmDepositV2(o)) \in Nat /\ Len(FarmDepositV2(u)) \in Nat
    BY FarmLengths
  <2>3. Len(FarmDepositV2(o)) = Len(FarmDepositV2(u))
    BY <2>1, <2>2, ShapeLength
  <2> QED
    BY <2>1, <2>3, FarmDepositV2ByLength
<1>5. CASE kind \notin {"Deposit", "Withdraw", "WithdrawV2", "DepositV2"}
  <2>1. o = {} /\ u = {}
    BY <1>5 DEF Options
  <2> QED
    BY <2>1
<1> QED
  BY <1>1, <1>2, <1>3, <1>4, <1>5

LEMMA CallOptionalsReadable == CallInv => OptionalsReadable
<1> SUFFICES ASSUME CallInv, stage = "built", instr.kind # "Reserved",
                    <<program, instr.kind>> # <<"farm", "Initialize">>,
                    NEW other \in SUBSET Options(program, instr.kind),
                    Shape(Accounts(program, instr.kind, other)) = Shape(accounts)
             PROVE  Accounts(program, instr.kind, other) = accounts
  BY DEF OptionalsReadable
<1> DEFINE kind == instr.kind
<1>1. /\ accounts = Accounts(program, kind, opts) /\ program \in Programs
      /\ opts \in SUBSET Options(program, kind)
  BY DEF CallInv, BuiltInv, InstrInv
<1>2. kind \in DOMAIN PackTable(program)
  BY BuiltData
<1> HIDE DEF kind
<1>3. CASE program = "stable"
  BY <1>1, <1>2, <1>3, ShapeTellsStable DEF PackTable, kind
<1>4. CASE program = "farm"
  BY <1>1, <1>2, <1>4, ShapeTellsFarm DEF PackTable, kind
<1>5. CASE program \in {"amm", "staking"}
  <2>1. Options(program, kind) = {}
    BY <1>5 DEF Options
  <2>2. other = {} /\ opts = {}
    BY <1>1, <2>1 DEF kind
  <2> QED
    BY <1>1, <2>2 DEF kind
<1> QED
  BY <1>1, <1>3, <1>4, <1>5 DEF Programs

-----------------------------------------------------------------------------
(* -- The theorems ---------------------------------------------------------- *)

(* Every call is well typed, and no builder attaches an account twice.      *)
THEOREM CallsTyped == Spec => []TypeOK
<1> QED
  BY Calls, CallTypeOK, PTL

(* The program whose builder packed an instruction reads exactly it.        *)
THEOREM CallsRoundTrip == Spec => []RoundTrip
<1> QED
  BY Calls, CallRoundTrip, PTL

(* Cut or padded data is refused or means what the whole did.               *)
THEOREM CallsPrefixSafe == Spec => []PrefixSafe
<1> QED
  BY Calls, CallPrefixSafe, PTL

(* What the twin of the program that data was packed for reads, for every   *)
(* kind: the same for the two amms, and for farm and staking a withdrawal   *)
(* where a farm packed a DepositV2.                                         *)
THEOREM CallsTwinReads == Spec => []TwinReads
<1> QED
  BY Calls, CallTwinReads, PTL

(* swap_from_sol may do with its accounts all that the swap asks for.       *)
THEOREM CallsCpiCovered == Spec => []CpiCovered
<1> QED
  BY Calls, CallCpiCovered, PTL

(* The number of accounts and their flags tell which optional ones came.    *)
THEOREM CallsOptionalsReadable == Spec => []OptionalsReadable
<1> QED
  BY Calls, CallOptionalsReadable, PTL

(* The amm builders attach what the doc comments list.                      *)
THEOREM CallsDocumentedLayout == Spec => []DocumentedLayout
<1> QED
  BY Calls, CallDocumentedLayout, PTL

=============================================================================
