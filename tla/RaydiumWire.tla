---------------------------- MODULE RaydiumWire ----------------------------
(***************************************************************************)
(* The instruction data of the four Raydium programs that src/lib speaks   *)
(* to: "amm" (amm_instruction.rs), "stable" (stable_instruction.rs),       *)
(* "farm" (farm_instruction.rs) and "staking" (staking_instruction.rs).    *)
(*                                                                         *)
(* Data is a sequence of bytes: a tag, then the fields, little endian.     *)
(* What is written and what is read are given by separate tables, since    *)
(* the code has them in separate functions.  A byte has Base values and a  *)
(* u64 has Word bytes.                                                     *)
(***************************************************************************)
EXTENDS Integers, Sequences, SequencesExt

CONSTANTS
    Base,       \* values of a byte: 256
    Word,       \* bytes in a u64: 8
    StakeWords  \* words in a StakePoolInstruction: 5, or 6 where u128 is 16-aligned

ASSUME WireAssumption ==
    /\ Base \in Nat /\ Base > 12        \* every tag is a byte
    /\ Word \in Nat \ {0}
    /\ StakeWords \in {5, 6}

Programs == {"amm", "stable", "farm", "staking"}

U8(name) == [name |-> name, width |-> 1]
U64(name) == [name |-> name, width |-> Word]
U128(name) == [name |-> name, width |-> 2 * Word]

Names(fields) == {fields[i].name : i \in 1 .. Len(fields)}

Bytes == 0 .. Base - 1

(* What is left of n when its lowest bytes, 0 to width of them, are gone.   *)
Shifts(n, width) ==
    LET left[i \in 0 .. width] == IF i = 0 THEN n ELSE left[i - 1] \div Base
    IN  left

(* Variant: most significant byte first.                                    *)
BigEndian(n, width) == [i \in 1 .. width |-> Shifts(n, width)[width - i] % Base]
(* Variant: the higher bytes are not cut off.                               *)
LittleEndianUncut(n, width) == [i \in 1 .. width |-> Shifts(n, width)[i - 1]]
LittleEndian(n, width) == [i \in 1 .. width |-> Shifts(n, width)[i - 1] % Base]

(* The value of the last i bytes is theirs, least significant first.        *)
ValueOf(bytes) ==
    LET n == Len(bytes)
        value[i \in 0 .. n] == IF i = 0 THEN 0
                               ELSE bytes[n - i + 1] + Base * value[i - 1]
    IN  value[n]

Writes(tag, fields) == [tag |-> tag, fields |-> fields]
Reads(kind, fields) == [kind |-> kind, fields |-> fields]

-----------------------------------------------------------------------------
(* What each pack (serialize) writes: kind -> tag and fields, in order.    *)

AmmPack ==
    [Initialize    |-> Writes(0, <<U8("nonce"), U64("open_time")>>),
     Deposit       |-> Writes(3, <<U64("max_coin_amount"), U64("max_pc_amount"), U64("base_side")>>),
     Withdraw      |-> Writes(4, <<U64("amount")>>),
     SwapBaseIn    |-> Writes(9, <<U64("amount_in"), U64("minimum_amount_out")>>),
     PreInitialize |-> Writes(10, <<U8("nonce")>>),
     SwapBaseOut   |-> Writes(11, <<U64("max_amount_in"), U64("amount_out")>>)]

StablePack ==
    [Initialize    |-> Writes(0, <<U8("nonce"), U64("open_time")>>),
     Deposit       |-> Writes(3, <<U64("max_coin_amount"), U64("max_pc_amount"), U64("base_side")>>),
     Withdraw      |-> Writes(4, <<U64("amount")>>),
     SwapBaseIn    |-> Writes(9, <<U64("amount_in"), U64("minimum_amount_out")>>),
     PreInitialize |-> Writes(10, <<U8("nonce")>>),
     SwapBaseOut   |-> Writes(11, <<U64("max_amount_in"), U64("amount_out")>>)]

FarmSerialize ==
    [Initialize              |-> Writes(0, <<U64("nonce"), U64("reward_per_slot_a"), U64("reward_per_slot_b")>>),
     Deposit                 |-> Writes(1, <<U64("val")>>),
     Withdraw                |-> Writes(2, <<U64("val")>>),
     UpdatePool              |-> Writes(3, <<>>),
     EmergencyWithdraw       |-> Writes(7, <<>>),
     CreateAssociatedAccount |-> Writes(10, <<>>),
     DepositV2               |-> Writes(11, <<U64("val")>>),
     WithdrawV2              |-> Writes(12, <<U64("val")>>)]

StakingSerialize ==
    [Initialize              |-> Writes(0, <<U64("nonce"), U64("reward_per_slot"), U128("ignore")>>),
     Deposit                 |-> Writes(1, <<U64("val")>>),
     Withdraw                |-> Writes(2, <<U64("val")>>),
     UpdatePool              |-> Writes(3, <<>>),
     EmergencyWithdraw       |-> Writes(7, <<>>),
     CreateAssociatedAccount |-> Writes(9, <<>>),
     DepositV2               |-> Writes(10, <<U64("val")>>),
     WithdrawV2              |-> Writes(11, <<U64("val")>>)]

PackTable(program) ==
    CASE program = "amm"     -> AmmPack
      [] program = "stable"  -> StablePack
      [] program = "farm"    -> FarmSerialize
      [] program = "staking" -> StakingSerialize

-----------------------------------------------------------------------------
(* What each unpack (deserialize) reads: tag -> kind and fields, in order. *)

AmmUnpack ==
    [tag \in {0, 3, 4, 9, 10, 11} |->
        CASE tag = 0  -> Reads("Initialize", <<U8("nonce"), U64("open_time")>>)
          [] tag = 3  -> Reads("Deposit", <<U64("max_coin_amount"), U64("max_pc_amount"), U64("base_side")>>)
          [] tag = 4  -> Reads("Withdraw", <<U64("amount")>>)
          [] tag = 9  -> Reads("SwapBaseIn", <<U64("amount_in"), U64("minimum_amount_out")>>)
          [] tag = 10 -> Reads("PreInitialize", <<U8("nonce")>>)
          [] tag = 11 -> Reads("SwapBaseOut", <<U64("max_amount_in"), U64("amount_out")>>)]

StableTags == {0, 3, 4, 9, 10, 11}
StableReadsPool(tag) ==
    CASE tag = 0  -> Reads("Initialize", <<U8("nonce"), U64("open_time")>>)
      [] tag = 3  -> Reads("Deposit", <<U64("max_coin_amount"), U64("max_pc_amount"), U64("base_side")>>)
      [] tag = 4  -> Reads("Withdraw", <<U64("amount")>>)
      [] tag = 10 -> Reads("PreInitialize", <<U8("nonce")>>)

(* Variant: the tags of the two swaps exchanged.                            *)
StableUnpackExchanged ==
    [tag \in StableTags |->
        CASE tag = 11 -> Reads("SwapBaseIn", <<U64("amount_in"), U64("minimum_amount_out")>>)
          [] tag = 9  -> Reads("SwapBaseOut", <<U64("max_amount_in"), U64("amount_out")>>)
          [] OTHER    -> StableReadsPool(tag)]

StableUnpack ==
    [tag \in StableTags |->
        CASE tag = 9  -> Reads("SwapBaseIn", <<U64("amount_in"), U64("minimum_amount_out")>>)
          [] tag = 11 -> Reads("SwapBaseOut", <<U64("max_amount_in"), U64("amount_out")>>)
          [] OTHER    -> StableReadsPool(tag)]

FarmDeserialize ==
    [tag \in {0, 1, 2, 3, 7, 10, 11, 12} |->
        CASE tag = 0  -> Reads("Initialize", <<U64("nonce"), U64("reward_per_slot_a"), U64("reward_per_slot_b")>>)
          [] tag = 1  -> Reads("Deposit", <<U64("val")>>)
          [] tag = 2  -> Reads("Withdraw", <<U64("val")>>)
          [] tag = 3  -> Reads("UpdatePool", <<>>)
          [] tag = 7  -> Reads("EmergencyWithdraw", <<>>)
          [] tag = 10 -> Reads("CreateAssociatedAccount", <<>>)
          [] tag = 11 -> Reads("DepositV2", <<U64("val")>>)
          [] tag = 12 -> Reads("WithdrawV2", <<U64("val")>>)]

StakingDeserialize ==
    [tag \in {0, 1, 2, 3, 7, 9, 10, 11} |->
        CASE tag = 0  -> Reads("Initialize", <<U64("nonce"), U64("reward_per_slot"), U128("ignore")>>)
          [] tag = 1  -> Reads("Deposit", <<U64("val")>>)
          [] tag = 2  -> Reads("Withdraw", <<U64("val")>>)
          [] tag = 3  -> Reads("UpdatePool", <<>>)
          [] tag = 7  -> Reads("EmergencyWithdraw", <<>>)
          [] tag = 9  -> Reads("CreateAssociatedAccount", <<>>)
          [] tag = 10 -> Reads("DepositV2", <<U64("val")>>)
          [] tag = 11 -> Reads("WithdrawV2", <<U64("val")>>)]

UnpackTable(program) ==
    CASE program = "amm"     -> AmmUnpack
      [] program = "stable"  -> StableUnpack
      [] program = "farm"    -> FarmDeserialize
      [] program = "staking" -> StakingDeserialize

-----------------------------------------------------------------------------
(* serialize starts from size_of::<Self>() zero bytes: a word that holds   *)
(* the enum's tag and the largest of its arguments.  pack starts from none.*)
BufferSize(program) ==
    CASE program = "farm"    -> 4 * Word
      [] program = "staking" -> StakeWords * Word
      [] OTHER               -> 0

FieldBytes(fields, args) ==
    FlattenSeq([i \in 1 .. Len(fields) |->
                   LittleEndian(args[fields[i].name], fields[i].width)])

(* The data of an instruction with a tag.                                  *)
Packed(program, kind, args) ==
    LET entry == PackTable(program)[kind]
        bytes == <<entry.tag>> \o FieldBytes(entry.fields, args)
    IN  bytes \o [i \in 1 .. BufferSize(program) - Len(bytes) |-> 0]

(* The first byte of field i: the fields follow the tag without a gap.     *)
(* The one past the last is where the fields end.                          *)
StartOf(fields) ==
    LET start[i \in 1 .. Len(fields) + 1] ==
            IF i = 1 THEN 2 ELSE start[i - 1] + fields[i - 1].width
    IN  start

Err == [ok |-> FALSE]

(* Variant: the length is not compared, missing bytes read as zero.         *)
LongEnoughAlways(data, fields) == TRUE
(* Every unpack_u8, unpack_u64 and unpack::<T> compares lengths first.     *)
LongEnough(data, fields) == Len(data) >= StartOf(fields)[Len(fields) + 1] - 1

(* A field of the data; a byte beyond its end (in the variant) is zero.    *)
FieldAt(data, start, width) ==
    ValueOf([j \in 1 .. width |->
                IF start + j - 1 <= Len(data) THEN data[start + j - 1] ELSE 0])

(* Trailing bytes are ignored.                                             *)
Unpacked(program, data) ==
    IF data = <<>> \/ Head(data) \notin DOMAIN UnpackTable(program)
    THEN Err
    ELSE LET entry == UnpackTable(program)[Head(data)]
             fields == entry.fields
             Index(name) == CHOOSE i \in 1 .. Len(fields) : fields[i].name = name
         IN  IF ~LongEnough(data, fields)
             THEN Err
             ELSE [ok |-> TRUE, kind |-> entry.kind,
                   args |-> [name \in Names(fields) |->
                                FieldAt(data, StartOf(fields)[Index(name)],
                                        fields[Index(name)].width)]]

=============================================================================
