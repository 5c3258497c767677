---------------------------- MODULE RaydiumCall ----------------------------
(***************************************************************************)
(* One instruction from its builder (src/lib) to the program that decodes  *)
(* it.  The builder packs the data and attaches the accounts; program_id   *)
(* is the caller's choice, so any of the four programs may be handed the   *)
(* data, and unpack must cope with data of any length: here the data       *)
(* itself, a prefix of it, or one byte more.                               *)
(***************************************************************************)
EXTENDS RaydiumWire, RaydiumAccounts, FiniteSets

VARIABLES
    stage,      \* "new", "refused", "panicked", "built", "decoded" or "crashed"
    program,    \* whose builder is called
    instr,      \* the instruction: kind and args
    opts,       \* the optional arguments given
    data,       \* what pack returned
    accounts,   \* the metas attached
    target,     \* the program handed the data
    handed,     \* the data it is handed
    got         \* what its unpack returned

vars == <<stage, program, instr, opts, data, accounts, target, handed, got>>

(* The values tried for a field: both ends, one, and the lowest bit of the *)
(* last byte.                                                              *)
Powers(width) ==
    LET power[i \in 0 .. width] == IF i = 0 THEN 1 ELSE Base * power[i - 1]
    IN  power
Values(width) == {0, 1, Powers(width)[width - 1], Powers(width)[width] - 1}

ArgsOf(fields) ==
    {args \in [Names(fields) -> UNION {Values(fields[i].width) : i \in 1 .. Len(fields)}] :
        \A i \in 1 .. Len(fields) : args[fields[i].name] \in Values(fields[i].width)}

(* Every kind that the program's pack knows, and one that it reserves.     *)
Instructions(p) ==
    {[kind |-> "Reserved", args |-> <<>>]} \cup
    UNION {{[kind |-> k, args |-> args] : args \in ArgsOf(PackTable(p)[k].fields)} :
              k \in DOMAIN PackTable(p)}

TypeOK ==
    /\ stage \in {"new", "refused", "panicked", "built", "decoded", "crashed"}
    /\ {program, target} \subseteq Programs
    /\ instr \in Instructions(program)
    /\ instr.kind # "Reserved" => opts \subseteq Options(program, instr.kind)
    /\ data \in Seq(Bytes) /\ handed \in Seq(Bytes)
    /\ \A i, j \in 1 .. Len(accounts) :
          i # j => accounts[i].key # accounts[j].key
    /\ got.ok => got.kind \in {"Reserved"} \cup DOMAIN PackTable(target)

Init ==
    /\ stage = "new"
    /\ program \in Programs
    /\ instr \in Instructions(program)
    /\ opts \in SUBSET (IF instr.kind = "Reserved" THEN {} ELSE Options(program, instr.kind))
    /\ data = <<>> /\ accounts = <<>>
    /\ target = program /\ handed = <<>> /\ got = Err

(* The farm and staking codecs write and read their arguments through a    *)
(* reference to byte 1 of the buffer, cast to a type of greater alignment: *)
(* undefined behaviour, which a release build carries out as a plain copy  *)
(* and a debug build may turn into a panic.                                *)
Misaligned(p, kind) == p \in {"farm", "staking"} /\ PackTable(p)[kind].fields # <<>>

-----------------------------------------------------------------------------

(* pack of a reserved kind: an error, but the amm's pack has `_ => {}`.    *)
PackReserved ==
    /\ stage = "new"
    /\ instr.kind = "Reserved"
    /\ stage' = IF program = "amm" THEN "built" ELSE "refused"
    /\ UNCHANGED <<program, instr, opts, data, accounts, target, handed, got>>

Build ==
    /\ stage = "new"
    /\ instr.kind # "Reserved"
    /\ ~BuilderPanics(opts)
    /\ data' = Packed(program, instr.kind, instr.args)
    /\ accounts' = Accounts(program, instr.kind, opts)
    /\ stage' = "built"
    /\ UNCHANGED <<program, instr, opts, target, handed, got>>

BuildPanics ==
    /\ stage = "new"
    /\ instr.kind # "Reserved"
    /\ BuilderPanics(opts) \/ Misaligned(program, instr.kind)
    /\ stage' = "panicked"
    /\ UNCHANGED <<program, instr, opts, data, accounts, target, handed, got>>

(* Program p is handed bytes and decodes them.                             *)
Decode(p, bytes) ==
    /\ stage = "built"
    /\ target' = p
    /\ handed' = bytes
    /\ got' = Unpacked(p, bytes)
    /\ stage' = "decoded"
    /\ UNCHANGED <<program, instr, opts, data, accounts>>

DecodePanics(p, bytes) ==
    /\ stage = "built"
    /\ Unpacked(p, bytes).ok
    /\ Misaligned(p, Unpacked(p, bytes).kind)
    /\ target' = p
    /\ handed' = bytes
    /\ stage' = "crashed"
    /\ UNCHANGED <<program, instr, opts, data, accounts, got>>

Deliveries == {SubSeq(data, 1, n) : n \in 0 .. Len(data)} \cup {Append(data, Base - 1)}

Next ==
    \/ PackReserved \/ Build \/ BuildPanics
    \/ \E p \in Programs, bytes \in Deliveries : Decode(p, bytes) \/ DecodePanics(p, bytes)

Spec == Init /\ [][Next]_vars

-----------------------------------------------------------------------------
(* The program whose builder packed an instruction reads exactly that      *)
(* instruction, although pack and unpack are written apart.                *)
RoundTrip ==
    stage = "decoded" /\ target = program /\ handed = data /\ instr.kind # "Reserved"
        => got = [ok |-> TRUE, kind |-> instr.kind, args |-> instr.args]

(* Data that is cut short or padded is refused or means what the whole     *)
(* did: no instruction turns into another or changes its amounts.          *)
PrefixSafe ==
    stage = "decoded" /\ target = program /\ handed # <<>> /\ instr.kind # "Reserved"
        => \/ got = Err
           \/ got.kind = instr.kind /\ got.args = instr.args

(* Each program has a twin that takes the same data for its own.           *)
Twins == {{"amm", "stable"}, {"farm", "staking"}}

ReadAs(kind, args) == [ok |-> TRUE, kind |-> kind, args |-> args]

(* The lower half of a u128.                                               *)
LowWord(n) == ValueOf([j \in 1 .. Word |-> LittleEndian(n, 2 * Word)[j]])

(* What the twin of program p makes of p's instruction.  Farm and staking  *)
(* number CreateAssociatedAccount and the V2 instructions differently, and *)
(* the farm's buffer is one byte too short to be a staking Initialize.     *)
TwinReading(p, kind, args) ==
    CASE p = "farm" /\ kind \in {"Initialize", "WithdrawV2"} -> Err
      [] p = "farm" /\ kind = "CreateAssociatedAccount" -> ReadAs("DepositV2", [val |-> 0])
      [] p = "farm" /\ kind = "DepositV2" -> ReadAs("WithdrawV2", args)
      [] p = "staking" /\ kind = "Initialize" ->
            ReadAs("Initialize", [nonce |-> args.nonce,
                                  reward_per_slot_a |-> args.reward_per_slot,
                                  reward_per_slot_b |-> LowWord(args.ignore)])
      [] p = "staking" /\ kind = "CreateAssociatedAccount" -> Err
      [] p = "staking" /\ kind = "DepositV2" ->
            ReadAs("CreateAssociatedAccount", [name \in {} |-> 0])
      [] p = "staking" /\ kind = "WithdrawV2" -> ReadAs("DepositV2", args)
      [] OTHER -> ReadAs(kind, args)

(* The builders take program_id from the caller unchecked.  Data that      *)
(* reaches the twin of the program it was packed for is read, kind by kind,*)
(* as TwinReading says: the two amms always read it alike, but to the      *)
(* staking program a farm's DepositV2 is a WithdrawV2 of the same amount.  *)
TwinReads ==
    /\ stage = "decoded" /\ handed = data
    /\ {program, target} \in Twins
    /\ instr.kind # "Reserved"
    => got = TwinReading(program, instr.kind, instr.args)

(* What swap_from_sol may do with the accounts it was given covers what    *)
(* the swap's account list asks for; the runtime fails the call otherwise. *)
CpiCovered ==
    stage = "built" /\ program = "amm" /\ instr.kind = "SwapBaseIn"
        => \A i \in 1 .. Len(accounts) :
              \E given \in DcaSwapAccounts :
                 /\ given.key = accounts[i].key
                 /\ accounts[i].writable => given.writable
                 /\ accounts[i].signer => given.signer \/ given.key \in DcaSigns

(* Optional accounts are appended, so the program must tell from the       *)
(* number of accounts and their flags which ones it got.  Farm initialize  *)
(* is left out: reward_vault_b alone looks like admin_authority alone.     *)
Shape(metas) == [i \in 1 .. Len(metas) |-> <<metas[i].writable, metas[i].signer>>]
OptionalsReadable ==
    stage = "built" /\ instr.kind # "Reserved" /\ <<program, instr.kind>> # <<"farm", "Initialize">>
        => \A other \in SUBSET Options(program, instr.kind) :
              Shape(Accounts(program, instr.kind, other)) = Shape(accounts)
                 => Accounts(program, instr.kind, other) = accounts

(* The account lists in the doc comments of AmmInstruction (lines 93-186)  *)
(* describe what the builders attach, position by position; of Withdraw    *)
(* they give the first 19 accounts.                                        *)
Documented ==
    [Deposit |->
        <<R("spl_token"), W("amm"), R("amm_authority"), R("amm_open_orders"),
          W("amm_target_orders"), W("lp_mint"), W("pool_coin"), W("pool_pc"),
          R("serum_market"), W("user_coin"), W("user_pc"), W("user_lp"), RS("user_owner")>>,
     Withdraw |->
        <<R("spl_token"), W("amm"), R("amm_authority"), W("amm_open_orders"),
          W("amm_target_orders"), W("lp_mint"), W("pool_coin"), W("pool_pc"),
          W("pool_withdraw_queue"), W("pool_temp_lp"), R("serum_program"), W("serum_market"),
          W("serum_coin_vault"), W("serum_pc_vault"), R("serum_vault_signer"), W("user_lp"),
          W("user_coin"), W("user_pc"), RS("user_owner")>>]
DocumentedSwap ==
    <<R("spl_token"), W("amm"), R("amm_authority"), W("amm_open_orders"),
      W("amm_target_orders"), W("pool_coin"), W("pool_pc"), R("serum_program"),
      W("serum_market"), W("serum_bids"), W("serum_asks"), W("serum_event_queue"),
      W("serum_coin_vault"), W("serum_pc_vault"), R("serum_vault_signer"),
      W("user_source"), W("user_destination"), RS("user_owner")>>
DocumentedLayout ==
    stage = "built" /\ program = "amm"
        => /\ instr.kind \in DOMAIN Documented => IsPrefix(Documented[instr.kind], accounts)
           /\ instr.kind \in {"SwapBaseIn", "SwapBaseOut"} => accounts = DocumentedSwap

-----------------------------------------------------------------------------
(* "Packs a AmmInstruction into a byte buffer" (amm_instruction.rs:272):   *)
(* whatever pack returns without an error, unpack reads.  It does not hold *)
(* for the kinds the amm reserves.                                         *)
PackedIsReadable ==
    stage = "decoded" /\ target = program /\ handed = data => got.ok

(* "1. [writable, signer] New amm Account to create"                       *)
(* (amm_instruction.rs:74).  The builder attaches the amm as account 3 and *)
(* without its signature.                                                  *)
InitializeAsDocumented ==
    stage = "built" /\ program = "amm" /\ instr.kind = "Initialize" => accounts[2] = WS("amm")

(* "4. [writable] amm target_orders Account" (stable_instruction.rs:155),  *)
(* for SwapBaseIn.  The builder attaches the coin vault there, and no      *)
(* target orders at all.                                                   *)
StableSwapAsDocumented ==
    stage = "built" /\ program = "stable" /\ instr.kind = "SwapBaseIn"
        => accounts[5] = W("amm_target_orders")

=============================================================================
