# DCA-Anchor: models, checks and proofs

This directory holds TLA+ models of DCA-Anchor, the TLC configurations that
check them on small instances, and TLAPS proofs of the properties that matter
most. Paths below are relative to `src/`.

    tlc -workers 2 -config MCDca_two_senders.cfg MCDca     # a run
    tlapm DcaProofs.tla                                    # the proofs of a module

`PROJECT.json` lists every run, the source lines each definition stands for,
and for each checked property a small change of the model (a "variant" in the
modules) under which it fails.

## 1. Inventory

### The DCA program: `programs/dca-anchor/src/lib.rs`

A Solana program for dollar-cost averaging. A wallet deposits SOL or a token
into a *vault*, an address derived from the wallet and a *dca account*; the dca
account records who deposited what and on which plan it is to be spent.

| instruction | lines | what it does |
|---|---|---|
| `deposit_token` | 16-34 | writes the record (flag 2, inactive), then moves the tokens into the vault's token account |
| `deposit_sol` | 37-70 | writes the record (flag 1, inactive), sends lamports to the vault's wrapped-SOL account, has the token program count them (`sync_native`) |
| `initialize_dca` | 73-80 | sets the plan and `state = true` on an existing dca account |
| `swap_from_sol` | 96-143 | builds Raydium's SwapBaseIn and invokes it signed by the vault |

State: `DcaData` (339-350), the vault, two token accounts per vault, the
balances of the wallets. Interaction: calls to the system, token, associated
token and AMM programs. What makes it hard:

- one dca account is one record, but every sender has a vault of its own under
  it, and a later deposit overwrites the record of an earlier one;
- `flag` decides which asset `total_amount` counts;
- the accounts of an instruction are created on the way (`init_if_needed`), and
  a failing call must take them and the record back;
- wrapped SOL lives twice, as lamports and as a token amount, which anybody can
  bring apart (a transfer) or together (a sync) at any time.

Correct means: a record is always covered by its owner's vault; a plan never
outlives its deposit; no record is blank; a swap sells what the record stands for.
(That an instruction neither makes nor loses lamports is the runtime's business: it
refuses any that does, whatever the handler's code.)

### The Raydium instruction library: `lib/src/*_instruction.rs`

For each of four programs (amm, stable amm, farm, staking) a codec for
instruction data and a builder per instruction that attaches the account list.
No state. The caller supplies the program id. What makes it hard: encoder and
decoder are written apart, with tags and widths by hand; the receiving program
finds accounts by position, and some are optional; the farm and staking codecs
go through misaligned references. Correct means: what is packed is what is
read; shortened data is never read as something else; account lists can be told
apart, match their documentation, and can be satisfied by the one caller in the
repository; and it is known what a program makes of data meant for another. The `*_stats.rs` files are account layouts without operations.

### The client: `tests/utils.ts`, `tests/my-swap.ts`, `tests/dca-anchor.ts`

- `sendTx` (utils.ts:559): fetches a blockhash, signs once, sends up to three
  times six seconds apart, looking up the signature after each send. It returns
  in the same way after success and after giving up; scripts go on. State: a
  counter and what the cluster makes of the copies. Hard: late, lost and
  repeated copies, expiry of the blockhash, abandoned forks, calls that reject.
- `createSerumMarket`, `signTransactions`, `sendSignedTransaction` (utils.ts:286-526):
  two transactions, the second needing the first, signed with one blockhash at
  commitment `max`, each sent once and followed by fifteen seconds of sleep; no
  status is ever asked for. State: the shared blockhash, and which of the two is
  next. Hard: either may be lost, late, or too old, and the second may overtake
  the first.
- `my-swap.ts`: the script that sets a market up, loads it (`Market.load`), creates
  and initialises a pool on it with two calls of `sendTx`, and swaps. It goes on
  after each of its four transactions whatever became of it. `dca-anchor.ts` has
  three calls of `sendTx` in a row (`createAtaAndMinto`, create, initialise).
- `zapp_mvp_utils/raydium/liquidity-util.ts`: `findPoolIdByBaseAndQuoteMintDevnet`,
  `fetchAllPoolKeys`, `fetchPoolKeys`: look pools up, join them by index with their
  markets, which a second call asks for, and swallow RPC failures. State: the two
  answers. Hard: the chain moves between the calls, nodes lag, accounts are missing
  or half set up.

Correct means: no transaction takes effect twice, a success that is reported is
one, down to what the transaction needs; no pool runs on half a market, and a success
reported for a pool stands for its whole set-up; a pool that a search finds is the one
asked for, with its own market; a listing is whole or empty; "not found" is said only
when it is so.

Everything else (`migrations/deploy.ts`, manifests, lock files, test wallets) has
no behaviour of its own.

## 2. Modules

    Accounts ── Dca ── DcaProps ── MCDca            DcaProofs (EXTENDS DcaProps)
        └────── Escrow ── EscrowProofs ───────────────┘ (INSTANCE in DcaProps)

    Cluster ── SendTx ── MCSendTx                   SendTxProofs (EXTENDS SendTx)
                 ├────── PoolSetup                  PoolSetupProofs (EXTENDS PoolSetup,
                 └ Outcomes (INSTANCE in SendTx)                     SendTxProofs)

    PoolDiscovery ── MCPoolDiscovery                PoolDiscoveryProofs (EXTENDS PoolDiscovery)

    RaydiumWire ─────┐                              RaydiumWireProofs (EXTENDS RaydiumWire)
    RaydiumAccounts ─┴─ RaydiumCall                 RaydiumCallProofs (EXTENDS RaydiumCall,
                                                                       RaydiumWireProofs)

**`Dca`.** One action is one transaction, since the runtime runs a transaction
whole and keeps all of it or nothing. `DepositTokenOK`/`Fails`,
`DepositSolOK`/`Fails`, `InitializeDca` and `SwapFromSol` are the four
instructions, each with its account validation (`DepositAccountsOK`, rent due)
and the calls it makes. A transaction can end "refused" (validation) or
"cpi_failed" (a call it made failed), and is then undone. `CreateAta`,
`SendLamports` and `SyncNative` are what wallets do without the program.
`dca`, `vaults`, `open`, `held`, `wrap`, `sol`, `purse` are the accounts;
`last` is the outcome the client sees.

Assumed in `Dca`: a deposit's token accounts are the vault's own associated token
accounts, as every client of the repository derives them (`DepositAccountsOK`). The
program itself asks no more of them than `mut` (lib.rs:166-169 and 192-195), so what is
shown of deposits is shown of these clients, and not of a caller that passes others.

Left out of `Dca`, and why: `minimum_amount_out` of `DcaData` is never written;
the mint of a deposit is never the native mint (the vault's token account and
its wrapped-SOL account would be one account); the sender's own token account
exists (the clients create it first); the three plan fields are one value, since
the program only stores them; accounts are the ones the clients derive.

**`Escrow`.** The abstract specification: an order per dca account, a credit per
vault and asset; deposits, activations, and lamports that accrue. No rent, no
lamports, no failure. It has no step that takes a credit out, because none of the code
does at present: the swap, which is meant to, always reverts (first finding), and a
working one would need a step of its own here. `DcaProps` gives the refinement mapping: credit is the
*amount* of the token accounts, and a record stands for an order whose asset the
flag decides.

**`Cluster`.** External: Solana as `sendTx` sees it. Leaders run a copy at most
once per signature while its blockhash is recent; copies are lost; slots pass;
a fork of up to `Depth` slots may be abandoned with what ran in it. A copy that
is in flight may be run again on the new fork. `Needs` says which transactions use
what others create; without that a transaction fails, and it may fail for reasons
of its own.

**`SendTx`.** `sendTx` line by line: `FetchHash`, `Send`, `Sleep`,
`PollSuccess`/`PollFailed`, `GiveUp`, `NextTx`, and one action per RPC call that
rejects. An answer may lag behind the cluster: a poll sees nothing, or what ran.
`report` is what the console last said of a transaction: each poll that does not show a
success logs "failed" (utils.ts:590 and 593), a later one may log "success" (587), and
nothing is logged when the loop is over (`GiveUp`).
`SendTxCall` is one call of it; `Client` is a script of such calls in a row.

**`Outcomes`.** The abstract specification: a transaction comes to an outcome once,
to a good one only on top of what it needs; outcomes are taken back together with
all that rests on them. The caller is told about one transaction after the other: of a
success only while it is one, and then nothing more of that transaction; of a failure
any number of times, which promises nothing, as the transaction may have run or may
still run. No blockhash, signature or slot. In `SendTx` the mapping is `OutcomeOf`, read
off what landed, and `forks` counts what was undone. `KeepsPromise` is the
refinement, for `SendTx` and, with the same mapping, for `PoolSetup`.

**`PoolSetup`.** my-swap.ts from its first transaction to its swap, on top of
`SendTx`: transactions 1 (`Vaults`) and 2 (`Market`) are `SignTransactions`,
`SendSigned`, `SleepSigned`; `GetMarket` is `Market.load`; 3 (`CreatePool`) and 4
(`InitPool`) are calls of `sendTx`; `Swap` is the first step that awaits a
confirmation, and it always throws, as swap_from_sol always reverts (first finding,
`SwapFromSol` of `Dca`): the script has no good end. A call that rejects ends the
script wherever it is (`ScriptThrows`, `SendSignedThrows`). `PoolNeeds` says what each transaction reads:
`initializeMarket` the vaults, the pool's initialisation the market and the pool's
accounts; the accounts themselves are derived from the market's *address*, so
creating them needs nothing. Two idealisations: a blockhash at commitment `max` is
of a slot no fork takes back (`IsMax`; no proof needs it), and a node that shows a market
or a pool shows what has run.

**`PoolDiscovery`.** `Find`, `GetProgramAccounts`, `GetMarkets` are
`findPoolIdByBaseAndQuoteMintDevnet` with `fetchAllPoolKeys`, up to the first and
the second answer and the end; `GetProgramAccountsFails` and `GetMarketsFails` are
the two `catch (error) {}`. `FetchPoolKeys`, `GetAccount`, `GetMarket` and
`FetchThrows` are `fetchPoolKeys`, which has no check of the status (it is commented
out, 463-466) and decodes whatever account it finds at the market's address (496-499):
for a blank pool that is `DefaultKey`, the address of the system program, whose data
decodes as well, so keys are returned. Other clients create markets and pools and
initialise them at any time (`Chain`); a node may show any earlier state of a
pool (`Seen`), and lists the pools in no particular order. Pool and market share
one name, as the pool's address is derived from the market's.

**`RaydiumWire`** has one table per function: what each `pack`/`serialize`
writes and what each `unpack`/`deserialize` reads, and the codec between bytes and
values. `Base` and `Word` stand for 256 and 8.
**`RaydiumAccounts`** has one operator per builder, and what `swap_from_sol`
hands to one of them. **`RaydiumCall`** is one call: build (or be refused, or
panic), hand the data, a prefix or a padded copy to one of the four programs,
decode (or panic). The misaligned reference of the farm and staking codecs is a
choice between a plain copy and a panic, the outcomes the builds produce.

## 3. Runs

| run | instance | shows |
|---|---|---|
| `two_senders` | 2 senders, 1 dca account, 1 mint, amounts 0 and 1, 5 lamports each, rents 1, u64 up to 7; 137k states | `TypeOK` and the five properties below |
| `two_accounts` | 1 sender, 2 dca accounts, 2 mints, 9 lamports; 362k states | backing and usable records when vaults and mints could be confused |
| `swap_delivers` | as `two_senders` | violated: see findings |
| `flag_directs_swap` | as `two_senders` | violated: see findings |
| `send_tx` | 2 transactions, the second needing the first, 3 tries, hashes valid 1 slot, forks of 2 slots, 4 slots, 1 abandoned fork; 64k states | at most once, honest success, final expiry, refinement of `Outcomes`, termination |
| `pool_setup` | the 4 transactions of my-swap.ts, 2 tries, hashes valid 1 slot, forks of 1 slot, 4 slots, 1 abandoned fork; 489k states | `SetupTypeOK` and the five properties below |
| `pool_discovery` | 3 pools, two of them of one pair, the market that is asked for on one of these; 17k states | `TypeOK` and the five properties below |
| `no_pool_found` | as `pool_discovery` | violated: see findings |
| `raydium_call` | all kinds, 4 values per field, all options, all prefixes, 4 targets; bytes of 16 values, words of 2 bytes; 29k states | codecs and account lists |
| `packed_is_readable`, `initialize_as_documented`, `stable_swap_as_documented` | as `raydium_call` | violated: see findings |

Properties of the DCA program:

- `DepositsBacked`: the recorded owner's vault holds at least `total_amount` of
  the asset the flag names. Overwriting, flag flips, foreign lamports and failed
  calls could each break it.
- `ImplementsEscrow`: every transaction is a step of the order book or none.
- `RecordsUsable`: no blank dca account survives, although `swap_from_sol`
  creates one; a record's vault and token accounts exist. Initially there is no
  dca account.
- `WrapBacked`: the token amount of wrapped SOL stays within its lamports above
  the rent reserve.
- `PlanNotCarriedOver`: a changed deposit part means an inactive account.

`RecordsUsable` holds of the blank account only because the swap that creates it always
reverts (first finding); it fails in the variant in which the swap goes to the AMM, and
so marks what mending that finding must see to as well.

Of the sender: `AtMostOnce`; `SuccessIsReal` (while no fork was abandoned, a
transaction reported as a success succeeded, and so did those it needs, `sendTx`
having given up on them or not); `ExpiryIsFinal`; `KeepsPromise`; `Terminates`.

Of the set-up script:

- `PoolOnMarket`: without an abandoned fork nothing of the pool runs unless both
  transactions of the market succeeded. Nobody awaits them; it is `Market.load`
  that stands between.
- `DoomedStays`: once the market's transaction has failed (it overtook the first),
  or its blockhash is too old, nothing brings the market about: no retry, no late
  copy. Only a fork may take the failure back, while the blockhash lives.
- `PoolSuccessIsWhole`: without an abandoned fork, "success" for the pool's
  initialisation speaks for all four transactions, although the script went on after
  each of the others without knowing, and never asked for the market's.
- `KeepsPromise`: as for the sender. `SetupEnds`: the script ends (always by a throw).

Of the look-ups:

- `FoundIsAsked`: a pool that a search finds is initialised and has its market, and it
  is of the pair and market asked for, however stale the answers. A fetch promises none
  of this: it may return a pool that is blank.
- `BlankOnlyFetched`: keys are of an initialised pool with its own market, or they carry
  the default key as their market and come from a fetch of that pool. So no step of
  others between the two answers gives a listed pool blank keys, and the caller of a
  fetch can tell by `marketId`, and only by it.
- `AllOrNothing`: a listing that is not empty leaves out no initialised pool shown.
- `ThrowsForMarketOnly`: the search throws only for a market that the second node
  lacked; pools half set up do not disturb it. (That one missing market makes the
  whole search throw, other pools included, is what the code does.)
- `NotFoundAsShown`: if both calls were answered, "none" is what the first showed.

Of the library: `RoundTrip`, `PrefixSafe`, `TwinReads`, `CpiCovered`,
`OptionalsReadable`, `DocumentedLayout`. `TwinReads` covers every kind: the two amms
always read each other alike; farm and staking do on the kinds they number alike, and on
`Initialize`, `CreateAssociatedAccount`, `DepositV2` and `WithdrawV2` the property names
what is read instead (`TwinReading`), or that the data is refused. It compares data, not
account lists. Each property has its statement and reason
at its definition.

**Bounds.** An overwritten record needs two deposits, and telling the vaults
apart needs two senders or two dca accounts; the lamports pay for every account
of the instance and leave some to deposit, and also run out along other paths, so
every failure happens but one: no deposit of these instances overflows a vault's
balance, as no real one does, and those conjuncts matter only to the proofs (in
`two_senders` the lamports of all senders together exceed `MaxU64`, so a transfer
from outside can be refused). Amount 0 is the deposit that records without moving anything. In
`send_tx` a hash expires between two sends of one transaction, an abandoned fork
takes back a transaction whose success was reported, and both transactions are in
flight at once; `MaxSlot` and `MaxForks` bound the cluster alone. In `pool_setup`
the market's transactions land in either order, after any of the script's later
steps, or too late, and each of the four can be undone by a fork; the second try of
`sendTx` is the one that a first success, or an expired hash, meets. In
`pool_discovery` two pools of one pair tell pair and market apart, and the third
is one whose missing market makes a search for another pair throw. In
`raydium_call` a cut falls on every byte and the values set the first and the
last byte of each field apart; a base of 16 is the least power of two that holds
every tag.

**Deadlock** is not checked where the system stops by itself: a script that has
finished, a look-up that has ended, and a call that has been decoded.

**Fairness.** Safety needs none. `Terminates` and `SetupEnds` assume weak fairness
of the client (`Client`, `Script`) alone: the event loop runs what is ready, timers fire, RPC promises settle
(web3.js rejects on a failed request). Of the cluster nothing is assumed.

## 4. Findings

1. `swap_from_sol` passes `ctx.program_id` (its own id) to the builder
   (lib.rs:102), so the swap is sent to dca-anchor, which has no handler for it:
   every call reverts. Comment at lib.rs:95: "Function to swap token from sol
   (WrappedSol -> USDC)".
2. `flag` is said to be "used for swapping" (lib.rs:347); `swap_from_sol` reads
   no field of the record, and invokes a swap from SOL for a token deposit.
3. amm `pack` returns `Ok` with no bytes for reserved kinds
   (amm_instruction.rs:316), which `unpack` refuses; the stable amm's returns an
   error.
4. amm `initialize` attaches other accounts than its doc comment lists
   (amm_instruction.rs:74 and 395).
5. stable `swap_base_in` attaches no target orders and adds the model data
   (stable_instruction.rs:155 and 602).
6. A search says "No liquidity pool found for given base and quote mint."
   (liquidity-util.ts:252) when the call that lists the pools failed and the error
   was dropped (307), when the markets could not be read (387), and when the pair's
   pool is on another market than the one written into the code (247). The trace is
   one of these.

More remarks, without a run of their own: mending the first finding takes an account for
the AMM program as well, which `SwapBaseIn` (lib.rs:277) does not have; and farm
`initialize` with `reward_vault_b` alone attaches accounts of the same shape as
with `admin_authority` alone (farm_instruction.rs:188), so `OptionalsReadable`
leaves it out. `fetchPoolKeys` returns keys of a pool that is still blank
(liquidity-util.ts:464), with the default key as their market (`BlankOnlyFetched` says
how far that goes). A console line "failed" of `sendTx` may be followed by "success",
or by nothing although the transaction runs (utils.ts:590). A farm `DepositV2` handed to
the staking program is a `WithdrawV2` of the same amount, and the builders take the
program id unchecked (`TwinReads`). my-swap.ts ends with a throw even when everything
is set up, by the first finding.

## 5. Proofs

For every value of the constants that satisfies the named assumptions
(`AccountsAssumption`, `DcaAssumption`, `ClusterAssumption`,
`NeedsAssumption`, `TriesAssumption`, `SetupAssumption`, `DiscoveryAssumption`,
`WireAssumption`: amounts and rents are u64 values, the special addresses differ from
the others, the bounds are naturals, there are finitely many pools, names
of different things differ; `PoolSetup` has its four transactions and their needs; every
tag, of 0 to 12, is a byte, a word has at least one, and a `StakePoolInstruction` has
5 words or, where a u128 is aligned to 16 bytes, 6):

| theorem | says |
|---|---|
| `DcaProofs!Typed`, `NoBlankRecord`, `WrapCovered` | `Spec => []TypeOK`, `[]RecordsUsable`, `[]WrapBacked` |
| `DcaProofs!Implementation` | `Spec => ImplementsEscrow` |
| `DcaProofs!Backed` | `Spec => []DepositsBacked` |
| `DcaProofs!PlanStaysWithDeposit` | `Spec => PlanNotCarriedOver` |
| `EscrowProofs!EscrowCovered` | `EscrowSpec => []Covered`: in the abstract order book every order is covered |
| `SendTxProofs!Typed`, `RunsOnce`, `HonestSuccess` | `Spec => []TypeOK`, `[]AtMostOnce`, `[]SuccessIsReal` |
| `SendTxProofs!Expiry`, `Implementation` | `Spec => ExpiryIsFinal`, `Spec => KeepsPromise` |
| `PoolSetupProofs!SetupTyped`, `PoolNeedsMarket`, `WholePool` | `SetupSpec => []SetupTypeOK`, `[]PoolOnMarket`, `[]PoolSuccessIsWhole` |
| `PoolSetupProofs!NoRescue`, `SetupImplementation` | `SetupSpec => DoomedStays`, `SetupSpec => KeepsPromise` |
| `PoolDiscoveryProofs!Typed`, `FoundRightly`, `BlankRightly`, `NeverInPart`, `MarketMissing`, `NotFoundRightly` | `Spec => []P` for each of the six properties of `pool_discovery` |
| `RaydiumWireProofs!UnpackReadsWhatPackWrote`, `UnpackIgnoresTail` | for every program, kind and argument that fits its field, `unpack` of the packed data, with any bytes behind it, returns that kind and those arguments |
| `RaydiumCallProofs!Calls` | `Spec => []CallInv`, the inductive invariant of a call |
| `RaydiumCallProofs!CallsTyped`, `CallsRoundTrip`, `CallsPrefixSafe`, `CallsTwinReads`, `CallsCpiCovered`, `CallsOptionalsReadable`, `CallsDocumentedLayout` | `Spec => []P` for each of the seven properties of `raydium_call` |

*Dca.* The inductive invariant is `Inv == TypeOK /\ RecordsUsable /\ WrapBacked`.
Each needs the others: balances stay in range only because a transfer is checked
against the balance *after* rent; a sync keeps the amount non-negative only
because of `WrapBacked`, and `initialize_dca` may touch a record only because
`RecordsUsable` says a deposit wrote it. One lemma per action
(`DepositSolKeeps`, …) shows at once that it keeps `Inv` and maps to a step of
Escrow or a stutter; `CreditGains` is the common fact about what a deposit does
to the mapped credit. `SwapNeverRuns` is where the first finding enters: a
program that does not dispatch on the tag fails the call, so the transaction is
undone. `Backed` is then Escrow's own theorem, carried over the mapping. In Escrow the induction is that a deposit sets an amount it has just
credited, and nothing lowers a credit (`CoverKept`).

*SendTx.* `AtMostOnce` is not inductive: that two entries of one transaction are
equal needs that every copy of it carries one blockhash (`OneHash`), which needs
that `FetchHash` runs only while a transaction has none (`LoopState`).
`SuccessIsReal` needs `InOrder`: what succeeded did so no earlier than what it needs,
and that succeeded too. The order by slots is what survives a fork: taking back a
slot takes back everything that rests on it, which is also why `Abandon` is a step
of `Outcomes` (`AbandonMaps`). `Expiry` follows from `OneHash`: the only copies left
carry the expired blockhash. All of it holds for any `Needs`, so also for the three
calls of dca-anchor.ts.

*PoolSetup.* `SetupInv` is the invariant of `SendTx`, which the steps outside `sendTx`
keep as well (`SignKeeps`, `SendSignedKeeps`, `PauseKeeps`), and three parts of its
own: `Stages` (where the script is outside `sendTx`), `SharedHash` (one blockhash for
the market's two transactions) and `Seen` (what `Market.load` has shown has run).
`PoolOnMarket` then follows from `Seen` and `InOrder`, and `PoolSuccessIsWhole` from
`SuccessIsReal` and, down the chain of needs, `InOrder` (`MarketWhole`): the initialised
pool needs the market and the pool's accounts, the market needs the vaults.

*PoolDiscovery.* `Inv` relates the two answers to the chain: what a node showed as
initialised is so (`Shown`), the markets that a search asks for are those of exactly the
initialised pools shown, that of a fetch is of the pool asked for (`Asked`, which needs that an injection of 1..n into a set of n elements is
onto), each answer at an index is null or the market that the pool at that index names,
its own or the default key (`Answers`), and the listing is that (`Keys`). `Search` is the fact about `find`: the
first match, or none. The rest is reading the properties off `Inv`.

*RaydiumWire.* Data `Carries` an instruction when it starts with the tag, holds the
little endian bytes of every argument from its field's first byte on, and reaches the
end of the last field. `PackedCarries`: what `pack` writes does (the flattened sequence
has each field's bytes where the widths before it add up to, `JoinedAt`, and padding
disturbs none). `UnpackedCarrier`: from such data `unpack` returns the instruction, since
`ValueOf` undoes `LittleEndian` for a number that fits its width (`ValueOfLittleEndian`,
by division). `TablesAgree` compares the two tables of each program row by row. That a
longer sequence still carries the instruction (`CarriesOn`) is why padding and
trailing bytes are harmless; `UnpackedShort` is the comparison of lengths that refuses
the rest. The recursive functions of the module (shifts, places, joins, powers) are each
shown to exist by induction on the length before their equation is used (`ShiftsStep`,
`StartOfStep`, `JoinedStep`).

*RaydiumCall.* `CallInv` says what data, accounts and result are at each stage, as
functions of the instruction; the codec's properties then follow from the two lemmas
about carriers. `TwinReads` is `TwinReadsPacked`, for every argument: where the tables
of the two programs agree, the twin reads what was written (`TwinsWriteAlike`,
`AlikeRead`); where only the tag moved, it reads the kind that has it there (`V2Read`,
`DepositV2Read`) or knows no such tag (`UnknownRead`, `ApartRead`); a farm's
`CreateAssociatedAccount` is a buffer of zeros behind its tag (`CreateRead`); and the two
`Initialize` are compared byte by byte, one too short to be read and the other's
u128 read as a u64 by its low half (`FarmInitializeRead`, `StakingInitializeRead`). A value
tried by a run is one below `Base^width`, and so fits its field (`BelowPowerFits`). Of
the account lists, `CpiCovered`, `DocumentedLayout` and "no account twice" compare lists
element by element, for every choice of options; for `OptionalsReadable` the length of a
list already tells which options it has (`StableLengths`, `FarmLengths`), which is
exactly what fails in farm `initialize`.

Only model-checked: `Terminates` and `SetupEnds` (liveness under fairness).
Every other property of a passing run is proved as well.

## 6. Not modelled, and what is left

- The account layouts (`*_stats.rs`) and `unpack_buffer` of stable_instruction.rs:
  structs without operations, and a cast that nothing calls.
- `getLiquidityInfo`, `swap`, `createMintPair` of utils.ts: their only uses in the
  scripts are commented out.
- The set-up of dca-anchor.ts inside a library (`Dex.createCoin`, `initDexMarket`),
  and the contents of the instructions the scripts build; what a transaction needs of
  another is in `Needs`.
- `migrations/deploy.ts`, manifests and data: no behaviour of their own.

What could be added: `DcaTx`, instructions split at their calls and refining `Dca`, as
the argument that a transaction may be one action (the runtime's atomicity, outside
this repository, is assumed instead); a rerun of my-swap.ts on what an earlier run left
half made.
