-------------------------- MODULE RaydiumAccounts --------------------------
(***************************************************************************)
(* The account lists that the instruction builders of src/lib attach, in   *)
(* order: which account, whether the program may write it, whether it must *)
(* sign.  The program that runs the instruction finds its accounts by      *)
(* position.  opts is the set of optional arguments given as Some.         *)
(***************************************************************************)
EXTENDS Sequences

Meta(key, writable, signer) == [key |-> key, writable |-> writable, signer |-> signer]
R(key) == Meta(key, FALSE, FALSE)       \* AccountMeta::new_readonly(key, false)
W(key) == Meta(key, TRUE, FALSE)        \* AccountMeta::new(key, false)
RS(key) == Meta(key, FALSE, TRUE)       \* AccountMeta::new_readonly(key, true)
WS(key) == Meta(key, TRUE, TRUE)        \* AccountMeta::new(key, true)

(* The metas pushed for the optional arguments that are given.             *)
If(given, metas) == IF given THEN metas ELSE <<>>

-----------------------------------------------------------------------------
(* amm_instruction.rs                                                      *)

AmmPreInitialize ==
    <<R("spl_token"), R("system_program"), R("rent"), W("amm_target_orders"),
      W("pool_withdraw_queue"), R("amm_authority"), W("lp_mint"), R("coin_mint"),
      R("pc_mint"), W("pool_coin"), W("pool_pc"), W("pool_temp_lp"),
      R("serum_market"), WS("user_wallet")>>

AmmInitialize ==
    <<R("spl_token"), R("system_program"), R("rent"), W("amm"), R("amm_authority"),
      W("amm_open_orders"), W("lp_mint"), R("coin_mint"), R("pc_mint"), R("pool_coin"),
      R("pool_pc"), W("pool_withdraw_queue"), W("amm_target_orders"), W("pool_lp"),
      R("pool_temp_lp"), R("serum_program"), R("serum_market"), WS("user_wallet")>>

AmmDeposit ==
    <<R("spl_token"), W("amm"), R("amm_authority"), R("amm_open_orders"),
      W("amm_target_orders"), W("lp_mint"), W("pool_coin"), W("pool_pc"),
      R("serum_market"), W("user_coin"), W("user_pc"), W("user_lp"), RS("user_owner")>>

(* Variant: the dex program and its market the other way round.             *)
AmmWithdrawMarketFirst ==
    <<R("spl_token"), W("amm"), R("amm_authority"), W("amm_open_orders"),
      W("amm_target_orders"), W("lp_mint"), W("pool_coin"), W("pool_pc"),
      W("pool_withdraw_queue"), W("pool_temp_lp"), W("serum_market"),
      R("serum_program"), W("serum_coin_vault"), W("serum_pc_vault"),
      R("serum_vault_signer"), W("user_lp"), W("user_coin"), W("user_pc"),
      RS("user_owner"), W("serum_event_queue"), W("serum_bids"), W("serum_asks")>>

AmmWithdraw ==
    <<R("spl_token"), W("amm"), R("amm_authority"), W("amm_open_orders"),
      W("amm_target_orders"), W("lp_mint"), W("pool_coin"), W("pool_pc"),
      W("pool_withdraw_queue"), W("pool_temp_lp"), R("serum_program"),
      W("serum_market"), W("serum_coin_vault"), W("serum_pc_vault"),
      R("serum_vault_signer"), W("user_lp"), W("user_coin"), W("user_pc"),
      RS("user_owner"), W("serum_event_queue"), W("serum_bids"), W("serum_asks")>>

AmmSwapBaseIn ==
    <<R("spl_token"), W("amm"), R("amm_authority"), W("amm_open_orders"),
      W("amm_target_orders"), W("pool_coin"), W("pool_pc"), R("serum_program"),
      W("serum_market"), W("serum_bids"), W("serum_asks"), W("serum_event_queue"),
      W("serum_coin_vault"), W("serum_pc_vault"), R("serum_vault_signer"),
      W("user_source"), W("user_destination"), RS("user_owner")>>

AmmSwapBaseOut ==
    <<R("spl_token"), W("amm"), R("amm_authority"), W("amm_open_orders"),
      W("amm_target_orders"), W("pool_coin"), W("pool_pc"), R("serum_program"),
      W("serum_market"), W("serum_bids"), W("serum_asks"), W("serum_event_queue"),
      W("serum_coin_vault"), W("serum_pc_vault"), R("serum_vault_signer"),
      W("user_source"), W("user_destination"), RS("user_owner")>>

-----------------------------------------------------------------------------
(* stable_instruction.rs                                                   *)

StablePreInitialize ==
    <<R("spl_token"), R("system_program"), R("rent"), W("amm_target_orders"),
      R("amm_authority"), W("lp_mint"), R("coin_mint"), R("pc_mint"), W("pool_coin"),
      W("pool_pc"), R("serum_market"), WS("user_wallet")>>

StableInitialize(opts) ==
    <<R("spl_token"), R("system_program"), R("rent"), W("amm"), R("amm_authority"),
      W("amm_open_orders"), W("lp_mint"), R("coin_mint"), R("pc_mint"), R("pool_coin"),
      R("pool_pc"), W("amm_target_orders"), R("model_data"), R("serum_program"),
      R("serum_market"), W("user_lp"), WS("user_wallet")>>
    \o If("srm_token" \in opts, <<W("srm_token")>>)

StableDeposit ==
    <<R("spl_token"), W("amm"), R("amm_authority"), R("amm_open_orders"),
      W("amm_target_orders"), W("lp_mint"), W("pool_coin"), W("pool_pc"),
      R("model_data"), R("serum_market"), W("user_coin"), W("user_pc"), W("user_lp"),
      RS("user_owner")>>

(* Variant: each that is given is pushed.                                   *)
SerumOptionEach(opts) ==
    If("serum_event_queue" \in opts, <<W("serum_event_queue")>>)
    \o If("serum_bids" \in opts, <<W("serum_bids")>>)
    \o If("serum_asks" \in opts, <<W("serum_asks")>>)
(* The three serum accounts are pushed only when all three are given.      *)
SerumOption(opts) ==
    If({"serum_event_queue", "serum_bids", "serum_asks"} \subseteq opts,
       <<W("serum_event_queue"), W("serum_bids"), W("serum_asks")>>)

StableWithdraw(opts) ==
    <<R("spl_token"), W("amm"), R("amm_authority"), W("amm_open_orders"),
      W("amm_target_orders"), W("lp_mint"), W("pool_coin"), W("pool_pc"),
      R("model_data"), R("serum_program"), W("serum_market"), W("serum_coin_vault"),
      W("serum_pc_vault"), R("serum_vault_signer"), W("user_lp"), W("user_coin"),
      W("user_pc"), RS("user_owner")>>
    \o If("referrer_pc" \in opts, <<W("referrer_pc")>>)
    \o SerumOption(opts)

StableSwapBaseIn ==
    <<R("spl_token"), W("amm"), R("amm_authority"), W("amm_open_orders"),
      W("pool_coin"), W("pool_pc"), R("model_data"), R("serum_program"),
      W("serum_market"), W("serum_bids"), W("serum_asks"), W("serum_event_queue"),
      W("serum_coin_vault"), W("serum_pc_vault"), R("serum_vault_signer"),
      W("user_source"), W("user_destination"), RS("user_owner")>>

StableSwapBaseOut ==
    <<R("spl_token"), W("amm"), R("amm_authority"), W("amm_open_orders"),
      W("pool_coin"), W("pool_pc"), R("model_data"), R("serum_program"),
      W("serum_market"), W("serum_bids"), W("serum_asks"), W("serum_event_queue"),
      W("serum_coin_vault"), W("serum_pc_vault"), R("serum_vault_signer"),
      W("user_source"), W("user_destination"), RS("user_owner")>>

-----------------------------------------------------------------------------
(* farm_instruction.rs                                                     *)

FarmInitialize(opts) ==
    <<RS("owner"), WS("stake_pool"), R("authority"), R("lp_vault"),
      R("reward_vault_a"), R("clock")>>
    \o If("reward_vault_b" \in opts, <<R("reward_vault_b")>>)
    \o If("admin_authority" \in opts, <<R("admin_authority")>>)

(* The second reward's two accounts: its vault is unwrapped, so giving the *)
(* destination without the vault panics (BuilderPanics).                   *)
SecondReward(opts) ==
    If("dest_reward_token_b" \in opts,
       <<W("dest_reward_token_b"), W("vault_reward_token_b")>>)

FarmDeposit(opts) ==
    <<W("stake_pool"), R("pool_authority"), W("staker_info"), RS("staker_owner"),
      W("src_lp_token"), W("vault_lp_token"), W("dest_reward_token_a"),
      W("vault_reward_token_a"), R("clock"), R("token_program")>>
    \o SecondReward(opts)

FarmDepositV2(opts) ==
    <<W("stake_pool"), R("pool_authority"), W("staker_info"), RS("staker_owner"),
      W("src_lp_token"), W("vault_lp_token"), W("dest_reward_token_a"),
      W("vault_reward_token_a"), R("clock"), R("token_program"),
      W("dest_reward_token_b"), W("vault_reward_token_b")>>
    \o If("staker_info_v1" \in opts, <<WS("staker_info_v1")>>)

FarmWithdraw(opts) ==
    <<W("stake_pool"), R("pool_authority"), W("staker_info"), RS("staker_owner"),
      W("dest_lp_token"), W("vault_lp_token"), W("dest_reward_token_a"),
      W("vault_reward_token_a"), R("clock"), R("token_program")>>
    \o SecondReward(opts)

FarmWithdrawV2(opts) ==
    <<W("stake_pool"), R("pool_authority"), W("staker_info"), RS("staker_owner"),
      W("dest_lp_token"), W("vault_lp_token"), W("dest_reward_token_a"),
      W("vault_reward_token_a"), R("clock"), R("token_program")>>
    \o SecondReward(opts)

FarmEmergencyWithdraw ==
    <<W("stake_pool"), R("pool_authority"), W("staker_info"), RS("staker_owner"),
      W("dest_lp_token"), W("vault_lp_token"), R("token_program")>>

FarmUpdatePool == <<W("stake_pool"), W("vault_lp_token"), R("clock")>>

FarmCreateAssociatedAccount ==
    <<W("stake_pool"), W("associated_user_stake_info"), RS("owner"),
      R("system_program"), R("rent")>>

-----------------------------------------------------------------------------
(* staking_instruction.rs; it has no builder for its two V2 instructions.  *)

StakingInitialize ==
    <<WS("stake_pool"), R("authority"), R("lp_vault"), R("reward_vault"), R("clock")>>

StakingDeposit ==
    <<W("stake_pool"), R("pool_authority"), W("staker_info"), RS("staker_owner"),
      W("src_lp_token"), W("vault_lp_token"), W("dest_reward_token"),
      W("vault_reward_token"), R("clock"), R("token_program")>>

StakingWithdraw ==
    <<W("stake_pool"), R("pool_authority"), W("staker_info"), RS("staker_owner"),
      W("dest_lp_token"), W("vault_lp_token"), W("dest_reward_token"),
      W("vault_reward_token"), R("clock"), R("token_program")>>

StakingEmergencyWithdraw ==
    <<W("stake_pool"), R("pool_authority"), W("staker_info"), RS("staker_owner"),
      W("dest_lp_token"), W("vault_lp_token"), R("token_program")>>

StakingUpdatePool == <<W("stake_pool"), W("vault_lp_token"), R("clock")>>

StakingCreateAssociatedAccount ==
    <<W("stake_pool"), W("associated_user_stake_info"), RS("owner"),
      R("system_program"), R("rent")>>

-----------------------------------------------------------------------------
(* The builder of each program and kind.                                   *)
Accounts(program, kind, opts) ==
    CASE program = "amm" ->
            [PreInitialize |-> AmmPreInitialize, Initialize |-> AmmInitialize,
             Deposit |-> AmmDeposit, Withdraw |-> AmmWithdraw,
             SwapBaseIn |-> AmmSwapBaseIn, SwapBaseOut |-> AmmSwapBaseOut][kind]
      [] program = "stable" ->
            [PreInitialize |-> StablePreInitialize, Initialize |-> StableInitialize(opts),
             Deposit |-> StableDeposit, Withdraw |-> StableWithdraw(opts),
             SwapBaseIn |-> StableSwapBaseIn, SwapBaseOut |-> StableSwapBaseOut][kind]
      [] program = "farm" ->
            [Initialize |-> FarmInitialize(opts), Deposit |-> FarmDeposit(opts),
             DepositV2 |-> FarmDepositV2(opts), Withdraw |-> FarmWithdraw(opts),
             WithdrawV2 |-> FarmWithdrawV2(opts),
             EmergencyWithdraw |-> FarmEmergencyWithdraw, UpdatePool |-> FarmUpdatePool,
             CreateAssociatedAccount |-> FarmCreateAssociatedAccount][kind]
      [] program = "staking" ->
            [Initialize |-> StakingInitialize, Deposit |-> StakingDeposit,
             Withdraw |-> StakingWithdraw, DepositV2 |-> <<>>, WithdrawV2 |-> <<>>,
             EmergencyWithdraw |-> StakingEmergencyWithdraw, UpdatePool |-> StakingUpdatePool,
             CreateAssociatedAccount |-> StakingCreateAssociatedAccount][kind]

(* The optional arguments of each builder.                                 *)
Options(program, kind) ==
    CASE program = "stable" /\ kind = "Initialize" -> {"srm_token"}
      [] program = "stable" /\ kind = "Withdraw" ->
            {"referrer_pc", "serum_event_queue", "serum_bids", "serum_asks"}
      [] program = "farm" /\ kind = "Initialize" -> {"reward_vault_b", "admin_authority"}
      [] program = "farm" /\ kind = "DepositV2" -> {"staker_info_v1"}
      [] program = "farm" /\ kind \in {"Deposit", "Withdraw", "WithdrawV2"} ->
            {"dest_reward_token_b", "vault_reward_token_b"}
      [] OTHER -> {}

(* vault_reward_token_b.unwrap()                                           *)
BuilderPanics(opts) ==
    "dest_reward_token_b" \in opts /\ "vault_reward_token_b" \notin opts

-----------------------------------------------------------------------------
(* What the caller of the swap may do with the accounts it was given: the  *)
(* SwapBaseIn accounts of dca-anchor, under the builder's names.           *)
(* Variant: the event queue is not mut.                                     *)
DcaSwapAccountsQueueReadonly ==
    {W("amm"), R("amm_authority"), W("amm_open_orders"), W("amm_target_orders"),
     W("pool_coin"), W("pool_pc"), R("serum_program"), W("serum_market"),
     W("serum_bids"), W("serum_asks"), R("serum_event_queue"), W("serum_coin_vault"),
     W("serum_pc_vault"), W("serum_vault_signer"), W("user_source"),
     W("user_destination"), W("user_owner"), R("spl_token"), W("dca_account"),
     WS("sender_account"), R("system_program")}

DcaSwapAccounts ==
    {W("amm"), R("amm_authority"), W("amm_open_orders"), W("amm_target_orders"),
     W("pool_coin"), W("pool_pc"), R("serum_program"), W("serum_market"),
     W("serum_bids"), W("serum_asks"), W("serum_event_queue"), W("serum_coin_vault"),
     W("serum_pc_vault"), W("serum_vault_signer"), W("user_source"),
     W("user_destination"), W("user_owner"), R("spl_token"), W("dca_account"),
     WS("sender_account"), R("system_program")}

(* invoke_signed signs for the vault, the user_source_owner of the swap.   *)
DcaSigns == {"user_owner", "sender_account"}

=============================================================================
