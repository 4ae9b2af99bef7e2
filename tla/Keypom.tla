------------------------------- MODULE Keypom -------------------------------
(***************************************************************************)
(* The Keypom contract: every operation of the modules below composed into *)
(* one specification.                                                      *)
(***************************************************************************)
EXTENDS KeypomTreasury

CONSTANTS
    KeepEmptyChoices,  \* values of keep_empty_drop in delete_keys
    Withdrawals,       \* amount_to_withdraw of withdraw_from_balance: a set of Options
    MetadataChoices,   \* metadata of set_funder_metadata and create_drop_batch: Options
    OnSuccessChoices,  \* on_success of create_drop_batch: Options of its deposit
    Freezable,         \* does the contract owner freeze the contract?
    FeeChoices,        \* the fees the contract owner sets: a set of Options
    UserFees,          \* the fees per drop and key the contract owner sets for a funder
    Roots,             \* the root accounts the contract owner sets
    SigningAdminChoices, SigningPkChoices   \* what signing_admins and signing_pks are changed with

ASSUME TransfersAssumption ==
    /\ Receivers \subseteq {None} \cup {Some(a) : a \in Accounts}
    /\ Approvers \subseteq Accounts /\ MaxApprovals \in Nat

ASSUME FeesAssumption ==
    /\ UserFees \subseteq Nat
    /\ \A fee \in FeeChoices : fee = None \/ unwrap(fee) \in Nat

\* Each is nothing or an amount.
ASSUME OptionsAssumption ==
    \A option \in Withdrawals \cup MetadataChoices \cup OnSuccessChoices :
        option = None \/ (option = Some(unwrap(option)) /\ unwrap(option) \in Nat)

\* Time passes between blocks.
Tick ==
    /\ now < MaxTime
    /\ now' = now + 1
    /\ UNCHANGED <<registry, asset_by_id, user_balance, fees_collected, settings, receipts,
                   holdings>>

-----------------------------------------------------------------------------
(* The specification.                                                      *)

Senders == Accounts \cup {KeypomAccount}

DropCall(caller) ==
    \/ \E d \in DropIds, shape \in Shapes, key_data \in KeyData, deposit \in Deposits,
          keep \in KeepChoices :
          caller \in Funders /\ CreateDrop(caller, d, shape, key_data, deposit, keep)
    \/ \E d \in DropIds, key_data \in KeyData, deposit \in Deposits, keep \in KeepChoices :
          AddKeys(caller, d, key_data, deposit, keep)
    \/ \E d \in DropIds, keep_empty_drop \in KeepEmptyChoices :
          \E pks \in SUBSET DOMAIN token_id_by_pk : DeleteKeys(caller, d, pks, keep_empty_drop)
    \/ \E batch \in Batches, deposit \in Deposits, keep \in KeepChoices,
          metadata \in {None} \cup MetadataChoices, on_success \in OnSuccessChoices,
          call_fails \in BOOLEAN :
          /\ caller \in Funders
          /\ CreateDropBatch(caller, batch, deposit, keep, metadata, on_success, call_fails)

BalanceCall(caller) ==
    \/ \E deposit \in Deposits \ {0} : AddToBalance(caller, deposit)
    \/ \E amount_to_withdraw \in Withdrawals : WithdrawFromBalance(caller, amount_to_withdraw)
    \/ \E metadata \in MetadataChoices, deposit \in Deposits :
          SetFunderMetadata(caller, metadata, deposit)

FunderStep == \E caller \in Accounts : DropCall(caller) \/ BalanceCall(caller)

\* Arguments are passed when the use has calls that could take them.
FcArgsFor(pk) ==
    LET t == token_id_by_pk[pk]
        drop == drop_by_id[parse_token_id(t)]
        metadata == get_asset_data_for_specific_use(drop.asset_data_for_uses,
                        get_key_cur_use(drop, key_info_by_token_id[t])).assets_metadata
    IN  {None} \cup IF \E i \in DOMAIN metadata : is_fc_asset_id(metadata[i].asset_id)
                    THEN FcArgsChoices ELSE {}

\* What a claim of pk hands out now.
assets_of_claim(pk, fc_args) ==
    assets_of_last_use(token_id_by_pk[pk], keys_after_claim(pk), fc_args)

\* Whichever steps of the promises that run with the claim are lost.
ClaimStep ==
    \/ \E pk \in DOMAIN token_id_by_pk : \E fc_args \in FcArgsFor(pk) :
          \E lost \in SUBSET detached_steps(assets_of_claim(pk, fc_args)) : Claim(pk, fc_args, lost)
    \/ \E pk \in DOMAIN token_id_by_pk : \E fc_args \in FcArgsFor(pk) :
          CreateAccountAndClaim(pk, fc_args)

TokenStep ==
    \/ \E c \in FtContracts, amount \in FtAmounts, d \in DropIds : FtOnTransfer(c, amount, d)
    \/ \E caller \in Accounts, d \in DropIds, c \in FtContracts, amount \in FtAmounts :
          WithdrawFtBalance(caller, d, c, amount)
    \/ \E c \in NftContracts, token \in NftTokens, sender \in Accounts, d \in DropIds :
          NftOnTransfer(c, token, sender, d)
    \/ \E caller \in Accounts, d \in DropIds, c \in NftContracts, tokens \in SUBSET NftTokens :
          WithdrawNftTokens(caller, d, c, tokens)

KeyStep ==
    \/ \E sender \in Senders, pk \in DOMAIN token_id_by_pk, receiver \in Receivers,
          approval_id \in ApprovalIds, new_pk \in PublicKeys :
          \/ NftTransfer(sender, pk, receiver, approval_id, new_pk)
          \/ \E balance \in Prices, max_len_payout \in MaxLenPayouts :
                NftTransferPayout(sender, pk, receiver, approval_id, new_pk, balance, max_len_payout)
    \/ \E sender \in Senders, pk \in DOMAIN token_id_by_pk, account \in Approvers :
          NftApprove(sender, pk, account)

\* A promise in flight runs and its callback with it, or right after it.
Callback(r) ==
    \/ OnAccountCreationFailed(r)
    \/ OnNewAccountCreatedPanics(r)
    \/ /\ claim_in_flight(r, "create_account") /\ callback_finds_key(r)
       /\ \E lost \in SUBSET detached_steps(assets_for(receipts[r])) : OnNewAccountCreated(r, lost)
    \/ /\ claim_in_flight(r, "claim")
       /\ \E lost \in SUBSET DOMAIN receipts[r].promise.deposits : OnAssetsClaimed(r, lost)
    \/ \E succeeded \in BOOLEAN : FtResolveRefund(r, succeeded)
    \/ \E succeeded \in BOOLEAN : ResolveNftRefund(r, succeeded)
    \/ \E succeeded \in BOOLEAN : OnWithdrawFees(r, succeeded)

OwnerStep ==
    \/ Freezable /\ FreezeContract
    \/ Freezable /\ UnfreezeContract
    \/ \E account \in Roots : SetRootAccount(account)
    \/ \E drop_fee, key_fee \in FeeChoices : SetFees(drop_fee, key_fee)
    \/ \E account \in Funders, drop_fee, key_fee \in UserFees :
          SetFeesPerUser(account, drop_fee, key_fee)
    \/ FeeChoices # {} /\ WithdrawFees

\* The contract's own account, and the administrators it names.
AdminStep ==
    \/ \E account \in SigningAdminChoices : AddSigningAdmin(account)
    \/ \E caller \in Accounts, public_keys \in SigningPkChoices : AddSigningPks(caller, public_keys)
    \/ \E caller \in Accounts, public_keys \in SigningPkChoices :
          RemoveSigningPks(caller, public_keys)

Next ==
    \/ FunderStep
    \/ ClaimStep
    \/ TokenStep
    \/ KeyStep
    \/ \E r \in DOMAIN receipts : Callback(r)
    \/ OwnerStep
    \/ AdminStep
    \/ Tick

Spec == Init /\ [][Next]_vars

\* A promise that was fired is executed and its callback called: the chain
\* delivers every receipt.  Nothing else has to happen.
FairSpec == Spec /\ \A r \in ReceiptIds : WF_vars(r \in DOMAIN receipts /\ Callback(r))
=============================================================================
