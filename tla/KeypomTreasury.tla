--------------------------- MODULE KeypomTreasury ---------------------------
(***************************************************************************)
(* The contract owner's settings and fees, the funders' balances and       *)
(* metadata, and the administrators of the keys that the contract's own    *)
(* transactions are signed with.                                           *)
(***************************************************************************)
EXTENDS KeypomKeys

-----------------------------------------------------------------------------
(* The contract owner: every call asserts that its caller is ContractOwner.*)

\* What none of the owner's settings touches.
besides_settings ==
    <<registry, asset_by_id, user_balance, funder_metadata, receipts, now, holdings>>

FreezeContract ==
    /\ global_freeze' = TRUE
    /\ UNCHANGED <<besides_settings, fees_collected, root_account, fee_structure, fees_per_user,
                   signing_pks, signing_admins>>

UnfreezeContract ==
    /\ global_freeze' = FALSE
    /\ UNCHANGED <<besides_settings, fees_collected, root_account, fee_structure, fees_per_user,
                   signing_pks, signing_admins>>

SetRootAccount(account) ==
    /\ root_account' = account
    /\ UNCHANGED <<besides_settings, fees_collected, global_freeze, fee_structure, fees_per_user,
                   signing_pks, signing_admins>>

SetFees(drop_fee, key_fee) ==
    /\ fee_structure' = [per_drop |-> unwrap_or(drop_fee, fee_structure.per_drop),
                         per_key |-> unwrap_or(key_fee, fee_structure.per_key)]
    /\ UNCHANGED <<besides_settings, fees_collected, global_freeze, root_account, fees_per_user,
                   signing_pks, signing_admins>>

SetFeesPerUser(account, drop_fee, key_fee) ==
    /\ fees_per_user' = With(fees_per_user, account, [per_drop |-> drop_fee, per_key |-> key_fee])
    /\ UNCHANGED <<besides_settings, fees_collected, global_freeze, root_account, fee_structure,
                   signing_pks, signing_admins>>

FeeReceipt(amount) == [kind |-> "withdraw_fees", amount |-> amount]

WithdrawFees ==
    /\ fees_collected <= vault
    /\ fees_collected' = 0
    /\ vault' = vault - fees_collected
    /\ Fire(FeeReceipt(fees_collected))
    /\ UNCHANGED <<registry, asset_by_id, user_balance, settings, now, ft_held, nft_held>>

\* The bug of a callback that forgets the fees collected since.
fees_put_back_over(amount) == amount

fees_put_back(amount) == fees_collected + amount

\* The transfer runs; what did not arrive is back with the contract.
OnWithdrawFees(r, succeeded) ==
    /\ r \in DOMAIN receipts /\ receipts[r].kind = "withdraw_fees"
    /\ IF succeeded
       THEN UNCHANGED <<fees_collected, vault>>
       ELSE /\ fees_collected' = fees_put_back(receipts[r].amount)
            /\ vault' = vault + receipts[r].amount
    /\ Resolve(r)
    /\ UNCHANGED <<registry, asset_by_id, user_balance, settings, now, ft_held, nft_held>>

-----------------------------------------------------------------------------
(* The funders' balances and metadata.                                     *)

AddToBalance(caller, deposit) ==
    /\ assert_no_global_freeze(caller)
    /\ vault + deposit <= MaxVault
    /\ internal_modify_user_balance(caller, deposit)
    /\ vault' = vault + deposit
    /\ UNCHANGED <<registry, asset_by_id, fees_collected, settings, receipts, now,
                   ft_held, nft_held>>

\* An amount above the balance is not cut down to it: the call succeeds and
\* changes nothing, so such a call is no step here.
WithdrawFromBalance(caller, amount_to_withdraw) ==
    LET amount == unwrap_or(amount_to_withdraw, user_balance[caller])
    IN  /\ assert_no_global_freeze(caller)
        /\ amount <= user_balance[caller] /\ amount > 0
        /\ amount <= vault
        /\ internal_modify_user_balance(caller, -amount)
        /\ vault' = vault - amount
        /\ UNCHANGED <<registry, asset_by_id, fees_collected, settings, receipts, now,
                       ft_held, nft_held>>

SetFunderMetadata(caller, metadata, deposit) ==
    /\ assert_no_global_freeze(caller)
    /\ internal_modify_user_metadata(caller, metadata)
    /\ refund_excess(caller, charge_for_metadata(purse_of(caller, deposit), metadata), deposit, FALSE)
    /\ UNCHANGED <<registry, asset_by_id, fees_collected, chosen_settings, receipts, now,
                   ft_held, nft_held>>

-----------------------------------------------------------------------------
(* The signing keys.  A key added here may sign, but gets no access key to *)
(* the contract's account: only new gives those out.                       *)

besides_signing ==
    <<besides_settings, fees_collected, global_freeze, root_account, fee_structure, fees_per_user>>

AddSigningAdmin(account) ==
    /\ signing_admins' = signing_admins \cup {account}
    /\ UNCHANGED <<besides_signing, signing_pks>>

AddSigningPks(caller, public_keys) ==
    /\ caller \in signing_admins
    /\ signing_pks' = signing_pks \cup public_keys
    /\ UNCHANGED <<besides_signing, signing_admins>>

RemoveSigningPks(caller, public_keys) ==
    /\ caller \in signing_admins
    /\ signing_pks' = signing_pks \ public_keys
    /\ UNCHANGED <<besides_signing, signing_admins>>
=============================================================================
