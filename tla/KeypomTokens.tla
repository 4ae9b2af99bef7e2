---------------------------- MODULE KeypomTokens ----------------------------
(***************************************************************************)
(* Fungible tokens and NFTs moving in and out of a drop: the deposits the  *)
(* token contracts announce with ft_on_transfer and nft_on_transfer, and   *)
(* the funder's withdrawals with their callbacks.                          *)
(***************************************************************************)
EXTENDS KeypomClaims

CONSTANTS
    FtAmounts,   \* amounts of FTs deposited and withdrawn
    MaxFt        \* bounds the FTs sent to the contract

ASSUME FtAssumption == FtAmounts \subseteq Nat /\ MaxFt \in Nat

contract_asset_id(contract) == <<"contract", contract>>

has_asset(d, asset_id) == d \in DOMAIN asset_by_id /\ asset_id \in DOMAIN asset_by_id[d]

FtOnTransfer(contract, amount, d) ==
    LET id == contract_asset_id(contract)
    IN  /\ assert_no_global_freeze(contract)
        /\ has_asset(d, id)
        /\ ft_held[contract] + amount <= MaxFt
        /\ asset_by_id' = [asset_by_id EXCEPT ![d][id] =
                              IF @.type = "ft" THEN add_to_balance_avail(@, amount) ELSE @]
        /\ ft_held' = [ft_held EXCEPT ![contract] = @ + amount]
        /\ UNCHANGED <<registry, user_balance, fees_collected, settings, receipts, now,
                       vault, nft_held>>

\* The bug of a withdrawal that leaves the tokens available until it resolves.
ft_refund_unreserved(asset, amount) == asset

ft_refund(asset, amount) == [asset EXCEPT !.balance_avail = @ - amount]

WithdrawFtBalance(caller, d, contract, amount) ==
    LET id == contract_asset_id(contract)
    IN  /\ assert_no_global_freeze(caller)
        /\ has_asset(d, id) /\ drop_by_id[d].funder_id = caller
        /\ asset_by_id[d][id].type = "ft" /\ enough_balance(asset_by_id[d][id], amount)
        /\ from_near(1) <= vault
        /\ asset_by_id' = [asset_by_id EXCEPT ![d][id] = ft_refund(@, amount)]
        /\ Fire([kind |-> "ft_refund", drop_id |-> d,
                 promise |-> Promise(asset_by_id[d][id], amount, NoToken, from_near(1))])
        /\ vault' = vault - from_near(1)
        /\ UNCHANGED <<registry, user_balance, fees_collected, settings, now, ft_held, nft_held>>

\* The transfer runs; if it failed the callback puts the tokens back, and
\* panics when the drop has gone or no longer holds this FT.
FtResolveRefund(r, succeeded) ==
    /\ r \in DOMAIN receipts /\ receipts[r].kind = "ft_refund"
    /\ LET promise == receipts[r].promise
           d == receipts[r].drop_id
           id == contract_asset_id(promise.contract)
       IN  /\ settle(<<promise>>, IF succeeded THEN {} ELSE {1})
           /\ vault' = IF succeeded THEN vault ELSE vault + near_of(promise)
           /\ IF ~succeeded /\ has_asset(d, id) /\ asset_by_id[d][id].type = "ft"
              THEN asset_by_id' = [asset_by_id EXCEPT ![d][id] = add_to_balance_avail(@, promise.amount)]
              ELSE UNCHANGED asset_by_id
    /\ Resolve(r)
    /\ UNCHANGED <<registry, user_balance, fees_collected, settings, now>>

-----------------------------------------------------------------------------

NftOnTransfer(contract, token, sender, d) ==
    LET id == contract_asset_id(contract)
    IN  /\ assert_no_global_freeze(contract)
        /\ has_asset(d, id) /\ drop_by_id[d].funder_id = sender
        /\ <<contract, token>> \notin nft_held
        /\ nft_held' = nft_held \cup {<<contract, token>>}
        /\ IF asset_by_id[d][id].type = "nft"
           THEN /\ user_balance[sender] >= NftBytes
                /\ asset_by_id' = [asset_by_id EXCEPT ![d][id] = add_to_token_ids(@, <<token>>)]
                /\ internal_modify_user_balance(sender, -NftBytes)
           ELSE UNCHANGED <<asset_by_id, user_balance>>
        /\ UNCHANGED <<registry, fees_collected, settings, receipts, now, vault, ft_held>>

\* The bug of a withdrawal that leaves the NFTs in the drop.
nft_refund_keeping_tokens(asset, tokens) == asset

\* The token IDs among the given tokens, in their order.
only(tokens, token_ids) ==
    FoldLeft(LAMBDA kept, token : IF token \in tokens THEN Append(kept, token) ELSE kept,
             << >>, token_ids)

\* tokens: the token IDs passed, or the last ones of the drop's vector.
nft_refund(asset, tokens) == [asset EXCEPT !.token_ids = only(ToSet(@) \ tokens, @)]

WithdrawNftTokens(caller, d, contract, tokens) ==
    LET id == contract_asset_id(contract)
    IN  /\ assert_no_global_freeze(caller)
        /\ has_asset(d, id) /\ drop_by_id[d].funder_id = caller
        /\ asset_by_id[d][id].type = "nft"
        /\ tokens # {} /\ tokens \subseteq ToSet(asset_by_id[d][id].token_ids)
        /\ Cardinality(tokens) * OneYocto <= vault
        /\ asset_by_id' = [asset_by_id EXCEPT ![d][id] = nft_refund(@, tokens)]
        /\ Fire([kind |-> "nft_refund", drop_id |-> d, contract |-> contract,
                 token_ids |-> only(tokens, asset_by_id[d][id].token_ids),
                 storage_released |-> NftBytes * Cardinality(tokens)])
        /\ vault' = vault - Cardinality(tokens) * OneYocto
        /\ UNCHANGED <<registry, user_balance, fees_collected, settings, now, ft_held, nft_held>>

\* The bug of refunding the storage of NFTs that were put back.
storage_to_refund_always(receipt, put_back) == receipt.storage_released

storage_to_refund(receipt, put_back) == IF put_back THEN 0 ELSE receipt.storage_released

\* The batch of transfers runs, all or nothing.  The callback needs the drop
\* and its asset even when the transfers went through, to refund the storage.
ResolveNftRefund(r, succeeded) ==
    /\ r \in DOMAIN receipts /\ receipts[r].kind = "nft_refund"
    /\ LET receipt == receipts[r]
           d == receipt.drop_id
           id == contract_asset_id(receipt.contract)
           moved == {<<receipt.contract, token>> : token \in ToSet(receipt.token_ids)}
           put_back == ~succeeded /\ asset_by_id[d][id].type = "nft"
       IN  /\ moved \subseteq nft_held
           /\ nft_held' = IF succeeded THEN nft_held \ moved ELSE nft_held
           /\ vault' = IF succeeded THEN vault ELSE vault + Len(receipt.token_ids) * OneYocto
           /\ IF has_asset(d, id)
              THEN /\ asset_by_id' = [asset_by_id EXCEPT ![d][id] =
                          IF put_back THEN add_to_token_ids(@, receipt.token_ids) ELSE @]
                   /\ internal_modify_user_balance(drop_by_id[d].funder_id,
                          storage_to_refund(receipt, put_back))
              ELSE UNCHANGED <<asset_by_id, user_balance>>
    /\ Resolve(r)
    /\ UNCHANGED <<registry, fees_collected, settings, now, ft_held>>
=============================================================================
