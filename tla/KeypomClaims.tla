---------------------------- MODULE KeypomClaims ----------------------------
(***************************************************************************)
(* Using a key.  claim hands the assets of the key's current use to an     *)
(* existing account in one receipt; create_account_and_claim first has the *)
(* root account create the claimer's account and hands the assets out in   *)
(* the callback.  on_assets_claimed then sees how a transfer went, gives   *)
(* back what failed and removes a depleted key, and the drop when nothing  *)
(* is left in it.                                                          *)
(*                                                                         *)
(* internal_claim_assets collects Option<Promise>s and combines them with  *)
(* reduce(|a, b| a.and(b)), which is Option::and: when every asset gave a  *)
(* promise, only the last one is awaited by the callback and the others    *)
(* run detached; when some asset gave none, all promises run detached and  *)
(* the callback runs at once, with the promise results of the receipt that *)
(* is executing - none for claim, that of create_account otherwise.        *)
(***************************************************************************)
EXTENDS KeypomDrops

CONSTANT FcArgsChoices   \* fc_args of a claim: a set of Options, for each FC asset of the use

-----------------------------------------------------------------------------
(* before_claim_logic                                                      *)

\* verify_signature raises the nonce of the message just verified; then one
\* use is taken.
verify_signature(key_info) == [key_info EXCEPT !.message_nonce = @ + 1]

spend_use(key_info) ==
    [verify_signature(key_info) EXCEPT !.remaining_uses = @ - 1, !.last_claimed = now]

assert_pre_claim_conditions(drop, key_info, creating_account) ==
    LET config == get_asset_data_for_specific_use(
                      drop.asset_data_for_uses, get_key_cur_use(drop, key_info)).config
    IN  /\ \A permission \in config.permissions :
              permission = IF creating_account THEN "create_account_and_claim" ELSE "claim"
        /\ claim_timestamps_ok(config, key_info.last_claimed,
                               drop.max_key_uses - key_info.remaining_uses, now)

\* Claims are transactions of the contract's own account, so the key that
\* signs them also has to be an access key, and only new gives those out.
assert_contract_key == signing_pks \cap SigningPks # {}

claim_conditions(pk, creating_account) ==
    /\ assert_no_global_freeze(KeypomAccount)
    /\ assert_contract_key
    /\ pk \in DOMAIN token_id_by_pk
    /\ LET t == token_id_by_pk[pk]
       IN  assert_pre_claim_conditions(
               drop_by_id[parse_token_id(t)], key_info_by_token_id[t], creating_account)

\* The key info with one use of pk's key taken.
keys_after_claim(pk) ==
    [key_info_by_token_id EXCEPT ![token_id_by_pk[pk]] = spend_use(@)]

\* A key that gave its last use can no longer be looked up; its info stays
\* for the callbacks.
unlink_depleted_key(pk) ==
    LET t == token_id_by_pk[pk]
    IN  IF keys_after_claim(pk)[t].remaining_uses = 0
        THEN token_id_by_pk' = Without(token_id_by_pk, {pk}) /\ internal_remove_tokens_from_owners({t})
        ELSE UNCHANGED <<token_id_by_pk, tokens_per_owner>>

-----------------------------------------------------------------------------
(* handle_key_cleanup, called at the end of a claim.                       *)

\* The bug of a drop that is removed whatever is left in it.
drop_is_finished_ignoring_assets(drop, keys_left, assets_withdrawn) ==
    keys_left = {} /\ drop.config.delete_empty_drop

\* The bug of reading the drop's flag the wrong way round.
drop_is_finished_unless_wanted(drop, keys_left, assets_withdrawn) ==
    keys_left = {} /\ assets_withdrawn /\ ~drop.config.delete_empty_drop

drop_is_finished(drop, keys_left, assets_withdrawn) ==
    keys_left = {} /\ assets_withdrawn /\ drop.config.delete_empty_drop

nft_bytes(assets) ==
    NftBytes * SumFunction([a \in DOMAIN assets |-> Len(assets[a].token_ids)])

\* keys, assets: key infos and the drop's assets as the callback leaves them;
\* refund: what goes to the funder besides the storage; added: storage taken
\* earlier in the callback.
handle_key_cleanup(t, keys, assets, assets_withdrawn, refund, added) ==
    LET d == parse_token_id(t)
        drop == drop_by_id[d]
        depleted == keys[t].remaining_uses = 0
        keys_left == KeysOf(keys, d) \ {t}
        remove_drop == depleted /\ drop_is_finished(drop, keys_left, assets_withdrawn)
        freed == (IF depleted THEN KeyBytes ELSE 0)
                 + (IF remove_drop THEN DropBytes + nft_bytes(assets) ELSE 0) - added
    IN  /\ key_info_by_token_id' = IF depleted THEN Without(keys, {t}) ELSE keys
        /\ IF remove_drop
           THEN /\ drop_by_id' = Without(drop_by_id, {d})
                /\ asset_by_id' = Without(asset_by_id, {d})
                /\ internal_remove_drop_for_funder(drop.funder_id, d)
           ELSE /\ asset_by_id' = [asset_by_id EXCEPT ![d] = assets]
                /\ UNCHANGED <<drop_by_id, drop_ids_by_funder>>
        /\ internal_modify_user_balance(drop.funder_id, refund + IF freed > 0 THEN freed ELSE 0)

-----------------------------------------------------------------------------
(* on_assets_claimed: results holds the outcome of each promise the        *)
(* callback can see (at most one), and is read along the assets of the use.*)

on_assets_claimed(t, keys, assets, token_ids, results) ==
    LET d == parse_token_id(t)
        metadata == last_use_data(drop_by_id[d], keys[t]).assets_metadata
        seen == {i \in DOMAIN results : ~is_fc_asset_id(metadata[i].asset_id)}
        failed == {i \in seen : ~results[i]}
        undone(i) == on_failed_claim(assets[metadata[i].asset_id], metadata[i].tokens_per_use,
                                     token_ids[i])
        updated == [a \in DOMAIN assets |->
                       IF \E i \in failed : metadata[i].asset_id = a
                       THEN undone(CHOOSE i \in failed : metadata[i].asset_id = a).asset
                       ELSE assets[a]]
    IN  handle_key_cleanup(t, keys, updated,
            \A i \in seen : is_empty(updated[metadata[i].asset_id]),
            SumFunction([i \in failed |-> undone(i).refund]),
            nft_bytes(updated) - nft_bytes(assets))

\* The callback finds the drop, the key and the asset it has a result for.
on_assets_claimed_defined(t, token_ids, succeeded) ==
    /\ parse_token_id(t) \in DOMAIN drop_by_id
    /\ t \in DOMAIN key_info_by_token_id
    /\ LET metadata == last_use_data(drop_by_id[parse_token_id(t)],
                                     key_info_by_token_id[t]).assets_metadata
           asset == asset_by_id[parse_token_id(t)][metadata[1].asset_id]
       IN  /\ metadata # << >>
           /\ (~succeeded /\ asset.type = "nft") => token_ids[1] # None

-----------------------------------------------------------------------------
(* internal_claim_assets                                                   *)

\* Claim the assets of one use in order.
claim_all(assets, metadata, fc_args) ==
    LET given(idx) == IF fc_args # None /\ idx \in DOMAIN unwrap(fc_args)
                      THEN unwrap(fc_args)[idx] ELSE None
        fcs_in(acc) ==
            Cardinality({i \in DOMAIN acc.promises : is_fc_asset_id(metadata[i].asset_id)})
        claim_one(acc, m) ==
            LET asset == acc.assets[m.asset_id]
                claimed == claim_asset(asset, m.tokens_per_use, given(fcs_in(acc) + 1))
            IN  [assets |-> [acc.assets EXCEPT ![m.asset_id] = claimed.asset],
                 token_ids |-> Append(acc.token_ids, get_next_token_id(asset)),
                 promises |-> Append(acc.promises, claimed.promise)]
    IN  FoldLeft(claim_one, [assets |-> assets, token_ids |-> << >>, promises |-> << >>], metadata)

assets_of_last_use(t, keys, fc_args) ==
    LET d == parse_token_id(t)
    IN  claim_all(asset_by_id[d], last_use_data(drop_by_id[d], keys[t]).assets_metadata, fc_args)

fired_promises(claimed) ==
    FoldLeft(LAMBDA fired, p : IF p = None THEN fired ELSE Append(fired, unwrap(p)),
             << >>, claimed.promises)

\* Option::and over the promises leaves the last one, if none is missing.
is_awaited(claimed) == \A i \in DOMAIN claimed.promises : claimed.promises[i] # None

\* The panics of internal_claim_assets: no asset in the use, the deposit of a
\* promise that overflows, or more NEAR attached than the contract has.
internal_claim_assets_defined(t, keys, claimed) ==
    LET d == parse_token_id(t)
        metadata == last_use_data(drop_by_id[d], keys[t]).assets_metadata
    IN  /\ metadata # << >>
        /\ \A i \in DOMAIN metadata :
              claim_asset_defined(asset_by_id[d][metadata[i].asset_id], claimed.promises[i])
        /\ near_attached(fired_promises(claimed)) <= vault

ClaimReceipt(t, use, claimed) ==
    [kind |-> "claim", token_id |-> t, use |-> use,
     promise |-> Last(fired_promises(claimed)), token_ids |-> claimed.token_ids]

\* The promises no callback waits for.  Nothing of the contract depends on
\* when they run, so they run with the claim.
detached_promises(claimed) ==
    IF is_awaited(claimed) THEN Front(fired_promises(claimed)) ELSE fired_promises(claimed)

\* lost: which steps of which promises fail, as pairs <<promise, step>>.
lost_steps(promises, i, lost) == {k \in DOMAIN promises[i].deposits : <<i, k>> \in lost}
lost_promises(promises, lost) ==
    {i \in DOMAIN promises : has_failed(promises[i], lost_steps(promises, i, lost))}
near_lost(promises, lost) ==
    SumFunction([i \in DOMAIN promises |-> near_back(promises[i], lost_steps(promises, i, lost))])

\* The steps of the promises no callback waits for: any of them may fail.
detached_steps(claimed) ==
    LET detached == detached_promises(claimed)
    IN  UNION {{i} \X DOMAIN detached[i].deposits : i \in DOMAIN detached}

\* claimed: the assets of the key's last use as claim_all leaves them.
internal_claim_assets(t, keys, claimed, results, lost) ==
    LET detached == detached_promises(claimed)
    IN  /\ lost \subseteq detached_steps(claimed)
        /\ settle(detached, lost_promises(detached, lost))
        /\ vault' = vault - near_attached(fired_promises(claimed)) + near_lost(detached, lost)
        /\ IF is_awaited(claimed)
           THEN /\ key_info_by_token_id' = keys
                /\ asset_by_id' = [asset_by_id EXCEPT ![parse_token_id(t)] = claimed.assets]
                /\ UNCHANGED <<drop_by_id, drop_ids_by_funder, user_balance>>
           ELSE on_assets_claimed(t, keys, claimed.assets, claimed.token_ids, results)

-----------------------------------------------------------------------------
(* The entry points.  use is a history field: the use before_claim_logic   *)
(* took from the key, which the code does not pass on.                     *)

\* claim, with the assets it hands out.
claim_of(t, keys, use, claimed, lost) ==
    /\ internal_claim_assets_defined(t, keys, claimed)
    /\ internal_claim_assets(t, keys, claimed, << >>, lost)
    /\ IF is_awaited(claimed) THEN Fire(ClaimReceipt(t, use, claimed)) ELSE UNCHANGED receipts

Claim(pk, fc_args, lost) ==
    /\ claim_conditions(pk, FALSE)
    /\ unlink_depleted_key(pk)
    /\ LET t == token_id_by_pk[pk]
           keys == keys_after_claim(pk)
           use == get_key_cur_use(drop_by_id[parse_token_id(t)], key_info_by_token_id[t])
       IN  claim_of(t, keys, use, assets_of_last_use(t, keys, fc_args), lost)
    /\ UNCHANGED <<fees_collected, settings, now>>

\* A use may have accounts created by a root account of its own.
root_account_for(drop, use) ==
    unwrap_or(get_asset_data_for_specific_use(drop.asset_data_for_uses, use).config.root_account_id,
              root_account)

CreateAccountAndClaim(pk, fc_args) ==
    /\ claim_conditions(pk, TRUE)
    /\ LET t == token_id_by_pk[pk]
           drop == drop_by_id[parse_token_id(t)]
           use == get_key_cur_use(drop, key_info_by_token_id[t])
       IN  Fire([kind |-> "create_account", token_id |-> t, use |-> use, fc_args |-> fc_args,
                 root |-> root_account_for(drop, use)])
    /\ unlink_depleted_key(pk)
    /\ key_info_by_token_id' = keys_after_claim(pk)
    /\ UNCHANGED <<drop_by_id, asset_by_id, drop_ids_by_funder, user_balance, fees_collected,
                   settings, now, holdings>>

-----------------------------------------------------------------------------
(* The callbacks.  One that panics ends its receipt and changes nothing.   *)

CallbackPanics(r) ==
    Resolve(r) /\ UNCHANGED <<registry, asset_by_id, user_balance, fees_collected, settings,
                              now, holdings>>

claim_in_flight(r, kind) == r \in DOMAIN receipts /\ receipts[r].kind = kind

callback_finds_key(r) ==
    /\ parse_token_id(receipts[r].token_id) \in DOMAIN drop_by_id
    /\ receipts[r].token_id \in DOMAIN key_info_by_token_id

\* The account was created: hand out the assets.
hand_out(r, claimed, lost) ==
    LET t == receipts[r].token_id
    IN  /\ internal_claim_assets_defined(t, key_info_by_token_id, claimed)
        /\ internal_claim_assets(t, key_info_by_token_id, claimed, <<TRUE>>, lost)
        /\ receipts' = IF is_awaited(claimed)
                       THEN [receipts EXCEPT ![r] = ClaimReceipt(t, receipts[r].use, claimed)]
                       ELSE Without(receipts, {r})

\* What a claim that waits for its account hands out.
assets_for(receipt) == assets_of_last_use(receipt.token_id, key_info_by_token_id, receipt.fc_args)

OnNewAccountCreated(r, lost) ==
    /\ claim_in_flight(r, "create_account")
    /\ callback_finds_key(r)
    /\ hand_out(r, assets_for(receipts[r]), lost)
    /\ UNCHANGED <<token_id_by_pk, tokens_per_owner, fees_collected, settings, now>>

\* The bug of a failed creation that leaves the depleted key behind.
OnAccountCreationFailed_without_cleanup(r) ==
    /\ claim_in_flight(r, "create_account")
    /\ callback_finds_key(r)
    /\ Resolve(r)
    /\ UNCHANGED <<registry, asset_by_id, user_balance, fees_collected, settings, now, holdings>>

\* The account was not created: what the use would have cost goes back.
OnAccountCreationFailed(r) ==
    /\ claim_in_flight(r, "create_account")
    /\ callback_finds_key(r)
    /\ LET t == receipts[r].token_id
           d == parse_token_id(t)
           metadata == last_use_data(drop_by_id[d], key_info_by_token_id[t]).assets_metadata
       IN  handle_key_cleanup(t, key_info_by_token_id, asset_by_id[d],
               all_assets_empty(asset_by_id[d]), cost_of_use(asset_by_id[d], metadata), 0)
    /\ Resolve(r)
    /\ UNCHANGED <<token_id_by_pk, tokens_per_owner, fees_collected, settings, now, holdings>>

OnNewAccountCreatedPanics(r) ==
    /\ claim_in_flight(r, "create_account")
    /\ callback_finds_key(r) =>
          ~internal_claim_assets_defined(receipts[r].token_id, key_info_by_token_id,
                                         assets_for(receipts[r]))
    /\ CallbackPanics(r)

\* The awaited promise runs, with some of its steps lost, and then its
\* callback.
OnAssetsClaimed(r, lost) ==
    /\ claim_in_flight(r, "claim")
    /\ lost \subseteq DOMAIN receipts[r].promise.deposits
    /\ LET t == receipts[r].token_id
           promise == receipts[r].promise
           succeeded == ~has_failed(promise, lost)
       IN  /\ settle(<<promise>>, IF succeeded THEN {} ELSE {1})
           /\ vault' = vault + near_back(promise, lost)
           /\ IF on_assets_claimed_defined(t, receipts[r].token_ids, succeeded)
              THEN on_assets_claimed(t, key_info_by_token_id, asset_by_id[parse_token_id(t)],
                                     receipts[r].token_ids, <<succeeded>>)
              ELSE UNCHANGED <<drop_by_id, asset_by_id, key_info_by_token_id, drop_ids_by_funder,
                               user_balance>>
    /\ Resolve(r)
    /\ UNCHANGED <<token_id_by_pk, tokens_per_owner, fees_collected, settings, now>>
=============================================================================
