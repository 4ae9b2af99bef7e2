----------------------------- MODULE KeypomDrops -----------------------------
(***************************************************************************)
(* Creating drops, adding keys to them and deleting keys and drops, with   *)
(* what they cost and refund.                                              *)
(***************************************************************************)
EXTENDS KeypomState

CONSTANTS
    Shapes,        \* what create_drop is called with: asset data and configuration
    Funders,       \* the accounts that create drops
    KeyOwners,     \* the owners new keys may have: a set of Options
    KeyBatches,    \* how many keys one call brings
    Deposits,      \* the deposits attached to a call
    KeepChoices,   \* values of keep_excess_deposit
    Batches        \* what create_drop_batch is called with: sequences of drop IDs and shapes

ASSUME ShapesAssumption ==
    \A shape \in Shapes : max_key_uses(shape.asset_data) \in Nat \ {0}

\* The asset data and its parts are vectors, amounts are unsigned.
ASSUME AssetsAssumption ==
    \A shape \in Shapes :
        /\ shape.asset_data \in Seq(ToSet(shape.asset_data))
        /\ \A group \in ToSet(shape.asset_data) :
              /\ group.uses \in Nat /\ group.assets \in Seq(ToSet(group.assets))
              /\ \A asset \in ToSet(group.assets) :
                    /\ asset.type \in AssetTypes /\ asset.amount \in Nat /\ asset.cost \in Nat
                    /\ asset.methods \in Seq(ToSet(asset.methods))
                    /\ \A method \in ToSet(asset.methods) : method.attached_deposit \in Nat

\* The arguments of a method are a text.
ASSUME ArgsAssumption ==
    \A shape \in Shapes : \A group \in ToSet(shape.asset_data) : \A asset \in ToSet(group.assets) :
        \A method \in ToSet(asset.methods) :
            method.args = None \/ method.args = Some(unwrap(method.args))

ASSUME AccountsAssumption ==
    /\ Funders \subseteq Accounts
    /\ KeyOwners \subseteq {None} \cup {Some(a) : a \in Accounts}
    /\ KeyBatches \subseteq Nat /\ Deposits \subseteq Nat

ASSUME BatchesAssumption ==
    \A batch \in Batches : batch \in Seq([drop_id : DropIds, shape : Shapes])

\* The vectors of ExtKeyData a caller may pass: n keys with their owners.
KeyData == UNION {[1 .. n -> [public_key : PublicKeys, key_owner : KeyOwners]] : n \in KeyBatches}

NewKeyInfo(data, uses) ==
    [pub_key |-> data.public_key, owner_id |-> data.key_owner, remaining_uses |-> uses,
     message_nonce |-> 0, last_claimed |-> 0,
     approved_account_ids |-> EmptyMap, next_approval_id |-> 0]

\* The bug of an owner set that takes in every new key.
owners_of_added_keys_wrong(new, data) ==
    tokens_per_owner' = [a \in Accounts |-> tokens_per_owner[a] \cup new]

owners_of_added_keys(new, data) ==
    tokens_per_owner' =
        [a \in Accounts |-> tokens_per_owner[a] \cup {t \in new : data[t].key_owner = Some(a)}]

internal_add_keys_to_account(d, next_key_id, uses, key_data) ==
    LET new == {<<d, k>> : k \in next_key_id .. next_key_id + Len(key_data) - 1}
        data == [t \in new |-> key_data[t[2] - next_key_id + 1]]
        mapped == DOMAIN token_id_by_pk
    IN  /\ next_key_id + Len(key_data) <= MaxKeyId
        /\ \A t \in new : data[t].public_key \notin mapped
        /\ \A t, u \in new : data[t].public_key = data[u].public_key => t = u
        /\ token_id_by_pk' =
              [pk \in mapped \cup {data[t].public_key : t \in new} |->
                  IF pk \in mapped THEN token_id_by_pk[pk]
                  ELSE CHOOSE t \in new : data[t].public_key = pk]
        /\ key_info_by_token_id' =
              [t \in DOMAIN key_info_by_token_id \cup new |->
                  IF t \in new THEN NewKeyInfo(data[t], uses) ELSE key_info_by_token_id[t]]
        /\ owners_of_added_keys(new, data)

-----------------------------------------------------------------------------

asset_data_for_uses(shape) ==
    [g \in DOMAIN shape.asset_data |-> InternalAssetDataForUses(shape.asset_data[g])]

\* create_drop refuses an interval without a start.
ASSUME TimesAssumption ==
    \A shape \in Shapes : \A use \in 1 .. max_key_uses(shape.asset_data) :
        \A time \in get_asset_data_for_specific_use(asset_data_for_uses(shape), use).config.time :
            \A interval \in time.interval :
                interval \in Nat /\ time.start # None /\ unwrap(time.start) \in Nat

NewDropOf(caller, shape, num_keys) ==
    [funder_id |-> caller, max_key_uses |-> max_key_uses(shape.asset_data),
     asset_data_for_uses |-> asset_data_for_uses(shape), next_key_id |-> num_keys,
     config |-> shape.config]

CreateDrop(caller, d, shape, key_data, deposit, keep) ==
    LET uses == max_key_uses(shape.asset_data)
        assets == store_assets_by_id(shape.asset_data)
        data == asset_data_for_uses(shape)
        num_keys == Len(key_data)
    IN  /\ assert_no_global_freeze(caller)
        /\ d \notin DOMAIN drop_by_id
        /\ total_costs_defined(uses, data, now)
        /\ internal_add_keys_to_account(d, 0, uses, key_data)
        /\ drop_by_id' = With(drop_by_id, d, NewDropOf(caller, shape, num_keys))
        /\ asset_by_id' = With(asset_by_id, d, assets)
        /\ drop_ids_by_funder' = [drop_ids_by_funder EXCEPT ![caller] = @ \cup {d}]
        /\ fees_collected' = fees_collected + total_fees(caller, num_keys, 1)
        /\ refund_excess(caller,
               determine_costs(caller, purse_of(caller, deposit), num_keys, 1,
                               get_total_costs_for_key(uses, assets, data),
                               DropBytes + num_keys * (KeyBytes + PkBytes)),
               deposit, keep)
        /\ UNCHANGED <<settings, receipts, now, ft_held, nft_held>>

-----------------------------------------------------------------------------
(* Drops in batches, which come without keys.                              *)

\* The bug of a deposit that pays for every drop anew.
charge_drops_with_full_deposit(caller, deposit, batch) ==
    FoldLeft(LAMBDA purse, entry :
                 LET left == determine_costs(caller, purse, 0, 1, 0, DropBytes)
                 IN  [left EXCEPT !.deposit = IF @ > 0 THEN purse.deposit ELSE 0],
             purse_of(caller, deposit), batch)

\* What a drop leaves of the deposit is there for the next one.
charge_drops(caller, deposit, batch) ==
    FoldLeft(LAMBDA purse, entry : determine_costs(caller, purse, 0, 1, 0, DropBytes),
             purse_of(caller, deposit), batch)

\* on_success: the deposit of a call that is made if enough is left, and
\* not made when nothing is left, even for a deposit of zero.
calls_on_success(purse, on_success) ==
    on_success # None /\ purse.deposit > 0 /\ purse.deposit >= unwrap(on_success)

\* call_fails: the call has no callback, and what it carried comes back to
\* the contract.  Each drop looks at the freeze, an empty batch does not.
CreateDropBatch(caller, batch, deposit, keep, metadata, on_success, call_fails) ==
    LET ids == {batch[i].drop_id : i \in DOMAIN batch}
        shape == [d \in ids |-> batch[CHOOSE i \in DOMAIN batch : batch[i].drop_id = d].shape]
        after_drops == charge_drops(caller, deposit, batch)
        purse == charge_for_metadata(after_drops, metadata)
        called == calls_on_success(purse, on_success)
        call_deposit == IF called THEN unwrap(on_success) ELSE 0
    IN  /\ ids # {} => assert_no_global_freeze(caller)
        /\ ids \cap DOMAIN drop_by_id = {} /\ Cardinality(ids) = Len(batch)
        /\ \A d \in ids : total_costs_defined(max_key_uses(shape[d].asset_data),
                                              asset_data_for_uses(shape[d]), now)
        /\ call_fails => called
        /\ drop_by_id' = [d \in DOMAIN drop_by_id \cup ids |->
                             IF d \in ids THEN NewDropOf(caller, shape[d], 0) ELSE drop_by_id[d]]
        /\ asset_by_id' = [d \in DOMAIN asset_by_id \cup ids |->
                              IF d \in ids THEN store_assets_by_id(shape[d].asset_data)
                                           ELSE asset_by_id[d]]
        /\ drop_ids_by_funder' = [drop_ids_by_funder EXCEPT ![caller] = @ \cup ids]
        /\ fees_collected' = fees_collected + Len(batch) * total_fees(caller, 0, 1)
        /\ IF metadata # None THEN internal_modify_user_metadata(caller, metadata)
                              ELSE UNCHANGED funder_metadata
        /\ refund_excess(caller, [purse EXCEPT !.deposit = @ - call_deposit],
                         deposit - IF call_fails THEN 0 ELSE call_deposit, keep)
        /\ UNCHANGED <<key_info_by_token_id, token_id_by_pk, tokens_per_owner, chosen_settings,
                       receipts, now, ft_held, nft_held>>

-----------------------------------------------------------------------------

may_add_keys(drop, caller) ==
    \/ drop.funder_id = caller
    \/ \E allowlist \in drop.config.add_key_allowlist : caller \in allowlist

AddKeys(caller, d, key_data, deposit, keep) ==
    /\ assert_no_global_freeze(caller)
    /\ d \in DOMAIN drop_by_id
    /\ LET drop == drop_by_id[d]
           num_keys == Len(key_data)
       IN  /\ num_keys > 0
           /\ may_add_keys(drop, caller)
           /\ total_costs_defined(drop.max_key_uses, drop.asset_data_for_uses, now)
           /\ internal_add_keys_to_account(d, drop.next_key_id, drop.max_key_uses, key_data)
           /\ drop_by_id' = [drop_by_id EXCEPT ![d].next_key_id = @ + num_keys]
           /\ fees_collected' = fees_collected + total_fees(caller, num_keys, 0)
           /\ refund_excess(caller,
                  determine_costs(caller, purse_of(caller, deposit), num_keys, 0,
                                  get_total_costs_for_key(drop.max_key_uses, asset_by_id[d],
                                                          drop.asset_data_for_uses),
                                  num_keys * (KeyBytes + PkBytes)),
                  deposit, keep)
    /\ UNCHANGED <<asset_by_id, drop_ids_by_funder, settings, receipts, now, ft_held, nft_held>>

-----------------------------------------------------------------------------

all_assets_empty(assets) == \A a \in DOMAIN assets : is_empty(assets[a])

\* The panics of delete_keys for the public keys pks of drop d.
delete_keys_defined(d, pks) ==
    /\ all_assets_empty(asset_by_id[d])
    /\ \A pk \in pks :
          /\ pk \in DOMAIN token_id_by_pk
          /\ parse_token_id(token_id_by_pk[pk]) = d
          /\ total_costs_defined(key_info_by_token_id[token_id_by_pk[pk]].remaining_uses,
                                 drop_by_id[d].asset_data_for_uses, now)

\* The NEAR set aside for what is left of the given keys of drop d.
cost_of_keys(d, tokens) ==
    SumFunction([t \in tokens |-> get_total_costs_for_key(key_info_by_token_id[t].remaining_uses,
                     asset_by_id[d], drop_by_id[d].asset_data_for_uses)])

\* The bug of deleting a spent key whose claim is still in flight.
deleted_tokens_with_spent_keys(d, pks) ==
    {token_id_by_pk[pk] : pk \in pks}
    \cup {t \in KeysOf(key_info_by_token_id, d) : key_info_by_token_id[t].remaining_uses = 0}

\* A spent key that waits for its callback has no public key to delete it by.
deleted_tokens(d, pks) == {token_id_by_pk[pk] : pk \in pks}

\* pks: the public keys passed, or the first keys of the drop's map - in any
\* case a set of keys of one drop.
DeleteKeys(caller, d, pks, keep_empty_drop) ==
    /\ assert_no_global_freeze(caller)
    /\ d \in DOMAIN drop_by_id
    /\ drop_by_id[d].funder_id = caller
    /\ delete_keys_defined(d, pks)
    /\ LET tokens == deleted_tokens(d, pks)
           remove_drop == KeysOf(key_info_by_token_id, d) \subseteq tokens /\ ~keep_empty_drop
           freed == Cardinality(tokens) * (KeyBytes + PkBytes) + IF remove_drop THEN DropBytes ELSE 0
       IN  /\ token_id_by_pk' = Without(token_id_by_pk, pks)
           /\ key_info_by_token_id' = Without(key_info_by_token_id, tokens)
           /\ internal_remove_tokens_from_owners(tokens)
           /\ IF remove_drop
              THEN /\ drop_by_id' = Without(drop_by_id, {d})
                   /\ asset_by_id' = Without(asset_by_id, {d})
                   /\ internal_remove_drop_for_funder(caller, d)
              ELSE UNCHANGED <<drop_by_id, asset_by_id, drop_ids_by_funder>>
           /\ internal_modify_user_balance(caller, cost_of_keys(d, tokens) + freed)
    /\ UNCHANGED <<fees_collected, settings, receipts, now, holdings>>
=============================================================================
