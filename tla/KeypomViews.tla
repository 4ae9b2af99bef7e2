----------------------------- MODULE KeypomViews -----------------------------
(***************************************************************************)
(* What the contract tells about its keys, drops and funders: the view     *)
(* methods, as functions of the state.  Pagination, gas and metadata are   *)
(* left out.                                                               *)
(***************************************************************************)
EXTENDS Keypom

current_use_metadata(t) ==
    LET drop == drop_by_id[parse_token_id(t)]
    IN  get_asset_data_for_specific_use(
            drop.asset_data_for_uses, get_key_cur_use(drop, key_info_by_token_id[t])).assets_metadata

\* The bug of a view that counts from the first NFT a drop received.
shown_nft_from_first(token_ids, num_nfts) ==
    IF num_nfts < Len(token_ids) THEN Some(token_ids[num_nfts + 1]) ELSE None

\* The NFT that is the next one after num_nfts others.
shown_nft(token_ids, num_nfts) ==
    IF num_nfts < Len(token_ids) THEN Some(token_ids[Len(token_ids) - num_nfts]) ELSE None

\* The assets of the key's current use.  All NFTs of the use are counted
\* together, whichever contract they are of.
get_key_information(t) ==
    LET assets == asset_by_id[parse_token_id(t)]
        metadata == current_use_metadata(t)
        key_info == key_info_by_token_id[t]
        asset(i) == assets[metadata[i].asset_id]
        of_type(type) == {i \in DOMAIN metadata : asset(i).type = type}
        shown(i) == shown_nft(asset(i).token_ids, Cardinality({j \in of_type("nft") : j < i}))
    IN  [yoctonear |-> SumFunction([i \in of_type("near") |-> metadata[i].tokens_per_use]),
         ft_list |-> {<<asset(i).contract, metadata[i].tokens_per_use>> : i \in of_type("ft")},
         nft_list |-> UNION {{<<asset(i).contract, token>> : token \in shown(i)} : i \in of_type("nft")},
         fc_list |-> {asset(i).methods : i \in of_type("fc")},
         uses_remaining |-> key_info.remaining_uses, pub_key |-> key_info.pub_key,
         owner_id |-> owner_or_keypom(key_info.owner_id), message_nonce |-> key_info.message_nonce]

-----------------------------------------------------------------------------
(* Keys as NFTs.                                                           *)

nft_token(t) ==
    IF parse_token_id(t) \in DOMAIN drop_by_id /\ t \in DOMAIN key_info_by_token_id
    THEN Some([token_id |-> t, owner_id |-> owner_or_keypom(key_info_by_token_id[t].owner_id),
               approved_account_ids |-> key_info_by_token_id[t].approved_account_ids,
               royalty |-> drop_by_id[parse_token_id(t)].config.royalties])
    ELSE None

\* A token without information panics.
nft_tokens_defined(tokens) == \A t \in tokens : nft_token(t) # None

all_tokens == {token_id_by_pk[pk] : pk \in DOMAIN token_id_by_pk}
nft_tokens == {unwrap(nft_token(t)) : t \in all_tokens}
nft_tokens_for_owner(account_id) == {unwrap(nft_token(t)) : t \in tokens_per_owner[account_id]}

nft_total_supply == Cardinality(DOMAIN token_id_by_pk)

-----------------------------------------------------------------------------
(* Drops and funders.                                                      *)

get_key_supply_for_drop(d) == Cardinality(KeysOf(key_info_by_token_id, d))

get_drop_information(d) ==
    [drop_id |-> d, funder_id |-> drop_by_id[d].funder_id, max_key_uses |-> drop_by_id[d].max_key_uses,
     next_key_id |-> drop_by_id[d].next_key_id, drop_config |-> drop_by_id[d].config,
     asset_data |-> drop_by_id[d].asset_data_for_uses, assets |-> asset_by_id[d]]

\* A drop that does not exist panics.
get_drops_for_funder_defined(account_id) == drop_ids_by_funder[account_id] \subseteq DOMAIN drop_by_id

get_drops_for_funder(account_id) == {get_drop_information(d) : d \in drop_ids_by_funder[account_id]}

all_drops == {get_drop_information(d) : d \in DOMAIN drop_by_id}
=============================================================================
