-------------------------- MODULE KeypomProperties --------------------------
(***************************************************************************)
(* What the contract must keep true.                                       *)
(***************************************************************************)
EXTENDS KeypomViews

IsMap(map, ids, values) == DOMAIN map \subseteq ids /\ map \in [DOMAIN map -> values]

AccountOptions == {None} \cup {Some(a) : a \in Accounts}

Drop == [funder_id : Accounts, max_key_uses : Nat \ {0},
         asset_data_for_uses : {asset_data_for_uses(shape) : shape \in Shapes},
         next_key_id : 0 .. MaxKeyId, config : {shape.config : shape \in Shapes}]

KeyInfo == [pub_key : PublicKeys, owner_id : AccountOptions, remaining_uses : Nat,
            message_nonce : Nat, last_claimed : Nat,
            approved_account_ids : UNION {[S -> 0 .. MaxApprovals] : S \in SUBSET Accounts},
            next_approval_id : Nat]

RegistryTypeOK ==
    /\ IsMap(drop_by_id, DropIds, Drop)
    /\ IsMap(key_info_by_token_id, TokenIds, KeyInfo)
    /\ IsMap(token_id_by_pk, PublicKeys, TokenIds)
    /\ tokens_per_owner \in [Accounts -> SUBSET TokenIds]
    /\ drop_ids_by_funder \in [Accounts -> SUBSET DropIds]

AssetTypeOK(asset) ==
    /\ asset.type \in AssetTypes /\ asset.cost \in Nat /\ asset.balance_avail \in Nat
    /\ asset.token_ids \in Seq(NftTokens)

\* Every variable has its type; in particular no balance is negative.
TypeOK ==
    /\ RegistryTypeOK
    /\ \A d \in DOMAIN asset_by_id : \A a \in DOMAIN asset_by_id[d] : AssetTypeOK(asset_by_id[d][a])
    /\ user_balance \in [Accounts -> Nat] /\ fees_collected \in Nat /\ global_freeze \in BOOLEAN
    /\ fee_structure \in [per_drop : Nat, per_key : Nat]
    /\ IsMap(fees_per_user, Accounts, [per_drop : Nat, per_key : Nat])
    /\ \A a \in Accounts : funder_metadata[a] \subseteq Nat /\ Cardinality(funder_metadata[a]) <= 1
    /\ DOMAIN receipts \subseteq ReceiptIds
    /\ now \in 0 .. MaxTime /\ vault \in Nat
    /\ ft_held \in [FtContracts -> Nat] /\ nft_held \subseteq NftContracts \X NftTokens

-----------------------------------------------------------------------------
(* The registry: five maps that have to name the same keys and drops.      *)

usable(t) == key_info_by_token_id[t].remaining_uses > 0

\* A public key leads to the key info that carries it.
PublicKeyLeadsToKey ==
    \A pk \in DOMAIN token_id_by_pk :
        /\ token_id_by_pk[pk] \in DOMAIN key_info_by_token_id
        /\ key_info_by_token_id[token_id_by_pk[pk]].pub_key = pk
        /\ usable(token_id_by_pk[pk])

\* A key with uses left can be found by its public key.
UsableKeyIsFound ==
    \A t \in DOMAIN key_info_by_token_id :
        usable(t) =>
            LET pk == key_info_by_token_id[t].pub_key
            IN  pk \in DOMAIN token_id_by_pk /\ token_id_by_pk[pk] = t

\* The tokens of an account are the usable keys it owns.
OwnersHaveTheirKeys ==
    \A a \in Accounts :
        tokens_per_owner[a] =
            {t \in DOMAIN key_info_by_token_id :
                usable(t) /\ key_info_by_token_id[t].owner_id = Some(a)}

\* A key is one of its drop's, and has no more uses than the drop gives.
KeysHaveTheirDrop ==
    \A t \in DOMAIN key_info_by_token_id :
        /\ parse_token_id(t) \in DOMAIN drop_by_id
        /\ t[2] < drop_by_id[parse_token_id(t)].next_key_id
        /\ key_info_by_token_id[t].remaining_uses <= drop_by_id[parse_token_id(t)].max_key_uses

\* The drops of an account are those it funded.
FundersHaveTheirDrops ==
    \A a \in Accounts :
        drop_ids_by_funder[a] = {d \in DOMAIN drop_by_id : drop_by_id[d].funder_id = a}

\* The maps keyed by public key, token, owner, drop and funder agree, through
\* creation, claims with their callbacks, transfers and deletions.
IndexConsistency ==
    /\ PublicKeyLeadsToKey
    /\ UsableKeyIsFound
    /\ OwnersHaveTheirKeys
    /\ KeysHaveTheirDrop
    /\ FundersHaveTheirDrops
    /\ DOMAIN asset_by_id = DOMAIN drop_by_id

\* The views list what is there: no list has a key or a drop that is gone,
\* which would make it panic, an account is shown the keys that are its own
\* in the list of all keys, a funder the drops it funded, and the supply the
\* drops show is that of all NFTs and the spent keys whose claims are under
\* way.
EnumerationsAgree ==
    /\ nft_tokens_defined(all_tokens)
    /\ \A a \in Accounts :
          /\ nft_tokens_defined(tokens_per_owner[a])
          /\ nft_tokens_for_owner(a) = {token \in nft_tokens : token.owner_id = a}
          /\ get_drops_for_funder_defined(a)
          /\ get_drops_for_funder(a) = {drop \in all_drops : drop.funder_id = a}
    /\ SumFunction([d \in DOMAIN drop_by_id |-> get_key_supply_for_drop(d)]) =
          nft_total_supply + Cardinality({t \in DOMAIN key_info_by_token_id : ~usable(t)})

\* All of the NEAR, the very NFTs, and every FT that is not short of its
\* balance.
Delivers(promises, info, assets) ==
    LET promised(type) == {i \in DOMAIN promises : promises[i].type = type}
    IN  /\ SumFunction([i \in promised("near") |-> near_of(promises[i])]) = info.yoctonear
        /\ {<<promises[i].contract, promises[i].token>> : i \in promised("nft")} = info.nft_list
        /\ {<<promises[i].contract, promises[i].amount>> : i \in promised("ft")} =
              {ft \in info.ft_list : enough_balance(assets[contract_asset_id(ft[1])], ft[2])}

\* What the view of a key says it will hand out next is what a claim of it
\* hands out now.  (Not for uses with NFTs of several contracts, which the
\* view counts together.)
PreviewMatchesClaim ==
    \A pk \in DOMAIN token_id_by_pk :
        LET t == token_id_by_pk[pk]
            assets == asset_by_id[parse_token_id(t)]
            promises == fired_promises(assets_of_last_use(t, keys_after_claim(pk), None))
            metadata == current_use_metadata(t)
            nft_contracts == {assets[metadata[i].asset_id].contract :
                                 i \in {j \in DOMAIN metadata :
                                           assets[metadata[j].asset_id].type = "nft"}}
        IN  Cardinality(nft_contracts) <= 1 =>
                Delivers(promises, get_key_information(t), assets)

-----------------------------------------------------------------------------
(* Keys and their callbacks.                                               *)

is_claim(receipt) == receipt.kind \in {"create_account", "claim"}

\* The key of a claim whose promise is in flight is there for the callback:
\* before_claim_logic keeps its info and nothing else removes it.
ClaimCallbackFindsKey ==
    \A r \in DOMAIN receipts : is_claim(receipts[r]) => callback_finds_key(r)

\* The use a callback derives from the key's remaining uses hands out what
\* the use that was spent hands out.
CallbackSeesItsUse ==
    \A r \in DOMAIN receipts :
        (is_claim(receipts[r]) /\ callback_finds_key(r)) =>
            LET t == receipts[r].token_id
                drop == drop_by_id[parse_token_id(t)]
            IN  last_use_data(drop, key_info_by_token_id[t]) =
                get_asset_data_for_specific_use(drop.asset_data_for_uses, receipts[r].use)

may_overwrite(method) == method.user_args_rule \notin {None, Some("FunderPreferred")}

\* Where the claimer may not overwrite the funder's arguments they are all
\* there, and nothing else when the claimer may not add any; what stands in
\* the fields the contract fills is the contract's.
KeepsFundersArgs(method, args) ==
    LET funder_args == unwrap(method.args)
        injected == {<<method.keypom_args[i].field>> : i \in DOMAIN method.keypom_args}
    IN  /\ ~may_overwrite(method) =>
              \A path \in DOMAIN funder_args :
                  path \in DOMAIN args /\ args[path] = funder_args[path]
        /\ method.user_args_rule = None => DOMAIN args \subseteq DOMAIN funder_args \cup injected
        /\ \A i \in DOMAIN method.keypom_args :
              \A path \in DOMAIN args : method.keypom_args[i].field \in ToSet(path) =>
                  args[path] = Value(method.keypom_args[i].value)

\* The funder gave an object, and something is in it or is put there.
makes_json(method) ==
    \E args \in method.args : takes_fields(args, method.keypom_args)

\* The calls a claim has in flight are methods of the drop, in their order
\* and each at most once.  A claimer who may not overwrite the funder's
\* arguments cannot spoil them: whatever he passes, they reach the receiver
\* as JSON.  And no claimer can name the account the contract vouches for.
CallsAsConfigured ==
    \A r \in DOMAIN receipts : receipts[r].kind = "claim" =>
        LET calls == receipts[r].promise.calls
            assets == asset_by_id[parse_token_id(receipts[r].token_id)]
        IN  calls # << >> => \E a \in DOMAIN assets :
                /\ \A i, j \in DOMAIN calls : i < j => calls[i].method < calls[j].method
                /\ \A i \in DOMAIN calls :
                      /\ calls[i].method \in DOMAIN assets[a].methods
                      /\ LET method == assets[a].methods[calls[i].method]
                         IN  /\ (~may_overwrite(method) /\ makes_json(method)) => calls[i].args # None
                             /\ \A args \in calls[i].args : KeepsFundersArgs(method, args)

\* A key's nonce, which is part of what is signed for it, counts the uses
\* taken and the approvals given, through every transfer: no nonce served
\* for two of them and none was passed over.  (It counts them for the key's
\* info.  A public key that is deleted and added again, or leaves one key
\* and is linked to another, has the nonce of its new key, for which its old
\* signatures may be good.)
NonceCountsSignatures ==
    \A t \in DOMAIN key_info_by_token_id :
        LET key_info == key_info_by_token_id[t]
        IN  key_info.message_nonce =
                drop_by_id[parse_token_id(t)].max_key_uses - key_info.remaining_uses
                + key_info.next_approval_id

\* An approval in force is one this owner gave: it is new with an ID never
\* given before, or it was in force under the same owner and public key.
ApprovalsAreTheOwnersStep ==
    \A t \in DOMAIN key_info_by_token_id \cap DOMAIN key_info_by_token_id' :
       LET old == key_info_by_token_id[t]
           new == key_info_by_token_id'[t]
       IN  \A a \in DOMAIN new.approved_account_ids :
              \/ /\ new.approved_account_ids[a] >= old.next_approval_id
                 /\ new.approved_account_ids[a] < new.next_approval_id
              \/ /\ a \in DOMAIN old.approved_account_ids
                 /\ new.approved_account_ids[a] = old.approved_account_ids[a]
                 /\ new.owner_id = old.owner_id /\ new.pub_key = old.pub_key

\* No step leaves a key with an approval of an earlier owner.
ApprovalsAreTheOwners == [][ApprovalsAreTheOwnersStep]_vars

\* What the seller of a key and the receivers of royalties get for it adds
\* up to the price, to less than one unit for each of them: nobody is left
\* out when the owner is entitled to a royalty too, and no more is promised
\* than was paid.
PayoutsAddUp ==
    \A t \in DOMAIN key_info_by_token_id, price \in Prices :
        LET owner_id == owner_or_keypom(key_info_by_token_id[t].owner_id)
            royalties == drop_by_id[parse_token_id(t)].config.royalties
            payout == calculate_payouts(owner_id, royalties, price)
            paid == SumFunction(payout)
        IN  payouts_defined(owner_id, royalties, price, MAX_LEN_PAYOUT) =>
                paid \in price - Cardinality(DOMAIN payout) + 1 .. price

\* A key is never used more often than its interval allows: after the n-th
\* use, n whole intervals have passed since the start.
ClaimsWithinInterval ==
    \A t \in DOMAIN key_info_by_token_id :
        LET drop == drop_by_id[parse_token_id(t)]
            claims == drop.max_key_uses - key_info_by_token_id[t].remaining_uses
        IN  claims > 0 =>
            \A time \in last_use_data(drop, key_info_by_token_id[t]).config.time :
                \A interval \in time.interval : claims * interval <= now - unwrap(time.start)

\* A key that gave its last use is removed.
DepletedKeyRemoved ==
    \A t \in TokenIds :
        (t \in DOMAIN key_info_by_token_id /\ ~usable(t)) ~> t \notin DOMAIN key_info_by_token_id

SomeKeyUsable(d) == \E t \in KeysOf(key_info_by_token_id, d) : usable(t)

\* The last claims of a drop are under way and it holds no tokens.
DropRunsOut(d) ==
    /\ d \in DOMAIN drop_by_id /\ drop_by_id[d].config.delete_empty_drop
    /\ KeysOf(key_info_by_token_id, d) # {} /\ ~SomeKeyUsable(d)
    /\ all_assets_empty(asset_by_id[d])

\* Whichever of the last claims ends last removes the drop, unless tokens
\* came back or were sent, or keys were added, before it did.
EmptyDropRemoved ==
    \A d \in DropIds :
        DropRunsOut(d) ~> \/ d \notin DOMAIN drop_by_id
                         \/ SomeKeyUsable(d)
                         \/ ~all_assets_empty(asset_by_id[d])

-----------------------------------------------------------------------------
(* The books against the holdings.                                         *)

\* What an asset has available of the FTs of contract c, ...
FtBalance(asset, c) == IF asset.type = "ft" /\ asset.contract = c THEN asset.balance_avail ELSE 0

\* ... what the assets of a drop have, ...
FtRecorded(d, c) ==
    SumFunction([a \in DOMAIN asset_by_id[d] |-> FtBalance(asset_by_id[d][a], c)])

\* ... and what a promise in flight carries.
FtCarried(receipt, c) ==
    IF /\ receipt.kind \in {"claim", "ft_refund"}
       /\ receipt.promise.type = "ft" /\ receipt.promise.contract = c
    THEN receipt.promise.amount ELSE 0

FtCommitted(c) ==
    SumFunction([d \in DOMAIN asset_by_id |-> FtRecorded(d, c)])
    + SumFunction([r \in DOMAIN receipts |-> FtCarried(receipts[r], c)])

\* The FTs the drops record and those in flight are there.
FtBacked == \A c \in FtContracts : FtCommitted(c) <= ft_held[c]

\* The FTs sent to drops are recorded or in flight: none is forgotten.
FtNotLost == \A c \in FtContracts : FtCommitted(c) >= ft_held[c]

\* How often NFT token of contract c is on record in drop d.
NftCopies(d, c, token) ==
    SumFunction([a \in {b \in DOMAIN asset_by_id[d] : asset_by_id[d][b].contract = c} |->
        Cardinality({i \in DOMAIN asset_by_id[d][a].token_ids :
                        asset_by_id[d][a].token_ids[i] = token})])

\* The NFTs a promise in flight carries.
NftsCarried(receipt) ==
    CASE receipt.kind = "claim" /\ receipt.promise.type = "nft" ->
            {<<receipt.promise.contract, receipt.promise.token>>}
      [] receipt.kind = "nft_refund" ->
            {<<receipt.contract, token>> : token \in ToSet(receipt.token_ids)}
      [] OTHER -> {}

\* An NFT is on record or in flight once, and only while Keypom owns it: no
\* two claimers are promised the same token.
NftBacked ==
    \A c \in NftContracts, token \in NftTokens :
        SumFunction([d \in DOMAIN asset_by_id |-> NftCopies(d, c, token)])
        + Cardinality({r \in DOMAIN receipts : <<c, token>> \in NftsCarried(receipts[r])})
            <= IF <<c, token>> \in nft_held THEN 1 ELSE 0

NftsRecorded(d) ==
    UNION {{<<asset_by_id[d][a].contract, token>> : token \in ToSet(asset_by_id[d][a].token_ids)} :
              a \in DOMAIN asset_by_id[d]}

\* A drop is removed only when it holds no more assets: the tokens it still
\* had on record leave the contract in that very step.
DropWithAssetsNotRemoved ==
    [][\A d \in DOMAIN drop_by_id \ DOMAIN drop_by_id' :
          /\ \A c \in FtContracts : FtRecorded(d, c) <= ft_held[c] - ft_held'[c]
          /\ NftsRecorded(d) \subseteq nft_held \ nft_held']_vars

\* The NEAR the contract owes: the funders' balances and its fees, ...
Credits == SumFunction(user_balance) + fees_collected

\* ... the storage that was paid for and will be refunded, ...
StorageStake ==
    Cardinality(DOMAIN drop_by_id) * DropBytes
    + Cardinality(DOMAIN key_info_by_token_id) * KeyBytes
    + Cardinality(DOMAIN token_id_by_pk) * PkBytes
    + SumFunction([d \in DOMAIN asset_by_id |-> nft_bytes(asset_by_id[d])])
    + SumFunction([r \in {s \in DOMAIN receipts : receipts[s].kind = "nft_refund"} |->
                      receipts[r].storage_released])
    + MetadataBytes * SumFunction([a \in Accounts |-> unwrap_or(funder_metadata[a], 0)])

\* ... what the uses left on the keys will hand out, ...
KeyEscrow ==
    SumFunction([t \in DOMAIN key_info_by_token_id |->
        get_total_costs_for_key(key_info_by_token_id[t].remaining_uses,
            asset_by_id[parse_token_id(t)], drop_by_id[parse_token_id(t)].asset_data_for_uses)])

\* ... and what a use will hand out that waits for its account.
EscrowOf(receipt) ==
    LET d == parse_token_id(receipt.token_id)
    IN  cost_of_use(asset_by_id[d], get_asset_data_for_specific_use(
            drop_by_id[d].asset_data_for_uses, receipt.use).assets_metadata)

AccountEscrow ==
    SumFunction([r \in {s \in DOMAIN receipts : receipts[s].kind = "create_account"
                                               /\ callback_finds_key(s)} |->
                    EscrowOf(receipts[r])])

\* The NEAR owed to funders, key holders and the contract owner is there:
\* no refund is paid twice and nothing is handed out that was not paid for.
NearBacked == Credits + StorageStake + KeyEscrow + AccountEscrow <= vault

\* The fees are kept: they fall only to zero and into a withdrawal of all of
\* them, and a withdrawal is paid, or its amount is added to what has been
\* collected since.
FeesKeptStep ==
    /\ fees_collected' < fees_collected =>
          /\ fees_collected' = 0
          /\ \E r \in DOMAIN receipts' \ DOMAIN receipts : receipts'[r] = FeeReceipt(fees_collected)
    /\ \A r \in DOMAIN receipts : receipts[r].kind = "withdraw_fees" =>
          \/ r \in DOMAIN receipts' /\ receipts'[r] = receipts[r]
          \/ r \notin DOMAIN receipts' /\ UNCHANGED <<vault, fees_collected>>
          \/ /\ r \notin DOMAIN receipts'
             /\ vault' = vault + receipts[r].amount
             /\ fees_collected' = fees_collected + receipts[r].amount

\* No fee is paid out twice, and none is forgotten while a withdrawal is in
\* flight.
FeesKept == [][FeesKeptStep]_vars
=============================================================================
