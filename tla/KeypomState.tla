----------------------------- MODULE KeypomState -----------------------------
(***************************************************************************)
(* The state of the Keypom contract, and the helpers every operation is    *)
(* built from.  A NEAR contract runs one receipt at a time and a receipt   *)
(* that panics leaves the state as it was, so an operation is one action   *)
(* whose guard is the absence of a panic.  What crosses receipts - the     *)
(* promises fired and the callbacks they will resolve - is in receipts.    *)
(*                                                                         *)
(* The maps nested in a stored InternalDrop are variables of their own:    *)
(* asset_by_id per drop, and key_info_by_token_id by token ID, which names *)
(* its drop.                                                               *)
(***************************************************************************)
EXTENDS KeypomAssets, Functions, TLC

CONSTANTS
    Accounts,       \* funders, key owners and approved accounts
    ContractOwner,  \* contract_owner_id
    KeypomAccount,  \* the contract's own account
    PublicKeys,
    DropIds,
    FtContracts,
    NftContracts,
    NftTokens,
    ReceiptIds      \* bounds how many promises are in flight at once

CONSTANTS
    SigningPks, SigningAdmins,        \* what the contract is created with
    RootAccount,
    DropBytes, KeyBytes, PkBytes,     \* storage cost of a drop, of a key's info,
    NftBytes,                         \*   of its public key entry, of an NFT's ID,
    MetadataBytes,                    \*   of a field of a funder's metadata
    MaxVault,                         \* bounds the NEAR sent to the contract
    MaxKeyId,                         \* bounds the key IDs of a drop
    MaxTime                           \* bounds the block timestamp

ASSUME StorageAssumption ==
    /\ {DropBytes, KeyBytes, PkBytes, NftBytes, MetadataBytes} \subseteq Nat
    /\ {MaxVault, MaxKeyId, MaxTime} \subseteq Nat

VARIABLES
    drop_by_id,            \* drop ID |-> funder, uses, asset data, next key ID, configuration
    asset_by_id,           \* drop ID |-> asset ID |-> InternalAsset
    key_info_by_token_id,  \* token ID <<drop ID, key ID>> |-> InternalKeyInfo
    token_id_by_pk,        \* public key |-> token ID
    tokens_per_owner,      \* account |-> its token IDs
    drop_ids_by_funder,    \* account |-> its drop IDs
    user_balance,          \* account |-> FunderInfo.balance
    fees_collected,
    global_freeze,
    root_account,          \* the account that creates the claimers' accounts
    fee_structure,         \* the fees per drop and per key
    fees_per_user,         \* account |-> fees of its own
    signing_pks,           \* the keys the contract's own transactions are signed with
    signing_admins,        \* the accounts that choose them
    funder_metadata,       \* account |-> Option of FunderInfo.metadata, as its number of fields
    receipts,              \* receipt ID |-> promise in flight with its callback
    now,                   \* block timestamp
    vault,                 \* NEAR on the contract's account
    ft_held,               \* FT contract |-> tokens it has on its books for Keypom
    nft_held               \* NFTs <<contract, token>> Keypom owns

registry == <<drop_by_id, key_info_by_token_id, token_id_by_pk, tokens_per_owner,
              drop_ids_by_funder>>
holdings == <<vault, ft_held, nft_held>>
chosen_settings == <<global_freeze, root_account, fee_structure, fees_per_user, signing_pks,
                     signing_admins>>
settings == <<chosen_settings, funder_metadata>>
vars == <<registry, asset_by_id, user_balance, fees_collected, settings, receipts, now, holdings>>

EmptyMap == [x \in {} |-> x]
TokenIds == DropIds \X (0 .. MaxKeyId - 1)

Init ==
    /\ drop_by_id = EmptyMap /\ asset_by_id = EmptyMap
    /\ key_info_by_token_id = EmptyMap /\ token_id_by_pk = EmptyMap
    /\ tokens_per_owner = [a \in Accounts |-> {}]
    /\ drop_ids_by_funder = [a \in Accounts |-> {}]
    /\ user_balance = [a \in Accounts |-> 0]
    /\ fees_collected = 0 /\ global_freeze = FALSE
    /\ fee_structure = [per_drop |-> 0, per_key |-> 0] /\ fees_per_user = EmptyMap
    /\ signing_pks = SigningPks /\ signing_admins = SigningAdmins /\ root_account = RootAccount
    /\ funder_metadata = [a \in Accounts |-> None]
    /\ receipts = EmptyMap
    /\ now = 0
    /\ vault = 0 /\ ft_held = [c \in FtContracts |-> 0] /\ nft_held = {}

-----------------------------------------------------------------------------

With(map, id, value) == [x \in DOMAIN map \cup {id} |-> IF x = id THEN value ELSE map[x]]
Without(map, ids) == Restrict(map, DOMAIN map \ ids)

assert_no_global_freeze(predecessor) == predecessor = ContractOwner \/ ~global_freeze

parse_token_id(token_id) == token_id[1]

KeysOf(keys, d) == {t \in DOMAIN keys : parse_token_id(t) = d}

get_key_cur_use(drop, key_info) == cur_use(drop.max_key_uses, key_info.remaining_uses)

\* The assets of the use a callback takes to be its own: the last one spent.
last_use_data(drop, key_info) ==
    get_asset_data_for_specific_use(drop.asset_data_for_uses, get_key_cur_use(drop, key_info) - 1)

internal_remove_tokens_from_owners(tokens) ==
    tokens_per_owner' = [a \in Accounts |-> tokens_per_owner[a] \ tokens]

internal_remove_drop_for_funder(funder_id, d) ==
    drop_ids_by_funder' = [drop_ids_by_funder EXCEPT ![funder_id] = @ \ {d}]

internal_modify_user_balance(account_id, amount) ==
    user_balance' = [user_balance EXCEPT ![account_id] = @ + amount]

-----------------------------------------------------------------------------
(* What a call charges.  purse is what its caller has to pay with: what is *)
(* left of the attached deposit, and the caller's balance.                 *)

purse_of(caller, deposit) == [deposit |-> deposit, balance |-> user_balance[caller]]

charge_with_deposit_or_balance(purse, required) ==
    IF purse.deposit >= required
    THEN [purse EXCEPT !.deposit = @ - required]
    ELSE [deposit |-> 0, balance |-> purse.balance - (required - purse.deposit)]

\* The bug of a balance that is not checked before it pays.
is_covered_unchecked(purse) == TRUE

\* A balance below zero panics; a balance is never raised within a call, so
\* it is enough to look at the end.
is_covered(purse) == purse.balance >= 0

\* What is left of the deposit goes back, or to the balance if keep is set.
refund_excess(caller, purse, deposit, keep) ==
    /\ vault + deposit <= MaxVault
    /\ is_covered(purse)
    /\ user_balance' = [user_balance EXCEPT ![caller] =
                           purse.balance + IF keep THEN purse.deposit ELSE 0]
    /\ vault' = vault + deposit - IF keep THEN 0 ELSE purse.deposit

fees_for_user(caller) ==
    IF caller \in DOMAIN fees_per_user THEN fees_per_user[caller] ELSE fee_structure

total_fees(caller, num_keys, num_drops) ==
    num_keys * fees_for_user(caller).per_key + num_drops * fees_for_user(caller).per_drop

\* The bug of charging the assets of one key for all of them.
determine_costs_of_one_key(caller, purse, num_keys, num_drops, cost_per_key, net_storage) ==
    charge_with_deposit_or_balance(
        purse, cost_per_key + net_storage + total_fees(caller, num_keys, num_drops))

determine_costs(caller, purse, num_keys, num_drops, cost_per_key, net_storage) ==
    charge_with_deposit_or_balance(
        purse, num_keys * cost_per_key + net_storage + total_fees(caller, num_keys, num_drops))

\* Metadata is only ever appended to, field after field; appending nothing,
\* or to or with an object without fields, leaves no valid JSON and panics.
can_append_metadata(old, new) ==
    old # None => new # None /\ unwrap(old) > 0 /\ unwrap(new) > 0

metadata_appended(old, new) == IF old = None THEN new ELSE Some(unwrap(old) + unwrap(new))

internal_modify_user_metadata(caller, new) ==
    /\ can_append_metadata(funder_metadata[caller], new)
    /\ funder_metadata' = [funder_metadata EXCEPT ![caller] = metadata_appended(@, new)]

charge_for_metadata(purse, new) ==
    charge_with_deposit_or_balance(purse, MetadataBytes * unwrap_or(new, 0))

-----------------------------------------------------------------------------
(* Promises in flight.                                                     *)

FreeReceipts == ReceiptIds \ DOMAIN receipts
NewReceipt == CHOOSE r \in FreeReceipts : TRUE

Fire(receipt) == FreeReceipts # {} /\ receipts' = With(receipts, NewReceipt, receipt)
Resolve(r) == receipts' = Without(receipts, {r})

\* What is left of the contract's own tokens once the promises ps ran and
\* those in failed did not go through (what they carried came back).
settle(ps, failed) ==
    LET gone == DOMAIN ps \ failed
        ft(c) == SumFunction([i \in {j \in gone : ps[j].type = "ft" /\ ps[j].contract = c} |->
                                 ps[i].amount])
        nft == {<<ps[i].contract, ps[i].token>> : i \in {j \in gone : ps[j].type = "nft"}}
    IN  /\ \A c \in FtContracts : ft(c) <= ft_held[c]
        /\ nft \subseteq nft_held
        /\ ft_held' = [c \in FtContracts |-> ft_held[c] - ft(c)]
        /\ nft_held' = nft_held \ nft

near_attached(ps) == SumFunction([i \in DOMAIN ps |-> near_of(ps[i])])
=============================================================================
