----------------------------- MODULE KeypomKeys -----------------------------
(***************************************************************************)
(* Keys as NFTs: transferring a key to a new public key and owner, with or *)
(* without the payouts a sale owes, and approving an account to transfer   *)
(* it.                                                                     *)
(***************************************************************************)
EXTENDS KeypomTokens

CONSTANTS
    Receivers,    \* receiver_id of nft_transfer: a set of Options
    ApprovalIds,  \* approval_id of nft_transfer: a set of Options
    Approvers,    \* accounts approved by nft_approve
    MaxApprovals, \* bounds the approvals given for one key
    FullShare,    \* the whole of a price, in the unit royalties are in
    Prices,       \* balance of nft_transfer_payout
    MaxLenPayouts \* max_len_payout of nft_transfer_payout: a set of Options

ASSUME RoyaltiesAssumption ==
    /\ FullShare \in Nat \ {0} /\ Prices \subseteq Nat
    /\ \A shape \in Shapes :
          LET royalties == shape.config.royalties
          IN  IsFiniteSet(DOMAIN royalties) /\ \A a \in DOMAIN royalties : royalties[a] \in Nat

\* A key without an owner belongs to the contract.
owner_or_keypom(opt_account) == unwrap_or(opt_account, KeypomAccount)

transfer_allowed(drop, sender, receiver) ==
    \A allowlist \in drop.config.transfer_key_allowlist :
        sender \in allowlist \/ owner_or_keypom(receiver) \in allowlist

is_authorized(key_info, sender, approval_id) ==
    \/ sender = owner_or_keypom(key_info.owner_id)
    \/ /\ sender \in DOMAIN key_info.approved_account_ids
       /\ \A id \in approval_id : key_info.approved_account_ids[sender] = id

\* The bug of a transfer that leaves the old public key usable.
relink_key_keeping_old(t, old_pk, new_pk) ==
    token_id_by_pk' = With(token_id_by_pk, new_pk, t)

relink_key(t, old_pk, new_pk) ==
    token_id_by_pk' = With(Without(token_id_by_pk, {old_pk}), new_pk, t)

\* The bug of a transfer that hands the approvals on.
transferred_with_approvals(key_info, receiver, new_pk) ==
    [key_info EXCEPT !.owner_id = receiver, !.pub_key = new_pk]

\* The bug of a transfer that starts the nonce anew.
transferred_with_new_nonce(key_info, receiver, new_pk) ==
    [key_info EXCEPT !.owner_id = receiver, !.pub_key = new_pk, !.approved_account_ids = EmptyMap,
                     !.message_nonce = 0]

transferred(key_info, receiver, new_pk) ==
    [key_info EXCEPT !.owner_id = receiver, !.pub_key = new_pk, !.approved_account_ids = EmptyMap]

internal_transfer(sender, pk, receiver, approval_id, new_pk) ==
    /\ pk \in DOMAIN token_id_by_pk
    /\ LET t == token_id_by_pk[pk]
           key_info == key_info_by_token_id[t]
       IN  /\ transfer_allowed(drop_by_id[parse_token_id(t)], sender, receiver)
           /\ is_authorized(key_info, sender, approval_id)
           /\ new_pk \notin DOMAIN token_id_by_pk \ {key_info.pub_key}
           /\ tokens_per_owner' =
                 [a \in Accounts |-> IF receiver = Some(a) THEN tokens_per_owner[a] \cup {t}
                                                           ELSE tokens_per_owner[a] \ {t}]
           /\ relink_key(t, key_info.pub_key, new_pk)
           /\ key_info_by_token_id' =
                 [key_info_by_token_id EXCEPT ![t] = transferred(@, receiver, new_pk)]
    /\ UNCHANGED <<drop_by_id, asset_by_id, drop_ids_by_funder, user_balance, fees_collected,
                   settings, receipts, now, holdings>>

\* The signature that is checked when the linkdrop key itself signed the
\* transaction is by one of the contract's own keys and outside the model.
NftTransfer(sender, pk, receiver, approval_id, new_pk) ==
    /\ assert_no_global_freeze(sender)
    /\ internal_transfer(sender, pk, receiver, approval_id, new_pk)

-----------------------------------------------------------------------------
(* What a marketplace is told to pay.                                      *)

royalty_to_payout(royalty, balance) == (royalty * balance) \div FullShare

\* The bug of an owner whose own royalty is taken off as well.
owner_share_counting_owner(owner_id, royalties) ==
    FullShare - SumFunction(royalties)

\* The owner gets what the royalties of the others leave.
owner_share(owner_id, royalties) ==
    FullShare - SumFunctionOnSet(royalties, DOMAIN royalties \ {owner_id})

share_of(payee, owner_id, royalties) ==
    IF payee = owner_id THEN owner_share(owner_id, royalties) ELSE royalties[payee]

payees(owner_id, royalties) == DOMAIN royalties \cup {owner_id}

\* The panics: too many royalties, above the whole, or a product that
\* overflows.
payouts_defined(owner_id, royalties, balance, max_len_payout) ==
    /\ Cardinality(DOMAIN royalties) <= max_len_payout
    /\ \A payee \in payees(owner_id, royalties) :
          /\ share_of(payee, owner_id, royalties) >= 0
          /\ share_of(payee, owner_id, royalties) * balance <= U128Max

calculate_payouts(owner_id, royalties, balance) ==
    [payee \in payees(owner_id, royalties) |->
        royalty_to_payout(share_of(payee, owner_id, royalties), balance)]

MAX_LEN_PAYOUT == 10

\* The same check of a signature as in NftTransfer comes first.
NftTransferPayout(sender, pk, receiver, approval_id, new_pk, balance, max_len_payout) ==
    /\ assert_no_global_freeze(sender)
    /\ internal_transfer(sender, pk, receiver, approval_id, new_pk)
    /\ LET t == token_id_by_pk[pk]
       IN  payouts_defined(owner_or_keypom(key_info_by_token_id[t].owner_id),
                           drop_by_id[parse_token_id(t)].config.royalties, balance,
                           unwrap_or(max_len_payout, MAX_LEN_PAYOUT))

-----------------------------------------------------------------------------

approved(key_info, account) ==
    [key_info EXCEPT
        !.approved_account_ids = With(@, account, key_info.next_approval_id),
        !.next_approval_id = @ + 1]

\* verify_signature lets only signing keys in: the contract's own access keys
\* among them, or any that another account has for access key.
signs_with_contract_key(sender) ==
    IF sender = KeypomAccount THEN assert_contract_key ELSE signing_pks # {}

check_key_owner(sender, key_info) ==
    sender = KeypomAccount \/ sender = owner_or_keypom(key_info.owner_id)

NftApprove(sender, pk, account) ==
    /\ assert_no_global_freeze(sender)
    /\ signs_with_contract_key(sender)
    /\ pk \in DOMAIN token_id_by_pk
    /\ LET t == token_id_by_pk[pk]
           key_info == key_info_by_token_id[t]
       IN  /\ \A allowlist \in drop_by_id[parse_token_id(t)].config.transfer_key_allowlist :
                 account \in allowlist
           /\ check_key_owner(sender, key_info)
           /\ key_info.next_approval_id < MaxApprovals
           /\ key_info_by_token_id' =
                 [key_info_by_token_id EXCEPT ![t] = approved(verify_signature(@), account)]
    /\ UNCHANGED <<drop_by_id, asset_by_id, token_id_by_pk, tokens_per_owner, drop_ids_by_funder,
                   user_balance, fees_collected, settings, receipts, now, holdings>>
=============================================================================
