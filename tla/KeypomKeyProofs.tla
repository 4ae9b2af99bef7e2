-------------------------- MODULE KeypomKeyProofs --------------------------
(***************************************************************************)
(* Keys, for every instance of the contract.  What a step may do to a key: *)
(* its nonce counts what is signed for, and its approvals are its owner's. *)
(* What is true of the keys between steps: there are finitely many, so     *)
(* that they can be counted, the views list those that are there, and the  *)
(* payouts of a sale add up to its price.  And what is true of their       *)
(* claims: the callback of a claim finds its key, and however many uses a  *)
(* key has, they are never taken more often than its interval allows, and  *)
(* each has a nonce of its own.                                            *)
(***************************************************************************)
EXTENDS KeypomProofs, FoldProofs

\* Uses taken and approvals given raise the nonce, and nothing else does.
SignedOnce(old, new) ==
    new.message_nonce + new.remaining_uses - new.next_approval_id =
        old.message_nonce + old.remaining_uses - old.next_approval_id

\* What ApprovalsAreTheOwners says of one key.

ApprovedByOwner(old, new) ==
    \A a \in DOMAIN new.approved_account_ids :
        \/ /\ new.approved_account_ids[a] >= old.next_approval_id
           /\ new.approved_account_ids[a] < new.next_approval_id
        \/ /\ a \in DOMAIN old.approved_account_ids
           /\ new.approved_account_ids[a] = old.approved_account_ids[a]
           /\ new.owner_id = old.owner_id /\ new.pub_key = old.pub_key

KeysStep(keys, keys2) ==
    \A t \in DOMAIN keys \cap DOMAIN keys2 :
        SignedOnce(keys[t], keys2[t]) /\ ApprovedByOwner(keys[t], keys2[t])

KeysStepped == KeysStep(key_info_by_token_id, key_info_by_token_id')

-----------------------------------------------------------------------------

\* A key that is not touched breaks neither rule.
LEMMA SameKey ==
    ASSUME NEW key \in KeyInfo
    PROVE  SignedOnce(key, key) /\ ApprovedByOwner(key, key)
  BY DEF KeyInfo, SignedOnce, ApprovedByOwner

\* What the registry invariant says of one drop's keys.
LEMMA KeysTyped ==
    ASSUME Inv
    PROVE  \A t \in DOMAIN key_info_by_token_id : key_info_by_token_id[t] \in KeyInfo
  BY DEF Inv, Current, Registry, Typed, IsMap

\* Keys that stay as they are, come or go are no step of a key.
LEMMA SameKeys ==
    ASSUME Inv, \A t \in DOMAIN key_info_by_token_id \cap DOMAIN key_info_by_token_id' :
                    key_info_by_token_id'[t] = key_info_by_token_id[t]
    PROVE  KeysStepped
  BY KeysTyped, SameKey DEF KeysStep, KeysStepped

\* A callback or a claim may remove its own key.
LEMMA CleanedUpKeys ==
    ASSUME NEW t, NEW keys, NEW assets, NEW assets_withdrawn, NEW refund, NEW added,
           handle_key_cleanup(t, keys, assets, assets_withdrawn, refund, added)
    PROVE  \A u \in DOMAIN key_info_by_token_id' :
              u \in DOMAIN keys /\ key_info_by_token_id'[u] = keys[u]
  BY DEF handle_key_cleanup, Without, Restrict

\* on_assets_claimed removes keys and changes none.
LEMMA OnAssetsClaimedKeys ==
    ASSUME NEW t, NEW keys, NEW assets, NEW token_ids, NEW results,
           on_assets_claimed(t, keys, assets, token_ids, results)
    PROVE  \A u \in DOMAIN key_info_by_token_id' :
              u \in DOMAIN keys /\ key_info_by_token_id'[u] = keys[u]
  <1>1. \E assets2, withdrawn, refund, added :
            handle_key_cleanup(t, keys, assets2, withdrawn, refund, added)
    BY Zenon DEF on_assets_claimed
  <1> QED
    BY <1>1, CleanedUpKeys

\* internal_claim_assets removes keys and changes none.
LEMMA ClaimedAssetsKeys ==
    ASSUME NEW t, NEW keys, NEW claimed, NEW results, NEW lost,
           internal_claim_assets(t, keys, claimed, results, lost)
    PROVE  \A u \in DOMAIN key_info_by_token_id' :
              u \in DOMAIN keys /\ key_info_by_token_id'[u] = keys[u]
  <1>1. CASE is_awaited(claimed)
    BY <1>1 DEF internal_claim_assets
  <1>2. CASE ~is_awaited(claimed)
    <2>1. on_assets_claimed(t, keys, claimed.assets, claimed.token_ids, results)
      BY <1>2 DEF internal_claim_assets
    <2> QED
      BY <2>1, OnAssetsClaimedKeys
  <1> QED
    BY <1>1, <1>2

\* before_claim_logic takes one use and one signature.
LEMMA SpentUseKeys ==
    ASSUME Inv, NEW pk \in DOMAIN token_id_by_pk
    PROVE  KeysStep(key_info_by_token_id, keys_after_claim(pk))
  <1> DEFINE t == token_id_by_pk[pk]
             old == key_info_by_token_id[t]
             key == spend_use(old)
             keys == keys_after_claim(pk)
  <1>1. /\ t \in DOMAIN key_info_by_token_id /\ old \in KeyInfo /\ old.remaining_uses > 0
    BY DEF Inv, Current, Registry, Linked, Typed, IsMap
  <1>2. /\ keys[t] = key /\ DOMAIN keys = DOMAIN key_info_by_token_id
        /\ \A u \in DOMAIN keys : u # t => keys[u] = key_info_by_token_id[u]
    BY <1>1 DEF keys_after_claim
  <1>3. /\ key.message_nonce = old.message_nonce + 1
        /\ key.remaining_uses = old.remaining_uses - 1
        /\ key.approved_account_ids = old.approved_account_ids
        /\ key.next_approval_id = old.next_approval_id
        /\ key.owner_id = old.owner_id /\ key.pub_key = old.pub_key
    <2>1. verify_signature(old).message_nonce = old.message_nonce + 1
      BY <1>1 DEF KeyInfo, verify_signature
    <2>2. /\ verify_signature(old).remaining_uses = old.remaining_uses
          /\ verify_signature(old).approved_account_ids = old.approved_account_ids
          /\ verify_signature(old).next_approval_id = old.next_approval_id
          /\ verify_signature(old).owner_id = old.owner_id
          /\ verify_signature(old).pub_key = old.pub_key
          /\ verify_signature(old) \in KeyInfo
      BY <1>1 DEF KeyInfo, verify_signature
    <2> QED
      BY <2>1, <2>2 DEF KeyInfo, spend_use
  <1> HIDE DEF key, keys
  <1>4. SignedOnce(old, key) /\ ApprovedByOwner(old, key)
    BY <1>1, <1>3 DEF KeyInfo, SignedOnce, ApprovedByOwner
  <1> QED
    BY <1>2, <1>4, KeysTyped, SameKey DEF KeysStep, keys

\* A claim spends one use of the key that signs and moves its nonce on.
LEMMA ClaimKeys ==
    ASSUME Inv, NEW pk \in DOMAIN token_id_by_pk, NEW fc_args, NEW lost, Claim(pk, fc_args, lost)
    PROVE  KeysStepped
  <1> DEFINE t == token_id_by_pk[pk]
             keys == keys_after_claim(pk)
             claimed == assets_of_last_use(t, keys, fc_args)
  <1>1. internal_claim_assets(t, keys, claimed, << >>, lost)
    BY DEF Claim, claim_of
  <1>2. KeysStep(key_info_by_token_id, keys)
    BY SpentUseKeys
  <1> HIDE DEF keys, claimed
  <1> QED
    BY <1>1, <1>2, ClaimedAssetsKeys DEF KeysStep, KeysStepped

\* Keys are added under public keys the drop does not hold.
LEMMA NewKeysKeys ==
    ASSUME Inv, NEW d, NEW k, NEW uses, NEW key_data,
           internal_add_keys_to_account(d, k, uses, key_data),
           \A t \in DOMAIN key_info_by_token_id : parse_token_id(t) = d => ~(k <= t[2])
    PROVE  KeysStepped
  <1> DEFINE new == {<<d, i>> : i \in k .. k + Len(key_data) - 1}
  <1>1. ASSUME NEW t \in new, t \in DOMAIN key_info_by_token_id
        PROVE  FALSE
    BY <1>1 DEF parse_token_id
  <1>2. \A t \in DOMAIN key_info_by_token_id \ new :
            t \in DOMAIN key_info_by_token_id' => key_info_by_token_id'[t] = key_info_by_token_id[t]
    BY DEF internal_add_keys_to_account
  <1> HIDE DEF new
  <1> QED
    BY <1>1, <1>2, SameKeys

\* A transfer, with or without payouts, drops the approvals.
LEMMA TransferKeys ==
    ASSUME Inv, NEW sender, NEW pk \in DOMAIN token_id_by_pk, NEW receiver, NEW approval_id,
           NEW new_pk, internal_transfer(sender, pk, receiver, approval_id, new_pk)
    PROVE  KeysStepped
  <1> DEFINE t == token_id_by_pk[pk]
             old == key_info_by_token_id[t]
             key == transferred(old, receiver, new_pk)
  <1>1. t \in DOMAIN key_info_by_token_id /\ old \in KeyInfo
    BY DEF Inv, Current, Registry, Linked, Typed, IsMap
  <1>2. key_info_by_token_id' = [key_info_by_token_id EXCEPT ![t] = key]
    BY <1>1 DEF internal_transfer
  <1>3. /\ key.message_nonce = old.message_nonce
        /\ key.remaining_uses = old.remaining_uses
        /\ key.approved_account_ids = EmptyMap
        /\ key.next_approval_id = old.next_approval_id
    BY <1>1 DEF KeyInfo, transferred
  <1> HIDE DEF key
  <1>4. SignedOnce(old, key) /\ ApprovedByOwner(old, key)
    BY <1>1, <1>3 DEF KeyInfo, SignedOnce, ApprovedByOwner, EmptyMap
  <1> QED
    BY <1>1, <1>2, <1>4, KeysTyped, SameKey DEF KeysStep, KeysStepped

\* nft_approve adds an approval for the owner, or for the key itself.
LEMMA NftApproveKeys ==
    ASSUME Inv, NEW sender, NEW pk \in DOMAIN token_id_by_pk, NEW account,
           NftApprove(sender, pk, account)
    PROVE  KeysStepped
  <1> DEFINE t == token_id_by_pk[pk]
             old == key_info_by_token_id[t]
             signed == verify_signature(old)
             key == approved(signed, account)
  <1>1. t \in DOMAIN key_info_by_token_id /\ old \in KeyInfo
    BY DEF Inv, Current, Registry, Linked, Typed, IsMap
  <1>2. key_info_by_token_id' = [key_info_by_token_id EXCEPT ![t] = key]
    BY <1>1 DEF NftApprove
  <1>3. /\ signed \in KeyInfo
        /\ signed.message_nonce = old.message_nonce + 1
        /\ signed.remaining_uses = old.remaining_uses
        /\ signed.approved_account_ids = old.approved_account_ids
        /\ signed.next_approval_id = old.next_approval_id
        /\ signed.owner_id = old.owner_id /\ signed.pub_key = old.pub_key
    BY <1>1 DEF KeyInfo, verify_signature
  <1> HIDE DEF signed
  <1>4. /\ key.message_nonce = signed.message_nonce
        /\ key.remaining_uses = signed.remaining_uses
        /\ key.approved_account_ids =
              With(signed.approved_account_ids, account, signed.next_approval_id)
        /\ key.next_approval_id = signed.next_approval_id + 1
        /\ key.owner_id = signed.owner_id /\ key.pub_key = signed.pub_key
    BY <1>3 DEF KeyInfo, approved
  <1> HIDE DEF key
  <1>5. SignedOnce(old, key)
    BY <1>1, <1>3, <1>4 DEF KeyInfo, SignedOnce
  <1>6. ApprovedByOwner(old, key)
    BY <1>1, <1>3, <1>4 DEF KeyInfo, ApprovedByOwner, With
  <1> QED
    BY <1>1, <1>2, <1>5, <1>6, KeysTyped, SameKey DEF KeysStep, KeysStepped, key

-----------------------------------------------------------------------------

\* A drop's creation brings keys of a drop that had none.
LEMMA CreateDropKeys ==
    ASSUME Inv, NEW caller, NEW d, NEW shape, NEW key_data, NEW deposit, NEW keep,
           CreateDrop(caller, d, shape, key_data, deposit, keep)
    PROVE  KeysStepped
  <1>1. /\ d \notin DOMAIN drop_by_id
        /\ internal_add_keys_to_account(d, 0, max_key_uses(shape.asset_data), key_data)
    BY DEF CreateDrop
  <1>2. \A t \in DOMAIN key_info_by_token_id : parse_token_id(t) # d
    BY <1>1 DEF Inv, Current, Registry, Housed
  <1> QED
    BY <1>1, <1>2, NewKeysKeys

\* add_keys numbers its keys on from the drop's next key ID.
LEMMA AddKeysKeys ==
    ASSUME Inv, NEW caller, NEW d, NEW key_data, NEW deposit, NEW keep,
           AddKeys(caller, d, key_data, deposit, keep)
    PROVE  KeysStepped
  <1> DEFINE k == drop_by_id[d].next_key_id
  <1>1. /\ d \in DOMAIN drop_by_id
        /\ internal_add_keys_to_account(d, k, drop_by_id[d].max_key_uses, key_data)
    BY DEF AddKeys
  <1>2. k \in Nat
    BY <1>1, StorageAssumption DEF Inv, Current, Registry, Typed, IsMap, Drop
  <1>3. ASSUME NEW t \in DOMAIN key_info_by_token_id, parse_token_id(t) = d
        PROVE  ~(k <= t[2])
    <2>1. t[2] \in Nat /\ t[2] < k
      BY <1>3 DEF Inv, Current, Registry, Typed, IsMap, Housed, TokenIds
    <2> QED
      BY <1>2, <2>1
  <1> QED
    BY <1>1, <1>3, NewKeysKeys

\* The callbacks of a claim keep the rules of keys.
LEMMA ClaimCallbackKeys == ASSUME Inv, SomeClaimCallback PROVE KeysStepped
  <1>1. ASSUME NEW r, OnAccountCreationFailed(r) PROVE KeysStepped
    BY <1>1, CleanedUpKeys, SameKeys DEF OnAccountCreationFailed
  <1>2. ASSUME NEW r, NEW lost, OnNewAccountCreated(r, lost) PROVE KeysStepped
    BY <1>2, ClaimedAssetsKeys, SameKeys DEF OnNewAccountCreated, hand_out
  <1>3. ASSUME NEW r, NEW lost, OnAssetsClaimed(r, lost) PROVE KeysStepped
    BY <1>3, OnAssetsClaimedKeys, SameKeys DEF OnAssetsClaimed
  <1> QED
    BY <1>1, <1>2, <1>3 DEF SomeClaimCallback

\* Every step keeps the rules of keys: one case for each kind of operation.
LEMMA NextKeys == Inv /\ [Next]_vars => KeysStepped
  <1> SUFFICES ASSUME Inv, [Next]_vars PROVE KeysStepped
    OBVIOUS
  <1>1. CASE SomeDropCreated
    BY <1>1, CreateDropKeys DEF SomeDropCreated
  <1>2. CASE SomeKeysAdded
    BY <1>2, AddKeysKeys DEF SomeKeysAdded
  <1>3. CASE SomeKeysDeleted
    BY <1>3, SameKeys DEF SomeKeysDeleted, DeleteKeys, Without, Restrict
  <1>4. CASE SomeBatchCreated
    BY <1>4, SameKeys DEF SomeBatchCreated, CreateDropBatch
  <1>5. CASE SomeClaim
    BY <1>5, ClaimKeys DEF SomeClaim
  <1>6. CASE SomeAccountClaim
    BY <1>6, SpentUseKeys DEF SomeAccountClaim, CreateAccountAndClaim, KeysStepped
  <1>7. CASE SomeClaimCallback
    BY <1>7, ClaimCallbackKeys
  <1>8. CASE SomeTransfer \/ SomeApproval
    BY <1>8, TransferKeys, NftApproveKeys DEF SomeTransfer, SomeApproval
  <1>9. CASE UNCHANGED registry
    BY <1>9, SameKeys DEF registry
  <1> QED
    BY <1>1, <1>2, <1>3, <1>4, <1>5, <1>6, <1>7, <1>8, <1>9, StepsByKind, RegistryUntouched
       DEF RegistryStep, vars

\* An approved account can use its approval only while the key is with the
\* owner who gave it: nft_transfer ends every approval of the key.
THEOREM ApprovalsAreTheOwnersHolds == Spec => ApprovalsAreTheOwners
  <1>1. Inv /\ [Next]_vars => [ApprovalsAreTheOwnersStep]_vars
    BY NextKeys DEF KeysStepped, KeysStep, ApprovedByOwner, ApprovalsAreTheOwnersStep
  <1> QED
    BY <1>1, InvAlways, PTL DEF Spec, ApprovalsAreTheOwners

-----------------------------------------------------------------------------
(* Drops come from their funders only.                                     *)

\* The drops that stay are the same and none comes.
SameDrops ==
    \A d \in DOMAIN drop_by_id' :
        /\ d \in DOMAIN drop_by_id
        /\ drop_by_id'[d].max_key_uses = drop_by_id[d].max_key_uses
        /\ drop_by_id'[d].asset_data_for_uses = drop_by_id[d].asset_data_for_uses

\* A claim that hands out assets, at once or in a callback, brings no drop.
LEMMA OnAssetsClaimedDrops ==
    ASSUME NEW t, NEW keys, NEW assets, NEW token_ids, NEW results,
           on_assets_claimed(t, keys, assets, token_ids, results)
    PROVE  SameDrops
  <1>1. \E assets2, withdrawn, refund, added :
            handle_key_cleanup(t, keys, assets2, withdrawn, refund, added)
    BY Zenon DEF on_assets_claimed
  <1> QED
    BY <1>1 DEF handle_key_cleanup, Without, Restrict, SameDrops

\* internal_claim_assets leaves the drops alone or cleans one up.
LEMMA ClaimedAssetsDrops ==
    ASSUME NEW t, NEW keys, NEW claimed, NEW results, NEW lost,
           internal_claim_assets(t, keys, claimed, results, lost)
    PROVE  SameDrops
  <1>1. \/ UNCHANGED drop_by_id
        \/ on_assets_claimed(t, keys, claimed.assets, claimed.token_ids, results)
    BY DEF internal_claim_assets
  <1>2. UNCHANGED drop_by_id => SameDrops
    BY DEF SameDrops
  <1> QED
    BY <1>1, <1>2, OnAssetsClaimedDrops

\* The callbacks of a claim bring no drop.
LEMMA ClaimCallbackDrops == ASSUME SomeClaimCallback PROVE SameDrops
  <1>1. ASSUME NEW r, OnAccountCreationFailed(r) PROVE SameDrops
    BY <1>1 DEF OnAccountCreationFailed, handle_key_cleanup, Without, Restrict, SameDrops
  <1>2. ASSUME NEW r, NEW lost, OnNewAccountCreated(r, lost) PROVE SameDrops
    BY <1>2, ClaimedAssetsDrops DEF OnNewAccountCreated, hand_out
  <1>3. ASSUME NEW r, NEW lost, OnAssetsClaimed(r, lost) PROVE SameDrops
    <2>1. \/ UNCHANGED drop_by_id
          \/ \E t, keys, assets, token_ids, results :
                on_assets_claimed(t, keys, assets, token_ids, results)
      BY <1>3, Zenon DEF OnAssetsClaimed
    <2>2. UNCHANGED drop_by_id => SameDrops
      BY DEF SameDrops
    <2> QED
      BY <2>1, <2>2, OnAssetsClaimedDrops
  <1> QED
    BY <1>1, <1>2, <1>3 DEF SomeClaimCallback

-----------------------------------------------------------------------------
(* There are finitely many drops and keys.                                 *)

FinitelyMany == IsFiniteSet(DOMAIN drop_by_id) /\ IsFiniteSet(DOMAIN receipts)

\* A batch brings finitely many drops.
LEMMA BatchIsFinite ==
    ASSUME NEW batch \in Batches
    PROVE  IsFiniteSet({batch[i].drop_id : i \in DOMAIN batch})
  <1>1. DOMAIN batch = 1 .. Len(batch) /\ Len(batch) \in Nat
    BY BatchesAssumption, LenProperties
  <1>2. IsFiniteSet(DOMAIN batch)
    BY <1>1, FS_Interval
  <1>3. [i \in DOMAIN batch |-> batch[i].drop_id]
            \in Surjection(DOMAIN batch, {batch[i].drop_id : i \in DOMAIN batch})
    BY DEF Surjection
  <1> QED
    BY <1>2, <1>3, FS_Surjection

\* Drops come one at a time or in a batch.
LEMMA DropsStayFinite ==
    ASSUME Inv, [Next]_vars, IsFiniteSet(DOMAIN drop_by_id)
    PROVE  IsFiniteSet(DOMAIN drop_by_id')
  <1>1. CASE SomeDropCreated
    BY <1>1, FS_AddElement DEF SomeDropCreated, CreateDrop, With
  <1>2. ASSUME NEW caller, NEW batch \in Batches, NEW deposit, NEW keep, NEW metadata,
               NEW on_success, NEW call_fails,
               CreateDropBatch(caller, batch, deposit, keep, metadata, on_success, call_fails)
        PROVE  IsFiniteSet(DOMAIN drop_by_id')
    <2>1. DOMAIN drop_by_id' = DOMAIN drop_by_id \cup {batch[i].drop_id : i \in DOMAIN batch}
      BY <1>2 DEF CreateDropBatch
    <2>2. IsFiniteSet({batch[i].drop_id : i \in DOMAIN batch})
      BY BatchIsFinite
    <2> HIDE DEF CreateDropBatch
    <2> QED
      BY <2>1, <2>2, FS_Union
  <1>3. \/ SomeDropCreated \/ SomeBatchCreated
        \/ DOMAIN drop_by_id' \subseteq DOMAIN drop_by_id
    <2>1. CASE SomeKeysAdded
      BY <2>1 DEF SomeKeysAdded, AddKeys
    <2>2. CASE SomeKeysDeleted
      BY <2>2 DEF SomeKeysDeleted, DeleteKeys, Without, Restrict
    <2>3. CASE SomeClaim
      BY <2>3, ClaimedAssetsDrops DEF SomeClaim, Claim, claim_of, SameDrops
    <2>4. CASE SomeAccountClaim \/ SomeTransfer \/ SomeApproval
      BY <2>4 DEF SomeAccountClaim, SomeTransfer, SomeApproval, CreateAccountAndClaim,
                  internal_transfer, NftApprove
    <2>5. CASE SomeClaimCallback
      BY <2>5, ClaimCallbackDrops DEF SameDrops
    <2>6. CASE UNCHANGED registry
      BY <2>6 DEF registry
    <2> QED
      BY <2>1, <2>2, <2>3, <2>4, <2>5, <2>6, StepsByKind, RegistryUntouched DEF RegistryStep, vars
  <1> QED
    BY <1>1, <1>2, <1>3, FS_Subset DEF SomeBatchCreated

\* Promises in flight end, or one more takes a free place.
OneMoreReceipt ==
    \/ DOMAIN receipts' \subseteq DOMAIN receipts
    \/ \E r \in ReceiptIds : DOMAIN receipts' = DOMAIN receipts \cup {r}

LEMMA ReceiptsComeSingly == ASSUME [Next]_vars PROVE OneMoreReceipt
  <1>1. ASSUME NEW receipt, Fire(receipt) PROVE OneMoreReceipt
    <2>1. NewReceipt \in ReceiptIds
      BY <1>1 DEF Fire, FreeReceipts, NewReceipt
    <2> QED
      BY <1>1, <2>1 DEF Fire, With, OneMoreReceipt
  <1>2. ASSUME DOMAIN receipts' \subseteq DOMAIN receipts PROVE OneMoreReceipt
    BY <1>2 DEF OneMoreReceipt
  <1>3. ASSUME NEW r, Resolve(r) PROVE OneMoreReceipt
    BY <1>2, <1>3 DEF Resolve, Without, Restrict
  <1>4. CASE SomeDropCreated \/ SomeKeysAdded \/ SomeKeysDeleted \/ SomeBatchCreated
             \/ SomeTransfer \/ SomeApproval
    <2>1. UNCHANGED receipts
      <3>1. CASE SomeDropCreated
        BY <3>1 DEF SomeDropCreated, CreateDrop
      <3>4. CASE SomeKeysAdded
        BY <3>4 DEF SomeKeysAdded, AddKeys
      <3>5. CASE SomeKeysDeleted
        BY <3>5 DEF SomeKeysDeleted, DeleteKeys
      <3>2. CASE SomeBatchCreated
        BY <3>2 DEF SomeBatchCreated, CreateDropBatch
      <3>3. CASE SomeTransfer \/ SomeApproval
        BY <3>3 DEF SomeTransfer, SomeApproval, internal_transfer, NftApprove
      <3> QED
        BY <1>4, <3>1, <3>2, <3>3, <3>4, <3>5
    <2> QED
      BY <1>2, <2>1
  <1>5. CASE SomeClaim
    BY <1>1, <1>2, <1>5 DEF SomeClaim, Claim, claim_of
  <1>6. CASE SomeAccountClaim
    BY <1>1, <1>6 DEF SomeAccountClaim, CreateAccountAndClaim
  <1>7. CASE SomeClaimCallback
    <2>1. ASSUME NEW r, NEW lost, OnNewAccountCreated(r, lost)
          PROVE  OneMoreReceipt
      BY <1>2, <2>1 DEF OnNewAccountCreated, hand_out, Without, Restrict
    <2> QED
      BY <1>3, <1>7, <2>1 DEF SomeClaimCallback, OnAccountCreationFailed, OnAssetsClaimed
  <1>8. CASE SettingsStep \/ Tick
    BY <1>2, <1>8 DEF SettingsStep, Tick, FreezeContract, UnfreezeContract, SetRootAccount, SetFees,
                SetFeesPerUser, AddSigningAdmin, AddSigningPks, RemoveSigningPks,
                besides_signing, besides_settings
  <1>9. CASE BalanceStep
    BY <1>1, <1>2, <1>3, <1>9 DEF BalanceStep, AddToBalance, WithdrawFromBalance, SetFunderMetadata, WithdrawFees,
                OnWithdrawFees
  <1>10. CASE TokensMoved
    <2>1. CASE \/ \E c, amount, d : FtOnTransfer(c, amount, d)
               \/ \E c, token, sender, d : NftOnTransfer(c, token, sender, d)
      BY <1>2, <2>1 DEF FtOnTransfer, NftOnTransfer
    <2>2. CASE \/ \E caller, d, c, amount : WithdrawFtBalance(caller, d, c, amount)
               \/ \E caller, d, c, tokens : WithdrawNftTokens(caller, d, c, tokens)
      BY <1>1, <2>2, Zenon DEF WithdrawFtBalance, WithdrawNftTokens
    <2>3. CASE \E r, succeeded : FtResolveRefund(r, succeeded) \/ ResolveNftRefund(r, succeeded)
      BY <1>3, <2>3, Zenon DEF FtResolveRefund, ResolveNftRefund
    <2> QED
      BY <1>10, <2>1, <2>2, <2>3 DEF TokensMoved
  <1>11. ASSUME NEW r, OnNewAccountCreatedPanics(r)
         PROVE  OneMoreReceipt
    BY <1>3, <1>11 DEF OnNewAccountCreatedPanics, CallbackPanics
  <1>12. CASE UNCHANGED vars
    BY <1>2, <1>12 DEF vars
  <1> QED
    BY <1>4, <1>5, <1>6, <1>7, <1>8, <1>9, <1>10, <1>11, <1>12, StepsByKind DEF RegistryStep

LEMMA ReceiptsStayFinite ==
    ASSUME [Next]_vars, IsFiniteSet(DOMAIN receipts)
    PROVE  IsFiniteSet(DOMAIN receipts')
  BY ReceiptsComeSingly, FS_Subset, FS_AddElement DEF OneMoreReceipt

\* There are always finitely many drops and promises in flight.
LEMMA FinitelyManyAlways == Spec => []FinitelyMany
  <1>1. Init => FinitelyMany
    BY FS_EmptySet DEF Init, EmptyMap, FinitelyMany
  <1>2. Inv /\ FinitelyMany /\ [Next]_vars => FinitelyMany'
    BY DropsStayFinite, ReceiptsStayFinite DEF FinitelyMany
  <1> QED
    BY <1>1, <1>2, InvAlways, PTL DEF Spec

\* Pairs of finitely many drops and numbers are finitely many.
LEMMA FinitelyManyPairs ==
    ASSUME NEW drops, NEW numbers, IsFiniteSet(drops), IsFiniteSet(numbers),
           NEW ids, NEW tokens, tokens \subseteq ids \X numbers, \A t \in tokens : t[1] \in drops
    PROVE  IsFiniteSet(tokens)
  <1>1. tokens \subseteq drops \X numbers
    OBVIOUS
  <1>2. IsFiniteSet(drops \X numbers)
    BY FS_Product
  <1> QED
    BY <1>1, <1>2, FS_Subset

\* A drop's keys are numbered below its next key ID, so there are finitely many keys too.
LEMMA KeysAreFinite ==
    ASSUME Inv, FinitelyMany
    PROVE  IsFiniteSet(DOMAIN key_info_by_token_id) /\ IsFiniteSet(DOMAIN token_id_by_pk)
  <1>1. /\ DOMAIN key_info_by_token_id \subseteq DropIds \X (0 .. MaxKeyId - 1)
        /\ \A t \in DOMAIN key_info_by_token_id : t[1] \in DOMAIN drop_by_id
    BY DEF Inv, Current, Registry, Typed, IsMap, Housed, parse_token_id, TokenIds
  <1>2. IsFiniteSet(0 .. MaxKeyId - 1)
    BY StorageAssumption, FS_Interval
  <1>3. IsFiniteSet(DOMAIN key_info_by_token_id)
    BY <1>1, <1>2, FinitelyManyPairs DEF FinitelyMany
  <1>4. token_id_by_pk \in Injection(DOMAIN token_id_by_pk, DOMAIN key_info_by_token_id)
    BY DEF Inv, Current, Registry, Typed, IsMap, Linked, Injection, IsInjective
  <1> QED
    BY <1>3, <1>4, FS_Injection

-----------------------------------------------------------------------------
(* The views.                                                              *)

\* The token of a key that is there.
token_of(t) ==
    [token_id |-> t, owner_id |-> owner_or_keypom(key_info_by_token_id[t].owner_id),
     approved_account_ids |-> key_info_by_token_id[t].approved_account_ids,
     royalty |-> drop_by_id[parse_token_id(t)].config.royalties]

\* nft_token has information on every key, and none panics.
LEMMA TokensAreShown ==
    ASSUME Inv, NEW t \in DOMAIN key_info_by_token_id
    PROVE  nft_token(t) # None /\ unwrap(nft_token(t)) = token_of(t)
  <1>1. parse_token_id(t) \in DOMAIN drop_by_id
    BY DEF Inv, Current, Registry, Housed
  <1>2. nft_token(t) = Some(token_of(t))
    BY <1>1 DEF nft_token, token_of
  <1>3. \A v : Some(v) # None /\ unwrap(Some(v)) = v
    BY DEF Some, None, unwrap
  <1> QED
    BY <1>2, <1>3

\* The keys with a public key are those with uses left.
LEMMA ListedKeysAreUsable ==
    ASSUME Inv
    PROVE  all_tokens = {t \in DOMAIN key_info_by_token_id : usable(t)}
  BY DEF Inv, Current, Registry, Linked, all_tokens, usable

\* A key is shown as an account's own if it names the account as its owner.
LEMMA ShownOwner ==
    ASSUME Inv, KeypomAccount \notin Accounts, NEW a \in Accounts,
           NEW t \in DOMAIN key_info_by_token_id
    PROVE  owner_or_keypom(key_info_by_token_id[t].owner_id) = a
              <=> key_info_by_token_id[t].owner_id = Some(a)
  <1>1. key_info_by_token_id[t].owner_id \in AccountOptions
    BY DEF Inv, Current, Registry, Typed, IsMap, KeyInfo
  <1>2. owner_or_keypom(None) = KeypomAccount
    BY DEF owner_or_keypom, unwrap_or
  <1>3. \A b : owner_or_keypom(Some(b)) = b
    BY DEF owner_or_keypom, unwrap_or, unwrap, Some, None
  <1>4. \A b : Some(b) # None /\ (Some(b) = Some(a) => b = a)
    BY DEF Some, None
  <1> QED
    BY <1>1, <1>2, <1>3, <1>4 DEF AccountOptions

\* The list of an account's keys.
LEMMA OwnerViewAgrees ==
    ASSUME Inv, KeypomAccount \notin Accounts, NEW a \in Accounts
    PROVE  /\ nft_tokens_defined(tokens_per_owner[a])
           /\ nft_tokens_for_owner(a) = {token \in nft_tokens : token.owner_id = a}
  <1> DEFINE keys == DOMAIN key_info_by_token_id
  <1>1. tokens_per_owner[a] = {t \in keys : usable(t) /\ key_info_by_token_id[t].owner_id = Some(a)}
    BY DEF Inv, Current, Registry, Owned, usable
  <1>2. \A t \in keys : token_of(t).owner_id = a <=> key_info_by_token_id[t].owner_id = Some(a)
    BY ShownOwner DEF token_of
  <1>3. tokens_per_owner[a] = {t \in all_tokens : token_of(t).owner_id = a}
    BY <1>1, <1>2, ListedKeysAreUsable
  <1>4. \A t \in all_tokens : nft_token(t) # None /\ unwrap(nft_token(t)) = token_of(t)
    BY TokensAreShown, ListedKeysAreUsable
  <1>5. nft_tokens_defined(tokens_per_owner[a])
    BY <1>3, <1>4 DEF nft_tokens_defined
  <1>6. nft_tokens_for_owner(a) = {token_of(t) : t \in tokens_per_owner[a]}
    BY <1>3, <1>4 DEF nft_tokens_for_owner
  <1>7. nft_tokens = {token_of(t) : t \in all_tokens}
    BY <1>4 DEF nft_tokens
  <1> HIDE DEF keys
  <1> QED
    BY <1>3, <1>5, <1>6, <1>7

\* The list of a funder's drops.
LEMMA FunderViewAgrees ==
    ASSUME Inv, NEW a \in Accounts
    PROVE  /\ get_drops_for_funder_defined(a)
           /\ get_drops_for_funder(a) = {drop \in all_drops : drop.funder_id = a}
  <1>1. drop_ids_by_funder[a] = {d \in DOMAIN drop_by_id : drop_by_id[d].funder_id = a}
    BY DEF Inv, Current, Registry, Funded
  <1>2. \A d : get_drop_information(d).funder_id = drop_by_id[d].funder_id
    BY DEF get_drop_information
  <1>3. get_drops_for_funder_defined(a)
    BY <1>1 DEF get_drops_for_funder_defined
  <1> QED
    BY <1>1, <1>2, <1>3 DEF get_drops_for_funder, all_drops

\* The keys of the drops are all keys.
LEMMA SupplyOfDrops ==
    ASSUME Inv, FinitelyMany
    PROVE  SumFunction([d \in DOMAIN drop_by_id |-> get_key_supply_for_drop(d)])
               = Cardinality(DOMAIN key_info_by_token_id)
  <1> DEFINE keys == DOMAIN key_info_by_token_id
             part == [d \in DOMAIN drop_by_id |-> KeysOf(key_info_by_token_id, d)]
  <1>1. IsFiniteSet(DOMAIN drop_by_id) /\ IsFiniteSet(keys)
    BY KeysAreFinite DEF FinitelyMany
  <1>2. \A d \in DOMAIN drop_by_id : part[d] \subseteq keys
    BY DEF KeysOf
  <1>3. \A d \in DOMAIN drop_by_id : IsFiniteSet(part[d])
    BY <1>1, <1>2, FS_Subset
  <1>4. \A d, e \in DOMAIN drop_by_id : d # e => part[d] \cap part[e] = {}
    BY DEF KeysOf
  <1>5. UNION {part[d] : d \in DOMAIN drop_by_id} = keys
    <2>1. \A t \in keys : parse_token_id(t) \in DOMAIN drop_by_id
      BY DEF Inv, Current, Registry, Housed
    <2>2. \A t \in keys : t \in part[parse_token_id(t)]
      BY <2>1 DEF KeysOf
    <2> HIDE DEF part, keys
    <2> QED
      BY <1>2, <2>1, <2>2
  <1>6. \A d \in DOMAIN drop_by_id : Cardinality(part[d]) = get_key_supply_for_drop(d)
    BY DEF get_key_supply_for_drop
  <1> HIDE DEF part, keys
  <1>7. SumFunctionOnSet([d \in DOMAIN drop_by_id |-> Cardinality(part[d])], DOMAIN drop_by_id)
            = Cardinality(keys)
    BY <1>1, <1>3, <1>4, <1>5, SumOfSizes
  <1>8. [d \in DOMAIN drop_by_id |-> get_key_supply_for_drop(d)]
            = [d \in DOMAIN drop_by_id |-> Cardinality(part[d])]
    BY <1>6
  <1> QED
    BY <1>7, <1>8 DEF SumFunction, keys

\* The keys that can be found by their public keys, and those that cannot.
LEMMA SupplyOfKeys ==
    ASSUME Inv, FinitelyMany
    PROVE  Cardinality(DOMAIN key_info_by_token_id) =
              nft_total_supply + Cardinality({t \in DOMAIN key_info_by_token_id : ~usable(t)})
  <1> DEFINE keys == DOMAIN key_info_by_token_id
             listed == {t \in keys : usable(t)}
             spent == {t \in keys : ~usable(t)}
  <1>1. IsFiniteSet(keys) /\ IsFiniteSet(DOMAIN token_id_by_pk)
    BY KeysAreFinite
  <1>2. IsFiniteSet(listed) /\ IsFiniteSet(spent)
    BY <1>1, FS_Subset
  <1>3. Cardinality(listed) = Cardinality(DOMAIN token_id_by_pk)
    <2>1. token_id_by_pk \in Bijection(DOMAIN token_id_by_pk, listed)
      BY DEF Inv, Current, Registry, Typed, IsMap, Linked, usable, Bijection, Injection, Surjection,
             IsInjective
    <2>2. ExistsBijection(DOMAIN token_id_by_pk, listed)
      BY <2>1 DEF ExistsBijection
    <2> QED
      BY <1>1, <2>2, FS_Bijection
  <1>4. listed \cup spent = keys /\ listed \cap spent = {}
    OBVIOUS
  <1> HIDE DEF keys, listed, spent
  <1>5. Cardinality(keys) = Cardinality(listed) + Cardinality(spent)
    <2>1. Cardinality(keys) = Cardinality(listed) + Cardinality(spent) - Cardinality(listed \cap spent)
      BY <1>2, <1>4, FS_Union
    <2>2. Cardinality(listed \cap spent) = 0
      BY <1>4, FS_EmptySet
    <2> QED
      BY <1>2, <2>1, <2>2, FS_CardinalityType
  <1> QED
    BY <1>3, <1>5 DEF keys, spent, nft_total_supply

\* The views' lists name only what is there, and the same keys and drops whether they are asked by
\* key, by owner, by funder or by drop (nft_tokens, nft_tokens_for_owner, get_drops_for_funder,
\* get_key_supply_for_drop), as long as no key is given to the contract itself, whose keys are
\* listed under no owner.
THEOREM EnumerationsAgreeHolds ==
    ASSUME KeypomAccount \notin Accounts
    PROVE  Spec => []EnumerationsAgree
  <1>1. ASSUME Inv, FinitelyMany PROVE EnumerationsAgree
    <2>1. nft_tokens_defined(all_tokens)
      BY <1>1, TokensAreShown, ListedKeysAreUsable DEF nft_tokens_defined
    <2> QED
      BY <1>1, <2>1, OwnerViewAgrees, FunderViewAgrees, SupplyOfDrops, SupplyOfKeys
         DEF EnumerationsAgree
  <1> QED
    BY <1>1, InvAlways, FinitelyManyAlways, PTL

-----------------------------------------------------------------------------
(* Payouts.                                                                *)

\* A quotient rounded down leaves less than the divisor.
LEMMA Quotient ==
    ASSUME NEW n \in Nat, NEW d \in Nat \ {0}
    PROVE  \E q \in Nat, k \in 0 .. d - 1 : n \div d = q /\ n % d = k /\ n = d * q + k
  <1> DEFINE q == n \div d
             k == n % d
  <1>1. q \in Int /\ k \in 0 .. d - 1
    OBVIOUS
  <1>2. k = n - d * q
    OBVIOUS
  <1> HIDE DEF q, k
  <1>3. d * q \in Int
    BY <1>1
  <1>4. n = d * q + k
    BY <1>1, <1>2, <1>3
  <1>5. q \in Nat
    <2>1. SUFFICES ASSUME q <= -1 PROVE FALSE
      BY <1>1
    <2>2. d * q <= d * (-1)
      BY <1>1, <2>1
    <2> QED
      BY <1>1, <1>4, <2>2
  <1> QED
    BY <1>1, <1>4, <1>5 DEF q, k

\* Of two multiples of d less than n multiples of it apart, the smaller is less than n below.
LEMMA MultiplesApart ==
    ASSUME NEW d \in Nat \ {0}, NEW p \in Nat, NEW q \in Nat, NEW n \in Nat \ {0}, NEW rest \in Nat,
           d * p = d * q + rest, rest <= n * (d - 1)
    PROVE  q \in p - n + 1 .. p
  <1>1. rest < n * d
    OBVIOUS
  <1>2. d * (p - q) = rest
    OBVIOUS
  <1>3. p - q >= 0
    <2>1. SUFFICES ASSUME p - q <= -1 PROVE FALSE
      OBVIOUS
    <2>2. d * (q - p) >= d * 1
      BY <2>1
    <2> QED
      BY <1>2, <2>2
  <1>4. p - q < n
    <2>1. SUFFICES ASSUME p - q >= n PROVE FALSE
      OBVIOUS
    <2>2. d * (p - q) >= d * n
      BY <2>1
    <2> QED
      BY <1>1, <1>2, <2>2
  <1> QED
    BY <1>3, <1>4

\* The royalties of the others and what they leave to the owner are the whole.
LEMMA SharesAreWhole ==
    ASSUME NEW owner_id, NEW royalties, Amounts(royalties), owner_share(owner_id, royalties) \in Nat
    PROVE  LET share == [a \in payees(owner_id, royalties) |-> share_of(a, owner_id, royalties)]
           IN  Amounts(share) /\ SumFunction(share) = FullShare
  <1> DEFINE share == [a \in payees(owner_id, royalties) |-> share_of(a, owner_id, royalties)]
             others == DOMAIN royalties \ {owner_id}
  <1>1. DOMAIN share = others \cup {owner_id} /\ owner_id \notin others
    BY DEF payees
  <1>2. IsFiniteSet(others) /\ IsFiniteSet(others \cup {owner_id})
    BY FS_Subset, FS_AddElement DEF Amounts
  <1>3. \A a \in others : share[a] = royalties[a] /\ royalties[a] \in Nat
    BY DEF share_of, payees, Amounts
  <1>4. share[owner_id] = owner_share(owner_id, royalties)
    BY DEF share_of, payees
  <1> DEFINE rest == SumFunctionOnSet(royalties, others)
  <1>5. rest \in Nat
    BY <1>2, <1>3, SumNat
  <1>6. owner_share(owner_id, royalties) = FullShare - rest
    BY DEF owner_share
  <1> HIDE DEF share, others
  <1>7. SumFunctionOnSet(share, others) = rest
    BY <1>2, <1>3, SumSame
  <1>8. \A a \in others \cup {owner_id} : share[a] \in Nat
    BY <1>3, <1>4
  <1>9. SumFunctionOnSet(share, others \cup {owner_id}) = share[owner_id] + SumFunctionOnSet(share, others)
    BY <1>1, <1>2, <1>8, SumWith
  <1> HIDE DEF rest
  <1>10. SumFunction(share) = FullShare
    BY <1>1, <1>4, <1>5, <1>6, <1>7, <1>9, RoyaltiesAssumption DEF SumFunction
  <1> QED
    BY <1>1, <1>2, <1>8, <1>10 DEF Amounts, share

\* Each payee's share of the price is rounded down by itself.
LEMMA PayoutOfShares ==
    ASSUME NEW share, Amounts(share), DOMAIN share # {}, SumFunction(share) = FullShare,
           NEW price \in Nat, NEW payout, DOMAIN payout = DOMAIN share,
           \A a \in DOMAIN share : payout[a] = (share[a] * price) \div FullShare
    PROVE  SumFunction(payout) \in price - Cardinality(DOMAIN payout) + 1 .. price
  <1> DEFINE all == DOMAIN share
             due == [a \in all |-> price * share[a]]
             whole == [a \in all |-> FullShare * payout[a]]
             rest == [a \in all |-> due[a] % FullShare]
  <1>1. IsFiniteSet(all) /\ FullShare \in Nat \ {0}
    BY RoyaltiesAssumption DEF Amounts
  <1>2. ASSUME NEW a \in all
        PROVE  /\ share[a] \in Nat /\ due[a] \in Nat /\ payout[a] \in Nat
               /\ whole[a] \in Nat /\ rest[a] \in Nat /\ rest[a] <= FullShare - 1
               /\ due[a] = whole[a] + rest[a]
    <2>1. share[a] \in Nat
      BY DEF Amounts
    <2>2. share[a] * price = price * share[a] /\ price * share[a] \in Nat
      BY <2>1
    <2>3. payout[a] = due[a] \div FullShare /\ due[a] \in Nat
      BY <2>2
    <2>4. PICK q \in Nat, k \in 0 .. FullShare - 1 :
             /\ due[a] \div FullShare = q /\ due[a] % FullShare = k
             /\ due[a] = FullShare * q + k
      BY <1>1, <2>3, Quotient
    <2>5. payout[a] = q /\ whole[a] = FullShare * q /\ rest[a] = k
      BY <2>3, <2>4
    <2>6. FullShare * q \in Nat
      BY <1>1
    <2> HIDE DEF due, whole, rest
    <2>7. rest[a] \in Nat /\ rest[a] <= FullShare - 1
      BY <1>1, <2>5
    <2>8. due[a] = whole[a] + rest[a]
      BY <2>4, <2>5
    <2>9. payout[a] \in Nat /\ whole[a] \in Nat
      BY <2>5, <2>6
    <2> QED
      BY <2>1, <2>3, <2>7, <2>8, <2>9
  <1> DEFINE most == [a \in all |-> FullShare - 1]
  <1>3. SumFunctionOnSet(due, all) = price * FullShare
    <2>1. \A a \in all : share[a] \in Nat /\ due[a] = price * share[a]
      BY <1>2
    <2> HIDE DEF due
    <2>2. SumFunctionOnSet(due, all) = price * SumFunctionOnSet(share, all)
      BY <1>1, <2>1, SumScaled
    <2> QED
      BY <2>2 DEF SumFunction
  <1>4. SumFunctionOnSet(whole, all) = FullShare * SumFunctionOnSet(payout, all)
    <2>1. \A a \in all : payout[a] \in Nat /\ whole[a] = FullShare * payout[a]
      BY <1>2
    <2> HIDE DEF whole
    <2> QED
      BY <1>1, <2>1, SumScaled
  <1>5. \A a \in all : most[a] \in Nat /\ most[a] = FullShare - 1
    BY <1>1
  <1> HIDE DEF due, whole, rest, most
  <1>6. SumFunctionOnSet(due, all) = SumFunctionOnSet(whole, all) + SumFunctionOnSet(rest, all)
    BY <1>1, <1>2, SumOfPairs
  <1>7. SumFunctionOnSet(rest, all) \in Nat
    BY <1>1, <1>2, SumNat
  <1>8. SumFunctionOnSet(rest, all) <= Cardinality(all) * (FullShare - 1)
    <2>1. SumFunctionOnSet(rest, all) <= SumFunctionOnSet(most, all)
      <3>1. \A a \in all : rest[a] \in Nat /\ most[a] \in Nat /\ rest[a] <= most[a]
        BY <1>2, <1>5
      <3> QED
        BY <1>1, <3>1, SumMonotone
    <2>2. FullShare - 1 \in Nat /\ \A a \in all : most[a] = FullShare - 1
      BY <1>1, <1>5
    <2>3. SumFunctionOnSet(most, all) = Cardinality(all) * (FullShare - 1)
      BY <1>1, <2>2, SumConstant
    <2> QED
      BY <2>1, <2>3
  <1>9. Cardinality(all) \in Nat \ {0}
    BY <1>1, FS_CardinalityType, FS_EmptySet
  <1>10. SumFunctionOnSet(payout, all) \in Nat
    BY <1>1, <1>2, SumNat
  <1>11. FullShare * price = FullShare * SumFunctionOnSet(payout, all) + SumFunctionOnSet(rest, all)
    <2>1. price * FullShare = FullShare * price
      BY <1>1
    <2> QED
      BY <1>3, <1>4, <1>6, <2>1
  <1> HIDE DEF all
  <1>12. SumFunctionOnSet(payout, all) \in price - Cardinality(all) + 1 .. price
    BY <1>1, <1>7, <1>8, <1>9, <1>10, <1>11, MultiplesApart
  <1> QED
    BY <1>12 DEF SumFunction, all

\* What the parties of a sale are paid adds up to the price, but for less than one unit for each of
\* them (nft_payout, nft_transfer_payout), whatever the royalties and the price.
THEOREM PayoutsAddUpHolds == Spec => []PayoutsAddUp
  <1>1. ASSUME Inv PROVE PayoutsAddUp
    <2> SUFFICES ASSUME NEW t \in DOMAIN key_info_by_token_id, NEW price \in Prices
                 PROVE  LET owner_id == owner_or_keypom(key_info_by_token_id[t].owner_id)
                            royalties == drop_by_id[parse_token_id(t)].config.royalties
                            payout == calculate_payouts(owner_id, royalties, price)
                        IN  payouts_defined(owner_id, royalties, price, MAX_LEN_PAYOUT) =>
                              SumFunction(payout) \in price - Cardinality(DOMAIN payout) + 1 .. price
      BY DEF PayoutsAddUp
    <2> DEFINE owner_id == owner_or_keypom(key_info_by_token_id[t].owner_id)
               royalties == drop_by_id[parse_token_id(t)].config.royalties
               payout == calculate_payouts(owner_id, royalties, price)
               share == [a \in payees(owner_id, royalties) |-> share_of(a, owner_id, royalties)]
    <2> HIDE DEF owner_id
    <2>1. Amounts(royalties)
      <3>1. drop_by_id[parse_token_id(t)].config \in {shape.config : shape \in Shapes}
        BY <1>1 DEF Inv, Current, Registry, Typed, IsMap, Housed, Drop
      <3> QED
        BY <3>1, RoyaltiesAssumption DEF Amounts
    <2> HIDE DEF royalties
    <2> SUFFICES ASSUME payouts_defined(owner_id, royalties, price, MAX_LEN_PAYOUT)
                 PROVE  SumFunction(payout) \in price - Cardinality(DOMAIN payout) + 1 .. price
      BY DEF owner_id, royalties
    <2>2. owner_share(owner_id, royalties) \in Nat
      <3>1. owner_share(owner_id, royalties) \in Int
        <4>1. IsFiniteSet(DOMAIN royalties \ {owner_id})
              /\ \A a \in DOMAIN royalties \ {owner_id} : royalties[a] \in Nat
          BY <2>1, FS_Subset DEF Amounts
        <4>2. SumFunctionOnSet(royalties, DOMAIN royalties \ {owner_id}) \in Nat
          BY <4>1, SumNat
        <4> QED
          BY <4>2, RoyaltiesAssumption DEF owner_share
      <3>2. owner_share(owner_id, royalties) >= 0
        BY DEF payouts_defined, share_of, payees
      <3> QED
        BY <3>1, <3>2
    <2>3. Amounts(share) /\ SumFunction(share) = FullShare
      BY <2>1, <2>2, SharesAreWhole
    <2>4. /\ DOMAIN payout = DOMAIN share /\ DOMAIN share # {} /\ price \in Nat
          /\ \A a \in DOMAIN share : payout[a] = (share[a] * price) \div FullShare
      BY RoyaltiesAssumption DEF calculate_payouts, royalty_to_payout, payees
    <2> HIDE DEF share, payout
    <2> QED
      BY <2>3, <2>4, PayoutOfShares
  <1> QED
    BY <1>1, InvAlways, PTL

-----------------------------------------------------------------------------
(* Claims in flight.  A claim whose promise is in flight finds its key     *)
(* when the callback comes, if keys have one use.  (A key with more uses   *)
(* can be claimed again before its callback, and the run                   *)
(* overlapping_claims shows what happens then.)                            *)

SingleUse == \A shape \in Shapes : max_key_uses(shape.asset_data) = 1

claims == {r \in DOMAIN receipts : is_claim(receipts[r])}

\* Claims in flight hold their keys: depleted ones, each a different key.
Held ==
    /\ \A r \in claims : /\ receipts[r].token_id \in DOMAIN key_info_by_token_id
                         /\ key_info_by_token_id[receipts[r].token_id].remaining_uses = 0
    /\ \A r, s \in claims : receipts[r].token_id = receipts[s].token_id => r = s

OneUseEach == \A d \in DOMAIN drop_by_id : drop_by_id[d].max_key_uses = 1

\* r's claim still waits after the step, for the same key.
still_waits(r) == r \in claims /\ r \in claims' /\ receipts'[r].token_id = receipts[r].token_id

stays_depleted(t) ==
    t \in DOMAIN key_info_by_token_id' /\ key_info_by_token_id'[t].remaining_uses = 0

-----------------------------------------------------------------------------

\* A step that starts no claim and leaves the keys of those that wait alone.
LEMMA NoNewClaim ==
    ASSUME Held, \A r \in claims' : still_waits(r) /\ stays_depleted(receipts[r].token_id)
    PROVE  Held'
  BY DEF Held, still_waits, stays_depleted

\* A step that changes neither the receipts nor the keys they name keeps Held.
LEMMA SameClaims ==
    ASSUME Held, UNCHANGED receipts,
           \A t \in DOMAIN key_info_by_token_id :
               key_info_by_token_id[t].remaining_uses = 0 => stays_depleted(t)
    PROVE  Held'
  <1>1. \A r \in claims' : still_waits(r)
    BY DEF claims, is_claim, still_waits
  <1> QED
    BY <1>1, NoNewClaim DEF Held, still_waits

\* A step that fires a promise of another kind.
LEMMA OtherPromise ==
    ASSUME Held, NEW receipt, ~is_claim(receipt), Fire(receipt), UNCHANGED key_info_by_token_id
    PROVE  Held'
  <1>1. \A r \in claims' : still_waits(r)
    BY DEF claims, is_claim, Fire, With, still_waits
  <1> QED
    BY <1>1, NoNewClaim DEF Held, still_waits, stays_depleted

\* A callback that leaves the keys of the other claims alone.
LEMMA OneClaimResolved ==
    ASSUME Held, NEW r, Resolve(r),
           \A s \in claims : s # r => stays_depleted(receipts[s].token_id)
    PROVE  Held'
  <1>1. \A s \in claims' : s # r /\ still_waits(s)
    BY DEF claims, is_claim, Resolve, Without, Restrict, still_waits
  <1> QED
    BY <1>1, NoNewClaim DEF still_waits

\* A step that depletes the key t and starts a claim of it.
LEMMA NewClaim ==
    ASSUME Held, NEW receipt, Fire(receipt), is_claim(receipt),
           receipt.token_id \in DOMAIN key_info_by_token_id,
           key_info_by_token_id[receipt.token_id].remaining_uses # 0,
           \A s \in claims : stays_depleted(receipts[s].token_id),
           stays_depleted(receipt.token_id)
    PROVE  Held'
  <1>1. NewReceipt \notin DOMAIN receipts
    BY DEF Fire, FreeReceipts, NewReceipt
  <1>2. receipts'[NewReceipt] = receipt
    BY DEF Fire, With
  <1>3. \A s \in claims' : s = NewReceipt \/ still_waits(s)
    BY <1>1 DEF claims, is_claim, Fire, With, still_waits
  <1>4. \A s \in claims : receipts[s].token_id # receipt.token_id
    BY DEF Held
  <1> QED
    BY <1>2, <1>3, <1>4 DEF Held, still_waits, stays_depleted

-----------------------------------------------------------------------------
(* Keys have one use.                                                      *)

\* before_claim_logic finds a key with its one use and depletes it.
LEMMA ClaimDepletes ==
    ASSUME Inv, OneUseEach, NEW pk \in DOMAIN token_id_by_pk
    PROVE  LET t == token_id_by_pk[pk]
               keys == keys_after_claim(pk)
           IN  /\ t \in DOMAIN key_info_by_token_id
               /\ key_info_by_token_id[t].remaining_uses # 0
               /\ DOMAIN keys = DOMAIN key_info_by_token_id
               /\ keys[t].remaining_uses = 0
               /\ \A u \in DOMAIN keys : u # t => keys[u] = key_info_by_token_id[u]
  <1> DEFINE t == token_id_by_pk[pk]
             old == key_info_by_token_id[t]
             keys == keys_after_claim(pk)
  <1>1. t \in DOMAIN key_info_by_token_id /\ old \in KeyInfo /\ old.remaining_uses > 0
    BY DEF Inv, Current, Registry, Linked, Typed, IsMap
  <1>2. old.remaining_uses <= 1
    BY <1>1 DEF Inv, Current, Registry, Housed, OneUseEach
  <1>3. old.remaining_uses = 1
    BY <1>1, <1>2 DEF KeyInfo
  <1>4. /\ keys[t] = spend_use(old) /\ DOMAIN keys = DOMAIN key_info_by_token_id
        /\ \A u \in DOMAIN keys : u # t => keys[u] = key_info_by_token_id[u]
    BY <1>1 DEF keys_after_claim
  <1>5. verify_signature(old) \in KeyInfo /\ verify_signature(old).remaining_uses = 1
    BY <1>1, <1>3 DEF KeyInfo, verify_signature
  <1>6. spend_use(old).remaining_uses = 0
    BY <1>5 DEF KeyInfo, spend_use
  <1> QED
    BY <1>1, <1>3, <1>4, <1>6

\* handle_key_cleanup removes at most its own key.
LEMMA OnlyOwnKey ==
    ASSUME NEW t, NEW keys, NEW assets, NEW token_ids, NEW results,
           on_assets_claimed(t, keys, assets, token_ids, results)
    PROVE  \A u \in DOMAIN keys : u # t =>
              u \in DOMAIN key_info_by_token_id' /\ key_info_by_token_id'[u] = keys[u]
  <1>1. \E assets2, withdrawn, refund, added :
            handle_key_cleanup(t, keys, assets2, withdrawn, refund, added)
    BY Zenon DEF on_assets_claimed
  <1> QED
    BY <1>1 DEF handle_key_cleanup, Without, Restrict

\* Drops keep their number of uses, and new ones have one use per key.
LEMMA OneUseStep ==
    ASSUME SingleUse, Inv, [Next]_vars, OneUseEach
    PROVE  OneUseEach'
  <1>1. SameDrops => OneUseEach'
    BY DEF SameDrops, OneUseEach
  <1>2. UNCHANGED drop_by_id => SameDrops
    BY DEF SameDrops
  <1>3. CASE SomeDropCreated
    BY <1>3 DEF SomeDropCreated, CreateDrop, NewDropOf, SingleUse, OneUseEach, With
  <1>4. ASSUME NEW caller, NEW d, NEW key_data, NEW deposit, NEW keep,
               AddKeys(caller, d, key_data, deposit, keep)
        PROVE  SameDrops
    <2>1. /\ d \in DOMAIN drop_by_id
          /\ drop_by_id' = [drop_by_id EXCEPT ![d].next_key_id = @ + Len(key_data)]
      BY <1>4 DEF AddKeys
    <2>2. drop_by_id[d] \in Drop
      BY <2>1 DEF Inv, Current, Registry, Typed, IsMap
    <2> QED
      BY <2>1, <2>2 DEF Drop, SameDrops
  <1>5. CASE SomeKeysDeleted
    BY <1>1, <1>2, <1>5 DEF SomeKeysDeleted, DeleteKeys, Without, Restrict, SameDrops
  <1>6. ASSUME NEW caller, NEW batch \in Batches, NEW deposit, NEW keep, NEW metadata,
               NEW on_success, NEW call_fails,
               CreateDropBatch(caller, batch, deposit, keep, metadata, on_success, call_fails)
        PROVE  OneUseEach'
    <2>1. \A i \in DOMAIN batch : max_key_uses(batch[i].shape.asset_data) = 1
      BY BatchEntries DEF SingleUse
    <2> DEFINE ids == {batch[i].drop_id : i \in DOMAIN batch}
               shape == [d \in ids |-> batch[CHOOSE i \in DOMAIN batch : batch[i].drop_id = d].shape]
    <2>2. /\ DOMAIN drop_by_id' = DOMAIN drop_by_id \cup ids
          /\ \A d \in DOMAIN drop_by_id' :
                drop_by_id'[d] = IF d \in ids THEN NewDropOf(caller, shape[d], 0) ELSE drop_by_id[d]
      BY <1>6 DEF CreateDropBatch
    <2>3. \A d \in ids : max_key_uses(shape[d].asset_data) = 1
      BY <2>1
    <2>4. \A d \in ids : NewDropOf(caller, shape[d], 0).max_key_uses = 1
      BY <2>3 DEF NewDropOf
    <2> HIDE DEF ids, shape
    <2> QED
      BY <2>2, <2>4 DEF OneUseEach
  <1>7. CASE SomeClaim
    BY <1>1, <1>7, ClaimedAssetsDrops DEF SomeClaim, Claim, claim_of
  <1>8. CASE SomeAccountClaim \/ SomeTransfer \/ SomeApproval
    BY <1>1, <1>2, <1>8 DEF SomeAccountClaim, SomeTransfer, SomeApproval, CreateAccountAndClaim,
                            internal_transfer, NftApprove
  <1>9. CASE UNCHANGED registry
    BY <1>1, <1>2, <1>9 DEF registry
  <1> QED
    BY <1>1, <1>3, <1>4, <1>5, <1>6, <1>7, <1>8, <1>9, ClaimCallbackDrops, StepsByKind,
       RegistryUntouched DEF RegistryStep, SomeKeysAdded, SomeBatchCreated, vars

-----------------------------------------------------------------------------
(* The operations.                                                         *)

\* Keys are added next to those that are there.
LEMMA AddedKeysHeld ==
    ASSUME Held, NEW d, NEW k, NEW uses, NEW key_data, UNCHANGED receipts,
           internal_add_keys_to_account(d, k, uses, key_data),
           \A t \in DOMAIN key_info_by_token_id : parse_token_id(t) = d => ~(k <= t[2])
    PROVE  Held'
  <1> DEFINE new == {<<d, i>> : i \in k .. k + Len(key_data) - 1}
  <1>1. ASSUME NEW t \in new, t \in DOMAIN key_info_by_token_id
        PROVE  FALSE
    BY <1>1 DEF parse_token_id
  <1>2. \A t \in DOMAIN key_info_by_token_id \ new :
           t \in DOMAIN key_info_by_token_id' /\ key_info_by_token_id'[t] = key_info_by_token_id[t]
    BY DEF internal_add_keys_to_account
  <1> HIDE DEF new
  <1> QED
    BY <1>1, <1>2, SameClaims DEF stays_depleted

\* Creating a drop leaves the promises and their keys and uses alone.
LEMMA CreateDropHeld ==
    ASSUME Inv, Held, NEW caller, NEW d, NEW shape, NEW key_data, NEW deposit, NEW keep,
           CreateDrop(caller, d, shape, key_data, deposit, keep)
    PROVE  Held'
  <1>1. /\ d \notin DOMAIN drop_by_id /\ UNCHANGED receipts
        /\ internal_add_keys_to_account(d, 0, max_key_uses(shape.asset_data), key_data)
    BY DEF CreateDrop
  <1>2. \A t \in DOMAIN key_info_by_token_id : parse_token_id(t) # d
    BY <1>1 DEF Inv, Current, Registry, Housed
  <1> QED
    BY <1>1, <1>2, AddedKeysHeld

\* So does adding keys to one.
LEMMA AddKeysHeld ==
    ASSUME Inv, Held, NEW caller, NEW d, NEW key_data, NEW deposit, NEW keep,
           AddKeys(caller, d, key_data, deposit, keep)
    PROVE  Held'
  <1> DEFINE k == drop_by_id[d].next_key_id
  <1>1. /\ d \in DOMAIN drop_by_id /\ UNCHANGED receipts
        /\ internal_add_keys_to_account(d, k, drop_by_id[d].max_key_uses, key_data)
    BY DEF AddKeys
  <1>2. k \in Nat
    BY <1>1, StorageAssumption DEF Inv, Current, Registry, Typed, IsMap, Drop
  <1>3. ASSUME NEW t \in DOMAIN key_info_by_token_id, parse_token_id(t) = d
        PROVE  ~(k <= t[2])
    <2>1. t[2] \in Nat /\ t[2] < k
      BY <1>3 DEF Inv, Current, Registry, Typed, IsMap, Housed, TokenIds
    <2> QED
      BY <1>2, <2>1
  <1> QED
    BY <1>1, <1>3, AddedKeysHeld

\* delete_keys removes no key without a public key, so none that a callback waits for.
LEMMA DeleteKeysHeld ==
    ASSUME Inv, Held, NEW caller, NEW d, NEW pks \in SUBSET DOMAIN token_id_by_pk,
           NEW keep_empty_drop, DeleteKeys(caller, d, pks, keep_empty_drop)
    PROVE  Held'
  <1>1. /\ key_info_by_token_id' = Without(key_info_by_token_id, {token_id_by_pk[pk] : pk \in pks})
        /\ UNCHANGED receipts
    BY DEF DeleteKeys, deleted_tokens
  <1>2. \A pk \in pks : ~(key_info_by_token_id[token_id_by_pk[pk]].remaining_uses = 0)
    BY DEF Inv, Current, Registry, Linked
  <1> QED
    BY <1>1, <1>2, SameClaims DEF stays_depleted, Without, Restrict

\* A claim of a one-use key leaves the keys of the other claims alone.
LEMMA OtherClaimsKeys ==
    ASSUME Inv, OneUseEach, Held, NEW pk \in DOMAIN token_id_by_pk
    PROVE  \A s \in claims :
              LET t == receipts[s].token_id
                  keys == keys_after_claim(pk)
              IN  t # token_id_by_pk[pk] /\ t \in DOMAIN keys /\ keys[t].remaining_uses = 0
  BY ClaimDepletes DEF Held

\* claim fires the only callback the key will ever have.
LEMMA ClaimHeld ==
    ASSUME Inv, OneUseEach, Held, NEW pk \in DOMAIN token_id_by_pk, NEW fc_args, NEW lost,
           Claim(pk, fc_args, lost)
    PROVE  Held'
  <1> DEFINE t == token_id_by_pk[pk]
             keys == keys_after_claim(pk)
             use == get_key_cur_use(drop_by_id[parse_token_id(t)], key_info_by_token_id[t])
             claimed == assets_of_last_use(t, keys, fc_args)
  <1>1. /\ internal_claim_assets(t, keys, claimed, << >>, lost)
        /\ is_awaited(claimed) => Fire(ClaimReceipt(t, use, claimed))
        /\ ~is_awaited(claimed) => UNCHANGED receipts
    BY DEF Claim, claim_of
  <1>2. /\ t \in DOMAIN key_info_by_token_id
        /\ key_info_by_token_id[t].remaining_uses # 0
        /\ t \in DOMAIN keys /\ keys[t].remaining_uses = 0
    BY ClaimDepletes
  <1> HIDE DEF keys, use, claimed
  <1>3. CASE is_awaited(claimed)
    <2>1. key_info_by_token_id' = keys
      BY <1>1, <1>3 DEF internal_claim_assets
    <2>2. stays_depleted(t) /\ \A s \in claims : stays_depleted(receipts[s].token_id)
      BY OtherClaimsKeys, <1>2, <2>1 DEF stays_depleted, keys
    <2>3. /\ is_claim(ClaimReceipt(t, use, claimed))
          /\ ClaimReceipt(t, use, claimed).token_id = t
      BY DEF ClaimReceipt, is_claim
    <2> QED
      BY <1>1, <1>2, <1>3, <2>2, <2>3, NewClaim
  <1>4. CASE ~is_awaited(claimed)
    <2>1. on_assets_claimed(t, keys, claimed.assets, claimed.token_ids, << >>)
      BY <1>1, <1>4 DEF internal_claim_assets
    <2>2. \A s \in claims : stays_depleted(receipts[s].token_id)
      BY OtherClaimsKeys, <2>1, OnlyOwnKey DEF stays_depleted, keys
    <2>3. \A r \in claims' : still_waits(r)
      BY <1>1, <1>4 DEF claims, is_claim, still_waits
    <2> QED
      BY <2>2, <2>3, NoNewClaim DEF still_waits
  <1> QED
    BY <1>3, <1>4

\* So does create_account_and_claim.
LEMMA CreateAccountAndClaimHeld ==
    ASSUME Inv, OneUseEach, Held, NEW pk \in DOMAIN token_id_by_pk, NEW fc_args,
           CreateAccountAndClaim(pk, fc_args)
    PROVE  Held'
  <1> DEFINE t == token_id_by_pk[pk]
             drop == drop_by_id[parse_token_id(t)]
             use == get_key_cur_use(drop, key_info_by_token_id[t])
             receipt == [kind |-> "create_account", token_id |-> t, use |-> use,
                         fc_args |-> fc_args, root |-> root_account_for(drop, use)]
  <1>1. Fire(receipt) /\ key_info_by_token_id' = keys_after_claim(pk)
    BY DEF CreateAccountAndClaim
  <1>2. is_claim(receipt) /\ receipt.token_id = t
    BY DEF is_claim
  <1>3. stays_depleted(t) /\ \A s \in claims : stays_depleted(receipts[s].token_id)
    BY OtherClaimsKeys, <1>1, ClaimDepletes DEF stays_depleted
  <1>4. t \in DOMAIN key_info_by_token_id /\ key_info_by_token_id[t].remaining_uses # 0
    BY ClaimDepletes
  <1> HIDE DEF receipt
  <1> QED
    BY <1>1, <1>2, <1>3, <1>4, NewClaim

\* Transfers and approvals change no key that a callback waits for.
LEMMA ChangedKeyHeld ==
    ASSUME Inv, Held, NEW pk \in DOMAIN token_id_by_pk, UNCHANGED receipts,
           NEW key, key_info_by_token_id' = [key_info_by_token_id EXCEPT ![token_id_by_pk[pk]] = key]
    PROVE  Held'
  <1>1. ~(key_info_by_token_id[token_id_by_pk[pk]].remaining_uses = 0)
    BY DEF Inv, Current, Registry, Linked
  <1> QED
    BY <1>1, SameClaims DEF stays_depleted

\* Transfers and approvals keep the uses of a key.
LEMMA KeyStepHeld == ASSUME Inv, Held, SomeTransfer \/ SomeApproval PROVE Held'
  <1>1. ASSUME NEW sender, NEW pk \in DOMAIN token_id_by_pk, NEW receiver, NEW approval_id,
               NEW new_pk, internal_transfer(sender, pk, receiver, approval_id, new_pk)
        PROVE  Held'
    <2>1. \E key : key_info_by_token_id' = [key_info_by_token_id EXCEPT ![token_id_by_pk[pk]] = key]
      BY <1>1 DEF internal_transfer
    <2> QED
      BY <1>1, <2>1, ChangedKeyHeld DEF internal_transfer
  <1>2. ASSUME NEW sender, NEW pk \in DOMAIN token_id_by_pk, NEW account,
               NftApprove(sender, pk, account)
        PROVE  Held'
    <2>1. \E key : key_info_by_token_id' = [key_info_by_token_id EXCEPT ![token_id_by_pk[pk]] = key]
      BY <1>2 DEF NftApprove
    <2> QED
      BY <1>2, <2>1, ChangedKeyHeld DEF NftApprove
  <1> QED
    BY <1>1, <1>2 DEF SomeTransfer, SomeApproval

\* The claims in flight have keys of their own, each a depleted one.
LEMMA OtherClaims ==
    ASSUME Held, NEW r \in claims, NEW s \in claims, s # r
    PROVE  /\ receipts[s].token_id # receipts[r].token_id
           /\ receipts[s].token_id \in DOMAIN key_info_by_token_id
           /\ key_info_by_token_id[receipts[s].token_id].remaining_uses = 0
  BY DEF Held

\* A callback that resolves its claim and cleans up at most its own key.
LEMMA OwnKeyCleanedUp ==
    ASSUME Held, NEW r \in claims, Resolve(r),
           \A u \in DOMAIN key_info_by_token_id : u # receipts[r].token_id =>
               /\ u \in DOMAIN key_info_by_token_id'
               /\ key_info_by_token_id'[u] = key_info_by_token_id[u]
    PROVE  Held'
  BY OtherClaims, OneClaimResolved DEF stays_depleted

\* A failed creation resolves its promise, and removes at most the key of that one.
LEMMA OnAccountCreationFailedHeld ==
    ASSUME Held, NEW r, OnAccountCreationFailed(r)
    PROVE  Held'
  <1> DEFINE t == receipts[r].token_id
  <1>1. r \in claims
    BY DEF OnAccountCreationFailed, claim_in_flight, claims, is_claim
  <1>2. /\ Resolve(r)
        /\ \E assets, withdrawn, refund, added :
              handle_key_cleanup(t, key_info_by_token_id, assets, withdrawn, refund, added)
    BY Zenon DEF OnAccountCreationFailed
  <1>3. \A u \in DOMAIN key_info_by_token_id : u # t =>
           /\ u \in DOMAIN key_info_by_token_id'
           /\ key_info_by_token_id'[u] = key_info_by_token_id[u]
    BY <1>2 DEF handle_key_cleanup, Without, Restrict
  <1> QED
    BY <1>1, <1>2, <1>3, OwnKeyCleanedUp

\* The promise of the assets takes the place of that of the account.
LEMMA OnNewAccountCreatedHeld ==
    ASSUME Held, NEW r, NEW lost, OnNewAccountCreated(r, lost)
    PROVE  Held'
  <1> DEFINE t == receipts[r].token_id
             claimed == assets_for(receipts[r])
             receipt == ClaimReceipt(t, receipts[r].use, claimed)
  <1>1. r \in claims
    BY DEF OnNewAccountCreated, claim_in_flight, claims, is_claim
  <1>2. /\ internal_claim_assets(t, key_info_by_token_id, claimed, <<TRUE>>, lost)
        /\ receipts' = IF is_awaited(claimed) THEN [receipts EXCEPT ![r] = receipt]
                       ELSE Without(receipts, {r})
    BY DEF OnNewAccountCreated, hand_out
  <1> HIDE DEF claimed
  <1>3. CASE is_awaited(claimed)
    <2>1. UNCHANGED key_info_by_token_id
      BY <1>2, <1>3 DEF internal_claim_assets
    <2>2. receipt.token_id = t
      BY DEF ClaimReceipt
    <2>3. receipts' = [receipts EXCEPT ![r] = receipt] /\ r \in DOMAIN receipts
      BY <1>1, <1>2, <1>3 DEF claims
    <2> HIDE DEF receipt
    <2>4. \A s \in claims' : still_waits(s)
      BY <1>1, <2>2, <2>3 DEF claims, still_waits
    <2> QED
      BY <2>1, <2>4, NoNewClaim DEF Held, still_waits, stays_depleted
  <1>4. CASE ~is_awaited(claimed)
    <2>1. on_assets_claimed(t, key_info_by_token_id, claimed.assets, claimed.token_ids, <<TRUE>>)
      BY <1>2, <1>4 DEF internal_claim_assets
    <2>2. \A u \in DOMAIN key_info_by_token_id : u # t =>
             /\ u \in DOMAIN key_info_by_token_id'
             /\ key_info_by_token_id'[u] = key_info_by_token_id[u]
      BY <2>1, OnlyOwnKey
    <2>3. Resolve(r)
      BY <1>2, <1>4 DEF Resolve
    <2> QED
      BY <1>1, <2>2, <2>3, OwnKeyCleanedUp
  <1> QED
    BY <1>3, <1>4

\* on_assets_claimed does, too.
LEMMA OnAssetsClaimedHeld ==
    ASSUME Held, NEW r, NEW lost, OnAssetsClaimed(r, lost)
    PROVE  Held'
  <1> DEFINE t == receipts[r].token_id
  <1>1. r \in claims /\ Resolve(r)
    BY DEF OnAssetsClaimed, claim_in_flight, claims, is_claim
  <1>2. \/ UNCHANGED key_info_by_token_id
        \/ \E assets, token_ids, results :
              on_assets_claimed(t, key_info_by_token_id, assets, token_ids, results)
    BY Zenon DEF OnAssetsClaimed
  <1>3. \A u \in DOMAIN key_info_by_token_id : u # t =>
           /\ u \in DOMAIN key_info_by_token_id'
           /\ key_info_by_token_id'[u] = key_info_by_token_id[u]
    BY <1>2, OnlyOwnKey
  <1> QED
    BY <1>1, <1>3, OwnKeyCleanedUp

\* So every callback of a claim leaves the other claims their keys and uses.
LEMMA ClaimCallbackHeld == ASSUME Held, SomeClaimCallback PROVE Held'
  BY OnAccountCreationFailedHeld, OnNewAccountCreatedHeld, OnAssetsClaimedHeld DEF SomeClaimCallback

\* A step that resolves a receipt and touches no key.
LEMMA ReceiptResolved ==
    ASSUME Held, NEW r, Resolve(r), UNCHANGED key_info_by_token_id
    PROVE  Held'
  BY OneClaimResolved DEF Held, stays_depleted

\* The owner's and the funders' settings and balances fire no callback of a claim.
LEMMA BalanceStepHeld == ASSUME Held, SettingsStep \/ BalanceStep \/ Tick PROVE Held'
  <1>1. UNCHANGED key_info_by_token_id
    BY RegistryUntouched DEF registry
  <1>2. CASE UNCHANGED receipts
    BY <1>1, <1>2, SameClaims DEF stays_depleted
  <1>3. CASE SettingsStep \/ Tick
    BY <1>2, <1>3 DEF SettingsStep, Tick, FreezeContract, UnfreezeContract, SetRootAccount, SetFees,
                      SetFeesPerUser, AddSigningAdmin, AddSigningPks, RemoveSigningPks,
                      besides_signing, besides_settings
  <1>4. CASE WithdrawFees
    <2>1. Fire(FeeReceipt(fees_collected)) /\ ~is_claim(FeeReceipt(fees_collected))
      BY <1>4 DEF WithdrawFees, FeeReceipt, is_claim
    <2> QED
      BY <1>1, <2>1, OtherPromise
  <1>5. ASSUME NEW r, NEW succeeded, OnWithdrawFees(r, succeeded) PROVE Held'
    BY <1>1, <1>5, ReceiptResolved DEF OnWithdrawFees
  <1> QED
    BY <1>2, <1>3, <1>4, <1>5 DEF BalanceStep, AddToBalance, WithdrawFromBalance, SetFunderMetadata

\* Neither do the deposits and withdrawals of tokens.
LEMMA TokensMovedHeld == ASSUME Held, TokensMoved PROVE Held'
  <1>1. UNCHANGED key_info_by_token_id
    BY RegistryUntouched DEF registry
  <1>2. CASE UNCHANGED receipts
    BY <1>1, <1>2, SameClaims DEF stays_depleted
  <1>3. ASSUME NEW caller, NEW d, NEW c, NEW amount, WithdrawFtBalance(caller, d, c, amount)
        PROVE  Held'
    <2>1. \E promise : Fire([kind |-> "ft_refund", drop_id |-> d, promise |-> promise])
      BY <1>3 DEF WithdrawFtBalance
    <2>2. \A promise : ~is_claim([kind |-> "ft_refund", drop_id |-> d, promise |-> promise])
      BY DEF is_claim
    <2> QED
      BY <1>1, <2>1, <2>2, OtherPromise
  <1>4. ASSUME NEW caller, NEW d, NEW c, NEW tokens, WithdrawNftTokens(caller, d, c, tokens)
        PROVE  Held'
    <2>1. \E ids, storage : Fire([kind |-> "nft_refund", drop_id |-> d, contract |-> c,
                                  token_ids |-> ids, storage_released |-> storage])
      BY <1>4 DEF WithdrawNftTokens
    <2>2. \A ids, storage : ~is_claim([kind |-> "nft_refund", drop_id |-> d, contract |-> c,
                                       token_ids |-> ids, storage_released |-> storage])
      BY DEF is_claim
    <2> QED
      BY <1>1, <2>1, <2>2, OtherPromise
  <1>5. ASSUME NEW r, NEW succeeded, FtResolveRefund(r, succeeded) \/ ResolveNftRefund(r, succeeded)
        PROVE  Held'
    BY <1>1, <1>5, ReceiptResolved DEF FtResolveRefund, ResolveNftRefund
  <1> QED
    BY <1>2, <1>3, <1>4, <1>5 DEF TokensMoved, FtOnTransfer, NftOnTransfer

-----------------------------------------------------------------------------

\* Every step keeps Held: one case for each kind of step.
LEMMA NextHeld ==
    ASSUME SingleUse
    PROVE  Inv /\ OneUseEach /\ Held /\ [Next]_vars => OneUseEach' /\ Held'
  <1> SUFFICES ASSUME Inv, OneUseEach, Held, [Next]_vars PROVE OneUseEach' /\ Held'
    OBVIOUS
  <1>1. OneUseEach'
    BY OneUseStep
  <1>2. CASE SomeDropCreated \/ SomeKeysAdded \/ SomeKeysDeleted
    BY <1>1, <1>2, CreateDropHeld, AddKeysHeld, DeleteKeysHeld
       DEF SomeDropCreated, SomeKeysAdded, SomeKeysDeleted
  <1>3. CASE SomeBatchCreated
    BY <1>1, <1>3, SameClaims DEF SomeBatchCreated, CreateDropBatch, stays_depleted
  <1>4. CASE SomeClaim \/ SomeAccountClaim
    BY <1>1, <1>4, ClaimHeld, CreateAccountAndClaimHeld DEF SomeClaim, SomeAccountClaim
  <1>5. ASSUME NEW r, OnNewAccountCreatedPanics(r)
        PROVE  Held'
    BY <1>5, ReceiptResolved DEF OnNewAccountCreatedPanics, CallbackPanics, registry
  <1>6. CASE UNCHANGED vars
    BY <1>1, <1>6, SameClaims DEF vars, registry, stays_depleted
  <1> QED
    BY <1>1, <1>2, <1>3, <1>4, <1>5, <1>6, StepsByKind, KeyStepHeld, ClaimCallbackHeld,
       BalanceStepHeld, TokensMovedHeld DEF RegistryStep

\* When every key has a single use, a claim in flight finds its drop and its
\* key: neither delete_keys, nor another claim, nor another callback's
\* handle_key_cleanup takes them away before on_assets_claimed runs.
THEOREM ClaimCallbackFindsKeyHolds ==
    ASSUME SingleUse
    PROVE  Spec => []ClaimCallbackFindsKey
  <1>1. Init => OneUseEach /\ Held
    BY DEF Init, OneUseEach, Held, claims, EmptyMap
  <1>2. Inv /\ OneUseEach /\ Held /\ [Next]_vars => OneUseEach' /\ Held'
    BY NextHeld
  <1>3. Inv /\ Held => ClaimCallbackFindsKey
    BY DEF Inv, Current, Registry, Housed, Held, claims, ClaimCallbackFindsKey, callback_finds_key
  <1> QED
    BY <1>1, <1>2, <1>3, InvAlways, PTL DEF Spec

-----------------------------------------------------------------------------
(* How often a key is used.                                                *)

\* What ClaimsWithinInterval says of one key of a drop, at a time.
WithinInterval(drop, key_info, time_now) ==
    LET taken == drop.max_key_uses - key_info.remaining_uses
    IN  taken > 0 =>
        \A time \in last_use_data(drop, key_info).config.time :
            \A interval \in time.interval : taken * interval <= time_now - unwrap(time.start)

\* A drop gives the uses of a shape.
OfShape(drop) ==
    \E shape \in Shapes :
        /\ drop.max_key_uses = max_key_uses(shape.asset_data)
        /\ drop.asset_data_for_uses = asset_data_for_uses(shape)

IntervalInv ==
    /\ \A d \in DOMAIN drop_by_id : OfShape(drop_by_id[d])
    /\ \A t \in DOMAIN key_info_by_token_id :
          WithinInterval(drop_by_id[parse_token_id(t)], key_info_by_token_id[t], now)

\* A key of the drop keeps its uses, or one is taken in its time.
UsedInTime(drop, old, new) ==
    \/ new.remaining_uses = old.remaining_uses
    \/ /\ new.remaining_uses = old.remaining_uses - 1
       /\ claim_timestamps_ok(
              get_asset_data_for_specific_use(
                  drop.asset_data_for_uses, get_key_cur_use(drop, old)).config,
              old.last_claimed, drop.max_key_uses - old.remaining_uses, now)

KeysUsedInTime(keys) ==
    \A t \in DOMAIN key_info_by_token_id \cap DOMAIN keys :
        UsedInTime(drop_by_id[parse_token_id(t)], key_info_by_token_id[t], keys[t])

\* A key that comes has all of its drop's uses, and nothing was signed for it.
NewKeysUnused ==
    \A t \in DOMAIN key_info_by_token_id' \ DOMAIN key_info_by_token_id :
        /\ key_info_by_token_id'[t].remaining_uses = drop_by_id'[parse_token_id(t)].max_key_uses
        /\ key_info_by_token_id'[t].message_nonce = 0
        /\ key_info_by_token_id'[t].next_approval_id = 0

\* A drop that stays gives the uses it gave, and one that comes has a shape.
DropsKept ==
    /\ \A d \in DOMAIN drop_by_id' \cap DOMAIN drop_by_id :
          /\ drop_by_id'[d].max_key_uses = drop_by_id[d].max_key_uses
          /\ drop_by_id'[d].asset_data_for_uses = drop_by_id[d].asset_data_for_uses
    /\ \A d \in DOMAIN drop_by_id' \ DOMAIN drop_by_id : OfShape(drop_by_id'[d])

-----------------------------------------------------------------------------
(* One key.                                                                *)

\* More whole intervals than uses have passed.
LEMMA WholeIntervals ==
    ASSUME NEW passed \in Int, NEW interval \in Nat, interval # 0, NEW taken \in Nat,
           passed \div interval > taken
    PROVE  (taken + 1) * interval <= passed
  <1> DEFINE q == passed \div interval
  <1>1. q \in Int /\ q * interval <= passed
    OBVIOUS
  <1>2. q - (taken + 1) \in Nat
    BY <1>1
  <1>3. (q - (taken + 1)) * interval >= 0
    BY <1>2
  <1> HIDE DEF q
  <1>4. q * interval = (taken + 1) * interval + (q - (taken + 1)) * interval
    <2>1. ASSUME NEW a \in Int, NEW b \in Int PROVE a * interval = b * interval + (a - b) * interval
      OBVIOUS
    <2> QED
      BY <1>1, <2>1
  <1> QED
    BY <1>1, <1>2, <1>3, <1>4

\* The drops' uses with an interval have a start.
LEMMA StartsGiven ==
    ASSUME NEW drop, OfShape(drop), drop.max_key_uses \in Nat, NEW use \in 1 .. drop.max_key_uses
    PROVE  \A time \in get_asset_data_for_specific_use(drop.asset_data_for_uses, use).config.time :
               \A interval \in time.interval :
                   interval \in Nat /\ time.start # None /\ unwrap(time.start) \in Nat
  BY TimesAssumption DEF OfShape

\* The rule of one key holds after a use taken in its time, and as time goes by.
LEMMA KeyStaysWithin ==
    ASSUME NEW drop, NEW drop2, OfShape(drop), drop.max_key_uses \in Nat,
           drop2.max_key_uses = drop.max_key_uses,
           drop2.asset_data_for_uses = drop.asset_data_for_uses,
           NEW old \in KeyInfo, NEW new \in KeyInfo,
           old.remaining_uses <= drop.max_key_uses,
           now \in Nat, NEW later \in Nat, now <= later,
           WithinInterval(drop, old, now), UsedInTime(drop, old, new)
    PROVE  WithinInterval(drop2, new, later)
  <1> DEFINE taken == drop.max_key_uses - new.remaining_uses
             config == get_asset_data_for_specific_use(drop.asset_data_for_uses, taken).config
  <1>1. old.remaining_uses \in Nat /\ new.remaining_uses \in Nat
    BY DEF KeyInfo
  <1>2. /\ drop2.max_key_uses - new.remaining_uses = taken
        /\ last_use_data(drop2, new).config = config
    <2>1. get_key_cur_use(drop2, new) - 1 = taken
      BY <1>1 DEF get_key_cur_use, cur_use
    <2> QED
      BY <2>1 DEF last_use_data
  <1> SUFFICES ASSUME taken > 0, NEW time \in config.time, NEW interval \in time.interval
               PROVE  taken * interval <= later - unwrap(time.start)
    BY <1>2 DEF WithinInterval
  <1>3. taken \in 1 .. drop.max_key_uses
    BY <1>1
  <1>4. interval \in Nat /\ time.start # None /\ unwrap(time.start) \in Nat
    BY <1>3, StartsGiven
  <1>5. taken * interval <= now - unwrap(time.start)
    <2>1. CASE new.remaining_uses = old.remaining_uses
      <3>1. drop.max_key_uses - old.remaining_uses = taken
        BY <2>1
      <3>2. last_use_data(drop, old).config = config
        <4>1. get_key_cur_use(drop, old) - 1 = taken
          BY <1>1, <3>1 DEF get_key_cur_use, cur_use
        <4> QED
          BY <4>1 DEF last_use_data
      <3> QED
        BY <3>1, <3>2 DEF WithinInterval
    <2>2. CASE new.remaining_uses # old.remaining_uses
      <3> DEFINE before == drop.max_key_uses - old.remaining_uses
      <3>1. /\ new.remaining_uses = old.remaining_uses - 1
            /\ claim_timestamps_ok(
                   get_asset_data_for_specific_use(
                       drop.asset_data_for_uses, get_key_cur_use(drop, old)).config,
                   old.last_claimed, before, now)
        BY <2>2 DEF UsedInTime
      <3>2. before \in Nat /\ taken = before + 1 /\ get_key_cur_use(drop, old) = taken
        BY <1>1, <3>1 DEF get_key_cur_use, cur_use
      <3>3. claim_timestamps_ok(config, old.last_claimed, before, now)
        BY <3>1, <3>2
      <3>4. interval # 0 /\ (now - unwrap(time.start)) \div interval > before
        BY <3>3 DEF claim_timestamps_ok
      <3>5. now - unwrap(time.start) \in Int
        BY <1>4
      <3> HIDE DEF before
      <3>6. (before + 1) * interval <= now - unwrap(time.start)
        BY <1>4, <3>2, <3>4, <3>5, WholeIntervals
      <3> QED
        BY <3>2, <3>6
    <2> QED
      BY <2>1, <2>2
  <1>6. taken * interval \in Int
    BY <1>3, <1>4
  <1> HIDE DEF taken, config
  <1> QED
    BY <1>4, <1>5, <1>6

-----------------------------------------------------------------------------
(* All keys.                                                               *)

\* Time never goes back.
LEMMA TimePasses == ASSUME Inv, [Next]_vars PROVE now \in Nat /\ now' \in Nat /\ now <= now'
  <1>1. now \in Nat /\ now' \in Nat
    BY NextInv, StorageAssumption DEF Inv
  <1>2. ASSUME RegistryStep PROVE now' = now
    <2>1. SomeDropCreated => now' = now
      BY DEF SomeDropCreated, CreateDrop
    <2>2. SomeKeysAdded => now' = now
      BY DEF SomeKeysAdded, AddKeys
    <2>3. SomeKeysDeleted => now' = now
      BY DEF SomeKeysDeleted, DeleteKeys
    <2>4. SomeBatchCreated => now' = now
      BY DEF SomeBatchCreated, CreateDropBatch
    <2>5. SomeClaim => now' = now
      BY DEF SomeClaim, Claim
    <2>6. SomeAccountClaim => now' = now
      BY DEF SomeAccountClaim, CreateAccountAndClaim
    <2>7. SomeClaimCallback => now' = now
      BY DEF SomeClaimCallback, OnNewAccountCreated, OnAccountCreationFailed, OnAssetsClaimed
    <2>8. SomeTransfer \/ SomeApproval => now' = now
      BY DEF SomeTransfer, SomeApproval, internal_transfer, NftApprove
    <2> QED
      BY <1>2, <2>1, <2>2, <2>3, <2>4, <2>5, <2>6, <2>7, <2>8 DEF RegistryStep
  <1>3. ASSUME SettingsStep PROVE now' = now
    <2>1. ASSUME UNCHANGED besides_settings PROVE now' = now
      BY <2>1 DEF besides_settings
    <2> HIDE DEF besides_settings
    <2> QED
      BY <1>3, <2>1 DEF SettingsStep, FreezeContract, UnfreezeContract, SetRootAccount, SetFees,
         SetFeesPerUser, AddSigningAdmin, AddSigningPks, RemoveSigningPks, besides_signing
  <1>4. ASSUME BalanceStep PROVE now' = now
    <2>1. ASSUME NEW caller, NEW amount, AddToBalance(caller, amount) PROVE now' = now
      BY <2>1 DEF AddToBalance
    <2>2. ASSUME NEW caller, NEW amount, WithdrawFromBalance(caller, amount) PROVE now' = now
      BY <2>2 DEF WithdrawFromBalance
    <2> QED
      BY <1>4, <2>1, <2>2 DEF BalanceStep, SetFunderMetadata, WithdrawFees, OnWithdrawFees
  <1>5. ASSUME TokensMoved PROVE now' = now
    BY <1>5 DEF TokensMoved, FtOnTransfer, WithdrawFtBalance, NftOnTransfer,
       WithdrawNftTokens, FtResolveRefund, ResolveNftRefund
  <1>6. ASSUME Tick PROVE now' = now + 1
    BY <1>6 DEF Tick
  <1>7. ASSUME UNCHANGED vars \/ \E r : OnNewAccountCreatedPanics(r) PROVE now' = now
    BY <1>7 DEF vars, OnNewAccountCreatedPanics, CallbackPanics
  <1>8. now' = now \/ now' = now + 1
    BY <1>2, <1>3, <1>4, <1>5, <1>6, <1>7, StepsByKind
  <1> QED
    BY <1>1, <1>8

\* The rule holds after a step in which every key is used in its time.
LEMMA KeysStayWithin ==
    ASSUME Inv, Inv', IntervalInv, now \in Nat, now' \in Nat, now <= now',
           KeysUsedInTime(key_info_by_token_id'), NewKeysUnused, DropsKept
    PROVE  IntervalInv'
  <1>1. ASSUME NEW d \in DOMAIN drop_by_id'
        PROVE  OfShape(drop_by_id'[d])
    BY DEF IntervalInv, DropsKept, OfShape
  <1>2. ASSUME NEW t \in DOMAIN key_info_by_token_id'
        PROVE  WithinInterval(drop_by_id'[parse_token_id(t)], key_info_by_token_id'[t], now')
    <2> DEFINE d == parse_token_id(t)
    <2>1. d \in DOMAIN drop_by_id' /\ key_info_by_token_id'[t] \in KeyInfo
      BY DEF Inv, Current, Registry, Housed, Typed, IsMap
    <2>2. CASE t \notin DOMAIN key_info_by_token_id
      <3>1. key_info_by_token_id'[t].remaining_uses = drop_by_id'[d].max_key_uses
        BY <2>2 DEF NewKeysUnused
      <3>2. key_info_by_token_id'[t].remaining_uses \in Nat
        BY <2>1 DEF KeyInfo
      <3>3. ~(drop_by_id'[d].max_key_uses - key_info_by_token_id'[t].remaining_uses > 0)
        BY <3>1, <3>2
      <3> QED
        BY <3>3 DEF WithinInterval
    <2>3. CASE t \in DOMAIN key_info_by_token_id
      <3>1. /\ d \in DOMAIN drop_by_id /\ key_info_by_token_id[t] \in KeyInfo
            /\ key_info_by_token_id[t].remaining_uses <= drop_by_id[d].max_key_uses
            /\ drop_by_id[d] \in Drop
        BY <2>3 DEF Inv, Current, Registry, Housed, Typed, IsMap
      <3>2. drop_by_id[d].max_key_uses \in Nat
        BY <3>1 DEF Drop
      <3>3. /\ drop_by_id'[d].max_key_uses = drop_by_id[d].max_key_uses
            /\ drop_by_id'[d].asset_data_for_uses = drop_by_id[d].asset_data_for_uses
        BY <2>1, <3>1 DEF DropsKept
      <3>4. /\ OfShape(drop_by_id[d])
            /\ WithinInterval(drop_by_id[d], key_info_by_token_id[t], now)
            /\ UsedInTime(drop_by_id[d], key_info_by_token_id[t], key_info_by_token_id'[t])
        BY <2>3, <3>1 DEF IntervalInv, KeysUsedInTime
      <3> HIDE DEF d
      <3>5. WithinInterval(drop_by_id'[d], key_info_by_token_id'[t], now')
        BY <2>1, <3>1, <3>2, <3>3, <3>4, KeyStaysWithin
      <3> QED
        BY <3>5 DEF d
    <2> QED
      BY <2>2, <2>3
  <1> QED
    BY <1>1, <1>2 DEF IntervalInv

\* Keys that keep their uses are used in their time.
LEMMA SameUses ==
    ASSUME NEW keys, \A t \in DOMAIN key_info_by_token_id \cap DOMAIN keys :
                         keys[t].remaining_uses = key_info_by_token_id[t].remaining_uses
    PROVE  KeysUsedInTime(keys)
  BY DEF KeysUsedInTime, UsedInTime

\* before_claim_logic takes a use after it has looked at the time.
LEMMA ClaimInTime ==
    ASSUME Inv, NEW pk, NEW creating_account, claim_conditions(pk, creating_account)
    PROVE  /\ KeysUsedInTime(keys_after_claim(pk))
           /\ DOMAIN keys_after_claim(pk) = DOMAIN key_info_by_token_id
  <1> DEFINE t == token_id_by_pk[pk]
             old == key_info_by_token_id[t]
             drop == drop_by_id[parse_token_id(t)]
             keys == keys_after_claim(pk)
  <1>1. pk \in DOMAIN token_id_by_pk /\ assert_pre_claim_conditions(drop, old, creating_account)
    BY DEF claim_conditions
  <1>2. t \in DOMAIN key_info_by_token_id /\ old \in KeyInfo
    BY <1>1 DEF Inv, Current, Registry, Linked, Typed, IsMap
  <1>3. /\ keys[t] = spend_use(old) /\ DOMAIN keys = DOMAIN key_info_by_token_id
        /\ \A u \in DOMAIN keys : u # t => keys[u] = key_info_by_token_id[u]
    BY <1>2 DEF keys_after_claim
  <1>4. verify_signature(old) \in KeyInfo
        /\ verify_signature(old).remaining_uses = old.remaining_uses
    BY <1>2 DEF KeyInfo, verify_signature
  <1>5. spend_use(old).remaining_uses = old.remaining_uses - 1
    BY <1>4 DEF KeyInfo, spend_use
  <1>6. UsedInTime(drop, old, keys[t])
    BY <1>1, <1>3, <1>5 DEF assert_pre_claim_conditions, UsedInTime
  <1> HIDE DEF keys
  <1> QED
    BY <1>3, <1>6 DEF KeysUsedInTime, UsedInTime, keys

\* A step that brings no key and no drop.
LEMMA NothingComes ==
    ASSUME NEW keys, KeysUsedInTime(keys), DOMAIN keys = DOMAIN key_info_by_token_id,
           \A u \in DOMAIN key_info_by_token_id' :
               u \in DOMAIN keys /\ key_info_by_token_id'[u] = keys[u],
           SameDrops
    PROVE  KeysUsedInTime(key_info_by_token_id') /\ NewKeysUnused /\ DropsKept
  <1>1. KeysUsedInTime(key_info_by_token_id')
    BY DEF KeysUsedInTime
  <1>2. NewKeysUnused
    BY DEF NewKeysUnused
  <1>3. DropsKept
    BY DEF SameDrops, DropsKept
  <1> QED
    BY <1>1, <1>2, <1>3

\* Keys are added with all uses of their drop, next to those that are there.
LEMMA AddedKeysUnused ==
    ASSUME NEW d, NEW k, NEW uses, NEW key_data,
           internal_add_keys_to_account(d, k, uses, key_data),
           \A t \in DOMAIN key_info_by_token_id : parse_token_id(t) = d => ~(k <= t[2]),
           drop_by_id'[d].max_key_uses = uses
    PROVE  KeysUsedInTime(key_info_by_token_id') /\ NewKeysUnused
  <1> DEFINE new == {<<d, i>> : i \in k .. k + Len(key_data) - 1}
             data == [t \in new |-> key_data[t[2] - k + 1]]
  <1>1. ASSUME NEW t \in new, t \in DOMAIN key_info_by_token_id
        PROVE  FALSE
    BY <1>1 DEF parse_token_id
  <1>2. /\ DOMAIN key_info_by_token_id' = DOMAIN key_info_by_token_id \cup new
        /\ \A t \in DOMAIN key_info_by_token_id' :
              key_info_by_token_id'[t] =
                  IF t \in new THEN NewKeyInfo(data[t], uses) ELSE key_info_by_token_id[t]
    BY DEF internal_add_keys_to_account
  <1>3. \A t \in new : parse_token_id(t) = d
    BY DEF parse_token_id
  <1> HIDE DEF new, data
  <1>4. \A t \in DOMAIN key_info_by_token_id \cap DOMAIN key_info_by_token_id' :
            key_info_by_token_id'[t] = key_info_by_token_id[t]
    BY <1>1, <1>2
  <1>5. ASSUME NEW t \in DOMAIN key_info_by_token_id' \ DOMAIN key_info_by_token_id
        PROVE  /\ key_info_by_token_id'[t].remaining_uses =
                      drop_by_id'[parse_token_id(t)].max_key_uses
               /\ key_info_by_token_id'[t].message_nonce = 0
               /\ key_info_by_token_id'[t].next_approval_id = 0
    <2>1. t \in new /\ key_info_by_token_id'[t] = NewKeyInfo(data[t], uses)
      BY <1>2
    <2>2. /\ key_info_by_token_id'[t].remaining_uses = uses
          /\ key_info_by_token_id'[t].message_nonce = 0
          /\ key_info_by_token_id'[t].next_approval_id = 0
      BY <2>1 DEF NewKeyInfo
    <2> QED
      BY <2>1, <2>2, <1>3
  <1>6. NewKeysUnused
    BY <1>5 DEF NewKeysUnused
  <1> QED
    BY <1>4, <1>6, SameUses

\* The keys of a new drop are not used yet.
LEMMA CreateDropInTime ==
    ASSUME Inv, NEW caller, NEW d, NEW shape \in Shapes, NEW key_data, NEW deposit, NEW keep,
           CreateDrop(caller, d, shape, key_data, deposit, keep)
    PROVE  KeysUsedInTime(key_info_by_token_id') /\ NewKeysUnused /\ DropsKept
  <1> DEFINE uses == max_key_uses(shape.asset_data)
             drop == NewDropOf(caller, shape, Len(key_data))
  <1>1. /\ d \notin DOMAIN drop_by_id
        /\ internal_add_keys_to_account(d, 0, uses, key_data)
        /\ drop_by_id' = With(drop_by_id, d, drop)
    BY DEF CreateDrop
  <1>2. drop.max_key_uses = uses /\ drop.asset_data_for_uses = asset_data_for_uses(shape)
    BY DEF NewDropOf
  <1>3. OfShape(drop)
    BY <1>2 DEF OfShape
  <1> HIDE DEF uses, drop
  <1>4. /\ DOMAIN drop_by_id' = DOMAIN drop_by_id \cup {d}
        /\ drop_by_id'[d] = drop
        /\ \A e \in DOMAIN drop_by_id : drop_by_id'[e] = drop_by_id[e]
    BY <1>1 DEF With
  <1>5. DropsKept
    BY <1>3, <1>4 DEF DropsKept
  <1>6. \A t \in DOMAIN key_info_by_token_id : parse_token_id(t) # d
    BY <1>1 DEF Inv, Current, Registry, Housed
  <1> QED
    BY <1>1, <1>2, <1>4, <1>5, <1>6, AddedKeysUnused

\* Nor are keys added to a drop.
LEMMA AddKeysInTime ==
    ASSUME Inv, NEW caller, NEW d, NEW key_data, NEW deposit, NEW keep,
           AddKeys(caller, d, key_data, deposit, keep)
    PROVE  KeysUsedInTime(key_info_by_token_id') /\ NewKeysUnused /\ DropsKept
  <1> DEFINE k == drop_by_id[d].next_key_id
  <1>1. /\ d \in DOMAIN drop_by_id
        /\ internal_add_keys_to_account(d, k, drop_by_id[d].max_key_uses, key_data)
        /\ drop_by_id' = [drop_by_id EXCEPT ![d].next_key_id = @ + Len(key_data)]
    BY DEF AddKeys
  <1>2. drop_by_id[d] \in Drop
    BY <1>1 DEF Inv, Current, Registry, Typed, IsMap
  <1>3. SameDrops
    BY <1>1, <1>2 DEF Drop, SameDrops
  <1>4. drop_by_id'[d].max_key_uses = drop_by_id[d].max_key_uses
    BY <1>1, <1>2 DEF Drop
  <1>5. ASSUME NEW t \in DOMAIN key_info_by_token_id, parse_token_id(t) = d
        PROVE  ~(k <= t[2])
    <2>1. k \in Nat
      BY <1>2, StorageAssumption DEF Drop
    <2>2. t[2] \in Nat /\ t[2] < k
      BY <1>5 DEF Inv, Current, Registry, Typed, IsMap, Housed, TokenIds
    <2> QED
      BY <2>1, <2>2
  <1> HIDE DEF k
  <1> QED
    BY <1>1, <1>3, <1>4, <1>5, AddedKeysUnused DEF SameDrops, DropsKept

\* Nor are the keys of a batch of drops.
LEMMA CreateDropBatchInTime ==
    ASSUME NEW caller, NEW batch \in Batches, NEW deposit, NEW keep, NEW metadata,
           NEW on_success, NEW call_fails,
           CreateDropBatch(caller, batch, deposit, keep, metadata, on_success, call_fails)
    PROVE  KeysUsedInTime(key_info_by_token_id') /\ NewKeysUnused /\ DropsKept
  <1> DEFINE ids == {batch[i].drop_id : i \in DOMAIN batch}
             shape == [d \in ids |-> batch[CHOOSE i \in DOMAIN batch : batch[i].drop_id = d].shape]
  <1>1. /\ UNCHANGED key_info_by_token_id
        /\ ids \cap DOMAIN drop_by_id = {}
        /\ DOMAIN drop_by_id' = DOMAIN drop_by_id \cup ids
        /\ \A d \in DOMAIN drop_by_id' :
              drop_by_id'[d] = IF d \in ids THEN NewDropOf(caller, shape[d], 0) ELSE drop_by_id[d]
    BY DEF CreateDropBatch
  <1>2. \A i \in DOMAIN batch : batch[i].shape \in Shapes
    BY BatchEntries
  <1>3. \A d \in ids : shape[d] \in Shapes
    BY <1>2
  <1>4. \A d \in ids : OfShape(NewDropOf(caller, shape[d], 0))
    BY <1>3 DEF NewDropOf, OfShape
  <1> HIDE DEF ids, shape
  <1>5. DropsKept
    BY <1>1, <1>4 DEF DropsKept
  <1> QED
    BY <1>1, <1>5, SameUses DEF NewKeysUnused

-----------------------------------------------------------------------------
(* Every step.                                                             *)

\* The callbacks of a claim use no key.
LEMMA ClaimCallbackInTime ==
    ASSUME SomeClaimCallback
    PROVE  KeysUsedInTime(key_info_by_token_id') /\ NewKeysUnused /\ DropsKept
  <1> DEFINE keys == key_info_by_token_id
  <1>1. \A u \in DOMAIN keys' : u \in DOMAIN keys /\ keys'[u] = keys[u]
    <2>1. ASSUME NEW r, OnAccountCreationFailed(r)
          PROVE  \A u \in DOMAIN keys' : u \in DOMAIN keys /\ keys'[u] = keys[u]
      BY <2>1, CleanedUpKeys DEF OnAccountCreationFailed
    <2>2. ASSUME NEW r, NEW lost, OnNewAccountCreated(r, lost)
          PROVE  \A u \in DOMAIN keys' : u \in DOMAIN keys /\ keys'[u] = keys[u]
      BY <2>2, ClaimedAssetsKeys DEF OnNewAccountCreated, hand_out
    <2>3. ASSUME NEW r, NEW lost, OnAssetsClaimed(r, lost)
          PROVE  \A u \in DOMAIN keys' : u \in DOMAIN keys /\ keys'[u] = keys[u]
      BY <2>3, OnAssetsClaimedKeys DEF OnAssetsClaimed
    <2> QED
      BY <2>1, <2>2, <2>3 DEF SomeClaimCallback
  <1>2. KeysUsedInTime(keys)
    BY SameUses
  <1> QED
    BY <1>1, <1>2, NothingComes, ClaimCallbackDrops

\* A claim, whether it hands out at once or waits for an account.
LEMMA ClaimsInTime ==
    ASSUME Inv, SomeClaim \/ SomeAccountClaim
    PROVE  KeysUsedInTime(key_info_by_token_id') /\ NewKeysUnused /\ DropsKept
  <1>1. ASSUME NEW pk, NEW fc_args, NEW lost, Claim(pk, fc_args, lost)
        PROVE  KeysUsedInTime(key_info_by_token_id') /\ NewKeysUnused /\ DropsKept
    <2> DEFINE keys == keys_after_claim(pk)
    <2>1. KeysUsedInTime(keys) /\ DOMAIN keys = DOMAIN key_info_by_token_id
      BY <1>1, ClaimInTime DEF Claim
    <2>2. \E t, claimed : internal_claim_assets(t, keys, claimed, << >>, lost)
      BY <1>1, Zenon DEF Claim, claim_of
    <2> HIDE DEF keys
    <2>3. /\ \A u \in DOMAIN key_info_by_token_id' :
                u \in DOMAIN keys /\ key_info_by_token_id'[u] = keys[u]
          /\ SameDrops
      BY <2>2, ClaimedAssetsKeys, ClaimedAssetsDrops
    <2> QED
      BY <2>1, <2>3, NothingComes
  <1>2. ASSUME NEW pk, NEW fc_args, CreateAccountAndClaim(pk, fc_args)
        PROVE  KeysUsedInTime(key_info_by_token_id') /\ NewKeysUnused /\ DropsKept
    <2>1. /\ claim_conditions(pk, TRUE)
          /\ key_info_by_token_id' = keys_after_claim(pk)
          /\ UNCHANGED drop_by_id
      BY <1>2 DEF CreateAccountAndClaim
    <2>2. /\ KeysUsedInTime(keys_after_claim(pk))
          /\ DOMAIN keys_after_claim(pk) = DOMAIN key_info_by_token_id
      BY <2>1, ClaimInTime
    <2>3. SameDrops
      BY <2>1 DEF SameDrops
    <2> QED
      BY <2>1, <2>2, <2>3, NothingComes
  <1> QED
    BY <1>1, <1>2 DEF SomeClaim, SomeAccountClaim

\* Keys that are deleted, transferred or approved keep their uses.
LEMMA KeysKeptInTime ==
    ASSUME Inv, SomeKeysDeleted \/ SomeTransfer \/ SomeApproval \/ UNCHANGED registry
    PROVE  KeysUsedInTime(key_info_by_token_id') /\ NewKeysUnused /\ DropsKept
  <1> DEFINE same(old, new) == new.remaining_uses = old.remaining_uses
             kept == \A u \in DOMAIN key_info_by_token_id' :
                         /\ u \in DOMAIN key_info_by_token_id
                         /\ same(key_info_by_token_id[u], key_info_by_token_id'[u])
  <1>1. ASSUME kept, SameDrops
        PROVE  KeysUsedInTime(key_info_by_token_id') /\ NewKeysUnused /\ DropsKept
    BY <1>1, SameUses DEF NewKeysUnused, SameDrops, DropsKept
  <1>2. CASE SomeKeysDeleted
    <2>1. kept
      BY <1>2 DEF SomeKeysDeleted, DeleteKeys, Without, Restrict
    <2>2. SameDrops
      BY <1>2 DEF SomeKeysDeleted, DeleteKeys, Without, Restrict, SameDrops
    <2> QED
      BY <1>1, <2>1, <2>2
  <1>3. ASSUME NEW pk \in DOMAIN token_id_by_pk, NEW sender, NEW receiver, NEW approval_id,
               NEW new_pk, internal_transfer(sender, pk, receiver, approval_id, new_pk)
        PROVE  kept /\ SameDrops
    <2> DEFINE t == token_id_by_pk[pk]
               key == transferred(key_info_by_token_id[t], receiver, new_pk)
    <2>1. t \in DOMAIN key_info_by_token_id /\ key_info_by_token_id[t] \in KeyInfo
      BY DEF Inv, Current, Registry, Linked, Typed, IsMap
    <2>2. /\ key_info_by_token_id' = [key_info_by_token_id EXCEPT ![t] = key]
          /\ UNCHANGED drop_by_id
      BY <1>3, <2>1 DEF internal_transfer
    <2>3. key.remaining_uses = key_info_by_token_id[t].remaining_uses
      BY <2>1 DEF KeyInfo, transferred
    <2> HIDE DEF key
    <2> QED
      BY <2>1, <2>2, <2>3 DEF SameDrops
  <1>4. ASSUME NEW sender, NEW pk \in DOMAIN token_id_by_pk, NEW account,
               NftApprove(sender, pk, account)
        PROVE  kept /\ SameDrops
    <2> DEFINE t == token_id_by_pk[pk]
               signed == verify_signature(key_info_by_token_id[t])
               key == approved(signed, account)
    <2>1. t \in DOMAIN key_info_by_token_id /\ key_info_by_token_id[t] \in KeyInfo
      BY DEF Inv, Current, Registry, Linked, Typed, IsMap
    <2>2. /\ key_info_by_token_id' = [key_info_by_token_id EXCEPT ![t] = key]
          /\ UNCHANGED drop_by_id
      BY <1>4, <2>1 DEF NftApprove
    <2>3. signed \in KeyInfo /\ signed.remaining_uses = key_info_by_token_id[t].remaining_uses
      BY <2>1 DEF KeyInfo, verify_signature
    <2> HIDE DEF signed
    <2>4. key.remaining_uses = signed.remaining_uses
      BY <2>3 DEF KeyInfo, approved
    <2> HIDE DEF key
    <2> QED
      BY <2>1, <2>2, <2>3, <2>4 DEF SameDrops
  <1>5. CASE UNCHANGED registry
    <2>1. kept /\ SameDrops
      BY <1>5 DEF registry, SameDrops
    <2> QED
      BY <1>1, <2>1
  <1> QED
    BY <1>1, <1>2, <1>3, <1>4, <1>5 DEF SomeTransfer, SomeApproval

\* What every step does to the keys: one case for each kind of operation.
LEMMA NextInTime ==
    ASSUME Inv, [Next]_vars
    PROVE  KeysUsedInTime(key_info_by_token_id') /\ NewKeysUnused /\ DropsKept
  <1> DEFINE in_time == KeysUsedInTime(key_info_by_token_id') /\ NewKeysUnused /\ DropsKept
  <1>1. CASE SomeDropCreated \/ SomeKeysAdded \/ SomeBatchCreated
    <2>1. in_time
      BY <1>1, CreateDropInTime, AddKeysInTime, CreateDropBatchInTime
         DEF SomeDropCreated, SomeKeysAdded, SomeBatchCreated
    <2> QED
      BY <2>1
  <1>2. CASE SomeClaim \/ SomeAccountClaim \/ SomeClaimCallback
    <2>1. in_time
      BY <1>2, ClaimsInTime, ClaimCallbackInTime
    <2> QED
      BY <2>1
  <1>3. CASE SomeKeysDeleted \/ SomeTransfer \/ SomeApproval \/ UNCHANGED registry
    <2>1. in_time
      BY <1>3, KeysKeptInTime
    <2> QED
      BY <2>1
  <1> QED
    BY <1>1, <1>2, <1>3, StepsByKind, RegistryUntouched DEF RegistryStep, vars

\* Every step keeps the rule.
LEMMA IntervalStep == Inv /\ [Next]_vars /\ IntervalInv => IntervalInv'
  BY NextInTime, KeysStayWithin, TimePasses, NextInv

\* At first there are no keys.
LEMMA InitInterval == Init => IntervalInv
  BY DEF Init, EmptyMap, IntervalInv

\* However a key's uses are claimed, transferred in between, or waited for,
\* its n-th use comes when n whole intervals have passed since the start
\* (assert_claim_timestamps).
THEOREM ClaimsWithinIntervalHolds == Spec => []ClaimsWithinInterval
  <1>1. IntervalInv => ClaimsWithinInterval
    BY DEF IntervalInv, WithinInterval, ClaimsWithinInterval
  <1> QED
    BY InitInterval, IntervalStep, InvAlways, <1>1, PTL DEF Spec

-----------------------------------------------------------------------------
(* What is signed for a key.                                               *)

\* Every step keeps the count: one case for the keys that come and one for
\* those that stay.
LEMMA NonceStep ==
    ASSUME Inv, NonceCountsSignatures, [Next]_vars
    PROVE  NonceCountsSignatures'
  <1> DEFINE keys == key_info_by_token_id
             uses(t) == drop_by_id[parse_token_id(t)].max_key_uses
  <1>1. /\ NewKeysUnused /\ DropsKept /\ KeysStepped /\ Inv'
    BY NextInTime, NextKeys, NextInv
  <1> SUFFICES ASSUME NEW t \in DOMAIN keys'
               PROVE  keys'[t].message_nonce =
                          drop_by_id'[parse_token_id(t)].max_key_uses - keys'[t].remaining_uses
                          + keys'[t].next_approval_id
    BY DEF NonceCountsSignatures
  <1>2. /\ keys'[t] \in KeyInfo /\ parse_token_id(t) \in DOMAIN drop_by_id'
        /\ drop_by_id'[parse_token_id(t)] \in Drop
    BY <1>1 DEF Inv, Current, Registry, Typed, Housed, IsMap
  <1>3. CASE t \notin DOMAIN keys
    BY <1>1, <1>2, <1>3 DEF NewKeysUnused, Drop
  <1>4. CASE t \in DOMAIN keys
    <2>1. /\ keys[t] \in KeyInfo /\ parse_token_id(t) \in DOMAIN drop_by_id
          /\ drop_by_id[parse_token_id(t)] \in Drop
      BY <1>4 DEF Inv, Current, Registry, Typed, Housed, IsMap
    <2>2. drop_by_id'[parse_token_id(t)].max_key_uses = uses(t)
      BY <1>1, <1>2, <2>1 DEF DropsKept
    <2>3. SignedOnce(keys[t], keys'[t])
      BY <1>1, <1>4 DEF KeysStepped, KeysStep
    <2>4. keys[t].message_nonce = uses(t) - keys[t].remaining_uses + keys[t].next_approval_id
      BY <1>4 DEF NonceCountsSignatures
    <2>5. /\ keys[t].message_nonce \in Nat /\ keys[t].remaining_uses \in Nat
          /\ keys[t].next_approval_id \in Nat /\ uses(t) \in Nat
          /\ keys'[t].message_nonce \in Nat /\ keys'[t].remaining_uses \in Nat
          /\ keys'[t].next_approval_id \in Nat
      BY <1>2, <2>1 DEF KeyInfo, Drop
    <2> HIDE DEF uses
    <2> QED
      BY <2>2, <2>3, <2>4, <2>5 DEF SignedOnce
  <1> QED
    BY <1>3, <1>4

\* However a key is used, approved for and transferred, each use taken and
\* each approval given has a nonce of its own, in order from zero: what was
\* signed for one of them does for no other use of the key's info
\* (verify_signature, NewKeyInfo, nft_transfer).
THEOREM NonceCountsSignaturesHolds == Spec => []NonceCountsSignatures
  <1>1. Init => NonceCountsSignatures
    BY DEF Init, EmptyMap, NonceCountsSignatures
  <1>2. Inv /\ NonceCountsSignatures /\ [Next]_vars => NonceCountsSignatures'
    BY NonceStep
  <1> QED
    BY <1>1, <1>2, InvAlways, PTL DEF Spec
=============================================================================
