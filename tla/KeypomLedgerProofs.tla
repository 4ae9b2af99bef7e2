------------------------- MODULE KeypomLedgerProofs -------------------------
(***************************************************************************)
(* The contract implements KeyLedger, for every instance whose keys have   *)
(* one use: each operation maps to one step of the ledger or to none.      *)
(***************************************************************************)
EXTENDS KeypomKeyProofs, KeypomLedger

\* The ledger's map, with the owners as the key infos have them.
Bearers(keys, by_pk) ==
    [pk \in DOMAIN by_pk |->
        [token |-> by_pk[pk], uses |-> keys[by_pk[pk]].remaining_uses,
         owners |-> keys[by_pk[pk]].owner_id]]

-----------------------------------------------------------------------------

\* A key of the ledger has its type, and no other bears its token.
LEMMA BearersTyped ==
    ASSUME NEW drops, NEW keys, NEW by_pk, NEW per_owner, NEW by_funder,
           Registry(drops, keys, by_pk, per_owner, by_funder)
    PROVE  /\ \A pk \in DOMAIN by_pk : Bearers(keys, by_pk)[pk] \in Ledger!Key
           /\ \A p, q \in DOMAIN by_pk : by_pk[p] = by_pk[q] => p = q
  <1>1. ASSUME NEW pk \in DOMAIN by_pk
        PROVE  Bearers(keys, by_pk)[pk] \in Ledger!Key
    <2> DEFINE key == keys[by_pk[pk]]
    <2>1. by_pk[pk] \in TokenIds /\ key \in KeyInfo /\ key.remaining_uses > 0
      BY <1>1 DEF Registry, Typed, Linked, IsMap
    <2>2. key.remaining_uses \in Nat \ {0} /\ key.owner_id \in AccountOptions
      BY <2>1 DEF KeyInfo
    <2> HIDE DEF key
    <2>3. key.owner_id \in Ledger!SomeOwners
      BY <2>2 DEF AccountOptions, Ledger!SomeOwners, None, Some
    <2> QED
      BY <2>1, <2>2, <2>3 DEF Ledger!Key, Bearers, key
  <1>2. \A p, q \in DOMAIN by_pk : by_pk[p] = by_pk[q] => p = q
    BY DEF Registry, Linked
  <1> QED
    BY <1>1, <1>2

\* An account has the token of a key among its own exactly when it owns the key.
LEMMA OwnersOfKey ==
    ASSUME NEW drops, NEW keys, NEW by_pk, NEW per_owner, NEW by_funder,
           Registry(drops, keys, by_pk, per_owner, by_funder), NEW pk \in DOMAIN by_pk
    PROVE  {a \in Accounts : by_pk[pk] \in per_owner[a]} = keys[by_pk[pk]].owner_id
  <1> DEFINE key == keys[by_pk[pk]]
  <1>1. by_pk[pk] \in DOMAIN keys /\ key \in KeyInfo /\ key.remaining_uses > 0
    BY DEF Registry, Typed, Linked, IsMap
  <1>2. key.owner_id \in AccountOptions
    BY <1>1 DEF KeyInfo
  <1>3. \A a \in Accounts : by_pk[pk] \in per_owner[a] <=> key.owner_id = Some(a)
    BY <1>1 DEF Registry, Owned
  <1> HIDE DEF key
  <1>4. \A a \in Accounts : key.owner_id = Some(a) <=> a \in key.owner_id
    BY <1>2 DEF AccountOptions, None, Some
  <1>5. key.owner_id \subseteq Accounts
    BY <1>2 DEF AccountOptions, None, Some
  <1> QED
    BY <1>3, <1>4, <1>5 DEF key

\* The ledger's keys before and after a step.
LEMMA LedgerKeys == ASSUME Inv PROVE ledger_keys = Bearers(key_info_by_token_id, token_id_by_pk)
  <1>1. Registry(drop_by_id, key_info_by_token_id, token_id_by_pk, tokens_per_owner,
                 drop_ids_by_funder)
    BY DEF Inv, Current
  <1>2. \A pk \in DOMAIN token_id_by_pk :
           {a \in Accounts : token_id_by_pk[pk] \in tokens_per_owner[a]} =
               key_info_by_token_id[token_id_by_pk[pk]].owner_id
    BY <1>1, OwnersOfKey
  <1> QED
    BY <1>2 DEF ledger_keys, ledger_key, Bearers

\* The same of the next state.
LEMMA LedgerKeysAfter ==
    ASSUME Inv' PROVE ledger_keys' = Bearers(key_info_by_token_id', token_id_by_pk')
  <1>1. Registry(drop_by_id', key_info_by_token_id', token_id_by_pk', tokens_per_owner',
                 drop_ids_by_funder')
    BY DEF Inv, Current
  <1>2. \A pk \in DOMAIN token_id_by_pk' :
           {a \in Accounts : token_id_by_pk'[pk] \in tokens_per_owner'[a]} =
               key_info_by_token_id'[token_id_by_pk'[pk]].owner_id
    BY <1>1, OwnersOfKey
  <1> QED
    BY <1>2 DEF ledger_keys, ledger_key, Bearers

-----------------------------------------------------------------------------
(* What a step makes of the claims that are open.                          *)

\* With no promise fired or resolved the open claims stay.
LEMMA SameOpen == ASSUME UNCHANGED receipts PROVE UNCHANGED ledger_open
  BY DEF ledger_open, open_claims, is_claim

\* Firing a promise that is no claim opens none, ...
LEMMA OtherFired ==
    ASSUME NEW receipt, ~is_claim(receipt), Fire(receipt)
    PROVE  UNCHANGED ledger_open
  <1>1. /\ NewReceipt \notin DOMAIN receipts /\ receipts' = With(receipts, NewReceipt, receipt)
    BY DEF Fire, FreeReceipts, NewReceipt
  <1> QED
    BY <1>1 DEF ledger_open, open_claims, is_claim, With

\* ... a claim opens one, under an ID that is free, ...
LEMMA ClaimFired ==
    ASSUME NEW receipt, is_claim(receipt), Fire(receipt)
    PROVE  /\ NewReceipt \in ReceiptIds /\ NewReceipt \notin DOMAIN ledger_open
           /\ ledger_open' = [c \in DOMAIN ledger_open \cup {NewReceipt} |->
                                 IF c = NewReceipt THEN receipt.token_id ELSE ledger_open[c]]
  <1>1. /\ NewReceipt \in ReceiptIds /\ NewReceipt \notin DOMAIN receipts
        /\ receipts' = With(receipts, NewReceipt, receipt)
    BY DEF Fire, FreeReceipts, NewReceipt
  <1> QED
    BY <1>1 DEF ledger_open, open_claims, is_claim, With

\* ... resolving another promise closes none, ...
LEMMA OtherResolved ==
    ASSUME NEW r, Resolve(r), ~is_claim(receipts[r])
    PROVE  UNCHANGED ledger_open
  BY DEF Resolve, ledger_open, open_claims, is_claim, Without, Restrict

\* ... and resolving a claim closes it.
LEMMA ClaimResolved ==
    ASSUME NEW r, Resolve(r)
    PROVE  ledger_open' = [c \in DOMAIN ledger_open \ {r} |-> ledger_open[c]]
  BY DEF Resolve, ledger_open, open_claims, is_claim, Without, Restrict

-----------------------------------------------------------------------------
(* Steps the ledger does not see.                                          *)

\* A step that changes no claim, public key, use or owner is a stutter.
LEMMA Unseen ==
    ASSUME Inv, Inv', UNCHANGED <<ledger_open, token_id_by_pk>>,
           DOMAIN key_info_by_token_id' = DOMAIN key_info_by_token_id,
           \A t \in DOMAIN key_info_by_token_id :
               /\ key_info_by_token_id'[t].remaining_uses = key_info_by_token_id[t].remaining_uses
               /\ key_info_by_token_id'[t].owner_id = key_info_by_token_id[t].owner_id
    PROVE  UNCHANGED Ledger!ledger
  <1>1. \A pk \in DOMAIN token_id_by_pk : token_id_by_pk[pk] \in DOMAIN key_info_by_token_id
    BY DEF Inv, Current, Registry, Linked
  <1> QED
    BY <1>1, LedgerKeys, LedgerKeysAfter DEF Bearers, Ledger!ledger

\* A step that touches no key and fires or resolves no claim.
LEMMA UnseenStep ==
    ASSUME Inv, Inv', UNCHANGED <<ledger_open, registry>>
    PROVE  UNCHANGED Ledger!ledger
  BY Unseen DEF registry

\* Settings, balances and tokens are none of the ledger.
LEMMA SettingsUnseen ==
    ASSUME Inv, Inv', SettingsStep \/ BalanceStep \/ TokensMoved \/ Tick
    PROVE  UNCHANGED Ledger!ledger
  <1>1. UNCHANGED registry
    BY RegistryUntouched
  <1>2. CASE UNCHANGED receipts
    BY <1>1, <1>2, SameOpen, UnseenStep
  <1>3. CASE SettingsStep \/ Tick
    BY <1>2, <1>3 DEF SettingsStep, Tick, FreezeContract, UnfreezeContract, SetRootAccount, SetFees,
                      SetFeesPerUser, AddSigningAdmin, AddSigningPks, RemoveSigningPks,
                      besides_signing, besides_settings
  <1>4. ASSUME NEW receipt, ~is_claim(receipt), Fire(receipt)
        PROVE  UNCHANGED Ledger!ledger
    BY <1>1, <1>4, OtherFired, UnseenStep
  <1>5. ASSUME NEW r, Resolve(r), ~is_claim(receipts[r])
        PROVE  UNCHANGED Ledger!ledger
    BY <1>1, <1>5, OtherResolved, UnseenStep
  <1>6. CASE WithdrawFees
    <2>1. Fire(FeeReceipt(fees_collected)) /\ ~is_claim(FeeReceipt(fees_collected))
      BY <1>6 DEF WithdrawFees, FeeReceipt, is_claim
    <2> QED
      BY <1>4, <2>1
  <1>7. ASSUME NEW caller, NEW d, NEW c, NEW amount, WithdrawFtBalance(caller, d, c, amount)
        PROVE  UNCHANGED Ledger!ledger
    <2>1. \E promise : Fire([kind |-> "ft_refund", drop_id |-> d, promise |-> promise])
      BY <1>7 DEF WithdrawFtBalance
    <2>2. \A promise : ~is_claim([kind |-> "ft_refund", drop_id |-> d, promise |-> promise])
      BY DEF is_claim
    <2> QED
      BY <1>4, <2>1, <2>2
  <1>8. ASSUME NEW caller, NEW d, NEW c, NEW tokens, WithdrawNftTokens(caller, d, c, tokens)
        PROVE  UNCHANGED Ledger!ledger
    <2>1. \E ids, storage : Fire([kind |-> "nft_refund", drop_id |-> d, contract |-> c,
                                  token_ids |-> ids, storage_released |-> storage])
      BY <1>8 DEF WithdrawNftTokens
    <2>2. \A ids, storage : ~is_claim([kind |-> "nft_refund", drop_id |-> d, contract |-> c,
                                       token_ids |-> ids, storage_released |-> storage])
      BY DEF is_claim
    <2> QED
      BY <1>4, <2>1, <2>2
  <1>9. ASSUME NEW r, NEW succeeded, \/ FtResolveRefund(r, succeeded)
                                     \/ ResolveNftRefund(r, succeeded)
                                     \/ OnWithdrawFees(r, succeeded)
        PROVE  UNCHANGED Ledger!ledger
    BY <1>5, <1>9 DEF FtResolveRefund, ResolveNftRefund, OnWithdrawFees, is_claim
  <1>10. CASE BalanceStep
    BY <1>2, <1>6, <1>9, <1>10 DEF BalanceStep, AddToBalance, WithdrawFromBalance, SetFunderMetadata
  <1>11. CASE TokensMoved
    BY <1>2, <1>7, <1>8, <1>9, <1>11 DEF TokensMoved, FtOnTransfer, NftOnTransfer
  <1> QED
    BY <1>3, <1>10, <1>11

-----------------------------------------------------------------------------
(* Steps of the ledger.                                                    *)

\* Keys are added under tokens and public keys that bear nothing yet.
LEMMA KeysIssued ==
    ASSUME Inv, Inv', UNCHANGED receipts, NEW d, NEW k, NEW uses, NEW key_data,
           internal_add_keys_to_account(d, k, uses, key_data),
           \A t \in DOMAIN key_info_by_token_id : parse_token_id(t) = d => ~(k <= t[2])
    PROVE  \E pks \in SUBSET PublicKeys : Ledger!Issue(pks)
  <1> DEFINE new == {<<d, i>> : i \in k .. k + Len(key_data) - 1}
             data == [t \in new |-> key_data[t[2] - k + 1]]
             pks == {data[t].public_key : t \in new}
             keys == key_info_by_token_id
             by_pk == token_id_by_pk
  <1>1. ASSUME NEW t \in new, t \in DOMAIN keys
        PROVE  FALSE
    BY <1>1 DEF parse_token_id
  <1>2. /\ pks \cap DOMAIN by_pk = {}
        /\ \A t, u \in new : data[t].public_key = data[u].public_key => t = u
        /\ DOMAIN by_pk' = DOMAIN by_pk \cup pks
        /\ \A pk \in DOMAIN by_pk : by_pk'[pk] = by_pk[pk]
        /\ \A pk \in pks : by_pk'[pk] = CHOOSE t \in new : data[t].public_key = pk
    BY DEF internal_add_keys_to_account
  <1>3. /\ DOMAIN keys' = DOMAIN keys \cup new
        /\ \A t \in DOMAIN keys \ new : keys'[t] = keys[t]
    BY DEF internal_add_keys_to_account
  <1> HIDE DEF new, data
  <1>4. /\ \A pk \in pks : by_pk'[pk] \in new
        /\ new = {by_pk'[pk] : pk \in pks}
    <2>1. ASSUME NEW t \in new
          PROVE  data[t].public_key \in pks /\ by_pk'[data[t].public_key] = t
      <3>1. data[t].public_key \in pks
        BY <2>1
      <3>2. by_pk'[data[t].public_key] =
               CHOOSE u \in new : data[u].public_key = data[t].public_key
        BY <1>2, <3>1
      <3> QED
        BY <1>2, <2>1, <3>1, <3>2
    <2> QED
      BY <2>1
  <1> HIDE DEF pks
  <1>5. /\ ledger_keys = Bearers(keys, by_pk) /\ ledger_keys' = Bearers(keys', by_pk')
    BY LedgerKeys, LedgerKeysAfter
  <1>6. /\ \A pk \in DOMAIN by_pk' : Bearers(keys', by_pk')[pk] \in Ledger!Key
        /\ \A p, q \in DOMAIN by_pk' : by_pk'[p] = by_pk'[q] => p = q
    BY BearersTyped DEF Inv, Current
  <1>7. DOMAIN by_pk' \subseteq PublicKeys
    BY DEF Inv, Current, Registry, Typed, IsMap
  <1>8. \A pk \in DOMAIN by_pk : by_pk[pk] \in DOMAIN keys \ new
    BY <1>1 DEF Inv, Current, Registry, Linked
  <1>9. /\ \A pk \in DOMAIN by_pk : Bearers(keys', by_pk')[pk] = Bearers(keys, by_pk)[pk]
        /\ \A pk \in pks : Bearers(keys', by_pk')[pk].token = by_pk'[pk]
        /\ DOMAIN Bearers(keys, by_pk) = DOMAIN by_pk
        /\ DOMAIN Bearers(keys', by_pk') = DOMAIN by_pk \cup pks
    BY <1>2, <1>3, <1>8 DEF Bearers
  <1>10. Bearers(keys', by_pk') \in [DOMAIN by_pk \cup pks -> Ledger!Key]
    BY <1>2, <1>6 DEF Bearers
  <1>11. Ledger!Issue(pks)
    BY <1>1, <1>2, <1>3, <1>4, <1>5, <1>6, <1>9, <1>10, SameOpen DEF Ledger!Issue
  <1> QED
    BY <1>2, <1>7, <1>11

\* Keys that are deleted can still be used, so no claim of them is open.
LEMMA KeysRevoked ==
    ASSUME Inv, Inv', Held, NEW caller, NEW d, NEW pks \in SUBSET DOMAIN token_id_by_pk,
           NEW keep_empty_drop, DeleteKeys(caller, d, pks, keep_empty_drop)
    PROVE  pks \in SUBSET DOMAIN ledger_keys /\ Ledger!Revoke(pks)
  <1> DEFINE tokens == {token_id_by_pk[pk] : pk \in pks}
  <1>1. /\ key_info_by_token_id' = Without(key_info_by_token_id, tokens)
        /\ token_id_by_pk' = Without(token_id_by_pk, pks)
        /\ UNCHANGED receipts
    BY DEF DeleteKeys, deleted_tokens
  <1>2. \A pk \in pks : ~(key_info_by_token_id[token_id_by_pk[pk]].remaining_uses = 0)
    BY DEF Inv, Current, Registry, Linked
  <1>3. \A c \in DOMAIN ledger_open : ledger_open[c] \notin tokens
    BY <1>2 DEF Held, ledger_open, open_claims, claims
  <1>4. ledger_keys = Bearers(key_info_by_token_id, token_id_by_pk)
    BY LedgerKeys
  <1>5. DOMAIN ledger_keys = DOMAIN token_id_by_pk
    BY <1>4 DEF Bearers
  <1>6. Ledger!TokensOf([pk \in pks |-> ledger_keys[pk]]) = tokens
    BY <1>4 DEF Bearers, Ledger!TokensOf
  <1>7. tokens \cap Ledger!OpenTokens(ledger_open) = {}
    BY <1>3 DEF Ledger!OpenTokens
  <1>8. \A pk \in DOMAIN token_id_by_pk \ pks :
           token_id_by_pk[pk] \in DOMAIN key_info_by_token_id \ tokens
    BY DEF Inv, Current, Registry, Linked
  <1> HIDE DEF tokens
  <1>9. ledger_keys' = Bearers(key_info_by_token_id', token_id_by_pk')
    BY LedgerKeysAfter
  <1>10. ledger_keys' = Ledger!keys_without(pks)
    BY <1>1, <1>4, <1>8, <1>9 DEF Bearers, Without, Restrict, Ledger!keys_without
  <1>11. DOMAIN key_info_by_token_id' = DOMAIN key_info_by_token_id \ tokens
    BY <1>1 DEF Without, Restrict
  <1> QED
    BY <1>1, <1>5, <1>6, <1>7, <1>10, <1>11, SameOpen DEF Ledger!Revoke

\* A transfer moves the token to another public key and owner.
LEMMA KeyTransferred ==
    ASSUME Inv, Inv', NEW sender, NEW pk \in DOMAIN token_id_by_pk, NEW receiver \in Receivers,
           NEW approval_id, NEW new_pk,
           internal_transfer(sender, pk, receiver, approval_id, new_pk)
    PROVE  Ledger!Transfer(pk, new_pk, receiver)
  <1> DEFINE t == token_id_by_pk[pk]
             old == key_info_by_token_id[t]
             key == transferred(old, receiver, new_pk)
  <1>1. t \in DOMAIN key_info_by_token_id /\ old \in KeyInfo /\ old.pub_key = pk
    BY DEF Inv, Current, Registry, Linked, Typed, IsMap
  <1>2. /\ key_info_by_token_id' = [key_info_by_token_id EXCEPT ![t] = key]
        /\ token_id_by_pk' = With(Without(token_id_by_pk, {pk}), new_pk, t)
        /\ new_pk \notin DOMAIN token_id_by_pk \ {pk}
        /\ UNCHANGED receipts
    BY <1>1 DEF internal_transfer, relink_key
  <1>3. key.remaining_uses = old.remaining_uses /\ key.owner_id = receiver
    BY <1>1 DEF KeyInfo, transferred
  <1> HIDE DEF key
  <1>4. /\ ledger_keys = Bearers(key_info_by_token_id, token_id_by_pk)
        /\ ledger_keys' = Bearers(key_info_by_token_id', token_id_by_pk')
    BY LedgerKeys, LedgerKeysAfter
  <1>5. /\ DOMAIN ledger_keys = DOMAIN token_id_by_pk
        /\ DOMAIN ledger_keys' = (DOMAIN token_id_by_pk \ {pk}) \cup {new_pk}
    BY <1>2, <1>4 DEF Bearers, With, Without, Restrict
  <1>6. ledger_keys'[new_pk] = [ledger_keys[pk] EXCEPT !.owners = receiver]
    BY <1>1, <1>2, <1>3, <1>4 DEF Bearers, With
  <1>7. ASSUME NEW p \in DOMAIN token_id_by_pk \ {pk}
        PROVE  ledger_keys'[p] = ledger_keys[p]
    <2>1. /\ token_id_by_pk'[p] = token_id_by_pk[p]
          /\ p \in DOMAIN token_id_by_pk'
      BY <1>2 DEF With, Without, Restrict
    <2>2. token_id_by_pk[p] # t /\ token_id_by_pk[p] \in DOMAIN key_info_by_token_id
      BY DEF Inv, Current, Registry, Linked
    <2>3. key_info_by_token_id'[token_id_by_pk[p]] = key_info_by_token_id[token_id_by_pk[p]]
      BY <1>2, <2>2
    <2> QED
      BY <1>4, <2>1, <2>3 DEF Bearers
  <1>8. DOMAIN key_info_by_token_id' = DOMAIN key_info_by_token_id
    BY <1>2
  <1>9. ledger_keys' = [p \in (DOMAIN ledger_keys \ {pk}) \cup {new_pk} |->
                           IF p = new_pk THEN [ledger_keys[pk] EXCEPT !.owners = receiver]
                                         ELSE ledger_keys[p]]
    BY <1>4, <1>5, <1>6, <1>7 DEF Bearers
  <1> QED
    BY <1>2, <1>5, <1>8, <1>9, SameOpen DEF Ledger!Transfer

-----------------------------------------------------------------------------
(* Claims.                                                                 *)

\* The keys after a step that cleans up at most the key t.
OnlyCleansUp(t, keys) ==
    /\ DOMAIN key_info_by_token_id' \in {DOMAIN keys, DOMAIN keys \ {t}}
    /\ \A u \in DOMAIN keys : u # t =>
          u \in DOMAIN key_info_by_token_id' /\ key_info_by_token_id'[u] = keys[u]

\* on_assets_claimed removes at most the key it is called for.
LEMMA OnAssetsClaimedCleansUp ==
    ASSUME NEW t, NEW keys, NEW assets, NEW token_ids, NEW results,
           on_assets_claimed(t, keys, assets, token_ids, results)
    PROVE  OnlyCleansUp(t, keys)
  <1>1. \A u \in DOMAIN key_info_by_token_id' : u \in DOMAIN keys
    BY OnAssetsClaimedKeys
  <1>2. \A u \in DOMAIN keys : u # t =>
           u \in DOMAIN key_info_by_token_id' /\ key_info_by_token_id'[u] = keys[u]
    BY OnlyOwnKey
  <1> QED
    BY <1>1, <1>2 DEF OnlyCleansUp

\* The only use of a key is taken: nothing bears its token any more.
LEMMA UseTaken ==
    ASSUME Inv, Inv', OneUseEach, NEW pk \in DOMAIN token_id_by_pk,
           unlink_depleted_key(pk), OnlyCleansUp(token_id_by_pk[pk], keys_after_claim(pk))
    PROVE  LET t == token_id_by_pk[pk]
           IN  /\ pk \in DOMAIN ledger_keys /\ ledger_keys[pk].token = t
               /\ ledger_keys' = Ledger!keys_after_use(pk)
               /\ t \notin Ledger!TokensOf(ledger_keys')
               /\ DOMAIN key_info_by_token_id' \in
                     {DOMAIN key_info_by_token_id, DOMAIN key_info_by_token_id \ {t}}
  <1> DEFINE t == token_id_by_pk[pk]
             keys == keys_after_claim(pk)
  <1>1. /\ t \in DOMAIN key_info_by_token_id
        /\ DOMAIN keys = DOMAIN key_info_by_token_id
        /\ keys[t].remaining_uses = 0
        /\ \A u \in DOMAIN keys : u # t => keys[u] = key_info_by_token_id[u]
    BY ClaimDepletes
  <1>2. token_id_by_pk' = Without(token_id_by_pk, {pk})
    BY <1>1 DEF unlink_depleted_key
  <1>3. key_info_by_token_id[t].remaining_uses = 1
    <2>1. key_info_by_token_id[t] \in KeyInfo /\ key_info_by_token_id[t].remaining_uses > 0
      BY DEF Inv, Current, Registry, Linked, Typed, IsMap
    <2>2. key_info_by_token_id[t].remaining_uses <= 1
      BY <1>1 DEF Inv, Current, Registry, Housed, OneUseEach
    <2> QED
      BY <2>1, <2>2 DEF KeyInfo
  <1> HIDE DEF keys
  <1>4. /\ \A u \in DOMAIN key_info_by_token_id : u # t =>
              /\ u \in DOMAIN key_info_by_token_id'
              /\ key_info_by_token_id'[u] = key_info_by_token_id[u]
        /\ DOMAIN key_info_by_token_id' \in
              {DOMAIN key_info_by_token_id, DOMAIN key_info_by_token_id \ {t}}
    BY <1>1 DEF OnlyCleansUp, keys
  <1>5. \A p \in DOMAIN token_id_by_pk \ {pk} :
           token_id_by_pk[p] # t /\ token_id_by_pk[p] \in DOMAIN key_info_by_token_id
    BY DEF Inv, Current, Registry, Linked
  <1>6. /\ ledger_keys = Bearers(key_info_by_token_id, token_id_by_pk)
        /\ ledger_keys' = Bearers(key_info_by_token_id', token_id_by_pk')
    BY LedgerKeys, LedgerKeysAfter
  <1>7. /\ DOMAIN ledger_keys = DOMAIN token_id_by_pk
        /\ ledger_keys[pk].token = t /\ ledger_keys[pk].uses = 1
    BY <1>3, <1>6 DEF Bearers
  <1>8. ledger_keys' = [p \in DOMAIN ledger_keys \ {pk} |-> ledger_keys[p]]
    BY <1>2, <1>4, <1>5, <1>6, <1>7 DEF Bearers, Without, Restrict
  <1>9. t \notin Ledger!TokensOf(ledger_keys')
    BY <1>2, <1>5, <1>6 DEF Ledger!TokensOf, Bearers, Without, Restrict
  <1> QED
    BY <1>4, <1>7, <1>8, <1>9 DEF Ledger!keys_after_use, Ledger!keys_without

\* A claim that is awaited opens a claim of the ledger.
LEMMA ClaimOpened ==
    ASSUME Inv, Inv', OneUseEach, NEW pk \in DOMAIN token_id_by_pk, unlink_depleted_key(pk),
           key_info_by_token_id' = keys_after_claim(pk),
           NEW receipt, Fire(receipt), is_claim(receipt), receipt.token_id = token_id_by_pk[pk]
    PROVE  pk \in DOMAIN ledger_keys /\ \E c \in ReceiptIds : Ledger!OpenClaim(pk, c)
  <1>1. OnlyCleansUp(token_id_by_pk[pk], keys_after_claim(pk))
    BY DEF OnlyCleansUp
  <1>2. DOMAIN key_info_by_token_id' = DOMAIN key_info_by_token_id
    BY ClaimDepletes
  <1>3. /\ pk \in DOMAIN ledger_keys /\ ledger_keys[pk].token = token_id_by_pk[pk]
        /\ ledger_keys' = Ledger!keys_after_use(pk)
    BY <1>1, UseTaken
  <1> QED
    BY <1>2, <1>3, ClaimFired DEF Ledger!OpenClaim

\* One that is not is over at once.
LEMMA ClaimDone ==
    ASSUME Inv, Inv', OneUseEach, Held, NEW pk \in DOMAIN token_id_by_pk, unlink_depleted_key(pk),
           UNCHANGED receipts, OnlyCleansUp(token_id_by_pk[pk], keys_after_claim(pk))
    PROVE  pk \in DOMAIN ledger_keys /\ Ledger!UseAtOnce(pk)
  <1> DEFINE t == token_id_by_pk[pk]
  <1>1. \A c \in DOMAIN ledger_open : ledger_open[c] # t
    BY ClaimDepletes DEF Held, claims, ledger_open, open_claims
  <1>2. t \notin Ledger!OpenTokens(ledger_open')
    BY <1>1, SameOpen DEF Ledger!OpenTokens
  <1>3. /\ pk \in DOMAIN ledger_keys /\ ledger_keys[pk].token = t
        /\ ledger_keys' = Ledger!keys_after_use(pk)
        /\ t \notin Ledger!TokensOf(ledger_keys')
        /\ DOMAIN key_info_by_token_id' \in
              {DOMAIN key_info_by_token_id, DOMAIN key_info_by_token_id \ {t}}
    BY UseTaken
  <1>4. Ledger!MayForget(t)
    BY <1>2, <1>3 DEF Ledger!MayForget
  <1> QED
    BY <1>3, <1>4, SameOpen DEF Ledger!UseAtOnce

\* A callback closes its claim, which was the last to need the key.
LEMMA ClaimClosed ==
    ASSUME Inv, Inv', Held, NEW r \in claims, Resolve(r), UNCHANGED token_id_by_pk,
           OnlyCleansUp(receipts[r].token_id, key_info_by_token_id)
    PROVE  r \in DOMAIN ledger_open /\ Ledger!CloseClaim(r)
  <1> DEFINE t == receipts[r].token_id
  <1>1. r \in DOMAIN ledger_open /\ ledger_open[r] = t
    BY DEF claims, ledger_open, open_claims
  <1>2. ledger_open' = [c \in DOMAIN ledger_open \ {r} |-> ledger_open[c]]
    BY ClaimResolved
  <1>3. \A c \in DOMAIN ledger_open \ {r} : ledger_open[c] # t
    BY OtherClaims DEF claims, ledger_open, open_claims
  <1>4. t \notin Ledger!OpenTokens(ledger_open')
    BY <1>2, <1>3 DEF Ledger!OpenTokens
  <1>5. \A pk \in DOMAIN token_id_by_pk :
           token_id_by_pk[pk] # t /\ token_id_by_pk[pk] \in DOMAIN key_info_by_token_id
    <2>1. key_info_by_token_id[t].remaining_uses = 0
      BY DEF Held
    <2> QED
      BY <2>1 DEF Inv, Current, Registry, Linked
  <1>6. /\ ledger_keys = Bearers(key_info_by_token_id, token_id_by_pk)
        /\ ledger_keys' = Bearers(key_info_by_token_id', token_id_by_pk')
    BY LedgerKeys, LedgerKeysAfter
  <1>7. UNCHANGED ledger_keys
    BY <1>5, <1>6 DEF Bearers, OnlyCleansUp
  <1>8. t \notin Ledger!TokensOf(ledger_keys')
    BY <1>5, <1>6, <1>7 DEF Ledger!TokensOf, Bearers
  <1>9. Ledger!MayForget(t)
    BY <1>4, <1>8 DEF Ledger!MayForget, OnlyCleansUp
  <1> QED
    BY <1>1, <1>2, <1>7, <1>9 DEF Ledger!CloseClaim

-----------------------------------------------------------------------------
(* The refinement.                                                         *)

\* Claims open a claim of the key, in the ledger too.
LEMMA ClaimStepsLedger ==
    ASSUME Inv, Inv', OneUseEach, Held, SomeClaim \/ SomeAccountClaim
    PROVE  [Ledger!Next]_Ledger!ledger
  <1>1. ASSUME NEW pk \in DOMAIN token_id_by_pk, NEW fc_args, NEW lost, Claim(pk, fc_args, lost)
        PROVE  Ledger!Next
    <2> DEFINE t == token_id_by_pk[pk]
               keys == keys_after_claim(pk)
               use == get_key_cur_use(drop_by_id[parse_token_id(t)], key_info_by_token_id[t])
               claimed == assets_of_last_use(t, keys, fc_args)
               receipt == ClaimReceipt(t, use, claimed)
    <2>1. /\ unlink_depleted_key(pk)
          /\ internal_claim_assets(t, keys, claimed, << >>, lost)
          /\ is_awaited(claimed) => Fire(receipt)
          /\ ~is_awaited(claimed) => UNCHANGED receipts
      BY <1>1 DEF Claim, claim_of
    <2>2. is_claim(receipt) /\ receipt.token_id = t
      BY DEF ClaimReceipt, is_claim
    <2> HIDE DEF keys, claimed, receipt
    <2>3. CASE is_awaited(claimed)
      <3>1. key_info_by_token_id' = keys
        BY <2>1, <2>3 DEF internal_claim_assets
      <3>2. pk \in DOMAIN ledger_keys /\ \E c \in ReceiptIds : Ledger!OpenClaim(pk, c)
        BY <2>1, <2>2, <2>3, <3>1, ClaimOpened DEF keys
      <3> QED
        BY <3>2 DEF Ledger!Next
    <2>4. CASE ~is_awaited(claimed)
      <3>1. on_assets_claimed(t, keys, claimed.assets, claimed.token_ids, << >>)
        BY <2>1, <2>4 DEF internal_claim_assets
      <3>2. OnlyCleansUp(t, keys)
        BY <3>1, OnAssetsClaimedCleansUp
      <3>3. pk \in DOMAIN ledger_keys /\ Ledger!UseAtOnce(pk)
        BY <2>1, <2>4, <3>2, ClaimDone DEF keys
      <3> QED
        BY <3>3 DEF Ledger!Next
    <2> QED
      BY <2>3, <2>4
  <1>2. ASSUME NEW pk \in DOMAIN token_id_by_pk, NEW fc_args, CreateAccountAndClaim(pk, fc_args)
        PROVE  Ledger!Next
    <2> DEFINE t == token_id_by_pk[pk]
               drop == drop_by_id[parse_token_id(t)]
               use == get_key_cur_use(drop, key_info_by_token_id[t])
               receipt == [kind |-> "create_account", token_id |-> t, use |-> use,
                           fc_args |-> fc_args, root |-> root_account_for(drop, use)]
    <2>1. /\ Fire(receipt) /\ unlink_depleted_key(pk)
          /\ key_info_by_token_id' = keys_after_claim(pk)
      BY <1>2 DEF CreateAccountAndClaim
    <2>2. is_claim(receipt) /\ receipt.token_id = t
      BY DEF is_claim
    <2> HIDE DEF receipt
    <2>3. pk \in DOMAIN ledger_keys /\ \E c \in ReceiptIds : Ledger!OpenClaim(pk, c)
      BY <2>1, <2>2, ClaimOpened
    <2> QED
      BY <2>3 DEF Ledger!Next
  <1> QED
    BY <1>1, <1>2 DEF SomeClaim, SomeAccountClaim

\* Callbacks close one.
LEMMA CallbackStepsLedger ==
    ASSUME Inv, Inv', Held, SomeClaimCallback
    PROVE  [Ledger!Next]_Ledger!ledger
  <1>1. ASSUME NEW r \in claims, Resolve(r), UNCHANGED token_id_by_pk,
               OnlyCleansUp(receipts[r].token_id, key_info_by_token_id)
        PROVE  Ledger!Next
    BY <1>1, ClaimClosed DEF Ledger!Next
  <1>2. ASSUME NEW r, OnAccountCreationFailed(r)
        PROVE  Ledger!Next
    <2> DEFINE t == receipts[r].token_id
    <2>1. /\ r \in claims /\ Resolve(r) /\ UNCHANGED token_id_by_pk
          /\ \E assets, withdrawn, refund, added :
                handle_key_cleanup(t, key_info_by_token_id, assets, withdrawn, refund, added)
      BY <1>2, Zenon DEF OnAccountCreationFailed, claim_in_flight, claims, is_claim
    <2>2. OnlyCleansUp(t, key_info_by_token_id)
      BY <2>1 DEF handle_key_cleanup, OnlyCleansUp, Without, Restrict
    <2> QED
      BY <1>1, <2>1, <2>2
  <1>3. ASSUME NEW r, NEW lost, OnAssetsClaimed(r, lost)
        PROVE  Ledger!Next
    <2> DEFINE t == receipts[r].token_id
    <2>1. r \in claims /\ Resolve(r) /\ UNCHANGED token_id_by_pk
      BY <1>3 DEF OnAssetsClaimed, claim_in_flight, claims, is_claim
    <2>2. \/ UNCHANGED key_info_by_token_id
          \/ \E assets, token_ids, results :
                on_assets_claimed(t, key_info_by_token_id, assets, token_ids, results)
      BY <1>3, Zenon DEF OnAssetsClaimed
    <2>3. UNCHANGED key_info_by_token_id => OnlyCleansUp(t, key_info_by_token_id)
      BY DEF OnlyCleansUp
    <2>4. OnlyCleansUp(t, key_info_by_token_id)
      BY <2>2, <2>3, OnAssetsClaimedCleansUp
    <2> QED
      BY <1>1, <2>1, <2>4
  <1>4. ASSUME NEW r, NEW lost, OnNewAccountCreated(r, lost)
        PROVE  [Ledger!Next]_Ledger!ledger
    <2> DEFINE t == receipts[r].token_id
               claimed == assets_for(receipts[r])
               receipt == ClaimReceipt(t, receipts[r].use, claimed)
    <2>1. /\ r \in claims /\ UNCHANGED token_id_by_pk
          /\ internal_claim_assets(t, key_info_by_token_id, claimed, <<TRUE>>, lost)
          /\ receipts' = IF is_awaited(claimed) THEN [receipts EXCEPT ![r] = receipt]
                         ELSE Without(receipts, {r})
      BY <1>4 DEF OnNewAccountCreated, hand_out, claim_in_flight, claims, is_claim
    <2>2. is_claim(receipt) /\ receipt.token_id = t
      BY DEF ClaimReceipt, is_claim
    <2> HIDE DEF claimed, receipt
    <2>3. CASE is_awaited(claimed)
      <3>1. UNCHANGED key_info_by_token_id
        BY <2>1, <2>3 DEF internal_claim_assets
      <3>2. receipts' = [receipts EXCEPT ![r] = receipt] /\ r \in DOMAIN receipts
        BY <2>1, <2>3 DEF claims
      <3>3. UNCHANGED ledger_open
        BY <2>1, <2>2, <3>2 DEF ledger_open, open_claims, claims, is_claim
      <3> QED
        BY <2>1, <3>1, <3>3, Unseen
    <2>4. CASE ~is_awaited(claimed)
      <3>1. on_assets_claimed(t, key_info_by_token_id, claimed.assets, claimed.token_ids, <<TRUE>>)
        BY <2>1, <2>4 DEF internal_claim_assets
      <3>2. OnlyCleansUp(t, key_info_by_token_id)
        BY <3>1, OnAssetsClaimedCleansUp
      <3>3. Resolve(r)
        BY <2>1, <2>4 DEF Resolve
      <3> QED
        BY <1>1, <2>1, <3>2, <3>3
    <2> QED
      BY <2>3, <2>4
  <1> QED
    BY <1>2, <1>3, <1>4 DEF SomeClaimCallback

\* The operations that change keys otherwise.
LEMMA KeyStepsLedger ==
    ASSUME Inv, Inv', Held,
           SomeDropCreated \/ SomeKeysAdded \/ SomeKeysDeleted \/ SomeTransfer \/ SomeApproval
    PROVE  [Ledger!Next]_Ledger!ledger
  <1>1. ASSUME NEW caller, NEW d, NEW shape, NEW key_data, NEW deposit, NEW keep,
               CreateDrop(caller, d, shape, key_data, deposit, keep)
        PROVE  Ledger!Next
    <2>1. /\ d \notin DOMAIN drop_by_id /\ UNCHANGED receipts
          /\ internal_add_keys_to_account(d, 0, max_key_uses(shape.asset_data), key_data)
      BY <1>1 DEF CreateDrop
    <2>2. \A t \in DOMAIN key_info_by_token_id : parse_token_id(t) # d
      BY <2>1 DEF Inv, Current, Registry, Housed
    <2> QED
      BY <2>1, <2>2, KeysIssued DEF Ledger!Next
  <1>2. ASSUME NEW caller, NEW d, NEW key_data, NEW deposit, NEW keep,
               AddKeys(caller, d, key_data, deposit, keep)
        PROVE  Ledger!Next
    <2> DEFINE k == drop_by_id[d].next_key_id
    <2>1. /\ d \in DOMAIN drop_by_id /\ UNCHANGED receipts
          /\ internal_add_keys_to_account(d, k, drop_by_id[d].max_key_uses, key_data)
      BY <1>2 DEF AddKeys
    <2>2. k \in Nat
      BY <2>1, StorageAssumption DEF Inv, Current, Registry, Typed, IsMap, Drop
    <2>3. ASSUME NEW t \in DOMAIN key_info_by_token_id, parse_token_id(t) = d
          PROVE  ~(k <= t[2])
      <3>1. t[2] \in Nat /\ t[2] < k
        BY <2>3 DEF Inv, Current, Registry, Typed, IsMap, Housed, TokenIds
      <3> QED
        BY <2>2, <3>1
    <2> QED
      BY <2>1, <2>3, KeysIssued DEF Ledger!Next
  <1>3. CASE SomeKeysDeleted
    BY <1>3, KeysRevoked DEF SomeKeysDeleted, Ledger!Next
  <1>4. CASE SomeTransfer
    <2>1. Receivers \subseteq Ledger!SomeOwners
      BY TransfersAssumption DEF Ledger!SomeOwners, None, Some
    <2>2. DOMAIN ledger_keys = DOMAIN token_id_by_pk
      BY DEF ledger_keys
    <2>3. \E pk \in DOMAIN ledger_keys, new_pk \in PublicKeys, receiver \in Ledger!SomeOwners :
             Ledger!Transfer(pk, new_pk, receiver)
      BY <1>4, <2>1, <2>2, KeyTransferred DEF SomeTransfer
    <2> QED
      BY <2>3 DEF Ledger!Next
  <1>5. ASSUME NEW sender, NEW pk \in DOMAIN token_id_by_pk, NEW account,
               NftApprove(sender, pk, account)
        PROVE  UNCHANGED Ledger!ledger
    <2> DEFINE t == token_id_by_pk[pk]
               old == key_info_by_token_id[t]
               key == approved(verify_signature(old), account)
    <2>1. t \in DOMAIN key_info_by_token_id /\ old \in KeyInfo
      BY DEF Inv, Current, Registry, Linked, Typed, IsMap
    <2>2. /\ key_info_by_token_id' = [key_info_by_token_id EXCEPT ![t] = key]
          /\ UNCHANGED <<token_id_by_pk, receipts>>
      BY <1>5, <2>1 DEF NftApprove
    <2>3. /\ verify_signature(old) \in KeyInfo
          /\ verify_signature(old).remaining_uses = old.remaining_uses
          /\ verify_signature(old).owner_id = old.owner_id
      BY <2>1 DEF KeyInfo, verify_signature
    <2>4. key.remaining_uses = old.remaining_uses /\ key.owner_id = old.owner_id
      BY <2>3 DEF KeyInfo, approved
    <2> HIDE DEF key
    <2> QED
      BY <2>1, <2>2, <2>4, SameOpen, Unseen
  <1> QED
    BY <1>1, <1>2, <1>3, <1>4, <1>5 DEF SomeDropCreated, SomeKeysAdded, SomeApproval

\* Every step is a step of the ledger or none.
LEMMA NextLedger ==
    Inv /\ Inv' /\ OneUseEach /\ Held /\ [Next]_vars => [Ledger!Next]_Ledger!ledger
  <1> SUFFICES ASSUME Inv, Inv', OneUseEach, Held, [Next]_vars
               PROVE  [Ledger!Next]_Ledger!ledger
    OBVIOUS
  <1>1. CASE SomeBatchCreated
    BY <1>1, SameOpen, Unseen DEF SomeBatchCreated, CreateDropBatch
  <1>2. ASSUME NEW r, OnNewAccountCreatedPanics(r)
        PROVE  Ledger!Next
    <2>1. r \in claims
      BY <1>2 DEF OnNewAccountCreatedPanics, claim_in_flight, claims, is_claim
    <2>2. Resolve(r) /\ UNCHANGED <<key_info_by_token_id, token_id_by_pk>>
      BY <1>2 DEF OnNewAccountCreatedPanics, CallbackPanics, registry
    <2>3. OnlyCleansUp(receipts[r].token_id, key_info_by_token_id)
      BY <2>2 DEF OnlyCleansUp
    <2> QED
      BY <2>1, <2>2, <2>3, ClaimClosed DEF Ledger!Next
  <1>3. CASE UNCHANGED vars
    BY <1>3, SameOpen, UnseenStep DEF vars
  <1> QED
    BY <1>1, <1>2, <1>3, ClaimStepsLedger, CallbackStepsLedger, KeyStepsLedger, SettingsUnseen,
       StepsByKind DEF RegistryStep

\* At first both have no keys and no claims.
LEMMA InitLedger == Init => Ledger!Init
  BY DEF Init, Ledger!Init, ledger_keys, ledger_open, open_claims, EmptyMap

\* The lookups by public key, the key infos, the owners' tokens and the
\* claims in flight always change as one step of KeyLedger or not at all
\* (create_drop, add_keys, delete_keys, nft_transfer, claim,
\* create_account_and_claim and their callbacks), when every key has one use.
THEOREM ImplementsLedgerHolds ==
    ASSUME SingleUse
    PROVE  Spec => ImplementsLedger
  <1>1. Init => OneUseEach /\ Held
    BY DEF Init, OneUseEach, Held, claims, EmptyMap
  <1>2. Inv /\ OneUseEach /\ Held /\ [Next]_vars => OneUseEach' /\ Held'
    BY NextHeld
  <1> QED
    BY <1>1, <1>2, InitLedger, NextLedger, InvAlways, PTL DEF Spec, ImplementsLedger, Ledger!Spec
=============================================================================
