--------------------------- MODULE KeypomBooksProofs ---------------------------
(***************************************************************************)
(* The books of the contract, for every instance of it:                    *)
(* - the fees of the contract owner are neither lost nor paid twice,       *)
(*   however many withdrawals are in flight and whatever is collected      *)
(*   meanwhile;                                                            *)
(* - what is on record of a drop's assets and in the promises in flight    *)
(*   always is of the form the funder set when the drop was created        *)
(*   (Recorded), and what a step adds to the promises in flight is made of *)
(*   the records of the drop that is claimed from (BooksKept);             *)
(* - so the calls of claims in flight are those the funder configured;     *)
(* - every variable has its type; in particular no balance of a funder, of *)
(*   a token or of the contract itself is ever negative: what is charged   *)
(*   has been checked, and what is given back is an amount.                *)
(***************************************************************************)
EXTENDS KeypomKeyProofs

Fees == [per_drop : Nat, per_key : Nat]

is_fee_receipt(receipt) == receipt.kind = "withdraw_fees"

\* Fees are amounts, and so is what is being withdrawn.
FeeInv ==
    /\ fees_collected \in Nat
    /\ fee_structure \in Fees
    /\ \A a \in DOMAIN fees_per_user : fees_per_user[a] \in Fees
    /\ \A r \in DOMAIN receipts : is_fee_receipt(receipts[r]) => receipts[r].amount \in Nat

\* The fees that are charged stay as they are, or are amounts again.
SameFeeSettings == UNCHANGED <<fee_structure, fees_per_user>>
FeeSettingsTyped ==
    /\ fee_structure' \in Fees
    /\ \A a \in DOMAIN fees_per_user' : fees_per_user'[a] \in Fees

\* The withdrawals in flight are those before the step.
SameWithdrawals ==
    /\ \A r \in DOMAIN receipts : is_fee_receipt(receipts[r]) =>
          r \in DOMAIN receipts' /\ receipts'[r] = receipts[r]
    /\ \A r \in DOMAIN receipts' : is_fee_receipt(receipts'[r]) =>
          r \in DOMAIN receipts /\ receipts[r] = receipts'[r]

\* A step of any operation but withdraw_fees and its callback.
FeesOnlyCollected ==
    /\ fees_collected' \in Nat /\ fees_collected' >= fees_collected
    /\ FeeSettingsTyped
    /\ SameWithdrawals

-----------------------------------------------------------------------------
(* Receipts.                                                               *)

\* With no promise fired or resolved no withdrawal ends.
LEMMA SameReceipts == ASSUME UNCHANGED receipts PROVE SameWithdrawals
  BY DEF SameWithdrawals

\* A promise of another kind is fired into a free place.
LEMMA OtherFires ==
    ASSUME NEW receipt, ~is_fee_receipt(receipt), Fire(receipt)
    PROVE  SameWithdrawals
  <1>1. NewReceipt \notin DOMAIN receipts
    BY DEF Fire, FreeReceipts, NewReceipt
  <1> QED
    BY <1>1 DEF Fire, With, SameWithdrawals

\* A callback of another kind.
LEMMA OtherResolves ==
    ASSUME NEW r, r \in DOMAIN receipts, ~is_fee_receipt(receipts[r]), Resolve(r)
    PROVE  SameWithdrawals
  BY DEF Resolve, Without, Restrict, SameWithdrawals

\* The assets of a claim are handed out: the receipt goes or becomes another.
LEMMA HandedOut ==
    ASSUME NEW r, r \in DOMAIN receipts, ~is_fee_receipt(receipts[r]),
           NEW claimed, NEW lost, hand_out(r, claimed, lost)
    PROVE  SameWithdrawals
  <1> DEFINE next == ClaimReceipt(receipts[r].token_id, receipts[r].use, claimed)
  <1>1. ~is_fee_receipt(next)
    BY DEF ClaimReceipt, is_fee_receipt
  <1>2. \/ receipts' = [receipts EXCEPT ![r] = next]
        \/ receipts' = Without(receipts, {r})
    BY DEF hand_out
  <1> HIDE DEF next
  <1>3. CASE receipts' = [receipts EXCEPT ![r] = next]
    BY <1>1, <1>3 DEF SameWithdrawals
  <1>4. CASE receipts' = Without(receipts, {r})
    BY <1>4 DEF Without, Restrict, SameWithdrawals
  <1> QED
    BY <1>2, <1>3, <1>4

-----------------------------------------------------------------------------
(* Fees that are collected.                                                *)

\* The fees of a user are amounts.
LEMMA FeesOfUser == ASSUME FeeInv, NEW caller PROVE fees_for_user(caller) \in Fees
  BY DEF FeeInv, fees_for_user

\* Their components are numbers.
LEMMA FeesAreAmounts ==
    ASSUME FeeInv, NEW caller, NEW num_keys \in Nat, NEW num_drops \in Nat
    PROVE  total_fees(caller, num_keys, num_drops) \in Nat
  <1>1. fees_for_user(caller).per_key \in Nat /\ fees_for_user(caller).per_drop \in Nat
    BY FeesOfUser DEF Fees
  <1>2. ASSUME NEW a \in Nat, NEW b \in Nat PROVE a * b \in Nat
    OBVIOUS
  <1>3. /\ num_keys * fees_for_user(caller).per_key \in Nat
        /\ num_drops * fees_for_user(caller).per_drop \in Nat
    BY <1>1, <1>2
  <1> QED
    BY <1>3 DEF total_fees

\* What a step has to keep for the fees to be only collected.
LEMMA Collected ==
    ASSUME FeeInv, NEW fees \in Nat, fees_collected' = fees_collected + fees,
           SameFeeSettings, SameWithdrawals
    PROVE  FeesOnlyCollected
  <1>1. fees_collected' \in Nat /\ fees_collected' >= fees_collected
    BY DEF FeeInv
  <1>2. FeeSettingsTyped
    BY DEF SameFeeSettings, FeeInv, FeeSettingsTyped
  <1> QED
    BY <1>1, <1>2 DEF FeesOnlyCollected

\* A step that collects nothing and ends no withdrawal keeps the fees.
LEMMA NothingCollected ==
    ASSUME FeeInv, UNCHANGED fees_collected, SameFeeSettings, SameWithdrawals
    PROVE  FeesOnlyCollected
  <1>1. fees_collected' = fees_collected + 0
    BY DEF FeeInv
  <1> QED
    BY <1>1, Collected

\* The keys and drops that calls are made with are counted.
LEMMA LengthOfKeyData == ASSUME NEW key_data \in KeyData PROVE Len(key_data) \in Nat
  BY AccountsAssumption DEF KeyData

\* create_drop, create_drop_batch and add_keys collect fees.
LEMMA DropsCollect ==
    ASSUME FeeInv, SomeDropCreated \/ SomeKeysAdded \/ SomeBatchCreated
    PROVE  FeesOnlyCollected
  <1>1. CASE SomeDropCreated
    <2>1. PICK caller \in Accounts, d \in DropIds, shape \in Shapes, key_data \in KeyData :
              \E deposit, keep : CreateDrop(caller, d, shape, key_data, deposit, keep)
      BY <1>1 DEF SomeDropCreated
    <2>2. /\ fees_collected' = fees_collected + total_fees(caller, Len(key_data), 1)
          /\ UNCHANGED <<settings, receipts>>
      BY <2>1 DEF CreateDrop
    <2>3. total_fees(caller, Len(key_data), 1) \in Nat
      BY LengthOfKeyData, FeesAreAmounts
    <2> QED
      BY <2>2, <2>3, Collected, SameReceipts DEF settings, chosen_settings, SameFeeSettings
  <1>2. CASE SomeKeysAdded
    <2>1. PICK caller \in Accounts, key_data \in KeyData :
              \E d, deposit, keep : AddKeys(caller, d, key_data, deposit, keep)
      BY <1>2 DEF SomeKeysAdded
    <2>2. /\ fees_collected' = fees_collected + total_fees(caller, Len(key_data), 0)
          /\ UNCHANGED <<settings, receipts>>
      BY <2>1 DEF AddKeys
    <2>3. total_fees(caller, Len(key_data), 0) \in Nat
      BY LengthOfKeyData, FeesAreAmounts
    <2> QED
      BY <2>2, <2>3, Collected, SameReceipts DEF settings, chosen_settings, SameFeeSettings
  <1>3. CASE SomeBatchCreated
    <2>1. PICK caller \in Accounts, batch \in Batches :
              \E deposit, keep, metadata, on_success, call_fails :
                  CreateDropBatch(caller, batch, deposit, keep, metadata, on_success, call_fails)
      BY <1>3 DEF SomeBatchCreated
    <2>2. /\ fees_collected' = fees_collected + Len(batch) * total_fees(caller, 0, 1)
          /\ UNCHANGED <<chosen_settings, receipts>>
      BY <2>1 DEF CreateDropBatch
    <2>3. Len(batch) \in Nat
      BY BatchesAssumption
    <2>4. total_fees(caller, 0, 1) \in Nat
      BY FeesAreAmounts
    <2>5. Len(batch) * total_fees(caller, 0, 1) \in Nat
      BY <2>3, <2>4
    <2> QED
      BY <2>2, <2>5, Collected, SameReceipts DEF chosen_settings, SameFeeSettings
  <1> QED
    BY <1>1, <1>2, <1>3

-----------------------------------------------------------------------------
(* The other operations.                                                   *)

\* Claims, deletions, transfers and approvals collect no fee.
LEMMA KeysCollectNothing ==
    ASSUME FeeInv,
           SomeKeysDeleted \/ SomeClaim \/ SomeAccountClaim \/ SomeTransfer \/ SomeApproval
    PROVE  FeesOnlyCollected
  <1>1. CASE SomeKeysDeleted \/ SomeTransfer \/ SomeApproval
    <2>1. UNCHANGED <<fees_collected, settings, receipts>>
      BY <1>1 DEF SomeKeysDeleted, SomeTransfer, SomeApproval, DeleteKeys, internal_transfer,
                  NftApprove
    <2> QED
      BY <2>1, NothingCollected, SameReceipts DEF settings, chosen_settings, SameFeeSettings
  <1>2. ASSUME NEW pk, NEW fc_args, NEW lost, Claim(pk, fc_args, lost)
        PROVE  FeesOnlyCollected
    <2>1. UNCHANGED <<fees_collected, settings>>
      BY <1>2 DEF Claim
    <2>2. UNCHANGED receipts \/ \E t, use, claimed : Fire(ClaimReceipt(t, use, claimed))
      BY <1>2, Zenon DEF Claim, claim_of
    <2>3. \A t, use, claimed : ~is_fee_receipt(ClaimReceipt(t, use, claimed))
      BY DEF ClaimReceipt, is_fee_receipt
    <2>4. SameWithdrawals
      BY <2>2, <2>3, SameReceipts, OtherFires
    <2> QED
      BY <2>1, <2>4, NothingCollected DEF settings, chosen_settings, SameFeeSettings
  <1>3. ASSUME NEW pk, NEW fc_args, CreateAccountAndClaim(pk, fc_args)
        PROVE  FeesOnlyCollected
    <2>1. UNCHANGED <<fees_collected, settings>>
      BY <1>3 DEF CreateAccountAndClaim
    <2>2. \E t, use, root :
              Fire([kind |-> "create_account", token_id |-> t, use |-> use, fc_args |-> fc_args,
                    root |-> root])
      BY <1>3, Zenon DEF CreateAccountAndClaim
    <2>3. SameWithdrawals
      BY <2>2, OtherFires DEF is_fee_receipt
    <2> QED
      BY <2>1, <2>3, NothingCollected DEF settings, chosen_settings, SameFeeSettings
  <1> QED
    BY <1>1, <1>2, <1>3 DEF SomeClaim, SomeAccountClaim

\* Nor do the callbacks of claims.
LEMMA CallbacksCollectNothing ==
    ASSUME FeeInv, SomeClaimCallback \/ \E r : OnNewAccountCreatedPanics(r)
    PROVE  FeesOnlyCollected
  <1>1. ASSUME NEW r, NEW lost, OnNewAccountCreated(r, lost)
        PROVE  FeesOnlyCollected
    <2>1. /\ r \in DOMAIN receipts /\ ~is_fee_receipt(receipts[r])
          /\ hand_out(r, assets_for(receipts[r]), lost)
          /\ UNCHANGED <<fees_collected, settings>>
      BY <1>1 DEF OnNewAccountCreated, claim_in_flight, is_fee_receipt
    <2>2. SameWithdrawals
      BY <2>1, HandedOut
    <2> QED
      BY <2>1, <2>2, NothingCollected DEF settings, chosen_settings, SameFeeSettings
  <1>2. ASSUME NEW r, \/ OnAccountCreationFailed(r) \/ OnNewAccountCreatedPanics(r)
                      \/ \E lost : OnAssetsClaimed(r, lost)
        PROVE  FeesOnlyCollected
    <2>1. /\ r \in DOMAIN receipts /\ ~is_fee_receipt(receipts[r])
          /\ Resolve(r) /\ UNCHANGED <<fees_collected, settings>>
      BY <1>2 DEF OnAccountCreationFailed, OnNewAccountCreatedPanics, OnAssetsClaimed,
                  CallbackPanics, claim_in_flight, is_fee_receipt
    <2>2. SameWithdrawals
      BY <2>1, OtherResolves
    <2> QED
      BY <2>1, <2>2, NothingCollected DEF settings, chosen_settings, SameFeeSettings
  <1> QED
    BY <1>1, <1>2 DEF SomeClaimCallback

\* Tokens that come and go pay no fee.
LEMMA TokensCollectNothing == ASSUME FeeInv, TokensMoved PROVE FeesOnlyCollected
  <1>1. UNCHANGED <<fees_collected, settings>>
    BY DEF TokensMoved, FtOnTransfer, WithdrawFtBalance, NftOnTransfer, WithdrawNftTokens,
           FtResolveRefund, ResolveNftRefund
  <1>2. \/ UNCHANGED receipts
        \/ \E receipt : ~is_fee_receipt(receipt) /\ Fire(receipt)
        \/ \E r : r \in DOMAIN receipts /\ ~is_fee_receipt(receipts[r]) /\ Resolve(r)
    <2>1. ASSUME \/ \E c, amount, d : FtOnTransfer(c, amount, d)
                 \/ \E c, token, sender, d : NftOnTransfer(c, token, sender, d)
          PROVE  UNCHANGED receipts
      BY <2>1 DEF FtOnTransfer, NftOnTransfer
    <2>2. ASSUME NEW caller, NEW d, NEW c, NEW amount, WithdrawFtBalance(caller, d, c, amount)
          PROVE  \E receipt : ~is_fee_receipt(receipt) /\ Fire(receipt)
      <3>1. \E promise : Fire([kind |-> "ft_refund", drop_id |-> d, promise |-> promise])
        BY <2>2, Zenon DEF WithdrawFtBalance
      <3> QED
        BY <3>1 DEF is_fee_receipt
    <2>3. ASSUME NEW caller, NEW d, NEW c, NEW tokens, WithdrawNftTokens(caller, d, c, tokens)
          PROVE  \E receipt : ~is_fee_receipt(receipt) /\ Fire(receipt)
      <3>1. \E token_ids, storage :
                Fire([kind |-> "nft_refund", drop_id |-> d, contract |-> c,
                      token_ids |-> token_ids, storage_released |-> storage])
        BY <2>3, Zenon DEF WithdrawNftTokens
      <3> QED
        BY <3>1 DEF is_fee_receipt
    <2>4. ASSUME NEW r, NEW succeeded,
                 FtResolveRefund(r, succeeded) \/ ResolveNftRefund(r, succeeded)
          PROVE  r \in DOMAIN receipts /\ ~is_fee_receipt(receipts[r]) /\ Resolve(r)
      BY <2>4 DEF FtResolveRefund, ResolveNftRefund, is_fee_receipt
    <2> QED
      BY <2>1, <2>2, <2>3, <2>4 DEF TokensMoved
  <1>3. SameWithdrawals
    BY <1>2, SameReceipts, OtherFires, OtherResolves
  <1> QED
    BY <1>1, <1>3, NothingCollected DEF settings, chosen_settings, SameFeeSettings

\* The owner sets fees to amounts, and the other settings are none of fees.
LEMMA SettingsCollectNothing ==
    ASSUME FeeInv, SettingsStep
    PROVE  FeesOnlyCollected
  <1>1. \A fee \in FeeChoices, default \in Nat : unwrap_or(fee, default) \in Nat
    BY FeesAssumption DEF unwrap_or
  <1>2. ASSUME NEW drop_fee \in FeeChoices, NEW key_fee \in FeeChoices, SetFees(drop_fee, key_fee)
        PROVE  FeesOnlyCollected
    <2>1. fee_structure.per_drop \in Nat /\ fee_structure.per_key \in Nat
      BY DEF FeeInv, Fees
    <2>2. fee_structure' \in Fees
      BY <1>1, <1>2, <2>1 DEF SetFees, Fees
    <2>3. UNCHANGED <<fees_collected, fees_per_user, receipts>>
      BY <1>2 DEF SetFees, besides_settings
    <2> QED
      BY <2>2, <2>3, SameReceipts DEF FeeInv, FeeSettingsTyped, FeesOnlyCollected
  <1>3. ASSUME NEW account, NEW drop_fee \in UserFees, NEW key_fee \in UserFees,
               SetFeesPerUser(account, drop_fee, key_fee)
        PROVE  FeesOnlyCollected
    <2>1. [per_drop |-> drop_fee, per_key |-> key_fee] \in Fees
      BY FeesAssumption DEF Fees
    <2>2. \A a \in DOMAIN fees_per_user' : fees_per_user'[a] \in Fees
      BY <1>3, <2>1 DEF SetFeesPerUser, With, FeeInv
    <2>3. UNCHANGED <<fees_collected, fee_structure, receipts>>
      BY <1>3 DEF SetFeesPerUser, besides_settings
    <2> QED
      BY <2>2, <2>3, SameReceipts DEF FeeInv, FeeSettingsTyped, FeesOnlyCollected
  <1>4. ASSUME \/ FreezeContract \/ UnfreezeContract
               \/ \E account : SetRootAccount(account)
               \/ \E account : AddSigningAdmin(account)
               \/ \E caller, public_keys : AddSigningPks(caller, public_keys)
               \/ \E caller, public_keys : RemoveSigningPks(caller, public_keys)
        PROVE  FeesOnlyCollected
    <2>1. UNCHANGED <<fees_collected, fee_structure, fees_per_user, receipts>>
      BY <1>4 DEF FreezeContract, UnfreezeContract, SetRootAccount, AddSigningAdmin,
                  AddSigningPks, RemoveSigningPks, besides_signing, besides_settings
    <2> QED
      BY <2>1, NothingCollected, SameReceipts DEF SameFeeSettings
  <1> QED
    BY <1>2, <1>3, <1>4 DEF SettingsStep

\* The funders' balances are none of fees, and nor is time.
LEMMA BalancesCollectNothing ==
    ASSUME FeeInv, \/ \E caller, deposit : AddToBalance(caller, deposit)
                   \/ \E caller, amount : WithdrawFromBalance(caller, amount)
                   \/ \E caller, metadata, deposit : SetFunderMetadata(caller, metadata, deposit)
                   \/ Tick \/ UNCHANGED vars
    PROVE  FeesOnlyCollected
  <1>1. UNCHANGED <<fees_collected, fee_structure, fees_per_user, receipts>>
    BY DEF AddToBalance, WithdrawFromBalance, SetFunderMetadata, Tick, vars, settings,
           chosen_settings
  <1> QED
    BY <1>1, NothingCollected, SameReceipts DEF SameFeeSettings

-----------------------------------------------------------------------------
(* Withdrawals.                                                            *)

\* Every step but a withdrawal and its callback only collects.
LEMMA CollectingSteps ==
    ASSUME FeeInv, [Next]_vars
    PROVE  \/ FeesOnlyCollected
           \/ WithdrawFees
           \/ \E r, succeeded : OnWithdrawFees(r, succeeded)
  <1>1. CASE RegistryStep
    BY <1>1, DropsCollect, KeysCollectNothing, CallbacksCollectNothing DEF RegistryStep
  <1>2. CASE BalanceStep \/ Tick \/ UNCHANGED vars
    BY <1>2, BalancesCollectNothing DEF BalanceStep
  <1> QED
    BY <1>1, <1>2, StepsByKind, SettingsCollectNothing, TokensCollectNothing,
       CallbacksCollectNothing

\* A step that collects fees keeps the rule.
LEMMA CollectedAreKept == ASSUME FeeInv, FeesOnlyCollected PROVE FeeInv' /\ FeesKeptStep
  <1>1. FeeInv'
    BY DEF FeeInv, FeesOnlyCollected, FeeSettingsTyped, SameWithdrawals
  <1>2. ~(fees_collected' < fees_collected)
    BY DEF FeeInv, FeesOnlyCollected
  <1>3. \A r \in DOMAIN receipts : receipts[r].kind = "withdraw_fees" =>
            r \in DOMAIN receipts' /\ receipts'[r] = receipts[r]
    BY DEF FeesOnlyCollected, SameWithdrawals, is_fee_receipt
  <1> QED
    BY <1>1, <1>2, <1>3 DEF FeesKeptStep

\* withdraw_fees takes all that was collected into a receipt of its own.
LEMMA WithdrawnAreKept == ASSUME FeeInv, WithdrawFees PROVE FeeInv' /\ FeesKeptStep
  <1> DEFINE receipt == FeeReceipt(fees_collected)
  <1>1. /\ fees_collected' = 0
        /\ UNCHANGED <<fee_structure, fees_per_user>>
        /\ Fire(receipt)
    BY DEF WithdrawFees, settings, chosen_settings
  <1>2. receipt.amount \in Nat
    BY DEF FeeReceipt, FeeInv
  <1> HIDE DEF receipt
  <1>3. NewReceipt \notin DOMAIN receipts
    BY <1>1 DEF Fire, FreeReceipts, NewReceipt
  <1>4. /\ DOMAIN receipts' = DOMAIN receipts \cup {NewReceipt}
        /\ receipts'[NewReceipt] = receipt
        /\ \A r \in DOMAIN receipts : receipts'[r] = receipts[r]
    BY <1>1, <1>3 DEF Fire, With
  <1>5. FeeInv'
    BY <1>1, <1>2, <1>4 DEF FeeInv
  <1>6. \E r \in DOMAIN receipts' \ DOMAIN receipts : receipts'[r] = FeeReceipt(fees_collected)
    BY <1>3, <1>4 DEF receipt
  <1> QED
    BY <1>1, <1>4, <1>5, <1>6 DEF FeesKeptStep

\* The callback closes one withdrawal, and puts back the amount of a failed one.
LEMMA PutBackAreKept ==
    ASSUME FeeInv, NEW r, NEW succeeded, OnWithdrawFees(r, succeeded)
    PROVE  FeeInv' /\ FeesKeptStep
  <1>1. /\ r \in DOMAIN receipts
        /\ receipts[r].kind = "withdraw_fees"
        /\ Resolve(r)
        /\ UNCHANGED <<fee_structure, fees_per_user>>
        /\ \/ UNCHANGED <<vault, fees_collected>>
           \/ /\ vault' = vault + receipts[r].amount
              /\ fees_collected' = fees_collected + receipts[r].amount
    BY DEF OnWithdrawFees, fees_put_back, settings, chosen_settings
  <1>2. receipts[r].amount \in Nat /\ fees_collected \in Nat
    BY <1>1 DEF FeeInv, is_fee_receipt
  <1>3. fees_collected' \in Nat /\ ~(fees_collected' < fees_collected)
    BY <1>1, <1>2
  <1>4. /\ DOMAIN receipts' = DOMAIN receipts \ {r}
        /\ \A s \in DOMAIN receipts' : receipts'[s] = receipts[s]
    BY <1>1 DEF Resolve, Without, Restrict
  <1>5. FeeInv'
    BY <1>1, <1>3, <1>4 DEF FeeInv
  <1> QED
    BY <1>1, <1>3, <1>4, <1>5 DEF FeesKeptStep

\* Every step keeps the fees and the invariant.
LEMMA FeesStep == FeeInv /\ [Next]_vars => FeeInv' /\ FeesKeptStep
  BY CollectingSteps, CollectedAreKept, WithdrawnAreKept, PutBackAreKept

\* The invariant holds at first.
LEMMA InitFees == Init => FeeInv
  BY DEF Init, FeeInv, Fees, EmptyMap

\* However withdrawals overlap with each other and with new fees, no fee is
\* paid twice and none is forgotten (withdraw_fees and on_withdraw_fees).
THEOREM FeesKeptHolds == Spec => FeesKept
  <1>1. FeeInv /\ [Next]_vars => [FeesKeptStep]_vars
    BY FeesStep
  <1>2. FeeInv /\ [Next]_vars => FeeInv'
    BY FeesStep
  <1> QED
    BY InitFees, <1>1, <1>2, PTL DEF Spec, FeesKept

-----------------------------------------------------------------------------
(* What drops are made of.                                                 *)

\* The methods of an asset are those of an asset the funder described.
FromShapes(methods) ==
    \E shape \in Shapes : \E group \in ToSet(shape.asset_data) : \E ext \in ToSet(group.assets) :
        methods = ext.methods

AssetTyped(asset) ==
    /\ asset = [type |-> asset.type, contract |-> asset.contract, cost |-> asset.cost,
                methods |-> asset.methods, balance_avail |-> asset.balance_avail,
                token_ids |-> asset.token_ids]
    /\ AssetTypeOK(asset)
    /\ FromShapes(asset.methods)

\* The assets of every use are on record.
UseEquipped(use, assets) ==
    /\ use.uses \in Nat
    /\ use.assets_metadata \in Seq(ToSet(use.assets_metadata))
    /\ \A m \in ToSet(use.assets_metadata) :
          m.asset_id \in DOMAIN assets /\ m.tokens_per_use \in Nat

\* The records of a drop's assets.
RecordsTyped(assets) ==
    /\ assets = [a \in DOMAIN assets |-> assets[a]] /\ IsFiniteSet(DOMAIN assets)
    /\ \A a \in DOMAIN assets : AssetTyped(assets[a])

EquippedWith(data, assets) ==
    /\ data \in Seq(ToSet(data))
    /\ \A use \in ToSet(data) : UseEquipped(use, assets)
    /\ RecordsTyped(assets)

Equipped ==
    \A d \in DOMAIN drop_by_id : EquippedWith(drop_by_id[d].asset_data_for_uses, asset_by_id[d])

\* A group of uses is a vector of assets, and the groups are one.
LEMMA DataOfShape ==
    ASSUME NEW shape \in Shapes
    PROVE  LET data == asset_data_for_uses(shape)
           IN  /\ data \in Seq(ToSet(data)) /\ DOMAIN data = DOMAIN shape.asset_data
               /\ \A use \in ToSet(data) : use.assets_metadata \in Seq(ToSet(use.assets_metadata))
               /\ \A g \in DOMAIN data : data[g] = InternalAssetDataForUses(shape.asset_data[g])
  <1> DEFINE data == asset_data_for_uses(shape)
  <1>1. shape.asset_data \in Seq(ToSet(shape.asset_data))
    BY AssetsAssumption
  <1>2. data = [g \in 1 .. Len(shape.asset_data) |-> InternalAssetDataForUses(shape.asset_data[g])]
        /\ DOMAIN shape.asset_data = 1 .. Len(shape.asset_data) /\ Len(shape.asset_data) \in Nat
    BY <1>1 DEF asset_data_for_uses
  <1> HIDE DEF data
  <1>3. data \in Seq(ToSet(data))
    BY <1>2 DEF ToSet
  <1>4. ASSUME NEW use \in ToSet(data)
        PROVE  use.assets_metadata \in Seq(ToSet(use.assets_metadata))
    <2>1. PICK g \in DOMAIN shape.asset_data : use = InternalAssetDataForUses(shape.asset_data[g])
      BY <1>2 DEF ToSet
    <2> DEFINE exts == shape.asset_data[g].assets
               m == use.assets_metadata
    <2>2. exts \in Seq(ToSet(exts))
      BY AssetsAssumption DEF ToSet
    <2>3. m = [i \in 1 .. Len(exts) |-> [asset_id |-> get_asset_id(exts, i),
                                          tokens_per_use |-> exts[i].amount]]
          /\ Len(exts) \in Nat
      BY <2>1, <2>2 DEF InternalAssetDataForUses
    <2> HIDE DEF m, exts
    <2>4. m \in Seq(ToSet(m))
      BY <2>3 DEF ToSet
    <2> QED
      BY <2>4 DEF m
  <1> QED
    BY <1>2, <1>3, <1>4 DEF data

\* The group a use is in, if there is one.
LEMMA GroupOfUse ==
    ASSUME NEW data, data \in Seq(ToSet(data)), NEW n
    PROVE  \/ get_asset_data_for_specific_use(data, n) = EmptyAssetData
           \/ get_asset_data_for_specific_use(data, n) \in ToSet(data)
  <1> DEFINE reached == {g \in DOMAIN data : uses_through(data, g) >= n}
  <1>1. reached \in SUBSET Nat
    OBVIOUS
  <1>2. CASE reached # {}
    <2>1. PICK g \in reached : \A k \in 0 .. g - 1 : k \notin reached
      <3> HIDE DEF reached
      <3> QED
        BY <1>1, <1>2, LeastNumber
    <2>2. \A k \in reached : g <= k
      <3>1. \A k \in reached : k \in Nat /\ g \in Nat
        BY <1>1
      <3> HIDE DEF reached
      <3> QED
        BY <2>1, <3>1
    <2>3. Min(reached) \in reached
      <3> HIDE DEF reached
      <3> QED
        BY <2>2 DEF Min
    <2> QED
      BY <1>2, <2>3 DEF get_asset_data_for_specific_use, ToSet
  <1> QED
    BY <1>2 DEF get_asset_data_for_specific_use

\* A new drop has a record of each of its assets.
LEMMA NewDropEquipped ==
    ASSUME NEW shape \in Shapes
    PROVE  EquippedWith(asset_data_for_uses(shape), store_assets_by_id(shape.asset_data))
  <1> DEFINE data == shape.asset_data
             occurrences == UNION {{g} \X DOMAIN data[g].assets : g \in DOMAIN data}
             id(o) == get_asset_id(data[o[1]].assets, o[2])
             earlier(o, p) == o[1] < p[1] \/ (o[1] = p[1] /\ o[2] <= p[2])
             first(a) == CHOOSE o \in {p \in occurrences : id(p) = a} :
                            \A p \in occurrences : id(p) = a => earlier(o, p)
             assets == store_assets_by_id(data)
  <1>1. assets = [a \in {id(o) : o \in occurrences} |->
                     to_internal_asset(data[first(a)[1]].assets[first(a)[2]])]
    BY DEF store_assets_by_id
  <1>2. ASSUME NEW use \in ToSet(asset_data_for_uses(shape)), NEW m \in ToSet(use.assets_metadata)
        PROVE  m.asset_id \in DOMAIN assets /\ m.tokens_per_use \in Nat
    <2>1. PICK g \in DOMAIN data : use = InternalAssetDataForUses(data[g])
      BY <1>2, DataOfShape DEF ToSet
    <2>2. PICK i \in DOMAIN data[g].assets :
             m = [asset_id |-> get_asset_id(data[g].assets, i),
                  tokens_per_use |-> data[g].assets[i].amount]
      BY <1>2, <2>1 DEF InternalAssetDataForUses, ToSet
    <2>3. <<g, i>> \in occurrences /\ m.asset_id = id(<<g, i>>)
      BY <2>2
    <2>4. data[g].assets[i].amount \in Nat
      BY AssetsAssumption DEF ToSet
    <2> HIDE DEF occurrences, id, first, assets
    <2> QED
      BY <1>1, <2>2, <2>3, <2>4
  <1>3. ASSUME NEW a \in DOMAIN assets
        PROVE  AssetTyped(assets[a])
    <2> DEFINE o == first(a)
               ext == data[o[1]].assets[o[2]]
    <2>1. o \in occurrences
      <3>1. a \in {id(p) : p \in occurrences}
        BY <1>1, <1>3
      <3>2. \E p \in {q \in occurrences : id(q) = a} :
               \A q \in occurrences : id(q) = a => earlier(p, q)
        <4>1. PICK p \in occurrences : id(p) = a
          BY <3>1
        <4> DEFINE G == {q[1] : q \in {r \in occurrences : id(r) = a}}
        <4>2. \A q \in occurrences : q[1] \in Nat /\ q[2] \in Nat /\ q = <<q[1], q[2]>>
          <5> SUFFICES ASSUME NEW g \in DOMAIN data, NEW i \in DOMAIN data[g].assets
                       PROVE  g \in Nat /\ i \in Nat
            OBVIOUS
          <5>1. data \in Seq(ToSet(data)) /\ data[g].assets \in Seq(ToSet(data[g].assets))
            BY AssetsAssumption DEF ToSet
          <5> QED
            BY <5>1
        <4>3. G \in SUBSET Nat /\ G # {}
          BY <4>1, <4>2
        <4> HIDE DEF occurrences, id
        <4>4. PICK g \in G : \A k \in 0 .. g - 1 : k \notin G
          <5> HIDE DEF G
          <5> QED
            BY <4>3, LeastNumber
        <4> DEFINE I == {q[2] : q \in {r \in occurrences : id(r) = a /\ r[1] = g}}
        <4>5. I \in SUBSET Nat /\ I # {}
          BY <4>2
        <4>6. PICK i \in I : \A k \in 0 .. i - 1 : k \notin I
          <5> HIDE DEF I
          <5> QED
            BY <4>5, LeastNumber
        <4>7. PICK q \in occurrences : id(q) = a /\ q[1] = g /\ q[2] = i
          OBVIOUS
        <4>8. ASSUME NEW r \in occurrences, id(r) = a
              PROVE  earlier(q, r)
          <5>1. r[1] \in Nat /\ g \in Nat /\ r[1] \in G /\ r[2] \in Nat /\ i \in Nat
            BY <4>2, <4>3, <4>5, <4>8
          <5>2. ~(r[1] < g)
            <6> HIDE DEF G
            <6> QED
              BY <4>4, <5>1
          <5>3. r[1] = g => ~(r[2] < i)
            <6>1. r[1] = g => r[2] \in I
              BY <4>8
            <6> HIDE DEF I
            <6> QED
              BY <4>6, <5>1, <6>1
          <5> QED
            BY <4>7, <5>1, <5>2, <5>3
        <4> QED
          BY <4>7, <4>8
      <3> HIDE DEF occurrences, id, earlier
      <3> QED
        BY <3>2
    <2>2. ext \in ToSet(data[o[1]].assets) /\ data[o[1]] \in ToSet(data)
      <3> HIDE DEF first
      <3> QED
        BY <2>1 DEF ToSet
    <2> HIDE DEF occurrences, id, first, ext
    <2>3. assets[a] = to_internal_asset(ext)
      BY <1>1, <1>3 DEF ext
    <2>4. /\ ext.type \in AssetTypes /\ ext.cost \in Nat
          /\ FromShapes(ext.methods)
      BY <2>2, AssetsAssumption DEF FromShapes
    <2> QED
      BY <2>3, <2>4 DEF AssetTyped, AssetTypeOK, to_internal_asset
  <1>5. assets = [a \in DOMAIN assets |-> assets[a]]
    BY <1>1
  <1>6. IsFiniteSet(DOMAIN assets)
    <2> DEFINE ids == [g \in DOMAIN data |->
                          {get_asset_id(data[g].assets, i) : i \in DOMAIN data[g].assets}]
               all == {ids[g] : g \in DOMAIN ids}
    <2>1. data \in Seq(ToSet(data))
      BY AssetsAssumption
    <2>2. ASSUME NEW g \in DOMAIN data
          PROVE  IsFiniteSet(ids[g])
      <3> DEFINE exts == data[g].assets
                 id_of == [i \in DOMAIN exts |-> get_asset_id(exts, i)]
      <3>1. exts \in Seq(ToSet(exts))
        BY AssetsAssumption DEF ToSet
      <3>2. ids[g] = {id_of[i] : i \in DOMAIN id_of}
        OBVIOUS
      <3>3. IsFiniteSet(DOMAIN exts)
        <4> HIDE DEF exts
        <4> QED
          BY <3>1, FS_Interval, LenProperties
      <3>4. DOMAIN id_of = DOMAIN exts
        OBVIOUS
      <3> HIDE DEF id_of, exts, ids
      <3> QED
        BY <3>2, <3>3, <3>4, FiniteValues
    <2>3. IsFiniteSet(all) /\ \A s \in all : IsFiniteSet(s)
      <3>1. IsFiniteSet(DOMAIN data)
        <4> HIDE DEF data
        <4> QED
          BY <2>1, FS_Interval, LenProperties
      <3>2. DOMAIN ids = DOMAIN data
        OBVIOUS
      <3> HIDE DEF ids, data
      <3> QED
        BY <2>2, <3>1, <3>2, FiniteValues
    <2>4. DOMAIN assets = UNION all
      <3>1. DOMAIN assets = {id(o) : o \in occurrences}
        BY <1>1
      <3>2. \A o : o \in occurrences <=>
                \E g \in DOMAIN data : \E i \in DOMAIN data[g].assets : o = <<g, i>>
        OBVIOUS
      <3>3. \A g, i : id(<<g, i>>) = get_asset_id(data[g].assets, i)
        OBVIOUS
      <3>4. \A a : a \in UNION all <=> \E g \in DOMAIN data : a \in ids[g]
        <4>1. DOMAIN ids = DOMAIN data
          OBVIOUS
        <4> HIDE DEF ids
        <4> QED
          BY <4>1
      <3>5. \A g \in DOMAIN data : \A a : a \in ids[g] <=>
                \E i \in DOMAIN data[g].assets : a = get_asset_id(data[g].assets, i)
        OBVIOUS
      <3> HIDE DEF occurrences, id, all, assets, ids
      <3>6. ASSUME NEW a
            PROVE  a \in DOMAIN assets <=> a \in UNION all
        <4>1. ASSUME NEW o \in occurrences, a = id(o)
              PROVE  a \in UNION all
          <5>1. PICK g \in DOMAIN data : \E i \in DOMAIN data[g].assets : o = <<g, i>>
            BY <3>2, <4>1
          <5> QED
            BY <3>3, <3>4, <3>5, <4>1, <5>1
        <4>2. ASSUME NEW g \in DOMAIN data, NEW i \in DOMAIN data[g].assets,
                     a = get_asset_id(data[g].assets, i)
              PROVE  a \in DOMAIN assets
          <5>1. <<g, i>> \in occurrences /\ a = id(<<g, i>>)
            BY <3>2, <3>3, <4>2
          <5> QED
            BY <3>1, <5>1
        <4> QED
          BY <3>1, <3>4, <3>5, <4>1, <4>2
      <3> QED
        BY <3>6, Zenon
    <2> HIDE DEF all
    <2> QED
      BY <2>3, <2>4, FS_UNION
  <1> HIDE DEF assets
  <1>7. \A use \in ToSet(asset_data_for_uses(shape)) : use.uses \in Nat
    <2>1. \A g \in DOMAIN data : data[g].uses \in Nat
      BY AssetsAssumption DEF ToSet
    <2>2. \A g \in DOMAIN data : InternalAssetDataForUses(data[g]).uses = data[g].uses
      BY DEF InternalAssetDataForUses
    <2>3. ASSUME NEW use \in ToSet(asset_data_for_uses(shape))
          PROVE  \E g \in DOMAIN data : use = InternalAssetDataForUses(data[g])
      BY DataOfShape DEF ToSet
    <2> QED
      BY <2>1, <2>2, <2>3
  <1>4. \A use \in ToSet(asset_data_for_uses(shape)) : UseEquipped(use, assets)
    BY <1>2, <1>7, DataOfShape DEF UseEquipped
  <1> QED
    BY <1>3, <1>4, <1>5, <1>6, DataOfShape DEF EquippedWith, RecordsTyped, assets

-----------------------------------------------------------------------------
(* The calls of a function-call asset.                                     *)

\* A call of a method, with the arguments the claimer gave for it.
CallOf(method, i, given) ==
    [method |-> i, attached_deposit |-> method.attached_deposit,
     args |-> add_keypom_args(handle_user_args(method, given), method.keypom_args)]

CallMade(call, methods) ==
    /\ call.method \in DOMAIN methods
    /\ \E given : /\ is_called(methods[call.method], given)
                  /\ call = CallOf(methods[call.method], call.method, given)

\* The calls of a claim are made of the methods, in their order.
CallsMade(calls, methods) ==
    /\ calls \in Seq(ToSet(calls))
    /\ \A call \in ToSet(calls) : CallMade(call, methods)
    /\ \A i, j \in DOMAIN calls : i < j => calls[i].method < calls[j].method

\* claim_fc_asset makes such calls.
LEMMA ClaimMakesCalls ==
    ASSUME NEW methods, methods \in Seq(ToSet(methods)), NEW fc_args
    PROVE  CallsMade(claim_fc_asset(methods, fc_args), methods)
  <1> DEFINE ignored == fc_args = None \/ Len(unwrap(fc_args)) # Len(methods)
             given(i) == IF ignored THEN None ELSE unwrap(fc_args)[i]
             called(i) == is_called(methods[i], given(i))
             call(i) == CallOf(methods[i], i, given(i))
             n == Len(methods)
             s == [i \in DOMAIN methods |-> i]
             S == 1 .. n
             A == Seq({call(i) : i \in S})
             op(calls, i) == IF called(i) THEN Append(calls, call(i)) ELSE calls
             step == [a \in A \X S |-> op(a[1], a[2])]
             folds(f) == f = [V \in SUBSET DOMAIN s |->
                                 IF V = {} THEN << >>
                                 ELSE LET i == Max(V) IN op(f[V \ {i}], s[i])]
             fold == CHOOSE f : folds(f)
  <1>1. claim_fc_asset(methods, fc_args) = fold[DOMAIN s]
    BY DEF claim_fc_asset, FoldLeft, MapThenFoldSet, CallOf
  <1>2. n \in Nat /\ DOMAIN methods = S /\ DOMAIN s = S /\ s \in Seq(S) /\ \A i \in S : s[i] = i
    OBVIOUS
  <1> HIDE DEF called, call, s
  <1>3. << >> \in A /\ step \in [A \X S -> A]
    <2>1. ASSUME NEW a \in A, NEW i \in S PROVE op(a, i) \in A
      OBVIOUS
    <2>2. step \in [A \X S -> A]
      <3> HIDE DEF op, A
      <3> QED
        BY <2>1
    <2>3. << >> \in A
      OBVIOUS
    <2> QED
      BY <2>2, <2>3
  <1> HIDE DEF op, n
  <1>4. \E f : folds(f)
    <2>1. PICK f \in [SUBSET DOMAIN s -> A] : Folds(f, step, << >>, s)
      <3> HIDE DEF step, A
      <3> QED
        BY <1>2, <1>3, FoldExists
    <2>2. ASSUME NEW V \in SUBSET S, V # {}
          PROVE  Max(V) \in S
      <3>1. PICK m \in V : \A k \in V : k <= m
        BY <1>2, <2>2, GreatestNumber
      <3> QED
        BY <3>1 DEF Max
    <2>3. ASSUME NEW V \in SUBSET S, V # {}
          PROVE  step[<<f[V \ {Max(V)}], s[Max(V)]>>] = op(f[V \ {Max(V)}], s[Max(V)])
      <3>1. f[V \ {Max(V)}] \in A /\ s[Max(V)] \in S
        BY <1>2, <2>1, <2>2, <2>3
      <3> HIDE DEF A
      <3> QED
        BY <3>1
    <2> HIDE DEF step
    <2>4. folds(f)
      BY <1>2, <2>1, <2>3 DEF Folds
    <2> QED
      BY <2>4
  <1>5. folds(fold)
    BY <1>4
  <1> HIDE DEF fold
  <1> DEFINE right(k) ==
                 LET calls == fold[1 .. k]
                 IN  /\ calls \in A
                     /\ \A j \in DOMAIN calls : \E i \in 1 .. k : called(i) /\ calls[j] = call(i)
                     /\ \A i, j \in DOMAIN calls : i < j => calls[i].method < calls[j].method
             Wrong == {k \in 0 .. n : ~right(k)}
  <1>6. fold[1 .. 0] = << >>
    BY <1>2, <1>5
  <1>7. ASSUME NEW k \in 1 .. n
        PROVE  fold[1 .. k] = op(fold[1 .. k - 1], k)
    <2>1. PICK l \in Nat : k = l + 1
      <3>1. k - 1 \in Nat /\ k = (k - 1) + 1
        BY <1>2
      <3> QED
        BY <3>1
    <2>2. Max(1 .. l + 1) = l + 1
      <3>1. 1 .. l + 1 \in SUBSET (1 .. l + 1) /\ l + 1 \in 1 .. l + 1
        OBVIOUS
      <3> QED
        BY <3>1, MaxOfPrefix
    <2>3. Max(1 .. k) = k /\ 1 .. k # {} /\ (1 .. k) \ {k} = 1 .. k - 1
      <3>3. k \in 1 .. k /\ k - 1 \in Nat
        BY <2>1
      <3>4. \A j : j \in (1 .. k) \ {k} <=> j \in 1 .. k - 1
        BY <2>1
      <3>1. 1 .. k # {} /\ (1 .. k) \ {k} = 1 .. k - 1
        BY <3>3, <3>4
      <3> QED
        BY <2>1, <2>2, <3>1
    <2>4. 1 .. k \in SUBSET S
      <3>1. n \in Nat
        BY <1>2
      <3>2. ASSUME NEW j \in 1 .. k PROVE j \in 1 .. n
        BY <3>1
      <3> QED
        BY <3>2
    <2>5. fold[1 .. k] = op(fold[(1 .. k) \ {Max(1 .. k)}], s[Max(1 .. k)])
      BY <1>2, <1>5, <2>3, <2>4
    <2> QED
      BY <1>2, <2>3, <2>5
  <1>8. right(0)
    BY <1>6
  <1>9. ASSUME NEW k \in 1 .. n, right(k - 1)
        PROVE  right(k)
    <2> DEFINE q == fold[1 .. k - 1]
    <2>1. /\ q \in A
          /\ \A j \in DOMAIN q : \E i \in 1 .. k - 1 : called(i) /\ q[j] = call(i)
          /\ \A i, j \in DOMAIN q : i < j => q[i].method < q[j].method
      BY <1>9
    <2>2. fold[1 .. k] = op(q, k)
      BY <1>7
    <2> HIDE DEF q
    <2>3. CASE called(k)
      <3>1. fold[1 .. k] = Append(q, call(k)) /\ call(k) \in {call(i) : i \in S}
        BY <1>2, <2>2, <2>3 DEF op
      <3>2. call(k).method = k /\ k \in Nat /\ \A i \in 1 .. k - 1 : call(i).method = i /\ i < k
        BY <1>2 DEF call, CallOf
      <3>3. /\ DOMAIN fold[1 .. k] = 1 .. Len(q) + 1 /\ DOMAIN q = 1 .. Len(q) /\ Len(q) \in Nat
            /\ \A j \in 1 .. Len(q) : fold[1 .. k][j] = q[j]
            /\ fold[1 .. k][Len(q) + 1] = call(k)
            /\ fold[1 .. k] \in A
        BY <2>1, <3>1
      <3>4. \A j \in 1 .. Len(q) : q[j].method < k
        BY <2>1, <3>2, <3>3
      <3> HIDE DEF A
      <3>5. ASSUME NEW j \in 1 .. Len(q) + 1
            PROVE  \E i \in 1 .. k : called(i) /\ fold[1 .. k][j] = call(i)
        <4>1. CASE j = Len(q) + 1
          BY <2>3, <3>2, <3>3, <4>1
        <4>2. CASE j \in 1 .. Len(q)
          <5>1. PICK i \in 1 .. k - 1 : called(i) /\ q[j] = call(i)
            BY <2>1, <3>3, <4>2
          <5> QED
            BY <3>2, <3>3, <4>2, <5>1
        <4> QED
          BY <3>3, <4>1, <4>2
      <3>6. ASSUME NEW i \in 1 .. Len(q) + 1, NEW j \in 1 .. Len(q) + 1, i < j
            PROVE  fold[1 .. k][i].method < fold[1 .. k][j].method
        <4>1. i \in 1 .. Len(q) /\ (j \in 1 .. Len(q) \/ j = Len(q) + 1)
          BY <3>3, <3>6
        <4> QED
          BY <2>1, <3>2, <3>3, <3>4, <3>6, <4>1
      <3> QED
        BY <3>3, <3>5, <3>6
    <2>4. CASE ~called(k)
      <3>1. fold[1 .. k] = q
        BY <2>2, <2>4 DEF op
      <3>2. 1 .. k - 1 \subseteq 1 .. k
        BY <1>2
      <3> QED
        BY <2>1, <3>1, <3>2
    <2> QED
      BY <2>3, <2>4
  <1>10. ASSUME Wrong # {} PROVE FALSE
    <2>1. PICK k \in Wrong : \A j \in 0 .. k - 1 : j \notin Wrong
      <3>1. Wrong \in SUBSET Nat
        BY <1>2
      <3> HIDE DEF Wrong
      <3> QED
        BY <1>10, <3>1, LeastNumber
    <2>2. k \in 0 .. n /\ ~right(k)
      OBVIOUS
    <2> HIDE DEF right
    <2>3. k \in 1 .. n /\ k - 1 \in 0 .. n /\ k - 1 \in 0 .. k - 1
      BY <1>2, <1>8, <2>2
    <2>4. right(k - 1)
      BY <2>1, <2>3
    <2> QED
      BY <1>9, <2>2, <2>3, <2>4
  <1>11. right(n)
    <2>1. n \in 0 .. n
      BY <1>2
    <2>2. Wrong = {}
      BY <1>10
    <2> HIDE DEF right
    <2> QED
      BY <2>1, <2>2
  <1> DEFINE calls == fold[1 .. n]
  <1>12. calls \in Seq(ToSet(calls))
    <2>1. calls \in A
      BY <1>11
    <2> HIDE DEF calls
    <2> QED
      BY <2>1 DEF ToSet
  <1>13. ASSUME NEW c \in ToSet(calls)
         PROVE  CallMade(c, methods)
    <2>1. PICK i \in 1 .. n : called(i) /\ c = call(i)
      BY <1>11, <1>13 DEF ToSet
    <2>2. c.method = i
      BY <2>1 DEF call, CallOf
    <2> QED
      BY <1>2, <2>1, <2>2 DEF CallMade, called, call
  <1>14. \A i, j \in DOMAIN calls : i < j => calls[i].method < calls[j].method
    BY <1>11
  <1> HIDE DEF calls
  <1>15. CallsMade(calls, methods)
    BY <1>12, <1>13, <1>14 DEF CallsMade
  <1> QED
    BY <1>1, <1>2, <1>15 DEF calls

-----------------------------------------------------------------------------
(* Their arguments.                                                        *)

ArgsOption(method) == method.args = None \/ method.args = Some(unwrap(method.args))

\* A merge has what the second value has, and makes an object of a funder's
\* object that is the second.
LEMMA MergeKeeps ==
    ASSUME NEW a, NEW b
    PROVE  /\ \A path \in DOMAIN b : path \in DOMAIN merge_json(a, b)
                                     /\ merge_json(a, b)[path] = b[path]
           /\ is_object(b) => is_object(merge_json(a, b))
  BY DEF merge_json, merged, is_object, meets

\* The text is a value the funder gave, or, if he lets the claimer add to it,
\* one that keeps what he gave.
LEMMA FundersText ==
    ASSUME NEW method, NEW given, ArgsOption(method), ~may_overwrite(method)
    PROVE  \/ handle_user_args(method, given) = method.args
           \/ /\ method.user_args_rule # None
              /\ \E a : handle_user_args(method, given) =
                            Some(merge_json(a, unwrap(method.args)))
  <1>1. CASE method.user_args_rule = None
    <2>1. ~is_consulted(method, given)
      BY <1>1 DEF is_consulted
    <2> QED
      BY <2>1 DEF handle_user_args, merged_args, sets_markers
  <1>2. CASE method.user_args_rule = Some("FunderPreferred")
    <2>1. method.user_args_rule # None /\ rule_of(method) = "FunderPreferred"
      BY <1>2 DEF rule_of, Some, None, unwrap
    <2>2. ~sets_markers(method, given)
      BY <2>1 DEF sets_markers
    <2>3. \/ merged_args(method, given) = method.args
          \/ merged_args(method, given) =
                Some(merge_json(unwrap(unwrap(given)), unwrap(method.args)))
      BY <2>1 DEF merged_args
    <2> QED
      BY <2>1, <2>2, <2>3 DEF handle_user_args
  <1> QED
    BY <1>1, <1>2 DEF may_overwrite

\* What the funder alone may set stays, and without a rule nothing comes.
LEMMA FundersArgsStay ==
    ASSUME NEW method, NEW given, ArgsOption(method), ~may_overwrite(method),
           NEW json \in handle_user_args(method, given)
    PROVE  LET funder_args == unwrap(method.args)
           IN  /\ \A path \in DOMAIN funder_args :
                     path \in DOMAIN json /\ json[path] = funder_args[path]
               /\ method.user_args_rule = None => json = funder_args
  <1> DEFINE funder_args == unwrap(method.args)
  <1>1. CASE handle_user_args(method, given) = method.args
    <2>1. json = funder_args
      BY <1>1 DEF ArgsOption, None, Some
    <2> QED
      BY <2>1
  <1>2. ASSUME method.user_args_rule # None,
               NEW a, handle_user_args(method, given) = Some(merge_json(a, funder_args))
        PROVE  /\ \A path \in DOMAIN funder_args :
                     path \in DOMAIN json /\ json[path] = funder_args[path]
               /\ method.user_args_rule = None => json = funder_args
    <2>1. json = merge_json(a, funder_args)
      BY <1>2 DEF Some
    <2> HIDE DEF funder_args
    <2> QED
      BY <1>2, <2>1, MergeKeeps
  <1> QED
    BY <1>1, <1>2, FundersText

\* A claimer who may not overwrite the funder's object leaves one that takes
\* the contract's fields.
LEMMA FundersObjectStays ==
    ASSUME NEW method, NEW given, ArgsOption(method), ~may_overwrite(method), makes_json(method)
    PROVE  add_keypom_args(handle_user_args(method, given), method.keypom_args) # None
  <1> DEFINE funder_args == unwrap(method.args)
             text == handle_user_args(method, given)
  <1>1. method.args = Some(funder_args) /\ takes_fields(funder_args, method.keypom_args)
    BY DEF makes_json, ArgsOption, None, Some
  <1>2. \E json \in text : takes_fields(json, method.keypom_args)
    <2>1. CASE text = method.args
      BY <1>1, <2>1 DEF Some
    <2>2. ASSUME NEW a, text = Some(merge_json(a, funder_args))
          PROVE  \E json \in text : takes_fields(json, method.keypom_args)
      <3> HIDE DEF funder_args
      <3>1. takes_fields(merge_json(a, funder_args), method.keypom_args)
        BY <1>1, MergeKeeps DEF takes_fields
      <3> QED
        BY <2>2, <3>1 DEF Some
    <2> QED
      BY <2>1, <2>2, FundersText
  <1>3. PICK json \in {j \in text : takes_fields(j, method.keypom_args)} : TRUE
    BY <1>2
  <1> DEFINE filled(j) ==
                 LET added(path) == {i \in DOMAIN method.keypom_args :
                                        <<method.keypom_args[i].field>> = path}
                     paths == {<<method.keypom_args[i].field>> : i \in DOMAIN method.keypom_args}
                 IN  [path \in DOMAIN j \cup paths |->
                         IF path \in paths
                         THEN Value(method.keypom_args[CHOOSE i \in added(path) : TRUE].value)
                         ELSE j[path]]
  <1>4. add_keypom_args(text, method.keypom_args) =
            {filled(j) : j \in {k \in text : takes_fields(k, method.keypom_args)}}
    BY DEF add_keypom_args
  <1> HIDE DEF text, filled
  <1> QED
    BY <1>3, <1>4 DEF None, text

\* args is json with the contract's fields.
Injects(args, json, keypom_args) ==
    /\ DOMAIN args = DOMAIN json \cup {<<keypom_args[i].field>> : i \in DOMAIN keypom_args}
    /\ \A path \in DOMAIN json : args[path] = json[path]
    /\ \A i \in DOMAIN keypom_args : \A path \in DOMAIN args :
          keypom_args[i].field \in ToSet(path) => args[path] = Value(keypom_args[i].value)

\* What the contract injects is injected, and is nowhere else.
LEMMA InjectedArgs ==
    ASSUME NEW text, NEW keypom_args, may_add_keypom_args(text, keypom_args),
           NEW args \in add_keypom_args(text, keypom_args)
    PROVE  \E json \in text : Injects(args, json, keypom_args)
  <1> DEFINE field(i) == keypom_args[i].field
             added(path) == {i \in DOMAIN keypom_args : <<field(i)>> = path}
             paths == {<<field(i)>> : i \in DOMAIN keypom_args}
             value(path) == keypom_args[CHOOSE i \in added(path) : TRUE].value
  <1>1. PICK json \in text :
            args = [path \in DOMAIN json \cup paths |->
                       IF path \in paths THEN Value(value(path)) ELSE json[path]]
    BY DEF add_keypom_args
  <1>2. \A i \in DOMAIN keypom_args : ToSet(<<field(i)>>) = {field(i)}
    BY DEF ToSet
  <1>3. \A path \in DOMAIN json, i \in DOMAIN keypom_args : field(i) \notin ToSet(path)
    BY DEF may_add_keypom_args, contains
  <1>4. \A path \in DOMAIN json : path \notin paths
    BY <1>2, <1>3
  <1>5. ASSUME NEW i \in DOMAIN keypom_args, NEW path \in DOMAIN args, field(i) \in ToSet(path)
        PROVE  args[path] = Value(keypom_args[i].value)
    <2>1. path \in paths
      BY <1>1, <1>3, <1>5
    <2>2. PICK j \in DOMAIN keypom_args : path = <<field(j)>>
      BY <2>1
    <2>3. field(i) = field(j)
      BY <1>2, <1>5, <2>2
    <2>4. \A k \in DOMAIN keypom_args : field(k) = field(i) => k = i
      BY DEF may_add_keypom_args
    <2>5. \A k \in added(path) : k = i
      BY <1>2, <2>2, <2>3, <2>4
    <2>6. i \in added(path)
      BY <2>2, <2>3
    <2>7. (CHOOSE k \in added(path) : TRUE) = i
      BY <2>5, <2>6
    <2> QED
      BY <1>1, <2>1, <2>7
  <1> QED
    BY <1>1, <1>4, <1>5 DEF Injects

\* A call that is made has the arguments its method asks for.
LEMMA CallAsConfigured ==
    ASSUME NEW methods, NEW call, CallMade(call, methods), ArgsOption(methods[call.method])
    PROVE  LET method == methods[call.method]
           IN  /\ (~may_overwrite(method) /\ makes_json(method)) => call.args # None
               /\ \A args \in call.args : KeepsFundersArgs(method, args)
  <1> DEFINE method == methods[call.method]
  <1>1. PICK given : is_called(method, given) /\ call = CallOf(method, call.method, given)
    BY DEF CallMade
  <1> DEFINE text == handle_user_args(method, given)
  <1>2. /\ call.args = add_keypom_args(text, method.keypom_args)
        /\ may_add_keypom_args(text, method.keypom_args)
    BY <1>1 DEF CallOf, is_called
  <1> HIDE DEF method
  <1>3. (~may_overwrite(method) /\ makes_json(method)) => call.args # None
    BY <1>2, FundersObjectStays DEF method
  <1>4. ASSUME NEW args \in call.args
        PROVE  KeepsFundersArgs(method, args)
    <2>1. PICK json \in text : Injects(args, json, method.keypom_args)
      <3> HIDE DEF text
      <3> QED
        BY <1>2, <1>4, InjectedArgs
    <2>2. ~may_overwrite(method) =>
              /\ \A path \in DOMAIN unwrap(method.args) :
                    path \in DOMAIN json /\ json[path] = unwrap(method.args)[path]
              /\ method.user_args_rule = None => json = unwrap(method.args)
      BY FundersArgsStay DEF method
    <2>3. method.user_args_rule = None => ~may_overwrite(method)
      BY DEF may_overwrite
    <2> HIDE DEF text
    <2> QED
      BY <2>1, <2>2, <2>3 DEF KeepsFundersArgs, Injects
  <1> QED
    BY <1>3, <1>4 DEF method

-----------------------------------------------------------------------------
(* What a claim hands out.                                                 *)

\* The records an asset may become: what the funder set of it stays.
Likes(asset) ==
    [type : {asset.type}, contract : {asset.contract}, cost : {asset.cost},
     methods : {asset.methods}, balance_avail : Nat, token_ids : Seq(NftTokens)]

TokenOptions == {None} \cup {Some(token) : token \in NftTokens}

PromiseTyped(p) ==
    /\ p.type \in AssetTypes /\ p.amount \in Nat
    /\ p.deposits \in Seq(Nat) /\ p.deposits # << >>

\* The calls of a promise are those of one asset.
PromiseOf(p, assets) ==
    /\ PromiseTyped(p)
    /\ p.calls # << >> => \E a \in DOMAIN assets : CallsMade(p.calls, assets[a].methods)

\* A record is like itself, and one like it is typed as it is.
LEMMA LikeTyped ==
    ASSUME NEW asset, AssetTyped(asset)
    PROVE  /\ asset \in Likes(asset)
           /\ \A x \in Likes(asset) : AssetTyped(x) /\ Likes(x) = Likes(asset)
  <1>1. ASSUME NEW x \in Likes(asset)
        PROVE  AssetTyped(x) /\ Likes(x) = Likes(asset)
    <2>1. /\ x = [type |-> x.type, contract |-> x.contract, cost |-> x.cost, methods |-> x.methods,
                  balance_avail |-> x.balance_avail, token_ids |-> x.token_ids]
          /\ x.type = asset.type /\ x.contract = asset.contract /\ x.cost = asset.cost
          /\ x.methods = asset.methods /\ x.balance_avail \in Nat /\ x.token_ids \in Seq(NftTokens)
      BY DEF Likes
    <2>2. AssetTyped(x)
      BY <2>1 DEF AssetTyped, AssetTypeOK
    <2> QED
      BY <2>1, <2>2 DEF Likes
  <1>2. asset \in Likes(asset)
    <2>1. /\ asset = [type |-> asset.type, contract |-> asset.contract, cost |-> asset.cost,
                      methods |-> asset.methods, balance_avail |-> asset.balance_avail,
                      token_ids |-> asset.token_ids]
          /\ asset.balance_avail \in Nat /\ asset.token_ids \in Seq(NftTokens)
      BY DEF AssetTyped, AssetTypeOK
    <2>2. [type |-> asset.type, contract |-> asset.contract, cost |-> asset.cost,
           methods |-> asset.methods, balance_avail |-> asset.balance_avail,
           token_ids |-> asset.token_ids] \in Likes(asset)
      BY <2>1 DEF Likes
    <2> QED
      BY <2>1, <2>2
  <1> QED
    BY <1>1, <1>2

\* The methods of an asset are a vector, and attach amounts.
LEMMA MethodsTyped ==
    ASSUME NEW methods, FromShapes(methods)
    PROVE  /\ methods \in Seq(ToSet(methods))
           /\ \A i \in DOMAIN methods : methods[i].attached_deposit \in Nat
  <1>1. \E shape \in Shapes : \E group \in ToSet(shape.asset_data) : \E ext \in ToSet(group.assets) :
            methods = ext.methods
    BY DEF FromShapes
  <1>2. /\ methods \in Seq(ToSet(methods))
        /\ \A method \in ToSet(methods) : method.attached_deposit \in Nat
    BY <1>1, AssetsAssumption
  <1> QED
    BY <1>2 DEF ToSet

\* A vector without its last element.
LEMMA FrontTyped ==
    ASSUME NEW S, NEW s \in Seq(S), s # << >>
    PROVE  Front(s) \in Seq(S) /\ Last(s) \in S
  <1> DEFINE n == Len(s)
  <1>1. n \in Nat \ {0} /\ DOMAIN s = 1 .. n /\ \A i \in 1 .. n : s[i] \in S
    BY LenProperties, EmptySeq
  <1>2. n - 1 \in Int /\ \A i \in 1 .. n - 1 : s[i] \in S
    BY <1>1
  <1> HIDE DEF n
  <1>3. SubSeq(s, 1, n - 1) \in Seq(S)
    BY <1>2, SubSeqProperties
  <1>4. s[n] \in S
    BY <1>1
  <1> QED
    BY <1>3, <1>4 DEF Front, Last, n

\* A chain of calls carries their deposits.
LEMMA CallsCarry ==
    ASSUME NEW asset, AssetTyped(asset), NEW fc_args,
           NEW p, calls_promise(asset, claim_fc_asset(asset.methods, fc_args)) = Some(p)
    PROVE  PromiseTyped(p) /\ CallsMade(p.calls, asset.methods)
  <1> DEFINE calls == claim_fc_asset(asset.methods, fc_args)
  <1>1. FromShapes(asset.methods) /\ asset.type \in AssetTypes
    BY DEF AssetTyped, AssetTypeOK
  <1>2. CallsMade(calls, asset.methods)
    BY <1>1, MethodsTyped, ClaimMakesCalls
  <1> HIDE DEF calls
  <1>3. calls # << >>
        /\ p = [Promise(asset, 0, NoToken, 0) EXCEPT
                   !.deposits = [i \in DOMAIN calls |-> calls[i].attached_deposit], !.calls = calls]
    BY Zenon DEF calls_promise, calls, Some, None
  <1>4. /\ p.type = asset.type /\ p.amount = 0 /\ p.calls = calls
        /\ p.deposits = [i \in DOMAIN calls |-> calls[i].attached_deposit]
    BY <1>3 DEF Promise
  <1>5. \A i \in DOMAIN calls : calls[i].attached_deposit \in Nat
    <2> SUFFICES ASSUME NEW i \in DOMAIN calls PROVE calls[i].attached_deposit \in Nat
      OBVIOUS
    <2>1. CallMade(calls[i], asset.methods)
      BY <1>2 DEF CallsMade, ToSet
    <2>2. /\ calls[i].method \in DOMAIN asset.methods
          /\ calls[i].attached_deposit = asset.methods[calls[i].method].attached_deposit
      <3>1. PICK given : calls[i] = CallOf(asset.methods[calls[i].method], calls[i].method, given)
        BY <2>1 DEF CallMade
      <3> QED
        BY <2>1, <3>1 DEF CallMade, CallOf
    <2> QED
      BY <1>1, <2>2, MethodsTyped
  <1>6. DOMAIN calls = 1 .. Len(calls) /\ Len(calls) \in Nat \ {0}
    BY <1>2, <1>3, LenProperties, EmptySeq DEF CallsMade
  <1>7. p.deposits \in Seq(Nat) /\ p.deposits # << >>
    <2>1. p.deposits \in [1 .. Len(calls) -> Nat]
      BY <1>4, <1>5, <1>6
    <2> QED
      BY <1>6, <2>1
  <1> QED
    BY <1>1, <1>2, <1>4, <1>7 DEF PromiseTyped

\* What claim_asset makes of an asset, and what it sends.
LEMMA AssetClaimed ==
    ASSUME NEW asset, AssetTyped(asset), NEW amount \in Nat, NEW fc_args
    PROVE  LET claimed == claim_asset(asset, amount, fc_args)
           IN  /\ claimed.asset \in Likes(asset)
               /\ \/ claimed.promise = None
                  \/ \E p : /\ claimed.promise = Some(p) /\ PromiseTyped(p)
                            /\ p.calls # << >> => CallsMade(p.calls, asset.methods)
               /\ get_next_token_id(asset) \in TokenOptions
  <1> DEFINE claimed == claim_asset(asset, amount, fc_args)
             right == /\ claimed.asset \in Likes(asset)
                      /\ \/ claimed.promise = None
                         \/ \E p : /\ claimed.promise = Some(p) /\ PromiseTyped(p)
                                   /\ p.calls # << >> => CallsMade(p.calls, asset.methods)
  <1>1. /\ asset.type \in AssetTypes /\ asset.cost \in Nat /\ asset.balance_avail \in Nat
        /\ asset.token_ids \in Seq(NftTokens)
        /\ asset = [type |-> asset.type, contract |-> asset.contract, cost |-> asset.cost,
                    methods |-> asset.methods, balance_avail |-> asset.balance_avail,
                    token_ids |-> asset.token_ids]
    BY DEF AssetTyped, AssetTypeOK
  <1>11. get_next_token_id(asset) \in TokenOptions
    BY <1>1, FrontTyped DEF get_next_token_id, TokenOptions
  <1>12. SUFFICES right
    BY <1>11
  <1>2. asset \in Likes(asset)
    BY LikeTyped
  <1>3. ASSUME NEW near \in Nat, NEW n \in Nat, NEW token,
               claimed.promise = Some(Promise(asset, n, token, near)), claimed.asset \in Likes(asset)
        PROVE  right
    <2> DEFINE p == Promise(asset, n, token, near)
    <2>1. /\ p.type = asset.type /\ p.amount = n /\ p.deposits = <<near>> /\ p.calls = << >>
      BY DEF Promise
    <2>2. PromiseTyped(p)
      BY <1>1, <2>1 DEF PromiseTyped
    <2> HIDE DEF p, claimed
    <2>3. claimed.promise = Some(p)
      BY <1>3 DEF p
    <2> QED
      BY <1>3, <2>1, <2>2, <2>3
  <1>4. CASE claimed = [asset |-> asset, promise |-> None]
    BY <1>2, <1>4
  <1>5. from_near(asset.cost) + from_near(1) \in Nat /\ OneYocto \in Nat
    <2>1. \A a \in Nat, b \in Nat : a * b \in Nat
      OBVIOUS
    <2>2. asset.cost * YoctoPerNear \in Nat /\ 1 * YoctoPerNear \in Nat
      BY <1>1, <2>1, AmountsAssumption
    <2> QED
      BY <2>2, AmountsAssumption DEF from_near
  <1>6. CASE asset.type = "ft"
    <2>1. CASE enough_balance(asset, amount)
      <3>1. claimed = [asset |-> [asset EXCEPT !.balance_avail = @ - amount],
                       promise |-> Some(Promise(asset, amount, NoToken,
                                                from_near(asset.cost) + from_near(1)))]
        BY <1>6, <2>1 DEF claim_asset
      <3>2. asset.balance_avail - amount \in Nat
        BY <1>1, <2>1 DEF enough_balance
      <3>3. claimed.asset \in Likes(asset)
        BY <1>1, <3>1, <3>2 DEF Likes
      <3>4. claimed.promise = Some(Promise(asset, amount, NoToken,
                                           from_near(asset.cost) + from_near(1)))
        BY <3>1
      <3> HIDE DEF claimed, right
      <3> QED
        BY <1>3, <1>5, <3>3, <3>4
    <2>2. CASE ~enough_balance(asset, amount)
      BY <1>4, <1>6, <2>2 DEF claim_asset
    <2> QED
      BY <2>1, <2>2
  <1>7. CASE asset.type = "nft"
    <2>1. CASE asset.token_ids # << >>
      <3>1. ~is_empty(asset)
        BY <1>7, <2>1 DEF is_empty
      <3>2. claimed = [asset |-> [asset EXCEPT !.token_ids = Front(@)],
                       promise |-> Some(Promise(asset, 0, Last(asset.token_ids), OneYocto))]
        BY <1>7, <3>1 DEF claim_asset
      <3>3. Front(asset.token_ids) \in Seq(NftTokens)
        BY <1>1, <2>1, FrontTyped
      <3>4. claimed.asset \in Likes(asset)
        BY <1>1, <3>2, <3>3 DEF Likes
      <3>5. claimed.promise = Some(Promise(asset, 0, Last(asset.token_ids), OneYocto))
        BY <3>2
      <3> HIDE DEF claimed, right
      <3> QED
        BY <1>3, <1>5, <3>4, <3>5
    <2>2. CASE asset.token_ids = << >>
      <3>1. is_empty(asset)
        BY <1>7, <2>2 DEF is_empty
      <3> QED
        BY <1>4, <1>7, <3>1 DEF claim_asset
    <2> QED
      BY <2>1, <2>2
  <1>8. CASE asset.type = "fc"
    <2> DEFINE promise == calls_promise(asset, claim_fc_asset(asset.methods, fc_args))
    <2>1. claimed = [asset |-> asset, promise |-> promise]
      BY <1>8 DEF claim_asset
    <2>2. promise = None \/ \E p : promise = Some(p)
      BY DEF calls_promise
    <2>3. ASSUME NEW p, promise = Some(p)
          PROVE  PromiseTyped(p) /\ CallsMade(p.calls, asset.methods)
      BY <2>3, CallsCarry
    <2> HIDE DEF promise
    <2> QED
      BY <1>2, <2>1, <2>2, <2>3
  <1>9. CASE asset.type = "near"
    <2>1. claimed = [asset |-> asset, promise |-> Some(Promise(asset, 0, NoToken, amount))]
      BY <1>9 DEF claim_asset
    <2>2. claimed.promise = Some(Promise(asset, 0, NoToken, amount)) /\ claimed.asset \in Likes(asset)
      BY <1>2, <2>1
    <2> HIDE DEF claimed, right
    <2> QED
      BY <1>3, <2>2
  <1>10. CASE asset.type = "none"
    BY <1>4, <1>10 DEF claim_asset
  <1> HIDE DEF right
  <1> QED
    BY <1>1, <1>6, <1>7, <1>8, <1>9, <1>10 DEF AssetTypes

\* A claim's assets, NFTs and promises, one of each for every asset of the use.
ClaimTyped(claimed, assets) ==
    /\ claimed.assets = [a \in DOMAIN assets |-> claimed.assets[a]]
    /\ \A a \in DOMAIN assets : claimed.assets[a] \in Likes(assets[a])
    /\ claimed.token_ids \in Seq(TokenOptions) /\ claimed.token_ids # << >>
    /\ claimed.promises \in Seq(ToSet(claimed.promises)) /\ claimed.promises # << >>
    /\ \A q \in ToSet(claimed.promises) :
          q = None \/ \E p : q = Some(p) /\ PromiseOf(p, assets)

\* What claim_all hands out.
LEMMA ClaimAllTyped ==
    ASSUME NEW assets, RecordsTyped(assets), NEW use, UseEquipped(use, assets), use.assets_metadata # << >>,
           NEW fc_args
    PROVE  ClaimTyped(claim_all(assets, use.assets_metadata, fc_args), assets)
  <1> DEFINE metadata == use.assets_metadata
             given(idx) == IF fc_args # None /\ idx \in DOMAIN unwrap(fc_args)
                           THEN unwrap(fc_args)[idx] ELSE None
             fcs_in(acc) ==
                 Cardinality({i \in DOMAIN acc.promises : is_fc_asset_id(metadata[i].asset_id)})
             claim_one(acc, m) ==
                 LET asset == acc.assets[m.asset_id]
                     claimed == claim_asset(asset, m.tokens_per_use, given(fcs_in(acc) + 1))
                 IN  [assets |-> [acc.assets EXCEPT ![m.asset_id] = claimed.asset],
                      token_ids |-> Append(acc.token_ids, get_next_token_id(asset)),
                      promises |-> Append(acc.promises, claimed.promise)]
             start == [assets |-> assets, token_ids |-> << >>, promises |-> << >>]
             s == metadata
             S == ToSet(metadata)
             AllGiven == {None} \cup {unwrap(fc_args)[j] : j \in DOMAIN unwrap(fc_args)}
             AllLikes == UNION {Likes(assets[a]) : a \in DOMAIN assets}
             Promises == {claim_asset(x, n, g).promise : x \in AllLikes, n \in Nat, g \in AllGiven}
             Records == {f \in [DOMAIN assets -> AllLikes] : \A a \in DOMAIN assets : f[a] \in Likes(assets[a])}
             A == [assets : Records, token_ids : Seq(TokenOptions), promises : Seq(Promises)]
             step == [x \in A \X S |-> claim_one(x[1], x[2])]
             folds(f) == f = [V \in SUBSET DOMAIN s |->
                                 IF V = {} THEN start
                                 ELSE LET i == Max(V) IN claim_one(f[V \ {i}], s[i])]
             fold == CHOOSE f : folds(f)
  <1>1. claim_all(assets, metadata, fc_args) = fold[DOMAIN s]
    BY DEF claim_all, FoldLeft, MapThenFoldSet
  <1>2. /\ s \in Seq(S) /\ Len(s) \in Nat \ {0} /\ DOMAIN s = 1 .. Len(s)
        /\ \A m \in S : m.asset_id \in DOMAIN assets /\ m.tokens_per_use \in Nat
    BY LenProperties, EmptySeq DEF UseEquipped
  <1> HIDE DEF s, S
  <1>3. \A idx : given(idx) \in AllGiven
    OBVIOUS
  <1> HIDE DEF AllGiven, given
  <1>4. \A x \in AllLikes : \E a \in DOMAIN assets : x \in Likes(assets[a])
    OBVIOUS
  <1>5. \A a \in DOMAIN assets : \A x \in Likes(assets[a]) : x \in AllLikes
    OBVIOUS
  <1> HIDE DEF AllLikes
  <1>6. ASSUME NEW acc \in A, NEW m \in S
        PROVE  claim_one(acc, m) \in A /\ claim_one(acc, m).token_ids # << >>
               /\ claim_one(acc, m).promises # << >>
    <2> DEFINE a == m.asset_id
               asset == acc.assets[a]
               g == given(fcs_in(acc) + 1)
               claimed == claim_asset(asset, m.tokens_per_use, g)
    <2>1. /\ acc.assets \in Records /\ acc.token_ids \in Seq(TokenOptions)
          /\ acc.promises \in Seq(Promises)
      <3> HIDE DEF Records, Promises
      <3> QED
        OBVIOUS
    <2>2. a \in DOMAIN assets /\ m.tokens_per_use \in Nat /\ g \in AllGiven
      BY <1>2, <1>3
    <2> HIDE DEF g
    <2>3. /\ asset \in Likes(assets[a]) /\ AssetTyped(assets[a]) /\ acc.assets \in [DOMAIN assets -> AllLikes]
          /\ \A b \in DOMAIN assets : acc.assets[b] \in Likes(assets[b])
      BY <2>1, <2>2 DEF RecordsTyped
    <2>4. AssetTyped(asset) /\ Likes(asset) = Likes(assets[a])
      BY <2>2, <2>3, LikeTyped
    <2>5. claimed.asset \in Likes(assets[a]) /\ get_next_token_id(asset) \in TokenOptions
      BY <2>2, <2>4, AssetClaimed
    <2>6. claimed.promise \in Promises
      BY <1>5, <2>2, <2>3
    <2>7. Append(acc.promises, claimed.promise) \in Seq(Promises)
          /\ Append(acc.promises, claimed.promise) # << >>
      <3> HIDE DEF Promises, claimed
      <3> QED
        BY <2>1, <2>6
    <2> HIDE DEF Promises, claimed
    <2>8. Append(acc.token_ids, get_next_token_id(asset)) \in Seq(TokenOptions)
          /\ Append(acc.token_ids, get_next_token_id(asset)) # << >>
      BY <2>1, <2>5
    <2>9. [acc.assets EXCEPT ![a] = claimed.asset] \in Records
      <3> HIDE DEF asset, a
      <3> QED
        BY <1>5, <2>2, <2>3, <2>5
    <2>10. claim_one(acc, m) = [assets |-> [acc.assets EXCEPT ![a] = claimed.asset],
                                token_ids |-> Append(acc.token_ids, get_next_token_id(asset)),
                                promises |-> Append(acc.promises, claimed.promise)]
      BY DEF claimed, g
    <2> HIDE DEF claim_one, Records, asset, a
    <2> QED
      BY <2>7, <2>8, <2>9, <2>10
  <1>7. start \in A
    <2>1. assets \in Records
      <3>1. assets \in [DOMAIN assets -> AllLikes]
        BY <1>5, LikeTyped DEF RecordsTyped
      <3> QED
        BY LikeTyped, <3>1 DEF RecordsTyped
    <2> HIDE DEF Records, Promises
    <2> QED
      BY <2>1
  <1> HIDE DEF A, claim_one, start
  <1>8. step \in [A \X S -> A] /\ \A acc \in A, m \in S : step[<<acc, m>>] = claim_one(acc, m)
    BY <1>6
  <1> HIDE DEF step
  <1>9. \E f : folds(f)
    <2>1. PICK f \in [SUBSET DOMAIN s -> A] : Folds(f, step, start, s)
      BY <1>2, <1>7, <1>8, FoldExists
    <2>2. ASSUME NEW V \in SUBSET DOMAIN s, V # {}
          PROVE  step[<<f[V \ {Max(V)}], s[Max(V)]>>] = claim_one(f[V \ {Max(V)}], s[Max(V)])
      <3>1. Max(V) \in DOMAIN s
        BY <1>2, <2>2, MaxOfSome
      <3>2. f[V \ {Max(V)}] \in A /\ s[Max(V)] \in S
        BY <1>2, <2>1, <2>2, <3>1
      <3> QED
        BY <1>8, <3>2
    <2>3. folds(f)
      BY <2>1, <2>2 DEF Folds
    <2> QED
      BY <2>3
  <1>10. folds(fold)
    BY <1>9
  <1> HIDE DEF fold
  <1>11. fold[{}] = start
    BY <1>10
  <1>12. ASSUME NEW V \in SUBSET DOMAIN s, V # {}, fold[V \ {Max(V)}] \in A
         PROVE  fold[V] = step[<<fold[V \ {Max(V)}], s[Max(V)]>>]
    <2>1. s[Max(V)] \in S
      BY <1>2, <1>12, MaxOfSome
    <2> QED
      BY <1>8, <1>10, <1>12, <2>1
  <1> HIDE DEF folds
  <1>13. /\ \A k \in 0 .. Len(s) : fold[1 .. k] \in A
         /\ OneByOne(fold, step, s)
    <2>1. FoldsWithin(A, fold, step, start, s)
      BY <1>11, <1>12 DEF FoldsWithin
    <2> QED
      BY <1>2, <1>7, <1>8, <2>1, FoldStays
  <1> DEFINE n == Len(s)
             claimed == fold[1 .. n]
  <1>14. claimed \in A /\ claimed.token_ids # << >> /\ claimed.promises # << >>
    <2>1. n \in 0 .. n /\ n \in 1 .. n /\ n - 1 \in 0 .. n /\ s[n] \in S
      BY <1>2
    <2>2. fold[1 .. n - 1] \in A /\ fold[1 .. n] \in A
          /\ fold[1 .. n] = step[<<fold[1 .. n - 1], s[n]>>]
      BY <1>13, <2>1 DEF OneByOne
    <2> QED
      BY <1>6, <1>8, <2>1, <2>2
  <1>15. claim_all(assets, metadata, fc_args) = claimed
    BY <1>1, <1>2
  <1> HIDE DEF claimed, n
  <1>16. ASSUME NEW q \in Promises
         PROVE  q = None \/ \E p : q = Some(p) /\ PromiseOf(p, assets)
    <2>1. PICK x \in AllLikes, k \in Nat, g \in AllGiven : q = claim_asset(x, k, g).promise
      BY <1>16
    <2>2. PICK a \in DOMAIN assets : x \in Likes(assets[a])
      BY <1>4
    <2>3. AssetTyped(x) /\ x.methods = assets[a].methods
      <3>1. x.methods = assets[a].methods
        BY <2>2 DEF Likes
      <3> QED
        BY <2>2, <3>1, LikeTyped DEF RecordsTyped
    <2>4. \/ q = None
          \/ \E p : q = Some(p) /\ PromiseTyped(p) /\ (p.calls # << >> => CallsMade(p.calls, x.methods))
      BY <2>1, <2>3, AssetClaimed
    <2> QED
      BY <2>3, <2>4 DEF PromiseOf
  <1>17. /\ claimed.assets \in Records /\ claimed.token_ids \in Seq(TokenOptions)
         /\ claimed.promises \in Seq(Promises)
    <2> HIDE DEF Records, Promises
    <2> QED
      BY <1>14 DEF A
  <1>18. claimed.promises \in Seq(ToSet(claimed.promises)) /\ ToSet(claimed.promises) \subseteq Promises
    <2> HIDE DEF Promises
    <2> QED
      BY <1>17 DEF ToSet
  <1> HIDE DEF Promises
  <1>19. ClaimTyped(claimed, assets)
    BY <1>14, <1>16, <1>17, <1>18 DEF ClaimTyped
  <1> QED
    BY <1>15, <1>19 DEF metadata

PromisesOf(ps, assets) ==
    /\ ps \in Seq(ToSet(ps))
    /\ \A p \in ToSet(ps) : PromiseOf(p, assets)

\* The promises that are fired: those there are.
LEMMA FiredTyped ==
    ASSUME NEW assets, NEW claimed, ClaimTyped(claimed, assets)
    PROVE  LET fired == fired_promises(claimed)
           IN  PromisesOf(fired, assets) /\ (is_awaited(claimed) => fired # << >>)
  <1> DEFINE s == claimed.promises
             S == ToSet(s)
             Fired == {unwrap(q) : q \in S \ {None}}
             A == Seq(Fired)
             op(fired, p) == IF p = None THEN fired ELSE Append(fired, unwrap(p))
             step == [x \in A \X S |-> op(x[1], x[2])]
             folds(f) == f = [V \in SUBSET DOMAIN s |->
                                 IF V = {} THEN << >>
                                 ELSE LET i == Max(V) IN op(f[V \ {i}], s[i])]
             fold == CHOOSE f : folds(f)
  <1>1. fired_promises(claimed) = fold[DOMAIN s]
    BY DEF fired_promises, FoldLeft, MapThenFoldSet
  <1>2. /\ s \in Seq(S) /\ Len(s) \in Nat \ {0} /\ DOMAIN s = 1 .. Len(s)
        /\ \A q \in S : q = None \/ \E p : q = Some(p) /\ PromiseOf(p, assets)
    BY LenProperties, EmptySeq DEF ClaimTyped
  <1> HIDE DEF s, S
  <1>3. ASSUME NEW p \in Fired PROVE PromiseOf(p, assets)
    BY <1>2 DEF Some, None, unwrap
  <1>4. ASSUME NEW fired \in A, NEW q \in S
        PROVE  op(fired, q) \in A /\ (q # None => op(fired, q) # << >>)
    <2>1. q # None => unwrap(q) \in Fired
      OBVIOUS
    <2> HIDE DEF Fired
    <2>2. CASE q = None
      BY <2>2
    <2>3. CASE q # None
      <3>1. op(fired, q) = Append(fired, unwrap(q)) /\ fired \in Seq(Fired)
        BY <2>3
      <3> DEFINE x == unwrap(q)
      <3> HIDE DEF op, x
      <3> QED
        BY <2>1, <2>3, <3>1, AppendProperties DEF x
    <2> QED
      BY <2>2, <2>3
  <1>5. << >> \in A
    OBVIOUS
  <1> HIDE DEF A, op
  <1>6. step \in [A \X S -> A] /\ \A fired \in A, q \in S : step[<<fired, q>>] = op(fired, q)
    BY <1>4
  <1> HIDE DEF step
  <1>7. \E f : folds(f)
    <2>1. PICK f \in [SUBSET DOMAIN s -> A] : Folds(f, step, << >>, s)
      BY <1>2, <1>5, <1>6, FoldExists
    <2>2. ASSUME NEW V \in SUBSET DOMAIN s, V # {}
          PROVE  step[<<f[V \ {Max(V)}], s[Max(V)]>>] = op(f[V \ {Max(V)}], s[Max(V)])
      <3>1. Max(V) \in DOMAIN s
        BY <1>2, <2>2, MaxOfSome
      <3>2. f[V \ {Max(V)}] \in A /\ s[Max(V)] \in S
        BY <1>2, <2>1, <2>2, <3>1
      <3> QED
        BY <1>6, <3>2
    <2>3. folds(f)
      BY <2>1, <2>2 DEF Folds
    <2> QED
      BY <2>3
  <1>8. folds(fold)
    BY <1>7
  <1> HIDE DEF fold
  <1>9. FoldsWithin(A, fold, step, << >>, s)
    <2>1. ASSUME NEW V \in SUBSET DOMAIN s, V # {}, fold[V \ {Max(V)}] \in A
          PROVE  fold[V] = step[<<fold[V \ {Max(V)}], s[Max(V)]>>]
      <3>1. s[Max(V)] \in S
        BY <1>2, <2>1, MaxOfSome
      <3> QED
        BY <1>6, <1>8, <2>1, <3>1
    <2>2. fold[{}] = << >>
      BY <1>8
    <2> QED
      BY <2>1, <2>2 DEF FoldsWithin
  <1>10. (\A k \in 0 .. Len(s) : fold[1 .. k] \in A) /\ OneByOne(fold, step, s)
    BY <1>2, <1>5, <1>6, <1>9, FoldStays
  <1> DEFINE n == Len(s)
             fired == fold[1 .. n]
  <1>11. n \in 0 .. n /\ n \in 1 .. n /\ n - 1 \in 0 .. n /\ s[n] \in S
    BY <1>2
  <1>12. fired \in A /\ (s[n] # None => fired # << >>)
    <2>1. fold[1 .. n - 1] \in A /\ fold[1 .. n] \in A
          /\ fold[1 .. n] = step[<<fold[1 .. n - 1], s[n]>>]
      BY <1>10, <1>11 DEF OneByOne
    <2> QED
      BY <1>4, <1>6, <1>11, <2>1
  <1>13. is_awaited(claimed) => s[n] # None
    BY <1>2, <1>11 DEF is_awaited, s
  <1>14. fired_promises(claimed) = fired
    BY <1>1, <1>2
  <1> HIDE DEF fired, n, Fired
  <1>15. PromisesOf(fired, assets)
    BY <1>3, <1>12 DEF PromisesOf, ToSet, A
  <1> QED
    BY <1>12, <1>13, <1>14, <1>15

-----------------------------------------------------------------------------
(* What a step does to the records and to the promises in flight.          *)

\* The promises in flight carry what their kind says.
ReceiptTyped(receipt) ==
    /\ receipt.kind \in {"claim", "ft_refund"} => PromiseTyped(receipt.promise)
    /\ receipt.kind = "claim" => receipt.token_ids \in Seq(TokenOptions) /\ receipt.token_ids # << >>
    /\ receipt.kind = "nft_refund" =>
          receipt.token_ids \in Seq(NftTokens) /\ receipt.storage_released \in Nat

\* The books: what drops and promises in flight are made of.
Recorded == Equipped /\ \A r \in DOMAIN receipts : ReceiptTyped(receipts[r])

\* The records of a drop keep what the funder set.
Becomes(new, old) ==
    /\ new = [a \in DOMAIN old |-> new[a]]
    /\ \A a \in DOMAIN old : new[a] \in Likes(old[a])

DropsBecome ==
    \A d \in DOMAIN drop_by_id \cap DOMAIN drop_by_id' :
        /\ drop_by_id'[d].asset_data_for_uses = drop_by_id[d].asset_data_for_uses
        /\ Becomes(asset_by_id'[d], asset_by_id[d])

NewDropsEquipped ==
    \A d \in DOMAIN drop_by_id' \ DOMAIN drop_by_id :
        EquippedWith(drop_by_id'[d].asset_data_for_uses, asset_by_id'[d])

\* A promise that is fired: that of a claim is made of its drop.
Promises(receipt) ==
    /\ ReceiptTyped(receipt)
    /\ receipt.kind = "claim" =>
          /\ parse_token_id(receipt.token_id) \in DOMAIN drop_by_id
          /\ PromiseOf(receipt.promise, asset_by_id[parse_token_id(receipt.token_id)])

PromisesCome ==
    \A r \in DOMAIN receipts' :
        \/ r \in DOMAIN receipts /\ receipts'[r] = receipts[r]
        \/ Promises(receipts'[r])

BooksKept == DropsBecome /\ NewDropsEquipped /\ PromisesCome

\* Records that are not written are like themselves.
LEMMA SameBecomes == ASSUME NEW assets, RecordsTyped(assets) PROVE Becomes(assets, assets)
  BY LikeTyped DEF RecordsTyped, Becomes

\* A record that is written becomes like it was.
LEMMA OneBecomes ==
    ASSUME NEW old, RecordsTyped(old), NEW a \in DOMAIN old, NEW asset \in Likes(old[a])
    PROVE  Becomes([old EXCEPT ![a] = asset], old)
  BY LikeTyped DEF RecordsTyped, Becomes

\* What became like the records stays like them.
LEMMA BecomesTyped ==
    ASSUME NEW old, RecordsTyped(old), NEW new, Becomes(new, old)
    PROVE  RecordsTyped(new) /\ \A a \in DOMAIN old : Likes(new[a]) = Likes(old[a])
  BY LikeTyped DEF RecordsTyped, Becomes

\* The records of a drop, by the invariant.
LEMMA DropRecords ==
    ASSUME Recorded, NEW d \in DOMAIN drop_by_id
    PROVE  RecordsTyped(asset_by_id[d])
  BY DEF Recorded, Equipped, EquippedWith

\* A step that writes no record and brings no drop.
LEMMA QuietRecords ==
    ASSUME Inv, Recorded,
           \A d \in DOMAIN drop_by_id' :
               /\ d \in DOMAIN drop_by_id
               /\ drop_by_id'[d].asset_data_for_uses = drop_by_id[d].asset_data_for_uses
               /\ asset_by_id'[d] = asset_by_id[d]
    PROVE  DropsBecome /\ NewDropsEquipped
  BY SameBecomes, DropRecords DEF DropsBecome, NewDropsEquipped

\* A step that writes the records of one drop.
LEMMA RecordsWritten ==
    ASSUME Inv, Recorded, NEW d \in DOMAIN drop_by_id, NEW assets, Becomes(assets, asset_by_id[d]),
           UNCHANGED drop_by_id, asset_by_id' = [asset_by_id EXCEPT ![d] = assets]
    PROVE  DropsBecome /\ NewDropsEquipped
  <1>1. d \in DOMAIN asset_by_id /\ DOMAIN asset_by_id = DOMAIN drop_by_id
    BY DEF Inv
  <1>2. asset_by_id'[d] = assets /\ \A e \in DOMAIN drop_by_id : e # d => asset_by_id'[e] = asset_by_id[e]
    BY <1>1
  <1>3. \A e \in DOMAIN drop_by_id : Becomes(asset_by_id'[e], asset_by_id[e])
    BY <1>2, SameBecomes, DropRecords
  <1> QED
    BY <1>3 DEF DropsBecome, NewDropsEquipped

\* handle_key_cleanup writes the records or removes them with the drop.
LEMMA CleanupRecords ==
    ASSUME Inv, Recorded, NEW t, NEW keys, NEW assets, NEW withdrawn, NEW refund, NEW added,
           parse_token_id(t) \in DOMAIN drop_by_id,
           Becomes(assets, asset_by_id[parse_token_id(t)]),
           handle_key_cleanup(t, keys, assets, withdrawn, refund, added)
    PROVE  DropsBecome /\ NewDropsEquipped
  <1> DEFINE d == parse_token_id(t)
  <1>1. \/ drop_by_id' = Without(drop_by_id, {d}) /\ asset_by_id' = Without(asset_by_id, {d})
        \/ UNCHANGED drop_by_id /\ asset_by_id' = [asset_by_id EXCEPT ![d] = assets]
    BY DEF handle_key_cleanup
  <1>2. CASE drop_by_id' = Without(drop_by_id, {d}) /\ asset_by_id' = Without(asset_by_id, {d})
    <2>1. \A e \in DOMAIN drop_by_id' :
             /\ e \in DOMAIN drop_by_id /\ drop_by_id'[e] = drop_by_id[e]
             /\ asset_by_id'[e] = asset_by_id[e]
      BY <1>2 DEF Without, Restrict, Inv
    <2> QED
      BY <2>1, QuietRecords
  <1>3. CASE UNCHANGED drop_by_id /\ asset_by_id' = [asset_by_id EXCEPT ![d] = assets]
    BY <1>3, RecordsWritten
  <1> QED
    BY <1>1, <1>2, <1>3

-----------------------------------------------------------------------------
(* Promises that come.                                                     *)

\* With the promises in flight unchanged none comes, ...
LEMMA NoneComes == ASSUME UNCHANGED receipts PROVE PromisesCome
  BY DEF PromisesCome

\* ... nor when one is resolved, ...
LEMMA NoneComesResolved == ASSUME NEW r, Resolve(r) PROVE PromisesCome
  BY DEF PromisesCome, Resolve, Without, Restrict

\* ... and one does when one is fired.
LEMMA OneComes == ASSUME NEW receipt, Promises(receipt), Fire(receipt) PROVE PromisesCome
  <1>1. NewReceipt \notin DOMAIN receipts
    BY DEF Fire, FreeReceipts, NewReceipt
  <1> QED
    BY <1>1 DEF Fire, With, PromisesCome

\* Those of other kinds promise nothing of a drop.
LEMMA OtherPromises ==
    ASSUME NEW receipt, receipt.kind \notin {"claim", "ft_refund", "nft_refund"}
    PROVE  Promises(receipt)
  BY DEF Promises, ReceiptTyped

-----------------------------------------------------------------------------
(* The steps of a claim.                                                   *)

\* The use a claim hands out has its assets on record.
LEMMA LastUseEquipped ==
    ASSUME Recorded, NEW d \in DOMAIN drop_by_id, NEW key_info,
           last_use_data(drop_by_id[d], key_info).assets_metadata # << >>
    PROVE  UseEquipped(last_use_data(drop_by_id[d], key_info), asset_by_id[d])
  <1> DEFINE data == drop_by_id[d].asset_data_for_uses
             use == last_use_data(drop_by_id[d], key_info)
  <1>1. EquippedWith(data, asset_by_id[d])
    BY DEF Recorded, Equipped
  <1>2. use = EmptyAssetData \/ use \in ToSet(data)
    BY <1>1, GroupOfUse DEF last_use_data, EquippedWith
  <1>3. use # EmptyAssetData
    BY DEF EmptyAssetData
  <1> HIDE DEF data, use
  <1> QED
    BY <1>1, <1>2, <1>3 DEF EquippedWith, use

\* What a claim hands out, and the promise the callback waits for.
LEMMA HandOutTyped ==
    ASSUME Recorded, NEW t, NEW keys, NEW fc_args, parse_token_id(t) \in DOMAIN drop_by_id,
           internal_claim_assets_defined(t, keys, assets_of_last_use(t, keys, fc_args))
    PROVE  LET d == parse_token_id(t)
               claimed == assets_of_last_use(t, keys, fc_args)
           IN  /\ Becomes(claimed.assets, asset_by_id[d])
               /\ PromisesOf(fired_promises(claimed), asset_by_id[d])
               /\ is_awaited(claimed) => \A use : Promises(ClaimReceipt(t, use, claimed))
  <1> DEFINE d == parse_token_id(t)
             use_data == last_use_data(drop_by_id[d], keys[t])
             claimed == assets_of_last_use(t, keys, fc_args)
             fired == fired_promises(claimed)
  <1>1. use_data.assets_metadata # << >>
    BY DEF internal_claim_assets_defined
  <1>2. UseEquipped(use_data, asset_by_id[d]) /\ RecordsTyped(asset_by_id[d])
    BY <1>1, LastUseEquipped, DropRecords
  <1>3. claimed = claim_all(asset_by_id[d], use_data.assets_metadata, fc_args)
    BY DEF assets_of_last_use
  <1> HIDE DEF use_data, claimed
  <1>4. ClaimTyped(claimed, asset_by_id[d])
    BY <1>1, <1>2, <1>3, ClaimAllTyped
  <1>5. PromisesOf(fired, asset_by_id[d]) /\ (is_awaited(claimed) => fired # << >>)
    BY <1>4, FiredTyped
  <1>6. Becomes(claimed.assets, asset_by_id[d])
    BY <1>4 DEF ClaimTyped, Becomes
  <1>7. ASSUME is_awaited(claimed), NEW use
        PROVE  Promises(ClaimReceipt(t, use, claimed))
    <2>1. Last(fired) \in ToSet(fired)
      BY <1>5, <1>7, FrontTyped DEF PromisesOf
    <2>2. PromiseOf(Last(fired), asset_by_id[d])
      BY <1>5, <2>1 DEF PromisesOf
    <2>3. claimed.token_ids \in Seq(TokenOptions) /\ claimed.token_ids # << >>
      BY <1>4 DEF ClaimTyped
    <2> DEFINE receipt == ClaimReceipt(t, use, claimed)
    <2>4. /\ receipt.kind = "claim" /\ receipt.token_id = t /\ receipt.promise = Last(fired)
          /\ receipt.token_ids = claimed.token_ids
      BY DEF ClaimReceipt
    <2> HIDE DEF receipt, fired
    <2> QED
      BY <2>2, <2>3, <2>4 DEF Promises, ReceiptTyped, PromiseOf, receipt
  <1> QED
    BY <1>5, <1>6, <1>7 DEF claimed

\* What a failed transfer gives back is typed as it was.
LEMMA GivenBackLike ==
    ASSUME NEW asset, AssetTyped(asset), NEW amount \in Nat, NEW token_id \in TokenOptions,
           asset.type = "nft" => token_id # None
    PROVE  /\ on_failed_claim(asset, amount, token_id).asset \in Likes(asset)
           /\ on_failed_claim(asset, amount, token_id).refund \in Nat
  <1> DEFINE new == on_failed_claim(asset, amount, token_id).asset
             refund == on_failed_claim(asset, amount, token_id).refund
  <1>1. asset \in Likes(asset)
    BY LikeTyped
  <1>2. /\ asset = [type |-> asset.type, contract |-> asset.contract, cost |-> asset.cost,
                    methods |-> asset.methods, balance_avail |-> asset.balance_avail,
                    token_ids |-> asset.token_ids]
        /\ asset.type \in AssetTypes /\ asset.cost \in Nat
        /\ asset.balance_avail \in Nat /\ asset.token_ids \in Seq(NftTokens)
    BY DEF AssetTyped, AssetTypeOK
  <1>3. CASE asset.type = "ft"
    <2>1. /\ new = [asset EXCEPT !.balance_avail = @ + amount] /\ asset.balance_avail + amount \in Nat
          /\ refund = asset.cost
      BY <1>2, <1>3 DEF on_failed_claim, add_to_balance_avail
    <2> QED
      BY <1>2, <2>1 DEF Likes
  <1>4. CASE asset.type = "nft"
    <2>1. unwrap(token_id) \in NftTokens
      BY <1>4 DEF TokenOptions, Some, None, unwrap
    <2>2. asset.token_ids \o <<unwrap(token_id)>> \in Seq(NftTokens)
      BY <1>2, <2>1
    <2>3. new = [asset EXCEPT !.token_ids = @ \o <<unwrap(token_id)>>] /\ refund = 0
      BY <1>4 DEF on_failed_claim, add_to_token_ids
    <2> HIDE DEF new, refund
    <2>4. new \in Likes(asset)
      BY <1>2, <2>2, <2>3 DEF Likes
    <2> QED
      BY <2>3, <2>4 DEF new, refund
  <1>5. CASE asset.type \notin {"ft", "nft"}
    <2>1. new = asset /\ refund \in {0, amount}
      BY <1>2, <1>5 DEF on_failed_claim, AssetTypes
    <2> QED
      BY <1>1, <2>1
  <1> QED
    BY <1>3, <1>4, <1>5

\* on_assets_claimed leaves the records as they are, or gives back what the first promise carried.
LEMMA AssetsGivenBack ==
    ASSUME Inv, Recorded, NEW t, NEW keys, parse_token_id(t) \in DOMAIN drop_by_id,
           NEW assets, Becomes(assets, asset_by_id[parse_token_id(t)]), NEW token_ids,
           NEW results \in {<< >>, <<TRUE>>, <<FALSE>>},
           results = <<FALSE>> =>
               LET metadata == last_use_data(drop_by_id[parse_token_id(t)], keys[t]).assets_metadata
               IN  /\ metadata # << >> /\ token_ids[1] \in TokenOptions
                   /\ assets[metadata[1].asset_id].type = "nft" => token_ids[1] # None,
           on_assets_claimed(t, keys, assets, token_ids, results)
    PROVE  \E updated, withdrawn : \E refund \in Nat :
               /\ Becomes(updated, asset_by_id[parse_token_id(t)])
               /\ handle_key_cleanup(t, keys, updated, withdrawn, refund,
                                     nft_bytes(updated) - nft_bytes(assets))
  <1> DEFINE d == parse_token_id(t)
             use == last_use_data(drop_by_id[d], keys[t])
             metadata == use.assets_metadata
             seen == {i \in DOMAIN results : ~is_fc_asset_id(metadata[i].asset_id)}
             failed == {i \in seen : ~results[i]}
             undone(i) == on_failed_claim(assets[metadata[i].asset_id], metadata[i].tokens_per_use,
                                          token_ids[i])
             updated == [a \in DOMAIN assets |->
                            IF \E i \in failed : metadata[i].asset_id = a
                            THEN undone(CHOOSE i \in failed : metadata[i].asset_id = a).asset
                            ELSE assets[a]]
             refunds == [i \in failed |-> undone(i).refund]
  <1>1. \E withdrawn : handle_key_cleanup(t, keys, updated, withdrawn, SumFunction(refunds),
                                          nft_bytes(updated) - nft_bytes(assets))
    BY Zenon DEF on_assets_claimed
  <1>2. RecordsTyped(asset_by_id[d])
    BY DropRecords
  <1>3. /\ DOMAIN assets = DOMAIN asset_by_id[d]
        /\ \A a \in DOMAIN assets : assets[a] \in Likes(asset_by_id[d][a])
    BY DEF Becomes
  <1>4. \A a \in DOMAIN assets : AssetTyped(assets[a]) /\ Likes(assets[a]) = Likes(asset_by_id[d][a])
    BY <1>2, <1>3, BecomesTyped DEF RecordsTyped
  <1>5. failed \subseteq {1} /\ (failed # {} => results = <<FALSE>>)
    <2>1. results = << >> => DOMAIN results = {}
      OBVIOUS
    <2>2. DOMAIN <<TRUE>> = {1} /\ DOMAIN <<FALSE>> = {1} /\ <<TRUE>>[1]
      OBVIOUS
    <2>3. failed \subseteq DOMAIN results /\ \A i \in failed : ~results[i]
      OBVIOUS
    <2> HIDE DEF failed, seen
    <2>4. CASE results = << >>
      BY <2>1, <2>3, <2>4
    <2>5. CASE results = <<TRUE>>
      BY <2>2, <2>3, <2>5
    <2>6. CASE results = <<FALSE>>
      BY <2>2, <2>3, <2>6
    <2> QED
      BY <2>4, <2>5, <2>6
  <1>6. ASSUME 1 \in failed
        PROVE  /\ metadata[1].asset_id \in DOMAIN assets
               /\ undone(1).asset \in Likes(assets[metadata[1].asset_id]) /\ undone(1).refund \in Nat
    <2>1. results = <<FALSE>>
      BY <1>5, <1>6
    <2> HIDE DEF failed, seen
    <2>2. UseEquipped(use, asset_by_id[d]) /\ metadata # << >>
      BY <2>1, LastUseEquipped
    <2>3. metadata[1].tokens_per_use \in Nat /\ metadata[1].asset_id \in DOMAIN assets
      <3>1. metadata \in Seq(ToSet(metadata)) /\ \A m \in ToSet(metadata) :
                m.tokens_per_use \in Nat /\ m.asset_id \in DOMAIN assets
        BY <1>3, <2>2 DEF UseEquipped
      <3> HIDE DEF metadata
      <3>2. 1 \in DOMAIN metadata
        BY <2>2, <3>1, LenProperties, EmptySeq
      <3> QED
        BY <3>1, <3>2 DEF ToSet
    <2>4. /\ token_ids[1] \in TokenOptions
          /\ assets[metadata[1].asset_id].type = "nft" => token_ids[1] # None
      BY <2>1
    <2> HIDE DEF metadata
    <2>5. AssetTyped(assets[metadata[1].asset_id])
      BY <1>4, <2>3
    <2> QED
      BY <2>3, <2>4, <2>5, GivenBackLike
  <1>7. ASSUME NEW a \in DOMAIN assets
        PROVE  updated[a] \in Likes(asset_by_id[d][a])
    <2>1. CASE \E i \in failed : metadata[i].asset_id = a
      <3>1. 1 \in failed /\ metadata[1].asset_id = a
        BY <1>5, <2>1
      <3>2. (CHOOSE i \in failed : metadata[i].asset_id = a) = 1
        BY <1>5, <2>1, <3>1
      <3>3. undone(1).asset \in Likes(assets[a])
        BY <1>6, <3>1
      <3> HIDE DEF failed, seen, undone
      <3>4. updated[a] = undone(1).asset
        BY <2>1, <3>1, <3>2
      <3> QED
        BY <1>4, <3>3, <3>4
    <2>2. CASE ~ \E i \in failed : metadata[i].asset_id = a
      BY <1>3, <2>2
    <2> QED
      BY <2>1, <2>2
  <1>8. Becomes(updated, asset_by_id[d])
    <2>1. updated = [a \in DOMAIN asset_by_id[d] |-> updated[a]]
      BY <1>3
    <2> HIDE DEF updated
    <2> QED
      BY <1>3, <1>7, <2>1 DEF Becomes
  <1>9. SumFunction(refunds) \in Nat
    <2>1. IsFiniteSet(failed)
      BY <1>5, FS_Singleton, FS_Subset
    <2>2. \A i \in failed : undone(i).refund \in Nat
      BY <1>5, <1>6
    <2> HIDE DEF failed, seen, undone
    <2>3. Amounts(refunds)
      BY <2>1, <2>2 DEF Amounts
    <2> HIDE DEF refunds
    <2> QED
      BY <2>3, SumOfAmounts
  <1> HIDE DEF updated, refunds
  <1> QED
    BY <1>1, <1>8, <1>9

\* The callback of a claim leaves records that are alike.
LEMMA OnAssetsClaimedRecords ==
    ASSUME Inv, Recorded, NEW t, NEW keys, parse_token_id(t) \in DOMAIN drop_by_id,
           NEW assets, Becomes(assets, asset_by_id[parse_token_id(t)]), NEW token_ids,
           NEW results \in {<< >>, <<TRUE>>, <<FALSE>>},
           results = <<FALSE>> =>
               LET metadata == last_use_data(drop_by_id[parse_token_id(t)], keys[t]).assets_metadata
               IN  /\ metadata # << >> /\ token_ids[1] \in TokenOptions
                   /\ assets[metadata[1].asset_id].type = "nft" => token_ids[1] # None,
           on_assets_claimed(t, keys, assets, token_ids, results)
    PROVE  DropsBecome /\ NewDropsEquipped
  BY AssetsGivenBack, CleanupRecords

\* internal_claim_assets writes the records as the claim leaves them.
LEMMA ClaimedRecords ==
    ASSUME Inv, Recorded, NEW t, NEW keys, NEW fc_args, NEW results \in {<< >>, <<TRUE>>}, NEW lost,
           parse_token_id(t) \in DOMAIN drop_by_id,
           internal_claim_assets_defined(t, keys, assets_of_last_use(t, keys, fc_args)),
           internal_claim_assets(t, keys, assets_of_last_use(t, keys, fc_args), results, lost)
    PROVE  DropsBecome /\ NewDropsEquipped
  <1> DEFINE claimed == assets_of_last_use(t, keys, fc_args)
             d == parse_token_id(t)
  <1>1. Becomes(claimed.assets, asset_by_id[d])
    BY HandOutTyped
  <1>2. CASE is_awaited(claimed)
    <2>1. asset_by_id' = [asset_by_id EXCEPT ![d] = claimed.assets] /\ UNCHANGED drop_by_id
      BY <1>2 DEF internal_claim_assets
    <2> QED
      BY <1>1, <2>1, RecordsWritten
  <1>3. CASE ~is_awaited(claimed)
    <2>1. on_assets_claimed(t, keys, claimed.assets, claimed.token_ids, results)
      BY <1>3 DEF internal_claim_assets
    <2>2. results # <<FALSE>>
      <3>1. DOMAIN << >> = {} /\ DOMAIN <<FALSE>> = {1} /\ <<TRUE>>[1] /\ ~<<FALSE>>[1]
        OBVIOUS
      <3> QED
        BY <3>1
    <2> HIDE DEF claimed
    <2> QED
      BY <1>1, <2>1, <2>2, OnAssetsClaimedRecords
  <1> QED
    BY <1>2, <1>3

\* claim hands out at once.
LEMMA ClaimBooks ==
    ASSUME Inv, Recorded, NEW pk, NEW fc_args, NEW lost, Claim(pk, fc_args, lost)
    PROVE  BooksKept
  <1> DEFINE t == token_id_by_pk[pk]
             keys == keys_after_claim(pk)
             use == get_key_cur_use(drop_by_id[parse_token_id(t)], key_info_by_token_id[t])
             claimed == assets_of_last_use(t, keys, fc_args)
  <1>1. /\ pk \in DOMAIN token_id_by_pk
        /\ internal_claim_assets_defined(t, keys, claimed)
        /\ internal_claim_assets(t, keys, claimed, << >>, lost)
        /\ IF is_awaited(claimed) THEN Fire(ClaimReceipt(t, use, claimed)) ELSE UNCHANGED receipts
    BY DEF Claim, claim_of, claim_conditions
  <1>2. parse_token_id(t) \in DOMAIN drop_by_id
    BY <1>1 DEF Inv, Current, Registry, Linked, Housed
  <1> HIDE DEF t, keys, use
  <1>3. is_awaited(claimed) => Promises(ClaimReceipt(t, use, claimed))
    BY <1>1, <1>2, HandOutTyped
  <1>4. DropsBecome /\ NewDropsEquipped
    BY <1>1, <1>2, ClaimedRecords
  <1> HIDE DEF claimed
  <1> QED
    BY <1>1, <1>3, <1>4, OneComes, NoneComes DEF BooksKept

\* A callback finds its drop.
LEMMA FoundDrop ==
    ASSUME NEW r, callback_finds_key(r)
    PROVE  parse_token_id(receipts[r].token_id) \in DOMAIN drop_by_id
  BY DEF callback_finds_key

\* The callbacks of a claim hand out, give back or clean up.
LEMMA CallbackBooks ==
    ASSUME Inv, Recorded, SomeClaimCallback
    PROVE  BooksKept
  <1>1. ASSUME NEW r, NEW lost, OnNewAccountCreated(r, lost)
        PROVE  BooksKept
    <2> DEFINE t == receipts[r].token_id
               keys == key_info_by_token_id
               claimed == assets_of_last_use(t, keys, receipts[r].fc_args)
               receipt == ClaimReceipt(t, receipts[r].use, claimed)
    <2>1. /\ r \in DOMAIN receipts /\ parse_token_id(t) \in DOMAIN drop_by_id
          /\ internal_claim_assets_defined(t, keys, claimed)
          /\ internal_claim_assets(t, keys, claimed, <<TRUE>>, lost)
          /\ receipts' = IF is_awaited(claimed) THEN [receipts EXCEPT ![r] = receipt]
                         ELSE Without(receipts, {r})
      BY <1>1, FoundDrop DEF OnNewAccountCreated, hand_out, assets_for, claim_in_flight
    <2>2. is_awaited(claimed) => Promises(receipt)
      BY <2>1, HandOutTyped
    <2>3. DropsBecome /\ NewDropsEquipped
      BY <2>1, ClaimedRecords
    <2> HIDE DEF receipt, claimed
    <2>4. PromisesCome
      BY <2>1, <2>2 DEF PromisesCome, Without, Restrict
    <2> QED
      BY <2>3, <2>4 DEF BooksKept
  <1>2. ASSUME NEW r, OnAccountCreationFailed(r)
        PROVE  BooksKept
    <2> DEFINE t == receipts[r].token_id
               d == parse_token_id(t)
    <2>1. /\ d \in DOMAIN drop_by_id /\ Resolve(r)
          /\ \E withdrawn, refund : handle_key_cleanup(t, key_info_by_token_id, asset_by_id[d],
                                                       withdrawn, refund, 0)
      BY <1>2, FoundDrop, Zenon DEF OnAccountCreationFailed
    <2>2. Becomes(asset_by_id[d], asset_by_id[d])
      BY <2>1, SameBecomes, DropRecords
    <2> QED
      BY <2>1, <2>2, CleanupRecords, NoneComesResolved DEF BooksKept
  <1>3. ASSUME NEW r, NEW lost, OnAssetsClaimed(r, lost)
        PROVE  BooksKept
    <2> DEFINE t == receipts[r].token_id
               d == parse_token_id(t)
               keys == key_info_by_token_id
               token_ids == receipts[r].token_ids
               succeeded == ~has_failed(receipts[r].promise, lost)
    <2>1. /\ r \in DOMAIN receipts /\ receipts[r].kind = "claim" /\ Resolve(r)
          /\ IF on_assets_claimed_defined(t, token_ids, succeeded)
             THEN on_assets_claimed(t, keys, asset_by_id[d], token_ids, <<succeeded>>)
             ELSE UNCHANGED <<drop_by_id, asset_by_id>>
      BY <1>3 DEF OnAssetsClaimed, claim_in_flight
    <2> HIDE DEF succeeded
    <2>2. CASE on_assets_claimed_defined(t, token_ids, succeeded)
      <3> DEFINE metadata == last_use_data(drop_by_id[d], keys[t]).assets_metadata
      <3>1. /\ d \in DOMAIN drop_by_id /\ metadata # << >>
            /\ ~succeeded /\ asset_by_id[d][metadata[1].asset_id].type = "nft" => token_ids[1] # None
        BY <2>2 DEF on_assets_claimed_defined
      <3>2. Becomes(asset_by_id[d], asset_by_id[d])
        BY <3>1, SameBecomes, DropRecords
      <3>3. token_ids[1] \in TokenOptions
        <4>1. token_ids \in Seq(TokenOptions) /\ token_ids # << >>
          BY <2>1 DEF Recorded, ReceiptTyped
        <4> HIDE DEF token_ids
        <4>2. 1 \in DOMAIN token_ids /\ \A i \in DOMAIN token_ids : token_ids[i] \in TokenOptions
          BY <4>1, LenProperties, EmptySeq
        <4> QED
          BY <4>2
      <3>4. <<succeeded>> \in {<<TRUE>>, <<FALSE>>} /\ (<<succeeded>> = <<FALSE>> => ~succeeded)
        BY DEF succeeded
      <3>5. on_assets_claimed(t, keys, asset_by_id[d], token_ids, <<succeeded>>)
        BY <2>1, <2>2
      <3> HIDE DEF t, keys, token_ids
      <3> QED
        BY <2>1, <3>1, <3>2, <3>3, <3>4, <3>5, OnAssetsClaimedRecords, NoneComesResolved DEF BooksKept
    <2>3. CASE UNCHANGED <<drop_by_id, asset_by_id>>
      BY <2>1, <2>3, QuietRecords, NoneComesResolved DEF BooksKept
    <2> QED
      BY <2>1, <2>2, <2>3
  <1> QED
    BY <1>1, <1>2, <1>3 DEF SomeClaimCallback

-----------------------------------------------------------------------------
(* The other calls.                                                        *)

\* The calls of a drop's funder bring drops that are equipped, or take drops away.
LEMMA DropCallBooks ==
    ASSUME Inv, Recorded, SomeDropCreated \/ SomeKeysAdded \/ SomeKeysDeleted \/ SomeBatchCreated
    PROVE  BooksKept
  <1>1. ASSUME NEW caller, NEW d, NEW shape \in Shapes, NEW key_data, NEW deposit, NEW keep,
               CreateDrop(caller, d, shape, key_data, deposit, keep)
        PROVE  BooksKept
    <2> DEFINE drop == NewDropOf(caller, shape, Len(key_data))
    <2>1. /\ d \notin DOMAIN drop_by_id /\ UNCHANGED receipts
          /\ drop_by_id' = With(drop_by_id, d, drop)
          /\ asset_by_id' = With(asset_by_id, d, store_assets_by_id(shape.asset_data))
      BY <1>1 DEF CreateDrop
    <2>2. drop.asset_data_for_uses = asset_data_for_uses(shape)
      BY DEF NewDropOf
    <2> HIDE DEF drop
    <2>3. /\ drop_by_id'[d] = drop /\ asset_by_id'[d] = store_assets_by_id(shape.asset_data)
          /\ \A e \in DOMAIN drop_by_id' : e = d \/ e \in DOMAIN drop_by_id
          /\ \A e \in DOMAIN drop_by_id : drop_by_id'[e] = drop_by_id[e] /\ asset_by_id'[e] = asset_by_id[e]
      BY <2>1 DEF With, Inv
    <2>4. NewDropsEquipped
      BY <2>2, <2>3, NewDropEquipped DEF NewDropsEquipped
    <2>5. DropsBecome
      BY <2>3, SameBecomes, DropRecords DEF DropsBecome
    <2> QED
      BY <2>1, <2>4, <2>5, NoneComes DEF BooksKept
  <1>2. ASSUME NEW caller, NEW d, NEW key_data, NEW deposit, NEW keep,
               AddKeys(caller, d, key_data, deposit, keep)
        PROVE  BooksKept
    <2>1. /\ d \in DOMAIN drop_by_id /\ UNCHANGED <<asset_by_id, receipts>>
          /\ \E n : drop_by_id' = [drop_by_id EXCEPT ![d].next_key_id = n]
      BY <1>2, Zenon DEF AddKeys
    <2>2. \A e \in DOMAIN drop_by_id : drop_by_id[e] \in Drop
      BY DEF Inv, Current, Registry, Typed, IsMap
    <2>3. \A e \in DOMAIN drop_by_id' :
             /\ e \in DOMAIN drop_by_id
             /\ drop_by_id'[e].asset_data_for_uses = drop_by_id[e].asset_data_for_uses
      BY <2>1, <2>2 DEF Drop
    <2> QED
      BY <2>1, <2>3, QuietRecords, NoneComes DEF BooksKept
  <1>3. ASSUME NEW caller, NEW d, NEW pks, NEW keep_empty_drop, DeleteKeys(caller, d, pks, keep_empty_drop)
        PROVE  BooksKept
    <2>1. /\ UNCHANGED receipts
          /\ \/ drop_by_id' = Without(drop_by_id, {d}) /\ asset_by_id' = Without(asset_by_id, {d})
             \/ UNCHANGED <<drop_by_id, asset_by_id>>
      BY <1>3 DEF DeleteKeys
    <2>2. \A e \in DOMAIN drop_by_id' :
             /\ e \in DOMAIN drop_by_id /\ drop_by_id'[e] = drop_by_id[e]
             /\ asset_by_id'[e] = asset_by_id[e]
      BY <2>1 DEF Without, Restrict, Inv
    <2> QED
      BY <2>1, <2>2, QuietRecords, NoneComes DEF BooksKept
  <1>4. ASSUME NEW caller, NEW batch \in Batches, NEW deposit, NEW keep, NEW metadata, NEW on_success,
               NEW call_fails,
               CreateDropBatch(caller, batch, deposit, keep, metadata, on_success, call_fails)
        PROVE  BooksKept
    <2> DEFINE ids == {batch[i].drop_id : i \in DOMAIN batch}
               shape == [d \in ids |-> batch[CHOOSE i \in DOMAIN batch : batch[i].drop_id = d].shape]
    <2>1. /\ ids \cap DOMAIN drop_by_id = {} /\ UNCHANGED receipts
          /\ drop_by_id' = [d \in DOMAIN drop_by_id \cup ids |->
                               IF d \in ids THEN NewDropOf(caller, shape[d], 0) ELSE drop_by_id[d]]
          /\ asset_by_id' = [d \in DOMAIN asset_by_id \cup ids |->
                                IF d \in ids THEN store_assets_by_id(shape[d].asset_data)
                                             ELSE asset_by_id[d]]
      BY <1>4 DEF CreateDropBatch
    <2>2. \A d \in ids : shape[d] \in Shapes
      BY BatchEntries
    <2> HIDE DEF ids, shape
    <2>3. \A d \in ids : NewDropOf(caller, shape[d], 0).asset_data_for_uses = asset_data_for_uses(shape[d])
      BY DEF NewDropOf
    <2>4. /\ \A d \in ids : /\ drop_by_id'[d] = NewDropOf(caller, shape[d], 0)
                            /\ asset_by_id'[d] = store_assets_by_id(shape[d].asset_data)
          /\ \A d \in DOMAIN drop_by_id' : d \in ids \/ d \in DOMAIN drop_by_id
          /\ \A d \in DOMAIN drop_by_id : drop_by_id'[d] = drop_by_id[d] /\ asset_by_id'[d] = asset_by_id[d]
      BY <2>1 DEF Inv
    <2>5. NewDropsEquipped
      BY <2>2, <2>3, <2>4, NewDropEquipped DEF NewDropsEquipped
    <2>6. DropsBecome
      BY <2>4, SameBecomes, DropRecords DEF DropsBecome
    <2> QED
      BY <2>1, <2>5, <2>6, NoneComes DEF BooksKept
  <1> QED
    BY <1>1, <1>2, <1>3, <1>4 DEF SomeDropCreated, SomeKeysAdded, SomeKeysDeleted, SomeBatchCreated

\* Transfers, approvals, settings and balances write no record, and claim nothing.
LEMMA OtherCallBooks ==
    ASSUME Inv, Recorded,
           \/ SomeTransfer \/ SomeApproval \/ SomeAccountClaim \/ SettingsStep \/ BalanceStep \/ Tick
           \/ UNCHANGED vars \/ \E r : OnNewAccountCreatedPanics(r)
    PROVE  BooksKept
  <1>1. UNCHANGED <<drop_by_id, asset_by_id>> => DropsBecome /\ NewDropsEquipped
    BY QuietRecords
  <1>2. CASE SomeTransfer
    <2>1. UNCHANGED <<drop_by_id, asset_by_id, receipts>>
      BY <1>2 DEF SomeTransfer, internal_transfer
    <2> QED
      BY <1>1, <2>1, NoneComes DEF BooksKept
  <1>3. CASE SomeApproval
    <2>1. UNCHANGED <<drop_by_id, asset_by_id, receipts>>
      BY <1>3 DEF SomeApproval, NftApprove
    <2> QED
      BY <1>1, <2>1, NoneComes DEF BooksKept
  <1>4. ASSUME NEW pk, NEW fc_args, CreateAccountAndClaim(pk, fc_args)
        PROVE  BooksKept
    <2>1. UNCHANGED <<drop_by_id, asset_by_id>>
      BY <1>4 DEF CreateAccountAndClaim
    <2>2. \E t, use, root :
              Fire([kind |-> "create_account", token_id |-> t, use |-> use, fc_args |-> fc_args,
                    root |-> root])
      BY <1>4, Zenon DEF CreateAccountAndClaim
    <2>3. PromisesCome
      BY <2>2, OneComes, OtherPromises
    <2> QED
      BY <1>1, <2>1, <2>3 DEF BooksKept
  <1>5. CASE SettingsStep \/ Tick
    <2>1. UNCHANGED <<drop_by_id, asset_by_id, receipts>>
      BY <1>5 DEF SettingsStep, Tick, FreezeContract, UnfreezeContract, SetRootAccount, SetFees,
                  SetFeesPerUser, AddSigningAdmin, AddSigningPks, RemoveSigningPks,
                  besides_signing, besides_settings, registry
    <2> QED
      BY <1>1, <2>1, NoneComes DEF BooksKept
  <1>6. CASE BalanceStep
    <2>1. UNCHANGED <<drop_by_id, asset_by_id>>
      BY <1>6 DEF BalanceStep, AddToBalance, WithdrawFromBalance, SetFunderMetadata, WithdrawFees,
                  OnWithdrawFees, registry
    <2>2. PromisesCome
      <3>1. CASE WithdrawFees
        <4>1. Fire(FeeReceipt(fees_collected)) /\ FeeReceipt(fees_collected).kind = "withdraw_fees"
          BY <3>1 DEF WithdrawFees, FeeReceipt
        <4> QED
          BY <4>1, OneComes, OtherPromises
      <3>2. ASSUME NEW r, NEW succeeded, OnWithdrawFees(r, succeeded) PROVE PromisesCome
        BY <3>2, NoneComesResolved DEF OnWithdrawFees
      <3> QED
        BY <1>6, <3>1, <3>2, NoneComes
           DEF BalanceStep, AddToBalance, WithdrawFromBalance, SetFunderMetadata
    <2> QED
      BY <1>1, <2>1, <2>2 DEF BooksKept
  <1>7. CASE UNCHANGED vars
    BY <1>1, <1>7, NoneComes DEF vars, registry, BooksKept
  <1>8. ASSUME NEW r, OnNewAccountCreatedPanics(r) PROVE BooksKept
    <2>1. UNCHANGED <<drop_by_id, asset_by_id>> /\ Resolve(r)
      BY <1>8 DEF OnNewAccountCreatedPanics, CallbackPanics, registry
    <2> QED
      BY <1>1, <2>1, NoneComesResolved DEF BooksKept
  <1> QED
    BY <1>2, <1>3, <1>4, <1>5, <1>6, <1>7, <1>8 DEF SomeAccountClaim

-----------------------------------------------------------------------------
(* The tokens that come and go.                                            *)

\* The tokens that stay in a vector, in their order, are some of it.
LEMMA OnlyTyped ==
    ASSUME NEW S, NEW tokens, NEW ids \in Seq(S)
    PROVE  only(tokens, ids) \in Seq(S)
  <1> DEFINE A == Seq(S)
             op(kept, token) == IF token \in tokens THEN Append(kept, token) ELSE kept
             step == [x \in A \X S |-> op(x[1], x[2])]
             folds(f) == f = [V \in SUBSET DOMAIN ids |->
                                 IF V = {} THEN << >>
                                 ELSE LET i == Max(V) IN op(f[V \ {i}], ids[i])]
             fold == CHOOSE f : folds(f)
  <1>1. only(tokens, ids) = fold[DOMAIN ids]
    BY DEF only, FoldLeft, MapThenFoldSet
  <1>2. DOMAIN ids = 1 .. Len(ids) /\ Len(ids) \in Nat /\ \A i \in DOMAIN ids : ids[i] \in S
    OBVIOUS
  <1>3. << >> \in A /\ step \in [A \X S -> A] /\ \A a \in A, x \in S : step[<<a, x>>] = op(a, x)
    <2>1. ASSUME NEW a \in A, NEW x \in S PROVE op(a, x) \in A
      OBVIOUS
    <2>2. << >> \in A
      OBVIOUS
    <2> HIDE DEF A, op
    <2> QED
      BY <2>1, <2>2
  <1> HIDE DEF A, op, step
  <1>4. \E f : folds(f)
    <2>1. PICK f \in [SUBSET DOMAIN ids -> A] : Folds(f, step, << >>, ids)
      BY <1>2, <1>3, FoldExists
    <2>2. ASSUME NEW V \in SUBSET DOMAIN ids, V # {}
          PROVE  step[<<f[V \ {Max(V)}], ids[Max(V)]>>] = op(f[V \ {Max(V)}], ids[Max(V)])
      <3>1. Max(V) \in DOMAIN ids
        BY <1>2, <2>2, MaxOfSome
      <3>2. f[V \ {Max(V)}] \in A /\ ids[Max(V)] \in S
        BY <1>2, <2>1, <2>2, <3>1
      <3> QED
        BY <1>3, <3>2
    <2>3. folds(f)
      BY <2>1, <2>2 DEF Folds
    <2> QED
      BY <2>3
  <1>5. folds(fold)
    BY <1>4
  <1> HIDE DEF fold
  <1>6. FoldsWithin(A, fold, step, << >>, ids)
    <2>1. ASSUME NEW V \in SUBSET DOMAIN ids, V # {}, fold[V \ {Max(V)}] \in A
          PROVE  fold[V] = step[<<fold[V \ {Max(V)}], ids[Max(V)]>>]
      <3>1. ids[Max(V)] \in S
        BY <1>2, <2>1, MaxOfSome
      <3> QED
        BY <1>3, <1>5, <2>1, <3>1
    <2>2. fold[{}] = << >>
      BY <1>5
    <2> QED
      BY <2>1, <2>2 DEF FoldsWithin
  <1>7. \A k \in 0 .. Len(ids) : fold[1 .. k] \in A
    BY <1>2, <1>3, <1>6, FoldStays
  <1> QED
    BY <1>1, <1>2, <1>7 DEF A

\* The elements of a vector are finitely many.
LEMMA TokensFinite == ASSUME NEW S, NEW ids \in Seq(S) PROVE IsFiniteSet(ToSet(ids))
  <1>1. /\ Len(ids) \in Nat /\ DOMAIN ids = 1 .. Len(ids)
        /\ IsFiniteSet(1 .. Len(ids))
    BY FS_Interval
  <1>2. ids \in Surjection(1 .. Len(ids), ToSet(ids))
    BY <1>1 DEF ToSet, Surjection
  <1> QED
    BY <1>1, <1>2, FS_Surjection DEF ExistsSurjection

\* The records of a drop with one that is written.
LEMMA TokenWritten ==
    ASSUME Inv, Recorded, NEW d, NEW id, has_asset(d, id), UNCHANGED drop_by_id,
           NEW asset, asset_by_id' = [asset_by_id EXCEPT ![d][id] = asset],
           asset \in Likes(asset_by_id[d][id])
    PROVE  DropsBecome /\ NewDropsEquipped
  <1>1. d \in DOMAIN drop_by_id /\ id \in DOMAIN asset_by_id[d]
    BY DEF has_asset, Inv
  <1>2. asset_by_id' = [asset_by_id EXCEPT ![d] = [asset_by_id[d] EXCEPT ![id] = asset]]
    OBVIOUS
  <1>3. Becomes([asset_by_id[d] EXCEPT ![id] = asset], asset_by_id[d])
    BY <1>1, OneBecomes, DropRecords
  <1> QED
    BY <1>1, <1>2, <1>3, RecordsWritten

\* What may be written: another balance or other tokens.
LEMMA TokenRecord ==
    ASSUME Inv, Recorded, NEW d, NEW id, has_asset(d, id)
    PROVE  LET asset == asset_by_id[d][id]
           IN  /\ AssetTyped(asset) /\ asset \in Likes(asset)
               /\ \A n \in Nat : [asset EXCEPT !.balance_avail = n] \in Likes(asset)
               /\ \A ids \in Seq(NftTokens) : [asset EXCEPT !.token_ids = ids] \in Likes(asset)
  <1> DEFINE asset == asset_by_id[d][id]
  <1>1. d \in DOMAIN drop_by_id /\ id \in DOMAIN asset_by_id[d]
    BY DEF has_asset, Inv
  <1>2. AssetTyped(asset)
    BY <1>1, DropRecords DEF RecordsTyped
  <1> HIDE DEF asset
  <1>3. asset \in Likes(asset)
    BY <1>2, LikeTyped
  <1>4. /\ asset = [type |-> asset.type, contract |-> asset.contract, cost |-> asset.cost,
                    methods |-> asset.methods, balance_avail |-> asset.balance_avail,
                    token_ids |-> asset.token_ids]
        /\ asset.balance_avail \in Nat /\ asset.token_ids \in Seq(NftTokens)
    BY <1>2 DEF AssetTyped, AssetTypeOK
  <1>5. ASSUME NEW n \in Nat PROVE [asset EXCEPT !.balance_avail = n] \in Likes(asset)
    BY <1>4 DEF Likes
  <1>6. ASSUME NEW ids \in Seq(NftTokens) PROVE [asset EXCEPT !.token_ids = ids] \in Likes(asset)
    BY <1>4 DEF Likes
  <1> QED
    BY <1>2, <1>3, <1>5, <1>6 DEF asset

\* FTs that come, are withdrawn, or come back.
LEMMA FtBooks ==
    ASSUME Inv, Recorded,
           \/ \E c, d : \E amount \in FtAmounts : FtOnTransfer(c, amount, d)
           \/ \E caller, d, c : \E amount \in FtAmounts : WithdrawFtBalance(caller, d, c, amount)
           \/ \E r, succeeded : FtResolveRefund(r, succeeded)
    PROVE  BooksKept
  <1>1. ASSUME NEW c, NEW d, NEW amount \in FtAmounts, FtOnTransfer(c, amount, d)
        PROVE  BooksKept
    <2> DEFINE id == contract_asset_id(c)
               asset == asset_by_id[d][id]
               new == IF asset.type = "ft" THEN add_to_balance_avail(asset, amount) ELSE asset
    <2>1. /\ has_asset(d, id) /\ asset_by_id' = [asset_by_id EXCEPT ![d][id] = new]
          /\ UNCHANGED <<drop_by_id, receipts>>
      BY <1>1 DEF FtOnTransfer, registry
    <2>2. amount \in Nat
      BY FtAssumption
    <2>3. asset.balance_avail + amount \in Nat
      <3>1. AssetTyped(asset)
        BY <2>1, TokenRecord
      <3> HIDE DEF asset
      <3> QED
        BY <2>2, <3>1 DEF AssetTyped, AssetTypeOK
    <2> HIDE DEF id
    <2>4. new \in Likes(asset)
      <3>1. new = asset \/ new = [asset EXCEPT !.balance_avail = asset.balance_avail + amount]
        BY DEF add_to_balance_avail
      <3> HIDE DEF new
      <3> QED
        BY <2>1, <2>3, <3>1, TokenRecord
    <2> HIDE DEF new
    <2> QED
      BY <2>1, <2>4, TokenWritten, NoneComes DEF BooksKept
  <1>2. ASSUME NEW caller, NEW d, NEW c, NEW amount \in FtAmounts, WithdrawFtBalance(caller, d, c, amount)
        PROVE  BooksKept
    <2> DEFINE id == contract_asset_id(c)
               asset == asset_by_id[d][id]
               promise == Promise(asset, amount, NoToken, from_near(1))
    <2>1. /\ has_asset(d, id) /\ enough_balance(asset, amount)
          /\ asset_by_id' = [asset_by_id EXCEPT ![d][id] = ft_refund(asset, amount)]
          /\ Fire([kind |-> "ft_refund", drop_id |-> d, promise |-> promise])
          /\ UNCHANGED drop_by_id
      BY <1>2 DEF WithdrawFtBalance, registry
    <2>2. amount \in Nat /\ from_near(1) \in Nat
      BY FtAssumption, AmountsAssumption DEF from_near
    <2>3. asset.balance_avail - amount \in Nat /\ asset.type \in AssetTypes
      <3>1. AssetTyped(asset) /\ enough_balance(asset, amount)
        BY <2>1, TokenRecord
      <3> HIDE DEF asset
      <3> QED
        BY <2>2, <3>1 DEF AssetTyped, AssetTypeOK, enough_balance
    <2> HIDE DEF id
    <2>4. ft_refund(asset, amount) \in Likes(asset)
      BY <2>1, <2>3, TokenRecord DEF ft_refund
    <2>5. PromiseTyped(promise)
      BY <2>2, <2>3 DEF PromiseTyped, Promise
    <2> HIDE DEF promise, asset
    <2>6. Promises([kind |-> "ft_refund", drop_id |-> d, promise |-> promise])
      BY <2>5 DEF Promises, ReceiptTyped
    <2> QED
      BY <2>1, <2>4, <2>6, TokenWritten, OneComes DEF BooksKept, asset
  <1>3. ASSUME NEW r, NEW succeeded, FtResolveRefund(r, succeeded)
        PROVE  BooksKept
    <2> DEFINE d == receipts[r].drop_id
               promise == receipts[r].promise
               id == contract_asset_id(promise.contract)
               asset == asset_by_id[d][id]
    <2>1. /\ r \in DOMAIN receipts /\ receipts[r].kind = "ft_refund" /\ Resolve(r)
          /\ UNCHANGED drop_by_id
          /\ \/ /\ has_asset(d, id)
                /\ asset_by_id' = [asset_by_id EXCEPT ![d][id] = add_to_balance_avail(asset, promise.amount)]
             \/ UNCHANGED asset_by_id
      BY <1>3 DEF FtResolveRefund, registry
    <2>2. promise.amount \in Nat
      BY <2>1 DEF Recorded, ReceiptTyped, PromiseTyped
    <2> HIDE DEF d, promise, id
    <2>3. CASE /\ has_asset(d, id)
               /\ asset_by_id' = [asset_by_id EXCEPT ![d][id] = add_to_balance_avail(asset, promise.amount)]
      <3>1. asset.balance_avail + promise.amount \in Nat
        <4>1. AssetTyped(asset)
          BY <2>3, TokenRecord
        <4> HIDE DEF asset
        <4> QED
          BY <2>2, <4>1 DEF AssetTyped, AssetTypeOK
      <3>2. add_to_balance_avail(asset, promise.amount) \in Likes(asset)
        BY <2>3, <3>1, TokenRecord DEF add_to_balance_avail
      <3> QED
        BY <2>1, <2>3, <3>2, TokenWritten, NoneComesResolved DEF BooksKept
    <2>4. CASE UNCHANGED asset_by_id
      BY <2>1, <2>4, QuietRecords, NoneComesResolved DEF BooksKept
    <2> QED
      BY <2>1, <2>3, <2>4
  <1> QED
    BY <1>1, <1>2, <1>3

\* NFTs that come, are withdrawn, or come back.
LEMMA NftBooks ==
    ASSUME Inv, Recorded,
           \/ \E c, sender, d : \E token \in NftTokens : NftOnTransfer(c, token, sender, d)
           \/ \E caller, d, c, tokens : WithdrawNftTokens(caller, d, c, tokens)
           \/ \E r, succeeded : ResolveNftRefund(r, succeeded)
    PROVE  BooksKept
  <1>1. ASSUME NEW c, NEW sender, NEW d, NEW token \in NftTokens, NftOnTransfer(c, token, sender, d)
        PROVE  BooksKept
    <2> DEFINE id == contract_asset_id(c)
               asset == asset_by_id[d][id]
               new == add_to_token_ids(asset, <<token>>)
    <2>1. /\ has_asset(d, id) /\ UNCHANGED <<drop_by_id, receipts>>
          /\ asset_by_id' = [asset_by_id EXCEPT ![d][id] = new] \/ UNCHANGED asset_by_id
      BY <1>1 DEF NftOnTransfer, registry
    <2> HIDE DEF id
    <2>2. asset.token_ids \o <<token>> \in Seq(NftTokens)
      <3>1. AssetTyped(asset)
        BY <2>1, TokenRecord
      <3> HIDE DEF asset
      <3> QED
        BY <3>1 DEF AssetTyped, AssetTypeOK
    <2>3. new \in Likes(asset)
      BY <2>1, <2>2, TokenRecord DEF add_to_token_ids
    <2> HIDE DEF new
    <2>4. asset_by_id' = [asset_by_id EXCEPT ![d][id] = new] => DropsBecome /\ NewDropsEquipped
      BY <2>1, <2>3, TokenWritten
    <2> QED
      BY <2>1, <2>4, QuietRecords, NoneComes DEF BooksKept
  <1>2. ASSUME NEW caller, NEW d, NEW c, NEW tokens, WithdrawNftTokens(caller, d, c, tokens)
        PROVE  BooksKept
    <2> DEFINE id == contract_asset_id(c)
               asset == asset_by_id[d][id]
               taken == only(tokens, asset.token_ids)
               released == NftBytes * Cardinality(tokens)
    <2>1. /\ has_asset(d, id) /\ tokens \subseteq ToSet(asset.token_ids)
          /\ asset_by_id' = [asset_by_id EXCEPT ![d][id] = nft_refund(asset, tokens)]
          /\ Fire([kind |-> "nft_refund", drop_id |-> d, contract |-> c,
                   token_ids |-> taken, storage_released |-> released])
          /\ UNCHANGED drop_by_id
      BY <1>2 DEF WithdrawNftTokens, registry
    <2> HIDE DEF id
    <2>2. asset.token_ids \in Seq(NftTokens)
      <3>1. AssetTyped(asset)
        BY <2>1, TokenRecord
      <3> HIDE DEF asset
      <3> QED
        BY <3>1 DEF AssetTyped, AssetTypeOK
    <2>3. nft_refund(asset, tokens) \in Likes(asset)
      BY <2>1, <2>2, TokenRecord, OnlyTyped DEF nft_refund
    <2>4. taken \in Seq(NftTokens)
      BY <2>2, OnlyTyped
    <2>5. released \in Nat
      <3>1. IsFiniteSet(ToSet(asset.token_ids))
        BY <2>2, TokensFinite
      <3>2. Cardinality(tokens) \in Nat
        BY <2>1, <3>1, FS_Subset, FS_CardinalityType
      <3> HIDE DEF asset
      <3> QED
        BY <3>2, StorageAssumption
    <2> HIDE DEF taken, released, asset
    <2>6. Promises([kind |-> "nft_refund", drop_id |-> d, contract |-> c,
                    token_ids |-> taken, storage_released |-> released])
      BY <2>4, <2>5 DEF Promises, ReceiptTyped
    <2> QED
      BY <2>1, <2>3, <2>6, TokenWritten, OneComes DEF BooksKept, asset
  <1>3. ASSUME NEW r, NEW succeeded, ResolveNftRefund(r, succeeded)
        PROVE  BooksKept
    <2> DEFINE d == receipts[r].drop_id
               ids == receipts[r].token_ids
               id == contract_asset_id(receipts[r].contract)
               asset == asset_by_id[d][id]
               put_back == ~succeeded /\ asset.type = "nft"
               new == IF put_back THEN add_to_token_ids(asset, ids) ELSE asset
    <2>1. /\ r \in DOMAIN receipts /\ receipts[r].kind = "nft_refund" /\ Resolve(r)
          /\ UNCHANGED drop_by_id
          /\ \/ has_asset(d, id) /\ asset_by_id' = [asset_by_id EXCEPT ![d][id] = new]
             \/ UNCHANGED asset_by_id
      BY <1>3 DEF ResolveNftRefund, registry
    <2>2. ids \in Seq(NftTokens)
      BY <2>1 DEF Recorded, ReceiptTyped
    <2> HIDE DEF d, ids, id, put_back
    <2>3. CASE has_asset(d, id) /\ asset_by_id' = [asset_by_id EXCEPT ![d][id] = new]
      <3>1. asset.token_ids \o ids \in Seq(NftTokens)
        <4>1. AssetTyped(asset)
          BY <2>3, TokenRecord
        <4> HIDE DEF asset
        <4> QED
          BY <2>2, <4>1 DEF AssetTyped, AssetTypeOK
      <3>2. new \in Likes(asset)
        BY <2>3, <3>1, TokenRecord DEF add_to_token_ids
      <3> HIDE DEF new
      <3> QED
        BY <2>1, <2>3, <3>2, TokenWritten, NoneComesResolved DEF BooksKept
    <2>4. CASE UNCHANGED asset_by_id
      BY <2>1, <2>4, QuietRecords, NoneComesResolved DEF BooksKept
    <2> QED
      BY <2>1, <2>3, <2>4
  <1> QED
    BY <1>1, <1>2, <1>3

\* Every step keeps the books: one case for each kind of operation.
LEMMA StepBooks == Inv /\ Recorded /\ [Next]_vars => BooksKept
  <1> SUFFICES ASSUME Inv, Recorded, [Next]_vars PROVE BooksKept
    OBVIOUS
  <1>1. CASE TokensMoved
    BY <1>1, FtBooks, NftBooks DEF TokensMoved
  <1>2. CASE SomeClaim
    BY <1>2, ClaimBooks DEF SomeClaim
  <1> QED
    BY <1>1, <1>2, StepsByKind, CallbackBooks, DropCallBooks, OtherCallBooks DEF RegistryStep

\* What becomes of a drop that is equipped is equipped.
LEMMA EquippedStays ==
    ASSUME NEW data, NEW old, EquippedWith(data, old), NEW new, Becomes(new, old)
    PROVE  EquippedWith(data, new)
  <1>1. RecordsTyped(new) /\ DOMAIN new = DOMAIN old
    BY BecomesTyped DEF EquippedWith, Becomes
  <1> QED
    BY <1>1 DEF EquippedWith, UseEquipped

\* So the books are in order at all times.
LEMMA RecordedStep == Recorded /\ BooksKept => Recorded'
  <1> SUFFICES ASSUME Recorded, BooksKept PROVE Recorded'
    OBVIOUS
  <1>1. ASSUME NEW d \in DOMAIN drop_by_id'
        PROVE  EquippedWith(drop_by_id'[d].asset_data_for_uses, asset_by_id'[d])
    <2>1. CASE d \in DOMAIN drop_by_id
      BY <2>1, EquippedStays DEF Recorded, Equipped, BooksKept, DropsBecome
    <2>2. CASE d \notin DOMAIN drop_by_id
      BY <2>2 DEF BooksKept, NewDropsEquipped
    <2> QED
      BY <2>1, <2>2
  <1>2. \A r \in DOMAIN receipts' : ReceiptTyped(receipts'[r])
    BY DEF Recorded, BooksKept, PromisesCome, Promises
  <1> QED
    BY <1>1, <1>2 DEF Recorded, Equipped

\* Nothing is on record at first.
LEMMA InitRecorded == Init => Recorded
  BY DEF Init, Recorded, Equipped, EmptyMap

\* At all times the assets on record of a drop are the assets of a shape a
\* funder may choose, with amounts and token IDs of their types, every use of the
\* drop finds its assets there, and the promises in flight carry what the
\* callbacks read of them: no claim or callback meets a missing or ill-typed
\* asset.
THEOREM RecordedAlways == Spec => []Recorded
  BY InitRecorded, StepBooks, RecordedStep, InvAlways, PTL DEF Spec

-----------------------------------------------------------------------------
(* Calls in flight.                                                        *)

drop_of(receipt) == parse_token_id(receipt.token_id)

\* The calls in flight are of the drop they were claimed from, as it is now.
CallsPromised ==
    \A r \in DOMAIN receipts : receipts[r].kind = "claim" =>
        PromiseOf(receipts[r].promise, asset_by_id[drop_of(receipts[r])])

\* The drop of a claim in flight is there.
DropsOfClaims ==
    \A r \in DOMAIN receipts : receipts[r].kind = "claim" => drop_of(receipts[r]) \in DOMAIN drop_by_id

\* With one use per key the drop of a claim outlives it.
LEMMA DropOfClaim == Inv /\ Held => DropsOfClaims
  BY DEF Inv, Current, Registry, Housed, Held, claims, is_claim, drop_of, DropsOfClaims

\* What is promised of a drop is promised of what becomes of it.
LEMMA PromiseStays ==
    ASSUME NEW p, NEW old, PromiseOf(p, old), NEW new, Becomes(new, old)
    PROVE  PromiseOf(p, new)
  <1>1. DOMAIN new = DOMAIN old /\ \A a \in DOMAIN old : new[a].methods = old[a].methods
    BY DEF Becomes, Likes
  <1> QED
    BY <1>1 DEF PromiseOf

\* A step leaves the drop of a call in flight alike, or has just made the call.
LEMMA CallsPromisedStep ==
    DropsOfClaims /\ DropsOfClaims' /\ BooksKept /\ CallsPromised => CallsPromised'
  <1> SUFFICES ASSUME DropsOfClaims, DropsOfClaims', BooksKept, CallsPromised,
                      NEW r \in DOMAIN receipts', receipts'[r].kind = "claim"
               PROVE  PromiseOf(receipts'[r].promise, asset_by_id'[drop_of(receipts'[r])])
    BY DEF CallsPromised
  <1> DEFINE d == drop_of(receipts'[r])
  <1>1. d \in DOMAIN drop_by_id'
    BY DEF DropsOfClaims, drop_of
  <1>2. d \in DOMAIN drop_by_id /\ PromiseOf(receipts'[r].promise, asset_by_id[d])
    <2>1. CASE r \in DOMAIN receipts /\ receipts'[r] = receipts[r]
      BY <2>1 DEF CallsPromised, DropsOfClaims
    <2>2. CASE Promises(receipts'[r])
      BY <2>2 DEF Promises, drop_of
    <2> QED
      BY <2>1, <2>2 DEF BooksKept, PromisesCome
  <1>3. Becomes(asset_by_id'[d], asset_by_id[d])
    BY <1>1, <1>2 DEF BooksKept, DropsBecome
  <1> QED
    BY <1>2, <1>3, PromiseStays

\* Calls made of a method are those the funder configured.
LEMMA PromisedAsConfigured == Inv /\ Recorded /\ Held /\ CallsPromised => CallsAsConfigured
  <1> DEFINE configured(call, methods) ==
                 /\ call.method \in DOMAIN methods
                 /\ LET method == methods[call.method]
                    IN  /\ (~may_overwrite(method) /\ makes_json(method)) => call.args # None
                        /\ \A args \in call.args : KeepsFundersArgs(method, args)
  <1> SUFFICES ASSUME Inv, Recorded, Held, CallsPromised,
                      NEW r \in DOMAIN receipts, receipts[r].kind = "claim",
                      receipts[r].promise.calls # << >>
               PROVE  LET calls == receipts[r].promise.calls
                          assets == asset_by_id[parse_token_id(receipts[r].token_id)]
                      IN  \E a \in DOMAIN assets :
                             /\ \A i, j \in DOMAIN calls : i < j => calls[i].method < calls[j].method
                             /\ \A i \in DOMAIN calls : configured(calls[i], assets[a].methods)
    BY DEF CallsAsConfigured
  <1> DEFINE d == drop_of(receipts[r])
             calls == receipts[r].promise.calls
             assets == asset_by_id[d]
  <1>1. RecordsTyped(assets)
    BY DropOfClaim, DropRecords DEF DropsOfClaims
  <1>2. PICK a \in DOMAIN assets : CallsMade(calls, assets[a].methods)
    BY DEF CallsPromised, PromiseOf
  <1> DEFINE methods == assets[a].methods
  <1>3. FromShapes(methods)
    BY <1>1 DEF RecordsTyped, AssetTyped
  <1> HIDE DEF calls, methods
  <1>4. \A i \in DOMAIN methods : ArgsOption(methods[i])
    <2>1. \E shape \in Shapes : \E group \in ToSet(shape.asset_data) : \E ext \in ToSet(group.assets) :
              methods = ext.methods
      BY <1>3 DEF FromShapes
    <2>2. \A method \in ToSet(methods) : ArgsOption(method)
      BY <2>1, ArgsAssumption DEF ArgsOption
    <2> QED
      BY <2>2 DEF ToSet
  <1>5. ASSUME NEW i \in DOMAIN calls
        PROVE  configured(calls[i], methods)
    <2>1. CallMade(calls[i], methods)
      BY <1>2 DEF CallsMade, ToSet, methods
    <2> QED
      BY <1>4, <2>1, CallAsConfigured DEF CallMade
  <1>6. \A i, j \in DOMAIN calls : i < j => calls[i].method < calls[j].method
    BY <1>2 DEF CallsMade
  <1> HIDE DEF configured
  <1> QED
    BY <1>5, <1>6 DEF calls, methods, drop_of

\* When every key has a single use, the calls a claim has in flight are methods
\* of the drop that is there, in their order.  Whatever value the claimer
\* passes, JSON object or not, the arguments he may not overwrite are there as
\* the funder set them, and what stands in the fields the contract fills is
\* the contract's (handle_fc_args, add_keypom_args).
THEOREM CallsAsConfiguredHolds ==
    ASSUME SingleUse
    PROVE  Spec => []CallsAsConfigured
  <1>1. Init => OneUseEach /\ Held /\ CallsPromised
    BY DEF Init, OneUseEach, Held, claims, EmptyMap, CallsPromised
  <1>2. Inv /\ OneUseEach /\ Held /\ [Next]_vars => OneUseEach' /\ Held'
    BY NextHeld
  <1>3. Inv /\ Recorded /\ Held /\ CallsPromised => CallsAsConfigured
    BY PromisedAsConfigured
  <1> QED
    BY <1>1, <1>2, <1>3, InvAlways, RecordedAlways, DropOfClaim, StepBooks, CallsPromisedStep, PTL
       DEF Spec

-----------------------------------------------------------------------------
(* The types of all variables.                                            *)

\* What the funders and the contract have.
HoldingsTyped ==
    /\ user_balance \in [Accounts -> Nat] /\ vault \in Nat
    /\ ft_held \in [FtContracts -> Nat] /\ nft_held \subseteq NftContracts \X NftTokens

-----------------------------------------------------------------------------
(* Amounts that are summed.                                                *)

\* Some of finitely many amounts add up to an amount.
LEMMA SumOfSome ==
    ASSUME NEW f, Amounts(f), NEW S \in SUBSET DOMAIN f
    PROVE  SumFunctionOnSet(f, S) \in Nat
  BY SumNat, FS_Subset DEF Amounts

\* So do those of a vector.
LEMMA SeqOfAmounts == ASSUME NEW s \in Seq(Nat) PROVE Amounts(s)
  <1>1. DOMAIN s = 1 .. Len(s) /\ Len(s) \in Nat /\ \A i \in DOMAIN s : s[i] \in Nat
    BY LenProperties
  <1> QED
    BY <1>1, FS_Interval DEF Amounts

\* What a promise takes, and what comes back of it, are amounts.
LEMMA PromiseCarries ==
    ASSUME NEW p, PromiseTyped(p), NEW lost
    PROVE  near_of(p) \in Nat /\ (lost \subseteq DOMAIN p.deposits => near_back(p, lost) \in Nat)
  <1>1. Amounts(p.deposits)
    BY SeqOfAmounts DEF PromiseTyped
  <1> QED
    BY <1>1, SumOfSome DEF near_of, near_back

\* And so with several promises.
LEMMA PromisesCarry ==
    ASSUME NEW S, \A p \in S : PromiseTyped(p), NEW ps \in Seq(S), NEW lost
    PROVE  near_attached(ps) \in Nat /\ near_lost(ps, lost) \in Nat
  <1>1. DOMAIN ps = 1 .. Len(ps) /\ Len(ps) \in Nat /\ \A i \in DOMAIN ps : ps[i] \in S
    BY LenProperties
  <1>2. IsFiniteSet(DOMAIN ps)
    BY <1>1, FS_Interval
  <1> DEFINE attached == [i \in DOMAIN ps |-> near_of(ps[i])]
             back == [i \in DOMAIN ps |-> near_back(ps[i], lost_steps(ps, i, lost))]
  <1>3. Amounts(attached)
    BY <1>1, <1>2, PromiseCarries DEF Amounts
  <1>4. Amounts(back)
    <2>1. \A i \in DOMAIN ps : lost_steps(ps, i, lost) \subseteq DOMAIN ps[i].deposits
      BY DEF lost_steps
    <2> QED
      BY <1>1, <1>2, <2>1, PromiseCarries DEF Amounts
  <1> HIDE DEF attached, back
  <1>5. SumFunction(attached) \in Nat /\ SumFunction(back) \in Nat
    BY <1>3, <1>4, SumOfAmounts
  <1> QED
    BY <1>5 DEF near_attached, near_lost, attached, back

\* What an asset costs for a use is an amount, ...
LEMMA CostOfAsset ==
    ASSUME NEW asset, AssetTyped(asset), NEW amount \in Nat
    PROVE  get_yocto_refund_amount(asset, amount) \in Nat
  <1> DEFINE deposits == [i \in DOMAIN asset.methods |-> asset.methods[i].attached_deposit]
  <1>1. asset.methods \in Seq(ToSet(asset.methods)) /\ \A i \in DOMAIN deposits : deposits[i] \in Nat
    BY MethodsTyped DEF AssetTyped
  <1>2. DOMAIN deposits = 1 .. Len(asset.methods) /\ Len(asset.methods) \in Nat
    BY <1>1, LenProperties
  <1> HIDE DEF deposits
  <1>3. Amounts(deposits)
    BY <1>1, <1>2, FS_Interval DEF Amounts
  <1>4. SumFunction(deposits) \in Nat
    BY <1>3, SumOfAmounts
  <1>5. deposits_of(asset.methods) \in Nat /\ asset.cost \in Nat
    BY <1>4 DEF deposits_of, deposits, AssetTyped, AssetTypeOK
  <1> QED
    BY <1>5 DEF get_yocto_refund_amount

\* ... and so are all assets of a use together, ...
LEMMA CostOfUse ==
    ASSUME NEW assets, RecordsTyped(assets), NEW use, UseEquipped(use, assets)
    PROVE  cost_of_use(assets, use.assets_metadata) \in Nat
  <1> DEFINE metadata == use.assets_metadata
             costs == [i \in DOMAIN metadata |->
                          get_yocto_refund_amount(assets[metadata[i].asset_id],
                                                  metadata[i].tokens_per_use)]
  <1>1. metadata \in Seq(ToSet(metadata))
    BY DEF UseEquipped
  <1>2. IsFiniteSet(DOMAIN metadata)
    <2> HIDE DEF metadata
    <2> QED
      BY <1>1, LenProperties, FS_Interval
  <1>3. \A i \in DOMAIN metadata :
            metadata[i].asset_id \in DOMAIN assets /\ metadata[i].tokens_per_use \in Nat
    BY DEF UseEquipped, ToSet
  <1>4. Amounts(costs)
    <2> HIDE DEF metadata
    <2> QED
      BY <1>2, <1>3, CostOfAsset DEF Amounts, RecordsTyped
  <1> HIDE DEF costs
  <1>5. SumFunction(costs) \in Nat
    BY <1>4, SumOfAmounts
  <1> QED
    BY <1>5 DEF cost_of_use, costs

\* ... the use a failed account creation gives back, ...
LEMMA CostOfLastUse ==
    ASSUME Recorded, NEW d \in DOMAIN drop_by_id, NEW key_info
    PROVE  cost_of_use(asset_by_id[d], last_use_data(drop_by_id[d], key_info).assets_metadata) \in Nat
  <1> DEFINE metadata == last_use_data(drop_by_id[d], key_info).assets_metadata
  <1>1. CASE metadata # << >>
    BY <1>1, DropRecords, LastUseEquipped, CostOfUse
  <1>2. CASE metadata = << >>
    <2> DEFINE costs == [i \in {} |-> get_yocto_refund_amount(asset_by_id[d][metadata[i].asset_id],
                                                              metadata[i].tokens_per_use)]
    <2>1. cost_of_use(asset_by_id[d], metadata) = SumFunction(costs)
      BY <1>2 DEF cost_of_use
    <2>2. Amounts(costs)
      BY FS_EmptySet DEF Amounts
    <2> HIDE DEF costs, metadata
    <2>3. SumFunction(costs) \in Nat
      BY <2>2, SumOfAmounts
    <2> QED
      BY <2>1, <2>3 DEF metadata
  <1> QED
    BY <1>1, <1>2

\* ... what is set aside for all uses left of a key, ...
LEMMA CostOfKey ==
    ASSUME NEW assets, NEW data, EquippedWith(data, assets), NEW left \in Nat
    PROVE  get_total_costs_for_key(left, assets, data) \in Nat
  <1> DEFINE n == Len(data)
             remaining == get_remaining_asset_data(data, left)
             costs == [g \in DOMAIN remaining |->
                          remaining[g] * cost_of_use(assets, data[g].assets_metadata)]
  <1>1. n \in Nat /\ DOMAIN data = 1 .. n /\ data \in Seq(ToSet(data))
    BY LenProperties DEF EquippedWith
  <1>2. \A g \in 1 .. n : UseEquipped(data[g], assets)
    BY <1>1 DEF EquippedWith, ToSet
  <1>3. \A g \in 1 .. n : data[g].uses \in Nat /\ cost_of_use(assets, data[g].assets_metadata) \in Nat
    BY <1>2, CostOfUse DEF EquippedWith, UseEquipped
  <1> HIDE DEF n
  <1>4. \A g \in 1 .. n : uses_through(data, g) \in Nat
    <2> SUFFICES ASSUME NEW g \in 1 .. n PROVE uses_through(data, g) \in Nat
      OBVIOUS
    <2> DEFINE uses == [k \in 1 .. g |-> data[k].uses]
    <2>1. \A k \in 1 .. g : k \in 1 .. n
      BY <1>1
    <2>2. Amounts(uses)
      BY <1>1, <1>3, <2>1, FS_Interval DEF Amounts
    <2> HIDE DEF uses
    <2>3. SumFunction(uses) \in Nat
      BY <2>2, SumOfAmounts
    <2> QED
      BY <2>3 DEF uses_through, uses
  <1>5. \A g \in 1 .. n : uses_after(data, g) \in Int /\ (g = n => uses_after(data, g) = 0)
    <2> SUFFICES ASSUME NEW g \in 1 .. n
                 PROVE  uses_after(data, g) \in Int /\ (g = n => uses_after(data, g) = 0)
      OBVIOUS
    <2>1. n \in 1 .. n
      BY <1>1
    <2>2. uses_through(data, g) \in Nat /\ uses_through(data, n) \in Nat
      BY <1>4, <2>1
    <2>3. uses_after(data, g) = uses_through(data, n) - uses_through(data, g)
      BY DEF uses_after, max_key_uses, n
    <2> QED
      BY <2>2, <2>3
  <1>6. DOMAIN remaining \subseteq 1 .. n /\ \A g \in DOMAIN remaining : remaining[g] \in Nat
    <2>1. DOMAIN remaining = {h \in 1 .. n : h = n \/ uses_after(data, h) < left}
      BY <1>1 DEF get_remaining_asset_data, n
    <2>2. ASSUME NEW g \in DOMAIN remaining
          PROVE  remaining[g] \in Nat
      <3>1. g \in 1 .. n /\ (g = n \/ uses_after(data, g) < left)
        BY <2>1
      <3>2. left - uses_after(data, g) \in Nat
        BY <1>5, <3>1
      <3>3. remaining[g] = IF data[g].uses >= left - uses_after(data, g)
                           THEN left - uses_after(data, g) ELSE data[g].uses
        BY DEF get_remaining_asset_data
      <3> QED
        BY <1>3, <3>1, <3>2, <3>3
    <2> QED
      BY <2>1, <2>2
  <1>7. IsFiniteSet(DOMAIN remaining)
    <2>1. IsFiniteSet(1 .. n)
      BY <1>1, FS_Interval
    <2> QED
      BY <1>6, <2>1, FS_Subset
  <1>8. get_total_costs_for_key(left, assets, data) = SumFunction(costs)
    BY DEF get_total_costs_for_key
  <1> HIDE DEF remaining
  <1>9. \A g \in DOMAIN remaining : remaining[g] * cost_of_use(assets, data[g].assets_metadata) \in Nat
    <2>1. \A a, b \in Nat : a * b \in Nat
      OBVIOUS
    <2> QED
      BY <1>3, <1>6, <2>1
  <1>10. Amounts(costs)
    BY <1>7, <1>9 DEF Amounts
  <1> HIDE DEF costs
  <1> QED
    BY <1>8, <1>10, SumOfAmounts

\* ... and what several keys that are deleted give back.
LEMMA CostOfKeys ==
    ASSUME Inv, FinitelyMany, Recorded, NEW d \in DOMAIN drop_by_id,
           NEW tokens \in SUBSET DOMAIN key_info_by_token_id
    PROVE  cost_of_keys(d, tokens) \in Nat /\ Cardinality(tokens) \in Nat
  <1> DEFINE costs == [t \in tokens |-> get_total_costs_for_key(
                          key_info_by_token_id[t].remaining_uses, asset_by_id[d],
                          drop_by_id[d].asset_data_for_uses)]
  <1>1. IsFiniteSet(tokens)
    BY KeysAreFinite, FS_Subset
  <1>2. EquippedWith(drop_by_id[d].asset_data_for_uses, asset_by_id[d])
    BY DEF Recorded, Equipped
  <1>3. \A t \in tokens : key_info_by_token_id[t].remaining_uses \in Nat
    BY DEF Inv, Current, Registry, Typed, IsMap, KeyInfo
  <1>4. Amounts(costs)
    BY <1>1, <1>2, <1>3, CostOfKey DEF Amounts
  <1> HIDE DEF costs
  <1>5. SumFunction(costs) \in Nat
    BY <1>4, SumOfAmounts
  <1> QED
    BY <1>1, <1>5, FS_CardinalityType DEF cost_of_keys, costs

\* The bytes of the NFTs on record.
LEMMA NftBytesTyped == ASSUME NEW assets, RecordsTyped(assets) PROVE nft_bytes(assets) \in Nat
  <1> DEFINE lengths == [a \in DOMAIN assets |-> Len(assets[a].token_ids)]
  <1>1. Amounts(lengths)
    BY LenProperties DEF RecordsTyped, AssetTyped, AssetTypeOK, Amounts
  <1> HIDE DEF lengths
  <1>2. SumFunction(lengths) \in Nat /\ NftBytes \in Nat
    BY <1>1, SumOfAmounts, StorageAssumption
  <1>3. \A a, b \in Nat : a * b \in Nat
    OBVIOUS
  <1> QED
    BY <1>2, <1>3 DEF nft_bytes, lengths

-----------------------------------------------------------------------------
(* What a call charges.                                                    *)

\* A purse out of which no more than the deposit is left.
IsPurse(purse, deposit) == purse \in [deposit : 0 .. deposit, balance : Int]

\* What is charged leaves a purse.
LEMMA Charged ==
    ASSUME NEW deposit \in Nat, NEW purse, IsPurse(purse, deposit), NEW required \in Nat
    PROVE  IsPurse(charge_with_deposit_or_balance(purse, required), deposit)
  <1>1. purse = [deposit |-> purse.deposit, balance |-> purse.balance]
        /\ purse.deposit \in 0 .. deposit /\ purse.balance \in Int
    BY DEF IsPurse
  <1>2. CASE purse.deposit >= required
    <2>1. charge_with_deposit_or_balance(purse, required) =
              [deposit |-> purse.deposit - required, balance |-> purse.balance]
      BY <1>1, <1>2 DEF charge_with_deposit_or_balance
    <2>2. purse.deposit - required \in 0 .. deposit
      BY <1>1, <1>2
    <2> QED
      BY <1>1, <2>1, <2>2 DEF IsPurse
  <1>3. CASE ~(purse.deposit >= required)
    <2>1. charge_with_deposit_or_balance(purse, required) =
              [deposit |-> 0, balance |-> purse.balance - (required - purse.deposit)]
      BY <1>3 DEF charge_with_deposit_or_balance
    <2>2. purse.balance - (required - purse.deposit) \in Int /\ 0 \in 0 .. deposit
      BY <1>1
    <2> QED
      BY <2>1, <2>2 DEF IsPurse
  <1> QED
    BY <1>2, <1>3

\* Costs, storage and fees are charged together.
LEMMA CostsCharged ==
    ASSUME FeeInv, NEW caller, NEW deposit \in Nat, NEW purse, IsPurse(purse, deposit),
           NEW num_keys \in Nat, NEW num_drops \in Nat, NEW cost \in Nat, NEW storage \in Nat
    PROVE  IsPurse(determine_costs(caller, purse, num_keys, num_drops, cost, storage), deposit)
  <1> DEFINE fees == total_fees(caller, num_keys, num_drops)
  <1>1. fees \in Nat
    BY FeesAreAmounts
  <1>2. \A a, b \in Nat : a * b \in Nat
    OBVIOUS
  <1>3. num_keys * cost \in Nat
    BY <1>2
  <1> HIDE DEF fees
  <1>4. num_keys * cost + storage + fees \in Nat
    BY <1>1, <1>3
  <1> QED
    BY <1>4, Charged DEF determine_costs, fees

\* A funder's purse.
LEMMA FunderPurse ==
    ASSUME HoldingsTyped, NEW caller \in Accounts, NEW deposit \in Nat
    PROVE  IsPurse(purse_of(caller, deposit), deposit)
  BY DEF HoldingsTyped, purse_of, IsPurse

\* A batch charges drop after drop: left[k] is left after the first k of them.
LEMMA DropAfterDrop ==
    ASSUME FeeInv, NEW caller, NEW deposit \in Nat, IsPurse(purse_of(caller, deposit), deposit),
           NEW batch \in Batches
    PROVE  \E left :
              /\ left[0] = purse_of(caller, deposit)
              /\ \A k \in 0 .. Len(batch) : IsPurse(left[k], deposit)
              /\ \A k \in 1 .. Len(batch) :
                    left[k] = determine_costs(caller, left[k - 1], 0, 1, 0, DropBytes)
              /\ charge_drops(caller, deposit, batch) = left[Len(batch)]
  <1> DEFINE A == [deposit : 0 .. deposit, balance : Int]
             S == [drop_id : DropIds, shape : Shapes]
             base == purse_of(caller, deposit)
             op(purse) == determine_costs(caller, purse, 0, 1, 0, DropBytes)
             step == [x \in A \X S |-> op(x[1])]
             folds(f) == f = [V \in SUBSET DOMAIN batch |->
                                 IF V = {} THEN base
                                 ELSE LET i == Max(V) IN op(f[V \ {i}])]
             fold == CHOOSE f : folds(f)
  <1>1. charge_drops(caller, deposit, batch) = fold[DOMAIN batch]
    BY DEF charge_drops, FoldLeft, MapThenFoldSet
  <1>2. batch \in Seq(S) /\ Len(batch) \in Nat /\ DOMAIN batch = 1 .. Len(batch)
    BY BatchesAssumption, LenProperties
  <1>3. base \in A
    BY DEF IsPurse
  <1>4. \A purse \in A : op(purse) \in A
    BY CostsCharged, StorageAssumption DEF IsPurse
  <1> HIDE DEF A, S, op, base
  <1>5. step \in [A \X S -> A] /\ \A purse \in A, entry \in S : step[<<purse, entry>>] = op(purse)
    BY <1>4
  <1> HIDE DEF step
  <1>6. \E f : folds(f)
    <2>1. PICK f \in [SUBSET DOMAIN batch -> A] : Folds(f, step, base, batch)
      BY <1>2, <1>3, <1>5, FoldExists
    <2>2. ASSUME NEW V \in SUBSET DOMAIN batch, V # {}
          PROVE  step[<<f[V \ {Max(V)}], batch[Max(V)]>>] = op(f[V \ {Max(V)}])
      <3>1. Max(V) \in DOMAIN batch
        BY <1>2, <2>2, MaxOfSome
      <3>2. f[V \ {Max(V)}] \in A /\ batch[Max(V)] \in S
        BY <1>2, <2>1, <2>2, <3>1
      <3> QED
        BY <1>5, <3>2
    <2>3. folds(f)
      BY <2>1, <2>2 DEF Folds
    <2> QED
      BY <2>3
  <1>7. folds(fold)
    BY <1>6
  <1> HIDE DEF fold
  <1>8. FoldsWithin(A, fold, step, base, batch)
    <2>1. ASSUME NEW V \in SUBSET DOMAIN batch, V # {}, fold[V \ {Max(V)}] \in A
          PROVE  fold[V] = step[<<fold[V \ {Max(V)}], batch[Max(V)]>>]
      <3>1. batch[Max(V)] \in S
        BY <1>2, <2>1, MaxOfSome
      <3> QED
        BY <1>5, <1>7, <2>1, <3>1
    <2>2. fold[{}] = base
      BY <1>7
    <2> QED
      BY <2>1, <2>2 DEF FoldsWithin
  <1>9. /\ \A k \in 0 .. Len(batch) : fold[1 .. k] \in A
        /\ OneByOne(fold, step, batch)
    BY <1>2, <1>3, <1>5, <1>8, FoldStays
  <1> DEFINE left == [k \in 0 .. Len(batch) |-> fold[1 .. k]]
  <1>10. ASSUME NEW k \in 1 .. Len(batch)
         PROVE  left[k] = op(left[k - 1])
    <2>1. k - 1 \in 0 .. Len(batch) /\ k \in 0 .. Len(batch) /\ k \in DOMAIN batch
      BY <1>2
    <2>2. fold[1 .. k - 1] \in A /\ batch[k] \in S
      BY <1>2, <1>9, <2>1, ElementOfSeq
    <2>3. fold[1 .. k] = op(fold[1 .. k - 1])
      BY <1>5, <1>9, <2>2 DEF OneByOne
    <2> QED
      BY <2>1, <2>3
  <1>11. left[0] = base
    <2>1. 1 .. 0 = {} /\ 0 \in 0 .. Len(batch)
      BY <1>2
    <2> QED
      BY <1>8, <2>1 DEF FoldsWithin
  <1>12. fold[DOMAIN batch] = left[Len(batch)]
    <2>1. Len(batch) \in 0 .. Len(batch)
      BY <1>2
    <2> QED
      BY <1>2, <2>1
  <1>13. \A k \in 0 .. Len(batch) : left[k] \in A
    BY <1>9
  <1> HIDE DEF left
  <1> QED
    BY <1>1, <1>10, <1>11, <1>12, <1>13 DEF IsPurse, A, op, base

\* So do the drops of a batch.
LEMMA DropsCharged ==
    ASSUME FeeInv, NEW caller, NEW deposit \in Nat, IsPurse(purse_of(caller, deposit), deposit),
           NEW batch \in Batches
    PROVE  IsPurse(charge_drops(caller, deposit, batch), deposit)
  <1>1. PICK left : /\ \A k \in 0 .. Len(batch) : IsPurse(left[k], deposit)
                    /\ charge_drops(caller, deposit, batch) = left[Len(batch)]
    BY DropAfterDrop
  <1>2. Len(batch) \in 0 .. Len(batch)
    BY BatchesAssumption, LenProperties
  <1> QED
    BY <1>1, <1>2

\* What is left goes back, so that neither the caller's balance nor the contract's falls below zero.
LEMMA ExcessRefunded ==
    ASSUME HoldingsTyped, NEW caller \in Accounts, NEW deposit \in Nat, NEW purse,
           IsPurse(purse, deposit), NEW keep, refund_excess(caller, purse, deposit, keep)
    PROVE  user_balance' \in [Accounts -> Nat] /\ vault' \in Nat
  <1>1. purse.deposit \in 0 .. deposit /\ purse.balance \in Int /\ purse.balance >= 0
    BY DEF IsPurse, refund_excess, is_covered
  <1> DEFINE kept == IF keep THEN purse.deposit ELSE 0
             returned == IF keep THEN 0 ELSE purse.deposit
  <1>2. kept \in 0 .. deposit /\ returned \in 0 .. deposit
    BY <1>1
  <1>3. user_balance' = [user_balance EXCEPT ![caller] = purse.balance + kept]
        /\ vault' = vault + deposit - returned
    BY DEF refund_excess
  <1> HIDE DEF kept, returned
  <1>4. purse.balance + kept \in Nat /\ vault + deposit - returned \in Nat
    BY <1>1, <1>2 DEF HoldingsTyped
  <1> QED
    BY <1>3, <1>4 DEF HoldingsTyped

-----------------------------------------------------------------------------
(* The calls of funders.                                                   *)

\* Products of amounts are amounts.
LEMMA Products == \A a, b \in Nat : a * b \in Nat
  OBVIOUS

\* An option is nothing or an amount.
AmountOptions == {None} \cup {Some(n) : n \in Nat}

\* What callers choose is nothing or an amount.
LEMMA ChosenOptions ==
    \A option \in Withdrawals \cup MetadataChoices \cup OnSuccessChoices : option \in AmountOptions
  BY OptionsAssumption, Zenon DEF AmountOptions

\* What an option holds is an amount.
LEMMA OptionAmounts ==
    ASSUME NEW option \in AmountOptions
    PROVE  /\ option # None => unwrap(option) \in Nat
           /\ \A default \in Nat : unwrap_or(option, default) \in Nat
  <1>1. option # None => unwrap(option) \in Nat
    <2> SUFFICES ASSUME option # None PROVE unwrap(option) \in Nat
      OBVIOUS
    <2>1. PICK n \in Nat : option = {n}
      BY DEF AmountOptions, Some
    <2>2. (CHOOSE v \in option : TRUE) \in option
      BY <2>1
    <2> QED
      BY <2>1, <2>2 DEF unwrap
  <1> QED
    BY <1>1 DEF unwrap_or

\* The storage of keys.
LEMMA KeysStored ==
    ASSUME NEW num_keys \in Nat
    PROVE  /\ num_keys * (KeyBytes + PkBytes) \in Nat
           /\ DropBytes \in Nat /\ DropBytes + num_keys * (KeyBytes + PkBytes) \in Nat
  <1>1. KeyBytes + PkBytes \in Nat /\ DropBytes \in Nat
    BY StorageAssumption
  <1>2. num_keys * (KeyBytes + PkBytes) \in Nat
    BY <1>1, Products
  <1> QED
    BY <1>1, <1>2

\* create_drop charges what the keys cost.
LEMMA CreateDropFunds ==
    ASSUME Inv, FeeInv, HoldingsTyped, NEW caller \in Accounts, NEW d, NEW shape \in Shapes,
           NEW key_data \in KeyData, NEW deposit \in Deposits, NEW keep,
           CreateDrop(caller, d, shape, key_data, deposit, keep)
    PROVE  HoldingsTyped'
  <1> DEFINE n == Len(key_data)
             uses == max_key_uses(shape.asset_data)
             cost == get_total_costs_for_key(uses, store_assets_by_id(shape.asset_data),
                                             asset_data_for_uses(shape))
             storage == DropBytes + n * (KeyBytes + PkBytes)
             purse == determine_costs(caller, purse_of(caller, deposit), n, 1, cost, storage)
  <1>1. refund_excess(caller, purse, deposit, keep) /\ UNCHANGED <<ft_held, nft_held>>
    BY DEF CreateDrop
  <1>2. n \in Nat /\ deposit \in Nat
    BY LengthOfKeyData, AccountsAssumption
  <1>3. cost \in Nat
    <2>1. uses \in Nat
      BY ShapesAssumption
    <2> QED
      BY <2>1, NewDropEquipped, CostOfKey
  <1>4. storage \in Nat
    BY <1>2, KeysStored
  <1> HIDE DEF cost, storage, n
  <1>5. IsPurse(purse, deposit)
    BY <1>2, <1>3, <1>4, FunderPurse, CostsCharged
  <1> HIDE DEF purse
  <1>6. user_balance' \in [Accounts -> Nat] /\ vault' \in Nat
    BY <1>1, <1>2, <1>5, ExcessRefunded
  <1> QED
    BY <1>1, <1>6 DEF HoldingsTyped

\* So does add_keys, whoever may add them.
LEMMA AddKeysFunds ==
    ASSUME Inv, FeeInv, Recorded, HoldingsTyped, NEW caller \in Accounts, NEW d,
           NEW key_data \in KeyData, NEW deposit \in Deposits, NEW keep,
           AddKeys(caller, d, key_data, deposit, keep)
    PROVE  HoldingsTyped'
  <1> DEFINE n == Len(key_data)
             drop == drop_by_id[d]
             cost == get_total_costs_for_key(drop.max_key_uses, asset_by_id[d], drop.asset_data_for_uses)
             storage == n * (KeyBytes + PkBytes)
             purse == determine_costs(caller, purse_of(caller, deposit), n, 0, cost, storage)
  <1>1. /\ d \in DOMAIN drop_by_id
        /\ refund_excess(caller, purse, deposit, keep) /\ UNCHANGED <<ft_held, nft_held>>
    BY DEF AddKeys
  <1>2. n \in Nat /\ deposit \in Nat
    BY LengthOfKeyData, AccountsAssumption
  <1>3. cost \in Nat
    <2>1. drop.max_key_uses \in Nat
      BY <1>1 DEF Inv, Current, Registry, Typed, IsMap, Drop
    <2>2. EquippedWith(drop.asset_data_for_uses, asset_by_id[d])
      BY <1>1 DEF Recorded, Equipped
    <2> QED
      BY <2>1, <2>2, CostOfKey
  <1>4. storage \in Nat
    BY <1>2, KeysStored
  <1> HIDE DEF cost, storage, n
  <1>5. IsPurse(purse, deposit)
    BY <1>2, <1>3, <1>4, FunderPurse, CostsCharged
  <1> HIDE DEF purse
  <1>6. user_balance' \in [Accounts -> Nat] /\ vault' \in Nat
    BY <1>1, <1>2, <1>5, ExcessRefunded
  <1> QED
    BY <1>1, <1>6 DEF HoldingsTyped

\* delete_keys gives back what is left of the keys.
LEMMA DeleteKeysFunds ==
    ASSUME Inv, FinitelyMany, Recorded, HoldingsTyped, NEW caller \in Accounts, NEW d,
           NEW pks \in SUBSET DOMAIN token_id_by_pk, NEW keep_empty_drop,
           DeleteKeys(caller, d, pks, keep_empty_drop)
    PROVE  HoldingsTyped'
  <1> DEFINE tokens == deleted_tokens(d, pks)
             remove_drop == KeysOf(key_info_by_token_id, d) \subseteq tokens /\ ~keep_empty_drop
             freed == Cardinality(tokens) * (KeyBytes + PkBytes) + IF remove_drop THEN DropBytes ELSE 0
  <1>1. /\ d \in DOMAIN drop_by_id
        /\ internal_modify_user_balance(caller, cost_of_keys(d, tokens) + freed)
        /\ UNCHANGED <<vault, ft_held, nft_held>>
    BY DEF DeleteKeys, holdings
  <1>2. tokens \subseteq DOMAIN key_info_by_token_id
    BY DEF deleted_tokens, Inv, Current, Registry, Linked
  <1> HIDE DEF tokens
  <1>3. cost_of_keys(d, tokens) \in Nat /\ Cardinality(tokens) \in Nat
    BY <1>1, <1>2, CostOfKeys
  <1>4. freed \in Nat
    BY <1>3, KeysStored
  <1> HIDE DEF freed
  <1>5. user_balance' = [user_balance EXCEPT ![caller] = @ + (cost_of_keys(d, tokens) + freed)]
    BY <1>1 DEF internal_modify_user_balance
  <1> QED
    BY <1>1, <1>3, <1>4, <1>5 DEF HoldingsTyped

\* create_drop_batch charges for drops and metadata, and pays for the call.
LEMMA CreateDropBatchFunds ==
    ASSUME FeeInv, HoldingsTyped, NEW caller \in Accounts, NEW batch \in Batches,
           NEW deposit \in Deposits, NEW keep, NEW metadata \in {None} \cup MetadataChoices,
           NEW on_success \in OnSuccessChoices, NEW call_fails \in BOOLEAN,
           CreateDropBatch(caller, batch, deposit, keep, metadata, on_success, call_fails)
    PROVE  HoldingsTyped'
  <1> DEFINE after_drops == charge_drops(caller, deposit, batch)
             purse == charge_for_metadata(after_drops, metadata)
             called == calls_on_success(purse, on_success)
             call_deposit == IF called THEN unwrap(on_success) ELSE 0
             paid == IF call_fails THEN 0 ELSE call_deposit
             left == [purse EXCEPT !.deposit = @ - call_deposit]
  <1>1. refund_excess(caller, left, deposit - paid, keep) /\ UNCHANGED <<ft_held, nft_held>>
    BY DEF CreateDropBatch
  <1>2. deposit \in Nat
    BY AccountsAssumption
  <1>3. IsPurse(purse, deposit)
    <2>1. MetadataBytes * unwrap_or(metadata, 0) \in Nat
      <3>1. MetadataBytes \in Nat /\ metadata \in AmountOptions
        BY StorageAssumption, ChosenOptions DEF AmountOptions
      <3> QED
        BY <3>1, OptionAmounts, Products
    <2>2. IsPurse(after_drops, deposit)
      BY <1>2, FunderPurse, DropsCharged
    <2> QED
      BY <1>2, <2>1, <2>2, Charged DEF charge_for_metadata
  <1>4. call_deposit \in Nat /\ call_deposit <= purse.deposit
    <2>1. CASE called
      <3>1. on_success # None /\ purse.deposit >= unwrap(on_success) /\ on_success \in AmountOptions
        BY <2>1, ChosenOptions DEF calls_on_success
      <3>2. unwrap(on_success) \in Nat /\ purse.deposit \in Nat
        BY <1>2, <1>3, <3>1, OptionAmounts DEF IsPurse
      <3> QED
        BY <2>1, <3>1, <3>2
    <2>2. CASE ~called
      BY <1>2, <1>3, <2>2 DEF IsPurse
    <2> QED
      BY <2>1, <2>2
  <1> HIDE DEF purse, call_deposit
  <1>5. /\ purse.deposit \in 0 .. deposit /\ purse.balance \in Int
        /\ purse = [deposit |-> purse.deposit, balance |-> purse.balance]
    BY <1>3 DEF IsPurse
  <1>6. left = [deposit |-> purse.deposit - call_deposit, balance |-> purse.balance]
    BY <1>5
  <1>7. deposit - paid \in Nat /\ purse.deposit - call_deposit \in 0 .. deposit - paid
    BY <1>2, <1>4, <1>5
  <1>8. IsPurse(left, deposit - paid)
    BY <1>5, <1>6, <1>7 DEF IsPurse
  <1> HIDE DEF left, paid
  <1>9. user_balance' \in [Accounts -> Nat] /\ vault' \in Nat
    BY <1>1, <1>7, <1>8, ExcessRefunded
  <1> QED
    BY <1>1, <1>9 DEF HoldingsTyped

\* Balances are paid into and paid out, and metadata is paid for.
LEMMA BalanceCallFunds ==
    ASSUME HoldingsTyped, NEW caller \in Accounts, BalanceCall(caller)
    PROVE  HoldingsTyped'
  <1>1. ASSUME NEW deposit \in Deposits, AddToBalance(caller, deposit)
        PROVE  HoldingsTyped'
    <2>1. deposit \in Nat
      BY AccountsAssumption
    <2>2. /\ user_balance' = [user_balance EXCEPT ![caller] = @ + deposit]
          /\ vault' = vault + deposit /\ UNCHANGED <<ft_held, nft_held>>
      BY <1>1 DEF AddToBalance, internal_modify_user_balance
    <2> QED
      BY <2>1, <2>2 DEF HoldingsTyped
  <1>2. ASSUME NEW amount_to_withdraw \in Withdrawals, WithdrawFromBalance(caller, amount_to_withdraw)
        PROVE  HoldingsTyped'
    <2> DEFINE amount == unwrap_or(amount_to_withdraw, user_balance[caller])
    <2>1. amount \in Nat
      BY ChosenOptions, OptionAmounts DEF HoldingsTyped
    <2>2. /\ amount <= user_balance[caller] /\ amount <= vault
          /\ user_balance' = [user_balance EXCEPT ![caller] = @ + -amount]
          /\ vault' = vault - amount /\ UNCHANGED <<ft_held, nft_held>>
      BY <1>2 DEF WithdrawFromBalance, internal_modify_user_balance
    <2> HIDE DEF amount
    <2>3. user_balance[caller] + -amount \in Nat /\ vault - amount \in Nat
      BY <2>1, <2>2 DEF HoldingsTyped
    <2> QED
      BY <2>2, <2>3 DEF HoldingsTyped
  <1>3. ASSUME NEW metadata \in MetadataChoices, NEW deposit \in Deposits,
               SetFunderMetadata(caller, metadata, deposit)
        PROVE  HoldingsTyped'
    <2> DEFINE purse == charge_for_metadata(purse_of(caller, deposit), metadata)
    <2>1. refund_excess(caller, purse, deposit, FALSE) /\ UNCHANGED <<ft_held, nft_held>>
      BY <1>3 DEF SetFunderMetadata
    <2>2. deposit \in Nat /\ MetadataBytes \in Nat /\ unwrap_or(metadata, 0) \in Nat
      BY AccountsAssumption, StorageAssumption, ChosenOptions, OptionAmounts
    <2>3. MetadataBytes * unwrap_or(metadata, 0) \in Nat
      BY <2>2, Products
    <2>4. IsPurse(purse, deposit)
      BY <2>2, <2>3, FunderPurse, Charged DEF charge_for_metadata
    <2> HIDE DEF purse
    <2>5. user_balance' \in [Accounts -> Nat] /\ vault' \in Nat
      BY <2>1, <2>2, <2>4, ExcessRefunded
    <2> QED
      BY <2>1, <2>5 DEF HoldingsTyped
  <1> QED
    BY <1>1, <1>2, <1>3 DEF BalanceCall

\* What a funder calls.
LEMMA FunderFunds ==
    ASSUME Inv, FinitelyMany, FeeInv, Recorded, HoldingsTyped, FunderStep
    PROVE  HoldingsTyped'
  <1>1. PICK caller \in Accounts : DropCall(caller) \/ BalanceCall(caller)
    BY DEF FunderStep
  <1>2. CASE DropCall(caller)
    BY <1>2, CreateDropFunds, AddKeysFunds, DeleteKeysFunds, CreateDropBatchFunds DEF DropCall
  <1> QED
    BY <1>1, <1>2, BalanceCallFunds

-----------------------------------------------------------------------------
(* Claims and their callbacks.                                             *)

\* A cleanup never takes anything from the funder.
LEMMA CleanupFunds ==
    ASSUME Inv, HoldingsTyped, NEW t, parse_token_id(t) \in DOMAIN drop_by_id, NEW keys,
           NEW assets, nft_bytes(assets) \in Nat, NEW withdrawn, NEW refund \in Nat,
           NEW added \in Int, handle_key_cleanup(t, keys, assets, withdrawn, refund, added)
    PROVE  user_balance' \in [Accounts -> Nat]
  <1> DEFINE d == parse_token_id(t)
             drop == drop_by_id[d]
             depleted == keys[t].remaining_uses = 0
             keys_left == KeysOf(keys, d) \ {t}
             remove_drop == depleted /\ drop_is_finished(drop, keys_left, withdrawn)
             freed == (IF depleted THEN KeyBytes ELSE 0)
                      + (IF remove_drop THEN DropBytes + nft_bytes(assets) ELSE 0) - added
             back == IF freed > 0 THEN freed ELSE 0
  <1>1. internal_modify_user_balance(drop.funder_id, refund + back)
    BY DEF handle_key_cleanup
  <1>2. drop.funder_id \in Accounts
    BY DEF Inv, Current, Registry, Typed, IsMap, Drop
  <1>3. freed \in Int
    BY StorageAssumption
  <1> HIDE DEF freed, drop
  <1>4. refund + back \in Nat
    BY <1>3
  <1> HIDE DEF back
  <1> QED
    BY <1>1, <1>2, <1>4 DEF internal_modify_user_balance, HoldingsTyped

\* The contract has the tokens its promises carry away.
LEMMA SettledFunds ==
    ASSUME HoldingsTyped, NEW ps, IsFiniteSet(DOMAIN ps), \A i \in DOMAIN ps : PromiseTyped(ps[i]),
           NEW failed, settle(ps, failed)
    PROVE  ft_held' \in [FtContracts -> Nat] /\ nft_held' \subseteq NftContracts \X NftTokens
  <1> DEFINE gone == DOMAIN ps \ failed
             sent(c) == {j \in gone : ps[j].type = "ft" /\ ps[j].contract = c}
             amounts(c) == [i \in sent(c) |-> ps[i].amount]
             ft(c) == SumFunction(amounts(c))
  <1>1. /\ \A c \in FtContracts : ft(c) <= ft_held[c]
        /\ ft_held' = [c \in FtContracts |-> ft_held[c] - ft(c)]
    BY DEF settle
  <1>2. nft_held' \subseteq nft_held
    BY DEF settle
  <1>3. ASSUME NEW c \in FtContracts
        PROVE  ft(c) \in Nat
    <2>1. IsFiniteSet(sent(c))
      BY FS_Subset
    <2>2. Amounts(amounts(c))
      BY <2>1 DEF Amounts, PromiseTyped
    <2> HIDE DEF amounts
    <2> QED
      BY <2>2, SumOfAmounts
  <1> HIDE DEF ft
  <1>4. \A c \in FtContracts : ft_held[c] - ft(c) \in Nat
    BY <1>1, <1>3 DEF HoldingsTyped
  <1> QED
    BY <1>1, <1>2, <1>4 DEF HoldingsTyped

\* One promise that runs.
LEMMA OneSettledFunds ==
    ASSUME HoldingsTyped, NEW p, PromiseTyped(p), NEW failed, settle(<<p>>, failed)
    PROVE  ft_held' \in [FtContracts -> Nat] /\ nft_held' \subseteq NftContracts \X NftTokens
  <1>1. DOMAIN <<p>> = {1} /\ <<p>>[1] = p
    OBVIOUS
  <1>2. IsFiniteSet(DOMAIN <<p>>) /\ \A i \in DOMAIN <<p>> : PromiseTyped(<<p>>[i])
    BY <1>1, FS_Singleton
  <1> QED
    BY <1>2, SettledFunds

\* A claim attaches no more NEAR than there is.
LEMMA ClaimedFunds ==
    ASSUME Inv, Recorded, HoldingsTyped, NEW t, NEW keys, NEW fc_args,
           NEW results \in {<< >>, <<TRUE>>}, NEW lost, parse_token_id(t) \in DOMAIN drop_by_id,
           internal_claim_assets_defined(t, keys, assets_of_last_use(t, keys, fc_args)),
           internal_claim_assets(t, keys, assets_of_last_use(t, keys, fc_args), results, lost)
    PROVE  HoldingsTyped'
  <1> DEFINE d == parse_token_id(t)
             claimed == assets_of_last_use(t, keys, fc_args)
             fired == fired_promises(claimed)
             detached == detached_promises(claimed)
             S == ToSet(fired)
  <1>1. /\ near_attached(fired) <= vault
        /\ settle(detached, lost_promises(detached, lost))
        /\ vault' = vault - near_attached(fired) + near_lost(detached, lost)
        /\ IF is_awaited(claimed) THEN UNCHANGED user_balance
           ELSE on_assets_claimed(t, keys, claimed.assets, claimed.token_ids, results)
    BY Zenon DEF internal_claim_assets_defined, internal_claim_assets
  <1>2. /\ Becomes(claimed.assets, asset_by_id[d]) /\ PromisesOf(fired, asset_by_id[d])
        /\ is_awaited(claimed) => fired # << >>
    <2>1. last_use_data(drop_by_id[d], keys[t]).assets_metadata # << >>
      BY DEF internal_claim_assets_defined
    <2>2. ClaimTyped(claimed, asset_by_id[d])
      BY <2>1, LastUseEquipped, DropRecords, ClaimAllTyped DEF assets_of_last_use
    <2> HIDE DEF claimed
    <2> QED
      BY <2>2, FiredTyped DEF ClaimTyped, Becomes
  <1> HIDE DEF claimed, fired
  <1>3. fired \in Seq(S) /\ \A p \in S : PromiseTyped(p)
    BY <1>2 DEF PromisesOf, PromiseOf
  <1> HIDE DEF S
  <1>4. detached \in Seq(S)
    BY <1>2, <1>3, FrontTyped DEF detached_promises, fired
  <1> HIDE DEF detached
  <1>5. vault' \in Nat
    <2>1. near_attached(fired) \in Nat /\ near_lost(detached, lost) \in Nat
      BY <1>3, <1>4, PromisesCarry
    <2> QED
      BY <1>1, <2>1 DEF HoldingsTyped
  <1>6. ft_held' \in [FtContracts -> Nat] /\ nft_held' \subseteq NftContracts \X NftTokens
    <2>1. DOMAIN detached = 1 .. Len(detached) /\ Len(detached) \in Nat
          /\ \A i \in DOMAIN detached : detached[i] \in S
      BY <1>4, LenProperties
    <2>2. IsFiniteSet(DOMAIN detached)
      BY <2>1, FS_Interval
    <2> QED
      BY <1>1, <1>3, <2>1, <2>2, SettledFunds
  <1>7. user_balance' \in [Accounts -> Nat]
    <2>1. CASE is_awaited(claimed)
      BY <1>1, <2>1 DEF HoldingsTyped
    <2>2. CASE ~is_awaited(claimed)
      <3>1. results # <<FALSE>>
        <4>1. DOMAIN << >> = {} /\ DOMAIN <<FALSE>> = {1} /\ <<TRUE>>[1] /\ ~<<FALSE>>[1]
          OBVIOUS
        <4> QED
          BY <4>1
      <3>2. on_assets_claimed(t, keys, claimed.assets, claimed.token_ids, results)
        BY <1>1, <2>2
      <3>3. PICK updated, withdrawn : \E refund \in Nat :
                /\ Becomes(updated, asset_by_id[d])
                /\ handle_key_cleanup(t, keys, updated, withdrawn, refund,
                                      nft_bytes(updated) - nft_bytes(claimed.assets))
        BY <1>2, <3>1, <3>2, AssetsGivenBack
      <3>4. nft_bytes(updated) \in Nat /\ nft_bytes(claimed.assets) \in Nat
        BY <1>2, <3>3, DropRecords, BecomesTyped, NftBytesTyped
      <3>5. nft_bytes(updated) - nft_bytes(claimed.assets) \in Int
        BY <3>4
      <3> QED
        BY <3>3, <3>4, <3>5, CleanupFunds
    <2> QED
      BY <2>1, <2>2
  <1> QED
    BY <1>5, <1>6, <1>7 DEF HoldingsTyped

\* A claim, or the creation of an account.
LEMMA ClaimFunds ==
    ASSUME Inv, Recorded, HoldingsTyped, ClaimStep
    PROVE  HoldingsTyped'
  <1>1. ASSUME NEW pk \in DOMAIN token_id_by_pk, NEW fc_args, NEW lost, Claim(pk, fc_args, lost)
        PROVE  HoldingsTyped'
    <2> DEFINE t == token_id_by_pk[pk]
               keys == keys_after_claim(pk)
               claimed == assets_of_last_use(t, keys, fc_args)
    <2>1. /\ internal_claim_assets_defined(t, keys, claimed)
          /\ internal_claim_assets(t, keys, claimed, << >>, lost)
      BY <1>1 DEF Claim, claim_of
    <2>2. parse_token_id(t) \in DOMAIN drop_by_id
      BY DEF Inv, Current, Registry, Linked, Housed
    <2> HIDE DEF t, keys
    <2> QED
      BY <2>1, <2>2, ClaimedFunds
  <1>2. ASSUME NEW pk, NEW fc_args, CreateAccountAndClaim(pk, fc_args)
        PROVE  HoldingsTyped'
    <2>1. UNCHANGED <<user_balance, holdings>>
      BY <1>2 DEF CreateAccountAndClaim
    <2> QED
      BY <2>1 DEF HoldingsTyped, holdings
  <1> QED
    BY <1>1, <1>2 DEF ClaimStep

\* The callbacks of a claim.
LEMMA ClaimCallbackFunds ==
    ASSUME Inv, Recorded, HoldingsTyped, SomeClaimCallback
    PROVE  HoldingsTyped'
  <1>1. ASSUME NEW r, NEW lost, OnNewAccountCreated(r, lost)
        PROVE  HoldingsTyped'
    <2> DEFINE t == receipts[r].token_id
               keys == key_info_by_token_id
               claimed == assets_of_last_use(t, keys, receipts[r].fc_args)
    <2>1. /\ parse_token_id(t) \in DOMAIN drop_by_id
          /\ internal_claim_assets_defined(t, keys, claimed)
          /\ internal_claim_assets(t, keys, claimed, <<TRUE>>, lost)
      BY <1>1, FoundDrop DEF OnNewAccountCreated, hand_out, assets_for
    <2> HIDE DEF t, keys
    <2> QED
      BY <2>1, ClaimedFunds
  <1>2. ASSUME NEW r, OnAccountCreationFailed(r)
        PROVE  HoldingsTyped'
    <2> DEFINE t == receipts[r].token_id
               d == parse_token_id(t)
               metadata == last_use_data(drop_by_id[d], key_info_by_token_id[t]).assets_metadata
               refund == cost_of_use(asset_by_id[d], metadata)
    <2>1. /\ d \in DOMAIN drop_by_id /\ UNCHANGED holdings
          /\ \E withdrawn : handle_key_cleanup(t, key_info_by_token_id, asset_by_id[d],
                                               withdrawn, refund, 0)
      BY <1>2, FoundDrop, Zenon DEF OnAccountCreationFailed
    <2>2. refund \in Nat
      BY <2>1, CostOfLastUse
    <2>3. nft_bytes(asset_by_id[d]) \in Nat
      BY <2>1, DropRecords, NftBytesTyped
    <2> HIDE DEF refund, t
    <2>4. PICK withdrawn : handle_key_cleanup(t, key_info_by_token_id, asset_by_id[d],
                                              withdrawn, refund, 0)
      BY <2>1
    <2>5. user_balance' \in [Accounts -> Nat]
      BY <2>1, <2>2, <2>3, <2>4, 0 \in Int, CleanupFunds
    <2> QED
      BY <2>1, <2>5 DEF HoldingsTyped, holdings
  <1>3. ASSUME NEW r, NEW lost, OnAssetsClaimed(r, lost)
        PROVE  HoldingsTyped'
    <2> DEFINE t == receipts[r].token_id
               d == parse_token_id(t)
               promise == receipts[r].promise
               keys == key_info_by_token_id
               token_ids == receipts[r].token_ids
               succeeded == ~has_failed(promise, lost)
    <2>1. /\ r \in DOMAIN receipts /\ receipts[r].kind = "claim"
          /\ lost \subseteq DOMAIN promise.deposits
          /\ settle(<<promise>>, IF succeeded THEN {} ELSE {1})
          /\ vault' = vault + near_back(promise, lost)
          /\ IF on_assets_claimed_defined(t, token_ids, succeeded)
             THEN on_assets_claimed(t, keys, asset_by_id[d], token_ids, <<succeeded>>)
             ELSE UNCHANGED user_balance
      BY <1>3 DEF OnAssetsClaimed, claim_in_flight
    <2>2. PromiseTyped(promise) /\ token_ids \in Seq(TokenOptions) /\ token_ids # << >>
      BY <2>1 DEF Recorded, ReceiptTyped
    <2> HIDE DEF succeeded, promise, t, token_ids
    <2>3. vault' \in Nat
      BY <2>1, <2>2, PromiseCarries DEF HoldingsTyped
    <2>4. ft_held' \in [FtContracts -> Nat] /\ nft_held' \subseteq NftContracts \X NftTokens
      BY <2>1, <2>2, OneSettledFunds
    <2>5. user_balance' \in [Accounts -> Nat]
      <3>1. CASE on_assets_claimed_defined(t, token_ids, succeeded)
        <4> DEFINE metadata == last_use_data(drop_by_id[d], keys[t]).assets_metadata
        <4>1. /\ d \in DOMAIN drop_by_id /\ metadata # << >>
              /\ ~succeeded /\ asset_by_id[d][metadata[1].asset_id].type = "nft" => token_ids[1] # None
          BY <3>1 DEF on_assets_claimed_defined
        <4>2. Becomes(asset_by_id[d], asset_by_id[d]) /\ nft_bytes(asset_by_id[d]) \in Nat
          BY <4>1, SameBecomes, DropRecords, NftBytesTyped
        <4>3. token_ids[1] \in TokenOptions
          BY <2>2, LenProperties, EmptySeq
        <4>4. <<succeeded>> \in {<<TRUE>>, <<FALSE>>} /\ (<<succeeded>> = <<FALSE>> => ~succeeded)
          BY DEF succeeded
        <4>5. on_assets_claimed(t, keys, asset_by_id[d], token_ids, <<succeeded>>)
          BY <2>1, <3>1
        <4>6. PICK updated, withdrawn : \E refund \in Nat :
                  /\ Becomes(updated, asset_by_id[d])
                  /\ handle_key_cleanup(t, keys, updated, withdrawn, refund,
                                        nft_bytes(updated) - nft_bytes(asset_by_id[d]))
          BY <4>1, <4>2, <4>3, <4>4, <4>5, AssetsGivenBack
        <4>7. nft_bytes(updated) \in Nat
          BY <4>1, <4>6, DropRecords, BecomesTyped, NftBytesTyped
        <4>8. nft_bytes(updated) - nft_bytes(asset_by_id[d]) \in Int
          BY <4>2, <4>7
        <4> QED
          BY <4>1, <4>6, <4>7, <4>8, CleanupFunds
      <3>2. CASE ~on_assets_claimed_defined(t, token_ids, succeeded)
        BY <2>1, <3>2 DEF HoldingsTyped
      <3> QED
        BY <3>1, <3>2
    <2> QED
      BY <2>3, <2>4, <2>5 DEF HoldingsTyped
  <1> QED
    BY <1>1, <1>2, <1>3 DEF SomeClaimCallback

-----------------------------------------------------------------------------
(* Tokens, fees and the rest.                                              *)

\* FTs that come, are withdrawn, or come back.
LEMMA FtFunds ==
    ASSUME Recorded, HoldingsTyped,
           \/ \E c \in FtContracts, amount \in FtAmounts : \E d : FtOnTransfer(c, amount, d)
           \/ \E caller, d, c, amount : WithdrawFtBalance(caller, d, c, amount)
           \/ \E r, succeeded : FtResolveRefund(r, succeeded)
    PROVE  HoldingsTyped'
  <1>1. ASSUME NEW c \in FtContracts, NEW amount \in FtAmounts, NEW d, FtOnTransfer(c, amount, d)
        PROVE  HoldingsTyped'
    <2>1. ft_held[c] + amount \in Nat
      BY FtAssumption DEF HoldingsTyped
    <2>2. /\ ft_held' = [ft_held EXCEPT ![c] = @ + amount]
          /\ UNCHANGED <<user_balance, vault, nft_held>>
      BY <1>1 DEF FtOnTransfer
    <2> QED
      BY <2>1, <2>2 DEF HoldingsTyped
  <1>2. ASSUME NEW caller, NEW d, NEW c, NEW amount, WithdrawFtBalance(caller, d, c, amount)
        PROVE  HoldingsTyped'
    <2>1. from_near(1) \in Nat
      BY AmountsAssumption DEF from_near
    <2>2. /\ from_near(1) <= vault /\ vault' = vault - from_near(1)
          /\ UNCHANGED <<user_balance, ft_held, nft_held>>
      BY <1>2 DEF WithdrawFtBalance
    <2>3. vault' \in Nat
      BY <2>1, <2>2 DEF HoldingsTyped
    <2> QED
      BY <2>2, <2>3 DEF HoldingsTyped
  <1>3. ASSUME NEW r, NEW succeeded, FtResolveRefund(r, succeeded)
        PROVE  HoldingsTyped'
    <2> DEFINE promise == receipts[r].promise
    <2>1. /\ r \in DOMAIN receipts /\ receipts[r].kind = "ft_refund"
          /\ settle(<<promise>>, IF succeeded THEN {} ELSE {1})
          /\ vault' = IF succeeded THEN vault ELSE vault + near_of(promise)
          /\ UNCHANGED user_balance
      BY <1>3 DEF FtResolveRefund
    <2>2. PromiseTyped(promise)
      BY <2>1 DEF Recorded, ReceiptTyped
    <2> HIDE DEF promise
    <2>3. ft_held' \in [FtContracts -> Nat] /\ nft_held' \subseteq NftContracts \X NftTokens
      BY <2>1, <2>2, OneSettledFunds
    <2>4. near_of(promise) \in Nat
      BY <2>2, PromiseCarries
    <2>5. vault' \in Nat
      BY <2>1, <2>4 DEF HoldingsTyped
    <2> QED
      BY <2>1, <2>3, <2>5 DEF HoldingsTyped
  <1> QED
    BY <1>1, <1>2, <1>3

\* NFTs that come, are withdrawn, or come back, and their storage with them.
LEMMA NftFunds ==
    ASSUME Inv, Recorded, HoldingsTyped,
           \/ \E c \in NftContracts, token \in NftTokens : \E sender, d : NftOnTransfer(c, token, sender, d)
           \/ \E caller, d, c, tokens : WithdrawNftTokens(caller, d, c, tokens)
           \/ \E r, succeeded : ResolveNftRefund(r, succeeded)
    PROVE  HoldingsTyped'
  <1>1. ASSUME NEW c \in NftContracts, NEW token \in NftTokens, NEW sender, NEW d,
               NftOnTransfer(c, token, sender, d)
        PROVE  HoldingsTyped'
    <2>1. /\ d \in DOMAIN drop_by_id /\ drop_by_id[d].funder_id = sender
          /\ nft_held' = nft_held \cup {<<c, token>>} /\ UNCHANGED <<vault, ft_held>>
          /\ \/ /\ user_balance[sender] >= NftBytes
                /\ user_balance' = [user_balance EXCEPT ![sender] = @ + -NftBytes]
             \/ UNCHANGED user_balance
      BY <1>1 DEF NftOnTransfer, has_asset, internal_modify_user_balance, Inv
    <2>2. sender \in Accounts
      BY <2>1 DEF Inv, Current, Registry, Typed, IsMap, Drop
    <2>3. user_balance' \in [Accounts -> Nat]
      <3>1. user_balance[sender] >= NftBytes => user_balance[sender] + -NftBytes \in Nat
        BY <2>2, StorageAssumption DEF HoldingsTyped
      <3> QED
        BY <2>1, <2>2, <3>1 DEF HoldingsTyped
    <2>4. nft_held' \subseteq NftContracts \X NftTokens
      BY <2>1 DEF HoldingsTyped
    <2> QED
      BY <2>1, <2>3, <2>4 DEF HoldingsTyped
  <1>2. ASSUME NEW caller, NEW d, NEW c, NEW tokens, WithdrawNftTokens(caller, d, c, tokens)
        PROVE  HoldingsTyped'
    <2> DEFINE asset == asset_by_id[d][contract_asset_id(c)]
               paid == Cardinality(tokens) * OneYocto
    <2>1. /\ has_asset(d, contract_asset_id(c)) /\ tokens \subseteq ToSet(asset.token_ids)
          /\ paid <= vault /\ vault' = vault - paid
          /\ UNCHANGED <<user_balance, ft_held, nft_held>>
      BY <1>2 DEF WithdrawNftTokens
    <2>2. asset.token_ids \in Seq(NftTokens)
      BY <2>1, TokenRecord DEF AssetTyped, AssetTypeOK
    <2>3. Cardinality(tokens) \in Nat
      BY <2>1, <2>2, TokensFinite, FS_Subset, FS_CardinalityType
    <2>4. paid \in Nat
      BY <2>3, AmountsAssumption, Products
    <2> HIDE DEF paid, asset
    <2>5. vault' \in Nat
      BY <2>1, <2>4 DEF HoldingsTyped
    <2> QED
      BY <2>1, <2>5 DEF HoldingsTyped
  <1>3. ASSUME NEW r, NEW succeeded, ResolveNftRefund(r, succeeded)
        PROVE  HoldingsTyped'
    <2> DEFINE receipt == receipts[r]
               d == receipt.drop_id
               back == Len(receipt.token_ids) * OneYocto
    <2>1. /\ r \in DOMAIN receipts /\ receipt.kind = "nft_refund"
          /\ nft_held' \subseteq nft_held /\ UNCHANGED ft_held
          /\ vault' = IF succeeded THEN vault ELSE vault + back
          /\ \/ /\ d \in DOMAIN asset_by_id
                /\ \E put_back : internal_modify_user_balance(drop_by_id[d].funder_id,
                                                              storage_to_refund(receipt, put_back))
             \/ UNCHANGED user_balance
      BY <1>3 DEF ResolveNftRefund, has_asset
    <2>2. receipt.token_ids \in Seq(NftTokens) /\ receipt.storage_released \in Nat
      BY <2>1 DEF Recorded, ReceiptTyped
    <2> HIDE DEF receipt
    <2>3. back \in Nat
      BY <2>2, LenProperties, AmountsAssumption, Products
    <2> HIDE DEF back
    <2>4. vault' \in Nat
      BY <2>1, <2>3 DEF HoldingsTyped
    <2>5. user_balance' \in [Accounts -> Nat]
      <3>1. CASE UNCHANGED user_balance
        BY <3>1 DEF HoldingsTyped
      <3>2. ASSUME d \in DOMAIN asset_by_id,
                   NEW put_back, internal_modify_user_balance(drop_by_id[d].funder_id,
                                                              storage_to_refund(receipt, put_back))
            PROVE  user_balance' \in [Accounts -> Nat]
        <4> DEFINE funder_id == drop_by_id[d].funder_id
                   refund == storage_to_refund(receipt, put_back)
        <4>1. funder_id \in Accounts
          BY <3>2 DEF Inv, Current, Registry, Typed, IsMap, Drop
        <4>2. refund \in Nat
          BY <2>2 DEF storage_to_refund
        <4> HIDE DEF funder_id, refund
        <4>3. user_balance' = [user_balance EXCEPT ![funder_id] = @ + refund]
          BY <3>2 DEF internal_modify_user_balance, funder_id, refund
        <4> QED
          BY <4>1, <4>2, <4>3 DEF HoldingsTyped
      <3> QED
        BY <2>1, <3>1, <3>2
    <2>6. nft_held' \subseteq NftContracts \X NftTokens
      BY <2>1 DEF HoldingsTyped
    <2> QED
      BY <2>1, <2>4, <2>5, <2>6 DEF HoldingsTyped
  <1> QED
    BY <1>1, <1>2, <1>3

\* The fees that were collected are paid out of the vault, and may come back.
LEMMA FeeFunds ==
    ASSUME FeeInv, HoldingsTyped, WithdrawFees \/ \E r, succeeded : OnWithdrawFees(r, succeeded)
    PROVE  HoldingsTyped'
  <1>1. CASE WithdrawFees
    <2>1. /\ fees_collected <= vault /\ vault' = vault - fees_collected
          /\ UNCHANGED <<user_balance, ft_held, nft_held>>
      BY <1>1 DEF WithdrawFees
    <2>2. vault' \in Nat
      BY <2>1 DEF FeeInv, HoldingsTyped
    <2> QED
      BY <2>1, <2>2 DEF HoldingsTyped
  <1>2. ASSUME NEW r, NEW succeeded, OnWithdrawFees(r, succeeded)
        PROVE  HoldingsTyped'
    <2>1. /\ r \in DOMAIN receipts /\ receipts[r].kind = "withdraw_fees"
          /\ vault' = vault \/ vault' = vault + receipts[r].amount
          /\ UNCHANGED <<user_balance, ft_held, nft_held>>
      BY <1>2 DEF OnWithdrawFees
    <2>2. receipts[r].amount \in Nat
      BY <2>1 DEF FeeInv, is_fee_receipt
    <2>3. vault' \in Nat
      BY <2>1, <2>2 DEF HoldingsTyped
    <2> QED
      BY <2>1, <2>3 DEF HoldingsTyped
  <1> QED
    BY <1>1, <1>2

\* What is set, who owns a key, what panics and what the time is takes nothing.
LEMMA OtherFunds ==
    ASSUME HoldingsTyped,
           SomeTransfer \/ SomeApproval \/ SettingsStep \/ Tick
           \/ (\E r : OnNewAccountCreatedPanics(r)) \/ UNCHANGED vars
    PROVE  HoldingsTyped'
  <1>1. UNCHANGED <<user_balance, holdings>>
    <2>1. CASE SomeTransfer
      BY <2>1 DEF SomeTransfer, internal_transfer
    <2>2. CASE SomeApproval
      BY <2>2 DEF SomeApproval, NftApprove
    <2>3. CASE SettingsStep
      BY <2>3 DEF SettingsStep, FreezeContract, UnfreezeContract, SetRootAccount, SetFees,
                  SetFeesPerUser, AddSigningAdmin, AddSigningPks, RemoveSigningPks,
                  besides_signing, besides_settings
    <2>4. CASE Tick
      BY <2>4 DEF Tick
    <2>5. ASSUME NEW r, OnNewAccountCreatedPanics(r)
          PROVE  UNCHANGED <<user_balance, holdings>>
      BY <2>5 DEF OnNewAccountCreatedPanics, CallbackPanics
    <2>6. CASE UNCHANGED vars
      BY <2>6 DEF vars
    <2> QED
      BY <2>1, <2>2, <2>3, <2>4, <2>5, <2>6
  <1> QED
    BY <1>1 DEF HoldingsTyped, holdings

-----------------------------------------------------------------------------
(* The settings and the funders' metadata.                                 *)

SettingsTyped ==
    /\ global_freeze \in BOOLEAN
    /\ DOMAIN fees_per_user \subseteq Accounts
    /\ fees_per_user = [a \in DOMAIN fees_per_user |-> fees_per_user[a]]
    /\ funder_metadata \in [Accounts -> AmountOptions]
    /\ DOMAIN receipts \subseteq ReceiptIds

\* The owner freezes the contract and sets the fees of a funder.
SettingsSet ==
    /\ UNCHANGED global_freeze \/ global_freeze' \in BOOLEAN
    /\ \/ UNCHANGED fees_per_user
       \/ \E account \in Accounts : \E fees : fees_per_user' = With(fees_per_user, account, fees)

\* A funder sets metadata.
MetadataSet ==
    \/ UNCHANGED funder_metadata
    \/ \E caller \in Accounts, metadata \in MetadataChoices :
          internal_modify_user_metadata(caller, metadata)

\* Only the owner's calls change what the owner sets, and only the funders' what they set.
LEMMA SettingsChange == ASSUME [Next]_vars PROVE SettingsSet /\ MetadataSet
  <1>1. ASSUME UNCHANGED chosen_settings PROVE SettingsSet
    BY <1>1 DEF chosen_settings, SettingsSet
  <1>2. ASSUME UNCHANGED settings PROVE SettingsSet /\ MetadataSet
    BY <1>1, <1>2 DEF settings, MetadataSet
  <1>3. CASE OwnerStep
    <2>1. MetadataSet
      BY <1>3 DEF OwnerStep, FreezeContract, UnfreezeContract, SetRootAccount, SetFees, SetFeesPerUser,
                  WithdrawFees, besides_settings, settings, MetadataSet
    <2>2. CASE FreezeContract \/ UnfreezeContract
      <3>1. global_freeze' \in BOOLEAN /\ UNCHANGED fees_per_user
        BY <2>2, Zenon DEF FreezeContract, UnfreezeContract
      <3> QED
        BY <2>1, <3>1 DEF SettingsSet
    <2>3. CASE (\E account : SetRootAccount(account)) \/ \E drop_fee, key_fee : SetFees(drop_fee, key_fee)
      <3>1. UNCHANGED <<global_freeze, fees_per_user>>
        BY <2>3 DEF SetRootAccount, SetFees
      <3> QED
        BY <2>1, <3>1 DEF SettingsSet
    <2>4. ASSUME NEW account \in Funders, NEW drop_fee, NEW key_fee,
                 SetFeesPerUser(account, drop_fee, key_fee)
          PROVE  SettingsSet
      BY <2>4, AccountsAssumption DEF SetFeesPerUser, SettingsSet
    <2>5. CASE WithdrawFees
      BY <1>2, <2>5 DEF WithdrawFees
    <2> QED
      BY <1>3, <2>1, <2>2, <2>3, <2>4, <2>5 DEF OwnerStep
  <1>4. CASE AdminStep
    BY <1>4 DEF AdminStep, AddSigningAdmin, AddSigningPks, RemoveSigningPks, besides_signing,
                besides_settings, SettingsSet, MetadataSet
  <1>5. CASE FunderStep
    <2>1. PICK caller \in Accounts : DropCall(caller) \/ BalanceCall(caller)
      BY <1>5 DEF FunderStep
    <2>2. ASSUME NEW batch, NEW deposit, NEW keep, NEW metadata \in {None} \cup MetadataChoices,
                 NEW on_success, NEW call_fails,
                 CreateDropBatch(caller, batch, deposit, keep, metadata, on_success, call_fails)
          PROVE  SettingsSet /\ MetadataSet
      <3>1. /\ UNCHANGED chosen_settings
            /\ IF metadata # None THEN internal_modify_user_metadata(caller, metadata)
               ELSE UNCHANGED funder_metadata
        BY <2>2 DEF CreateDropBatch
      <3> QED
        BY <1>1, <3>1 DEF MetadataSet
    <2>3. ASSUME NEW metadata \in MetadataChoices, NEW deposit, SetFunderMetadata(caller, metadata, deposit)
          PROVE  SettingsSet /\ MetadataSet
      BY <1>1, <2>3 DEF SetFunderMetadata, MetadataSet
    <2>4. ASSUME NEW d, NEW shape, NEW key_data, NEW deposit, NEW keep,
                 \/ CreateDrop(caller, d, shape, key_data, deposit, keep)
                 \/ AddKeys(caller, d, key_data, deposit, keep)
          PROVE  UNCHANGED settings
      BY <2>4 DEF CreateDrop, AddKeys
    <2>5. ASSUME NEW d, NEW pks, NEW keep_empty_drop, DeleteKeys(caller, d, pks, keep_empty_drop)
          PROVE  UNCHANGED settings
      BY <2>5 DEF DeleteKeys
    <2>6. ASSUME NEW amount, AddToBalance(caller, amount) \/ WithdrawFromBalance(caller, amount)
          PROVE  UNCHANGED settings
      BY <2>6 DEF AddToBalance, WithdrawFromBalance
    <2> QED
      BY <1>2, <2>1, <2>2, <2>3, <2>4, <2>5, <2>6 DEF DropCall, BalanceCall
  <1>6. CASE ClaimStep
    BY <1>2, <1>6 DEF ClaimStep, Claim, CreateAccountAndClaim
  <1>7. CASE TokenStep
    BY <1>2, <1>7 DEF TokenStep, FtOnTransfer, WithdrawFtBalance, NftOnTransfer, WithdrawNftTokens
  <1>8. CASE KeyStep
    BY <1>2, <1>8 DEF KeyStep, NftTransfer, NftTransferPayout, internal_transfer, NftApprove
  <1>9. CASE \E r \in DOMAIN receipts : Callback(r)
    BY <1>2, <1>9 DEF Callback, OnNewAccountCreated, OnAccountCreationFailed, OnNewAccountCreatedPanics,
                      CallbackPanics, OnAssetsClaimed, FtResolveRefund, ResolveNftRefund, OnWithdrawFees
  <1>10. CASE Tick \/ UNCHANGED vars
    BY <1>2, <1>10 DEF Tick, vars
  <1> QED
    BY <1>3, <1>4, <1>5, <1>6, <1>7, <1>8, <1>9, <1>10 DEF Next

\* Metadata that is appended to metadata is metadata.
LEMMA MetadataAppended ==
    ASSUME NEW old \in AmountOptions, NEW new \in AmountOptions, can_append_metadata(old, new)
    PROVE  metadata_appended(old, new) \in AmountOptions
  <1>1. CASE old = None
    BY <1>1 DEF metadata_appended
  <1>2. CASE old # None
    <2>1. unwrap(old) + unwrap(new) \in Nat
      BY <1>2, OptionAmounts DEF can_append_metadata
    <2> HIDE DEF AmountOptions
    <2>2. metadata_appended(old, new) = Some(unwrap(old) + unwrap(new))
      BY <1>2 DEF metadata_appended
    <2> QED
      BY <2>1, <2>2 DEF AmountOptions
  <1> QED
    BY <1>1, <1>2

\* So the settings keep their types.
LEMMA SettingsStayTyped == SettingsTyped /\ [Next]_vars => SettingsTyped'
  <1> SUFFICES ASSUME SettingsTyped, [Next]_vars PROVE SettingsTyped'
    OBVIOUS
  <1>1. SettingsSet /\ MetadataSet
    BY SettingsChange
  <1>2. global_freeze' \in BOOLEAN
    BY <1>1 DEF SettingsSet, SettingsTyped
  <1>3. /\ DOMAIN fees_per_user' \subseteq Accounts
        /\ fees_per_user' = [a \in DOMAIN fees_per_user' |-> fees_per_user'[a]]
    <2>1. CASE UNCHANGED fees_per_user
      BY <2>1 DEF SettingsTyped
    <2>2. ASSUME NEW account \in Accounts, NEW fees, fees_per_user' = With(fees_per_user, account, fees)
          PROVE  /\ DOMAIN fees_per_user' \subseteq Accounts
                 /\ fees_per_user' = [a \in DOMAIN fees_per_user' |-> fees_per_user'[a]]
      BY <2>2 DEF SettingsTyped, With
    <2> QED
      BY <1>1, <2>1, <2>2 DEF SettingsSet
  <1>4. funder_metadata' \in [Accounts -> AmountOptions]
    <2>1. CASE UNCHANGED funder_metadata
      BY <2>1 DEF SettingsTyped
    <2>2. ASSUME NEW caller \in Accounts, NEW metadata \in MetadataChoices,
                 internal_modify_user_metadata(caller, metadata)
          PROVE  funder_metadata' \in [Accounts -> AmountOptions]
      <3>1. metadata_appended(funder_metadata[caller], metadata) \in AmountOptions
        BY <2>2, ChosenOptions, MetadataAppended DEF internal_modify_user_metadata, SettingsTyped
      <3> QED
        BY <2>2, <3>1 DEF internal_modify_user_metadata, SettingsTyped
    <2> QED
      BY <1>1, <2>1, <2>2 DEF MetadataSet
  <1>5. DOMAIN receipts' \subseteq ReceiptIds
    BY ReceiptsComeSingly DEF OneMoreReceipt, SettingsTyped
  <1> QED
    BY <1>2, <1>3, <1>4, <1>5 DEF SettingsTyped

-----------------------------------------------------------------------------
(* Every variable has its type.                                            *)

\* Every step leaves amounts: one case for each kind of operation.
LEMMA HoldingsStayTyped ==
    Inv /\ FinitelyMany /\ FeeInv /\ Recorded /\ HoldingsTyped /\ [Next]_vars => HoldingsTyped'
  <1> SUFFICES ASSUME Inv, FinitelyMany, FeeInv, Recorded, HoldingsTyped, [Next]_vars
               PROVE  HoldingsTyped'
    OBVIOUS
  <1>1. CASE FunderStep
    BY <1>1, FunderFunds
  <1>2. CASE ClaimStep
    BY <1>2, ClaimFunds
  <1>3. CASE TokenStep
    BY <1>3, FtFunds, NftFunds DEF TokenStep
  <1>4. CASE KeyStep
    BY <1>4, OtherFunds DEF KeyStep, SomeTransfer, SomeApproval, NftTransfer, NftTransferPayout
  <1>5. CASE \E r \in DOMAIN receipts : Callback(r)
    BY <1>5, ClaimCallbackFunds, FtFunds, NftFunds, FeeFunds, OtherFunds DEF Callback, SomeClaimCallback
  <1>6. CASE OwnerStep
    BY <1>6, FeeFunds, OtherFunds DEF OwnerStep, SettingsStep
  <1>7. CASE AdminStep
    BY <1>7, OtherFunds DEF AdminStep, SettingsStep
  <1> QED
    BY <1>1, <1>2, <1>3, <1>4, <1>5, <1>6, <1>7, OtherFunds DEF Next

\* Nothing is held at first.
LEMMA InitTyped == Init => HoldingsTyped /\ SettingsTyped
  <1>1. Init => SettingsTyped
    BY DEF Init, SettingsTyped, AmountOptions, EmptyMap
  <1>2. Init => HoldingsTyped
    BY DEF Init, HoldingsTyped
  <1> QED
    BY <1>1, <1>2

\* An option holds at most one amount.
LEMMA AmountOrNone ==
    \A option \in AmountOptions : option \subseteq Nat /\ Cardinality(option) <= 1
  <1> SUFFICES ASSUME NEW option \in AmountOptions
               PROVE  option \subseteq Nat /\ Cardinality(option) <= 1
    OBVIOUS
  <1>1. CASE option = None
    BY <1>1, FS_EmptySet DEF None
  <1>2. CASE option # None
    <2>1. PICK n \in Nat : option = {n}
      BY <1>2 DEF AmountOptions, Some
    <2>2. Cardinality({n}) = 1
      BY FS_Singleton
    <2> QED
      BY <2>1, <2>2
  <1> QED
    BY <1>1, <1>2

\* What the parts say together.
LEMMA PartsAreTypeOK ==
    Inv /\ RegistryTypeOK /\ FeeInv /\ Recorded /\ HoldingsTyped /\ SettingsTyped => TypeOK
  <1> SUFFICES ASSUME Inv, RegistryTypeOK, FeeInv, Recorded, HoldingsTyped, SettingsTyped
               PROVE  TypeOK
    OBVIOUS
  <1>1. \A d \in DOMAIN asset_by_id : \A a \in DOMAIN asset_by_id[d] : AssetTypeOK(asset_by_id[d][a])
    BY DropRecords DEF Inv, RecordsTyped, AssetTyped
  <1>2. IsMap(fees_per_user, Accounts, [per_drop : Nat, per_key : Nat])
    BY DEF FeeInv, Fees, SettingsTyped, IsMap
  <1>3. ASSUME NEW a \in Accounts
        PROVE  funder_metadata[a] \subseteq Nat /\ Cardinality(funder_metadata[a]) <= 1
    BY AmountOrNone DEF SettingsTyped
  <1> QED
    BY <1>1, <1>2, <1>3 DEF Inv, FeeInv, Fees, HoldingsTyped, SettingsTyped, TypeOK

\* Every variable has its type at all times, whatever is called in whatever
\* order and whichever promises fail: in particular no funder's balance, no
\* balance of a token and not the contract's own is ever below zero, so that
\* no amount, which is unsigned in the code (funder_info.rs, internals/, and
\* the assets' modules), wraps around or makes a call panic in a callback.
THEOREM TypeOKHolds == Spec => []TypeOK
  <1>1. SettingsTyped /\ [Next]_vars => SettingsTyped'
    BY SettingsStayTyped
  <1>2. Spec => []FeeInv
    BY InitFees, FeesStep, PTL DEF Spec
  <1>3. Spec => []HoldingsTyped
    BY InitTyped, HoldingsStayTyped, InvAlways, FinitelyManyAlways, <1>2, RecordedAlways, PTL DEF Spec
  <1>4. Spec => []SettingsTyped
    BY InitTyped, <1>1, PTL DEF Spec
  <1> QED
    BY InvAlways, RegistryTyped, <1>2, RecordedAlways, <1>3, <1>4, PartsAreTypeOK, PTL

=============================================================================
